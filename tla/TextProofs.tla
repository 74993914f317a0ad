----------------------------- MODULE TextProofs -----------------------------
(***************************************************************************)
(* What cutting and joining texts computes, for texts of any length and    *)
(* any characters: the lemmas on TextPieces and on FlattenSeq that the     *)
(* proofs about the comparator and about the filters of the catalog need.  *)
(*                                                                         *)
(* Cutting counts the marks, so that the cuts are numbered in order        *)
(* (FiniteNumbered) is all it needs.  FlattenSeq is a recursive function;  *)
(* what it returns follows from its equation: where that takes induction,  *)
(* over the parts joined so far, a smallest counterexample is taken        *)
(* (Smallest).  That a joined text gives its parts back (PiecesOfJoined)   *)
(* follows because a text consists of parts without marks in one way only  *)
(* (BlocksOnce).                                                           *)
(***************************************************************************)
EXTENDS TextPieces, FiniteSetTheorems, SequenceTheorems, WellFoundedInduction, TLAPS

-----------------------------------------------------------------------------
(* Smallest and greatest numbers.                                          *)

\* A non-empty set of natural numbers has a smallest element.
LEMMA Smallest ==
    ASSUME NEW S \in SUBSET Nat, S # {}
    PROVE  \E x \in S : \A y \in S : x <= y
  <1>. DEFINE less == {pair \in Nat \X Nat : pair[1] < pair[2]}
  <1>1. IsWellFoundedOn(less, Nat)  BY NatLessThanWellFounded DEF OpToRel
  <1>2. PICK x \in S : \A y \in S : <<y, x>> \notin less
    <2>. HIDE DEF less
    <2>. QED  BY <1>1, WFMin
  <1>3. ASSUME NEW y \in S PROVE x <= y
    <2>1. x \in Nat /\ y \in Nat /\ ~(y < x)  BY <1>2
    <2>. QED  BY <2>1
  <1>. QED  BY <1>3

\* A bounded, non-empty set of integers has a maximum.
LEMMA MaxIs ==
    ASSUME NEW S \in SUBSET Int, S # {}, NEW m \in Int, \A x \in S : x <= m
    PROVE  Max(S) \in S /\ \A x \in S : x <= Max(S)
  <1>. DEFINE gaps == {m - x : x \in S}
  <1>1. gaps \in SUBSET Nat /\ gaps # {}
    <2>1. \A g \in gaps : g \in Nat  OBVIOUS
    <2>2. PICK x \in S : TRUE  OBVIOUS
    <2>3. m - x \in gaps  OBVIOUS
    <2>. HIDE DEF gaps
    <2>. QED  BY <2>1, <2>3
  <1>2. PICK g \in gaps : \A y \in gaps : g <= y
    <2>. HIDE DEF gaps
    <2>. QED  BY <1>1, Smallest
  <1>3. PICK z \in S : g = m - z  OBVIOUS
  <1>4. ASSUME NEW x \in S PROVE z >= x
    <2>1. m - x \in gaps  OBVIOUS
    <2>2. m - z <= m - x  BY <1>2, <1>3, <2>1
    <2>. QED  BY <2>2
  <1>5. \E x \in S : \A y \in S : x >= y  BY <1>4
  <1>6. Max(S) \in S /\ \A y \in S : Max(S) >= y  BY <1>5 DEF Max
  <1>. QED  BY <1>6

\* A bounded, non-empty set of natural numbers has a minimum.
LEMMA MinIs ==
    ASSUME NEW S \in SUBSET Nat, S # {}
    PROVE  Min(S) \in S /\ \A x \in S : Min(S) <= x
  <1>1. \E x \in S : \A y \in S : x <= y  BY Smallest
  <1>. QED  BY <1>1 DEF Min

-----------------------------------------------------------------------------
(* Joining.                                                                *)

\* What the community module computes when it joins sequences.
IsJoined(f, parts, n) == f = [i \in 1..n |-> IF i = 1 THEN parts[i] ELSE f[i - 1] \o parts[i]]

\* Such a function exists, for any number of parts.
LEMMA SomeJoined ==
    ASSUME NEW parts, NEW n \in Nat
    PROVE  \E f : IsJoined(f, parts, n)
  <1>. DEFINE Fails == {m \in Nat : ~\E f : IsJoined(f, parts, m)}
  <1>1. Fails = {}
    <2>1. SUFFICES ASSUME Fails # {} PROVE FALSE  OBVIOUS
    <2>2. PICK m \in Fails : \A k \in Fails : m <= k
      <3>1. Fails \in SUBSET Nat  OBVIOUS
      <3>. HIDE DEF Fails
      <3>. QED  BY <2>1, <3>1, Smallest
    <2>3. m \in Nat /\ ~\E f : IsJoined(f, parts, m)  OBVIOUS
    <2>4. m # 0
      <3>1. IsJoined([i \in 1..0 |-> 0], parts, 0)  BY DEF IsJoined
      <3>. QED  BY <2>3, <3>1
    <2>5. m - 1 \in Nat /\ m - 1 \notin Fails  BY <2>2, <2>3, <2>4
    <2>6. PICK f : IsJoined(f, parts, m - 1)  BY <2>5
    <2>. DEFINE F(i) == IF i = 1 THEN parts[i] ELSE f[i - 1] \o parts[i]
                g == [i \in 1..m |-> F(i)]
                G(i) == IF i = 1 THEN parts[i] ELSE g[i - 1] \o parts[i]
    <2>7. f = [i \in 1..(m - 1) |-> F(i)]  BY <2>6 DEF IsJoined
    <2>8. \A i \in 1..(m - 1) : f[i] = F(i) /\ g[i] = F(i)
      <3>. HIDE DEF F
      <3>. QED  BY <2>3, <2>7
    <2>9. \A i \in 1..m : G(i) = F(i)
      <3>1. \A i \in 1..m : i # 1 => i - 1 \in 1..(m - 1)  BY <2>3
      <3>2. \A i \in 1..m : i # 1 => f[i - 1] = g[i - 1]
        <4>. HIDE DEF g, F
        <4>. QED  BY <2>8, <3>1
      <3>. HIDE DEF g
      <3>. QED  BY <3>2
    <2>10. g = [i \in 1..m |-> G(i)]
      <3>1. g = [i \in 1..m |-> F(i)]  OBVIOUS
      <3>. HIDE DEF F, G, g
      <3>. QED  BY <2>9, <3>1
    <2>. HIDE DEF g
    <2>11. IsJoined(g, parts, m)  BY <2>10 DEF IsJoined
    <2>. QED  BY <2>3, <2>11
  <1>. QED  BY <1>1

\* FlattenSeq takes such a function, and its last value is the result.
LEMMA FlattenIs ==
    ASSUME NEW parts, NEW n \in Nat \ {0}, Len(parts) = n
    PROVE  \E f : IsJoined(f, parts, n) /\ FlattenSeq(parts) = f[n]
  <1>. DEFINE h == CHOOSE f : f = [i \in 1..n |-> IF i = 1 THEN parts[i] ELSE f[i - 1] \o parts[i]]
  <1>1. FlattenSeq(parts) = h[n]  BY DEF FlattenSeq
  <1>2. h = CHOOSE f : IsJoined(f, parts, n)  BY DEF IsJoined
  <1>3. IsJoined(h, parts, n)
    <2>. HIDE DEF h
    <2>. QED  BY <1>2, SomeJoined
  <1>. QED  BY <1>1, <1>3

\* There is one function that joins the parts.
LEMMA OneJoined ==
    ASSUME NEW parts, NEW n \in Nat, NEW f, NEW g, IsJoined(f, parts, n), IsJoined(g, parts, n)
    PROVE  f = g
  <1>. DEFINE differ == {i \in 1..n : f[i] # g[i]}
              F(i) == IF i = 1 THEN parts[i] ELSE f[i - 1] \o parts[i]
              G(i) == IF i = 1 THEN parts[i] ELSE g[i - 1] \o parts[i]
  <1>1. f = [i \in 1..n |-> F(i)] /\ g = [i \in 1..n |-> G(i)]  BY DEF IsJoined
  <1>2. \A i \in 1..n : f[i] = F(i) /\ g[i] = G(i)
    <2>. HIDE DEF F, G
    <2>. QED  BY <1>1
  <1>3. differ = {}
    <2>1. SUFFICES ASSUME differ # {} PROVE FALSE  OBVIOUS
    <2>2. PICK i \in differ : \A j \in differ : i <= j
      <3>1. differ \in SUBSET Nat  OBVIOUS
      <3>. HIDE DEF differ
      <3>. QED  BY <2>1, <3>1, Smallest
    <2>3. i \in 1..n /\ f[i] # g[i]  OBVIOUS
    <2>4. i # 1  BY <1>2, <2>3
    <2>5. i - 1 \in 1..n /\ ~(i <= i - 1)  BY <2>3, <2>4
    <2>6. f[i - 1] = g[i - 1]  BY <2>2, <2>5
    <2>. QED  BY <1>2, <2>3, <2>4, <2>6
  <1>4. f = [i \in 1..n |-> f[i]] /\ g = [i \in 1..n |-> g[i]]
    <2>. HIDE DEF F, G
    <2>. QED  BY <1>1
  <1>5. \A i \in 1..n : f[i] = g[i]  BY <1>3
  <1>. QED  BY <1>4, <1>5

\* So a function that joins them shows what FlattenSeq returns.
LEMMA FlattenOf ==
    ASSUME NEW parts, NEW n \in Nat \ {0}, Len(parts) = n, NEW g, IsJoined(g, parts, n)
    PROVE  FlattenSeq(parts) = g[n]
  <1>1. PICK f : IsJoined(f, parts, n) /\ FlattenSeq(parts) = f[n]  BY FlattenIs
  <1>2. f = g  BY <1>1, OneJoined
  <1>. QED  BY <1>1, <1>2

\* Sequences over C, the first n of s.
Parts(s, n, C) == \A i \in 1..n : s[i] \in Seq(C)

\* What f[i] is: the first i parts of s, joined.
JoinedUpTo(f, s, n, C) ==
    /\ f \in [1..n -> Seq(C)]
    /\ f[1] = s[1]
    /\ \A i \in 2..n : f[i] = f[i - 1] \o s[i]
    /\ \A i \in 1..n : Len(f[i]) <= Len(f[n]) /\ \A k \in 1..Len(f[i]) : f[n][k] = f[i][k]

\* The function that joins the parts joins them one by one.
LEMMA JoinedParts ==
    ASSUME NEW C, NEW n \in Nat \ {0}, NEW s, Parts(s, n, C), NEW f, IsJoined(f, s, n)
    PROVE  JoinedUpTo(f, s, n, C)
  <1>. DEFINE F(i) == IF i = 1 THEN s[i] ELSE f[i - 1] \o s[i]
  <1>1. f = [i \in 1..n |-> F(i)]  BY DEF IsJoined
  <1>2. f = [i \in 1..n |-> f[i]] /\ \A i \in 1..n : f[i] = F(i)
    <2>. HIDE DEF F
    <2>. QED  BY <1>1
  <1>3. f[1] = s[1] /\ \A i \in 2..n : f[i] = f[i - 1] \o s[i]
    <2>1. 1 \in 1..n /\ \A i \in 2..n : i \in 1..n /\ i # 1  OBVIOUS
    <2>. QED  BY <1>2, <2>1
  <1>. DEFINE Odd == {i \in 1..n : f[i] \notin Seq(C)}
  <1>4. Odd = {}
    <2>1. SUFFICES ASSUME Odd # {} PROVE FALSE  OBVIOUS
    <2>2. PICK i \in Odd : \A j \in Odd : i <= j
      <3>1. Odd \in SUBSET Nat  OBVIOUS
      <3>. HIDE DEF Odd
      <3>. QED  BY <2>1, <3>1, Smallest
    <2>3. i \in 1..n /\ f[i] \notin Seq(C)  OBVIOUS
    <2>4. i # 1  BY <1>3, <2>3 DEF Parts
    <2>5. i \in 2..n /\ i - 1 \in 1..n /\ ~(i <= i - 1)  BY <2>3, <2>4
    <2>6. f[i - 1] \in Seq(C)  BY <2>2, <2>5
    <2>7. f[i] = f[i - 1] \o s[i] /\ s[i] \in Seq(C)  BY <1>3, <2>3, <2>5 DEF Parts
    <2>8. f[i] \in Seq(C)  BY <2>6, <2>7, ConcatProperties
    <2>. QED  BY <2>3, <2>8
  <1>5. f \in [1..n -> Seq(C)]
    <2>1. \A i \in 1..n : f[i] \in Seq(C)  BY <1>4
    <2>. QED  BY <1>2, <2>1
  <1>. DEFINE Starts(i) == Len(f[i]) <= Len(f[n]) /\ \A k \in 1..Len(f[i]) : f[n][k] = f[i][k]
              Late == {m \in 0..(n - 1) : ~Starts(n - m)}
  <1>6. Late = {}
    <2>1. SUFFICES ASSUME Late # {} PROVE FALSE  OBVIOUS
    <2>2. PICK m \in Late : \A j \in Late : m <= j
      <3>1. Late \in SUBSET Nat  OBVIOUS
      <3>. HIDE DEF Late
      <3>. QED  BY <2>1, <3>1, Smallest
    <2>3. m \in 0..(n - 1) /\ ~Starts(n - m)  OBVIOUS
    <2>4. m # 0
      <3>1. n \in 1..n  OBVIOUS
      <3>2. Len(f[n]) \in Nat  BY <1>5, <3>1, LenProperties
      <3>3. Starts(n)  BY <3>2
      <3>4. ~Starts(n - m)  BY <2>3
      <3>5. m = 0 => n - m = n  OBVIOUS
      <3>. HIDE DEF Starts
      <3>. QED  BY <3>3, <3>4, <3>5
    <2>5. m - 1 \in 0..(n - 1) /\ ~(m <= m - 1) /\ n - (m - 1) = (n - m) + 1  BY <2>3, <2>4
    <2>6. Starts((n - m) + 1)
      <3>1. m - 1 \notin Late
        <4>. HIDE DEF Late
        <4>. QED  BY <2>2, <2>5
      <3>2. Starts(n - (m - 1))  BY <2>5, <3>1
      <3>. HIDE DEF Starts
      <3>. QED  BY <2>5, <3>2
    <2>. DEFINE i == n - m
    <2>7. i \in 1..n /\ i + 1 \in 2..n /\ (i + 1) - 1 = i /\ i + 1 \in 1..n /\ n \in 1..n  BY <2>3, <2>4
    <2>. HIDE DEF i
    <2>8. f[i + 1] = f[i] \o s[i + 1]  BY <1>3, <2>7
    <2>9. f[i] \in Seq(C) /\ s[i + 1] \in Seq(C) /\ f[n] \in Seq(C)  BY <1>5, <2>7 DEF Parts
    <2>10. Len(f[i]) \in Nat /\ Len(s[i + 1]) \in Nat /\ Len(f[n]) \in Nat  BY <2>9, LenProperties
    <2>11. /\ Len(f[i + 1]) = Len(f[i]) + Len(s[i + 1])
           /\ \A k \in 1..(Len(f[i]) + Len(s[i + 1])) :
                 f[i + 1][k] = IF k <= Len(f[i]) THEN f[i][k] ELSE s[i + 1][k - Len(f[i])]
      <3>. DEFINE u == f[i]
                  v == s[i + 1]
      <3>1. u \in Seq(C) /\ v \in Seq(C) /\ f[i + 1] = u \o v  BY <2>8, <2>9
      <3>. HIDE DEF u, v
      <3>2. /\ Len(u \o v) = Len(u) + Len(v)
            /\ \A k \in 1..(Len(u) + Len(v)) : (u \o v)[k] = IF k <= Len(u) THEN u[k] ELSE v[k - Len(u)]
        BY <3>1, ConcatProperties
      <3>. QED  BY <3>1, <3>2 DEF u, v
    <2>12. Len(f[i + 1]) <= Len(f[n]) /\ \A k \in 1..Len(f[i + 1]) : f[n][k] = f[i + 1][k]  BY <2>6 DEF i
    <2>. DEFINE a == Len(f[i])
                b == Len(s[i + 1])
                c == Len(f[n])
    <2>13. Len(f[i + 1]) = a + b /\ a + b <= c  BY <2>11, <2>12
    <2>14. \A k \in 1..(a + b) : f[n][k] = IF k <= a THEN f[i][k] ELSE s[i + 1][k - a]  BY <2>11, <2>12
    <2>0. a \in Nat /\ b \in Nat /\ c \in Nat  BY <2>10
    <2>15. a <= c /\ \A k \in 1..a : f[n][k] = f[i][k]
      <3>. HIDE DEF a, b, c
      <3>1. a <= c /\ \A k \in 1..a : k \in 1..(a + b) /\ k <= a  BY <2>0, <2>13
      <3>. QED  BY <2>14, <3>1
    <2>16. Starts(i)  BY <2>15
    <2>. QED  BY <2>3, <2>16 DEF i
  <1>7. \A i \in 1..n : Starts(i)
    <2>1. SUFFICES ASSUME NEW i \in 1..n PROVE Starts(i)  OBVIOUS
    <2>2. n - i \in 0..(n - 1) /\ n - (n - i) = i  OBVIOUS
    <2>3. n - i \notin Late  BY <1>6
    <2>. QED  BY <2>2, <2>3
  <1>. QED  BY <1>3, <1>5, <1>7 DEF JoinedUpTo

\* A text that consists of the first n parts of s, the j-th behind at[j].
Placed(text, at, s, n) ==
    /\ Len(text) \in Nat
    /\ at \in [1..(n + 1) -> 0..Len(text)]
    /\ at[1] = 0
    /\ at[n + 1] = Len(text)
    /\ \A j \in 1..n : at[j + 1] = at[j] + Len(s[j]) /\ \A c \in 1..Len(s[j]) : text[at[j] + c] = s[j][c]

\* FlattenSeq puts the parts one behind the other.
LEMMA FlattenPlaces ==
    ASSUME NEW C, NEW n \in Nat \ {0}, NEW s, Parts(s, n, C), Len(s) = n
    PROVE  FlattenSeq(s) \in Seq(C) /\ \E at : Placed(FlattenSeq(s), at, s, n)
  <1>. DEFINE text == FlattenSeq(s)
              size(j) == Len(s[j])
  <1>1. \A j \in 1..n : s[j] \in Seq(C) /\ size(j) \in Nat  BY LenProperties DEF Parts
  <1>2. PICK f : IsJoined(f, s, n) /\ text = f[n]  BY FlattenIs
  <1>. HIDE DEF text
  <1>. DEFINE L(i) == Len(f[i])
              z == Len(f[n])
  <1>3. /\ f \in [1..n -> Seq(C)]
        /\ f[1] = s[1]
        /\ \A i \in 2..n : f[i] = f[i - 1] \o s[i]
        /\ \A i \in 1..n : L(i) <= z /\ \A k \in 1..L(i) : text[k] = f[i][k]
    <2>1. /\ f \in [1..n -> Seq(C)]
          /\ f[1] = s[1]
          /\ \A i \in 2..n : f[i] = f[i - 1] \o s[i]
          /\ \A i \in 1..n : Len(f[i]) <= Len(f[n]) /\ \A k \in 1..Len(f[i]) : f[n][k] = f[i][k]
      <3>1. JoinedUpTo(f, s, n, C)
        <4>. HIDE DEF L, z, size
        <4>. QED  BY <1>2, JoinedParts
      <3>. QED  BY <3>1 DEF JoinedUpTo
    <2>2. \A i \in 1..n : L(i) <= z /\ \A k \in 1..L(i) : text[k] = f[i][k]  BY <1>2, <2>1
    <2>. QED  BY <2>1, <2>2
  <1>4. z \in Nat /\ \A i \in 1..n : L(i) \in Nat
    <2>1. n \in 1..n  OBVIOUS
    <2>. QED  BY <1>3, <2>1, LenProperties
  <1>5. L(1) = size(1) /\ \A i \in 2..n : L(i) = L(i - 1) + size(i)
    <2>1. \A i \in 2..n : i \in 1..n /\ i - 1 \in 1..n  OBVIOUS
    <2>2. ASSUME NEW i \in 2..n PROVE L(i) = L(i - 1) + size(i)
      <3>1. f[i] = f[i - 1] \o s[i] /\ f[i - 1] \in Seq(C) /\ s[i] \in Seq(C)  BY <1>1, <1>3, <2>1
      <3>. QED  BY <3>1, ConcatProperties
    <2>. QED  BY <1>3, <2>2
  <1>. DEFINE before(j) == IF j = 1 THEN 0 ELSE L(j - 1)
              at == [j \in 1..(n + 1) |-> before(j)]
  <1>6. \A j \in 1..(n + 1) : before(j) \in 0..z
    <2>1. \A j \in 1..(n + 1) : j # 1 => j - 1 \in 1..n  OBVIOUS
    <2>. HIDE DEF L, z
    <2>. QED  BY <1>3, <1>4, <2>1
  <1>7. \A j \in 1..n : before(j + 1) = before(j) + size(j)
    <2>1. SUFFICES ASSUME NEW j \in 1..n PROVE before(j + 1) = before(j) + size(j)  OBVIOUS
    <2>2. j + 1 # 1 /\ (j + 1) - 1 = j  OBVIOUS
    <2>3. CASE j = 1
      <3>. HIDE DEF L, size
      <3>. QED  BY <1>1, <1>5, <2>1, <2>2, <2>3
    <2>4. CASE j # 1
      <3>1. j \in 2..n  BY <2>4
      <3>. HIDE DEF L, size
      <3>. QED  BY <1>5, <2>2, <2>4, <3>1
    <2>. QED  BY <2>3, <2>4
  <1>8. \A j \in 1..n : \A c \in 1..size(j) : text[before(j) + c] = s[j][c]
    <2>1. SUFFICES ASSUME NEW j \in 1..n, NEW c \in 1..size(j) PROVE text[before(j) + c] = s[j][c]  OBVIOUS
    <2>2. \A k \in 1..L(j) : text[k] = f[j][k]  BY <1>3
    <2>3. CASE j = 1
      <3>1. c \in 1..L(j) /\ before(j) + c = c
        <4>. HIDE DEF L, size
        <4>. QED  BY <1>1, <1>5, <2>3
      <3>. HIDE DEF before, L
      <3>. QED  BY <1>3, <2>2, <2>3, <3>1
    <2>4. CASE j # 1
      <3>1. j \in 2..n /\ j - 1 \in 1..n  BY <2>4
      <3>. DEFINE u == f[j - 1]
                  v == s[j]
                  a == Len(u)
                  b == Len(v)
      <3>2. u \in Seq(C) /\ v \in Seq(C) /\ f[j] = u \o v  BY <1>1, <1>3, <3>1
      <3>3. a \in Nat /\ b = size(j) /\ b \in Nat /\ L(j) = a + b /\ before(j) = a
        BY <1>1, <1>4, <1>5, <2>4, <3>1
      <3>. HIDE DEF u, v, L, before, size
      <3>4. \A k \in 1..(a + b) : (u \o v)[k] = IF k <= a THEN u[k] ELSE v[k - a]  BY <3>2, ConcatProperties
      <3>. HIDE DEF a, b
      <3>5. c \in 1..b /\ a + c \in 1..(a + b) /\ ~(a + c <= a) /\ (a + c) - a = c  BY <3>3
      <3>6. f[j][a + c] = v[c] /\ a + c \in 1..L(j)  BY <3>2, <3>3, <3>4, <3>5
      <3>. QED  BY <2>2, <3>3, <3>6 DEF v
    <2>. QED  BY <2>3, <2>4
  <1>9. Len(text) = z /\ before(1) = 0 /\ before(n + 1) = z
    <2>1. n + 1 # 1 /\ (n + 1) - 1 = n  OBVIOUS
    <2>. QED  BY <1>2, <2>1
  <1>. HIDE DEF before, L, z, size
  <1>10. \A j \in 1..n : at[j] = before(j) /\ at[j + 1] = before(j + 1)
    <2>1. \A j \in 1..n : j \in 1..(n + 1) /\ j + 1 \in 1..(n + 1)  OBVIOUS
    <2>. QED  BY <2>1
  <1>11. at \in [1..(n + 1) -> 0..z] /\ at[1] = 0 /\ at[n + 1] = z
    <2>1. 1 \in 1..(n + 1) /\ n + 1 \in 1..(n + 1)  OBVIOUS
    <2>. QED  BY <1>6, <1>9, <2>1
  <1>. HIDE DEF at
  <1>12. \A j \in 1..n : at[j + 1] = at[j] + size(j) /\ \A c \in 1..size(j) : text[at[j] + c] = s[j][c]
    BY <1>7, <1>8, <1>10
  <1>13. Placed(text, at, s, n)  BY <1>4, <1>9, <1>11, <1>12 DEF Placed, size
  <1>14. text \in Seq(C)
    <2>1. n \in 1..n  OBVIOUS
    <2>. QED  BY <1>2, <1>3, <2>1
  <1>. QED  BY <1>13, <1>14 DEF text

\* Lines of characters in C.
Text(K, C) == K \in Seq(Seq(C))
HasLine(i, K) == i \in 1..Len(K)

\* A text that consists of lines K, each behind a mark, the j-th from starts[j] on.
Blocks(mark, text, starts, K) ==
    /\ Len(text) \in Nat
    /\ starts \in [1..(Len(K) + 1) -> 0..Len(text)]
    /\ starts[1] = 0
    /\ starts[Len(K) + 1] = Len(text)
    /\ \A j \in 1..Len(K) :
        /\ starts[j + 1] = starts[j] + 1 + Len(K[j])
        /\ text[starts[j] + 1] = mark
        /\ \A c \in 1..Len(K[j]) : text[starts[j] + 1 + c] = K[j][c]

\* If line i starts at the same place in two readings of one text, it is as long in the
\* second as in the first, or shorter: behind its end comes a mark, which no line has.
LEMMA NotShorter ==
    ASSUME NEW mark, NEW C, mark \notin C, NEW K, NEW M, NEW text, NEW p, NEW q,
           Text(K, C), Text(M, C), Blocks(mark, text, p, K), Blocks(mark, text, q, M),
           NEW i \in Nat, HasLine(i, K), HasLine(i, M), p[i] = q[i]
    PROVE  Len(M[i]) <= Len(K[i])
  <1>. DEFINE k == Len(K[i])
              m == Len(M[i])
              n == Len(K)
              z == Len(text)
  <1>1. k \in Nat /\ m \in Nat  BY LenProperties, ElementOfSeq DEF Text, HasLine
  <1>2. n \in Nat /\ i \in 1..n  BY LenProperties DEF Text, HasLine
  <1>3. i \in 1..(n + 1) /\ i + 1 \in 1..(n + 1)  BY <1>2
  <1>4. i + 1 \in 1..(Len(M) + 1)  BY LenProperties DEF Text, HasLine
  <1>5. z \in Nat /\ p[i] \in 0..z /\ p[i + 1] \in 0..z /\ q[i + 1] \in 0..z  BY <1>3, <1>4 DEF Blocks
  <1>6. p[i + 1] = p[i] + 1 + k /\ q[i + 1] = q[i] + 1 + m  BY DEF Blocks, HasLine
  <1>7. i = n => p[i + 1] = z  BY DEF Blocks
  <1>8. i # n => text[p[i + 1] + 1] = mark
    <2>1. i # n => i + 1 \in 1..n  BY <1>2
    <2>. QED  BY <2>1 DEF Blocks
  <1>9. \A c \in 1..m : text[q[i] + 1 + c] = M[i][c]  BY DEF Blocks, HasLine
  <1>10. \A c \in 1..m : M[i][c] # mark  BY ElementOfSeq DEF Text, HasLine
  <1>. HIDE DEF k, m, n, z
  <1>11. SUFFICES ASSUME ~(m <= k) PROVE FALSE  BY DEF k, m
  <1>12. k + 1 \in 1..m  BY <1>1, <1>11
  <1>13. text[q[i] + 1 + (k + 1)] # mark  BY <1>9, <1>10, <1>12
  <1>14. q[i] + 1 + (k + 1) = p[i + 1] + 1  BY <1>1, <1>5, <1>6
  <1>15. i = n  BY <1>8, <1>13, <1>14
  <1>. QED  BY <1>1, <1>5, <1>6, <1>7, <1>11, <1>15

\* One text consists of lines in one way only, if no line has the mark in it.
LEMMA BlocksOnce ==
    ASSUME NEW mark, NEW C, mark \notin C, NEW K, NEW M, NEW text, NEW p, NEW q,
           Text(K, C), Text(M, C), Blocks(mark, text, p, K), Blocks(mark, text, q, M)
    PROVE  K = M
  <1>. DEFINE k == Len(K)
              m == Len(M)
              z == Len(text)
              LenK(i) == Len(K[i])
              LenM(i) == Len(M[i])
  <1>1. k \in Nat /\ m \in Nat  BY LenProperties DEF Text
  <1>2. z \in Nat  BY DEF Blocks
  <1>3. \A i \in 1..k : LenK(i) \in Nat  BY LenProperties, ElementOfSeq DEF Text
  <1>4. \A i \in 1..m : LenM(i) \in Nat  BY LenProperties, ElementOfSeq DEF Text
  <1>5. /\ p \in [1..(k + 1) -> 0..z] /\ p[1] = 0 /\ p[k + 1] = z
        /\ \A i \in 1..k : p[i + 1] = p[i] + 1 + LenK(i)
    BY DEF Blocks
  <1>6. /\ q \in [1..(m + 1) -> 0..z] /\ q[1] = 0 /\ q[m + 1] = z
        /\ \A i \in 1..m : q[i + 1] = q[i] + 1 + LenM(i)
    BY DEF Blocks
  <1>7. \A i \in Nat : i \in 1..k /\ i \in 1..m /\ p[i] = q[i] => LenK(i) <= LenM(i) /\ LenM(i) <= LenK(i)
    BY NotShorter DEF HasLine
  <1>8. \A i \in 1..k : \A c \in 1..LenK(i) : text[p[i] + 1 + c] = K[i][c]  BY DEF Blocks
  <1>9. \A i \in 1..m : \A c \in 1..LenM(i) : text[q[i] + 1 + c] = M[i][c]  BY DEF Blocks
  <1>. HIDE DEF k, m, z, LenK, LenM
  <1>. DEFINE Apart == {j \in Nat : j \in 1..(k + 1) /\ j \in 1..(m + 1) /\ p[j] # q[j]}
  <1>10. Apart = {}
    <2>1. SUFFICES ASSUME Apart # {} PROVE FALSE  OBVIOUS
    <2>2. PICK j \in Apart : \A i \in Apart : j <= i
      <3>1. Apart \in SUBSET Nat  OBVIOUS
      <3>. HIDE DEF Apart
      <3>. QED  BY <2>1, <3>1, Smallest
    <2>3. j \in 1..(k + 1) /\ j \in 1..(m + 1) /\ p[j] # q[j] /\ j # 1  BY <1>5, <1>6
    <2>4. PICK i \in Nat : j = i + 1 /\ i \in 1..k /\ i \in 1..m
      <3>1. j - 1 \in Nat /\ j = (j - 1) + 1 /\ j - 1 \in 1..k /\ j - 1 \in 1..m  BY <1>1, <2>3
      <3>. QED  BY <3>1
    <2>5. p[i] = q[i]
      <3>1. i \notin Apart  BY <2>2, <2>4
      <3>2. i \in 1..(k + 1) /\ i \in 1..(m + 1)  BY <1>1, <2>4
      <3>. QED  BY <3>1, <3>2
    <2>6. LenK(i) = LenM(i)  BY <1>3, <1>4, <1>7, <2>4, <2>5
    <2>7. p[i + 1] = q[i + 1]  BY <1>5, <1>6, <2>4, <2>5, <2>6
    <2>. QED  BY <2>3, <2>4, <2>7
  <1>11. \A j \in 1..(k + 1) : j \in 1..(m + 1) => p[j] = q[j]
    <2>1. \A j \in 1..(k + 1) : j \in Nat  BY <1>1
    <2>. QED  BY <1>10, <2>1
  <1>12. k = m
    <2>1. ASSUME k < m PROVE FALSE
      <3>1. k + 1 \in 1..m /\ k + 1 \in 1..(m + 1) /\ (k + 1) + 1 \in 1..(m + 1) /\ k + 1 \in 1..(k + 1)
        BY <1>1, <2>1
      <3>2. q[k + 1] = z  BY <1>5, <1>11, <3>1
      <3>3. q[(k + 1) + 1] = z + 1 + LenM(k + 1)  BY <1>6, <3>1, <3>2
      <3>4. q[(k + 1) + 1] <= z /\ LenM(k + 1) \in Nat  BY <1>4, <1>6, <3>1
      <3>. QED  BY <1>2, <3>3, <3>4
    <2>2. ASSUME m < k PROVE FALSE
      <3>1. m + 1 \in 1..k /\ m + 1 \in 1..(k + 1) /\ (m + 1) + 1 \in 1..(k + 1) /\ m + 1 \in 1..(m + 1)
        BY <1>1, <2>2
      <3>2. p[m + 1] = z  BY <1>6, <1>11, <3>1
      <3>3. p[(m + 1) + 1] = z + 1 + LenK(m + 1)  BY <1>5, <3>1, <3>2
      <3>4. p[(m + 1) + 1] <= z /\ LenK(m + 1) \in Nat  BY <1>3, <1>5, <3>1
      <3>. QED  BY <1>2, <3>3, <3>4
    <2>. QED  BY <1>1, <2>1, <2>2
  <1>13. ASSUME NEW i \in 1..k PROVE K[i] = M[i]
    <2>1. i \in 1..m /\ i \in Nat /\ i \in 1..(k + 1) /\ i \in 1..(m + 1)  BY <1>1, <1>12
    <2>2. p[i] = q[i]  BY <1>11, <2>1
    <2>3. LenK(i) = LenM(i)  BY <1>3, <1>4, <1>7, <2>1, <2>2
    <2>4. \A c \in 1..LenK(i) : K[i][c] = M[i][c]  BY <1>8, <1>9, <2>1, <2>2, <2>3
    <2>5. K[i] \in Seq(C) /\ M[i] \in Seq(C)  BY <2>1, ElementOfSeq DEF Text, k, m
    <2>. QED  BY <2>3, <2>4, <2>5, SeqEqual DEF LenK, LenM
  <1>. QED  BY <1>12, <1>13, SeqEqual DEF Text, k, m

\* Lines joined with a mark before each.
Marked(mark, K) == [j \in DOMAIN K |-> <<mark>> \o K[j]]

\* What FlattenSeq makes of them consists of these lines.
LEMMA JoinedBlocks ==
    ASSUME NEW mark, NEW C, NEW K, Text(K, C), K # <<>>
    PROVE  /\ FlattenSeq(Marked(mark, K)) \in Seq(C \cup {mark})
           /\ \E p : Blocks(mark, FlattenSeq(Marked(mark, K)), p, K)
  <1>. DEFINE D == C \cup {mark}
              n == Len(K)
              s == Marked(mark, K)
              text == FlattenSeq(s)
  <1>1. n \in Nat \ {0} /\ DOMAIN K = 1..n  BY LenProperties, EmptySeq DEF Text
  <1>2. \A j \in 1..n : K[j] \in Seq(C) /\ K[j] \in Seq(D)
    <2>1. SUFFICES ASSUME NEW j \in 1..n PROVE K[j] \in Seq(C) /\ K[j] \in Seq(D)  OBVIOUS
    <2>2. K[j] \in Seq(C)  BY ElementOfSeq DEF Text
    <2>. QED  BY <2>2
  <1>3. s = [j \in 1..n |-> <<mark>> \o K[j]]  BY <1>1 DEF Marked
  <1>. DEFINE LenK(j) == Len(K[j])
  <1>4. \A j \in 1..n : /\ s[j] \in Seq(D)
                        /\ Len(s[j]) = 1 + LenK(j)
                        /\ s[j][1] = mark
                        /\ \A c \in 1..LenK(j) : s[j][1 + c] = K[j][c]
    <2>1. SUFFICES ASSUME NEW j \in 1..n
          PROVE /\ s[j] \in Seq(D) /\ Len(s[j]) = 1 + LenK(j) /\ s[j][1] = mark
                /\ \A c \in 1..LenK(j) : s[j][1 + c] = K[j][c]
      OBVIOUS
    <2>. DEFINE u == K[j]
                a == Len(u)
                one == <<mark>>
    <2>2. u \in Seq(D) /\ s[j] = one \o u  BY <1>2, <1>3
    <2>3. one \in Seq(D) /\ Len(one) = 1 /\ one[1] = mark  OBVIOUS
    <2>. HIDE DEF u, one, s
    <2>4. a \in Nat  BY <2>2, LenProperties
    <2>5. /\ one \o u \in Seq(D) /\ Len(one \o u) = 1 + a
          /\ \A c \in 1..(1 + a) : (one \o u)[c] = IF c <= 1 THEN one[c] ELSE u[c - 1]
      <3>1. /\ one \o u \in Seq(D) /\ Len(one \o u) = Len(one) + Len(u)
            /\ \A c \in 1..(Len(one) + Len(u)) : (one \o u)[c] = IF c <= Len(one) THEN one[c] ELSE u[c - Len(one)]
        BY <2>2, <2>3, ConcatProperties
      <3>. HIDE DEF a
      <3>2. Len(one) + Len(u) = 1 + a  BY <2>3 DEF a
      <3>. QED  BY <2>3, <3>1, <3>2
    <2>. HIDE DEF a
    <2>6. (one \o u)[1] = mark  BY <2>3, <2>4, <2>5
    <2>7. \A c \in 1..a : (one \o u)[1 + c] = u[c]
      <3>1. \A c \in 1..a : 1 + c \in 1..(1 + a) /\ ~(1 + c <= 1) /\ (1 + c) - 1 = c  BY <2>4
      <3>. QED  BY <2>5, <3>1
    <2>. QED  BY <2>2, <2>5, <2>6, <2>7 DEF u, a
  <1>5. \A j \in 1..n : LenK(j) \in Nat  BY <1>2, LenProperties
  <1>6. Parts(s, n, D)
    <2>. HIDE DEF s
    <2>. QED  BY <1>4 DEF Parts
  <1>7. Len(s) = n
    <2>. DEFINE S == {s[j] : j \in 1..n}
    <2>1. s \in [1..n -> S]  BY <1>3
    <2>. HIDE DEF s, S
    <2>2. s \in Seq(S)  BY <1>1, <2>1, SeqDef
    <2>. QED  BY <1>1, <2>1, <2>2, LenProperties
  <1>. HIDE DEF s, n, LenK, text
  <1>8. text \in Seq(D) /\ \E p : Placed(text, p, s, n)  BY <1>1, <1>6, <1>7, FlattenPlaces DEF text
  <1>9. PICK p : Placed(text, p, s, n)  BY <1>8
  <1>. DEFINE z == Len(text)
              size(j) == Len(s[j])
  <1>10. /\ z \in Nat
         /\ p \in [1..(n + 1) -> 0..z] /\ p[1] = 0 /\ p[n + 1] = z
         /\ \A j \in 1..n : p[j + 1] = p[j] + size(j) /\ \A c \in 1..size(j) : text[p[j] + c] = s[j][c]
    BY <1>9 DEF Placed
  <1>11. \A j \in 1..n : p[j] \in Nat /\ LenK(j) \in Nat /\ size(j) = 1 + LenK(j)
    <2>1. \A j \in 1..n : j \in 1..(n + 1)  BY <1>1
    <2>2. \A j \in 1..n : p[j] \in 0..z  BY <1>10, <2>1
    <2>. QED  BY <1>4, <1>5, <1>10, <2>2
  <1>. HIDE DEF z, size
  <1>12. \A j \in 1..n : /\ p[j + 1] = p[j] + 1 + LenK(j)
                         /\ text[p[j] + 1] = mark
                         /\ \A c \in 1..LenK(j) : text[p[j] + 1 + c] = K[j][c]
    <2>1. SUFFICES ASSUME NEW j \in 1..n
          PROVE /\ p[j + 1] = p[j] + 1 + LenK(j) /\ text[p[j] + 1] = mark
                /\ \A c \in 1..LenK(j) : text[p[j] + 1 + c] = K[j][c]
      OBVIOUS
    <2>. DEFINE a == p[j]
                k == LenK(j)
    <2>2. a \in Nat /\ k \in Nat /\ size(j) = 1 + k  BY <1>11
    <2>3. p[j + 1] = a + (1 + k) /\ \A c \in 1..(1 + k) : text[a + c] = s[j][c]  BY <1>10, <2>2
    <2>. HIDE DEF a, k
    <2>4. a + (1 + k) = a + 1 + k /\ 1 \in 1..(1 + k)
          /\ \A c \in 1..k : 1 + c \in 1..(1 + k) /\ a + (1 + c) = a + 1 + c
      BY <2>2
    <2>5. text[a + 1] = mark  BY <1>4, <2>3, <2>4
    <2>6. \A c \in 1..k : text[a + 1 + c] = K[j][c]
      <3>1. \A c \in 1..k : text[a + (1 + c)] = s[j][1 + c] /\ s[j][1 + c] = K[j][c]  BY <1>4, <2>3, <2>4 DEF k
      <3>. QED  BY <2>4, <3>1
    <2>. QED  BY <2>3, <2>4, <2>5, <2>6 DEF a, k
  <1>13. Blocks(mark, text, p, K)  BY <1>10, <1>12 DEF Blocks, n, LenK, z
  <1>. QED  BY <1>8, <1>13 DEF text, s

-----------------------------------------------------------------------------
(* Counting.                                                               *)

\* The number of elements of E before c, and the element that has k before it.
Rank(E, c) == Cardinality({d \in E : d < c})
Nth(E, k) == CHOOSE c \in E : Rank(E, c) = k

\* Rank numbers the elements of E from 0 on in order, and Nth is its inverse.
RanksNumber(E) ==
    /\ Cardinality(E) \in Nat
    /\ \A c \in E : Rank(E, c) \in Nat /\ Rank(E, c) < Cardinality(E) /\ Nth(E, Rank(E, c)) = c
    /\ \A k \in 0..(Cardinality(E) - 1) : Nth(E, k) \in E /\ Rank(E, Nth(E, k)) = k
    /\ \A c, d \in E : c < d => Rank(E, c) < Rank(E, d)

\* Counting numbers every finite set of numbers in order.
LEMMA FiniteNumbered ==
    ASSUME NEW E \in SUBSET Nat, IsFiniteSet(E)
    PROVE  RanksNumber(E)
  <1>. DEFINE n == Cardinality(E)
              rank(c) == Rank(E, c)
              below(c) == {d \in E : d < c}
              f == [c \in E |-> rank(c) + 1]
  <1>1. n \in Nat  BY FS_CardinalityType
  <1>2. \A c \in E : IsFiniteSet(below(c)) /\ rank(c) \in Nat /\ rank(c) < n
    <2>1. SUFFICES ASSUME NEW c \in E PROVE IsFiniteSet(below(c)) /\ rank(c) \in Nat /\ rank(c) < n  OBVIOUS
    <2>. DEFINE B == below(c)
    <2>2. B \subseteq E /\ c \notin B  OBVIOUS
    <2>. HIDE DEF B
    <2>3. IsFiniteSet(B) /\ Cardinality(B) <= n /\ (n = Cardinality(B) => E = B)  BY <2>2, FS_Subset
    <2>4. Cardinality(B) \in Nat /\ Cardinality(B) # n  BY <2>2, <2>3, FS_CardinalityType
    <2>5. Cardinality(B) < n
      <3>. DEFINE b == Cardinality(B)
      <3>. HIDE DEF b, n
      <3>1. b \in Nat /\ b # n /\ b <= n  BY <2>3, <2>4 DEF b
      <3>. QED  BY <1>1, <3>1 DEF b
    <2>. QED  BY <2>3, <2>4, <2>5 DEF B, Rank
  <1>3. \A c, d \in E : c < d => rank(c) < rank(d)
    <2>1. SUFFICES ASSUME NEW c \in E, NEW d \in E, c < d PROVE rank(c) < rank(d)  OBVIOUS
    <2>. DEFINE B == below(c)
                D == below(d)
    <2>0. \A x \in E : x \in Nat  OBVIOUS
    <2>2. B \subseteq D /\ c \in D /\ c \notin B
      <3>1. \A x \in E : x < c => x < d  BY <2>0, <2>1
      <3>2. ~(c < c)  BY <2>0
      <3>. QED  BY <2>1, <3>1, <3>2
    <2>3. IsFiniteSet(D)  BY <1>2
    <2>4. rank(c) = Cardinality(B) /\ rank(d) = Cardinality(D)  BY DEF Rank
    <2>5. rank(c) \in Nat /\ rank(d) \in Nat  BY <1>2
    <2>. HIDE DEF B, D, rank
    <2>6. Cardinality(B) <= Cardinality(D) /\ (Cardinality(D) = Cardinality(B) => D = B)  BY <2>2, <2>3, FS_Subset
    <2>7. rank(c) <= rank(d) /\ rank(c) # rank(d)  BY <2>2, <2>4, <2>6
    <2>. QED  BY <2>5, <2>7
  <1>. HIDE DEF n, rank, below
  <1>4. \A c, d \in E : rank(c) = rank(d) => c = d
    <2>1. SUFFICES ASSUME NEW c \in E, NEW d \in E, rank(c) = rank(d) PROVE c = d  OBVIOUS
    <2>2. rank(c) \in Nat /\ ~(rank(c) < rank(d)) /\ ~(rank(d) < rank(c))  BY <1>2, <2>1
    <2>3. ~(c < d) /\ ~(d < c)  BY <1>3, <2>2
    <2>. QED  BY <2>3
  <1>5. f \in Injection(E, 1..n)
    <2>1. \A c \in E : rank(c) + 1 \in 1..n  BY <1>1, <1>2
    <2>2. \A c, d \in E : rank(c) + 1 = rank(d) + 1 => c = d  BY <1>2, <1>4
    <2>3. f \in [E -> 1..n] /\ \A c \in E : f[c] = rank(c) + 1  BY <2>1
    <2>. HIDE DEF f
    <2>. QED  BY <2>2, <2>3 DEF Injection, IsInjective
  <1>6. f \in Surjection(E, 1..n)
    <2>1. IsFiniteSet(1..n) /\ Cardinality(1..n) = n  BY <1>1, FS_Interval
    <2>2. Cardinality(E) = Cardinality(1..n)  BY <2>1 DEF n
    <2>. HIDE DEF f
    <2>. QED  BY <1>5, <2>1, <2>2, FS_Injection
  <1>7. \A k \in 0..(n - 1) : \E c \in E : rank(c) = k
    <2>1. SUFFICES ASSUME NEW k \in 0..(n - 1) PROVE \E c \in E : rank(c) = k  OBVIOUS
    <2>2. k + 1 \in 1..n  BY <1>1
    <2>3. PICK c \in E : f[c] = k + 1
      <3>. HIDE DEF f
      <3>. QED  BY <1>6, <2>2 DEF Surjection
    <2>4. rank(c) + 1 = k + 1 /\ rank(c) \in Nat  BY <1>2, <2>3
    <2>. QED  BY <2>4
  <1>8. \A k \in 0..(n - 1) : Nth(E, k) \in E /\ rank(Nth(E, k)) = k
    <2>1. SUFFICES ASSUME NEW k \in 0..(n - 1) PROVE Nth(E, k) \in E /\ rank(Nth(E, k)) = k  OBVIOUS
    <2>2. Nth(E, k) = CHOOSE c \in E : rank(c) = k  BY DEF Nth, rank
    <2>. QED  BY <1>7, <2>2
  <1>9. \A c \in E : Nth(E, rank(c)) = c
    <2>1. SUFFICES ASSUME NEW c \in E PROVE Nth(E, rank(c)) = c  OBVIOUS
    <2>2. rank(c) \in 0..(n - 1)  BY <1>1, <1>2
    <2>3. Nth(E, rank(c)) \in E /\ rank(Nth(E, rank(c))) = rank(c)  BY <1>8, <2>2
    <2>. QED  BY <1>4, <2>3
  <1>. QED  BY <1>1, <1>2, <1>3, <1>8, <1>9 DEF RanksNumber, n, rank

\* What is between two neighbours has as many before it as the second has.
LEMMA RankBetween ==
    ASSUME NEW E \in SUBSET Nat, IsFiniteSet(E), NEW i \in Nat, NEW k \in 1..(Cardinality(E) - 1),
           Nth(E, k - 1) < i, i <= Nth(E, k)
    PROVE  Rank(E, i) = k
  <1>. DEFINE n == Cardinality(E)
              a == Nth(E, k - 1)
              b == Nth(E, k)
  <1>1. n \in Nat /\ k \in 0..(n - 1) /\ k - 1 \in 0..(n - 1)  BY FiniteNumbered DEF RanksNumber
  <1>2. a \in E /\ b \in E /\ Rank(E, a) = k - 1 /\ Rank(E, b) = k  BY <1>1, FiniteNumbered DEF RanksNumber
  <1>3. \A d \in E : d < b <=> d < i
    <2>1. SUFFICES ASSUME NEW d \in E PROVE d < b <=> d < i  OBVIOUS
    <2>2. Rank(E, d) \in Nat /\ (d < b => Rank(E, d) < k) /\ (a < d => k - 1 < Rank(E, d))
      <3>. HIDE DEF a, b, n
      <3>. QED  BY <1>2, FiniteNumbered DEF RanksNumber
    <2>. DEFINE r == Rank(E, d)
    <2>. HIDE DEF r, a, b
    <2>3. r \in Nat /\ (d < b => r < k) /\ (a < d => k - 1 < r)  BY <2>2 DEF r
    <2>4. a \in Nat /\ b \in Nat /\ d \in Nat /\ a < i /\ i <= b  BY <1>2 DEF a, b
    <2>5. d < b => ~(a < d)  BY <2>3
    <2>. QED  BY <2>4, <2>5
  <1>4. {d \in E : d < b} = {d \in E : d < i}  BY <1>3
  <1>. QED  BY <1>2, <1>4 DEF Rank

\* A number with an element before it and one at it or behind it is between two
\* neighbours, the first of which is the greatest element before it.
LEMMA NeighboursOf ==
    ASSUME NEW E \in SUBSET Nat, IsFiniteSet(E), NEW i \in Nat, \E d \in E : d < i, \E d \in E : i <= d
    PROVE  /\ Rank(E, i) \in 1..(Cardinality(E) - 1)
           /\ Nth(E, Rank(E, i) - 1) = Max({d \in E : d < i})
           /\ Nth(E, Rank(E, i) - 1) < i
           /\ i <= Nth(E, Rank(E, i))
  <1>. DEFINE n == Cardinality(E)
              B == {d \in E : d < i}
              A == {d \in E : i <= d}
              b == Max(B)
              r == Rank(E, i)
  <1>1. b \in B /\ \A d \in B : d <= b
    <2>0. PICK d \in E : d < i  OBVIOUS
    <2>1. B \in SUBSET Int /\ B # {} /\ i \in Int /\ \A x \in B : x <= i
      <3>1. d \in B  BY <2>0
      <3>2. \A x \in B : x \in Int /\ x <= i  OBVIOUS
      <3>. HIDE DEF B
      <3>. QED  BY <3>1, <3>2
    <2>. HIDE DEF B
    <2>. QED  BY <2>1, MaxIs
  <1>2. PICK e \in A : \A d \in A : e <= d
    <2>1. A \in SUBSET Nat /\ A # {}  OBVIOUS
    <2>. HIDE DEF A
    <2>. QED  BY <2>1, Smallest
  <1>3. b \in E /\ b < i /\ b \in Nat
    <2>1. b \in B  BY <1>1
    <2>. HIDE DEF b
    <2>. QED  BY <2>1
  <1>4. e \in E /\ i <= e /\ e \in Nat  OBVIOUS
  <1>5. {d \in E : d < e} = B
    <2>1. \A d \in E : d < e <=> d < i
      <3>1. SUFFICES ASSUME NEW d \in E PROVE d < e <=> d < i  OBVIOUS
      <3>2. d \in Nat /\ (i <= d => d \in A)  OBVIOUS
      <3>3. i <= d => e <= d  BY <1>2, <3>2
      <3>. HIDE DEF A
      <3>. QED  BY <1>4, <3>2, <3>3
    <2>. QED  BY <2>1
  <1>6. B = {d \in E : d < b} \cup {b}
    <2>1. \A d \in E : d < i <=> (d < b \/ d = b)
      <3>1. SUFFICES ASSUME NEW d \in E PROVE d < i <=> (d < b \/ d = b)  OBVIOUS
      <3>2. d \in Nat /\ (d < i => d \in B)  OBVIOUS
      <3>. HIDE DEF B, b
      <3>3. d < i => d <= b  BY <1>1, <3>2
      <3>. QED  BY <1>3, <3>2, <3>3
    <2>. HIDE DEF b
    <2>. QED  BY <1>3, <2>1
  <1>7. Rank(E, e) = r
    <2>1. Rank(E, e) = Cardinality(B)  BY <1>5 DEF Rank
    <2>. QED  BY <2>1 DEF Rank
  <1>8. r = Rank(E, b) + 1
    <2>. DEFINE S == {d \in E : d < b}
    <2>1. S \subseteq E /\ b \notin S
      <3>. HIDE DEF b
      <3>. QED  BY <1>3
    <2>. HIDE DEF S
    <2>2. IsFiniteSet(S)  BY <2>1, FS_Subset
    <2>3. Cardinality(S \cup {b}) = Cardinality(S) + 1
      <3>. HIDE DEF b
      <3>. QED  BY <2>1, <2>2, FS_AddElement
    <2>4. r = Cardinality(B)  BY DEF Rank
    <2>5. Rank(E, b) = Cardinality(S)  BY DEF Rank, S
    <2>. QED  BY <1>6, <2>3, <2>4, <2>5 DEF S
  <1>9. /\ n \in Nat
        /\ Rank(E, e) \in Nat /\ Rank(E, e) < n /\ Nth(E, Rank(E, e)) = e
        /\ Rank(E, b) \in Nat /\ Rank(E, b) < n /\ Nth(E, Rank(E, b)) = b
    <2>. HIDE DEF b, n
    <2>. QED  BY <1>3, <1>4, FiniteNumbered DEF RanksNumber, n
  <1>. HIDE DEF b, n, r, A, B
  <1>10. r \in 1..(n - 1) /\ r - 1 = Rank(E, b)  BY <1>7, <1>8, <1>9
  <1>11. Nth(E, r - 1) = b /\ Nth(E, r) = e  BY <1>7, <1>9, <1>10
  <1>. QED  BY <1>3, <1>4, <1>10, <1>11 DEF r, n, b, B

-----------------------------------------------------------------------------
(* Pieces.                                                                 *)

\* A text of characters in C.
Chars(t, C) == t \in Seq(C)

\* What the cuts are: the start and the end of the text, and every mark.
LEMMA CutsAre ==
    ASSUME NEW C, NEW t, NEW mark, Chars(t, C)
    PROVE  /\ Len(t) \in Nat
           /\ Cuts(t, mark) \in SUBSET Nat
           /\ IsFiniteSet(Cuts(t, mark))
           /\ 0 \in Cuts(t, mark) /\ Len(t) + 1 \in Cuts(t, mark)
           /\ \A d \in Cuts(t, mark) : d <= Len(t) + 1
           /\ \A i \in 1..Len(t) : i \in Cuts(t, mark) <=> t[i] = mark
           /\ \A k : Cut(t, mark, k) = Nth(Cuts(t, mark), k)
  <1>. DEFINE n == Len(t)
  <1>1. n \in Nat /\ DOMAIN t = 1..n  BY LenProperties DEF Chars
  <1>2. Cuts(t, mark) = {0, n + 1} \cup {i \in 1..n : t[i] = mark}  BY <1>1 DEF Cuts
  <1>3. Cuts(t, mark) \subseteq 0..(n + 1)
    <2>. HIDE DEF n
    <2>. QED  BY <1>1, <1>2
  <1>4. IsFiniteSet(Cuts(t, mark))
    <2>. HIDE DEF n
    <2>1. IsFiniteSet(0..(n + 1))  BY <1>1, FS_Interval
    <2>. QED  BY <1>3, <2>1, FS_Subset
  <1>5. \A i \in 1..n : i \in Cuts(t, mark) <=> t[i] = mark
    <2>. HIDE DEF n
    <2>. QED  BY <1>1, <1>2
  <1>6. 0 \in Cuts(t, mark) /\ n + 1 \in Cuts(t, mark)  BY <1>2
  <1>7. Cuts(t, mark) \in SUBSET Nat /\ \A d \in Cuts(t, mark) : d <= n + 1
    <2>. HIDE DEF n
    <2>. QED  BY <1>1, <1>3
  <1>8. ASSUME NEW k PROVE Cut(t, mark, k) = Nth(Cuts(t, mark), k)  BY DEF Cut, Nth, Rank
  <1>. QED  BY <1>1, <1>4, <1>5, <1>6, <1>7, <1>8

\* The k-th piece is what stands between the cuts k - 1 and k.
PiecesOf(t, mark, C) ==
    LET m == Cardinality(Cuts(t, mark)) - 1
        end(k) == Nth(Cuts(t, mark), k) IN
    /\ m \in Nat \ {0}
    /\ DOMAIN Pieces(t, mark) = 1..m
    /\ \A k \in 1..m : /\ end(k - 1) \in Nat /\ end(k) \in Nat
                       /\ end(k - 1) < end(k) /\ end(k) <= Len(t) + 1
                       /\ Pieces(t, mark)[k] \in Seq(C)
                       /\ Len(Pieces(t, mark)[k]) = end(k) - end(k - 1) - 1
                       /\ \A c \in 1..(end(k) - end(k - 1) - 1) : Pieces(t, mark)[k][c] = t[end(k - 1) + c]

\* So it is in every text: cutting it loses no piece and no character of one.
LEMMA PiecesAre ==
    ASSUME NEW C, NEW t, NEW mark, Chars(t, C)
    PROVE  PiecesOf(t, mark, C)
  <1>. DEFINE E == Cuts(t, mark)
              n == Cardinality(E)
              m == n - 1
              end(k) == Nth(E, k)
              z == Len(t)
  <1>1. /\ z \in Nat /\ E \in SUBSET Nat /\ IsFiniteSet(E)
        /\ 0 \in E /\ z + 1 \in E
        /\ \A d \in E : d <= z + 1
    BY CutsAre
  <1>2. RanksNumber(E)
    <2>. HIDE DEF E
    <2>. QED  BY <1>1, FiniteNumbered
  <1>3. /\ n \in Nat
        /\ \A c \in E : Rank(E, c) \in Nat /\ Rank(E, c) < n /\ end(Rank(E, c)) = c
        /\ \A k \in 0..(n - 1) : end(k) \in E /\ Rank(E, end(k)) = k
        /\ \A c, d \in E : c < d => Rank(E, c) < Rank(E, d)
    BY <1>2 DEF RanksNumber
  <1>4. Pieces(t, mark) = [k \in 1..m |-> SubSeq(t, end(k - 1) + 1, end(k) - 1)]
    <2>1. \A k : Cut(t, mark, k) = end(k)  BY CutsAre
    <2>2. Pieces(t, mark) = [k \in 1..m |-> SubSeq(t, Cut(t, mark, k - 1) + 1, Cut(t, mark, k) - 1)]  BY DEF Pieces
    <2>. HIDE DEF m, end
    <2>. QED  BY <2>1, <2>2
  <1>5. m \in Nat \ {0}
    <2>. HIDE DEF E, n, z
    <2>1. Rank(E, 0) < Rank(E, z + 1)  BY <1>1, <1>3
    <2>2. Rank(E, 0) \in Nat /\ Rank(E, z + 1) \in Nat /\ Rank(E, z + 1) < n  BY <1>1, <1>3
    <2>. QED  BY <1>3, <2>1, <2>2
  <1>6. \A k \in 1..m : end(k - 1) \in Nat /\ end(k) \in Nat /\ end(k - 1) < end(k) /\ end(k) <= z + 1
    <2>. HIDE DEF E, n, z
    <2>1. SUFFICES ASSUME NEW k \in 1..m
          PROVE end(k - 1) \in Nat /\ end(k) \in Nat /\ end(k - 1) < end(k) /\ end(k) <= z + 1
      OBVIOUS
    <2>2. k \in 0..(n - 1) /\ k - 1 \in 0..(n - 1) /\ k \in Nat  BY <1>3
    <2>. DEFINE a == end(k - 1)
                b == end(k)
    <2>3. a \in E /\ b \in E /\ Rank(E, a) = k - 1 /\ Rank(E, b) = k  BY <1>3, <2>2
    <2>. HIDE DEF a, b
    <2>4. a \in Nat /\ b \in Nat /\ b <= z + 1  BY <1>1, <2>3
    <2>5. ~(b < a)
      <3>1. SUFFICES ASSUME b < a PROVE FALSE  OBVIOUS
      <3>2. Rank(E, b) < Rank(E, a)  BY <1>3, <2>3, <3>1
      <3>. QED  BY <2>2, <2>3, <3>2
    <2>6. b # a
      <3>1. k # k - 1  BY <2>2
      <3>. QED  BY <2>3, <3>1
    <2>7. a < b  BY <2>4, <2>5, <2>6
    <2>. QED  BY <2>4, <2>7 DEF a, b
  <1>7. \A k \in 1..m : /\ Pieces(t, mark)[k] \in Seq(C)
                        /\ Len(Pieces(t, mark)[k]) = end(k) - end(k - 1) - 1
                        /\ \A c \in 1..(end(k) - end(k - 1) - 1) : Pieces(t, mark)[k][c] = t[end(k - 1) + c]
    <2>1. SUFFICES ASSUME NEW k \in 1..m
          PROVE /\ Pieces(t, mark)[k] \in Seq(C)
                /\ Len(Pieces(t, mark)[k]) = end(k) - end(k - 1) - 1
                /\ \A c \in 1..(end(k) - end(k - 1) - 1) : Pieces(t, mark)[k][c] = t[end(k - 1) + c]
      OBVIOUS
    <2>. DEFINE a == end(k - 1)
                b == end(k)
                s == SubSeq(t, a + 1, b - 1)
    <2>2. a \in Nat /\ b \in Nat /\ a < b /\ b <= z + 1
      <3>. HIDE DEF E, n, z
      <3>. QED  BY <1>6
    <2>3. Pieces(t, mark)[k] = s
      <3>. HIDE DEF m, end
      <3>. QED  BY <1>4, <2>1
    <2>. HIDE DEF a, b
    <2>4. a + 1 \in 1..(z + 1) /\ b - 1 \in ((a + 1) - 1)..z
      <3>. HIDE DEF z
      <3>. QED  BY <1>1, <2>2
    <2>5. /\ s \in Seq(C) /\ Len(s) = (b - 1) - (a + 1) + 1
          /\ \A c \in 1..((b - 1) - (a + 1) + 1) : s[c] = t[(a + 1) + c - 1]
      BY <2>4, SubSeqProperties DEF Chars
    <2>. HIDE DEF s
    <2>6. (b - 1) - (a + 1) + 1 = b - a - 1  BY <2>2
    <2>7. \A c \in 1..(b - a - 1) : (a + 1) + c - 1 = a + c  BY <2>2
    <2>. QED  BY <2>3, <2>5, <2>6, <2>7 DEF a, b
  <1>8. DOMAIN Pieces(t, mark) = 1..m
    <2>. DEFINE row(k) == SubSeq(t, end(k - 1) + 1, end(k) - 1)
    <2>1. Pieces(t, mark) = [k \in 1..m |-> row(k)]  BY <1>4
    <2>. HIDE DEF row, m
    <2>. QED  BY <2>1
  <1>. QED  BY <1>5, <1>6, <1>7, <1>8 DEF PiecesOf

\* Where the character i stands: the piece, counted from 0, and the place in it.
PieceAt(t, mark, i) == Cardinality({j \in 1..(i - 1) : t[j] = mark})
PlaceAt(t, mark, i) == i - Max({0} \cup {j \in 1..(i - 1) : t[j] = mark})

\* The cuts before the character i: the start, and the marks that are counted.
LEMMA CutsBefore ==
    ASSUME NEW C, NEW t, NEW mark, Chars(t, C), NEW i \in 1..Len(t)
    PROVE  /\ {d \in Cuts(t, mark) : d < i} = {0} \cup {j \in 1..(i - 1) : t[j] = mark}
           /\ PieceAt(t, mark, i) \in Nat
           /\ Rank(Cuts(t, mark), i) = PieceAt(t, mark, i) + 1
  <1>. DEFINE E == Cuts(t, mark)
              N == {j \in 1..(i - 1) : t[j] = mark}
              n == Len(t)
  <1>1. /\ n \in Nat /\ E \in SUBSET Nat /\ 0 \in E
        /\ \A j \in 1..n : j \in E <=> t[j] = mark
        /\ \A d \in E : d <= n + 1
    BY CutsAre
  <1>2. i \in Nat /\ 1 <= i /\ i <= n  BY <1>1
  <1>. HIDE DEF E, n
  <1>3. {d \in E : d < i} = {0} \cup N
    <2>1. \A d \in E : d < i => d = 0 \/ d \in N
      <3>1. SUFFICES ASSUME NEW d \in E, d < i PROVE d = 0 \/ d \in N  OBVIOUS
      <3>2. d \in Nat  BY <1>1
      <3>3. d # 0 => d \in 1..n /\ d \in 1..(i - 1)  BY <1>1, <1>2, <3>1, <3>2
      <3>. QED  BY <1>1, <3>3
    <2>2. \A j \in N : j \in E /\ j < i
      <3>1. SUFFICES ASSUME NEW j \in N PROVE j \in E /\ j < i  OBVIOUS
      <3>2. j \in 1..(i - 1) /\ t[j] = mark  OBVIOUS
      <3>3. j \in 1..n /\ j < i  BY <1>1, <1>2, <3>2
      <3>. QED  BY <1>1, <3>2, <3>3
    <2>3. 0 \in E /\ 0 < i  BY <1>1, <1>2
    <2>. HIDE DEF N
    <2>4. \A d : d \in {x \in E : x < i} <=> d \in {0} \cup N  BY <2>1, <2>2, <2>3
    <2>. QED  BY <2>4
  <1>4. IsFiniteSet(N) /\ Cardinality(N) \in Nat
    <2>1. N \subseteq 1..(i - 1) /\ IsFiniteSet(1..(i - 1))
      <3>1. IsFiniteSet(1..(i - 1))  BY <1>2, FS_Interval
      <3>. QED  BY <3>1
    <2>. HIDE DEF N
    <2>. QED  BY <2>1, FS_Subset, FS_CardinalityType
  <1>5. Cardinality({0} \cup N) = Cardinality(N) + 1
    <2>1. 0 \notin N  OBVIOUS
    <2>2. {0} \cup N = N \cup {0}  OBVIOUS
    <2>. HIDE DEF N
    <2>. QED  BY <1>4, <2>1, <2>2, FS_AddElement
  <1>6. Rank(E, i) = Cardinality({0} \cup N)
    <2>1. Rank(E, i) = Cardinality({d \in E : d < i})  BY DEF Rank
    <2>. HIDE DEF N
    <2>. QED  BY <1>3, <2>1
  <1>. QED  BY <1>3, <1>4, <1>5, <1>6 DEF PieceAt, E

\* The character i is the one in its place of its piece.
Cell(t, mark, i, k, c) ==
    /\ i \in 1..Len(t) /\ t[i] # mark
    /\ k \in DOMAIN Pieces(t, mark)
    /\ c \in 1..Len(Pieces(t, mark)[k])
    /\ Pieces(t, mark)[k][c] = t[i]
    /\ PieceAt(t, mark, i) = k - 1
    /\ PlaceAt(t, mark, i) = c
    /\ i = Nth(Cuts(t, mark), k - 1) + c

\* Every character other than a mark stands in its piece, where counting the marks puts it.
LEMMA CellOfCharacter ==
    ASSUME NEW C, NEW t, NEW mark, Chars(t, C), NEW i \in 1..Len(t), t[i] # mark
    PROVE  Cell(t, mark, i, PieceAt(t, mark, i) + 1, PlaceAt(t, mark, i))
  <1>. DEFINE E == Cuts(t, mark)
              m == Cardinality(E) - 1
              end(k) == Nth(E, k)
              k == PieceAt(t, mark, i) + 1
              c == PlaceAt(t, mark, i)
  <1>1. /\ Len(t) \in Nat /\ E \in SUBSET Nat /\ IsFiniteSet(E)
        /\ 0 \in E /\ Len(t) + 1 \in E
        /\ \A j \in 1..Len(t) : j \in E <=> t[j] = mark
    BY CutsAre
  <1>2. {d \in E : d < i} = {0} \cup {j \in 1..(i - 1) : t[j] = mark} /\ PieceAt(t, mark, i) \in Nat /\ Rank(E, i) = k
    BY CutsBefore
  <1>3. i \in Nat /\ 0 < i /\ i <= Len(t) + 1 /\ i \notin E  BY <1>1
  <1>4. k \in 1..m /\ end(k - 1) = Max({d \in E : d < i}) /\ end(k - 1) < i /\ i <= end(k)
    <2>. HIDE DEF E, k
    <2>1. (\E d \in E : d < i) /\ \E d \in E : i <= d  BY <1>1, <1>3
    <2>2. /\ Rank(E, i) \in 1..(Cardinality(E) - 1)
          /\ Nth(E, Rank(E, i) - 1) = Max({d \in E : d < i})
          /\ Nth(E, Rank(E, i) - 1) < i
          /\ i <= Nth(E, Rank(E, i))
      BY <1>1, <1>3, <2>1, NeighboursOf
    <2>. QED  BY <1>2, <2>2
  <1>5. c = i - end(k - 1)  BY <1>2, <1>4 DEF PlaceAt
  <1>6. PiecesOf(t, mark, C)  BY PiecesAre
  <1>7. /\ DOMAIN Pieces(t, mark) = 1..m
        /\ end(k - 1) \in Nat /\ end(k) \in Nat
        /\ Len(Pieces(t, mark)[k]) = end(k) - end(k - 1) - 1
        /\ \A x \in 1..(end(k) - end(k - 1) - 1) : Pieces(t, mark)[k][x] = t[end(k - 1) + x]
    BY <1>4, <1>6 DEF PiecesOf
  <1>8. end(k) # i
    <2>1. k \in 0..(Cardinality(E) - 1)
      <3>. HIDE DEF E
      <3>1. Cardinality(E) \in Nat  BY <1>1, FS_CardinalityType
      <3>. QED  BY <1>4, <3>1
    <2>2. end(k) \in E
      <3>. HIDE DEF E, k
      <3>. QED  BY <1>1, <2>1, FiniteNumbered DEF RanksNumber
    <2>. QED  BY <1>3, <2>2
  <1>. DEFINE a == end(k - 1)
              b == end(k)
  <1>9. a \in Nat /\ b \in Nat /\ a < i /\ i <= b /\ b # i /\ c = i - a  BY <1>4, <1>5, <1>7, <1>8
  <1>10. c \in 1..(b - a - 1) /\ a + c = i
    <2>. HIDE DEF a, b, c
    <2>. QED  BY <1>3, <1>9
  <1>. HIDE DEF c
  <1>11. Pieces(t, mark)[k][c] = t[i]
    <2>1. \A x \in 1..(b - a - 1) : Pieces(t, mark)[k][x] = t[a + x]  BY <1>7
    <2>. HIDE DEF a, b, k
    <2>. QED  BY <1>10, <2>1
  <1>12. c \in 1..Len(Pieces(t, mark)[k]) /\ k \in DOMAIN Pieces(t, mark)  BY <1>4, <1>7, <1>10
  <1>13. PieceAt(t, mark, i) = k - 1  BY <1>2
  <1>. HIDE DEF k
  <1>14. i = a + c  BY <1>10
  <1>15. Cell(t, mark, i, k, c)  BY <1>11, <1>12, <1>13, <1>14 DEF Cell, c
  <1>. QED  BY <1>15 DEF k, c

\* And every place of a piece holds such a character of the text.
LEMMA CharacterOfCell ==
    ASSUME NEW C, NEW t, NEW mark, Chars(t, C), NEW k \in DOMAIN Pieces(t, mark), NEW c \in 1..Len(Pieces(t, mark)[k])
    PROVE  \E i \in 1..Len(t) : Cell(t, mark, i, k, c)
  <1>. DEFINE E == Cuts(t, mark)
              n == Cardinality(E)
              a == Nth(E, k - 1)
              b == Nth(E, k)
              i == a + c
              z == Len(t)
  <1>1. z \in Nat /\ E \in SUBSET Nat /\ IsFiniteSet(E) /\ \A j \in 1..z : j \in E <=> t[j] = mark
    BY CutsAre
  <1>2. PiecesOf(t, mark, C)  BY PiecesAre
  <1>3. /\ n - 1 \in Nat
        /\ k \in 1..(n - 1)
        /\ a \in Nat /\ b \in Nat /\ a < b /\ b <= z + 1
        /\ Len(Pieces(t, mark)[k]) = b - a - 1
        /\ \A x \in 1..(b - a - 1) : Pieces(t, mark)[k][x] = t[a + x]
    BY <1>2 DEF PiecesOf
  <1>4. c \in 1..(b - a - 1)  BY <1>3
  <1>5. n \in Nat
    <2>. HIDE DEF E
    <2>. QED  BY <1>1, FS_CardinalityType
  <1>6. a < i /\ i < b /\ i \in 1..z /\ i \in Nat /\ i <= b
    <2>. HIDE DEF a, b, z
    <2>. QED  BY <1>1, <1>3, <1>4
  <1>. HIDE DEF i, z
  <1>7. Rank(E, i) = k
    <2>. HIDE DEF E
    <2>. QED  BY <1>1, <1>3, <1>6, RankBetween
  <1>8. i \notin E
    <2>1. i \in E => Nth(E, Rank(E, i)) = i
      <3>. HIDE DEF E
      <3>. QED  BY <1>1, FiniteNumbered DEF RanksNumber
    <2>2. b # i  BY <1>3, <1>6
    <2>. QED  BY <1>7, <2>1, <2>2
  <1>9. t[i] # mark  BY <1>1, <1>6, <1>8
  <1>10. Pieces(t, mark)[k][c] = t[i]  BY <1>3, <1>4 DEF i
  <1>11. Cell(t, mark, i, PieceAt(t, mark, i) + 1, PlaceAt(t, mark, i)) /\ PieceAt(t, mark, i) \in Nat /\ Rank(E, i) = PieceAt(t, mark, i) + 1
    BY <1>6, <1>9, CellOfCharacter, CutsBefore DEF z
  <1>12. PieceAt(t, mark, i) = k - 1  BY <1>3, <1>7, <1>11
  <1>13. PlaceAt(t, mark, i) = c
    <2>1. {d \in E : d < i} = {0} \cup {j \in 1..(i - 1) : t[j] = mark}  BY <1>6, CutsBefore DEF z
    <2>2. a = Max({d \in E : d < i})
      <3>1. (\E d \in E : d < i) /\ \E d \in E : i <= d
        <4>1. k - 1 \in 0..(n - 1) /\ k \in 0..(n - 1)  BY <1>3, <1>5
        <4>2. a \in E /\ b \in E
          <5>. HIDE DEF E
          <5>. QED  BY <1>1, <4>1, FiniteNumbered DEF RanksNumber
        <4>. HIDE DEF a, b, E
        <4>. QED  BY <1>6, <4>2
      <3>. HIDE DEF E
      <3>2. Nth(E, Rank(E, i) - 1) = Max({d \in E : d < i})  BY <1>1, <1>6, <3>1, NeighboursOf
      <3>. QED  BY <1>7, <3>2
    <2>3. PlaceAt(t, mark, i) = i - a  BY <2>1, <2>2 DEF PlaceAt
    <2>. HIDE DEF a
    <2>. QED  BY <1>3, <1>4, <2>3 DEF i
  <1>14. Cell(t, mark, i, k, c)
    <2>1. i = a + c  BY DEF i
    <2>. QED  BY <1>6, <1>9, <1>10, <1>12, <1>13, <2>1 DEF Cell, z
  <1>. QED  BY <1>6, <1>14 DEF z

\* No piece has a mark in it.
LEMMA PiecesUnmarked ==
    ASSUME NEW C, NEW t, NEW mark, Chars(t, C)
    PROVE  Text(Pieces(t, mark), C \ {mark}) /\ Pieces(t, mark) # <<>>
  <1>. DEFINE D == C \ {mark}
              P == Pieces(t, mark)
              m == Cardinality(Cuts(t, mark)) - 1
  <1>1. m \in Nat \ {0} /\ DOMAIN P = 1..m /\ \A k \in 1..m : P[k] \in Seq(C)
    <2>1. PiecesOf(t, mark, C)  BY PiecesAre
    <2>. QED  BY <2>1 DEF PiecesOf
  <1>2. ASSUME NEW k \in 1..m PROVE P[k] \in Seq(D)
    <2>. DEFINE s == P[k]
                n == Len(s)
    <2>1. ASSUME NEW c \in 1..n PROVE s[c] # mark
      <3>1. PICK i \in 1..Len(t) : Cell(t, mark, i, k, c)  BY <1>1, CharacterOfCell
      <3>. QED  BY <3>1 DEF Cell
    <2>2. s \in Seq(C) /\ \A c \in 1..n : s[c] # mark  BY <1>1, <2>1
    <2>. HIDE DEF s
    <2>3. n \in Nat /\ s \in [1..n -> C]  BY <2>2, LenProperties
    <2>. HIDE DEF n
    <2>4. s \in [1..n -> D]  BY <2>2, <2>3
    <2>5. s \in Seq(D)  BY <2>3, <2>4, SeqDef
    <2>. QED  BY <2>5 DEF s
  <1>3. P = [k \in 1..m |-> P[k]]
    <2>. DEFINE piece(k) == SubSeq(t, Cut(t, mark, k - 1) + 1, Cut(t, mark, k) - 1)
    <2>1. P = [k \in 1..m |-> piece(k)]  BY DEF Pieces
    <2>. HIDE DEF piece, m, P
    <2>. QED  BY <2>1
  <1>. HIDE DEF P, m, D
  <1>4. P \in [1..m -> Seq(D)]  BY <1>2, <1>3
  <1>5. P \in Seq(Seq(D)) /\ Len(P) = m
    <2>1. P \in Seq(Seq(D))  BY <1>1, <1>4, SeqDef
    <2>. QED  BY <1>1, <1>4, <2>1, LenProperties
  <1>6. P # <<>>
    <2>1. Len(P) # 0  BY <1>1, <1>5
    <2>. QED  BY <2>1
  <1>. QED  BY <1>5, <1>6 DEF Text, P, D

\* A mark before a text.
LEMMA MarkFirst ==
    ASSUME NEW C, NEW t, NEW mark, Chars(t, C)
    PROVE  /\ Len(<<mark>> \o t) = Len(t) + 1
           /\ (<<mark>> \o t)[1] = mark
           /\ \A i \in 1..Len(t) : (<<mark>> \o t)[i + 1] = t[i]
  <1>. DEFINE one == <<mark>>
              B == C \cup {mark}
              z == Len(t)
  <1>1. one \in Seq(B) /\ Len(one) = 1 /\ one[1] = mark /\ t \in Seq(B) /\ z \in Nat
    <2>1. t \in Seq(C)  BY DEF Chars
    <2>. QED  BY <2>1, LenProperties
  <1>. HIDE DEF one, B
  <1>2. /\ Len(one \o t) = 1 + z
        /\ \A i \in 1..(1 + z) : (one \o t)[i] = IF i <= 1 THEN one[i] ELSE t[i - 1]
    <2>1. /\ Len(one \o t) = Len(one) + Len(t)
          /\ \A i \in 1..(Len(one) + Len(t)) : (one \o t)[i] = IF i <= Len(one) THEN one[i] ELSE t[i - Len(one)]
      BY <1>1, ConcatProperties
    <2>. QED  BY <1>1, <2>1
  <1>. HIDE DEF z
  <1>3. (one \o t)[1] = mark /\ 1 + z = z + 1  BY <1>1, <1>2
  <1>4. \A i \in 1..z : i + 1 \in 1..(1 + z) /\ ~(i + 1 <= 1) /\ (i + 1) - 1 = i  BY <1>1
  <1>5. \A i \in 1..z : (one \o t)[i + 1] = t[i]  BY <1>2, <1>4
  <1>. QED  BY <1>2, <1>3, <1>5 DEF one, z

\* A text with a mark before it consists of its pieces, each behind a mark.
LEMMA PiecesBlocks ==
    ASSUME NEW C, NEW t, NEW mark, Chars(t, C)
    PROVE  \E p : Blocks(mark, <<mark>> \o t, p, Pieces(t, mark))
  <1>. DEFINE E == Cuts(t, mark)
              n == Cardinality(E)
              m == n - 1
              end(k) == Nth(E, k)
              z == Len(t)
              P == Pieces(t, mark)
              text == <<mark>> \o t
  <1>1. /\ z \in Nat /\ E \in SUBSET Nat /\ IsFiniteSet(E)
        /\ 0 \in E /\ z + 1 \in E
        /\ \A d \in E : d <= z + 1
        /\ \A i \in 1..z : i \in E <=> t[i] = mark
    BY CutsAre
  <1>2. /\ n \in Nat
        /\ \A c \in E : Rank(E, c) \in Nat /\ Rank(E, c) < n /\ end(Rank(E, c)) = c
        /\ \A k \in 0..(n - 1) : end(k) \in E /\ Rank(E, end(k)) = k
        /\ \A c, d \in E : c < d => Rank(E, c) < Rank(E, d)
    <2>1. RanksNumber(E)
      <3>. HIDE DEF E
      <3>. QED  BY <1>1, FiniteNumbered
    <2>. QED  BY <2>1 DEF RanksNumber
  <1>. DEFINE LenP(k) == Len(P[k])
  <1>3. /\ m \in Nat \ {0}
        /\ \A k \in 1..m : /\ end(k - 1) \in Nat /\ end(k) \in Nat
                           /\ end(k - 1) < end(k) /\ end(k) <= z + 1
                           /\ LenP(k) = end(k) - end(k - 1) - 1
                           /\ \A c \in 1..(end(k) - end(k - 1) - 1) : P[k][c] = t[end(k - 1) + c]
    BY PiecesAre DEF PiecesOf
  <1>4. Len(P) = m
    <2>1. P \in Seq(Seq(C \ {mark}))  BY PiecesUnmarked DEF Text
    <2>2. DOMAIN P = 1..m  BY PiecesAre DEF PiecesOf
    <2>3. Len(P) \in Nat /\ DOMAIN P = 1..Len(P)  BY <2>1, LenProperties
    <2>. HIDE DEF P, m
    <2>4. m \in Nat  BY <1>3
    <2>. QED  BY <2>2, <2>3, <2>4
  <1>5. /\ Len(text) = z + 1
        /\ text[1] = mark
        /\ \A i \in 1..z : text[i + 1] = t[i]
    BY MarkFirst
  <1>. HIDE DEF E, n, z, P, text, LenP
  <1>6. end(0) = 0
    <2>1. 0 \in 0..(n - 1)  BY <1>2, <1>3
    <2>2. end(0) \in E /\ Rank(E, end(0)) = 0  BY <1>2, <2>1
    <2>3. 0 < end(0) => Rank(E, 0) < 0  BY <1>1, <1>2, <2>2
    <2>4. Rank(E, 0) \in Nat /\ end(0) \in Nat  BY <1>1, <1>2, <2>2
    <2>. DEFINE r == Rank(E, 0)
                e == end(0)
    <2>5. r \in Nat /\ e \in Nat /\ (0 < e => r < 0)  BY <2>3, <2>4
    <2>. HIDE DEF r, e
    <2>6. e = 0  BY <2>5
    <2>. QED  BY <2>6 DEF e
  <1>7. end(m) = z + 1
    <2>1. m \in 0..(n - 1)  BY <1>2, <1>3
    <2>2. end(m) \in E /\ Rank(E, end(m)) = m /\ end(m) <= z + 1 /\ end(m) \in Nat  BY <1>1, <1>2, <2>1
    <2>3. end(m) < z + 1 => m < Rank(E, z + 1)  BY <1>1, <1>2, <2>2
    <2>4. Rank(E, z + 1) \in Nat /\ Rank(E, z + 1) < n  BY <1>1, <1>2
    <2>. HIDE DEF end
    <2>5. ~(m < Rank(E, z + 1))  BY <1>2, <2>4
    <2>. QED  BY <1>1, <2>2, <2>3, <2>5
  <1>. DEFINE p == [j \in 1..(m + 1) |-> end(j - 1)]
  <1>8. \A j \in 1..(m + 1) : end(j - 1) \in 0..(z + 1)
    <2>1. SUFFICES ASSUME NEW j \in 1..(m + 1) PROVE end(j - 1) \in 0..(z + 1)  OBVIOUS
    <2>2. j - 1 \in 0..(n - 1)  BY <1>2, <1>3
    <2>. DEFINE e == end(j - 1)
    <2>3. e \in E  BY <1>2, <2>2
    <2>. HIDE DEF e
    <2>4. e \in Nat /\ e <= z + 1  BY <1>1, <2>3
    <2>5. e \in 0..(z + 1)  BY <1>1, <2>4
    <2>. QED  BY <2>5 DEF e
  <1>9. \A j \in 1..m : p[j] = end(j - 1) /\ p[j + 1] = end(j)
    <2>1. \A j \in 1..m : j \in 1..(m + 1) /\ j + 1 \in 1..(m + 1) /\ (j + 1) - 1 = j  BY <1>3
    <2>. HIDE DEF end, m
    <2>. QED  BY <2>1
  <1>10. p \in [1..(m + 1) -> 0..(z + 1)] /\ p[1] = 0 /\ p[m + 1] = z + 1
    <2>1. 1 \in 1..(m + 1) /\ m + 1 \in 1..(m + 1) /\ 1 - 1 = 0 /\ (m + 1) - 1 = m  BY <1>3
    <2>. HIDE DEF end, m
    <2>. QED  BY <1>6, <1>7, <1>8, <2>1
  <1>11. ASSUME NEW j \in 1..m
         PROVE  /\ p[j + 1] = p[j] + 1 + LenP(j)
                /\ text[p[j] + 1] = mark
                /\ \A c \in 1..LenP(j) : text[p[j] + 1 + c] = P[j][c]
    <2>. DEFINE a == end(j - 1)
                b == end(j)
    <2>1. /\ a \in Nat /\ b \in Nat /\ a < b /\ b <= z + 1 /\ LenP(j) = b - a - 1
          /\ \A c \in 1..(b - a - 1) : P[j][c] = t[a + c]
      BY <1>3
    <2>2. p[j] = a /\ p[j + 1] = b  BY <1>9
    <2>3. a # 0 => a \in E
      <3>1. j - 1 \in 0..(n - 1)  BY <1>2, <1>3
      <3>. QED  BY <1>2, <3>1
    <2>. HIDE DEF a, b, p
    <2>4. b = a + 1 + (b - a - 1)  BY <2>1
    <2>5. text[a + 1] = mark
      <3>1. CASE a = 0  BY <1>5, <3>1
      <3>2. CASE a # 0
        <4>1. a \in 1..z  BY <1>1, <2>1, <3>2
        <4>2. t[a] = mark  BY <1>1, <2>3, <3>2, <4>1
        <4>. QED  BY <1>5, <4>1, <4>2
      <3>. QED  BY <3>1, <3>2
    <2>6. ASSUME NEW c \in 1..(b - a - 1) PROVE text[a + 1 + c] = P[j][c]
      <3>1. a + c \in 1..z /\ (a + c) + 1 = a + 1 + c  BY <1>1, <2>1
      <3>. QED  BY <1>5, <2>1, <3>1
    <2>. QED  BY <2>1, <2>2, <2>4, <2>5, <2>6
  <1>. HIDE DEF p
  <1>12. z + 1 \in Nat  BY <1>1
  <1>13. Blocks(mark, text, p, P)  BY <1>4, <1>5, <1>10, <1>11, <1>12 DEF Blocks, LenP
  <1>. QED  BY <1>13 DEF P, text

\* A joined text with a mark before it consists of the texts, each behind a mark.
LEMMA JoinedIs ==
    ASSUME NEW mark, NEW C, NEW K, Text(K, C), K # <<>>
    PROVE  /\ Chars(Joined(K, mark), C \cup {mark})
           /\ \E p : Blocks(mark, <<mark>> \o Joined(K, mark), p, K)
  <1>. DEFINE D == C \cup {mark}
              text == FlattenSeq(Marked(mark, K))
              n == Len(K)
              z == Len(text)
              first == Len(K[1])
  <1>1. text \in Seq(D)  BY JoinedBlocks
  <1>2. PICK p : Blocks(mark, text, p, K)  BY JoinedBlocks
  <1>3. n \in Nat \ {0}  BY LenProperties, EmptySeq DEF Text
  <1>4. first \in Nat
    <2>1. 1 \in 1..n
      <3>. HIDE DEF n
      <3>. QED  BY <1>3
    <2>2. K[1] \in Seq(C)  BY <2>1, ElementOfSeq DEF Text
    <2>. QED  BY <2>2, LenProperties
  <1>5. Joined(K, mark) = Tail(text)  BY DEF Joined, Marked
  <1>. HIDE DEF text, D
  <1>6. /\ z \in Nat
        /\ p \in [1..(n + 1) -> 0..z] /\ p[1] = 0
        /\ \A j \in 1..n : p[j + 1] = p[j] + 1 + Len(K[j]) /\ text[p[j] + 1] = mark
    BY <1>2 DEF Blocks
  <1>7. p[1 + 1] = p[1] + 1 + first /\ text[p[1] + 1] = mark /\ p[1 + 1] \in 0..z /\ p[1] = 0
    <2>1. 1 \in 1..n /\ 1 + 1 \in 1..(n + 1)
      <3>. HIDE DEF n
      <3>. QED  BY <1>3
    <2>. HIDE DEF n, z
    <2>. QED  BY <1>6, <2>1
  <1>. HIDE DEF z, first
  <1>8. text[1] = mark /\ 1 \in 1..z /\ z \in 1..z /\ z \in Nat
    <2>1. text[0 + 1] = mark  BY <1>7
    <2>2. 1 + first <= z  BY <1>4, <1>6, <1>7
    <2>3. z \in Nat /\ 1 <= z  BY <1>4, <1>6, <2>2
    <2>. QED  BY <2>1, <2>3
  <1>9. text # <<>>
    <2>1. z # 0  BY <1>8
    <2>. QED  BY <2>1 DEF z
  <1>10. <<mark>> \o Tail(text) = text
    <2>1. SubSeq(text, 1, z) = <<text[1]>> \o SubSeq(text, 1 + 1, z)  BY <1>1, <1>8, SubSeqRecursiveFirst DEF z
    <2>2. Tail(text) = SubSeq(text, 2, z)  BY <1>1, <1>9, TailIsSubSeq DEF z
    <2>3. SubSeq(text, 1, z) = text  BY <1>1, SubSeqFull DEF z
    <2>4. 1 + 1 = 2  OBVIOUS
    <2>. QED  BY <1>8, <2>1, <2>2, <2>3, <2>4
  <1>11. Tail(text) \in Seq(D)  BY <1>1, <1>9, HeadTailProperties
  <1>. QED  BY <1>2, <1>5, <1>10, <1>11 DEF Chars, D

\* Cutting a joined text gives the texts back, if no text has the mark in it.
THEOREM PiecesOfJoined ==
    ASSUME NEW mark, NEW C, mark \notin C, NEW K \in Seq(Seq(C)), K # <<>>
    PROVE  Pieces(Joined(K, mark), mark) = K
  <1>. DEFINE t == Joined(K, mark)
              P == Pieces(t, mark)
  <1>0. Text(K, C)  BY DEF Text
  <1>1. Chars(t, C \cup {mark})  BY <1>0, JoinedIs
  <1>2. PICK q : Blocks(mark, <<mark>> \o t, q, K)  BY <1>0, JoinedIs
  <1>. HIDE DEF t
  <1>3. PICK p : Blocks(mark, <<mark>> \o t, p, P)  BY <1>1, PiecesBlocks
  <1>4. Text(P, C)
    <2>1. Text(P, (C \cup {mark}) \ {mark})  BY <1>1, PiecesUnmarked
    <2>2. (C \cup {mark}) \ {mark} = C  OBVIOUS
    <2>. QED  BY <2>1, <2>2
  <1>. HIDE DEF P
  <1>5. P = K  BY <1>0, <1>2, <1>3, <1>4, BlocksOnce
  <1>. QED  BY <1>5 DEF P, t

\* Cutting the empty text gives one empty text.
LEMMA PiecesOfEmpty ==
    ASSUME NEW mark
    PROVE  Pieces(<<>>, mark) = <<<<>>>>
  <1>. DEFINE P == Pieces(<<>>, mark)
              D == {} \ {mark}
              m == Cardinality(Cuts(<<>>, mark)) - 1
  <1>1. Chars(<<>>, {})  BY DEF Chars
  <1>2. P \in Seq(Seq(D)) /\ DOMAIN P = 1..m
    <2>1. P \in Seq(Seq(D))  BY <1>1, PiecesUnmarked DEF Text
    <2>2. PiecesOf(<<>>, mark, {})  BY <1>1, PiecesAre
    <2>. QED  BY <2>1, <2>2 DEF PiecesOf
  <1>3. m = 1
    <2>1. Cuts(<<>>, mark) = {0, 1}  BY DEF Cuts
    <2>2. Cardinality({0, 1}) = 2
      <3>1. Cardinality({0}) = 1 /\ IsFiniteSet({0})  BY FS_Singleton
      <3>2. Cardinality({0} \cup {1}) = Cardinality({0}) + 1  BY <3>1, FS_AddElement
      <3>3. {0} \cup {1} = {0, 1}  OBVIOUS
      <3>. QED  BY <3>1, <3>2, <3>3
    <2>. QED  BY <2>1, <2>2
  <1>. HIDE DEF P, m
  <1>4. Len(P) = 1
    <2>1. Len(P) \in Nat /\ DOMAIN P = 1..Len(P)  BY <1>2, LenProperties
    <2>. DEFINE n == Len(P)
    <2>. HIDE DEF n
    <2>2. n \in Nat /\ 1..n = 1..1  BY <1>2, <1>3, <2>1 DEF n
    <2>3. 1 \in 1..n /\ n \in 1..1
      <3>1. 1 \in 1..n  BY <2>2
      <3>. QED  BY <2>2, <3>1
    <2>. QED  BY <2>3 DEF n
  <1>5. P[1] = <<>>
    <2>0. 1 \in 1..Len(P)  BY <1>4
    <2>1. P[1] \in Seq(D)
      <3>. HIDE DEF D
      <3>. QED  BY <1>2, <2>0, ElementOfSeq
    <2>. DEFINE s == P[1]
                n == Len(s)
    <2>. HIDE DEF s
    <2>2. n \in Nat /\ s \in [1..n -> D]  BY <2>1, LenProperties DEF s
    <2>3. n = 0
      <3>. HIDE DEF n
      <3>1. n # 0 => 1 \in 1..n  BY <2>2
      <3>2. n # 0 => s[1] \in D  BY <2>2, <3>1
      <3>. QED  BY <3>2
    <2>. QED  BY <2>1, <2>3, EmptySeq DEF s
  <1>6. <<<<>>>> \in Seq(Seq(D)) /\ Len(<<<<>>>>) = 1 /\ <<<<>>>>[1] = <<>>  OBVIOUS
  <1>7. P = <<<<>>>>
    <2>. DEFINE Q == <<<<>>>>
    <2>1. Q \in Seq(Seq(D)) /\ Len(Q) = 1 /\ Q[1] = <<>>  BY <1>6
    <2>. HIDE DEF Q, D
    <2>2. \A i \in 1..1 : P[i] = Q[i]  BY <1>5, <2>1
    <2>3. P = Q  BY <1>2, <1>4, <2>1, <2>2, SeqEqual
    <2>. QED  BY <2>3 DEF Q
  <1>. QED  BY <1>7 DEF P

\* Elements joined one by one.
LEMMA FlattenSingles ==
    ASSUME NEW S, NEW s \in Seq(S), s # <<>>
    PROVE  FlattenSeq([j \in DOMAIN s |-> <<s[j]>>]) = s
  <1>. DEFINE n == Len(s)
              parts == [j \in DOMAIN s |-> <<s[j]>>]
              start(i) == SubSeq(s, 1, i)
              g == [i \in 1..n |-> start(i)]
              G(i) == IF i = 1 THEN parts[i] ELSE g[i - 1] \o parts[i]
  <1>1. n \in Nat \ {0} /\ DOMAIN s = 1..n  BY LenProperties, EmptySeq
  <1>2. parts = [j \in 1..n |-> <<s[j]>>]  BY <1>1
  <1>3. Len(parts) = n
    <2>1. parts \in [1..n -> Seq(S)]
      <3>1. \A j \in 1..n : <<s[j]>> \in Seq(S)
        <4>1. \A j \in 1..n : s[j] \in S  BY ElementOfSeq
        <4>. QED  BY <4>1
      <3>. HIDE DEF n
      <3>. QED  BY <1>2, <3>1
    <2>. HIDE DEF parts, n
    <2>2. parts \in Seq(Seq(S))  BY <1>1, <2>1, SeqDef
    <2>. QED  BY <1>1, <2>1, <2>2, LenProperties
  <1>4. \A i \in 1..n : start(i) = G(i)
    <2>1. SUFFICES ASSUME NEW i \in 1..n PROVE start(i) = G(i)  OBVIOUS
    <2>2. parts[i] = <<s[i]>>
      <3>. HIDE DEF n, parts
      <3>. QED  BY <1>2
    <2>3. CASE i = 1
      <3>1. SubSeq(s, 1, 1) = <<s[1]>>
        <4>1. SubSeq(s, 1, 1) = <<s[1]>> \o SubSeq(s, 1 + 1, 1)
          <5>1. 1 \in 1..n  BY <2>3
          <5>. QED  BY <5>1, SubSeqRecursiveFirst
        <4>2. SubSeq(s, 1 + 1, 1) = <<>>  BY SubSeqEmpty
        <4>3. <<s[1]>> \o <<>> = <<s[1]>>  OBVIOUS
        <4>. QED  BY <4>1, <4>2, <4>3
      <3>. QED  BY <2>2, <2>3, <3>1
    <2>4. CASE i # 1
      <3>1. i - 1 \in 1..n /\ 1 \in 1..n /\ i \in 1..n
        <4>. HIDE DEF n
        <4>. QED  BY <1>1, <2>4
      <3>2. g[i - 1] = start(i - 1)
        <4>. HIDE DEF n, start
        <4>. QED  BY <3>1
      <3>3. start(i) = start(i - 1) \o <<s[i]>>
        <4>1. 1 \in 1..Len(s) /\ i \in 1..Len(s)  BY <3>1
        <4>. HIDE DEF n, parts, g
        <4>. QED  BY <4>1, SubSeqRecursiveSecond
      <3>. HIDE DEF g, parts, start, n
      <3>. QED  BY <2>2, <2>4, <3>2, <3>3
    <2>. QED  BY <2>3, <2>4
  <1>5. g = [i \in 1..n |-> G(i)]
    <2>1. g = [i \in 1..n |-> start(i)]  OBVIOUS
    <2>. HIDE DEF g, G, start, n
    <2>. QED  BY <1>4, <2>1
  <1>. HIDE DEF parts, n
  <1>6. IsJoined(g, parts, n)
    <2>. HIDE DEF g
    <2>. QED  BY <1>5 DEF IsJoined
  <1>7. FlattenSeq(parts) = g[n]
    <2>. HIDE DEF g
    <2>. QED  BY <1>1, <1>3, <1>6, FlattenOf
  <1>8. g[n] = SubSeq(s, 1, n)
    <2>1. n \in 1..n  BY <1>1
    <2>. QED  BY <2>1
  <1>9. SubSeq(s, 1, n) = s  BY SubSeqFull DEF n
  <1>. QED  BY <1>7, <1>8, <1>9 DEF parts

-----------------------------------------------------------------------------
(* Finding a text between marks.                                           *)

\* A text without a mark is one over the other characters.
LEMMA WithoutMark ==
    ASSUME NEW C, NEW mark, NEW t \in Seq(C), mark \notin Range(t)
    PROVE  t \in Seq(C \ {mark})
  <1>. DEFINE n == Len(t)
              D == C \ {mark}
  <1>1. n \in Nat /\ DOMAIN t = 1..n /\ t \in [1..n -> C]  BY LenProperties
  <1>2. \A i \in 1..n : t[i] # mark
    <2>1. Range(t) = {t[i] : i \in DOMAIN t}  BY DEF Range
    <2>. HIDE DEF n
    <2>. QED  BY <1>1, <2>1
  <1>. HIDE DEF n
  <1>3. t \in [1..n -> D]  BY <1>1, <1>2
  <1>. HIDE DEF D
  <1>4. t \in Seq(D)  BY <1>1, <1>3, SeqDef
  <1>. QED  BY <1>4 DEF D

\* A text between two marks.
Wrapped(t, mark) == <<mark>> \o t \o <<mark>>

\* w is t between two marks.
WrappedAt(t, mark, w) ==
    /\ Len(t) \in Nat
    /\ Len(w) = Len(t) + 2
    /\ w[1] = mark
    /\ w[Len(t) + 2] = mark
    /\ \A i \in 1..Len(t) : w[i + 1] = t[i]

\* Where the characters of a text between two marks are.
LEMMA WrappedIs ==
    ASSUME NEW C, NEW t, NEW mark, Chars(t, C)
    PROVE  Chars(Wrapped(t, mark), C \cup {mark}) /\ WrappedAt(t, mark, Wrapped(t, mark))
  <1>. DEFINE D == C \cup {mark}
              one == <<mark>>
              u == one \o t
              n == Len(t)
              w == u \o one
  <1>1. one \in Seq(D) /\ Len(one) = 1 /\ one[1] = mark  OBVIOUS
  <1>2. t \in Seq(D)
    <2>1. t \in Seq(C)  BY DEF Chars
    <2>. QED  BY <2>1
  <1>. HIDE DEF one, D
  <1>3. n \in Nat  BY <1>2, LenProperties
  <1>4. /\ u \in Seq(D) /\ Len(u) = Len(one) + Len(t)
        /\ \A i \in 1..(Len(one) + Len(t)) : u[i] = IF i <= Len(one) THEN one[i] ELSE t[i - Len(one)]
    BY <1>1, <1>2, ConcatProperties
  <1>. HIDE DEF u
  <1>5. /\ w \in Seq(D) /\ Len(w) = Len(u) + Len(one)
        /\ \A i \in 1..(Len(u) + Len(one)) : w[i] = IF i <= Len(u) THEN u[i] ELSE one[i - Len(u)]
    <2>1. u \in Seq(D)  BY <1>4
    <2>. QED  BY <1>1, <2>1, ConcatProperties
  <1>. HIDE DEF w
  <1>6. /\ Len(u) = 1 + n /\ Len(w) = (1 + n) + 1
        /\ \A i \in 1..(1 + n) : u[i] = IF i <= 1 THEN one[i] ELSE t[i - 1]
        /\ \A i \in 1..((1 + n) + 1) : w[i] = IF i <= 1 + n THEN u[i] ELSE one[i - (1 + n)]
    BY <1>1, <1>4, <1>5
  <1>. HIDE DEF n
  <1>7. Len(w) = n + 2  BY <1>3, <1>6
  <1>8. w[1] = mark
    <2>1. 1 \in 1..(1 + n) /\ 1 \in 1..((1 + n) + 1) /\ 1 <= 1 + n  BY <1>3
    <2>. QED  BY <1>1, <1>6, <2>1
  <1>9. w[n + 2] = mark
    <2>1. n + 2 \in 1..((1 + n) + 1) /\ ~(n + 2 <= 1 + n) /\ (n + 2) - (1 + n) = 1  BY <1>3
    <2>. QED  BY <1>1, <1>6, <2>1
  <1>10. ASSUME NEW i \in 1..n PROVE w[i + 1] = t[i]
    <2>1. i + 1 \in 1..(1 + n) /\ i + 1 \in 1..((1 + n) + 1) /\ i + 1 <= 1 + n /\ ~(i + 1 <= 1) /\ (i + 1) - 1 = i
      BY <1>3
    <2>. QED  BY <1>6, <2>1
  <1>11. WrappedAt(t, mark, w)  BY <1>3, <1>7, <1>8, <1>9, <1>10 DEF WrappedAt, n
  <1>. QED  BY <1>5, <1>11 DEF Wrapped, w, u, one, D, Chars

\* part stands in text behind place i.
StandsAt(text, part, i) == \A c \in 1..Len(part) : text[i + c] = part[c]

\* A mark in a text of blocks stands before one of them.
LEMMA PlaceOfMark ==
    ASSUME NEW mark, NEW C, mark \notin C, NEW K, NEW text, NEW p, Text(K, C), Blocks(mark, text, p, K),
           NEW x \in 1..Len(text), text[x] = mark
    PROVE  \E j \in 1..Len(K) : p[j] + 1 = x
  <1>. DEFINE k == Len(K)
              z == Len(text)
              LenK(j) == Len(K[j])
              before == {j \in 1..(k + 1) : p[j] < x}
              i == Max(before)
  <1>1. k \in Nat /\ \A j \in 1..k : K[j] \in Seq(C) /\ LenK(j) \in Nat
    <2>1. K \in Seq(Seq(C))  BY DEF Text
    <2>2. \A j \in 1..k : K[j] \in Seq(C)  BY <2>1, ElementOfSeq
    <2>. QED  BY <2>1, <2>2, LenProperties
  <1>2. /\ z \in Nat
        /\ p \in [1..(k + 1) -> 0..z] /\ p[1] = 0 /\ p[k + 1] = z
        /\ \A j \in 1..k : /\ p[j + 1] = p[j] + 1 + LenK(j)
                           /\ \A c \in 1..LenK(j) : text[p[j] + 1 + c] = K[j][c]
    BY DEF Blocks
  <1>3. x \in 1..z  OBVIOUS
  <1>4. \A j \in 1..k : \A c \in 1..LenK(j) : K[j][c] # mark
    <2>1. \A j \in 1..k : \A c \in 1..LenK(j) : K[j][c] \in C  BY <1>1, ElementOfSeq
    <2>. QED  BY <2>1
  <1>. HIDE DEF k, z, LenK
  <1>5. before \in SUBSET Int /\ 1 \in before /\ before # {} /\ k + 1 \in Int /\ \A j \in before : j <= k + 1
    <2>1. 1 \in 1..(k + 1) /\ k + 1 \in Int /\ \A j \in 1..(k + 1) : j \in Int /\ j <= k + 1  BY <1>1
    <2>2. p[1] < x  BY <1>2, <1>3
    <2>. QED  BY <2>1, <2>2
  <1>6. i \in before /\ \A j \in before : j <= i
    <2>. HIDE DEF before
    <2>. QED  BY <1>5, MaxIs
  <1>7. i \in 1..(k + 1) /\ p[i] < x
    <2>. HIDE DEF i
    <2>. QED  BY <1>6
  <1>8. i # k + 1
    <2>1. ~(z < x)  BY <1>2, <1>3
    <2>. HIDE DEF i
    <2>. QED  BY <1>2, <1>7, <2>1
  <1>. HIDE DEF i
  <1>9. i \in 1..k /\ i + 1 \in 1..(k + 1) /\ ~(i + 1 <= i)  BY <1>1, <1>7, <1>8
  <1>10. ~(p[i + 1] < x)  BY <1>6, <1>9
  <1>11. p[i] \in 0..z /\ p[i + 1] \in 0..z  BY <1>2, <1>7, <1>9
  <1>. DEFINE a == p[i]
              b == p[i + 1]
              l == LenK(i)
  <1>12. a \in 0..z /\ b \in 0..z /\ b = a + 1 + l /\ l \in Nat /\ a < x /\ ~(b < x)
    BY <1>1, <1>2, <1>7, <1>9, <1>10, <1>11
  <1>13. \A c \in 1..l : text[a + 1 + c] # mark
    <2>1. \A c \in 1..l : text[a + 1 + c] = K[i][c] /\ K[i][c] # mark  BY <1>2, <1>4, <1>9
    <2>. QED  BY <2>1
  <1>. HIDE DEF a, b, l
  <1>14. a + 1 = x
    <2>1. SUFFICES ASSUME a + 1 # x PROVE FALSE  OBVIOUS
    <2>2. x - a - 1 \in 1..l /\ a + 1 + (x - a - 1) = x  BY <1>2, <1>3, <1>12, <2>1
    <2>3. text[a + 1 + (x - a - 1)] # mark  BY <1>13, <2>2
    <2>. QED  BY <2>2, <2>3
  <1>. QED  BY <1>9, <1>14 DEF a, k

\* A text f between two marks stands exactly where it is one of the blocks, if the text
\* of the blocks ends with a mark.
LEMMA FoundAsBlock ==
    ASSUME NEW mark, NEW C, mark \notin C, NEW K, NEW text, NEW p, Text(K, C), Blocks(mark, text, p, K),
           NEW w, Len(w) = Len(text) + 1, w[Len(text) + 1] = mark, \A x \in 1..Len(text) : w[x] = text[x],
           NEW f, Chars(f, C), f # <<>>, NEW e, WrappedAt(f, mark, e)
    PROVE  (\E i \in 0..(Len(w) - Len(e)) : StandsAt(w, e, i)) <=> \E j \in 1..Len(K) : K[j] = f
  <1>. DEFINE k == Len(K)
              z == Len(text)
              m == Len(f)
              LenK(j) == Len(K[j])
  <1>1. k \in Nat /\ \A j \in 1..k : K[j] \in Seq(C) /\ LenK(j) \in Nat
    <2>1. K \in Seq(Seq(C))  BY DEF Text
    <2>2. \A j \in 1..k : K[j] \in Seq(C)  BY <2>1, ElementOfSeq
    <2>. QED  BY <2>1, <2>2, LenProperties
  <1>2. /\ z \in Nat
        /\ p \in [1..(k + 1) -> 0..z] /\ p[k + 1] = z
        /\ \A j \in 1..k : /\ p[j + 1] = p[j] + 1 + LenK(j)
                           /\ text[p[j] + 1] = mark
                           /\ \A c \in 1..LenK(j) : text[p[j] + 1 + c] = K[j][c]
    BY DEF Blocks
  <1>3. \A j \in 1..k : \A c \in 1..LenK(j) : K[j][c] # mark
    <2>1. \A j \in 1..k : \A c \in 1..LenK(j) : K[j][c] \in C  BY <1>1, ElementOfSeq
    <2>. QED  BY <2>1
  <1>4. m \in Nat /\ m # 0 /\ f \in Seq(C) /\ \A c \in 1..m : f[c] # mark
    <2>1. f \in Seq(C)  BY DEF Chars
    <2>2. \A c \in 1..m : f[c] \in C  BY <2>1, ElementOfSeq
    <2>. QED  BY <2>1, <2>2, LenProperties, EmptySeq
  <1>5. Len(e) = m + 2 /\ e[1] = mark /\ e[m + 2] = mark /\ \A c \in 1..m : e[c + 1] = f[c]  BY DEF WrappedAt
  <1>6. Len(w) = z + 1 /\ w[z + 1] = mark /\ \A x \in 1..z : w[x] = text[x]  OBVIOUS
  <1>7. \A i : StandsAt(w, e, i) <=> \A c \in 1..(m + 2) : w[i + c] = e[c]  BY <1>5 DEF StandsAt
  <1>8. \A j \in 1..k : \E l \in Nat, a \in 0..z :
            /\ l = LenK(j) /\ a = p[j] /\ a + 1 + l = p[j + 1] /\ a + 1 + l <= z
            /\ w[a + 1] = mark /\ w[(a + 1 + l) + 1] = mark
            /\ \A c \in 1..l : w[a + 1 + c] = K[j][c]
    <2>1. SUFFICES ASSUME NEW j \in 1..k
          PROVE \E l \in Nat, a \in 0..z :
            /\ l = LenK(j) /\ a = p[j] /\ a + 1 + l = p[j + 1] /\ a + 1 + l <= z
            /\ w[a + 1] = mark /\ w[(a + 1 + l) + 1] = mark
            /\ \A c \in 1..l : w[a + 1 + c] = K[j][c]
      OBVIOUS
    <2>. DEFINE a == p[j]
                b == p[j + 1]
                l == LenK(j)
    <2>. HIDE DEF k, z, m, LenK
    <2>2. j \in 1..(k + 1) /\ j + 1 \in 1..(k + 1) /\ (j # k => j + 1 \in 1..k)  BY <1>1
    <2>3. a \in 0..z /\ b \in 0..z /\ l \in Nat /\ b = a + 1 + l  BY <1>1, <1>2, <2>2
    <2>4. text[a + 1] = mark /\ \A c \in 1..l : text[a + 1 + c] = K[j][c]  BY <1>2
    <2>5. w[b + 1] = mark
      <3>1. CASE j = k  BY <1>2, <1>6, <3>1
      <3>2. CASE j # k
        <4>1. text[b + 1] = mark /\ p[(j + 1) + 1] = b + 1 + LenK(j + 1) /\ LenK(j + 1) \in Nat
          BY <1>1, <1>2, <2>2, <3>2
        <4>2. (j + 1) + 1 \in 1..(k + 1)  BY <1>1, <3>2
        <4>3. p[(j + 1) + 1] \in 0..z  BY <1>2, <4>2
        <4>4. b + 1 \in 1..z
          <5>. DEFINE y == p[(j + 1) + 1]
                      d == LenK(j + 1)
          <5>1. y \in 0..z /\ y = b + 1 + d /\ d \in Nat  BY <4>1, <4>3
          <5>2. b \in 0..z /\ z \in Nat  BY <1>2, <2>3
          <5>. HIDE DEF y, d, b
          <5>. QED  BY <5>1, <5>2
        <4>. QED  BY <1>6, <4>1, <4>4
      <3>. QED  BY <3>1, <3>2
    <2>. HIDE DEF a, b, l
    <2>6. a + 1 \in 1..z /\ \A c \in 1..l : a + 1 + c \in 1..z  BY <1>2, <2>3
    <2>7. w[a + 1] = mark /\ \A c \in 1..l : w[a + 1 + c] = K[j][c]
      <3>1. w[a + 1] = text[a + 1] /\ \A c \in 1..l : w[a + 1 + c] = text[a + 1 + c]  BY <1>6, <2>6
      <3>. QED  BY <2>4, <3>1
    <2>8. a + 1 + l = b /\ a + 1 + l <= z  BY <1>2, <2>3
    <2>9. l \in Nat /\ a \in 0..z /\ l = LenK(j) /\ a = p[j] /\ b = p[j + 1]  BY <2>3 DEF l, a, b
    <2>10. /\ l = LenK(j) /\ a = p[j] /\ a + 1 + l = p[j + 1] /\ a + 1 + l <= z
           /\ w[a + 1] = mark /\ w[(a + 1 + l) + 1] = mark
           /\ \A c \in 1..l : w[a + 1 + c] = K[j][c]
      BY <2>5, <2>7, <2>8, <2>9
    <2>11. l \in Nat /\ a \in 0..z  BY <2>9
    <2>. QED  BY <2>10, <2>11
  <1>. HIDE DEF k, z, m, LenK
  <1>9. ASSUME NEW j \in 1..k, K[j] = f
        PROVE  \E i \in 0..((z + 1) - (m + 2)) : StandsAt(w, e, i)
    <2>1. PICK l \in Nat, a \in 0..z :
            /\ l = LenK(j) /\ a = p[j] /\ a + 1 + l = p[j + 1] /\ a + 1 + l <= z
            /\ w[a + 1] = mark /\ w[(a + 1 + l) + 1] = mark
            /\ \A c \in 1..l : w[a + 1 + c] = K[j][c]
      BY <1>8
    <2>2. l = m  BY <1>9, <2>1 DEF LenK, m
    <2>3. a \in 0..((z + 1) - (m + 2))
      <3>1. a + 1 + m <= z  BY <2>1, <2>2
      <3>. QED  BY <1>2, <1>4, <3>1
    <2>4. ASSUME NEW c \in 1..(m + 2) PROVE w[a + c] = e[c]
      <3>1. CASE c = 1  BY <1>5, <2>1, <3>1
      <3>2. CASE c = m + 2
        <4>1. (a + 1 + m) + 1 = a + c  BY <1>4, <3>2
        <4>2. w[(a + 1 + m) + 1] = mark  BY <2>1, <2>2
        <4>. QED  BY <1>5, <3>2, <4>1, <4>2
      <3>3. CASE c # 1 /\ c # m + 2
        <4>1. c - 1 \in 1..m /\ (c - 1) + 1 = c /\ a + 1 + (c - 1) = a + c  BY <1>4, <3>3
        <4>2. w[a + 1 + (c - 1)] = f[c - 1]  BY <1>9, <2>1, <2>2, <4>1
        <4>3. e[(c - 1) + 1] = f[c - 1]  BY <1>5, <4>1
        <4>. QED  BY <4>1, <4>2, <4>3
      <3>. QED  BY <3>1, <3>2, <3>3
    <2>5. StandsAt(w, e, a)  BY <1>7, <2>4
    <2>. QED  BY <2>3, <2>5
  <1>10. ASSUME NEW i \in 0..((z + 1) - (m + 2)), StandsAt(w, e, i)
         PROVE  \E j \in 1..k : K[j] = f
    <2>1. \A c \in 1..(m + 2) : w[i + c] = e[c]  BY <1>7, <1>10
    <2>2. i + 1 \in 1..z /\ 1 \in 1..(m + 2) /\ m + 2 \in 1..(m + 2)  BY <1>2, <1>4
    <2>3. text[i + 1] = mark
      <3>1. w[i + 1] = mark  BY <1>5, <2>1, <2>2
      <3>2. w[i + 1] = text[i + 1]  BY <1>6, <2>2
      <3>. QED  BY <3>1, <3>2
    <2>4. PICK j \in 1..k : p[j] + 1 = i + 1
      <3>1. i + 1 \in 1..Len(text)  BY <2>2 DEF z
      <3>. QED  BY <2>3, <3>1, PlaceOfMark DEF k
    <2>5. PICK l \in Nat, a \in 0..z :
            /\ l = LenK(j) /\ a = p[j] /\ a + 1 + l = p[j + 1] /\ a + 1 + l <= z
            /\ w[a + 1] = mark /\ w[(a + 1 + l) + 1] = mark
            /\ \A c \in 1..l : w[a + 1 + c] = K[j][c]
      BY <1>8
    <2>6. a = i
      <3>1. a + 1 = i + 1  BY <2>4, <2>5
      <3>. QED  BY <3>1
    <2>7. \A c \in 1..m : w[i + 1 + c] = f[c]
      <3>1. \A c \in 1..m : c + 1 \in 1..(m + 2) /\ i + (c + 1) = i + 1 + c  BY <1>4
      <3>2. \A c \in 1..m : w[i + (c + 1)] = e[c + 1]  BY <2>1, <3>1
      <3>. QED  BY <1>5, <3>1, <3>2
    <2>8. w[i + 1 + (m + 1)] = mark
      <3>1. w[i + (m + 2)] = mark  BY <1>5, <2>1, <2>2
      <3>2. i + (m + 2) = i + 1 + (m + 1)  BY <1>4
      <3>. QED  BY <3>1, <3>2
    <2>9. w[i + 1 + (l + 1)] = mark
      <3>1. (i + 1 + l) + 1 = i + 1 + (l + 1)  OBVIOUS
      <3>2. w[(i + 1 + l) + 1] = mark  BY <2>5, <2>6
      <3>. QED  BY <3>1, <3>2
    <2>10. \A c \in 1..l : w[i + 1 + c] = K[j][c] /\ K[j][c] # mark  BY <1>3, <2>5, <2>6
    <2>11. l = m
      <3>1. ASSUME m < l PROVE FALSE
        <4>1. m + 1 \in 1..l  BY <1>4, <3>1
        <4>. QED  BY <2>8, <2>10, <4>1
      <3>2. ASSUME l < m PROVE FALSE
        <4>1. l + 1 \in 1..m  BY <1>4, <3>2
        <4>. QED  BY <1>4, <2>7, <2>9, <4>1
      <3>. QED  BY <1>4, <3>1, <3>2
    <2>12. \A c \in 1..m : K[j][c] = f[c]
      <3>1. \A c \in 1..m : w[i + 1 + c] = K[j][c]  BY <2>10, <2>11
      <3>. QED  BY <2>7, <3>1
    <2>13. K[j] \in Seq(C) /\ Len(K[j]) = m  BY <1>1, <2>5, <2>11 DEF LenK
    <2>14. K[j] = f
      <3>1. f \in Seq(C) /\ Len(f) = m  BY <1>4 DEF m
      <3>. QED  BY <2>12, <2>13, <3>1, SeqEqual
    <2>. QED  BY <2>14
  <1>11. Len(w) - Len(e) = (z + 1) - (m + 2)  BY <1>5, <1>6
  <1>12. (\E i \in 0..((z + 1) - (m + 2)) : StandsAt(w, e, i)) <=> \E j \in 1..k : K[j] = f  BY <1>9, <1>10
  <1>. QED  BY <1>11, <1>12 DEF k

=============================================================================
