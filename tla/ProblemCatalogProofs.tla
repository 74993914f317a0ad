------------------------ MODULE ProblemCatalogProofs ------------------------
(***************************************************************************)
(* Proofs about ProblemCatalog, for any number of administrators, users,   *)
(* leaderboard requests and submissions, any page size and any limits of   *)
(* positions and samples.                                                  *)
(*                                                                         *)
(* What a transaction has written is a function of the committed tables,   *)
(* its request and how far it is (Written): since the mutex keeps the      *)
(* committed tables still in the meantime, what COMMIT publishes is the    *)
(* whole effect of the request (Effect) and what ROLLBACK drops is all of  *)
(* it.  From this follow the ends of the transactions, the consistency of  *)
(* the leaderboard and, step by step, the promise of module Catalog.       *)
(*                                                                         *)
(* list_samples, NextOrd and the leaderboard sort and take maxima, and the *)
(* views join pages; the lemmas on Sorted, Ascending, Max, Page and        *)
(* FlattenSeq say what they return.                                        *)
(*                                                                         *)
(* What tags and keywords find (TextFilters) is proved for texts of any    *)
(* length: a LIKE pattern is followed along the keyword it was made of,    *)
(* and tags are pieces of the column between its commas.                   *)
(*                                                                         *)
(* Of the requests that read row by row (ProblemReaders), what a list has  *)
(* read and what is in front of its cursor are together what its first     *)
(* statement found, but for one row for each change since then: no step of *)
(* a writer, its rollback included, touches two rows of problems.          *)
(***************************************************************************)
EXTENDS ProblemReaders, TextProofs, FiniteSetTheorems, SequenceTheorems, WellFoundedInduction, TLAPS

-----------------------------------------------------------------------------
(* The inductive invariant.                                                *)

Authors == Clients \cup {Initial}
ProblemRows == [tag : Authors, visible : BOOLEAN]
CaseRows == [problem : Nat, ord : 0..MaxOrd, sample : BOOLEAN, text : Authors \X Nat]

\* The tables are what the statements take them for.
Database(db) ==
    /\ db = [problems |-> db.problems, cases |-> db.cases, lastProblem |-> db.lastProblem,
             lastCase |-> db.lastCase, status |-> db.status]
    /\ db.problems \in [DOMAIN db.problems -> ProblemRows]
    /\ db.cases \in [DOMAIN db.cases -> CaseRows]
    /\ db.lastProblem \in Nat
    /\ db.lastCase \in Nat
    /\ Tables(db)

\* The samples of a problem stand at 0, 1, and so on.
Numbered(db, p, n) ==
    /\ \A k, l \in SamplesOf(db, p) : db.cases[k].ord = db.cases[l].ord => k = l
    /\ {db.cases[k].ord : k \in SamplesOf(db, p)} = 0..(n - 1)

SamplesNumbered(db) == \A p \in DOMAIN db.problems : \E n \in 0..(MaxOrd + 1) : Numbered(db, p, n)

\* The place of a request tells whether it holds the mutex.
LockInv ==
    /\ inTx = (mutex # None)
    /\ \A t \in Clients :
        IF mutex = t THEN pc[t] \in {"begun", "samples", "replace", "emptied", "written"}
                     ELSE pc[t] \in {"idle", "rejected", "answered"} /\ op[t] = NoOp
    /\ \A b \in Boards :
        IF mutex = b THEN pc[b] \in {"begun", "counted"} ELSE pc[b] \in {"idle", "answered"}

AnswerInv == \A t \in Clients : pc[t] # "answered" => answer[t] = None

\* The tables of a transaction on db, after each of its statements.
NewRow(o) == [tag |-> o.tag, visible |-> o.visible]

Created(db, o) ==
    [db EXCEPT !.lastProblem = db.lastProblem + 1, !.problems = Put(db.problems, db.lastProblem + 1, NewRow(o))]

Updated(db, o) == [db EXCEPT !.problems[o.problem] = merged(o, @)]

\* The samples of p are gone and the first d of the texts are inserted.
WithSamples(db, p, texts, d) ==
    [db EXCEPT !.lastCase = db.lastCase + d,
               !.cases = [k \in (DOMAIN db.cases \ SamplesOf(db, p)) \cup (db.lastCase + 1)..(db.lastCase + d) |->
                            IF k <= db.lastCase THEN db.cases[k]
                            ELSE [problem |-> p, ord |-> k - db.lastCase - 1, sample |-> TRUE,
                                  text |-> texts[k - db.lastCase]]]]

Emptied(db, o) == [db EXCEPT !.cases = Drop(db.cases, CasesOf(db, o.problem))]

Removed(db, o) == [db EXCEPT !.cases = Drop(db.cases, CasesOf(db, o.problem)),
                             !.problems = Drop(db.problems, {o.problem})]

NewOrd(db, o) == Default(o.ord, NextOrd(db, o.problem))

CaseAdded(db, o) ==
    [db EXCEPT !.lastCase = db.lastCase + 1,
               !.cases = Put(db.cases, db.lastCase + 1,
                             [problem |-> o.problem, ord |-> NewOrd(db, o), sample |-> FALSE, text |-> o.text])]

CaseChanged(db, o) == [db EXCEPT !.cases[o.case] = changed(o, @)]

CaseRemoved(db, o) == [db EXCEPT !.cases = Drop(db.cases, {o.case})]

\* What a transaction that has reached its last statement has done to db.
Effect(db, o, new) ==
    \/ /\ o.kind = "create"
       /\ new = WithSamples(Created(db, o), db.lastProblem + 1, o.samples, Len(o.samples))
    \/ /\ o.kind = "update" /\ o.problem \in DOMAIN db.problems
       /\ new = IF o.samples = None THEN Updated(db, o)
                ELSE WithSamples(Updated(db, o), o.problem, o.samples, Len(o.samples))
    \/ /\ o.kind = "delete" /\ o.problem \in DOMAIN db.problems
       /\ \A s \in DOMAIN db.status : s[2] # o.problem
       /\ new = Removed(db, o)
    \/ /\ o.kind = "addCase" /\ o.problem \in DOMAIN db.problems
       /\ OrdFits(NewOrd(db, o))
       /\ new = CaseAdded(db, o)
    \/ /\ o.kind = "changeCase" /\ find_hidden(db, o)
       /\ new = CaseChanged(db, o)
    \/ /\ o.kind = "removeCase" /\ find_hidden(db, o)
       /\ new = CaseRemoved(db, o)

\* A request that inserts the samples of its problem: d of them are in, the others
\* to do.
Inserting(db, o, p, rest, new, d) ==
    /\ rest = SubSeq(o.samples, d + 1, Len(o.samples))
    /\ \/ /\ o.kind = "create" /\ p = db.lastProblem + 1
          /\ new = WithSamples(Created(db, o), p, o.samples, d)
       \/ /\ o.kind = "update" /\ p = o.problem /\ p \in DOMAIN db.problems
          /\ o.samples # None
          /\ new = WithSamples(Updated(db, o), p, o.samples, d)

\* What the transaction of the request o has written so far, by its place.
Written(place, o, p, rest, db, new) ==
    /\ place = "begun" => new = db
    /\ place = "replace" =>
        /\ o.kind = "update" /\ o.problem \in DOMAIN db.problems
        /\ o.samples # None
        /\ new = Updated(db, o)
    /\ place = "samples" => \E d \in 0..Len(o.samples) : Inserting(db, o, p, rest, new, d)
    /\ place = "emptied" =>
        /\ o.kind = "delete" /\ o.problem \in DOMAIN db.problems
        /\ \A s \in DOMAIN db.status : s[2] # o.problem
        /\ new = Emptied(db, o)
    /\ place = "written" => Effect(db, o, new)

WorkInv ==
    /\ mutex \notin Clients => work = disk
    /\ \A t \in Clients : mutex = t =>
        op[t] \in Operations[t] /\ Written(pc[t], op[t], target[t], todo[t], disk, work)

\* The rows of a page whose total was counted on the same tables.
Fits(entry) ==
    LET rest == entry.total - (entry.page - 1) * PageSize
    IN  Len(entry.items) = IF rest < 0 THEN 0 ELSE Min({rest, PageSize})

BoardInv ==
    \A b \in Boards :
        /\ board[b] = [page |-> board[b].page, total |-> board[b].total, items |-> board[b].items]
        /\ board[b].page \in Nat \ {0}
        /\ pc[b] = "counted" => board[b].total = Len(Ranked(work))
        /\ pc[b] = "answered" => Fits(board[b])

CatalogInv ==
    /\ CatalogTypeOK
    /\ DOMAIN op = Clients /\ DOMAIN target = Clients /\ DOMAIN todo = Clients /\ DOMAIN board = Boards
    /\ Database(work) /\ Database(disk)
    /\ SamplesNumbered(disk) /\ LockInv /\ AnswerInv /\ WorkInv /\ BoardInv

-----------------------------------------------------------------------------
(* Sorting.                                                                *)

\* R puts the elements of S in one line.
Orders(R, S) ==
    /\ \A x \in S : <<x, x>> \notin R
    /\ \A x, y, z \in S : <<x, y>> \in R /\ <<y, z>> \in R => <<x, z>> \in R
    /\ \A x, y \in S : x = y \/ <<x, y>> \in R \/ <<y, x>> \in R

\* What R puts before x.
Below(S, R, x) == {y \in S : <<y, x>> \in R}

\* An enumeration of S in the order R.
InLine(e, n, S, R) ==
    /\ e \in [1..n -> S]
    /\ \A x \in S : \E i \in 1..n : e[i] = x
    /\ \A i, j \in 1..n : i < j => <<e[i], e[j]>> \in R

\* The elements of an enumeration in order are all different.
LEMMA InLineBijection ==
    ASSUME NEW S, NEW R, Orders(R, S), NEW n \in Nat, NEW e, InLine(e, n, S, R)
    PROVE  /\ e \in Bijection(1..n, S)
           /\ IsFiniteSet(S)
           /\ Cardinality(S) = n
  <1>1. ASSUME NEW i \in 1..n, NEW j \in 1..n, e[i] = e[j] PROVE i = j
    <2>1. e[i] \in S  BY DEF InLine
    <2>2. ~(i < j)  BY <1>1, <2>1 DEF InLine, Orders
    <2>3. ~(j < i)  BY <1>1, <2>1 DEF InLine, Orders
    <2>. QED  BY <2>2, <2>3
  <1>2. e \in Bijection(1..n, S)
    <2>1. e \in [1..n -> S] /\ DOMAIN e = 1..n  BY DEF InLine
    <2>. QED  BY <1>1, <2>1 DEF InLine, Bijection, Injection, Surjection, IsInjective
  <1>3. IsFiniteSet(1..n) /\ Cardinality(1..n) = n  BY FS_Interval
  <1>4. ExistsBijection(1..n, S)  BY <1>2 DEF ExistsBijection
  <1>. QED  BY <1>2, <1>3, <1>4, FS_Bijection

\* The place in an enumeration is the number of elements before.
LEMMA PlaceInLine ==
    ASSUME NEW S, NEW R, Orders(R, S), NEW n \in Nat, NEW e, InLine(e, n, S, R), NEW i \in 1..n
    PROVE  Cardinality(Below(S, R, e[i])) = i - 1
  <1>. DEFINE f == [j \in 1..(i - 1) |-> e[j]]
  <1>1. ASSUME NEW j \in 1..(i - 1) PROVE j \in 1..n /\ j < i  OBVIOUS
  <1>2. ASSUME NEW j \in 1..(i - 1) PROVE e[j] \in Below(S, R, e[i])
    BY <1>1 DEF InLine, Below
  <1>3. ASSUME NEW y \in Below(S, R, e[i]) PROVE \E j \in 1..(i - 1) : e[j] = y
    <2>1. y \in S /\ <<y, e[i]>> \in R /\ e[i] \in S  BY DEF Below, InLine
    <2>2. PICK j \in 1..n : e[j] = y  BY <2>1 DEF InLine
    <2>3. ~(i < j)  BY <2>1, <2>2 DEF InLine, Orders
    <2>4. i # j  BY <2>1, <2>2 DEF Orders
    <2>. QED  BY <2>2, <2>3, <2>4
  <1>4. e \in Bijection(1..n, S)  BY InLineBijection
  <1>5. ASSUME NEW j \in 1..(i - 1), NEW k \in 1..(i - 1), e[j] = e[k] PROVE j = k
    BY <1>1, <1>4, <1>5 DEF Bijection, Injection, IsInjective
  <1>6. f \in Bijection(1..(i - 1), Below(S, R, e[i]))
    <2>1. f \in [1..(i - 1) -> Below(S, R, e[i])] /\ DOMAIN f = 1..(i - 1)  BY <1>2
    <2>2. \A j, k \in DOMAIN f : f[j] = f[k] => j = k  BY <1>5, <2>1
    <2>3. \A y \in Below(S, R, e[i]) : \E j \in 1..(i - 1) : f[j] = y  BY <1>3
    <2>. HIDE DEF f
    <2>. QED  BY <2>1, <2>2, <2>3 DEF Bijection, Injection, Surjection, IsInjective
  <1>7. ExistsBijection(1..(i - 1), Below(S, R, e[i]))  BY <1>6 DEF ExistsBijection
  <1>8. IsFiniteSet(1..(i - 1)) /\ Cardinality(1..(i - 1)) = i - 1  BY FS_Interval
  <1>. QED  BY <1>7, <1>8, FS_Bijection

\* There is only one enumeration in order, and Sorted finds it.
LEMMA SortedIs ==
    ASSUME NEW S, NEW R, Orders(R, S), NEW n \in Nat, NEW e, InLine(e, n, S, R)
    PROVE  Sorted(S, R) = e
  <1>1. Cardinality(S) = n  BY InLineBijection
  <1>2. ASSUME NEW i \in 1..n PROVE e[i] = CHOOSE x \in S : Cardinality(Below(S, R, x)) = i - 1
    <2>1. e[i] \in S  BY DEF InLine
    <2>3. Cardinality(Below(S, R, e[i])) = i - 1  BY PlaceInLine
    <2>2. ASSUME NEW x \in S, Cardinality(Below(S, R, x)) = i - 1 PROVE x = e[i]
      <3>1. PICK j \in 1..n : e[j] = x  BY DEF InLine
      <3>2. Cardinality(Below(S, R, e[j])) = j - 1  BY PlaceInLine
      <3>3. j - 1 = i - 1  BY <2>2, <3>1, <3>2
      <3>. QED  BY <3>1, <3>3
    <2>. QED  BY <2>1, <2>2, <2>3
  <1>3. e = [i \in 1..n |-> e[i]]  BY DEF InLine
  <1>4. Sorted(S, R) = [i \in 1..n |-> CHOOSE x \in S : Cardinality(Below(S, R, x)) = i - 1]
    BY <1>1 DEF Sorted, Below
  <1>. QED  BY <1>2, <1>3, <1>4

\* A finite set has such an enumeration.
LEMMA SortedInLine ==
    ASSUME NEW S, NEW R, IsFiniteSet(S), Orders(R, S)
    PROVE  InLine(Sorted(S, R), Cardinality(S), S, R)
  <1>. DEFINE n == Cardinality(S)
              rank(x) == Cardinality(Below(S, R, x))
              f == [x \in S |-> rank(x) + 1]
              s == Sorted(S, R)
  <1>1. n \in Nat  BY FS_CardinalityType
  <1>2. ASSUME NEW x \in S PROVE IsFiniteSet(Below(S, R, x)) /\ rank(x) \in Nat /\ rank(x) < n
    <2>1. Below(S, R, x) \subseteq S /\ x \notin Below(S, R, x)  BY DEF Below, Orders
    <2>2. /\ IsFiniteSet(Below(S, R, x))
          /\ rank(x) <= n
          /\ n = rank(x) => S = Below(S, R, x)
      BY <2>1, FS_Subset
    <2>3. rank(x) \in Nat  BY <2>2, FS_CardinalityType
    <2>4. n # rank(x)  BY <2>1, <2>2
    <2>. QED  BY <1>1, <2>2, <2>3, <2>4
  <1>3. ASSUME NEW x \in S, NEW y \in S, <<x, y>> \in R PROVE rank(x) < rank(y)
    <2>1. Below(S, R, x) \subseteq Below(S, R, y)  BY <1>3 DEF Below, Orders
    <2>2. x \in Below(S, R, y) /\ x \notin Below(S, R, x)  BY <1>3 DEF Below, Orders
    <2>3. /\ rank(x) <= rank(y)
          /\ rank(y) = rank(x) => Below(S, R, y) = Below(S, R, x)
      BY <1>2, <2>1, FS_Subset
    <2>4. rank(x) \in Nat /\ rank(y) \in Nat  BY <1>2
    <2>5. rank(y) # rank(x)  BY <2>2, <2>3
    <2>. QED  BY <2>3, <2>4, <2>5
  <1>4. ASSUME NEW x \in S, NEW y \in S, rank(x) = rank(y) PROVE x = y
    <2>1. rank(x) \in Nat /\ rank(y) \in Nat  BY <1>2
    <2>2. <<x, y>> \notin R /\ <<y, x>> \notin R  BY <1>3, <1>4, <2>1
    <2>. QED  BY <2>2 DEF Orders
  <1>5. f \in Injection(S, 1..n)
    <2>1. ASSUME NEW x \in S PROVE rank(x) + 1 \in 1..n  BY <1>1, <1>2
    <2>2. f \in [S -> 1..n]  BY <2>1
    <2>3. ASSUME NEW x \in S, NEW y \in S, f[x] = f[y] PROVE x = y
      <3>1. rank(x) + 1 = rank(y) + 1  BY <2>3
      <3>2. rank(x) = rank(y)  BY <1>2, <3>1
      <3>. QED  BY <1>4, <3>2
    <2>4. DOMAIN f = S  OBVIOUS
    <2>. HIDE DEF f
    <2>. QED  BY <2>2, <2>3, <2>4 DEF Injection, IsInjective
  <1>6. f \in Surjection(S, 1..n)
    <2>1. IsFiniteSet(1..n) /\ Cardinality(1..n) = n  BY <1>1, FS_Interval
    <2>2. Cardinality(S) = Cardinality(1..n)  BY <2>1
    <2>. HIDE DEF f, n
    <2>. QED  BY <1>5, <2>1, <2>2, FS_Injection
  <1>7. ASSUME NEW i \in 1..n PROVE s[i] \in S /\ rank(s[i]) = i - 1
    <2>1. PICK x \in S : f[x] = i  BY <1>6 DEF Surjection
    <2>2. rank(x) + 1 = i  BY <2>1
    <2>3. rank(x) = i - 1  BY <1>2, <2>2
    <2>4. s[i] = CHOOSE y \in S : rank(y) = i - 1  BY DEF Sorted, Below
    <2>. HIDE DEF rank, s
    <2>. QED  BY <2>3, <2>4
  <1>8. s = [i \in 1..n |-> s[i]]
    <2>. DEFINE c(i) == CHOOSE x \in S : Cardinality({y \in S : <<y, x>> \in R}) = i - 1
    <2>1. s = [i \in 1..n |-> c(i)]  BY DEF Sorted
    <2>. HIDE DEF c, s, n
    <2>. QED  BY <2>1
  <1>9. s \in [1..n -> S]  BY <1>7, <1>8
  <1>10. ASSUME NEW x \in S PROVE \E i \in 1..n : s[i] = x
    <2>. DEFINE i == rank(x) + 1
    <2>1. i \in 1..n  BY <1>1, <1>2
    <2>2. s[i] \in S /\ rank(s[i]) = i - 1
      <3>. HIDE DEF i, rank, s, n
      <3>. QED  BY <1>7, <2>1
    <2>3. i - 1 = rank(x)
      <3>1. rank(x) \in Nat  BY <1>2
      <3>. HIDE DEF rank
      <3>. QED  BY <3>1
    <2>4. s[i] = x  BY <1>4, <2>2, <2>3
    <2>. QED  BY <2>1, <2>4
  <1>11. ASSUME NEW i \in 1..n, NEW j \in 1..n, i < j PROVE <<s[i], s[j]>> \in R
    <2>1. s[i] \in S /\ s[j] \in S /\ rank(s[i]) = i - 1 /\ rank(s[j]) = j - 1  BY <1>7
    <2>2. rank(s[i]) # rank(s[j]) /\ ~(rank(s[j]) < rank(s[i]))
      <3>. HIDE DEF rank, s, n
      <3>. QED  BY <1>1, <1>11, <2>1
    <2>3. s[i] # s[j]  BY <2>2
    <2>4. <<s[j], s[i]>> \notin R  BY <1>3, <2>1, <2>2
    <2>. QED  BY <2>1, <2>3, <2>4 DEF Orders
  <1>. HIDE DEF s, n
  <1>12. InLine(s, n, S, R)  BY <1>9, <1>10, <1>11 DEF InLine
  <1>. QED  BY <1>12 DEF s, n

-----------------------------------------------------------------------------
(* Requests.                                                               *)

TextLists == {s \in Seq(Authors \X Nat) : Len(s) <= MaxSamples}

\* The fields of a request, by its kind.
OpFields(t, o) ==
    \/ o.kind = "create" /\ o.tag = t /\ o.visible \in BOOLEAN /\ o.samples \in TextLists
    \/ /\ o.kind = "update"
       /\ o.tag \in {None, t} /\ o.visible \in {None} \cup BOOLEAN /\ o.samples \in {None} \cup TextLists
    \/ o.kind = "delete"
    \/ o.kind = "addCase" /\ o.text = <<t, 0>> /\ o.ord \in {None} \cup 0..MaxOrd
    \/ o.kind = "changeCase" /\ o.text \in {None, <<t, 0>>} /\ o.ord \in {None} \cup 0..MaxOrd
    \/ o.kind = "removeCase"

\* The samples of a request are within the limit.
LEMMA SampleTextsTyped ==
    ASSUME NEW t \in Clients, NEW n \in Counts
    PROVE  SampleTexts(t, n) \in TextLists
  <1>1. n \in Nat /\ n <= MaxSamples  BY CatalogAssumption
  <1>2. \A i \in 1..n : <<t, i>> \in Authors \X Nat  BY <1>1 DEF Authors
  <1>3. SampleTexts(t, n) \in [1..n -> Authors \X Nat]  BY <1>2 DEF SampleTexts
  <1>. QED  BY <1>1, <1>3 DEF TextLists

\* A body of a problem that validation does not refuse.
LEMMA ProblemBodiesTyped ==
    ASSUME NEW t \in Clients, NEW b \in ProblemBodies(t), ~HasBad(b)
    PROVE  /\ b.tag \in {None, t}
           /\ b.visible \in {None} \cup BOOLEAN
           /\ b.samples \in {None} \cup TextLists
  <1>1. DOMAIN b = {"tag", "visible", "samples"}  BY DEF ProblemBodies
  <1>2. b.tag # Bad /\ b.visible # Bad /\ b.samples # Bad  BY <1>1 DEF HasBad
  <1>3. b.tag \in {None, Bad, t}  BY DEF ProblemBodies
  <1>4. b.visible \in {None, Bad, TRUE, FALSE}  BY DEF ProblemBodies
  <1>5. b.samples \in {None, Bad} \cup {SampleTexts(t, n) : n \in Counts}  BY DEF ProblemBodies
  <1>6. b.samples \in {None} \cup TextLists  BY <1>2, <1>5, SampleTextsTyped
  <1>7. b.visible \in {None} \cup BOOLEAN  BY <1>2, <1>4, Zenon
  <1>. QED  BY <1>2, <1>3, <1>6, <1>7

\* A body of a test case that validation does not refuse.
LEMMA CaseBodiesTyped ==
    ASSUME NEW t \in Clients, NEW b \in CaseBodies(t), ~HasBad(b)
    PROVE  b.text \in {None, <<t, 0>>} /\ b.ord \in {None} \cup 0..MaxOrd
  <1>1. DOMAIN b = {"text", "ord"}  BY DEF CaseBodies
  <1>2. b.text # Bad /\ b.ord # Bad  BY <1>1 DEF HasBad
  <1>3. b.text \in {None, Bad, <<t, 0>>}  BY DEF CaseBodies
  <1>4. b.ord \in {None, Bad} \cup Positions  BY DEF CaseBodies
  <1>. QED  BY <1>2, <1>3, <1>4, CatalogAssumption

\* What a handler asks of a store has the fields of its kind.
LEMMA OpsTyped ==
    ASSUME NEW t \in Clients, NEW o \in Operations[t]
    PROVE  OpFields(t, o) /\ o # NoOp /\ o \in AllOperations
  <1>1. o \in OpsOf(t)  BY DEF Operations
  <1>2. ASSUME o \in handle_admin_create_problem(t) PROVE OpFields(t, o)
    <2>1. PICK b \in parse_create_problem(t) :
             o = [NoOp EXCEPT !.kind = "create", !.tag = b.tag, !.visible = b.visible, !.samples = b.samples]
      BY <1>2 DEF handle_admin_create_problem
    <2>2. PICK c \in ProblemBodies(t) :
             /\ ~HasBad(c) /\ c.tag # None
             /\ b = [tag |-> c.tag, visible |-> Default(c.visible, TRUE), samples |-> Default(c.samples, <<>>)]
      BY DEF parse_create_problem
    <2>3. o.kind = "create" /\ o.tag = b.tag /\ o.visible = b.visible /\ o.samples = b.samples
      BY <2>1 DEF NoOp
    <2>4. b.tag = t  BY <2>2, ProblemBodiesTyped
    <2>5. b.visible \in BOOLEAN
      <3>1. b.visible = IF c.visible = None THEN TRUE ELSE c.visible  BY <2>2 DEF Default
      <3>2. c.visible \in {None} \cup BOOLEAN  BY <2>2, ProblemBodiesTyped
      <3>. QED  BY <3>1, <3>2, Zenon
    <2>6. b.samples \in TextLists
      <3>1. b.samples = IF c.samples = None THEN <<>> ELSE c.samples  BY <2>2 DEF Default
      <3>2. c.samples \in {None} \cup TextLists  BY <2>2, ProblemBodiesTyped
      <3>3. <<>> \in TextLists  BY CatalogAssumption DEF TextLists
      <3>. QED  BY <3>1, <3>2, <3>3, Zenon
    <2>. QED  BY <2>3, <2>4, <2>5, <2>6 DEF OpFields
  <1>3. ASSUME NEW p \in 1..MaxId, o \in handle_admin_update_problem(t, p) PROVE OpFields(t, o)
    <2>1. PICK b \in parse_update_problem(t) :
             o = [NoOp EXCEPT !.kind = "update", !.problem = p, !.tag = b.tag, !.visible = b.visible,
                              !.samples = b.samples]
      BY <1>3 DEF handle_admin_update_problem
    <2>2. b \in ProblemBodies(t) /\ ~HasBad(b)  BY DEF parse_update_problem
    <2>3. o.kind = "update" /\ o.tag = b.tag /\ o.visible = b.visible /\ o.samples = b.samples
      BY <2>1 DEF NoOp
    <2>. QED  BY <2>2, <2>3, ProblemBodiesTyped DEF OpFields
  <1>4. ASSUME NEW p \in 1..MaxId, o = handle_admin_delete_problem(p) PROVE OpFields(t, o)
    BY <1>4 DEF handle_admin_delete_problem, NoOp, OpFields
  <1>5. ASSUME NEW p \in 1..MaxId, o \in handle_admin_create_testcase(t, p) PROVE OpFields(t, o)
    <2>1. PICK b \in parse_create_testcase(t) :
             o = [NoOp EXCEPT !.kind = "addCase", !.problem = p, !.text = b.text, !.ord = b.ord]
      BY <1>5 DEF handle_admin_create_testcase
    <2>2. b \in CaseBodies(t) /\ ~HasBad(b) /\ b.text # None  BY DEF parse_create_testcase
    <2>3. o.kind = "addCase" /\ o.text = b.text /\ o.ord = b.ord  BY <2>1 DEF NoOp
    <2>. QED  BY <2>2, <2>3, CaseBodiesTyped DEF OpFields
  <1>6. ASSUME NEW p \in 1..MaxId, NEW k \in 1..MaxId, o \in handle_admin_update_testcase(t, p, k)
        PROVE  OpFields(t, o)
    <2>1. PICK b \in parse_update_testcase(t) :
             o = [NoOp EXCEPT !.kind = "changeCase", !.problem = p, !.case = k, !.text = b.text, !.ord = b.ord]
      BY <1>6 DEF handle_admin_update_testcase
    <2>2. b \in CaseBodies(t) /\ ~HasBad(b)  BY DEF parse_update_testcase
    <2>3. o.kind = "changeCase" /\ o.text = b.text /\ o.ord = b.ord  BY <2>1 DEF NoOp
    <2>. QED  BY <2>2, <2>3, CaseBodiesTyped DEF OpFields
  <1>7. ASSUME NEW p \in 1..MaxId, NEW k \in 1..MaxId, o = handle_admin_delete_testcase(p, k)
        PROVE  OpFields(t, o)
    BY <1>7 DEF handle_admin_delete_testcase, NoOp, OpFields
  <1>8. OpFields(t, o)
    <2>1. CASE o \in handle_admin_create_problem(t)  BY <1>2, <2>1
    <2>2. ASSUME NEW p \in 1..MaxId, o \in ProblemOps(t, p) PROVE OpFields(t, o)
      BY <1>3, <1>4, <1>5, <1>6, <1>7, <2>2 DEF ProblemOps, CaseOps
    <2>. QED  BY <1>1, <2>1, <2>2 DEF OpsOf
  <1>9. o # NoOp  BY <1>8 DEF OpFields, NoOp
  <1>10. o \in AllOperations  BY DEF AllOperations, Operations, Range
  <1>. QED  BY <1>8, <1>9, <1>10

-----------------------------------------------------------------------------
(* What the statements do to the tables.                                   *)

Record(problems, cases, lastProblem, lastCase, status) ==
    [problems |-> problems, cases |-> cases, lastProblem |-> lastProblem, lastCase |-> lastCase, status |-> status]

\* The cases of WithSamples.
SampleCases(db, p, texts, d) ==
    [k \in (DOMAIN db.cases \ SamplesOf(db, p)) \cup (db.lastCase + 1)..(db.lastCase + d) |->
        IF k <= db.lastCase THEN db.cases[k]
        ELSE [problem |-> p, ord |-> k - db.lastCase - 1, sample |-> TRUE, text |-> texts[k - db.lastCase]]]

\* The tables after each statement, column by column.
LEMMA Columns ==
    ASSUME NEW db, Database(db), NEW o
    PROVE  /\ Created(db, o) = Record(Put(db.problems, db.lastProblem + 1, NewRow(o)),
                                      db.cases, db.lastProblem + 1, db.lastCase, db.status)
           /\ Updated(db, o) = Record([db.problems EXCEPT ![o.problem] = merged(o, @)],
                                      db.cases, db.lastProblem, db.lastCase, db.status)
           /\ Emptied(db, o) = Record(db.problems, Drop(db.cases, CasesOf(db, o.problem)),
                                      db.lastProblem, db.lastCase, db.status)
           /\ Removed(db, o) = Record(Drop(db.problems, {o.problem}), Drop(db.cases, CasesOf(db, o.problem)),
                                      db.lastProblem, db.lastCase, db.status)
           /\ CaseAdded(db, o) = Record(db.problems,
                                        Put(db.cases, db.lastCase + 1, [problem |-> o.problem, ord |-> NewOrd(db, o),
                                                                        sample |-> FALSE, text |-> o.text]),
                                        db.lastProblem, db.lastCase + 1, db.status)
           /\ CaseRemoved(db, o) = Record(db.problems, Drop(db.cases, {o.case}),
                                          db.lastProblem, db.lastCase, db.status)
  <1>. DEFINE rest == Drop(db.cases, CasesOf(db, o.problem))
              less == Drop(db.problems, {o.problem})
              without == Drop(db.cases, {o.case})
              row == NewRow(o)
              more == Put(db.problems, db.lastProblem + 1, row)
              other == [db.problems EXCEPT ![o.problem] = merged(o, @)]
              case == [problem |-> o.problem, ord |-> NewOrd(db, o), sample |-> FALSE, text |-> o.text]
              longer == Put(db.cases, db.lastCase + 1, case)
  <1>1. PICK problems, cases, lastProblem, lastCase, status :
           db = [problems |-> problems, cases |-> cases, lastProblem |-> lastProblem,
                 lastCase |-> lastCase, status |-> status]
    BY DEF Database
  <1>2. /\ Created(db, o) = [db EXCEPT !.lastProblem = db.lastProblem + 1, !.problems = more]
        /\ Emptied(db, o) = [db EXCEPT !.cases = rest]
        /\ Removed(db, o) = [db EXCEPT !.cases = rest, !.problems = less]
        /\ CaseAdded(db, o) = [db EXCEPT !.lastCase = db.lastCase + 1, !.cases = longer]
        /\ CaseRemoved(db, o) = [db EXCEPT !.cases = without]
    BY DEF Created, Emptied, Removed, CaseAdded, CaseRemoved
  <1>3. Updated(db, o) = [db EXCEPT !.problems = other]  BY <1>1 DEF Updated
  <1>. HIDE DEF rest, less, without, more, other, longer
  <1>4. Created(db, o) = Record(more, db.cases, db.lastProblem + 1, db.lastCase, db.status)
    BY <1>1, <1>2 DEF Record
  <1>5. Updated(db, o) = Record(other, db.cases, db.lastProblem, db.lastCase, db.status)
    BY <1>1, <1>3 DEF Record
  <1>7. Emptied(db, o) = Record(db.problems, rest, db.lastProblem, db.lastCase, db.status)
    BY <1>1, <1>2 DEF Record
  <1>8. Removed(db, o) = Record(less, rest, db.lastProblem, db.lastCase, db.status)
    BY <1>1, <1>2 DEF Record
  <1>9. CaseAdded(db, o) = Record(db.problems, longer, db.lastProblem, db.lastCase + 1, db.status)
    BY <1>1, <1>2 DEF Record
  <1>10. CaseRemoved(db, o) = Record(db.problems, without, db.lastProblem, db.lastCase, db.status)
    BY <1>1, <1>2 DEF Record
  <1>. QED
    BY <1>4, <1>5, <1>7, <1>8, <1>9, <1>10 DEF rest, less, without, more, other, longer

\* The same for the samples.
LEMMA SampleColumns ==
    ASSUME NEW db, Database(db), NEW p, NEW texts, NEW d
    PROVE  WithSamples(db, p, texts, d) = Record(db.problems, SampleCases(db, p, texts, d),
                                                 db.lastProblem, db.lastCase + d, db.status)
  <1>. DEFINE new == SampleCases(db, p, texts, d)
  <1>1. PICK problems, cases, lastProblem, lastCase, status :
           db = [problems |-> problems, cases |-> cases, lastProblem |-> lastProblem,
                 lastCase |-> lastCase, status |-> status]
    BY DEF Database
  <1>2. WithSamples(db, p, texts, d) = [db EXCEPT !.lastCase = db.lastCase + d, !.cases = new]
    BY DEF WithSamples, SampleCases
  <1>. HIDE DEF new
  <1>3. WithSamples(db, p, texts, d) = Record(db.problems, new, db.lastProblem, db.lastCase + d, db.status)
    BY <1>1, <1>2 DEF Record
  <1>. QED  BY <1>3 DEF new

\* What makes columns a database.
Consistent(problems, cases, lastProblem, lastCase, status) ==
    /\ lastProblem \in Nat
    /\ lastCase \in Nat
    /\ problems \in [DOMAIN problems -> ProblemRows]
    /\ DOMAIN problems \subseteq 1..lastProblem
    /\ cases \in [DOMAIN cases -> CaseRows]
    /\ DOMAIN cases \subseteq 1..lastCase
    /\ \A k \in DOMAIN cases : cases[k].problem \in DOMAIN problems
    /\ DOMAIN status \subseteq Users \X DOMAIN problems

\* The columns of a record of tables are its own.
LEMMA RecordColumns ==
    ASSUME NEW problems, NEW cases, NEW lastProblem, NEW lastCase, NEW status
    PROVE  LET db == Record(problems, cases, lastProblem, lastCase, status) IN
           /\ db.problems = problems
           /\ db.cases = cases
           /\ db.lastProblem = lastProblem
           /\ db.lastCase = lastCase
           /\ db.status = status
  BY DEF Record

\* The columns after INSERT INTO problems.
LEMMA CreatedColumns ==
    ASSUME NEW db, Database(db), NEW o, NEW id, id = db.lastProblem + 1
    PROVE  /\ Created(db, o).problems = Put(db.problems, id, NewRow(o))
           /\ Created(db, o).cases = db.cases
           /\ Created(db, o).lastProblem = id
           /\ Created(db, o).lastCase = db.lastCase
           /\ Created(db, o).status = db.status
  <1>. DEFINE more == Put(db.problems, id, NewRow(o))
  <1>1. Created(db, o) = Record(more, db.cases, id, db.lastCase, db.status)  BY Columns
  <1>. HIDE DEF more
  <1>2. /\ Created(db, o).problems = more /\ Created(db, o).cases = db.cases /\ Created(db, o).lastProblem = id
        /\ Created(db, o).lastCase = db.lastCase /\ Created(db, o).status = db.status
    BY <1>1, RecordColumns
  <1>. QED  BY <1>2 DEF more

\* The columns after UPDATE problems.
LEMMA UpdatedColumns ==
    ASSUME NEW db, Database(db), NEW o
    PROVE  /\ Updated(db, o).problems = [db.problems EXCEPT ![o.problem] = merged(o, @)]
           /\ Updated(db, o).cases = db.cases
           /\ Updated(db, o).lastProblem = db.lastProblem
           /\ Updated(db, o).lastCase = db.lastCase
           /\ Updated(db, o).status = db.status
  <1>. DEFINE other == [db.problems EXCEPT ![o.problem] = merged(o, @)]
  <1>1. Updated(db, o) = Record(other, db.cases, db.lastProblem, db.lastCase, db.status)  BY Columns
  <1>. HIDE DEF other
  <1>2. /\ Updated(db, o).problems = other /\ Updated(db, o).cases = db.cases
        /\ Updated(db, o).lastProblem = db.lastProblem
        /\ Updated(db, o).lastCase = db.lastCase /\ Updated(db, o).status = db.status
    BY <1>1, RecordColumns
  <1>. QED  BY <1>2 DEF other

\* A database is the record of consistent columns.
LEMMA RecordDatabase ==
    ASSUME NEW problems, NEW cases, NEW lastProblem, NEW lastCase, NEW status,
           Consistent(problems, cases, lastProblem, lastCase, status)
    PROVE  Database(Record(problems, cases, lastProblem, lastCase, status))
  <1>. DEFINE db == Record(problems, cases, lastProblem, lastCase, status)
  <1>1. /\ db.problems = problems /\ db.cases = cases /\ db.lastProblem = lastProblem
        /\ db.lastCase = lastCase /\ db.status = status
    BY RecordColumns
  <1>2. db = [problems |-> db.problems, cases |-> db.cases, lastProblem |-> db.lastProblem,
              lastCase |-> db.lastCase, status |-> db.status]
    BY <1>1 DEF Record
  <1>. HIDE DEF db
  <1>3. \A p \in DOMAIN problems : p \in 1..lastProblem /\ problems[p].visible \in BOOLEAN
    BY DEF Consistent, ProblemRows
  <1>4. \A k \in DOMAIN cases : k \in 1..lastCase /\ cases[k].problem \in DOMAIN problems
                                                  /\ cases[k].ord \in 0..MaxOrd
    BY DEF Consistent, CaseRows
  <1>5. Tables(db)  BY <1>1, <1>3, <1>4 DEF Tables, Consistent
  <1>6. Database(db)  BY <1>1, <1>2, <1>5 DEF Database, Consistent
  <1>. QED  BY <1>6 DEF db

\* The columns of a database are consistent.
LEMMA DatabaseColumns ==
    ASSUME NEW db, Database(db)
    PROVE  /\ Consistent(db.problems, db.cases, db.lastProblem, db.lastCase, db.status)
           /\ db = Record(db.problems, db.cases, db.lastProblem, db.lastCase, db.status)
  <1>1. /\ \A p \in DOMAIN db.problems : p \in 1..db.lastProblem
        /\ \A k \in DOMAIN db.cases : k \in 1..db.lastCase /\ db.cases[k].problem \in DOMAIN db.problems
        /\ DOMAIN db.status \subseteq Users \X DOMAIN db.problems
    BY DEF Database, Tables
  <1>. QED  BY <1>1 DEF Database, Consistent, Record

\* INSERT INTO problems keeps the tables consistent, and the new id is new.
LEMMA CreatedDatabase ==
    ASSUME NEW db, Database(db), NEW o, o.tag \in Authors, o.visible \in BOOLEAN
    PROVE  /\ Database(Created(db, o))
           /\ db.lastProblem + 1 \in DOMAIN Created(db, o).problems
           /\ db.lastProblem + 1 \notin DOMAIN db.problems
           /\ SamplesOf(Created(db, o), db.lastProblem + 1) = {}
  <1>. DEFINE id == db.lastProblem + 1
              row == NewRow(o)
              more == Put(db.problems, id, row)
  <1>1. Consistent(db.problems, db.cases, db.lastProblem, db.lastCase, db.status)  BY DatabaseColumns
  <1>2. row \in ProblemRows  BY DEF ProblemRows, NewRow
  <1>3. /\ DOMAIN more = DOMAIN db.problems \cup {id}
        /\ more \in [DOMAIN more -> ProblemRows]
    <2>. HIDE DEF row, id
    <2>. QED  BY <1>1, <1>2 DEF Put, Consistent
  <1>4. id \notin DOMAIN db.problems  BY <1>1 DEF Consistent
  <1>. HIDE DEF more
  <1>5. Consistent(more, db.cases, id, db.lastCase, db.status)
    <2>1. DOMAIN more \subseteq 1..id  BY <1>1, <1>3 DEF Consistent
    <2>2. id \in Nat  BY <1>1 DEF Consistent
    <2>3. DOMAIN db.status \subseteq Users \X DOMAIN more  BY <1>1, <1>3 DEF Consistent
    <2>4. \A k \in DOMAIN db.cases : db.cases[k].problem \in DOMAIN more  BY <1>1, <1>3 DEF Consistent
    <2>. HIDE DEF id
    <2>. QED  BY <1>1, <1>3, <2>1, <2>2, <2>3, <2>4 DEF Consistent
  <1>6. Created(db, o) = Record(more, db.cases, id, db.lastCase, db.status)  BY Columns DEF more
  <1>7. Created(db, o).problems = more /\ Created(db, o).cases = db.cases  BY <1>6, RecordColumns
  <1>8. Database(Created(db, o))  BY <1>5, <1>6, RecordDatabase
  <1>9. \A k \in DOMAIN db.cases : db.cases[k].problem # id  BY <1>1, <1>4 DEF Consistent
  <1>. HIDE DEF id
  <1>10. SamplesOf(Created(db, o), id) = {}  BY <1>7, <1>9 DEF SamplesOf, CasesOf
  <1>. QED  BY <1>3, <1>4, <1>7, <1>8, <1>10 DEF id

\* UPDATE problems keeps the tables consistent.
LEMMA UpdatedDatabase ==
    ASSUME NEW db, Database(db), NEW t \in Clients, NEW o, OpFields(t, o), o.kind = "update",
           o.problem \in DOMAIN db.problems
    PROVE  /\ Database(Updated(db, o))
           /\ DOMAIN Updated(db, o).problems = DOMAIN db.problems
  <1>. DEFINE p == o.problem
              row == merged(o, db.problems[p])
              other == [db.problems EXCEPT ![p] = row]
  <1>1. Consistent(db.problems, db.cases, db.lastProblem, db.lastCase, db.status)  BY DatabaseColumns
  <1>2. o.tag \in {None, t} /\ o.visible \in {None} \cup BOOLEAN  BY DEF OpFields
  <1>3. db.problems[p].tag \in Authors /\ db.problems[p].visible \in BOOLEAN  BY <1>1 DEF Consistent, ProblemRows
  <1>4. Default(o.tag, db.problems[p].tag) \in Authors  BY <1>2, <1>3 DEF Default, Authors
  <1>5. Default(o.visible, db.problems[p].visible) \in BOOLEAN  BY <1>2, <1>3, Zenon DEF Default
  <1>6. row \in ProblemRows  BY <1>4, <1>5 DEF ProblemRows, merged
  <1>7. DOMAIN other = DOMAIN db.problems /\ other \in [DOMAIN db.problems -> ProblemRows]
    <2>. HIDE DEF row
    <2>. QED  BY <1>1, <1>6 DEF Consistent
  <1>8. Updated(db, o) = Record(other, db.cases, db.lastProblem, db.lastCase, db.status)  BY Columns
  <1>. HIDE DEF other
  <1>9. Consistent(other, db.cases, db.lastProblem, db.lastCase, db.status)  BY <1>1, <1>7 DEF Consistent
  <1>10. Database(Updated(db, o))  BY <1>8, <1>9, RecordDatabase
  <1>11. Updated(db, o).problems = other  BY <1>8, RecordColumns
  <1>. QED  BY <1>7, <1>10, <1>11

\* Replacing the samples of a problem keeps the tables consistent: the limit on
\* their number keeps them within the range of ord.
LEMMA SampledDatabase ==
    ASSUME NEW db, Database(db), NEW p \in DOMAIN db.problems, NEW texts \in TextLists, NEW d \in 0..Len(texts)
    PROVE  Database(WithSamples(db, p, texts, d))
  <1>. DEFINE new == SampleCases(db, p, texts, d)
  <1>1. Consistent(db.problems, db.cases, db.lastProblem, db.lastCase, db.status)  BY DatabaseColumns
  <1>2. db.lastCase \in Nat /\ DOMAIN db.cases \subseteq 1..db.lastCase /\ p \in Nat  BY <1>1 DEF Consistent
  <1>3. texts \in Seq(Authors \X Nat) /\ Len(texts) \in Nat /\ Len(texts) <= MaxOrd + 1
    BY CatalogAssumption DEF TextLists
  <1>4. DOMAIN new = (DOMAIN db.cases \ SamplesOf(db, p)) \cup (db.lastCase + 1)..(db.lastCase + d)
    BY DEF SampleCases
  <1>5. ASSUME NEW k \in DOMAIN new
        PROVE k \in 1..(db.lastCase + d) /\ new[k] \in CaseRows /\ new[k].problem \in DOMAIN db.problems
    <2>1. CASE k \in DOMAIN db.cases
      <3>1. k \in 1..db.lastCase  BY <1>2, <2>1
      <3>2. new[k] = db.cases[k]  BY <3>1 DEF SampleCases
      <3>3. k \in 1..(db.lastCase + d)  BY <1>2, <1>3, <3>1
      <3>. HIDE DEF new
      <3>. QED  BY <1>1, <2>1, <3>2, <3>3 DEF Consistent
    <2>2. CASE k \in (db.lastCase + 1)..(db.lastCase + d)
      <3>1. k \in 1..(db.lastCase + d) /\ ~(k <= db.lastCase) /\ k - db.lastCase \in 1..Len(texts)
        BY <1>2, <1>3, <2>2, SMTT(30)
      <3>2. new[k] = [problem |-> p, ord |-> k - db.lastCase - 1, sample |-> TRUE, text |-> texts[k - db.lastCase]]
        BY <3>1 DEF SampleCases
      <3>3. texts[k - db.lastCase] \in Authors \X Nat
        <4>1. \A i \in 1..Len(texts) : texts[i] \in Authors \X Nat  BY <1>3
        <4>. QED  BY <3>1, <4>1
      <3>4. k - db.lastCase - 1 \in 0..MaxOrd
        <4>1. MaxOrd \in Nat  BY CatalogAssumption
        <4>2. \A i \in 1..Len(texts) : i - 1 \in 0..MaxOrd  BY <1>3, <4>1
        <4>. QED  BY <3>1, <4>2
      <3>. HIDE DEF new
      <3>. QED  BY <1>2, <3>1, <3>2, <3>3, <3>4 DEF CaseRows
    <2>. QED  BY <1>4, <2>1, <2>2
  <1>6. new = [k \in DOMAIN new |-> new[k]]
    <2>. DEFINE row(k) == IF k <= db.lastCase THEN db.cases[k]
                          ELSE [problem |-> p, ord |-> k - db.lastCase - 1, sample |-> TRUE,
                                text |-> texts[k - db.lastCase]]
    <2>1. new = [k \in DOMAIN new |-> row(k)]  BY <1>4 DEF SampleCases
    <2>. HIDE DEF row, new
    <2>. QED  BY <2>1
  <1>7. db.lastCase + d \in Nat  BY <1>2, <1>3
  <1>. HIDE DEF new
  <1>8. WithSamples(db, p, texts, d) = Record(db.problems, new, db.lastProblem, db.lastCase + d, db.status)
    BY SampleColumns DEF new
  <1>9. new \in [DOMAIN new -> CaseRows]  BY <1>5, <1>6
  <1>10. Consistent(db.problems, new, db.lastProblem, db.lastCase + d, db.status)
    <2>. DEFINE last == db.lastCase + d
    <2>1. last \in Nat /\ DOMAIN new \subseteq 1..last  BY <1>5, <1>7
    <2>. HIDE DEF last
    <2>2. Consistent(db.problems, new, db.lastProblem, last, db.status)  BY <1>1, <1>5, <1>9, <2>1 DEF Consistent
    <2>. QED  BY <2>2 DEF last
  <1>. QED  BY <1>8, <1>10, RecordDatabase

\* The position of a new case is behind all others, and next to the last of them.
LEMMA NextOrdIs ==
    ASSUME NEW db, Database(db), NEW p
    PROVE  /\ NextOrd(db, p) \in Nat
           /\ \A k \in CasesOf(db, p) : db.cases[k].ord < NextOrd(db, p)
           /\ NextOrd(db, p) # 0 => \E k \in CasesOf(db, p) : db.cases[k].ord = NextOrd(db, p) - 1
  <1>. DEFINE S == {-1} \cup {db.cases[k].ord : k \in CasesOf(db, p)}
  <1>1. MaxOrd \in Nat  BY CatalogAssumption
  <1>2. ASSUME NEW k \in CasesOf(db, p) PROVE db.cases[k].ord \in 0..MaxOrd
    BY DEF CasesOf, Database, Tables
  <1>3. S \in SUBSET Int /\ S # {} /\ \A x \in S : x <= MaxOrd  BY <1>1, <1>2
  <1>4. -1 \in S  OBVIOUS
  <1>5. ASSUME NEW k \in CasesOf(db, p) PROVE db.cases[k].ord \in S  OBVIOUS
  <1>6. ASSUME NEW x \in S, x # -1 PROVE \E k \in CasesOf(db, p) : db.cases[k].ord = x  BY <1>6
  <1>7. NextOrd(db, p) = 1 + Max(S)  BY DEF NextOrd
  <1>. HIDE DEF S
  <1>8. Max(S) \in S /\ \A x \in S : x <= Max(S)
    <2>1. MaxOrd \in Int  BY <1>1
    <2>2. S \in SUBSET Int /\ S # {}  BY <1>3
    <2>3. \A x \in S : x <= MaxOrd  BY <1>3
    <2>. QED  BY <2>1, <2>2, <2>3, MaxIs
  <1>9. Max(S) \in Int /\ Max(S) >= -1  BY <1>3, <1>4, <1>8
  <1>10. ASSUME NEW k \in CasesOf(db, p) PROVE db.cases[k].ord < NextOrd(db, p)
    <2>1. db.cases[k].ord \in Int /\ db.cases[k].ord <= Max(S)  BY <1>2, <1>5, <1>8
    <2>. QED  BY <1>7, <1>9, <2>1
  <1>11. NextOrd(db, p) # 0 => \E k \in CasesOf(db, p) : db.cases[k].ord = NextOrd(db, p) - 1
    <2>1. NextOrd(db, p) # 0 => Max(S) # -1  BY <1>7
    <2>2. NextOrd(db, p) - 1 = Max(S)  BY <1>7, <1>9
    <2>. QED  BY <1>6, <1>8, <2>1, <2>2
  <1>. QED  BY <1>7, <1>9, <1>10, <1>11

\* DELETE FROM testcases keeps the tables consistent.
LEMMA DropCases ==
    ASSUME NEW db, Database(db), NEW S
    PROVE  /\ Consistent(db.problems, Drop(db.cases, S), db.lastProblem, db.lastCase, db.status)
           /\ DOMAIN Drop(db.cases, S) = DOMAIN db.cases \ S
           /\ \A k \in DOMAIN db.cases \ S : Drop(db.cases, S)[k] = db.cases[k]
  <1>. DEFINE less == Drop(db.cases, S)
  <1>1. Consistent(db.problems, db.cases, db.lastProblem, db.lastCase, db.status)  BY DatabaseColumns
  <1>2. DOMAIN less = DOMAIN db.cases \ S /\ \A k \in DOMAIN db.cases \ S : less[k] = db.cases[k]  BY DEF Drop
  <1>3. less \in [DOMAIN less -> CaseRows]  BY <1>1 DEF Drop, Consistent
  <1>. HIDE DEF less
  <1>4. Consistent(db.problems, less, db.lastProblem, db.lastCase, db.status)  BY <1>1, <1>2, <1>3 DEF Consistent
  <1>. QED  BY <1>2, <1>4 DEF less

\* The first step of deleting a problem.
LEMMA EmptiedDatabase ==
    ASSUME NEW db, Database(db), NEW o
    PROVE  Database(Emptied(db, o))
  <1>1. Emptied(db, o) = Record(db.problems, Drop(db.cases, CasesOf(db, o.problem)),
                                db.lastProblem, db.lastCase, db.status)
    BY Columns
  <1>2. Consistent(db.problems, Drop(db.cases, CasesOf(db, o.problem)), db.lastProblem, db.lastCase, db.status)
    BY DropCases
  <1>. QED  BY <1>1, <1>2, RecordDatabase

\* A problem without cases and status rows can be deleted.
LEMMA RemovedDatabase ==
    ASSUME NEW db, Database(db), NEW o, \A s \in DOMAIN db.status : s[2] # o.problem
    PROVE  Database(Removed(db, o))
  <1>. DEFINE rest == Drop(db.cases, CasesOf(db, o.problem))
              less == Drop(db.problems, {o.problem})
  <1>1. Consistent(db.problems, rest, db.lastProblem, db.lastCase, db.status)  BY DropCases
  <1>2. /\ DOMAIN rest = DOMAIN db.cases \ CasesOf(db, o.problem)
        /\ \A k \in DOMAIN rest : rest[k] = db.cases[k]
    BY DropCases
  <1>3. DOMAIN less = DOMAIN db.problems \ {o.problem}  BY DEF Drop
  <1>4. less \in [DOMAIN less -> ProblemRows]  BY <1>1 DEF Drop, Consistent
  <1>. HIDE DEF rest, less
  <1>5. \A k \in DOMAIN rest : rest[k].problem \in DOMAIN less
    BY <1>1, <1>2, <1>3 DEF Consistent, CasesOf
  <1>6. DOMAIN db.status \subseteq Users \X DOMAIN less
    <2>1. ASSUME NEW s \in DOMAIN db.status PROVE s \in Users \X DOMAIN less
      <3>1. s \in Users \X DOMAIN db.problems /\ s[2] # o.problem  BY <1>1 DEF Consistent
      <3>. QED  BY <1>3, <3>1
    <2>. QED  BY <2>1
  <1>7. Consistent(less, rest, db.lastProblem, db.lastCase, db.status)
    BY <1>1, <1>3, <1>4, <1>5, <1>6 DEF Consistent
  <1>8. Removed(db, o) = Record(less, rest, db.lastProblem, db.lastCase, db.status)  BY Columns DEF less, rest
  <1>. QED  BY <1>7, <1>8, RecordDatabase

\* INSERT INTO testcases keeps the tables consistent.
LEMMA AddedDatabase ==
    ASSUME NEW db, Database(db), NEW t \in Clients, NEW o, OpFields(t, o), o.kind = "addCase",
           o.problem \in DOMAIN db.problems, OrdFits(NewOrd(db, o))
    PROVE  Database(CaseAdded(db, o)) /\ NewOrd(db, o) \in 0..MaxOrd
  <1>. DEFINE id == db.lastCase + 1
              row == [problem |-> o.problem, ord |-> NewOrd(db, o), sample |-> FALSE, text |-> o.text]
              more == Put(db.cases, id, row)
  <1>1. Consistent(db.problems, db.cases, db.lastProblem, db.lastCase, db.status)  BY DatabaseColumns
  <1>2. NewOrd(db, o) \in 0..MaxOrd
    <2>1. o.ord \in {None} \cup 0..MaxOrd  BY DEF OpFields
    <2>2. CASE o.ord = None
      <3>1. NewOrd(db, o) = NextOrd(db, o.problem)  BY <2>2 DEF NewOrd, Default
      <3>2. NewOrd(db, o) \in Nat  BY <3>1, NextOrdIs
      <3>. QED  BY <3>2, CatalogAssumption DEF OrdFits
    <2>3. CASE o.ord # None  BY <2>1, <2>3 DEF NewOrd, Default
    <2>. QED  BY <2>2, <2>3
  <1>3. o.problem \in Nat  BY <1>1 DEF Consistent
  <1>4. o.text \in Authors \X Nat
    <2>1. o.text = <<t, 0>>  BY DEF OpFields
    <2>. QED  BY <2>1 DEF Authors
  <1>5. row \in CaseRows  BY <1>2, <1>3, <1>4 DEF CaseRows
  <1>6. row.problem = o.problem  OBVIOUS
  <1>7. id \in Nat /\ DOMAIN db.cases \cup {id} \subseteq 1..id /\ id \notin DOMAIN db.cases  BY <1>1 DEF Consistent
  <1>. HIDE DEF row, id
  <1>8. DOMAIN more = DOMAIN db.cases \cup {id}  BY DEF Put
  <1>9. more \in [DOMAIN more -> CaseRows]  BY <1>1, <1>5 DEF Put, Consistent
  <1>10. \A k \in DOMAIN more : more[k].problem \in DOMAIN db.problems  BY <1>1, <1>6 DEF Put, Consistent
  <1>. HIDE DEF more
  <1>11. Consistent(db.problems, more, db.lastProblem, id, db.status)
    BY <1>1, <1>7, <1>8, <1>9, <1>10 DEF Consistent
  <1>12. CaseAdded(db, o) = Record(db.problems, more, db.lastProblem, id, db.status)  BY Columns DEF more, id, row
  <1>. QED  BY <1>2, <1>11, <1>12, RecordDatabase

\* The row of a case after UPDATE testcases.
ChangedRow(row, o) ==
    [problem |-> row.problem, ord |-> Default(o.ord, row.ord), sample |-> row.sample, text |-> Default(o.text, row.text)]

\* Only the position and the text of a case change.
LEMMA ChangedRowIs ==
    ASSUME NEW row \in CaseRows, NEW o
    PROVE  changed(o, row) = ChangedRow(row, o)
  <1>. DEFINE ord == Default(o.ord, row.ord)
              text == Default(o.text, row.text)
  <1>1. PICK a, b, e, f : row = [problem |-> a, ord |-> b, sample |-> e, text |-> f]  BY DEF CaseRows
  <1>2. ChangedRow(row, o) = [problem |-> a, ord |-> ord, sample |-> e, text |-> text]  BY <1>1 DEF ChangedRow
  <1>. HIDE DEF ord, text
  <1>. DEFINE half == [row EXCEPT !.ord = ord]
  <1>3. half = [problem |-> a, ord |-> ord, sample |-> e, text |-> f]  BY <1>1
  <1>4. [row EXCEPT !.ord = ord, !.text = text] = [half EXCEPT !.text = text]  BY <1>1
  <1>. HIDE DEF half
  <1>5. [half EXCEPT !.text = text] = [problem |-> a, ord |-> ord, sample |-> e, text |-> text]  BY <1>3
  <1>. QED  BY <1>2, <1>4, <1>5 DEF ord, text, changed

\* UPDATE testcases keeps the tables consistent.
LEMMA ChangedDatabase ==
    ASSUME NEW db, Database(db), NEW t \in Clients, NEW o, OpFields(t, o), o.kind = "changeCase",
           o.case \in DOMAIN db.cases
    PROVE  /\ CaseChanged(db, o) = Record(db.problems, [db.cases EXCEPT ![o.case] = ChangedRow(@, o)],
                                          db.lastProblem, db.lastCase, db.status)
           /\ Database(CaseChanged(db, o))
  <1>. DEFINE c == o.case
              row == db.cases[c]
              new == ChangedRow(row, o)
              other == [db.cases EXCEPT ![c] = new]
  <1>1. Consistent(db.problems, db.cases, db.lastProblem, db.lastCase, db.status)  BY DatabaseColumns
  <1>2. row \in CaseRows  BY <1>1 DEF Consistent
  <1>3. new \in CaseRows
    <2>1. o.text \in {None, <<t, 0>>} /\ o.ord \in {None} \cup 0..MaxOrd  BY DEF OpFields
    <2>2. /\ row.ord \in 0..MaxOrd /\ row.text \in Authors \X Nat
          /\ row.problem \in Nat /\ row.sample \in BOOLEAN
      BY <1>2 DEF CaseRows
    <2>3. Default(o.ord, row.ord) \in 0..MaxOrd  BY <2>1, <2>2 DEF Default
    <2>4. <<t, 0>> \in Authors \X Nat  BY DEF Authors
    <2>5. Default(o.text, row.text) \in Authors \X Nat  BY <2>1, <2>2, <2>4 DEF Default
    <2>. QED  BY <2>2, <2>3, <2>5 DEF CaseRows, ChangedRow
  <1>4. new.problem = row.problem  BY DEF ChangedRow
  <1>5. CaseChanged(db, o) = [db EXCEPT !.cases = other]
    <2>1. PICK problems, cases, lastProblem, lastCase, status :
             db = [problems |-> problems, cases |-> cases, lastProblem |-> lastProblem,
                   lastCase |-> lastCase, status |-> status]
      BY DEF Database
    <2>2. CaseChanged(db, o) = [db EXCEPT !.cases[c] = new]  BY <1>2, ChangedRowIs DEF CaseChanged
    <2>. HIDE DEF new
    <2>. QED  BY <2>1, <2>2
  <1>6. DOMAIN other = DOMAIN db.cases /\ other \in [DOMAIN db.cases -> CaseRows]
    <2>. HIDE DEF new
    <2>. QED  BY <1>1, <1>3 DEF Consistent
  <1>7. \A k \in DOMAIN other : other[k].problem \in DOMAIN db.problems
    <2>. HIDE DEF new
    <2>. QED  BY <1>1, <1>4 DEF Consistent
  <1>. HIDE DEF other
  <1>8. CaseChanged(db, o) = Record(db.problems, other, db.lastProblem, db.lastCase, db.status)
    <2>1. PICK problems, cases, lastProblem, lastCase, status :
             db = [problems |-> problems, cases |-> cases, lastProblem |-> lastProblem,
                   lastCase |-> lastCase, status |-> status]
      BY DEF Database
    <2>. QED  BY <1>5, <2>1 DEF Record
  <1>9. Consistent(db.problems, other, db.lastProblem, db.lastCase, db.status)
    BY <1>1, <1>6, <1>7 DEF Consistent
  <1>. QED  BY <1>8, <1>9, RecordDatabase DEF other

\* Deleting one case.
LEMMA CaseRemovedDatabase ==
    ASSUME NEW db, Database(db), NEW o
    PROVE  Database(CaseRemoved(db, o))
  <1>1. CaseRemoved(db, o) = Record(db.problems, Drop(db.cases, {o.case}), db.lastProblem, db.lastCase, db.status)
    BY Columns
  <1>2. Consistent(db.problems, Drop(db.cases, {o.case}), db.lastProblem, db.lastCase, db.status)  BY DropCases
  <1>. QED  BY <1>1, <1>2, RecordDatabase

-----------------------------------------------------------------------------
(* The samples of a request, one INSERT after the other.                   *)

\* Before the first INSERT the samples are only deleted.
LEMMA NoneInserted ==
    ASSUME NEW db, Database(db), NEW p, NEW texts
    PROVE  WithSamples(db, p, texts, 0) = [db EXCEPT !.cases = Drop(db.cases, SamplesOf(db, p))]
  <1>. DEFINE rest == Drop(db.cases, SamplesOf(db, p))
              new == SampleCases(db, p, texts, 0)
  <1>1. Consistent(db.problems, db.cases, db.lastProblem, db.lastCase, db.status)  BY DatabaseColumns
  <1>2. db.lastCase \in Nat /\ \A k \in DOMAIN db.cases : k <= db.lastCase  BY <1>1 DEF Consistent
  <1>3. (db.lastCase + 1)..(db.lastCase + 0) = {} /\ db.lastCase + 0 = db.lastCase  BY <1>2
  <1>4. DOMAIN new = DOMAIN rest /\ \A k \in DOMAIN rest : new[k] = rest[k]
    BY <1>2, <1>3 DEF SampleCases, Drop
  <1>5. new = rest  BY <1>4 DEF SampleCases, Drop
  <1>6. WithSamples(db, p, texts, 0) = Record(db.problems, new, db.lastProblem, db.lastCase + 0, db.status)
    <2>. HIDE DEF new
    <2>. QED  BY SampleColumns DEF new
  <1>. HIDE DEF new, rest
  <1>7. WithSamples(db, p, texts, 0) = Record(db.problems, rest, db.lastProblem, db.lastCase, db.status)
    BY <1>3, <1>5, <1>6
  <1>8. [db EXCEPT !.cases = rest] = Record(db.problems, rest, db.lastProblem, db.lastCase, db.status)
    <2>1. PICK problems, cases, lastProblem, lastCase, status :
             db = [problems |-> problems, cases |-> cases, lastProblem |-> lastProblem,
                   lastCase |-> lastCase, status |-> status]
      BY DEF Database
    <2>. QED  BY <2>1 DEF Record
  <1>. QED  BY <1>7, <1>8 DEF rest

\* A problem without samples has none to delete.
LEMMA NothingDeleted ==
    ASSUME NEW db, Database(db), NEW p, NEW texts, SamplesOf(db, p) = {}
    PROVE  WithSamples(db, p, texts, 0) = db
  <1>1. Consistent(db.problems, db.cases, db.lastProblem, db.lastCase, db.status)  BY DatabaseColumns
  <1>2. Drop(db.cases, {}) = db.cases  BY <1>1 DEF Drop, Consistent
  <1>3. [db EXCEPT !.cases = db.cases] = db
    <2>1. PICK problems, cases, lastProblem, lastCase, status :
             db = [problems |-> problems, cases |-> cases, lastProblem |-> lastProblem,
                   lastCase |-> lastCase, status |-> status]
      BY DEF Database
    <2>. QED  BY <2>1
  <1>. QED  BY <1>2, <1>3, NoneInserted

\* INSERT INTO testcases, for a row at position ord.
Inserted(x, p, ord, text) ==
    [x EXCEPT !.lastCase = x.lastCase + 1,
              !.cases = Put(x.cases, x.lastCase + 1, [problem |-> p, ord |-> ord, sample |-> TRUE, text |-> text])]

\* The next INSERT.
LEMMA OneInserted ==
    ASSUME NEW db, Database(db), NEW p, NEW texts, NEW d \in Nat,
           NEW x, x = WithSamples(db, p, texts, d)
    PROVE  Inserted(x, p, d, texts[d + 1]) = WithSamples(db, p, texts, d + 1)
  <1>. DEFINE id == x.lastCase + 1
              row == [problem |-> p, ord |-> d, sample |-> TRUE, text |-> texts[d + 1]]
              old == SampleCases(db, p, texts, d)
              new == SampleCases(db, p, texts, d + 1)
              kept == DOMAIN db.cases \ SamplesOf(db, p)
  <1>1. Consistent(db.problems, db.cases, db.lastProblem, db.lastCase, db.status)  BY DatabaseColumns
  <1>2. db.lastCase \in Nat /\ \A k \in DOMAIN db.cases : k \in Nat /\ k <= db.lastCase  BY <1>1 DEF Consistent
  <1>3. x = Record(db.problems, old, db.lastProblem, db.lastCase + d, db.status)
    <2>. HIDE DEF old
    <2>. QED  BY SampleColumns DEF old
  <1>4. x.lastCase = db.lastCase + d /\ x.cases = old
    <2>. HIDE DEF old
    <2>. QED  BY <1>3, RecordColumns
  <1>5. id = db.lastCase + (d + 1) /\ id \in Nat /\ id - db.lastCase = d + 1 /\ id - db.lastCase - 1 = d
    BY <1>2, <1>4
  <1>6. DOMAIN old = kept \cup (db.lastCase + 1)..(db.lastCase + d)  BY DEF SampleCases
  <1>7. DOMAIN new = kept \cup (db.lastCase + 1)..(db.lastCase + (d + 1))  BY DEF SampleCases
  <1>8. DOMAIN new = DOMAIN old \cup {id} /\ id \notin DOMAIN old
    <2>1. (db.lastCase + 1)..(db.lastCase + (d + 1)) = (db.lastCase + 1)..(db.lastCase + d) \cup {id}  BY <1>2, <1>5
    <2>2. id \notin (db.lastCase + 1)..(db.lastCase + d) /\ id \notin kept  BY <1>2, <1>5
    <2>. QED  BY <1>6, <1>7, <2>1, <2>2
  <1>9. \A k \in DOMAIN old : new[k] = old[k]  BY <1>6, <1>8 DEF SampleCases
  <1>10. new[id] = row
    <2>1. id \in DOMAIN new  BY <1>8
    <2>2. ~(id <= db.lastCase)  BY <1>2, <1>5
    <2>3. new[id] = [problem |-> p, ord |-> id - db.lastCase - 1, sample |-> TRUE, text |-> texts[id - db.lastCase]]
      <3>. HIDE DEF id
      <3>. QED  BY <2>1, <2>2 DEF SampleCases
    <2>. QED  BY <1>5, <2>3
  <1>11. new = [k \in DOMAIN new |-> new[k]]
    <2>. DEFINE of(k) == IF k <= db.lastCase THEN db.cases[k]
                         ELSE [problem |-> p, ord |-> k - db.lastCase - 1, sample |-> TRUE,
                               text |-> texts[k - db.lastCase]]
    <2>1. new = [k \in DOMAIN new |-> of(k)]  BY <1>7 DEF SampleCases
    <2>. HIDE DEF of, new
    <2>. QED  BY <2>1
  <1>. HIDE DEF new, old, id, row
  <1>12. Put(old, id, row) = new  BY <1>8, <1>9, <1>10, <1>11 DEF Put
  <1>13. WithSamples(db, p, texts, d + 1) = Record(db.problems, new, db.lastProblem, id, db.status)
    BY <1>5, SampleColumns DEF new
  <1>14. [x EXCEPT !.lastCase = id, !.cases = new] = Record(db.problems, new, db.lastProblem, id, db.status)
    <2>. DEFINE half == [x EXCEPT !.lastCase = id]
    <2>1. half = Record(db.problems, old, db.lastProblem, id, db.status)  BY <1>3 DEF Record
    <2>2. [x EXCEPT !.lastCase = id, !.cases = new] = [half EXCEPT !.cases = new]  BY <1>3 DEF Record
    <2>. HIDE DEF half
    <2>. QED  BY <2>1, <2>2 DEF Record
  <1>15. Put(x.cases, id, row) = new  BY <1>4, <1>12
  <1>. QED  BY <1>13, <1>14, <1>15 DEF id, row, Inserted

\* What has been written in a transaction keeps the tables consistent.
LEMMA InsertingDatabase ==
    ASSUME NEW db, Database(db), NEW t \in Clients, NEW o, OpFields(t, o), NEW p, NEW rest, NEW new,
           NEW d \in 0..Len(o.samples), Inserting(db, o, p, rest, new, d)
    PROVE  /\ Database(new)
           /\ p \in DOMAIN new.problems
           /\ o.samples \in TextLists
  <1>1. CASE o.kind = "create" /\ p = db.lastProblem + 1 /\ new = WithSamples(Created(db, o), p, o.samples, d)
    <2>1. o.tag \in Authors /\ o.visible \in BOOLEAN /\ o.samples \in TextLists  BY <1>1 DEF OpFields, Authors
    <2>. DEFINE base == Created(db, o)
    <2>2. Database(base) /\ p \in DOMAIN base.problems  BY <1>1, <2>1, CreatedDatabase
    <2>. HIDE DEF base
    <2>3. Database(WithSamples(base, p, o.samples, d))  BY <2>1, <2>2, SampledDatabase
    <2>4. WithSamples(base, p, o.samples, d).problems = base.problems  BY <2>2, SampleColumns, RecordColumns
    <2>. QED  BY <1>1, <2>1, <2>2, <2>3, <2>4 DEF base
  <1>2. CASE /\ o.kind = "update" /\ p = o.problem /\ p \in DOMAIN db.problems
             /\ o.samples # None
             /\ new = WithSamples(Updated(db, o), p, o.samples, d)
    <2>1. o.samples \in TextLists  BY <1>2 DEF OpFields
    <2>. DEFINE base == Updated(db, o)
    <2>2. Database(base) /\ p \in DOMAIN base.problems  BY <1>2, UpdatedDatabase
    <2>. HIDE DEF base
    <2>3. Database(WithSamples(base, p, o.samples, d))  BY <2>1, <2>2, SampledDatabase
    <2>4. WithSamples(base, p, o.samples, d).problems = base.problems  BY <2>2, SampleColumns, RecordColumns
    <2>. QED  BY <1>2, <2>1, <2>2, <2>3, <2>4 DEF base
  <1>. QED  BY <1>1, <1>2 DEF Inserting

-----------------------------------------------------------------------------
(* The samples of a problem, in order.                                     *)

ByPosition(db, ids) ==
    {q \in ids \X ids : \/ db.cases[q[1]].ord < db.cases[q[2]].ord
                        \/ db.cases[q[1]].ord = db.cases[q[2]].ord /\ q[1] < q[2]}

\* ORDER BY ord, id is a total order of the cases.
LEMMA PositionOrders ==
    ASSUME NEW db, Database(db), NEW ids \in SUBSET DOMAIN db.cases
    PROVE  Orders(ByPosition(db, ids), ids)
  <1>1. \A k \in ids : k \in Int /\ db.cases[k].ord \in Int  BY DEF Database, Tables
  <1>2. ASSUME NEW x \in ids, NEW y \in ids
        PROVE <<x, y>> \in ByPosition(db, ids) <=> \/ db.cases[x].ord < db.cases[y].ord
                                                   \/ db.cases[x].ord = db.cases[y].ord /\ x < y
    BY DEF ByPosition
  <1>. QED  BY <1>1, <1>2 DEF Orders

\* A sample at place i of the list is the one at position i - 1.
LEMMA ListNumbered ==
    ASSUME NEW db, Database(db), NEW p, NEW n \in Nat, Numbered(db, p, n)
    PROVE  /\ DOMAIN list_samples(db, p) = 1..n
           /\ list_samples(db, p) = [i \in 1..n |-> list_samples(db, p)[i]]
           /\ \A k \in SamplesOf(db, p) : /\ db.cases[k].ord + 1 \in 1..n
                                          /\ list_samples(db, p)[db.cases[k].ord + 1] = db.cases[k].text
           /\ \A i \in 1..n : \E k \in SamplesOf(db, p) : db.cases[k].ord = i - 1
  <1>. DEFINE S == SamplesOf(db, p)
              R == ByPosition(db, S)
              e == [i \in 1..n |-> CHOOSE k \in S : db.cases[k].ord = i - 1]
  <1>1. S \in SUBSET DOMAIN db.cases  BY DEF SamplesOf, CasesOf
  <1>2. Orders(R, S)  BY <1>1, PositionOrders
  <1>3. \A k \in S : k \in Int /\ db.cases[k].ord \in Nat  BY <1>1 DEF Database, Tables
  <1>4. ASSUME NEW i \in 1..n PROVE \E k \in S : db.cases[k].ord = i - 1
    <2>1. i - 1 \in 0..(n - 1)  OBVIOUS
    <2>2. i - 1 \in {db.cases[k].ord : k \in S}  BY <2>1 DEF Numbered
    <2>. QED  BY <2>2
  <1>5. ASSUME NEW k \in S PROVE db.cases[k].ord + 1 \in 1..n
    <2>1. db.cases[k].ord \in {db.cases[l].ord : l \in S}  OBVIOUS
    <2>2. db.cases[k].ord \in 0..(n - 1)  BY <2>1 DEF Numbered
    <2>. QED  BY <2>2
  <1>6. ASSUME NEW i \in 1..n PROVE e[i] \in S /\ db.cases[e[i]].ord = i - 1  BY <1>4
  <1>7. ASSUME NEW k \in S PROVE e[db.cases[k].ord + 1] = k
    <2>. DEFINE i == db.cases[k].ord + 1
    <2>1. i \in 1..n /\ i - 1 = db.cases[k].ord  BY <1>3, <1>5
    <2>2. e[i] \in S /\ db.cases[e[i]].ord = i - 1  BY <1>6, <2>1
    <2>. HIDE DEF e, i
    <2>3. e[i] = k  BY <2>1, <2>2 DEF Numbered
    <2>. QED  BY <2>3 DEF i
  <1>8. InLine(e, n, S, R)
    <2>1. e \in [1..n -> S]  BY <1>6
    <2>2. \A k \in S : \E i \in 1..n : e[i] = k  BY <1>5, <1>7
    <2>3. ASSUME NEW i \in 1..n, NEW j \in 1..n, i < j PROVE <<e[i], e[j]>> \in R
      <3>1. e[i] \in S /\ e[j] \in S /\ db.cases[e[i]].ord = i - 1 /\ db.cases[e[j]].ord = j - 1  BY <1>6
      <3>. HIDE DEF e, S
      <3>2. db.cases[e[i]].ord < db.cases[e[j]].ord  BY <2>3, <3>1
      <3>. QED  BY <3>1, <3>2 DEF ByPosition
    <2>. HIDE DEF e, S, R
    <2>. QED  BY <2>1, <2>2, <2>3 DEF InLine
  <1>. HIDE DEF e
  <1>9. InOrder(db, S) = e
    <2>1. InOrder(db, S) = Sorted(S, R)  BY DEF InOrder, ByPosition
    <2>. HIDE DEF S, R
    <2>. QED  BY <1>2, <1>8, <2>1, SortedIs
  <1>10. DOMAIN e = 1..n  BY <1>8 DEF InLine
  <1>11. list_samples(db, p) = [i \in 1..n |-> db.cases[e[i]].text]  BY <1>9, <1>10 DEF list_samples
  <1>12. \A k \in S : list_samples(db, p)[db.cases[k].ord + 1] = db.cases[k].text  BY <1>5, <1>7, <1>11
  <1>13. list_samples(db, p) = [i \in 1..n |-> list_samples(db, p)[i]]
    <2>. DEFINE of(i) == db.cases[e[i]].text
    <2>1. list_samples(db, p) = [i \in 1..n |-> of(i)]  BY <1>11
    <2>. HIDE DEF of
    <2>. QED  BY <2>1
  <1>14. DOMAIN list_samples(db, p) = 1..n  BY <1>11
  <1>. QED  BY <1>4, <1>5, <1>12, <1>13, <1>14

\* A set of cases is finite, and InOrder enumerates it.
LEMMA InOrderInLine ==
    ASSUME NEW db, Database(db), NEW ids \in SUBSET DOMAIN db.cases
    PROVE  /\ IsFiniteSet(ids)
           /\ InLine(InOrder(db, ids), Cardinality(ids), ids, ByPosition(db, ids))
  <1>1. db.lastCase \in Nat /\ ids \in SUBSET (1..db.lastCase)  BY DEF Database, Tables
  <1>2. IsFiniteSet(1..db.lastCase)  BY <1>1, FS_Interval
  <1>3. IsFiniteSet(ids)  BY <1>1, <1>2, FS_Subset
  <1>4. InOrder(db, ids) = Sorted(ids, ByPosition(db, ids))  BY DEF InOrder, ByPosition
  <1>. QED  BY <1>3, <1>4, PositionOrders, SortedInLine

\* Nothing has changed for the problem q.
Kept(new, db, q) ==
    /\ SamplesOf(new, q) = SamplesOf(db, q)
    /\ HiddenOf(new, q) = HiddenOf(db, q)
    /\ \A k \in CasesOf(db, q) : new.cases[k] = db.cases[k]

\* The list of its samples neither.
LEMMA KeptSamples ==
    ASSUME NEW new, NEW db, Database(db), NEW q, SamplesOf(new, q) = SamplesOf(db, q),
           \A k \in SamplesOf(db, q) : new.cases[k] = db.cases[k]
    PROVE  /\ list_samples(new, q) = list_samples(db, q)
           /\ \A n : Numbered(new, q, n) <=> Numbered(db, q, n)
  <1>. DEFINE S == SamplesOf(db, q)
  <1>1. ByPosition(new, S) = ByPosition(db, S)  BY DEF ByPosition
  <1>2. InOrder(new, S) = InOrder(db, S)
    <2>1. InOrder(new, S) = Sorted(S, ByPosition(new, S))  BY DEF InOrder, ByPosition
    <2>2. InOrder(db, S) = Sorted(S, ByPosition(db, S))  BY DEF InOrder, ByPosition
    <2>. QED  BY <1>1, <2>1, <2>2
  <1>. DEFINE ids == InOrder(db, S)
  <1>3. \A i \in DOMAIN ids : ids[i] \in S
    <2>1. S \in SUBSET DOMAIN db.cases  BY DEF SamplesOf, CasesOf
    <2>2. InLine(ids, Cardinality(S), S, ByPosition(db, S))  BY <2>1, InOrderInLine
    <2>. HIDE DEF ids
    <2>. QED  BY <2>2 DEF InLine
  <1>. HIDE DEF ids
  <1>4. list_samples(new, q) = [i \in DOMAIN ids |-> new.cases[ids[i]].text]  BY <1>2 DEF list_samples, ids
  <1>5. list_samples(db, q) = [i \in DOMAIN ids |-> db.cases[ids[i]].text]  BY DEF list_samples, ids
  <1>6. list_samples(new, q) = list_samples(db, q)  BY <1>3, <1>4, <1>5
  <1>7. {new.cases[k].ord : k \in S} = {db.cases[k].ord : k \in S}  OBVIOUS
  <1>8. \A n : Numbered(new, q, n) <=> Numbered(db, q, n)
    <2>. HIDE DEF S
    <2>1. SamplesOf(new, q) = S /\ SamplesOf(db, q) = S /\ \A k \in S : new.cases[k] = db.cases[k]  BY DEF S
    <2>. QED  BY <1>7, <2>1 DEF Numbered
  <1>. QED  BY <1>6, <1>8

\* Nothing changes for anybody when the cases stay.
LEMMA SameCases ==
    ASSUME NEW new, NEW db, new.cases = db.cases, NEW q
    PROVE  Kept(new, db, q)
  BY DEF Kept, SamplesOf, HiddenOf, CasesOf

\* Replacing the samples of a problem: its hidden cases, and all other problems,
\* are left alone, and the list of its samples is what was given.
LEMMA SampledCases ==
    ASSUME NEW db, Database(db), NEW p \in DOMAIN db.problems, NEW texts \in TextLists,
           NEW x, x = WithSamples(db, p, texts, Len(texts))
    PROVE  /\ \A q : q # p => Kept(x, db, q)
           /\ HiddenOf(x, p) = HiddenOf(db, p)
           /\ \A k \in HiddenOf(db, p) : x.cases[k] = db.cases[k]
           /\ Len(texts) \in 0..(MaxOrd + 1)
           /\ Numbered(x, p, Len(texts))
           /\ list_samples(x, p) = texts
           /\ x.problems = db.problems
           /\ x.lastProblem = db.lastProblem
           /\ x.lastCase = db.lastCase + Len(texts)
           /\ x.status = db.status
           /\ Database(x)
  <1>. DEFINE n == Len(texts)
              old == DOMAIN db.cases \ SamplesOf(db, p)
              ids == (db.lastCase + 1)..(db.lastCase + n)
              new == SampleCases(db, p, texts, n)
  <1>1. Consistent(db.problems, db.cases, db.lastProblem, db.lastCase, db.status)  BY DatabaseColumns
  <1>2. db.lastCase \in Nat /\ \A k \in DOMAIN db.cases : k \in Nat /\ k <= db.lastCase  BY <1>1 DEF Consistent
  <1>3. n \in Nat /\ texts \in Seq(Authors \X Nat) /\ n \in 0..(MaxOrd + 1)
    <2>1. texts \in Seq(Authors \X Nat) /\ Len(texts) <= MaxSamples  BY DEF TextLists
    <2>. QED  BY <2>1, CatalogAssumption
  <1>4. x = Record(db.problems, new, db.lastProblem, db.lastCase + n, db.status)
    <2>. HIDE DEF new
    <2>. QED  BY SampleColumns DEF new
  <1>5. /\ x.problems = db.problems /\ x.cases = new /\ x.lastProblem = db.lastProblem
        /\ x.lastCase = db.lastCase + n /\ x.status = db.status
    <2>. HIDE DEF new
    <2>. QED  BY <1>4, RecordColumns
  <1>6. Database(x)
    <2>1. n \in 0..Len(texts)  BY <1>3
    <2>. QED  BY <2>1, SampledDatabase
  <1>7. DOMAIN x.cases = old \cup ids  BY <1>5 DEF SampleCases
  <1>8. ASSUME NEW k \in old PROVE x.cases[k] = db.cases[k]
    <2>1. k <= db.lastCase  BY <1>2
    <2>. HIDE DEF old
    <2>. QED  BY <1>5, <1>7, <2>1 DEF SampleCases, old
  <1>9. ASSUME NEW k \in ids
        PROVE x.cases[k] = [problem |-> p, ord |-> k - db.lastCase - 1, sample |-> TRUE, text |-> texts[k - db.lastCase]]
    <2>1. ~(k <= db.lastCase)  BY <1>2, <1>3
    <2>. HIDE DEF ids
    <2>. QED  BY <1>5, <1>7, <2>1 DEF SampleCases, ids
  <1>10. ids \cap DOMAIN db.cases = {}  BY <1>2, <1>3
  <1>11. ASSUME NEW k \in ids PROVE x.cases[k].problem = p /\ x.cases[k].sample /\ x.cases[k].ord = k - db.lastCase - 1
                                    /\ x.cases[k].text = texts[k - db.lastCase]
    <2>. DEFINE i == k - db.lastCase
    <2>1. x.cases[k] = [problem |-> p, ord |-> i - 1, sample |-> TRUE, text |-> texts[i]]  BY <1>9
    <2>. HIDE DEF i, ids
    <2>2. x.cases[k].problem = p /\ x.cases[k].sample /\ x.cases[k].ord = i - 1 /\ x.cases[k].text = texts[i]
      BY <2>1
    <2>. QED  BY <2>2 DEF i
  <1>. HIDE DEF ids, old, new
  <1>12. CasesOf(x, p) = HiddenOf(db, p) \cup ids
    BY <1>7, <1>8, <1>11 DEF CasesOf, HiddenOf, SamplesOf, old
  <1>13. \A k \in HiddenOf(db, p) : k \in old /\ x.cases[k] = db.cases[k] /\ ~db.cases[k].sample
    <2>1. \A k \in HiddenOf(db, p) : k \in old /\ ~db.cases[k].sample  BY DEF HiddenOf, SamplesOf, CasesOf, old
    <2>. QED  BY <1>8, <2>1
  <1>14. SamplesOf(x, p) = ids /\ HiddenOf(x, p) = HiddenOf(db, p)
    <2>1. SamplesOf(x, p) = ids  BY <1>11, <1>12, <1>13 DEF SamplesOf
    <2>2. HiddenOf(db, p) \cap ids = {}  BY <1>10 DEF HiddenOf, CasesOf
    <2>. QED  BY <1>12, <2>1, <2>2 DEF HiddenOf
  <1>15. ASSUME NEW q, q # p PROVE Kept(x, db, q)
    <2>1. CasesOf(x, q) = CasesOf(db, q)
      BY <1>7, <1>8, <1>11, <1>15 DEF CasesOf, SamplesOf, old
    <2>2. \A k \in CasesOf(db, q) : x.cases[k] = db.cases[k]
      BY <1>8, <1>15 DEF CasesOf, SamplesOf, old
    <2>. QED  BY <2>1, <2>2 DEF Kept, SamplesOf, HiddenOf
  <1>16. Numbered(x, p, n)
    <2>1. ASSUME NEW k \in ids, NEW l \in ids, x.cases[k].ord = x.cases[l].ord PROVE k = l
      BY <1>2, <1>11, <2>1 DEF ids
    <2>2. ASSUME NEW k \in ids PROVE x.cases[k].ord \in 0..(n - 1)
      <3>1. k - db.lastCase - 1 \in 0..(n - 1)
        <4>1. k \in Int /\ db.lastCase + 1 <= k /\ k <= db.lastCase + n  BY <1>2, <1>3 DEF ids
        <4>2. n \in Nat  BY <1>3
        <4>. HIDE DEF n
        <4>. QED  BY <1>2, <4>1, <4>2
      <3>2. x.cases[k].ord = k - db.lastCase - 1  BY <1>11
      <3>. QED  BY <3>1, <3>2
    <2>3. ASSUME NEW i \in 0..(n - 1) PROVE \E k \in ids : x.cases[k].ord = i
      <3>. DEFINE k == db.lastCase + 1 + i
      <3>1. k \in ids /\ k - db.lastCase - 1 = i
        <4>1. n \in Nat /\ i \in Nat /\ i <= n - 1  BY <1>3
        <4>. HIDE DEF n
        <4>. QED  BY <1>2, <4>1 DEF ids
      <3>. HIDE DEF k
      <3>2. x.cases[k].ord = k - db.lastCase - 1  BY <1>11, <3>1
      <3>. QED  BY <3>1, <3>2
    <2>4. {x.cases[k].ord : k \in ids} = 0..(n - 1)  BY <2>2, <2>3
    <2>. QED  BY <1>14, <2>1, <2>4 DEF Numbered
  <1>17. list_samples(x, p) = texts
    <2>1. /\ DOMAIN list_samples(x, p) = 1..n
          /\ list_samples(x, p) = [i \in 1..n |-> list_samples(x, p)[i]]
          /\ \A k \in ids : list_samples(x, p)[x.cases[k].ord + 1] = x.cases[k].text
      BY <1>3, <1>6, <1>14, <1>16, ListNumbered
    <2>2. ASSUME NEW i \in 1..n PROVE list_samples(x, p)[i] = texts[i]
      <3>. DEFINE k == db.lastCase + i
      <3>1. k \in ids /\ k - db.lastCase - 1 + 1 = i /\ k - db.lastCase = i  BY <1>2, <1>3 DEF ids
      <3>2. x.cases[k].ord + 1 = i /\ x.cases[k].text = texts[i]  BY <1>11, <3>1
      <3>. HIDE DEF k
      <3>. QED  BY <2>1, <3>1, <3>2
    <2>3. texts = [i \in 1..n |-> texts[i]]  BY <1>3
    <2>. HIDE DEF n
    <2>. QED  BY <2>1, <2>2, <2>3
  <1>. QED  BY <1>3, <1>5, <1>6, <1>13, <1>14, <1>15, <1>16, <1>17

\* Deleting a problem leaves all others alone.
LEMMA RemovedCases ==
    ASSUME NEW db, Database(db), NEW o, NEW x, x = Removed(db, o)
    PROVE  /\ \A q : q # o.problem => Kept(x, db, q)
           /\ x.problems = Drop(db.problems, {o.problem})
           /\ x.lastProblem = db.lastProblem
           /\ x.lastCase = db.lastCase
           /\ x.status = db.status
  <1>. DEFINE rest == Drop(db.cases, CasesOf(db, o.problem))
              less == Drop(db.problems, {o.problem})
  <1>1. /\ DOMAIN rest = DOMAIN db.cases \ CasesOf(db, o.problem)
        /\ \A k \in DOMAIN db.cases \ CasesOf(db, o.problem) : rest[k] = db.cases[k]
    BY DropCases
  <1>. HIDE DEF rest, less
  <1>2. x = Record(less, rest, db.lastProblem, db.lastCase, db.status)  BY Columns DEF less, rest
  <1>3. /\ x.problems = less /\ x.cases = rest /\ x.lastProblem = db.lastProblem
        /\ x.lastCase = db.lastCase /\ x.status = db.status
    BY <1>2, RecordColumns
  <1>4. ASSUME NEW q, q # o.problem PROVE Kept(x, db, q)
    <2>1. CasesOf(x, q) = CasesOf(db, q)  BY <1>1, <1>3, <1>4 DEF CasesOf
    <2>2. \A k \in CasesOf(db, q) : x.cases[k] = db.cases[k]  BY <1>1, <1>3, <1>4 DEF CasesOf
    <2>. QED  BY <2>1, <2>2 DEF Kept, SamplesOf, HiddenOf
  <1>. QED  BY <1>3, <1>4 DEF less

\* A hidden case more, with the id given, and nothing else.
HiddenAdded(x, db, o, id) ==
    /\ \A q : q # o.problem => Kept(x, db, q)
    /\ SamplesOf(x, o.problem) = SamplesOf(db, o.problem)
    /\ HiddenOf(x, o.problem) = HiddenOf(db, o.problem) \cup {id}
    /\ id \notin DOMAIN db.cases
    /\ \A k \in CasesOf(db, o.problem) : x.cases[k] = db.cases[k]
    /\ x.cases[id].ord = NewOrd(db, o) /\ x.cases[id].text = o.text
    /\ x.problems = db.problems
    /\ x.lastProblem = db.lastProblem
    /\ x.lastCase = id
    /\ x.status = db.status

\* A new case is one more hidden case of its problem.
LEMMA AddedCases ==
    ASSUME NEW db, Database(db), NEW o, NEW x, x = CaseAdded(db, o), NEW id, id = db.lastCase + 1
    PROVE  HiddenAdded(x, db, o, id)
  <1>. DEFINE row == [problem |-> o.problem, ord |-> NewOrd(db, o), sample |-> FALSE, text |-> o.text]
              more == Put(db.cases, id, row)
  <1>1. Consistent(db.problems, db.cases, db.lastProblem, db.lastCase, db.status)  BY DatabaseColumns
  <1>2. id \notin DOMAIN db.cases  BY <1>1 DEF Consistent
  <1>3. row.problem = o.problem /\ ~row.sample /\ row.ord = NewOrd(db, o) /\ row.text = o.text  OBVIOUS
  <1>. HIDE DEF row
  <1>4. DOMAIN more = DOMAIN db.cases \cup {id} /\ more[id] = row /\ \A k \in DOMAIN db.cases : more[k] = db.cases[k]
    BY <1>2 DEF Put
  <1>. HIDE DEF more
  <1>5. x = Record(db.problems, more, db.lastProblem, id, db.status)  BY Columns DEF more, row
  <1>6. /\ x.problems = db.problems /\ x.cases = more /\ x.lastProblem = db.lastProblem
        /\ x.lastCase = id /\ x.status = db.status
    BY <1>5, RecordColumns
  <1>7. ASSUME NEW q, q # o.problem PROVE Kept(x, db, q)
    <2>1. CasesOf(x, q) = CasesOf(db, q)  BY <1>3, <1>4, <1>6, <1>7 DEF CasesOf
    <2>2. \A k \in CasesOf(db, q) : x.cases[k] = db.cases[k]  BY <1>4, <1>6 DEF CasesOf
    <2>. QED  BY <2>1, <2>2 DEF Kept, SamplesOf, HiddenOf
  <1>8. CasesOf(x, o.problem) = CasesOf(db, o.problem) \cup {id}  BY <1>3, <1>4, <1>6 DEF CasesOf
  <1>9. \A k \in CasesOf(db, o.problem) : x.cases[k] = db.cases[k]  BY <1>4, <1>6 DEF CasesOf
  <1>10. id \notin CasesOf(db, o.problem) /\ x.cases[id] = row  BY <1>2, <1>4, <1>6 DEF CasesOf
  <1>11. SamplesOf(x, o.problem) = SamplesOf(db, o.problem)  BY <1>3, <1>8, <1>9, <1>10 DEF SamplesOf
  <1>12. id \notin SamplesOf(db, o.problem)  BY <1>10 DEF SamplesOf
  <1>13. HiddenOf(x, o.problem) = HiddenOf(db, o.problem) \cup {id}  BY <1>8, <1>10, <1>11, <1>12 DEF HiddenOf
  <1>. QED  BY <1>2, <1>3, <1>6, <1>7, <1>9, <1>10, <1>11, <1>13 DEF HiddenAdded

\* Changing a hidden case changes only its position and its text.
LEMMA ChangedCases ==
    ASSUME NEW db, Database(db), NEW t \in Clients, NEW o, OpFields(t, o), o.kind = "changeCase",
           find_hidden(db, o), NEW x, x = CaseChanged(db, o)
    PROVE  /\ \A q : q # o.problem => Kept(x, db, q)
           /\ SamplesOf(x, o.problem) = SamplesOf(db, o.problem)
           /\ HiddenOf(x, o.problem) = HiddenOf(db, o.problem)
           /\ \A k \in CasesOf(db, o.problem) : k # o.case => x.cases[k] = db.cases[k]
           /\ x.cases[o.case].ord = Default(o.ord, db.cases[o.case].ord)
           /\ x.cases[o.case].text = Default(o.text, db.cases[o.case].text)
           /\ x.problems = db.problems
           /\ x.lastProblem = db.lastProblem
           /\ x.lastCase = db.lastCase
           /\ x.status = db.status
           /\ Database(x)
  <1>. DEFINE new == ChangedRow(db.cases[o.case], o)
              other == [db.cases EXCEPT ![o.case] = new]
  <1>1. Consistent(db.problems, db.cases, db.lastProblem, db.lastCase, db.status)  BY DatabaseColumns
  <1>2. o.case \in DOMAIN db.cases /\ db.cases[o.case].problem = o.problem  BY DEF find_hidden, HiddenOf, CasesOf
  <1>3. x = Record(db.problems, other, db.lastProblem, db.lastCase, db.status) /\ Database(x)
    BY <1>2, ChangedDatabase
  <1>4. /\ new.problem = o.problem /\ new.sample = db.cases[o.case].sample
        /\ new.ord = Default(o.ord, db.cases[o.case].ord) /\ new.text = Default(o.text, db.cases[o.case].text)
    BY <1>2 DEF ChangedRow
  <1>. HIDE DEF new
  <1>5. DOMAIN other = DOMAIN db.cases /\ other[o.case] = new /\ \A k \in DOMAIN db.cases : k # o.case => other[k] = db.cases[k]
    BY <1>1, <1>2 DEF Consistent
  <1>. HIDE DEF other
  <1>6. /\ x.problems = db.problems /\ x.cases = other /\ x.lastProblem = db.lastProblem
        /\ x.lastCase = db.lastCase /\ x.status = db.status
    BY <1>3, RecordColumns
  <1>7. \A q : CasesOf(x, q) = CasesOf(db, q)  BY <1>2, <1>4, <1>5, <1>6 DEF CasesOf
  <1>8. \A k \in DOMAIN db.cases : x.cases[k].sample = db.cases[k].sample  BY <1>4, <1>5, <1>6
  <1>9. \A q : SamplesOf(x, q) = SamplesOf(db, q)  BY <1>7, <1>8, ZenonT(40) DEF SamplesOf, CasesOf
  <1>10. \A q : HiddenOf(x, q) = HiddenOf(db, q)  BY <1>7, <1>9 DEF HiddenOf
  <1>11. ASSUME NEW q, q # o.problem PROVE Kept(x, db, q)
    <2>1. \A k \in CasesOf(db, q) : k # o.case /\ k \in DOMAIN db.cases  BY <1>2, <1>11 DEF CasesOf
    <2>. QED  BY <1>5, <1>6, <1>9, <1>10, <2>1 DEF Kept
  <1>12. \A k \in CasesOf(db, o.problem) : k # o.case => x.cases[k] = db.cases[k]  BY <1>5, <1>6 DEF CasesOf
  <1>. QED  BY <1>3, <1>4, <1>5, <1>6, <1>9, <1>10, <1>11, <1>12

\* Deleting a hidden case leaves the others.
LEMMA RemovedCase ==
    ASSUME NEW db, Database(db), NEW o, find_hidden(db, o), NEW x, x = CaseRemoved(db, o)
    PROVE  /\ \A q : q # o.problem => Kept(x, db, q)
           /\ SamplesOf(x, o.problem) = SamplesOf(db, o.problem)
           /\ HiddenOf(x, o.problem) = HiddenOf(db, o.problem) \ {o.case}
           /\ \A k \in CasesOf(db, o.problem) : k # o.case => x.cases[k] = db.cases[k]
           /\ x.problems = db.problems
           /\ x.lastProblem = db.lastProblem
           /\ x.lastCase = db.lastCase
           /\ x.status = db.status
  <1>. DEFINE rest == Drop(db.cases, {o.case})
  <1>1. o.case \in DOMAIN db.cases /\ db.cases[o.case].problem = o.problem /\ ~db.cases[o.case].sample
    BY DEF find_hidden, HiddenOf, SamplesOf, CasesOf
  <1>2. DOMAIN rest = DOMAIN db.cases \ {o.case} /\ \A k \in DOMAIN db.cases \ {o.case} : rest[k] = db.cases[k]
    BY DropCases
  <1>. HIDE DEF rest
  <1>3. x = Record(db.problems, rest, db.lastProblem, db.lastCase, db.status)  BY Columns DEF rest
  <1>4. /\ x.problems = db.problems /\ x.cases = rest /\ x.lastProblem = db.lastProblem
        /\ x.lastCase = db.lastCase /\ x.status = db.status
    BY <1>3, RecordColumns
  <1>5. ASSUME NEW q, q # o.problem PROVE Kept(x, db, q)
    <2>1. CasesOf(x, q) = CasesOf(db, q)  BY <1>1, <1>2, <1>4, <1>5 DEF CasesOf
    <2>2. \A k \in CasesOf(db, q) : x.cases[k] = db.cases[k]  BY <1>1, <1>2, <1>4, <1>5 DEF CasesOf
    <2>. QED  BY <2>1, <2>2 DEF Kept, SamplesOf, HiddenOf
  <1>6. CasesOf(x, o.problem) = CasesOf(db, o.problem) \ {o.case}  BY <1>1, <1>2, <1>4 DEF CasesOf
  <1>7. \A k \in CasesOf(db, o.problem) : k # o.case => x.cases[k] = db.cases[k]  BY <1>2, <1>4 DEF CasesOf
  <1>8. SamplesOf(x, o.problem) = SamplesOf(db, o.problem)  BY <1>1, <1>6, <1>7 DEF SamplesOf
  <1>9. HiddenOf(x, o.problem) = HiddenOf(db, o.problem) \ {o.case}  BY <1>6, <1>8 DEF HiddenOf
  <1>. QED  BY <1>4, <1>5, <1>7, <1>8, <1>9

-----------------------------------------------------------------------------
(* What a transaction that can commit has done.                            *)

\* The tables are consistent, and the samples stand in order without gaps.
LEMMA EffectKeeps ==
    ASSUME NEW db, Database(db), NEW t \in Clients, NEW o, OpFields(t, o), NEW new, Effect(db, o, new)
    PROVE  /\ Database(new)
           /\ SamplesNumbered(db) => SamplesNumbered(new)
  <1>0. ASSUME NEW q \in DOMAIN db.problems, SamplesNumbered(db),
               SamplesOf(new, q) = SamplesOf(db, q), \A k \in SamplesOf(db, q) : new.cases[k] = db.cases[k]
        PROVE  \E n \in 0..(MaxOrd + 1) : Numbered(new, q, n)
    BY <1>0, KeptSamples DEF SamplesNumbered
  <1>1. ASSUME NEW q \in DOMAIN db.problems, SamplesNumbered(db), Kept(new, db, q)
        PROVE  \E n \in 0..(MaxOrd + 1) : Numbered(new, q, n)
    <2>1. SamplesOf(new, q) = SamplesOf(db, q) /\ \A k \in SamplesOf(db, q) : new.cases[k] = db.cases[k]
      BY <1>1 DEF Kept, SamplesOf
    <2>. QED  BY <1>0, <1>1, <2>1
  <1>2. ASSUME NEW base, Database(base), NEW p \in DOMAIN base.problems, o.samples \in TextLists,
               \A q : Kept(base, db, q), DOMAIN base.problems \subseteq DOMAIN db.problems \cup {p},
               new = WithSamples(base, p, o.samples, Len(o.samples))
        PROVE  Database(new) /\ (SamplesNumbered(db) => SamplesNumbered(new))
    <2>1. /\ Database(new)
          /\ new.problems = base.problems
          /\ Len(o.samples) \in 0..(MaxOrd + 1)
          /\ Numbered(new, p, Len(o.samples))
          /\ \A q : q # p => Kept(new, base, q)
      BY <1>2, SampledCases
    <2>2. ASSUME NEW q \in DOMAIN new.problems, q # p, SamplesNumbered(db)
          PROVE  \E n \in 0..(MaxOrd + 1) : Numbered(new, q, n)
      <3>1. Kept(new, base, q) /\ Kept(base, db, q) /\ q \in DOMAIN db.problems  BY <1>2, <2>1, <2>2
      <3>2. Kept(new, db, q)
        <4>1. CasesOf(base, q) = CasesOf(db, q)  BY <3>1 DEF Kept, HiddenOf, SamplesOf
        <4>. QED  BY <3>1, <4>1 DEF Kept
      <3>. QED  BY <1>1, <2>2, <3>1, <3>2
    <2>3. SamplesNumbered(db) => SamplesNumbered(new)  BY <2>1, <2>2 DEF SamplesNumbered
    <2>. QED  BY <2>1, <2>3
  <1>3. CASE /\ o.kind = "create"
             /\ new = WithSamples(Created(db, o), db.lastProblem + 1, o.samples, Len(o.samples))
    <2>. DEFINE base == Created(db, o)
                id == db.lastProblem + 1
    <2>1. o.tag \in Authors /\ o.visible \in BOOLEAN /\ o.samples \in TextLists  BY <1>3 DEF OpFields, Authors
    <2>2. Database(base) /\ id \in DOMAIN base.problems  BY <2>1, CreatedDatabase
    <2>3. base.cases = db.cases /\ base.problems = Put(db.problems, id, NewRow(o))
      <3>1. id = db.lastProblem + 1  OBVIOUS
      <3>. HIDE DEF id
      <3>. QED  BY <3>1, CreatedColumns
    <2>. HIDE DEF base, id
    <2>4. DOMAIN base.problems = DOMAIN db.problems \cup {id}  BY <2>3 DEF Put
    <2>5. \A q : Kept(base, db, q)  BY <2>3, SameCases
    <2>6. new = WithSamples(base, id, o.samples, Len(o.samples))  BY <1>3 DEF base, id
    <2>. QED  BY <1>2, <2>1, <2>2, <2>4, <2>5, <2>6
  <1>4. CASE o.kind = "update" /\ o.problem \in DOMAIN db.problems
             /\ new = IF o.samples = None THEN Updated(db, o)
                      ELSE WithSamples(Updated(db, o), o.problem, o.samples, Len(o.samples))
    <2>. DEFINE base == Updated(db, o)
    <2>1. o.samples \in {None} \cup TextLists  BY <1>4 DEF OpFields
    <2>2. Database(base) /\ DOMAIN base.problems = DOMAIN db.problems  BY <1>4, UpdatedDatabase
    <2>3. base.cases = db.cases  BY UpdatedColumns
    <2>. HIDE DEF base
    <2>4. \A q : Kept(base, db, q)  BY <2>3, SameCases
    <2>5. CASE o.samples = None
      <3>1. new = base  BY <1>4, <2>5 DEF base
      <3>2. SamplesNumbered(db) => SamplesNumbered(new)  BY <1>1, <2>2, <2>4, <3>1 DEF SamplesNumbered
      <3>. QED  BY <2>2, <3>1, <3>2
    <2>6. CASE o.samples # None
      <3>1. new = WithSamples(base, o.problem, o.samples, Len(o.samples))  BY <1>4, <2>6 DEF base
      <3>. QED  BY <1>2, <1>4, <2>1, <2>2, <2>4, <2>6, <3>1
    <2>. QED  BY <2>5, <2>6
  <1>5. CASE o.kind = "delete" /\ o.problem \in DOMAIN db.problems
             /\ (\A s \in DOMAIN db.status : s[2] # o.problem) /\ new = Removed(db, o)
    <2>1. Database(new)  BY <1>5, RemovedDatabase
    <2>2. new.problems = Drop(db.problems, {o.problem}) /\ \A q : q # o.problem => Kept(new, db, q)
      BY <1>5, RemovedCases
    <2>3. DOMAIN new.problems = DOMAIN db.problems \ {o.problem}  BY <2>2 DEF Drop
    <2>4. SamplesNumbered(db) => SamplesNumbered(new)  BY <1>1, <2>2, <2>3 DEF SamplesNumbered
    <2>. QED  BY <2>1, <2>4
  <1>6. CASE o.kind = "addCase" /\ o.problem \in DOMAIN db.problems /\ OrdFits(NewOrd(db, o)) /\ new = CaseAdded(db, o)
    <2>1. Database(new)  BY <1>6, AddedDatabase
    <2>2. /\ \A q : q # o.problem => Kept(new, db, q)
          /\ SamplesOf(new, o.problem) = SamplesOf(db, o.problem)
          /\ \A k \in CasesOf(db, o.problem) : new.cases[k] = db.cases[k]
          /\ new.problems = db.problems
      <3>. DEFINE id == db.lastCase + 1
      <3>1. HiddenAdded(new, db, o, id)  BY <1>6, AddedCases
      <3>. QED  BY <3>1 DEF HiddenAdded
    <2>3. \A k \in SamplesOf(db, o.problem) : new.cases[k] = db.cases[k]  BY <2>2 DEF SamplesOf
    <2>4. SamplesNumbered(db) => SamplesNumbered(new)  BY <1>0, <1>1, <2>2, <2>3 DEF SamplesNumbered
    <2>. QED  BY <2>1, <2>4
  <1>7. CASE o.kind = "changeCase" /\ find_hidden(db, o) /\ new = CaseChanged(db, o)
    <2>1. /\ \A q : q # o.problem => Kept(new, db, q)
          /\ SamplesOf(new, o.problem) = SamplesOf(db, o.problem)
          /\ \A k \in CasesOf(db, o.problem) : k # o.case => new.cases[k] = db.cases[k]
          /\ new.problems = db.problems
          /\ Database(new)
      BY <1>7, ChangedCases
    <2>2. o.case \notin SamplesOf(db, o.problem)  BY <1>7 DEF find_hidden, HiddenOf
    <2>3. \A k \in SamplesOf(db, o.problem) : new.cases[k] = db.cases[k]  BY <2>1, <2>2 DEF SamplesOf
    <2>4. SamplesNumbered(db) => SamplesNumbered(new)  BY <1>0, <1>1, <2>1, <2>3 DEF SamplesNumbered
    <2>. QED  BY <2>1, <2>4
  <1>8. CASE o.kind = "removeCase" /\ find_hidden(db, o) /\ new = CaseRemoved(db, o)
    <2>1. /\ \A q : q # o.problem => Kept(new, db, q)
          /\ SamplesOf(new, o.problem) = SamplesOf(db, o.problem)
          /\ \A k \in CasesOf(db, o.problem) : k # o.case => new.cases[k] = db.cases[k]
          /\ new.problems = db.problems
      BY <1>8, RemovedCase
    <2>2. o.case \notin SamplesOf(db, o.problem)  BY <1>8 DEF find_hidden, HiddenOf
    <2>3. \A k \in SamplesOf(db, o.problem) : new.cases[k] = db.cases[k]  BY <2>1, <2>2 DEF SamplesOf
    <2>4. SamplesNumbered(db) => SamplesNumbered(new)  BY <1>0, <1>1, <2>1, <2>3 DEF SamplesNumbered
    <2>5. Database(new)  BY <1>8, CaseRemovedDatabase
    <2>. QED  BY <2>4, <2>5
  <1>. QED  BY <1>3, <1>4, <1>5, <1>6, <1>7, <1>8 DEF Effect

-----------------------------------------------------------------------------
(* The invariant at the start.                                             *)

\* The catalog of the start.
LEMMA InitInv ==
    ASSUME Init PROVE CatalogInv
  <1>1. PICK early \in SUBSET {<<Min(Users), 1>>} :
           work = [problems |-> [p \in {1} |-> [tag |-> Initial, visible |-> TRUE]],
                   cases |-> [k \in 1..2 |-> [problem |-> 1, ord |-> k - 1, sample |-> k = 1,
                                              text |-> <<Initial, 2 - k>>]],
                   lastProblem |-> 1, lastCase |-> 2,
                   status |-> [s \in early |-> [count |-> 1, first |-> 0]]]
    BY DEF Init
  <1>. DEFINE problems == [p \in {1} |-> [tag |-> Initial, visible |-> TRUE]]
              cases == [k \in 1..2 |-> [problem |-> 1, ord |-> k - 1, sample |-> k = 1, text |-> <<Initial, 2 - k>>]]
              status == [s \in early |-> [count |-> 1, first |-> 0]]
  <1>2. work = Record(problems, cases, 1, 2, status)
    <2>. HIDE DEF problems, cases, status
    <2>. QED  BY <1>1 DEF Record, problems, cases, status
  <1>3. DOMAIN problems = {1} /\ problems \in [DOMAIN problems -> ProblemRows]
    <2>1. [tag |-> Initial, visible |-> TRUE] \in ProblemRows  BY DEF ProblemRows, Authors
    <2>. QED  BY <2>1
  <1>4. DOMAIN cases = 1..2 /\ cases \in [DOMAIN cases -> CaseRows] /\ \A k \in 1..2 : cases[k].problem = 1
    <2>1. ASSUME NEW k \in 1..2 PROVE [problem |-> 1, ord |-> k - 1, sample |-> k = 1, text |-> <<Initial, 2 - k>>] \in CaseRows
      <3>1. k - 1 \in 0..MaxOrd /\ 2 - k \in Nat  BY CatalogAssumption
      <3>2. <<Initial, 2 - k>> \in Authors \X Nat  BY <3>1 DEF Authors
      <3>3. (k = 1) \in BOOLEAN  OBVIOUS
      <3>. HIDE DEF cases
      <3>. QED  BY <3>1, <3>2, <3>3 DEF CaseRows
    <2>2. DOMAIN cases = 1..2  OBVIOUS
    <2>3. cases \in [1..2 -> CaseRows]  BY <2>1
    <2>. QED  BY <2>2, <2>3
  <1>5. DOMAIN status \subseteq Users \X {1}
    <2>1. Users \in SUBSET Nat /\ Users # {}  BY CatalogAssumption
    <2>2. PICK u \in Users : \A v \in Users : u <= v  BY <2>1, Smallest
    <2>3. Min(Users) \in Users  BY <2>2 DEF Min
    <2>. QED  BY <2>3
  <1>6. cases[1].sample /\ ~cases[2].sample /\ cases[1].ord = 0
    <2>1. cases[1] = [problem |-> 1, ord |-> 1 - 1, sample |-> 1 = 1, text |-> <<Initial, 2 - 1>>]  OBVIOUS
    <2>2. cases[2] = [problem |-> 1, ord |-> 2 - 1, sample |-> 2 = 1, text |-> <<Initial, 2 - 2>>]  OBVIOUS
    <2>3. (1 = 1) = TRUE /\ (2 = 1) = FALSE /\ 1 - 1 = 0  OBVIOUS
    <2>. HIDE DEF cases
    <2>4. cases[1].sample = (1 = 1) /\ cases[1].ord = 1 - 1  BY <2>1
    <2>5. cases[2].sample = (2 = 1)  BY <2>2
    <2>6. cases[1].sample = TRUE /\ cases[2].sample = FALSE  BY <2>3, <2>4, <2>5
    <2>. QED  BY <2>3, <2>4, <2>6
  <1>. HIDE DEF problems, cases, status
  <1>7. Consistent(problems, cases, 1, 2, status)  BY <1>3, <1>4, <1>5 DEF Consistent
  <1>8. Database(work)  BY <1>2, <1>7, RecordDatabase
  <1>9. work.problems = problems /\ work.cases = cases  BY <1>2, RecordColumns
  <1>10. SamplesNumbered(work)
    <2>1. SamplesOf(work, 1) = {1}
      <3>1. CasesOf(work, 1) = 1..2  BY <1>4, <1>9 DEF CasesOf
      <3>2. 1..2 = {1, 2}  OBVIOUS
      <3>. QED  BY <1>6, <1>9, <3>1, <3>2 DEF SamplesOf
    <2>2. work.cases[1].ord = 0  BY <1>6, <1>9
    <2>3. {work.cases[k].ord : k \in {1}} = 0..(1 - 1)  BY <2>2
    <2>4. Numbered(work, 1, 1)  BY <2>1, <2>3 DEF Numbered
    <2>5. 1 \in 0..(MaxOrd + 1)  BY CatalogAssumption
    <2>. QED  BY <1>3, <1>9, <2>4, <2>5 DEF SamplesNumbered
  <1>11. disk = work /\ inTx = FALSE /\ mutex = None /\ settled = 0  BY DEF Init
  <1>12. CatalogTypeOK
    <2>1. Tables(work)  BY <1>8 DEF Database
    <2>2. pc \in [Clients \cup Boards -> {"idle", "rejected", "begun", "samples", "replace", "emptied",
                                          "written", "counted", "answered"}]
      BY DEF Init
    <2>3. /\ answer \in [Clients -> {None, "Done", "Failed", "NotFound", "HasSubmissions", "OrdExhausted"}]
          /\ \A t \in Clients : op[t] \in Operations[t] \cup {NoOp}
      BY DEF Init
    <2>4. settled \in 0..MaxSettled  BY <1>11, CatalogAssumption
    <2>. QED  BY <1>11, <2>1, <2>2, <2>3, <2>4 DEF CatalogTypeOK
  <1>13. LockInv
    <2>1. \A t \in Clients : pc[t] = "idle" /\ op[t] = NoOp /\ mutex # t  BY <1>11, CatalogAssumption DEF Init
    <2>2. \A b \in Boards : pc[b] = "idle" /\ mutex # b  BY <1>11, CatalogAssumption DEF Init
    <2>. QED  BY <1>11, <2>1, <2>2 DEF LockInv
  <1>14. AnswerInv  BY DEF Init, AnswerInv
  <1>15. WorkInv  BY <1>11, CatalogAssumption DEF WorkInv
  <1>16. BoardInv
    <2>1. \A b \in Boards : pc[b] = "idle" /\ board[b] = NoPage  BY DEF Init
    <2>. QED  BY <2>1 DEF BoardInv, NoPage
  <1>17. DOMAIN op = Clients /\ DOMAIN target = Clients /\ DOMAIN todo = Clients /\ DOMAIN board = Boards  BY DEF Init
  <1>. QED  BY <1>8, <1>10, <1>11, <1>12, <1>13, <1>14, <1>15, <1>16, <1>17 DEF CatalogInv

-----------------------------------------------------------------------------
(* The invariant in the steps of a transaction.                            *)

Places == {"begun", "samples", "replace", "emptied", "written"}

\* Between two statements the tables are consistent.
LEMMA WrittenDatabase ==
    ASSUME NEW db, Database(db), NEW t \in Clients, NEW o, OpFields(t, o), NEW place \in Places,
           NEW p, NEW rest, NEW new, Written(place, o, p, rest, db, new)
    PROVE  Database(new)
  <1>1. CASE place = "begun"  BY <1>1 DEF Written
  <1>2. CASE place = "replace"
    <2>1. o.kind = "update" /\ o.problem \in DOMAIN db.problems /\ new = Updated(db, o)  BY <1>2 DEF Written
    <2>. QED  BY <2>1, UpdatedDatabase
  <1>3. CASE place = "samples"
    <2>1. PICK d \in 0..Len(o.samples) : Inserting(db, o, p, rest, new, d)  BY <1>3 DEF Written
    <2>. QED  BY <2>1, InsertingDatabase
  <1>4. CASE place = "emptied"
    <2>1. new = Emptied(db, o)  BY <1>4 DEF Written
    <2>. QED  BY <2>1, EmptiedDatabase
  <1>5. CASE place = "written"
    <2>1. Effect(db, o, new)  BY <1>5 DEF Written
    <2>. QED  BY <2>1, EffectKeeps
  <1>. QED  BY <1>1, <1>2, <1>3, <1>4, <1>5 DEF Places

\* Who is inside a transaction holds the mutex; its request is a valid one and what
\* it has written is known.
LEMMA Inside ==
    ASSUME CatalogInv, NEW t \in Clients, pc[t] \in Places \/ mutex = t
    PROVE  /\ mutex = t /\ t \notin Boards /\ t # None /\ inTx
           /\ pc[t] \in Places
           /\ op[t] \in Operations[t] /\ OpFields(t, op[t])
           /\ Written(pc[t], op[t], target[t], todo[t], disk, work)
           /\ answer[t] = None
           /\ \A b \in Boards : mutex # b
           /\ \A s \in Clients : s # t => mutex # s
  <1>1. t \notin Boards /\ t # None  BY CatalogAssumption
  <1>2. mutex = t /\ pc[t] \in Places
    <2>1. LockInv  BY DEF CatalogInv
    <2>. QED  BY <2>1 DEF LockInv, Places
  <1>3. inTx  BY <1>1, <1>2 DEF CatalogInv, LockInv
  <1>4. op[t] \in Operations[t] /\ Written(pc[t], op[t], target[t], todo[t], disk, work)
    BY <1>2 DEF CatalogInv, WorkInv
  <1>5. OpFields(t, op[t])  BY <1>4, OpsTyped
  <1>6. answer[t] = None  BY <1>2 DEF CatalogInv, AnswerInv, Places
  <1>. QED  BY <1>1, <1>2, <1>3, <1>4, <1>5, <1>6

\* A statement that writes keeps the invariant when what has been written is what
\* belongs to its new place.
LEMMA WriteKeeps ==
    ASSUME CatalogInv, NEW t \in Clients, mutex = t, NEW db, NEW to \in Places, Write(t, db, to),
           DOMAIN target' = Clients, DOMAIN todo' = Clients,
           Written(to, op[t], target'[t], todo'[t], disk, db)
    PROVE  CatalogInv'
  <1>1. /\ mutex = t /\ t \notin Boards /\ t # None /\ inTx
        /\ pc[t] \in Places /\ op[t] \in Operations[t] /\ OpFields(t, op[t]) /\ answer[t] = None
        /\ \A b \in Boards : mutex # b
        /\ \A s \in Clients : s # t => mutex # s
    BY Inside
  <1>2. /\ work' = db /\ pc' = [pc EXCEPT ![t] = to]
        /\ disk' = disk /\ inTx' = inTx /\ mutex' = mutex /\ op' = op /\ answer' = answer
        /\ board' = board /\ settled' = settled
    BY DEF Write, Goto
  <1>3. Database(work') /\ Database(disk') /\ SamplesNumbered(disk')
    <2>1. Database(disk) /\ SamplesNumbered(disk)  BY DEF CatalogInv
    <2>2. Database(db)  BY <1>1, <2>1, WrittenDatabase
    <2>. QED  BY <1>2, <2>1, <2>2
  <1>4. CatalogTypeOK'
    <2>1. Tables(work') /\ Tables(disk')  BY <1>3 DEF Database
    <2>2. CatalogTypeOK  BY DEF CatalogInv
    <2>3. pc' \in [Clients \cup Boards -> {"idle", "rejected", "begun", "samples", "replace", "emptied",
                                           "written", "counted", "answered"}]
      BY <1>2, <2>2 DEF CatalogTypeOK, Places
    <2>. QED  BY <1>2, <2>1, <2>2, <2>3 DEF CatalogTypeOK
  <1>5. /\ pc'[t] = to
        /\ \A s \in Clients \cup Boards : s # t => pc'[s] = pc[s]
    BY <1>2 DEF CatalogInv, CatalogTypeOK
  <1>6. LockInv'
    <2>1. LockInv  BY DEF CatalogInv
    <2>2. \A s \in Clients : IF mutex' = s THEN pc'[s] \in Places
                             ELSE pc'[s] \in {"idle", "rejected", "answered"} /\ op'[s] = NoOp
      BY <1>1, <1>2, <1>5, <2>1 DEF LockInv
    <2>3. \A b \in Boards : IF mutex' = b THEN pc'[b] \in {"begun", "counted"} ELSE pc'[b] \in {"idle", "answered"}
      BY <1>1, <1>2, <1>5, <2>1 DEF LockInv
    <2>. QED  BY <1>2, <2>1, <2>2, <2>3 DEF LockInv, Places
  <1>7. AnswerInv'  BY <1>1, <1>2, <1>5 DEF CatalogInv, AnswerInv
  <1>8. WorkInv'
    <2>1. \A s \in Clients : mutex' = s => s = t  BY <1>1, <1>2
    <2>2. op'[t] \in Operations[t] /\ Written(pc'[t], op'[t], target'[t], todo'[t], disk', work')  BY <1>1, <1>2, <1>5
    <2>. QED  BY <1>1, <1>2, <2>1, <2>2 DEF WorkInv
  <1>9. BoardInv'
    <2>1. \A b \in Boards : pc'[b] = pc[b] /\ pc[b] # "counted"  BY <1>1, <1>5 DEF CatalogInv, LockInv
    <2>. QED  BY <1>2, <2>1 DEF CatalogInv, BoardInv
  <1>. QED  BY <1>2, <1>3, <1>4, <1>6, <1>7, <1>8, <1>9 DEF CatalogInv

\* COMMIT and ROLLBACK keep it when the connection then shows what is committed.
LEMMA EndKeeps ==
    ASSUME CatalogInv, NEW t \in Clients, mutex = t,
           NEW what \in {"Done", "Failed", "NotFound", "HasSubmissions", "OrdExhausted"}, Reply(t, what),
           inTx' = FALSE, mutex' = None, board' = board, settled' = settled,
           work' = disk', Database(disk'), SamplesNumbered(disk')
    PROVE  CatalogInv'
  <1>1. /\ mutex = t /\ t \notin Boards /\ t # None
        /\ \A b \in Boards : mutex # b
        /\ \A s \in Clients : s # t => mutex # s
    BY Inside
  <1>2. /\ pc' = [pc EXCEPT ![t] = "answered"] /\ answer' = [answer EXCEPT ![t] = what]
        /\ op' = [op EXCEPT ![t] = NoOp]
        /\ target' = [target EXCEPT ![t] = 0] /\ todo' = [todo EXCEPT ![t] = <<>>]
    BY DEF Reply, Goto
  <1>3. /\ DOMAIN op' = Clients /\ DOMAIN target' = Clients /\ DOMAIN todo' = Clients /\ DOMAIN board' = Boards
    BY <1>2 DEF CatalogInv
  <1>4. /\ pc'[t] = "answered" /\ op'[t] = NoOp
        /\ \A s \in Clients \cup Boards : s # t => pc'[s] = pc[s]
        /\ \A s \in Clients : s # t => op'[s] = op[s] /\ answer'[s] = answer[s]
    BY <1>2 DEF CatalogInv, CatalogTypeOK
  <1>5. CatalogTypeOK'
    <2>1. Tables(disk')  BY DEF Database
    <2>2. CatalogTypeOK  BY DEF CatalogInv
    <2>3. pc' \in [Clients \cup Boards -> {"idle", "rejected", "begun", "samples", "replace", "emptied",
                                           "written", "counted", "answered"}]
      BY <1>2, <2>2 DEF CatalogTypeOK
    <2>4. answer' \in [Clients -> {None, "Done", "Failed", "NotFound", "HasSubmissions", "OrdExhausted"}]
      BY <1>2, <2>2 DEF CatalogTypeOK
    <2>5. \A s \in Clients : op'[s] \in Operations[s] \cup {NoOp}  BY <1>4, <2>2 DEF CatalogTypeOK
    <2>. QED  BY <2>1, <2>2, <2>3, <2>4, <2>5 DEF CatalogTypeOK
  <1>6. \A s \in Clients : mutex' # s /\ pc'[s] \in {"idle", "rejected", "answered"} /\ op'[s] = NoOp
    BY <1>1, <1>4, CatalogAssumption DEF CatalogInv, LockInv
  <1>7. \A b \in Boards : mutex' # b /\ pc'[b] = pc[b] /\ pc[b] \in {"idle", "answered"}
    BY <1>1, <1>4, CatalogAssumption DEF CatalogInv, LockInv
  <1>8. LockInv'  BY <1>6, <1>7 DEF LockInv
  <1>9. AnswerInv'  BY <1>4 DEF CatalogInv, AnswerInv
  <1>10. WorkInv'  BY <1>6 DEF WorkInv
  <1>11. BoardInv'  BY <1>7 DEF CatalogInv, BoardInv
  <1>. QED  BY <1>3, <1>5, <1>8, <1>9, <1>10, <1>11 DEF CatalogInv

\* A request that is refused at once.
LEMMA RejectKeeps ==
    ASSUME CatalogInv, NEW t \in Clients, Reject(t)
    PROVE  CatalogInv'
  <1>1. /\ pc[t] = "idle" /\ pc' = [pc EXCEPT ![t] = "rejected"]
        /\ work' = work /\ disk' = disk /\ inTx' = inTx /\ mutex' = mutex
        /\ op' = op /\ target' = target /\ todo' = todo /\ answer' = answer /\ board' = board /\ settled' = settled
    BY DEF Reject, Goto, dbVars, clientVars
  <1>2. t \notin Boards /\ mutex # t  BY <1>1, CatalogAssumption DEF CatalogInv, LockInv
  <1>3. /\ pc'[t] = "rejected"
        /\ \A s \in Clients \cup Boards : s # t => pc'[s] = pc[s]
    BY <1>1 DEF CatalogInv, CatalogTypeOK
  <1>4. CatalogTypeOK'
    <2>1. CatalogTypeOK  BY DEF CatalogInv
    <2>. QED  BY <1>1, <2>1 DEF CatalogTypeOK
  <1>5. LockInv'  BY <1>1, <1>2, <1>3 DEF CatalogInv, LockInv
  <1>6. AnswerInv'  BY <1>1, <1>3 DEF CatalogInv, AnswerInv
  <1>7. WorkInv'
    <2>1. \A s \in Clients : mutex = s => pc'[s] = pc[s]  BY <1>2, <1>3
    <2>. QED  BY <1>1, <2>1 DEF CatalogInv, WorkInv
  <1>8. BoardInv'
    <2>1. \A b \in Boards : pc'[b] = pc[b]  BY <1>2, <1>3
    <2>. QED  BY <1>1, <2>1 DEF CatalogInv, BoardInv
  <1>. QED  BY <1>1, <1>4, <1>5, <1>6, <1>7, <1>8 DEF CatalogInv

\* A transaction begins on what is committed.
LEMMA BeginKeeps ==
    ASSUME CatalogInv, NEW t \in Clients, Begin(t)
    PROVE  CatalogInv'
  <1>1. /\ pc[t] = "idle" /\ pc' = [pc EXCEPT ![t] = "begun"]
        /\ mutex = None /\ mutex' = t /\ inTx' = TRUE
        /\ work' = work /\ disk' = disk
        /\ target' = target /\ todo' = todo /\ answer' = answer /\ board' = board /\ settled' = settled
    BY DEF Begin, begin, Goto
  <1>2. PICK o \in Operations[t] : op' = [op EXCEPT ![t] = o]  BY DEF Begin
  <1>3. /\ t \notin Boards /\ t # None
        /\ \A s \in Clients \cup Boards : mutex # s
    BY <1>1, CatalogAssumption
  <1>4. /\ pc'[t] = "begun" /\ op'[t] = o
        /\ \A s \in Clients \cup Boards : s # t => pc'[s] = pc[s]
        /\ \A s \in Clients : s # t => op'[s] = op[s]
        /\ DOMAIN op' = Clients
    BY <1>1, <1>2 DEF CatalogInv, CatalogTypeOK
  <1>5. CatalogTypeOK'
    <2>1. CatalogTypeOK  BY DEF CatalogInv
    <2>2. pc' \in [Clients \cup Boards -> {"idle", "rejected", "begun", "samples", "replace", "emptied",
                                           "written", "counted", "answered"}]
      BY <1>1, <2>1 DEF CatalogTypeOK
    <2>3. \A s \in Clients : op'[s] \in Operations[s] \cup {NoOp}  BY <1>2, <1>4, <2>1 DEF CatalogTypeOK
    <2>4. mutex' \in Clients \cup Boards \cup {None} /\ inTx' \in BOOLEAN  BY <1>1
    <2>. QED  BY <1>1, <2>1, <2>2, <2>3, <2>4 DEF CatalogTypeOK
  <1>6. LockInv'
    <2>1. \A s \in Clients : s # t => pc'[s] \in {"idle", "rejected", "answered"} /\ op'[s] = NoOp
      BY <1>3, <1>4 DEF CatalogInv, LockInv
    <2>2. \A b \in Boards : b # t /\ pc'[b] \in {"idle", "answered"}  BY <1>3, <1>4 DEF CatalogInv, LockInv
    <2>3. inTx' = (mutex' # None)  BY <1>1, <1>3
    <2>. QED  BY <1>1, <1>4, <2>1, <2>2, <2>3 DEF LockInv
  <1>7. AnswerInv'  BY <1>1, <1>4 DEF CatalogInv, AnswerInv
  <1>8. WorkInv'
    <2>1. work = disk  BY <1>3 DEF CatalogInv, WorkInv
    <2>2. Written("begun", o, target[t], todo[t], disk, work)  BY <2>1 DEF Written
    <2>. QED  BY <1>1, <1>2, <1>4, <2>2 DEF WorkInv
  <1>9. BoardInv'
    <2>1. \A b \in Boards : pc'[b] = pc[b]  BY <1>3, <1>4
    <2>. QED  BY <1>1, <2>1 DEF CatalogInv, BoardInv
  <1>. QED  BY <1>1, <1>4, <1>5, <1>6, <1>7, <1>8, <1>9 DEF CatalogInv

\* ROLLBACK leaves what was committed.
LEMMA RollbackKeeps ==
    ASSUME CatalogInv, NEW t \in Clients, mutex = t,
           NEW why \in {"Failed", "NotFound", "HasSubmissions", "OrdExhausted"}, Rollback(t, why)
    PROVE  CatalogInv'
  <1>1. /\ work' = disk /\ disk' = disk /\ inTx' = FALSE /\ mutex' = None
        /\ board' = board /\ settled' = settled /\ Reply(t, why)
    BY DEF Rollback
  <1>2. Database(disk') /\ SamplesNumbered(disk') /\ work' = disk'  BY <1>1 DEF CatalogInv
  <1>. QED  BY <1>1, <1>2, EndKeeps

\* COMMIT: the transaction has done all that its request asks for.
LEMMA CommitEffect ==
    ASSUME CatalogInv, NEW t \in Clients, Commit(t)
    PROVE  /\ mutex = t /\ OpFields(t, op[t])
           /\ Effect(disk, op[t], work)
  <1>1. pc[t] = "written" \/ (pc[t] = "samples" /\ todo[t] = <<>>)  BY DEF Commit
  <1>2. /\ mutex = t /\ OpFields(t, op[t])
        /\ Written(pc[t], op[t], target[t], todo[t], disk, work)
    BY <1>1, Inside DEF Places
  <1>3. CASE pc[t] = "written"  BY <1>2, <1>3 DEF Written
  <1>4. CASE pc[t] = "samples" /\ todo[t] = <<>>
    <2>. DEFINE o == op[t]
    <2>1. PICK d \in 0..Len(o.samples) : Inserting(disk, o, target[t], todo[t], work, d)  BY <1>2, <1>4 DEF Written
    <2>. HIDE DEF o
    <2>2. o.samples \in TextLists
      <3>1. Database(disk)  BY DEF CatalogInv
      <3>. QED  BY <1>2, <2>1, <3>1, InsertingDatabase DEF o
    <2>3. o.samples \in Seq(Authors \X Nat) /\ Len(o.samples) \in Nat  BY <2>2 DEF TextLists
    <2>4. SubSeq(o.samples, d + 1, Len(o.samples)) = <<>>  BY <1>4, <2>1 DEF Inserting
    <2>5. d = Len(o.samples)
      <3>1. \A i \in (d + 1)..Len(o.samples) : o.samples[i] \in Authors \X Nat  BY <2>3
      <3>2. Len(SubSeq(o.samples, d + 1, Len(o.samples)))
              = IF d + 1 <= Len(o.samples) THEN Len(o.samples) - (d + 1) + 1 ELSE 0
        BY <2>3, <3>1, SubSeqProperties
      <3>3. Len(<<>>) = 0  OBVIOUS
      <3>. DEFINE rest == SubSeq(o.samples, d + 1, Len(o.samples))
                  n == Len(o.samples)
      <3>. HIDE DEF rest, n
      <3>4. n \in Nat /\ d \in 0..n /\ Len(rest) = 0  BY <2>3, <2>4, <3>3 DEF rest, n
      <3>5. Len(rest) = IF d + 1 <= n THEN n - (d + 1) + 1 ELSE 0  BY <3>2 DEF rest, n
      <3>6. d = n  BY <3>4, <3>5
      <3>. QED  BY <3>6 DEF n
    <2>6. Effect(disk, o, work)
      <3>1. CASE o.kind = "create" /\ target[t] = disk.lastProblem + 1
                 /\ work = WithSamples(Created(disk, o), target[t], o.samples, d)
        BY <2>5, <3>1 DEF Effect
      <3>2. CASE /\ o.kind = "update" /\ target[t] = o.problem /\ target[t] \in DOMAIN disk.problems
                 /\ o.samples # None
                 /\ work = WithSamples(Updated(disk, o), target[t], o.samples, d)
        BY <2>5, <3>2 DEF Effect
      <3>. QED  BY <2>1, <3>1, <3>2 DEF Inserting
    <2>. QED  BY <1>2, <2>6 DEF o
  <1>. QED  BY <1>1, <1>2, <1>3, <1>4

\* COMMIT keeps the invariant.
LEMMA CommitKeeps ==
    ASSUME CatalogInv, NEW t \in Clients, Commit(t)
    PROVE  CatalogInv'
  <1>1. /\ disk' = work /\ work' = work /\ inTx' = FALSE /\ mutex' = None
        /\ board' = board /\ settled' = settled /\ Reply(t, "Done")
    BY DEF Commit
  <1>2. mutex = t /\ OpFields(t, op[t]) /\ Effect(disk, op[t], work)  BY CommitEffect
  <1>3. Database(disk) /\ SamplesNumbered(disk)  BY DEF CatalogInv
  <1>4. Database(work) /\ SamplesNumbered(work)  BY <1>2, <1>3, EffectKeeps
  <1>5. Database(disk') /\ SamplesNumbered(disk') /\ work' = disk'  BY <1>1, <1>4
  <1>. QED  BY <1>1, <1>2, <1>5, EndKeeps

\* At the first statement of a transaction nothing is written yet.
LEMMA Untouched ==
    ASSUME CatalogInv, NEW t \in Clients, pc[t] = "begun"
    PROVE  mutex = t /\ work = disk /\ Database(disk) /\ OpFields(t, op[t])
  <1>1. mutex = t /\ OpFields(t, op[t]) /\ Written("begun", op[t], target[t], todo[t], disk, work)
    BY Inside DEF Places
  <1>2. work = disk  BY <1>1 DEF Written
  <1>. QED  BY <1>1, <1>2 DEF CatalogInv

\* INSERT INTO problems.
LEMMA CreateProblemKeeps ==
    ASSUME CatalogInv, NEW t \in Clients, CreateProblem(t)
    PROVE  CatalogInv'
  <1>. DEFINE o == op[t]
              id == work.lastProblem + 1
              db == [work EXCEPT !.lastProblem = id,
                                 !.problems = Put(@, id, [tag |-> op[t].tag, visible |-> op[t].visible])]
  <1>1. pc[t] = "begun" /\ o.kind = "create"  BY DEF CreateProblem, At
  <1>2. mutex = t /\ work = disk /\ Database(disk) /\ OpFields(t, o)  BY <1>1, Untouched
  <1>3. Write(t, db, "samples") /\ target' = [target EXCEPT ![t] = id] /\ todo' = [todo EXCEPT ![t] = o.samples]
    BY DEF CreateProblem
  <1>4. db = Created(disk, o) /\ id = disk.lastProblem + 1  BY <1>2 DEF Created, NewRow
  <1>. HIDE DEF o, id, db
  <1>5. /\ DOMAIN target' = Clients /\ DOMAIN todo' = Clients
        /\ target'[t] = id /\ todo'[t] = o.samples
    BY <1>3 DEF CatalogInv
  <1>6. o.tag \in Authors /\ o.visible \in BOOLEAN /\ o.samples \in TextLists  BY <1>1, <1>2 DEF OpFields, Authors
  <1>7. Database(db) /\ SamplesOf(db, id) = {}  BY <1>2, <1>4, <1>6, CreatedDatabase
  <1>8. WithSamples(db, id, o.samples, 0) = db  BY <1>7, NothingDeleted
  <1>9. o.samples \in Seq(Authors \X Nat)  BY <1>6 DEF TextLists
  <1>10. o.samples = SubSeq(o.samples, 0 + 1, Len(o.samples))
    <2>1. 0 + 1 = 1  OBVIOUS
    <2>. QED  BY <1>9, <2>1, SubSeqFull
  <1>11. Inserting(disk, o, id, o.samples, db, 0)  BY <1>1, <1>4, <1>8, <1>10 DEF Inserting
  <1>12. 0 \in 0..Len(o.samples)  BY <1>9
  <1>13. Written("samples", o, id, o.samples, disk, db)  BY <1>11, <1>12 DEF Written
  <1>14. Written("samples", op[t], target'[t], todo'[t], disk, db)  BY <1>5, <1>13 DEF o
  <1>. QED  BY <1>2, <1>3, <1>5, <1>14, WriteKeeps DEF Places

\* One INSERT of a sample.
LEMMA InsertSampleKeeps ==
    ASSUME CatalogInv, NEW t \in Clients, InsertSample(t)
    PROVE  CatalogInv'
  <1>. DEFINE o == op[t]
              p == target[t]
              rest == todo[t]
              id == work.lastCase + 1
              ord == Len(o.samples) - Len(rest)
              row == [problem |-> p, ord |-> ord, sample |-> TRUE, text |-> Head(rest)]
              db == [work EXCEPT !.lastCase = id, !.cases = Put(@, id, row)]
  <1>1. pc[t] = "samples" /\ rest # <<>>  BY DEF InsertSample
  <1>2. Write(t, db, "samples") /\ todo' = [todo EXCEPT ![t] = Tail(@)] /\ target' = target  BY DEF InsertSample
  <1>3. mutex = t /\ OpFields(t, o) /\ Written("samples", o, p, rest, disk, work)
    BY <1>1, Inside DEF Places
  <1>4. db = Inserted(work, p, ord, Head(rest))  BY DEF Inserted
  <1>. HIDE DEF o, p, rest, db
  <1>5. PICK d \in 0..Len(o.samples) : Inserting(disk, o, p, rest, work, d)  BY <1>3 DEF Written
  <1>6. Database(disk)  BY DEF CatalogInv
  <1>7. o.samples \in TextLists  BY <1>3, <1>5, <1>6, InsertingDatabase
  <1>8. o.samples \in Seq(Authors \X Nat) /\ Len(o.samples) \in Nat  BY <1>7 DEF TextLists
  <1>9. rest = SubSeq(o.samples, d + 1, Len(o.samples))  BY <1>5 DEF Inserting
  <1>10. Len(rest) = IF d + 1 <= Len(o.samples) THEN Len(o.samples) - (d + 1) + 1 ELSE 0
    <2>1. \A i \in (d + 1)..Len(o.samples) : o.samples[i] \in Authors \X Nat  BY <1>8
    <2>. QED  BY <1>8, <1>9, <2>1, SubSeqProperties
  <1>11. d < Len(o.samples)
    <2>1. SUFFICES ASSUME ~(d < Len(o.samples)) PROVE FALSE  OBVIOUS
    <2>2. Len(o.samples) < d + 1  BY <1>8, <2>1
    <2>3. rest = <<>>  BY <1>8, <1>9, <2>2, SubSeqEmpty
    <2>. QED  BY <1>1, <2>3
  <1>12. ord = d  BY <1>8, <1>10, <1>11
  <1>13. Head(rest) = o.samples[d + 1] /\ Tail(rest) = SubSeq(o.samples, d + 1 + 1, Len(o.samples))
    <2>1. d + 1 \in 1..Len(o.samples) /\ Len(o.samples) \in (d + 1)..Len(o.samples)  BY <1>8, <1>11
    <2>. QED  BY <1>8, <1>9, <2>1, HeadTailOfSubSeq
  <1>14. db = Inserted(work, p, d, o.samples[d + 1])  BY <1>4, <1>12, <1>13
  <1>. HIDE DEF ord
  <1>15. ASSUME NEW base, Database(base), work = WithSamples(base, p, o.samples, d)
         PROVE  db = WithSamples(base, p, o.samples, d + 1)
    <2>1. d \in Nat  OBVIOUS
    <2>2. Inserted(work, p, d, o.samples[d + 1]) = WithSamples(base, p, o.samples, d + 1)  BY <1>15, <2>1, OneInserted
    <2>. QED  BY <1>14, <2>2
  <1>16. Inserting(disk, o, p, Tail(rest), db, d + 1)
    <2>1. CASE o.kind = "create" /\ p = disk.lastProblem + 1 /\ work = WithSamples(Created(disk, o), p, o.samples, d)
      <3>1. Database(Created(disk, o))
        <4>1. o.tag \in Authors /\ o.visible \in BOOLEAN  BY <1>3, <2>1 DEF OpFields, Authors
        <4>. QED  BY <1>6, <4>1, CreatedDatabase
      <3>2. db = WithSamples(Created(disk, o), p, o.samples, d + 1)  BY <1>15, <2>1, <3>1
      <3>. QED  BY <1>13, <2>1, <3>2 DEF Inserting
    <2>2. CASE /\ o.kind = "update" /\ p = o.problem /\ p \in DOMAIN disk.problems
               /\ o.samples # None
               /\ work = WithSamples(Updated(disk, o), p, o.samples, d)
      <3>1. Database(Updated(disk, o))  BY <1>3, <1>6, <2>2, UpdatedDatabase
      <3>2. db = WithSamples(Updated(disk, o), p, o.samples, d + 1)  BY <1>15, <2>2, <3>1
      <3>. QED  BY <1>13, <2>2, <3>2 DEF Inserting
    <2>. QED  BY <1>5, <2>1, <2>2 DEF Inserting
  <1>17. d + 1 \in 0..Len(o.samples)  BY <1>8, <1>11
  <1>18. Written("samples", o, p, Tail(rest), disk, db)  BY <1>16, <1>17 DEF Written
  <1>19. /\ DOMAIN target' = Clients /\ DOMAIN todo' = Clients
         /\ target'[t] = p /\ todo'[t] = Tail(rest)
    BY <1>2 DEF CatalogInv, p, rest
  <1>20. Written("samples", op[t], target'[t], todo'[t], disk, db)  BY <1>18, <1>19 DEF o
  <1>. QED  BY <1>2, <1>3, <1>19, <1>20, WriteKeeps DEF Places

\* A statement that needs no list of samples.
LEMMA PlainWriteKeeps ==
    ASSUME CatalogInv, NEW t \in Clients, mutex = t, NEW db, NEW to \in Places \ {"samples"}, Write(t, db, to),
           target' = target, todo' = todo,
           Written(to, op[t], target[t], todo[t], disk, db)
    PROVE  CatalogInv'
  <1>1. DOMAIN target' = Clients /\ DOMAIN todo' = Clients  BY DEF CatalogInv
  <1>2. Written(to, op[t], target'[t], todo'[t], disk, db)  OBVIOUS
  <1>. QED  BY <1>1, <1>2, WriteKeeps

\* UPDATE problems.
LEMMA UpdateProblemKeeps ==
    ASSUME CatalogInv, NEW t \in Clients, UpdateProblem(t)
    PROVE  CatalogInv'
  <1>. DEFINE o == op[t]
  <1>1. pc[t] = "begun" /\ o.kind = "update"  BY DEF UpdateProblem, At
  <1>2. mutex = t /\ work = disk /\ Database(disk) /\ OpFields(t, o)  BY <1>1, Untouched
  <1>3. CASE o.problem \notin DOMAIN work.problems /\ Rollback(t, "NotFound")  BY <1>2, <1>3, RollbackKeeps
  <1>4. CASE /\ o.problem \in DOMAIN work.problems
             /\ Write(t, [work EXCEPT !.problems[o.problem] = merged(o, @)],
                      IF o.samples = None THEN "written" ELSE "replace")
             /\ UNCHANGED <<target, todo>>
    <2>. DEFINE to == IF o.samples = None THEN "written" ELSE "replace"
    <2>1. Write(t, Updated(disk, o), to) /\ target' = target /\ todo' = todo  BY <1>2, <1>4 DEF Updated
    <2>. HIDE DEF o
    <2>2. CASE o.samples = None
      <3>1. Effect(disk, o, Updated(disk, o))  BY <1>1, <1>2, <1>4, <2>2 DEF Effect
      <3>2. Written("written", o, target[t], todo[t], disk, Updated(disk, o))  BY <3>1 DEF Written
      <3>. QED  BY <1>2, <2>1, <2>2, <3>2, PlainWriteKeeps DEF Places, o
    <2>3. CASE o.samples # None
      <3>1. Written("replace", o, target[t], todo[t], disk, Updated(disk, o))  BY <1>1, <1>2, <1>4, <2>3 DEF Written
      <3>. QED  BY <1>2, <2>1, <2>3, <3>1, PlainWriteKeeps DEF Places, o
    <2>. QED  BY <2>2, <2>3
  <1>. QED  BY <1>3, <1>4 DEF UpdateProblem

\* DELETE of the samples that are replaced.
LEMMA ReplaceSamplesKeeps ==
    ASSUME CatalogInv, NEW t \in Clients, ReplaceSamples(t)
    PROVE  CatalogInv'
  <1>. DEFINE o == op[t]
              p == o.problem
              db == [work EXCEPT !.cases = Drop(@, SamplesOf(work, p))]
  <1>1. /\ pc[t] = "replace"
        /\ Write(t, db, "samples")
        /\ target' = [target EXCEPT ![t] = p] /\ todo' = [todo EXCEPT ![t] = o.samples]
    BY DEF ReplaceSamples
  <1>2. mutex = t /\ OpFields(t, o) /\ Written("replace", o, target[t], todo[t], disk, work)
    BY <1>1, Inside DEF Places
  <1>3. db = [work EXCEPT !.cases = Drop(work.cases, SamplesOf(work, p))]  OBVIOUS
  <1>. HIDE DEF o, p, db
  <1>4. o.kind = "update" /\ p \in DOMAIN disk.problems /\ o.samples # None /\ work = Updated(disk, o)
    BY <1>2 DEF Written, p
  <1>5. Database(disk)  BY DEF CatalogInv
  <1>6. Database(work)  BY DEF CatalogInv
  <1>7. o.samples \in TextLists  BY <1>2, <1>4 DEF OpFields
  <1>8. o.samples \in Seq(Authors \X Nat)  BY <1>7 DEF TextLists
  <1>9. db = WithSamples(work, p, o.samples, 0)  BY <1>3, <1>6, NoneInserted
  <1>10. o.samples = SubSeq(o.samples, 0 + 1, Len(o.samples))
    <2>1. 0 + 1 = 1  OBVIOUS
    <2>. QED  BY <1>8, <2>1, SubSeqFull
  <1>11. Inserting(disk, o, p, o.samples, db, 0)  BY <1>4, <1>9, <1>10 DEF Inserting, p
  <1>12. 0 \in 0..Len(o.samples)  BY <1>8
  <1>13. Written("samples", o, p, o.samples, disk, db)  BY <1>11, <1>12 DEF Written
  <1>14. /\ DOMAIN target' = Clients /\ DOMAIN todo' = Clients
         /\ target'[t] = p /\ todo'[t] = o.samples
    BY <1>1 DEF CatalogInv
  <1>15. Written("samples", op[t], target'[t], todo'[t], disk, db)  BY <1>13, <1>14 DEF o
  <1>. QED  BY <1>1, <1>2, <1>14, <1>15, WriteKeeps DEF Places

\* DELETE of the cases of a problem that nobody has submitted to.
LEMMA DeleteCasesKeeps ==
    ASSUME CatalogInv, NEW t \in Clients, DeleteCases(t)
    PROVE  CatalogInv'
  <1>. DEFINE o == op[t]
  <1>1. pc[t] = "begun" /\ o.kind = "delete"  BY DEF DeleteCases, At
  <1>2. mutex = t /\ work = disk /\ Database(disk) /\ OpFields(t, o)  BY <1>1, Untouched
  <1>3. CASE Rollback(t, "NotFound")  BY <1>2, <1>3, RollbackKeeps
  <1>4. CASE Rollback(t, "HasSubmissions")  BY <1>2, <1>4, RollbackKeeps
  <1>5. CASE /\ o.problem \in DOMAIN work.problems
             /\ \A s \in DOMAIN work.status : s[2] # o.problem
             /\ Write(t, [work EXCEPT !.cases = Drop(@, CasesOf(work, o.problem))], "emptied")
             /\ UNCHANGED <<target, todo>>
    <2>1. Write(t, Emptied(disk, o), "emptied") /\ target' = target /\ todo' = todo  BY <1>2, <1>5 DEF Emptied
    <2>2. Written("emptied", o, target[t], todo[t], disk, Emptied(disk, o))  BY <1>1, <1>2, <1>5 DEF Written
    <2>. QED  BY <1>2, <2>1, <2>2, PlainWriteKeeps DEF Places
  <1>. QED  BY <1>3, <1>4, <1>5 DEF DeleteCases

\* DELETE of the problem.
LEMMA DeleteProblemKeeps ==
    ASSUME CatalogInv, NEW t \in Clients, DeleteProblem(t)
    PROVE  CatalogInv'
  <1>. DEFINE o == op[t]
              db == [work EXCEPT !.problems = Drop(@, {o.problem})]
  <1>1. pc[t] = "emptied" /\ Write(t, db, "written") /\ target' = target /\ todo' = todo  BY DEF DeleteProblem
  <1>2. mutex = t /\ OpFields(t, o) /\ Written("emptied", o, target[t], todo[t], disk, work)
    BY <1>1, Inside DEF Places
  <1>3. /\ o.kind = "delete" /\ o.problem \in DOMAIN disk.problems
        /\ \A s \in DOMAIN disk.status : s[2] # o.problem
        /\ work = Emptied(disk, o)
    BY <1>2 DEF Written
  <1>4. db = Removed(disk, o)
    <2>1. Database(disk)  BY DEF CatalogInv
    <2>. DEFINE cases == Drop(disk.cases, CasesOf(disk, o.problem))
                left == Drop(disk.problems, {o.problem})
    <2>2. Removed(disk, o) = Record(left, cases, disk.lastProblem, disk.lastCase, disk.status)  BY <2>1, Columns
    <2>3. work = Record(disk.problems, cases, disk.lastProblem, disk.lastCase, disk.status)  BY <1>3, <2>1, Columns
    <2>4. work.problems = disk.problems  BY <2>3, RecordColumns
    <2>5. db = [work EXCEPT !.problems = left]  BY <2>4
    <2>. HIDE DEF cases, left, db
    <2>6. db = Record(left, cases, disk.lastProblem, disk.lastCase, disk.status)  BY <2>3, <2>5 DEF Record
    <2>. QED  BY <2>2, <2>6
  <1>. HIDE DEF db
  <1>5. Effect(disk, o, db)  BY <1>3, <1>4 DEF Effect
  <1>6. Written("written", o, target[t], todo[t], disk, db)  BY <1>5 DEF Written
  <1>. QED  BY <1>1, <1>2, <1>6, PlainWriteKeeps DEF Places

\* INSERT of a hidden case.
LEMMA CreateCaseKeeps ==
    ASSUME CatalogInv, NEW t \in Clients, CreateCase(t)
    PROVE  CatalogInv'
  <1>. DEFINE o == op[t]
              ord == Default(o.ord, NextOrd(work, o.problem))
              id == work.lastCase + 1
              db == [work EXCEPT !.lastCase = id,
                                 !.cases = Put(@, id, [problem |-> o.problem, ord |-> ord, sample |-> FALSE,
                                                       text |-> o.text])]
  <1>1. pc[t] = "begun" /\ o.kind = "addCase"  BY DEF CreateCase, At
  <1>2. mutex = t /\ work = disk /\ Database(disk) /\ OpFields(t, o)  BY <1>1, Untouched
  <1>3. CASE Rollback(t, "NotFound")  BY <1>2, <1>3, RollbackKeeps
  <1>4. CASE Rollback(t, "OrdExhausted")  BY <1>2, <1>4, RollbackKeeps
  <1>5. CASE /\ o.problem \in DOMAIN work.problems
             /\ OrdFits(ord)
             /\ Write(t, db, "written")
             /\ UNCHANGED <<target, todo>>
    <2>1. db = CaseAdded(disk, o)  BY <1>2 DEF CaseAdded, NewOrd
    <2>2. ord = NewOrd(disk, o)  BY <1>2 DEF NewOrd
    <2>. HIDE DEF db, ord
    <2>3. Effect(disk, o, db)  BY <1>1, <1>2, <1>5, <2>1, <2>2 DEF Effect
    <2>4. Written("written", o, target[t], todo[t], disk, db)  BY <2>3 DEF Written
    <2>. QED  BY <1>2, <1>5, <2>4, PlainWriteKeeps DEF Places
  <1>. QED  BY <1>3, <1>4, <1>5 DEF CreateCase

\* UPDATE of a hidden case.
LEMMA UpdateCaseKeeps ==
    ASSUME CatalogInv, NEW t \in Clients, UpdateCase(t)
    PROVE  CatalogInv'
  <1>. DEFINE o == op[t]
              db == [work EXCEPT !.cases[o.case] = changed(o, @)]
  <1>1. pc[t] = "begun" /\ o.kind = "changeCase"  BY DEF UpdateCase, At
  <1>2. mutex = t /\ work = disk /\ Database(disk) /\ OpFields(t, o)  BY <1>1, Untouched
  <1>3. CASE Rollback(t, "NotFound")  BY <1>2, <1>3, RollbackKeeps
  <1>4. CASE find_hidden(work, o) /\ Write(t, db, "written") /\ UNCHANGED <<target, todo>>
    <2>1. db = CaseChanged(disk, o)  BY <1>2 DEF CaseChanged
    <2>. HIDE DEF db
    <2>2. Effect(disk, o, db)  BY <1>1, <1>2, <1>4, <2>1 DEF Effect
    <2>3. Written("written", o, target[t], todo[t], disk, db)  BY <2>2 DEF Written
    <2>. QED  BY <1>2, <1>4, <2>3, PlainWriteKeeps DEF Places
  <1>. QED  BY <1>3, <1>4 DEF UpdateCase

\* DELETE of a hidden case.
LEMMA DeleteCaseKeeps ==
    ASSUME CatalogInv, NEW t \in Clients, DeleteCase(t)
    PROVE  CatalogInv'
  <1>. DEFINE o == op[t]
              db == [work EXCEPT !.cases = Drop(@, {o.case})]
  <1>1. pc[t] = "begun" /\ o.kind = "removeCase"  BY DEF DeleteCase, At
  <1>2. mutex = t /\ work = disk /\ Database(disk) /\ OpFields(t, o)  BY <1>1, Untouched
  <1>3. CASE Rollback(t, "NotFound")  BY <1>2, <1>3, RollbackKeeps
  <1>4. CASE find_hidden(work, o) /\ Write(t, db, "written") /\ UNCHANGED <<target, todo>>
    <2>1. db = CaseRemoved(disk, o)  BY <1>2 DEF CaseRemoved
    <2>. HIDE DEF db
    <2>2. Effect(disk, o, db)  BY <1>1, <1>2, <1>4, <2>1 DEF Effect
    <2>3. Written("written", o, target[t], todo[t], disk, db)  BY <2>2 DEF Written
    <2>. QED  BY <1>2, <1>4, <2>3, PlainWriteKeeps DEF Places
  <1>. QED  BY <1>3, <1>4 DEF DeleteCase

-----------------------------------------------------------------------------
(* Submissions and the leaderboard.                                        *)

WithStatus(db, u, p, v) == [db EXCEPT !.status = Put(db.status, <<u, p>>, v)]

\* A row of user_problem_status for a problem that exists.
LEMMA SettledDatabase ==
    ASSUME NEW db, Database(db), NEW u \in Users, NEW p \in DOMAIN db.problems, NEW v,
           NEW x, x = WithStatus(db, u, p, v)
    PROVE  /\ Database(x)
           /\ x.problems = db.problems /\ x.cases = db.cases
           /\ x.lastProblem = db.lastProblem /\ x.lastCase = db.lastCase
           /\ DOMAIN x.status = DOMAIN db.status \cup {<<u, p>>}
           /\ SamplesNumbered(db) => SamplesNumbered(x)
  <1>. DEFINE status == Put(db.status, <<u, p>>, v)
  <1>1. DOMAIN status = DOMAIN db.status \cup {<<u, p>>}  BY DEF Put
  <1>2. /\ Consistent(db.problems, db.cases, db.lastProblem, db.lastCase, db.status)
        /\ db = Record(db.problems, db.cases, db.lastProblem, db.lastCase, db.status)
    BY DatabaseColumns
  <1>. HIDE DEF status
  <1>3. x = Record(db.problems, db.cases, db.lastProblem, db.lastCase, status)  BY <1>2 DEF Record, status, WithStatus
  <1>4. Consistent(db.problems, db.cases, db.lastProblem, db.lastCase, status)  BY <1>1, <1>2 DEF Consistent
  <1>5. Database(x)  BY <1>3, <1>4, RecordDatabase
  <1>6. /\ x.problems = db.problems /\ x.cases = db.cases
        /\ x.lastProblem = db.lastProblem /\ x.lastCase = db.lastCase /\ x.status = status
    BY <1>3, RecordColumns
  <1>7. \A q, n : Numbered(x, q, n) <=> Numbered(db, q, n)  BY <1>6 DEF Numbered, SamplesOf, CasesOf
  <1>8. SamplesNumbered(db) => SamplesNumbered(x)  BY <1>6, <1>7 DEF SamplesNumbered
  <1>. QED  BY <1>1, <1>5, <1>6, <1>8

\* What settling a submission writes, in the same transaction.
LEMMA SettleWrites ==
    ASSUME NEW u \in Users, NEW p \in 1..MaxId, NEW solved \in BOOLEAN, Settle(u, p, solved)
    PROVE  /\ settled < MaxSettled /\ mutex = None /\ ~inTx /\ p \in DOMAIN work.problems
           /\ disk' = work' /\ settled' = settled + 1
           /\ inTx' = inTx /\ mutex' = mutex /\ pc' = pc /\ op' = op /\ target' = target /\ todo' = todo
           /\ answer' = answer /\ board' = board
           /\ \E v : work' = WithStatus(work, u, p, v)
  <1>0. /\ settled < MaxSettled /\ mutex = None /\ ~inTx /\ p \in DOMAIN work.problems
        /\ disk' = work' /\ settled' = settled + 1
        /\ UNCHANGED <<inTx, mutex, pc, clientVars, board>>
        /\ \E v : work' = WithStatus(work, u, p, v)
    <2>. DEFINE old == IF <<u, p>> \in DOMAIN work.status THEN work.status[<<u, p>>] ELSE [count |-> 0, first |-> None]
                new == [count |-> old.count + 1,
                        first |-> IF solved /\ old.first = None THEN settled + 1 ELSE old.first]
    <2>1. /\ settled < MaxSettled /\ mutex = None /\ ~inTx /\ p \in DOMAIN work.problems
          /\ disk' = work' /\ settled' = settled + 1
          /\ UNCHANGED <<inTx, mutex, pc, clientVars, board>>
          /\ work' = [work EXCEPT !.status = Put(@, <<u, p>>, new)]
      BY Zenon DEF Settle
    <2>. HIDE DEF new
    <2>2. work' = WithStatus(work, u, p, new)  BY <2>1 DEF WithStatus
    <2>. QED  BY <2>1, <2>2
  <1>. QED  BY <1>0 DEF clientVars

\* A submission is settled when no transaction is open.
LEMMA SettleKeeps ==
    ASSUME CatalogInv, NEW u \in Users, NEW p \in 1..MaxId, NEW solved \in BOOLEAN, Settle(u, p, solved)
    PROVE  CatalogInv'
  <1>1. /\ settled < MaxSettled /\ mutex = None /\ ~inTx /\ p \in DOMAIN work.problems
        /\ disk' = work' /\ settled' = settled + 1
        /\ inTx' = inTx /\ mutex' = mutex /\ pc' = pc /\ op' = op /\ target' = target /\ todo' = todo
        /\ answer' = answer /\ board' = board
    BY SettleWrites
  <1>2. PICK v : work' = WithStatus(work, u, p, v)  BY SettleWrites
  <1>3. \A s \in Clients \cup Boards : mutex # s  BY <1>1, CatalogAssumption
  <1>4. work = disk  BY <1>3 DEF CatalogInv, WorkInv
  <1>5. Database(work) /\ SamplesNumbered(work)  BY <1>4 DEF CatalogInv
  <1>6. Database(work') /\ SamplesNumbered(work')  BY <1>1, <1>2, <1>5, SettledDatabase
  <1>7. Database(disk') /\ SamplesNumbered(disk')  BY <1>1, <1>6
  <1>8. CatalogTypeOK'
    <2>1. Tables(work') /\ Tables(disk')  BY <1>6, <1>7 DEF Database
    <2>2. CatalogTypeOK  BY DEF CatalogInv
    <2>3. settled' \in 0..MaxSettled  BY <1>1, <2>2, CatalogAssumption DEF CatalogTypeOK
    <2>. QED  BY <1>1, <2>1, <2>2, <2>3 DEF CatalogTypeOK
  <1>9. LockInv' /\ AnswerInv'
    <2>1. LockInv /\ AnswerInv  BY DEF CatalogInv
    <2>2. LockInv'  BY <1>1, <2>1 DEF LockInv
    <2>3. AnswerInv'  BY <1>1, <2>1 DEF AnswerInv
    <2>. QED  BY <2>2, <2>3
  <1>10. WorkInv'  BY <1>1, <1>3 DEF WorkInv
  <1>11. BoardInv'
    <2>1. \A b \in Boards : pc[b] # "counted"  BY <1>3 DEF CatalogInv, LockInv
    <2>. QED  BY <1>1, <2>1 DEF CatalogInv, BoardInv
  <1>. QED  BY <1>1, <1>6, <1>7, <1>8, <1>9, <1>10, <1>11 DEF CatalogInv

\* The smaller of two numbers.
LEMMA MinOfTwo ==
    ASSUME NEW a \in Int, NEW b \in Int
    PROVE  Min({a, b}) = IF a <= b THEN a ELSE b
  <1>. DEFINE m == IF a <= b THEN a ELSE b
  <1>1. m \in {a, b} /\ \A y \in {a, b} : m <= y  OBVIOUS
  <1>2. \A x \in {a, b} : (\A y \in {a, b} : x <= y) => x = m  OBVIOUS
  <1>. HIDE DEF m
  <1>3. Min({a, b}) = CHOOSE x \in {a, b} : \A y \in {a, b} : x <= y  BY DEF Min
  <1>4. Min({a, b}) = m  BY <1>1, <1>2, <1>3
  <1>. QED  BY <1>4 DEF m

\* What is sorted is a list of as many elements.
LEMMA SortedLength ==
    ASSUME NEW S, IsFiniteSet(S), NEW R
    PROVE  Len(Sorted(S, R)) = Cardinality(S) /\ Cardinality(S) \in Nat
  <1>. DEFINE n == Cardinality(S)
              e == Sorted(S, R)
              T == {e[i] : i \in 1..n}
  <1>1. n \in Nat  BY FS_CardinalityType
  <1>2. DOMAIN e = 1..n /\ e = [i \in DOMAIN e |-> e[i]]
    <2>. DEFINE at(i) == CHOOSE x \in S : Cardinality({y \in S : <<y, x>> \in R}) = i - 1
    <2>1. e = [i \in 1..n |-> at(i)]  BY DEF Sorted
    <2>. HIDE DEF at, e, n
    <2>. QED  BY <2>1
  <1>. HIDE DEF n, e
  <1>3. e \in [1..n -> T]  BY <1>2
  <1>. HIDE DEF T
  <1>4. e \in Seq(T)  BY <1>1, <1>3, SeqDef
  <1>5. Len(e) \in Nat /\ DOMAIN e = 1..Len(e)  BY <1>4, LenProperties
  <1>6. Len(e) = n  BY <1>1, <1>2, <1>5
  <1>. QED  BY <1>1, <1>6 DEF n, e

\* A page is full, or it has what is left of the list.
LEMMA PageLength ==
    ASSUME NEW seq, Len(seq) \in Nat, NEW page \in Nat \ {0}, NEW offset, offset = (page - 1) * PageSize
    PROVE  /\ offset \in Nat
           /\ Page(seq, page) = SubSeq(seq, offset + 1, Min({offset + PageSize, Len(seq)}))
           /\ Len(Page(seq, page)) = IF Len(seq) - offset < 0 THEN 0 ELSE Min({Len(seq) - offset, PageSize})
  <1>. DEFINE n == Len(seq)
              upto == Min({offset + PageSize, n})
              T == {seq[i] : i \in (offset + 1)..upto}
  <1>1. PageSize \in Nat \ {0}  BY CatalogAssumption
  <1>2. offset \in Nat
    <2>1. page - 1 \in Nat  OBVIOUS
    <2>2. \A a, b \in Nat : a * b \in Nat  OBVIOUS
    <2>. QED  BY <1>1, <2>1, <2>2
  <1>3. Page(seq, page) = SubSeq(seq, offset + 1, upto)  BY DEF Page
  <1>. HIDE DEF n
  <1>4. n \in Nat  BY DEF n
  <1>5. upto = IF offset + PageSize <= n THEN offset + PageSize ELSE n  BY <1>1, <1>2, <1>4, MinOfTwo
  <1>6. Min({n - offset, PageSize}) = IF n - offset <= PageSize THEN n - offset ELSE PageSize
    BY <1>1, <1>2, <1>4, MinOfTwo
  <1>. HIDE DEF upto
  <1>7. upto \in Nat  BY <1>1, <1>2, <1>4, <1>5
  <1>8. \A i \in (offset + 1)..upto : seq[i] \in T  OBVIOUS
  <1>. HIDE DEF T
  <1>9. Len(SubSeq(seq, offset + 1, upto)) = IF offset + 1 <= upto THEN upto - (offset + 1) + 1 ELSE 0
    BY <1>2, <1>7, <1>8, SubSeqProperties
  <1>10. Len(Page(seq, page)) = IF offset + 1 <= upto THEN upto - (offset + 1) + 1 ELSE 0  BY <1>3, <1>9
  <1>11. (IF offset + 1 <= upto THEN upto - (offset + 1) + 1 ELSE 0)
           = IF n - offset < 0 THEN 0 ELSE IF n - offset <= PageSize THEN n - offset ELSE PageSize
    BY <1>1, <1>2, <1>4, <1>5, <1>7
  <1>12. Len(Page(seq, page)) = IF n - offset < 0 THEN 0 ELSE Min({n - offset, PageSize})
    BY <1>6, <1>10, <1>11
  <1>. QED  BY <1>2, <1>3, <1>12 DEF n, upto

\* The leaderboard ranks finitely many users.
LEMMA RankedLength ==
    ASSUME NEW db PROVE Len(Ranked(db)) \in Nat
  <1>. DEFINE listed == {u \in Users : Submits(db, u) > 0}
              R == {q \in listed \X listed : Before(db, q[1], q[2])}
  <1>1. Ranked(db) = Sorted(listed, R)  BY DEF Ranked
  <1>2. listed \subseteq Users  OBVIOUS
  <1>. HIDE DEF listed, R
  <1>3. IsFiniteSet(listed)  BY <1>2, CatalogAssumption, FS_Subset
  <1>. QED  BY <1>1, <1>3, SortedLength

\* A leaderboard request takes the mutex.
LEMMA BoardBeginKeeps ==
    ASSUME CatalogInv, NEW b \in Boards, BoardBegin(b)
    PROVE  CatalogInv'
  <1>1. /\ pc[b] = "idle" /\ pc' = [pc EXCEPT ![b] = "begun"]
        /\ mutex = None /\ mutex' = b /\ inTx' = TRUE
        /\ work' = work /\ disk' = disk
        /\ op' = op /\ target' = target /\ todo' = todo /\ answer' = answer /\ settled' = settled
    BY DEF BoardBegin, begin, Goto, clientVars
  <1>2. PICK page \in 1..Cardinality(Users) : board' = [board EXCEPT ![b].page = page]  BY DEF BoardBegin
  <1>3. page \in Nat \ {0}
    <2>1. Cardinality(Users) \in Nat  BY CatalogAssumption, FS_CardinalityType
    <2>. QED  BY <2>1
  <1>4. /\ b \notin Clients /\ b # None
        /\ \A s \in Clients \cup Boards : mutex # s
    BY <1>1, CatalogAssumption
  <1>5. /\ pc'[b] = "begun"
        /\ \A s \in Clients \cup Boards : s # b => pc'[s] = pc[s]
    BY <1>1 DEF CatalogInv, CatalogTypeOK
  <1>6. CatalogTypeOK'
    <2>1. CatalogTypeOK  BY DEF CatalogInv
    <2>2. pc' \in [Clients \cup Boards -> {"idle", "rejected", "begun", "samples", "replace", "emptied",
                                           "written", "counted", "answered"}]
      BY <1>1, <2>1 DEF CatalogTypeOK
    <2>3. mutex' \in Clients \cup Boards \cup {None} /\ inTx' \in BOOLEAN  BY <1>1
    <2>. QED  BY <1>1, <2>1, <2>2, <2>3 DEF CatalogTypeOK
  <1>7. LockInv'
    <2>1. \A s \in Clients : s # b /\ pc'[s] \in {"idle", "rejected", "answered"} /\ op'[s] = NoOp
      BY <1>1, <1>4, <1>5 DEF CatalogInv, LockInv
    <2>2. \A c \in Boards : c # b => pc'[c] \in {"idle", "answered"}  BY <1>4, <1>5 DEF CatalogInv, LockInv
    <2>3. inTx' = (mutex' # None)  BY <1>1, <1>4
    <2>. QED  BY <1>1, <1>5, <2>1, <2>2, <2>3 DEF LockInv
  <1>8. AnswerInv'
    <2>1. \A s \in Clients : pc'[s] = pc[s]  BY <1>4, <1>5
    <2>. QED  BY <1>1, <2>1 DEF CatalogInv, AnswerInv
  <1>9. WorkInv'
    <2>1. work = disk  BY <1>4 DEF CatalogInv, WorkInv
    <2>2. \A s \in Clients : mutex' # s  BY <1>1, <1>4
    <2>. QED  BY <1>1, <2>1, <2>2 DEF WorkInv
  <1>10. BoardInv' /\ DOMAIN board' = Boards
    <2>1. DOMAIN board = Boards /\ BoardInv  BY DEF CatalogInv
    <2>2. DOMAIN board' = Boards /\ (\A c \in Boards : c # b => board'[c] = board[c])
          /\ board'[b] = [board[b] EXCEPT !.page = page]
      BY <1>2, <2>1
    <2>3. board[b] = [page |-> board[b].page, total |-> board[b].total, items |-> board[b].items]
      BY <2>1 DEF BoardInv
    <2>4. /\ board'[b] = [page |-> board'[b].page, total |-> board'[b].total, items |-> board'[b].items]
          /\ board'[b].page = page
      BY <2>2, <2>3
    <2>5. \A c \in Boards : pc'[c] # "counted"  BY <1>4, <1>5 DEF CatalogInv, LockInv
    <2>. QED  BY <1>1, <1>3, <1>5, <2>1, <2>2, <2>4, <2>5 DEF BoardInv
  <1>. QED  BY <1>1, <1>6, <1>7, <1>8, <1>9, <1>10 DEF CatalogInv

\* Who is inside the read transaction holds the mutex.
LEMMA BoardInside ==
    ASSUME CatalogInv, NEW b \in Boards, pc[b] \in {"begun", "counted"} \/ mutex = b
    PROVE  /\ mutex = b /\ b \notin Clients /\ b # None /\ inTx /\ work = disk
           /\ \A s \in Clients \cup Boards : s # b => mutex # s
           /\ \A s \in Clients : pc[s] \in {"idle", "rejected", "answered"} /\ op[s] = NoOp
           /\ \A c \in Boards : c # b => pc[c] \in {"idle", "answered"}
  <1>1. LockInv /\ WorkInv  BY DEF CatalogInv
  <1>2. mutex = b /\ b \notin Clients /\ b # None  BY <1>1, CatalogAssumption DEF LockInv
  <1>3. \A s \in Clients \cup Boards : s # b => mutex # s  BY <1>2
  <1>4. work = disk /\ inTx  BY <1>1, <1>2 DEF LockInv, WorkInv
  <1>5. \A s \in Clients : pc[s] \in {"idle", "rejected", "answered"} /\ op[s] = NoOp  BY <1>1, <1>2 DEF LockInv
  <1>6. \A c \in Boards : c # b => pc[c] \in {"idle", "answered"}  BY <1>1, <1>2 DEF LockInv
  <1>. QED  BY <1>2, <1>3, <1>4, <1>5, <1>6

\* A step of a leaderboard request after the first one changes its own row only.
LEMMA BoardStepKeeps ==
    ASSUME CatalogInv, NEW b \in Boards, mutex = b,
           NEW to \in {"counted", "idle", "answered"}, pc' = [pc EXCEPT ![b] = to],
           UNCHANGED <<work, disk, clientVars, settled>>,
           IF to = "counted" THEN mutex' = mutex /\ inTx' = inTx ELSE mutex' = None /\ inTx' = FALSE,
           NEW entry, board' = [board EXCEPT ![b] = entry],
           entry = [page |-> entry.page, total |-> entry.total, items |-> entry.items],
           entry.page \in Nat \ {0},
           to = "counted" => entry.total = Len(Ranked(work)),
           to = "answered" => Fits(entry)
    PROVE  CatalogInv'
  <1>1. /\ work' = work /\ disk' = disk
        /\ op' = op /\ target' = target /\ todo' = todo /\ answer' = answer /\ settled' = settled
    BY DEF clientVars
  <1>2. /\ b \notin Clients /\ b # None /\ inTx /\ work = disk
        /\ \A s \in Clients \cup Boards : s # b => mutex # s
        /\ \A s \in Clients : pc[s] \in {"idle", "rejected", "answered"} /\ op[s] = NoOp
        /\ \A c \in Boards : c # b => pc[c] \in {"idle", "answered"}
    BY BoardInside
  <1>3. /\ pc'[b] = to
        /\ \A s \in Clients \cup Boards : s # b => pc'[s] = pc[s]
    BY DEF CatalogInv, CatalogTypeOK
  <1>4. CatalogTypeOK'
    <2>1. CatalogTypeOK  BY DEF CatalogInv
    <2>2. pc' \in [Clients \cup Boards -> {"idle", "rejected", "begun", "samples", "replace", "emptied",
                                           "written", "counted", "answered"}]
      BY <2>1 DEF CatalogTypeOK
    <2>3. mutex' \in Clients \cup Boards \cup {None} /\ inTx' \in BOOLEAN  BY <2>1 DEF CatalogTypeOK
    <2>. QED  BY <1>1, <2>1, <2>2, <2>3 DEF CatalogTypeOK
  <1>5. LockInv'
    <2>1. \A s \in Clients : mutex' # s  BY <1>2, CatalogAssumption
    <2>2. \A s \in Clients : pc'[s] \in {"idle", "rejected", "answered"} /\ op'[s] = NoOp  BY <1>1, <1>2, <1>3
    <2>3. \A c \in Boards : c # b => mutex' # c /\ pc'[c] \in {"idle", "answered"}  BY <1>2, <1>3, CatalogAssumption
    <2>4. IF mutex' = b THEN pc'[b] \in {"begun", "counted"} ELSE pc'[b] \in {"idle", "answered"}
      BY <1>2, <1>3
    <2>5. inTx' = (mutex' # None)
      <3>1. CASE to = "counted"  BY <1>2, <3>1
      <3>2. CASE to # "counted"  BY <3>2
      <3>. QED  BY <3>1, <3>2
    <2>. QED  BY <2>1, <2>2, <2>3, <2>4, <2>5 DEF LockInv
  <1>6. AnswerInv'
    <2>1. \A s \in Clients : pc'[s] = pc[s]  BY <1>2, <1>3
    <2>. QED  BY <1>1, <2>1 DEF CatalogInv, AnswerInv
  <1>7. WorkInv'
    <2>1. \A s \in Clients : mutex' # s  BY <1>2, CatalogAssumption
    <2>. QED  BY <1>1, <1>2, <2>1 DEF WorkInv
  <1>8. BoardInv' /\ DOMAIN board' = Boards
    <2>1. DOMAIN board = Boards /\ BoardInv  BY DEF CatalogInv
    <2>2. DOMAIN board' = Boards /\ (\A c \in Boards : c # b => board'[c] = board[c]) /\ board'[b] = entry
      BY <2>1
    <2>3. \A c \in Boards : c # b => pc'[c] = pc[c]  BY <1>3
    <2>. QED  BY <1>1, <1>3, <2>1, <2>2, <2>3 DEF BoardInv
  <1>. QED  BY <1>1, <1>4, <1>5, <1>6, <1>7, <1>8 DEF CatalogInv

\* SELECT COUNT, the page, and a failure.
LEMMA BoardKeeps ==
    ASSUME CatalogInv, NEW b \in Boards, BoardCount(b) \/ BoardPage(b) \/ BoardFail(b)
    PROVE  CatalogInv'
  <1>1. /\ DOMAIN board = Boards
        /\ board[b] = [page |-> board[b].page, total |-> board[b].total, items |-> board[b].items]
        /\ board[b].page \in Nat \ {0}
        /\ pc[b] = "counted" => board[b].total = Len(Ranked(work))
    BY DEF CatalogInv, BoardInv
  <1>2. CASE BoardCount(b)
    <2>. DEFINE entry == [page |-> board[b].page, total |-> Len(Ranked(work)), items |-> board[b].items]
    <2>1. /\ pc[b] = "begun" /\ pc' = [pc EXCEPT ![b] = "counted"]
          /\ board' = [board EXCEPT ![b].total = Len(Ranked(work))]
          /\ UNCHANGED <<work, disk, clientVars, settled>> /\ mutex' = mutex /\ inTx' = inTx
      BY <1>2 DEF BoardCount, Goto, dbVars
    <2>2. mutex = b  BY <2>1, BoardInside
    <2>3. board' = [board EXCEPT ![b] = entry]
      <3>1. [board[b] EXCEPT !.total = Len(Ranked(work))] = entry  BY <1>1
      <3>. HIDE DEF entry
      <3>. QED  BY <1>1, <2>1, <3>1
    <2>4. entry.page = board[b].page /\ entry.total = Len(Ranked(work)) /\ entry.items = board[b].items  OBVIOUS
    <2>5. entry = [page |-> entry.page, total |-> entry.total, items |-> entry.items]  OBVIOUS
    <2>. HIDE DEF entry
    <2>. QED  BY <1>1, <2>1, <2>2, <2>3, <2>4, <2>5, BoardStepKeeps
  <1>3. CASE BoardFail(b)
    <2>1. /\ mutex = b /\ pc' = [pc EXCEPT ![b] = "idle"] /\ board' = [board EXCEPT ![b] = NoPage]
          /\ UNCHANGED <<work, disk, clientVars, settled>> /\ mutex' = None /\ inTx' = FALSE
      BY <1>3 DEF BoardFail, Goto
    <2>2. /\ NoPage = [page |-> NoPage.page, total |-> NoPage.total, items |-> NoPage.items]
          /\ NoPage.page \in Nat \ {0}
      BY DEF NoPage
    <2>. QED  BY <2>1, <2>2, BoardStepKeeps
  <1>4. CASE BoardPage(b)
    <2>. DEFINE items == Page(Ranked(work), board[b].page)
                entry == [page |-> board[b].page, total |-> board[b].total, items |-> items]
    <2>1. /\ pc[b] = "counted" /\ pc' = [pc EXCEPT ![b] = "answered"]
          /\ board' = [board EXCEPT ![b].items = items]
          /\ UNCHANGED <<work, disk, clientVars, settled>>
          /\ mutex' = (IF mutex = b THEN None ELSE mutex) /\ inTx' = (IF mutex = b THEN FALSE ELSE inTx)
      BY <1>4 DEF BoardPage, Goto
    <2>2. mutex = b  BY <2>1, BoardInside
    <2>3. board' = [board EXCEPT ![b] = entry]
      <3>1. [board[b] EXCEPT !.items = items] = entry  BY <1>1
      <3>. HIDE DEF entry, items
      <3>. QED  BY <1>1, <2>1, <3>1
    <2>4. entry.page = board[b].page /\ entry.total = board[b].total /\ entry.items = items  OBVIOUS
    <2>5. entry = [page |-> entry.page, total |-> entry.total, items |-> entry.items]  OBVIOUS
    <2>. HIDE DEF entry
    <2>6. Fits(entry)
      <3>. DEFINE offset == (board[b].page - 1) * PageSize
                  n == Len(Ranked(work))
      <3>1. n \in Nat  BY RankedLength
      <3>2. Len(items) = IF n - offset < 0 THEN 0 ELSE Min({n - offset, PageSize})
        <4>. HIDE DEF offset
        <4>1. offset = (board[b].page - 1) * PageSize  BY DEF offset
        <4>. QED  BY <1>1, <3>1, <4>1, PageLength
      <3>3. entry.total = n  BY <1>1, <2>1, <2>4
      <3>. HIDE DEF items, n
      <3>. QED  BY <2>4, <3>2, <3>3 DEF Fits
    <2>. QED  BY <1>1, <2>1, <2>2, <2>3, <2>4, <2>5, <2>6, BoardStepKeeps
  <1>. QED  BY <1>2, <1>3, <1>4

-----------------------------------------------------------------------------
(* The invariant holds.                                                    *)

\* The invariant is kept by every step of a request of an administrator.
LEMMA ClientKeeps ==
    ASSUME CatalogInv, NEW t \in Clients, ClientNext(t)
    PROVE  CatalogInv'
  <1>1. CASE Fail(t)
    <2>1. mutex = t /\ Rollback(t, "Failed")  BY <1>1 DEF Fail
    <2>. QED  BY <2>1, RollbackKeeps
  <1>. QED  BY <1>1, RejectKeeps, BeginKeeps, CommitKeeps, CreateProblemKeeps, UpdateProblemKeeps, ReplaceSamplesKeeps,
              InsertSampleKeeps, DeleteCasesKeeps, DeleteProblemKeeps, CreateCaseKeeps, UpdateCaseKeeps, DeleteCaseKeeps
           DEF ClientNext

\* Every step keeps the invariant.
LEMMA NextKeeps ==
    ASSUME CatalogInv, [Next]_vars
    PROVE  CatalogInv'
  <1>1. CASE UNCHANGED vars
    <2>1. /\ work' = work /\ disk' = disk /\ inTx' = inTx /\ mutex' = mutex /\ pc' = pc /\ op' = op /\ target' = target
          /\ todo' = todo /\ answer' = answer /\ board' = board /\ settled' = settled
      BY <1>1 DEF vars, dbVars, clientVars
    <2>2. CatalogTypeOK /\ LockInv /\ AnswerInv /\ WorkInv /\ BoardInv  BY DEF CatalogInv
    <2>3. CatalogTypeOK'  BY <2>1, <2>2 DEF CatalogTypeOK
    <2>4. LockInv'  BY <2>1, <2>2 DEF LockInv
    <2>5. AnswerInv'  BY <2>1, <2>2 DEF AnswerInv
    <2>6. WorkInv'  BY <2>1, <2>2 DEF WorkInv
    <2>7. BoardInv'  BY <2>1, <2>2 DEF BoardInv
    <2>. QED  BY <2>1, <2>3, <2>4, <2>5, <2>6, <2>7 DEF CatalogInv
  <1>2. CASE \E t \in Clients : ClientNext(t)  BY <1>2, ClientKeeps
  <1>3. CASE \E u \in Users, p \in 1..MaxId, solved \in BOOLEAN : Settle(u, p, solved)  BY <1>3, SettleKeeps
  <1>4. CASE \E b \in Boards : BoardBegin(b) \/ BoardCount(b) \/ BoardPage(b) \/ BoardFail(b)
    BY <1>4, BoardBeginKeeps, BoardKeeps
  <1>. QED  BY <1>1, <1>2, <1>3, <1>4 DEF Next

\* In every reachable state the tables are consistent, only the holder of the mutex
\* is inside a transaction, and what the connection shows differs from what is
\* committed by the statements that the holder has executed for its request
\* (problem_admin.cpp, testcase_admin.cpp, leaderboard.cpp).
THEOREM CatalogInvariant == Spec => []CatalogInv
  <1>1. Init => CatalogInv  BY InitInv
  <1>2. CatalogInv /\ [Next]_vars => CatalogInv'  BY NextKeeps
  <1>. QED  BY <1>1, <1>2, PTL DEF Spec

\* Whatever way a transaction ends, when the mutex is free none is open and nothing
\* uncommitted is left for the next one; the rows keep their foreign keys and ranges
\* also between two statements.
THEOREM TransactionsEnd == Spec => []TransactionEnds
  <1>1. CatalogInv => TransactionEnds
    <2>1. SUFFICES ASSUME CatalogInv PROVE TransactionEnds  OBVIOUS
    <2>2. ASSUME mutex = None PROVE ~inTx /\ work = disk
      <3>1. mutex \notin Clients  BY <2>2, CatalogAssumption
      <3>. QED  BY <2>1, <2>2, <3>1 DEF CatalogInv, LockInv, WorkInv
    <2>. QED  BY <2>1, <2>2 DEF TransactionEnds, CatalogInv
  <1>. QED  BY <1>1, CatalogInvariant, PTL

\* A page of the leaderboard has the rows that its total says.
THEOREM BoardIsConsistent == Spec => []BoardConsistent
  <1>1. CatalogInv => BoardConsistent  BY DEF CatalogInv, BoardInv, BoardConsistent, Fits
  <1>. QED  BY <1>1, CatalogInvariant, PTL

-----------------------------------------------------------------------------
(* The promise: what a transaction does to the catalog.                    *)

HiddenView(db, p) == [k \in HiddenOf(db, p) |-> [ord |-> db.cases[k].ord, text |-> db.cases[k].text]]

View(db, p) == [tag |-> db.problems[p].tag, visible |-> db.problems[p].visible,
                samples |-> list_samples(db, p), hidden |-> HiddenView(db, p)]

CatalogOf(db) == [p \in DOMAIN db.problems |-> View(db, p)]

\* The fields of a view.
LEMMA ViewFields ==
    ASSUME NEW db, NEW p, NEW v, v = View(db, p)
    PROVE  /\ v = [tag |-> v.tag, visible |-> v.visible, samples |-> v.samples, hidden |-> v.hidden]
           /\ v.tag = db.problems[p].tag
           /\ v.visible = db.problems[p].visible
           /\ v.samples = list_samples(db, p)
           /\ v.hidden = HiddenView(db, p)
  BY DEF View

\* The hidden cases of a view.
LEMMA HiddenFields ==
    ASSUME NEW db, NEW p
    PROVE  /\ DOMAIN HiddenView(db, p) = HiddenOf(db, p)
           /\ HiddenView(db, p) = [k \in HiddenOf(db, p) |-> HiddenView(db, p)[k]]
           /\ \A k \in HiddenOf(db, p) :
                HiddenView(db, p)[k] = [ord |-> db.cases[k].ord, text |-> db.cases[k].text]
  BY DEF HiddenView

\* The catalog as a function.
LEMMA CatalogFields ==
    ASSUME NEW db
    PROVE  /\ DOMAIN CatalogOf(db) = DOMAIN db.problems
           /\ CatalogOf(db) = [p \in DOMAIN db.problems |-> CatalogOf(db)[p]]
           /\ \A p \in DOMAIN db.problems : CatalogOf(db)[p] = View(db, p)
  <1>. HIDE DEF View
  <1>. QED  BY DEF CatalogOf

\* The hidden cases look the same when they are.
LEMMA KeptHidden ==
    ASSUME NEW new, NEW db, NEW q, HiddenOf(new, q) = HiddenOf(db, q),
           \A k \in HiddenOf(db, q) : new.cases[k] = db.cases[k]
    PROVE  HiddenView(new, q) = HiddenView(db, q)
  <1>1. ASSUME NEW k \in HiddenOf(db, q) PROVE HiddenView(new, q)[k] = HiddenView(db, q)[k]
    <2>1. HiddenView(new, q)[k] = [ord |-> new.cases[k].ord, text |-> new.cases[k].text]  BY HiddenFields
    <2>2. HiddenView(db, q)[k] = [ord |-> db.cases[k].ord, text |-> db.cases[k].text]  BY HiddenFields
    <2>. QED  BY <2>1, <2>2
  <1>2. HiddenView(new, q) = [k \in HiddenOf(db, q) |-> HiddenView(new, q)[k]]  BY HiddenFields
  <1>3. HiddenView(db, q) = [k \in HiddenOf(db, q) |-> HiddenView(db, q)[k]]  BY HiddenFields
  <1>. QED  BY <1>1, <1>2, <1>3

\* So does a problem for which nothing has changed.
LEMMA KeptView ==
    ASSUME NEW new, NEW db, Database(db), NEW q, Kept(new, db, q), new.problems[q] = db.problems[q]
    PROVE  View(new, q) = View(db, q)
  <1>1. SamplesOf(db, q) \subseteq CasesOf(db, q) /\ HiddenOf(db, q) \subseteq CasesOf(db, q)
    BY DEF SamplesOf, HiddenOf
  <1>2. list_samples(new, q) = list_samples(db, q)  BY <1>1, KeptSamples DEF Kept
  <1>3. HiddenView(new, q) = HiddenView(db, q)  BY <1>1, KeptHidden DEF Kept
  <1>. QED  BY <1>2, <1>3 DEF View

\* Only the problem p has changed.
LEMMA Becomes ==
    ASSUME NEW new, NEW db, Database(db), NEW p \in DOMAIN db.problems, DOMAIN new.problems = DOMAIN db.problems,
           \A q \in DOMAIN db.problems : q # p => Kept(new, db, q) /\ new.problems[q] = db.problems[q]
    PROVE  CatalogOf(new) = [CatalogOf(db) EXCEPT ![p] = View(new, p)]
  <1>1. \A q \in DOMAIN db.problems : q # p => View(new, q) = View(db, q)  BY KeptView
  <1>2. \A q \in DOMAIN db.problems : q # p => CatalogOf(new)[q] = CatalogOf(db)[q]  BY <1>1, CatalogFields
  <1>3. CatalogOf(new)[p] = View(new, p)  BY CatalogFields
  <1>. DEFINE cat == CatalogOf(db)
              ncat == CatalogOf(new)
              v == View(new, p)
              ids == DOMAIN db.problems
  <1>4. DOMAIN cat = ids /\ ncat = [q \in ids |-> ncat[q]]  BY CatalogFields
  <1>. HIDE DEF cat, ncat, v, ids
  <1>5. p \in ids /\ ncat[p] = v /\ \A q \in ids : q # p => ncat[q] = cat[q]  BY <1>2, <1>3 DEF cat, ncat, v, ids
  <1>6. ncat = [cat EXCEPT ![p] = v]  BY <1>4, <1>5
  <1>. QED  BY <1>6 DEF cat, ncat, v

\* A problem with a new id; the rest of the catalog is as before.
AsCreated(db, new, o, id, row) ==
    /\ id \notin 1..db.lastProblem
    /\ 1..new.lastProblem = (1..db.lastProblem) \cup {id}
    /\ CatalogOf(new) = [q \in DOMAIN CatalogOf(db) \cup {id} |-> IF q # id THEN CatalogOf(db)[q] ELSE row]
    /\ 1..db.lastCase \subseteq 1..new.lastCase
    /\ new.status = db.status

\* A new problem.
LEMMA CreatePromise ==
    ASSUME NEW db, Database(db), NEW t \in Clients, NEW o, OpFields(t, o), o.kind = "create",
           NEW id, id = db.lastProblem + 1,
           NEW new, new = WithSamples(Created(db, o), id, o.samples, Len(o.samples)),
           NEW row, row = [tag |-> o.tag, visible |-> o.visible, samples |-> o.samples, hidden |-> <<>>]
    PROVE  AsCreated(db, new, o, id, row)
  <1>. DEFINE base == Created(db, o)
  <1>0. o.tag \in Authors /\ o.visible \in BOOLEAN /\ o.samples \in TextLists  BY DEF OpFields, Authors
  <1>1. /\ Database(base)
        /\ id \in DOMAIN base.problems
        /\ id \notin DOMAIN db.problems
    BY <1>0, CreatedDatabase
  <1>2. /\ base.problems = Put(db.problems, id, NewRow(o))
        /\ base.cases = db.cases
        /\ base.lastProblem = id
        /\ base.lastCase = db.lastCase
        /\ base.status = db.status
    BY CreatedColumns
  <1>. HIDE DEF base
  <1>3. new = WithSamples(base, id, o.samples, Len(o.samples))  BY DEF base
  <1>4. /\ \A q : q # id => Kept(new, base, q)
        /\ HiddenOf(new, id) = HiddenOf(base, id)
        /\ list_samples(new, id) = o.samples
        /\ new.problems = base.problems
        /\ new.lastProblem = base.lastProblem
        /\ new.lastCase = base.lastCase + Len(o.samples)
        /\ new.status = base.status
    BY <1>0, <1>1, <1>3, SampledCases
  <1>5. /\ DOMAIN new.problems = DOMAIN db.problems \cup {id}
        /\ new.problems[id] = NewRow(o)
        /\ \A q \in DOMAIN db.problems : q # id => new.problems[q] = db.problems[q]
    BY <1>2, <1>4 DEF Put
  <1>6. \A q \in DOMAIN db.problems : View(new, q) = View(db, q)
    <2>1. SUFFICES ASSUME NEW q \in DOMAIN db.problems PROVE View(new, q) = View(db, q)  OBVIOUS
    <2>2. q # id  BY <1>1, <2>1
    <2>3. Kept(base, db, q)  BY <1>2, SameCases
    <2>4. base.problems[q] = db.problems[q]  BY <1>4, <1>5, <2>2
    <2>5. View(base, q) = View(db, q)  BY <2>3, <2>4, KeptView
    <2>6. View(new, q) = View(base, q)  BY <1>1, <1>4, <2>2, KeptView
    <2>. QED  BY <2>5, <2>6
  <1>7. HiddenOf(new, id) = {}
    <2>1. CasesOf(base, id) = {}  BY <1>1, <1>2 DEF CasesOf, Database, Tables
    <2>. QED  BY <1>4, <2>1 DEF HiddenOf
  <1>8. HiddenView(new, id) = <<>>
    <2>1. HiddenView(new, id) = [k \in {} |-> HiddenView(new, id)[k]]  BY <1>7, HiddenFields
    <2>. DEFINE f == HiddenView(new, id)
    <2>. HIDE DEF f
    <2>2. f = [k \in {} |-> f[k]]  BY <2>1 DEF f
    <2>3. f = <<>>  BY <2>2
    <2>. QED  BY <2>3 DEF f
  <1>9. View(new, id) = row  BY <1>4, <1>5, <1>8 DEF View, NewRow
  <1>10. CatalogOf(new) = [q \in DOMAIN CatalogOf(db) \cup {id} |-> IF q # id THEN CatalogOf(db)[q] ELSE row]
    <2>. DEFINE cat == CatalogOf(db)
                ncat == CatalogOf(new)
                ids == DOMAIN db.problems
    <2>1. DOMAIN cat = ids /\ ncat = [q \in ids \cup {id} |-> ncat[q]]  BY <1>5, CatalogFields
    <2>2. \A q \in ids : ncat[q] = cat[q]  BY <1>5, <1>6, CatalogFields
    <2>3. ncat[id] = row  BY <1>5, <1>9, CatalogFields
    <2>4. id \notin ids  BY <1>1
    <2>. HIDE DEF cat, ncat, ids
    <2>5. ncat = [q \in DOMAIN cat \cup {id} |-> IF q # id THEN cat[q] ELSE row]
      <3>. HIDE DEF cat
      <3>1. \A q \in ids \cup {id} : ncat[q] = IF q # id THEN cat[q] ELSE row  BY <2>2, <2>3, <2>4
      <3>. QED  BY <2>1, <3>1
    <2>. QED  BY <2>5 DEF cat, ncat
  <1>11. db.lastProblem \in Nat /\ db.lastCase \in Nat  BY DEF Database
  <1>12. Len(o.samples) \in Nat  BY <1>0 DEF TextLists
  <1>13. new.lastProblem = id /\ new.lastCase = db.lastCase + Len(o.samples)  BY <1>2, <1>4
  <1>14. id \notin 1..db.lastProblem /\ 1..new.lastProblem = (1..db.lastProblem) \cup {id}  BY <1>11, <1>13
  <1>15. 1..db.lastCase \subseteq 1..new.lastCase  BY <1>11, <1>12, <1>13
  <1>. QED  BY <1>2, <1>4, <1>10, <1>14, <1>15 DEF AsCreated

\* A problem that is changed.
LEMMA UpdatePromise ==
    ASSUME NEW db, Database(db), NEW t \in Clients, NEW o, OpFields(t, o), o.kind = "update",
           NEW p, p = o.problem, p \in DOMAIN db.problems,
           NEW new, new = IF o.samples = None THEN Updated(db, o)
                          ELSE WithSamples(Updated(db, o), p, o.samples, Len(o.samples)),
           NEW old, old = View(db, p)
    PROVE  /\ CatalogOf(new) =
                [CatalogOf(db) EXCEPT ![p] = [tag |-> Default(o.tag, old.tag),
                                              visible |-> Default(o.visible, old.visible),
                                              samples |-> Default(o.samples, old.samples),
                                              hidden |-> old.hidden]]
           /\ new.lastProblem = db.lastProblem
           /\ 1..db.lastCase \subseteq 1..new.lastCase
           /\ new.status = db.status
  <1>. DEFINE base == Updated(db, o)
  <1>1. Database(base) /\ DOMAIN base.problems = DOMAIN db.problems  BY UpdatedDatabase
  <1>2. /\ base.problems = [db.problems EXCEPT ![o.problem] = merged(o, @)]
        /\ base.cases = db.cases
        /\ base.lastProblem = db.lastProblem
        /\ base.lastCase = db.lastCase
        /\ base.status = db.status
    BY UpdatedColumns
  <1>. HIDE DEF base
  <1>3. base.problems[p] = merged(o, db.problems[p])  BY <1>2
  <1>4. base.problems[p].tag = Default(o.tag, db.problems[p].tag)
        /\ base.problems[p].visible = Default(o.visible, db.problems[p].visible)
    BY <1>3 DEF merged
  <1>5. \A q \in DOMAIN db.problems : q # p => base.problems[q] = db.problems[q]  BY <1>2
  <1>6. \A q : Kept(base, db, q)  BY <1>2, SameCases
  <1>7. list_samples(base, p) = list_samples(db, p) /\ HiddenView(base, p) = HiddenView(db, p)
    <2>1. SamplesOf(db, p) \subseteq CasesOf(db, p) /\ HiddenOf(db, p) \subseteq CasesOf(db, p)
      BY DEF SamplesOf, HiddenOf
    <2>2. Kept(base, db, p)  BY <1>6
    <2>3. list_samples(base, p) = list_samples(db, p)  BY <2>1, <2>2, KeptSamples, ZenonT(40) DEF Kept
    <2>4. HiddenView(base, p) = HiddenView(db, p)  BY <2>1, <2>2, KeptHidden DEF Kept
    <2>. QED  BY <2>3, <2>4
  <1>8. db.lastCase \in Nat  BY DEF Database
  <1>9. /\ \A q \in DOMAIN db.problems : q # p => View(new, q) = View(db, q)
        /\ new.problems = base.problems
        /\ list_samples(new, p) = Default(o.samples, list_samples(db, p))
        /\ HiddenView(new, p) = HiddenView(db, p)
        /\ new.lastProblem = db.lastProblem
        /\ 1..db.lastCase \subseteq 1..new.lastCase
        /\ new.status = db.status
    <2>1. \A q \in DOMAIN db.problems : q # p => View(base, q) = View(db, q)  BY <1>5, <1>6, KeptView
    <2>2. CASE o.samples = None
      <3>1. new = base  BY <2>2 DEF base
      <3>. QED  BY <1>2, <1>7, <2>1, <2>2, <3>1 DEF Default
    <2>3. CASE o.samples # None
      <3>1. new = WithSamples(base, p, o.samples, Len(o.samples))  BY <2>3 DEF base
      <3>2. o.samples \in TextLists  BY <2>3 DEF OpFields
      <3>3. /\ \A q : q # p => Kept(new, base, q)
            /\ HiddenOf(new, p) = HiddenOf(base, p)
            /\ \A k \in HiddenOf(base, p) : new.cases[k] = base.cases[k]
            /\ list_samples(new, p) = o.samples
            /\ new.problems = base.problems
            /\ new.lastProblem = base.lastProblem
            /\ new.lastCase = base.lastCase + Len(o.samples)
            /\ new.status = base.status
        BY <1>1, <3>1, <3>2, SampledCases
      <3>4. HiddenView(new, p) = HiddenView(base, p)  BY <3>3, KeptHidden
      <3>5. \A q : q # p => View(new, q) = View(base, q)  BY <1>1, <3>3, KeptView
      <3>6. Len(o.samples) \in Nat  BY <3>2 DEF TextLists
      <3>7. 1..db.lastCase \subseteq 1..new.lastCase  BY <1>2, <1>8, <3>3, <3>6
      <3>8. list_samples(new, p) = Default(o.samples, list_samples(db, p))  BY <2>3, <3>3 DEF Default
      <3>. QED  BY <1>2, <1>7, <2>1, <3>3, <3>4, <3>5, <3>7, <3>8
    <2>. QED  BY <2>2, <2>3
  <1>. DEFINE row == [tag |-> Default(o.tag, old.tag), visible |-> Default(o.visible, old.visible),
                      samples |-> Default(o.samples, old.samples), hidden |-> old.hidden]
  <1>10. /\ old.tag = db.problems[p].tag /\ old.visible = db.problems[p].visible
         /\ old.samples = list_samples(db, p) /\ old.hidden = HiddenView(db, p)
    BY ViewFields
  <1>11. View(new, p) = row  BY <1>4, <1>9, <1>10 DEF View
  <1>12. DOMAIN new.problems = DOMAIN db.problems  BY <1>1, <1>9
  <1>13. CatalogOf(new) = [CatalogOf(db) EXCEPT ![p] = row]
    <2>. DEFINE cat == CatalogOf(db)
                ncat == CatalogOf(new)
                ids == DOMAIN db.problems
    <2>1. DOMAIN cat = ids /\ ncat = [q \in ids |-> ncat[q]]  BY <1>12, CatalogFields
    <2>2. \A q \in ids : q # p => ncat[q] = cat[q]  BY <1>9, <1>12, CatalogFields
    <2>3. p \in ids /\ ncat[p] = row  BY <1>11, <1>12, CatalogFields
    <2>. HIDE DEF cat, ncat, ids, row
    <2>4. ncat = [cat EXCEPT ![p] = row]  BY <2>1, <2>2, <2>3
    <2>. QED  BY <2>4 DEF cat, ncat
  <1>. QED  BY <1>9, <1>13

\* One problem less.
AsDeleted(db, new, o) ==
    /\ CatalogOf(new) = [q \in DOMAIN CatalogOf(db) \ {o.problem} |-> CatalogOf(db)[q]]
    /\ new.lastProblem = db.lastProblem /\ new.lastCase = db.lastCase /\ new.status = db.status

\* A problem that is deleted.
LEMMA DeletePromise ==
    ASSUME NEW db, Database(db), NEW o, o.problem \in DOMAIN db.problems,
           NEW new, new = Removed(db, o)
    PROVE  AsDeleted(db, new, o)
  <1>1. /\ \A q : q # o.problem => Kept(new, db, q)
        /\ new.problems = Drop(db.problems, {o.problem})
        /\ new.lastProblem = db.lastProblem
        /\ new.lastCase = db.lastCase
        /\ new.status = db.status
    BY RemovedCases
  <1>2. /\ DOMAIN new.problems = DOMAIN db.problems \ {o.problem}
        /\ \A q \in DOMAIN new.problems : new.problems[q] = db.problems[q]
    BY <1>1 DEF Drop
  <1>3. \A q \in DOMAIN new.problems : View(new, q) = View(db, q)
    <2>1. SUFFICES ASSUME NEW q \in DOMAIN new.problems PROVE View(new, q) = View(db, q)  OBVIOUS
    <2>2. q # o.problem  BY <1>2
    <2>3. Kept(new, db, q) /\ new.problems[q] = db.problems[q]  BY <1>1, <1>2, <2>2
    <2>. QED  BY <2>3, KeptView
  <1>. DEFINE cat == CatalogOf(db)
              ncat == CatalogOf(new)
              left == DOMAIN db.problems \ {o.problem}
  <1>4. ncat = [q \in left |-> ncat[q]] /\ DOMAIN cat = DOMAIN db.problems  BY <1>2, CatalogFields
  <1>5. \A q \in left : ncat[q] = cat[q]  BY <1>2, <1>3, CatalogFields
  <1>6. ncat = [q \in DOMAIN cat \ {o.problem} |-> cat[q]]
    <2>1. DOMAIN cat \ {o.problem} = left  BY <1>4
    <2>. HIDE DEF cat, ncat, left
    <2>. QED  BY <1>4, <1>5, <2>1
  <1>. QED  BY <1>1, <1>6 DEF AsDeleted

\* Only the hidden cases of a problem have changed.
LEMMA HidesIs ==
    ASSUME NEW new, NEW db, Database(db), NEW p \in DOMAIN db.problems, new.problems = db.problems,
           \A q : q # p => Kept(new, db, q), SamplesOf(new, p) = SamplesOf(db, p),
           \A k \in SamplesOf(db, p) : new.cases[k] = db.cases[k],
           NEW hidden, HiddenView(new, p) = hidden
    PROVE  CatalogOf(new) = [CatalogOf(db) EXCEPT ![p] = [CatalogOf(db)[p] EXCEPT !.hidden = hidden]]
  <1>1. list_samples(new, p) = list_samples(db, p)  BY KeptSamples
  <1>2. CatalogOf(new) = [CatalogOf(db) EXCEPT ![p] = View(new, p)]  BY Becomes
  <1>3. CatalogOf(db)[p] = View(db, p)  BY CatalogFields
  <1>4. View(new, p) = [View(db, p) EXCEPT !.hidden = hidden]
    <2>. DEFINE tag == db.problems[p].tag
                visible == db.problems[p].visible
                samples == list_samples(db, p)
                old == HiddenView(db, p)
    <2>1. View(new, p) = [tag |-> tag, visible |-> visible, samples |-> samples, hidden |-> hidden]  BY <1>1 DEF View
    <2>2. View(db, p) = [tag |-> tag, visible |-> visible, samples |-> samples, hidden |-> old]  BY DEF View
    <2>. HIDE DEF tag, visible, samples, old
    <2>. QED  BY <2>1, <2>2
  <1>. QED  BY <1>2, <1>3, <1>4

\* The positions that the cases of a problem take.
LEMMA OrdsIs ==
    ASSUME NEW db, Database(db), SamplesNumbered(db), NEW p \in DOMAIN db.problems, NEW old, old = View(db, p)
    PROVE  \A x : x \in Promise!Ords(old) <=> \E k \in CasesOf(db, p) : db.cases[k].ord = x
  <1>1. PICK n \in 0..(MaxOrd + 1) : Numbered(db, p, n)  BY DEF SamplesNumbered
  <1>2. n \in Nat  BY CatalogAssumption
  <1>3. DOMAIN list_samples(db, p) = 1..n  BY <1>1, <1>2, ListNumbered
  <1>4. old.samples = list_samples(db, p) /\ old.hidden = HiddenView(db, p)  BY ViewFields
  <1>5. {i - 1 : i \in DOMAIN old.samples} = {db.cases[k].ord : k \in SamplesOf(db, p)}
    <2>1. {i - 1 : i \in 1..n} = 0..(n - 1)
      <3>1. \A x \in 0..(n - 1) : x + 1 \in 1..n /\ x = (x + 1) - 1  BY <1>2
      <3>2. \A i \in 1..n : i - 1 \in 0..(n - 1)  BY <1>2
      <3>. QED  BY <3>1, <3>2
    <2>. QED  BY <1>1, <1>3, <1>4, <2>1 DEF Numbered
  <1>6. {old.hidden[k].ord : k \in DOMAIN old.hidden} = {db.cases[k].ord : k \in HiddenOf(db, p)}
    <2>1. \A k \in HiddenOf(db, p) : HiddenView(db, p)[k].ord = db.cases[k].ord
      <3>1. SUFFICES ASSUME NEW k \in HiddenOf(db, p) PROVE HiddenView(db, p)[k].ord = db.cases[k].ord  OBVIOUS
      <3>2. HiddenView(db, p)[k] = [ord |-> db.cases[k].ord, text |-> db.cases[k].text]  BY HiddenFields
      <3>. QED  BY <3>2
    <2>2. DOMAIN HiddenView(db, p) = HiddenOf(db, p)  BY HiddenFields
    <2>. QED  BY <1>4, <2>1, <2>2
  <1>7. CasesOf(db, p) = SamplesOf(db, p) \cup HiddenOf(db, p)  BY DEF SamplesOf, HiddenOf
  <1>8. Promise!Ords(old) = {db.cases[k].ord : k \in SamplesOf(db, p)} \cup {db.cases[k].ord : k \in HiddenOf(db, p)}
    BY <1>5, <1>6 DEF Promise!Ords
  <1>. QED  BY <1>7, <1>8

\* A hidden case with a new id, last unless the request says where.
AsAdded(db, new, o, p, id, ord, old) ==
    /\ id \notin 1..db.lastCase /\ 1..new.lastCase = (1..db.lastCase) \cup {id}
    /\ ord \in 0..MaxOrd
    /\ IF o.ord = None THEN \A x \in Promise!Ords(old) : x < ord ELSE ord = o.ord
    /\ CatalogOf(new) =
         [CatalogOf(db) EXCEPT ![p] =
             [old EXCEPT !.hidden = [k \in DOMAIN old.hidden \cup {id} |->
                                       IF k = id THEN [ord |-> ord, text |-> o.text] ELSE old.hidden[k]]]]
    /\ new.lastProblem = db.lastProblem /\ new.status = db.status

\* A hidden case that is added.
LEMMA AddPromise ==
    ASSUME NEW db, Database(db), SamplesNumbered(db), NEW t \in Clients, NEW o, OpFields(t, o), o.kind = "addCase",
           NEW p, p = o.problem, p \in DOMAIN db.problems, OrdFits(NewOrd(db, o)),
           NEW id, id = db.lastCase + 1, NEW ord, ord = NewOrd(db, o),
           NEW new, new = CaseAdded(db, o),
           NEW old, old = CatalogOf(db)[p]
    PROVE  AsAdded(db, new, o, p, id, ord, old)
  <1>1. ord \in 0..MaxOrd  BY AddedDatabase
  <1>2. old = View(db, p)  BY CatalogFields
  <1>3. old.hidden = HiddenView(db, p)  BY <1>2, ViewFields
  <1>4. IF o.ord = None THEN \A x \in Promise!Ords(old) : x < ord ELSE ord = o.ord
    <2>1. CASE o.ord = None
      <3>1. ord = NextOrd(db, p)  BY <2>1 DEF NewOrd, Default
      <3>2. \A k \in CasesOf(db, p) : db.cases[k].ord < ord  BY <3>1, NextOrdIs
      <3>3. \A x : x \in Promise!Ords(old) <=> \E k \in CasesOf(db, p) : db.cases[k].ord = x  BY <1>2, OrdsIs
      <3>. QED  BY <2>1, <3>2, <3>3
    <2>2. CASE o.ord # None  BY <2>2 DEF NewOrd, Default
    <2>. QED  BY <2>1, <2>2
  <1>5. /\ \A q : q # p => Kept(new, db, q)
        /\ SamplesOf(new, p) = SamplesOf(db, p)
        /\ HiddenOf(new, p) = HiddenOf(db, p) \cup {id}
        /\ id \notin DOMAIN db.cases
        /\ \A k \in CasesOf(db, p) : new.cases[k] = db.cases[k]
        /\ new.cases[id].ord = ord /\ new.cases[id].text = o.text
        /\ new.problems = db.problems
        /\ new.lastProblem = db.lastProblem
        /\ new.lastCase = id
        /\ new.status = db.status
    <2>1. HiddenAdded(new, db, o, id)  BY AddedCases
    <2>. QED  BY <2>1 DEF HiddenAdded
  <1>6. SamplesOf(db, p) \subseteq CasesOf(db, p) /\ HiddenOf(db, p) \subseteq CasesOf(db, p)
        /\ CasesOf(db, p) \subseteq DOMAIN db.cases
    BY DEF SamplesOf, HiddenOf, CasesOf
  <1>. DEFINE h == HiddenView(db, p)
              nh == HiddenView(new, p)
              hidden == [k \in DOMAIN h \cup {id} |-> IF k = id THEN [ord |-> ord, text |-> o.text] ELSE h[k]]
  <1>7. nh = hidden
    <2>1. DOMAIN h = HiddenOf(db, p)  BY HiddenFields
    <2>2. nh = [k \in HiddenOf(db, p) \cup {id} |-> nh[k]]  BY <1>5, HiddenFields
    <2>3. nh[id] = [ord |-> ord, text |-> o.text]
      <3>1. nh[id] = [ord |-> new.cases[id].ord, text |-> new.cases[id].text]  BY <1>5, HiddenFields
      <3>. QED  BY <1>5, <3>1
    <2>4. ASSUME NEW k \in HiddenOf(db, p) PROVE k # id /\ nh[k] = h[k]
      <3>1. nh[k] = [ord |-> new.cases[k].ord, text |-> new.cases[k].text]  BY <1>5, HiddenFields
      <3>2. h[k] = [ord |-> db.cases[k].ord, text |-> db.cases[k].text]  BY HiddenFields
      <3>3. new.cases[k] = db.cases[k] /\ k # id  BY <1>5, <1>6
      <3>. QED  BY <3>1, <3>2, <3>3
    <2>. HIDE DEF h, nh
    <2>. QED  BY <2>1, <2>2, <2>3, <2>4
  <1>8. CatalogOf(new) = [CatalogOf(db) EXCEPT ![p] = [CatalogOf(db)[p] EXCEPT !.hidden = hidden]]
    <2>. HIDE DEF hidden
    <2>1. HiddenView(new, p) = hidden  BY <1>7
    <2>. QED  BY <1>5, <1>6, <2>1, HidesIs
  <1>9. CatalogOf(new) = [CatalogOf(db) EXCEPT ![p] = [old EXCEPT !.hidden = hidden]]
    <2>. HIDE DEF hidden
    <2>. QED  BY <1>8
  <1>10. id \notin 1..db.lastCase /\ 1..new.lastCase = (1..db.lastCase) \cup {id}
    <2>1. db.lastCase \in Nat  BY DEF Database
    <2>. QED  BY <1>5, <2>1
  <1>11. hidden = [k \in DOMAIN old.hidden \cup {id} |->
                     IF k = id THEN [ord |-> ord, text |-> o.text] ELSE old.hidden[k]]
    BY <1>3
  <1>. HIDE DEF hidden
  <1>. QED  BY <1>1, <1>4, <1>5, <1>9, <1>10, <1>11 DEF AsAdded

\* A hidden case that is found is one of its problem.
LEMMA FoundHidden ==
    ASSUME NEW db, Database(db), NEW o, find_hidden(db, o), NEW p, p = o.problem
    PROVE  /\ p \in DOMAIN db.problems
           /\ o.case \in DOMAIN HiddenView(db, p)
           /\ o.case \notin SamplesOf(db, p)
           /\ o.case \in CasesOf(db, p)
           /\ SamplesOf(db, p) \subseteq CasesOf(db, p)
           /\ HiddenOf(db, p) \subseteq CasesOf(db, p)
           /\ DOMAIN HiddenView(db, p) = HiddenOf(db, p)
  <1>1. o.case \in HiddenOf(db, p)  BY DEF find_hidden
  <1>2. o.case \in CasesOf(db, p) /\ o.case \notin SamplesOf(db, p)  BY <1>1 DEF HiddenOf
  <1>3. p \in DOMAIN db.problems  BY <1>2 DEF CasesOf, Database, Tables
  <1>4. SamplesOf(db, p) \subseteq CasesOf(db, p) /\ HiddenOf(db, p) \subseteq CasesOf(db, p)
    BY DEF SamplesOf, HiddenOf
  <1>. QED  BY <1>1, <1>2, <1>3, <1>4, HiddenFields

\* Another row for a hidden case.
AsChanged(db, new, o, p, old, row) ==
    /\ p \in DOMAIN CatalogOf(db)
    /\ o.case \in DOMAIN old.hidden
    /\ CatalogOf(new) = [CatalogOf(db) EXCEPT ![p] = [old EXCEPT !.hidden = [old.hidden EXCEPT ![o.case] = row]]]
    /\ new.lastProblem = db.lastProblem /\ new.lastCase = db.lastCase /\ new.status = db.status

\* A hidden case that is changed.
LEMMA ChangePromise ==
    ASSUME NEW db, Database(db), NEW t \in Clients, NEW o, OpFields(t, o), o.kind = "changeCase",
           find_hidden(db, o),
           NEW p, p = o.problem,
           NEW new, new = CaseChanged(db, o),
           NEW old, old = CatalogOf(db)[p],
           NEW row, row = [ord |-> Default(o.ord, old.hidden[o.case].ord),
                           text |-> Default(o.text, old.hidden[o.case].text)]
    PROVE  AsChanged(db, new, o, p, old, row)
  <1>1. /\ p \in DOMAIN db.problems
        /\ o.case \in DOMAIN HiddenView(db, p)
        /\ o.case \notin SamplesOf(db, p)
        /\ o.case \in CasesOf(db, p)
        /\ SamplesOf(db, p) \subseteq CasesOf(db, p)
        /\ HiddenOf(db, p) \subseteq CasesOf(db, p)
        /\ DOMAIN HiddenView(db, p) = HiddenOf(db, p)
    BY FoundHidden
  <1>2. old = View(db, p)  BY <1>1, CatalogFields
  <1>3. old.hidden = HiddenView(db, p)  BY <1>2, ViewFields
  <1>4. /\ \A q : q # p => Kept(new, db, q)
        /\ SamplesOf(new, p) = SamplesOf(db, p)
        /\ HiddenOf(new, p) = HiddenOf(db, p)
        /\ \A k \in CasesOf(db, p) : k # o.case => new.cases[k] = db.cases[k]
        /\ new.cases[o.case].ord = Default(o.ord, db.cases[o.case].ord)
        /\ new.cases[o.case].text = Default(o.text, db.cases[o.case].text)
        /\ new.problems = db.problems
        /\ new.lastProblem = db.lastProblem
        /\ new.lastCase = db.lastCase
        /\ new.status = db.status
    BY ChangedCases
  <1>. DEFINE h == HiddenView(db, p)
              nh == HiddenView(new, p)
              hidden == [h EXCEPT ![o.case] = row]
              ids == HiddenOf(db, p)
  <1>5. nh = hidden
    <2>1. h = [k \in ids |-> h[k]] /\ o.case \in ids  BY <1>1, HiddenFields
    <2>2. nh = [k \in ids |-> nh[k]]  BY <1>4, HiddenFields
    <2>3. nh[o.case] = row
      <3>1. nh[o.case] = [ord |-> new.cases[o.case].ord, text |-> new.cases[o.case].text]  BY <1>1, <1>4, HiddenFields
      <3>2. h[o.case] = [ord |-> db.cases[o.case].ord, text |-> db.cases[o.case].text]  BY <1>1, HiddenFields
      <3>3. old.hidden[o.case].ord = db.cases[o.case].ord /\ old.hidden[o.case].text = db.cases[o.case].text
        BY <1>3, <3>2
      <3>. QED  BY <1>4, <3>1, <3>3
    <2>4. ASSUME NEW k \in ids, k # o.case PROVE nh[k] = h[k]
      <3>1. nh[k] = [ord |-> new.cases[k].ord, text |-> new.cases[k].text]  BY <1>4, HiddenFields
      <3>2. h[k] = [ord |-> db.cases[k].ord, text |-> db.cases[k].text]  BY HiddenFields
      <3>3. new.cases[k] = db.cases[k]  BY <1>1, <1>4, <2>4
      <3>. QED  BY <3>1, <3>2, <3>3
    <2>. HIDE DEF h, nh, ids
    <2>. QED  BY <2>1, <2>2, <2>3, <2>4
  <1>6. \A k \in SamplesOf(db, p) : new.cases[k] = db.cases[k]
    <2>1. SUFFICES ASSUME NEW k \in SamplesOf(db, p) PROVE new.cases[k] = db.cases[k]  OBVIOUS
    <2>2. k \in CasesOf(db, p) /\ k # o.case  BY <1>1
    <2>. QED  BY <1>4, <2>2
  <1>7. CatalogOf(new) = [CatalogOf(db) EXCEPT ![p] = [CatalogOf(db)[p] EXCEPT !.hidden = hidden]]
    <2>. HIDE DEF hidden
    <2>1. HiddenView(new, p) = hidden  BY <1>5
    <2>. QED  BY <1>1, <1>4, <1>6, <2>1, HidesIs
  <1>8. hidden = [old.hidden EXCEPT ![o.case] = row]  BY <1>3
  <1>. HIDE DEF hidden
  <1>. QED  BY <1>1, <1>3, <1>4, <1>7, <1>8, CatalogFields DEF AsChanged

\* One hidden case less.
AsRemoved(db, new, o, p, old) ==
    /\ p \in DOMAIN CatalogOf(db)
    /\ o.case \in DOMAIN old.hidden
    /\ CatalogOf(new) =
         [CatalogOf(db) EXCEPT ![p] =
             [old EXCEPT !.hidden = [k \in DOMAIN old.hidden \ {o.case} |-> old.hidden[k]]]]
    /\ new.lastProblem = db.lastProblem /\ new.lastCase = db.lastCase /\ new.status = db.status

\* A hidden case that is deleted.
LEMMA RemovePromise ==
    ASSUME NEW db, Database(db), NEW o, find_hidden(db, o),
           NEW p, p = o.problem,
           NEW new, new = CaseRemoved(db, o),
           NEW old, old = CatalogOf(db)[p]
    PROVE  AsRemoved(db, new, o, p, old)
  <1>1. /\ p \in DOMAIN db.problems
        /\ o.case \in DOMAIN HiddenView(db, p)
        /\ o.case \notin SamplesOf(db, p)
        /\ o.case \in CasesOf(db, p)
        /\ SamplesOf(db, p) \subseteq CasesOf(db, p)
        /\ HiddenOf(db, p) \subseteq CasesOf(db, p)
        /\ DOMAIN HiddenView(db, p) = HiddenOf(db, p)
    BY FoundHidden
  <1>2. old = View(db, p)  BY <1>1, CatalogFields
  <1>3. old.hidden = HiddenView(db, p)  BY <1>2, ViewFields
  <1>4. /\ \A q : q # p => Kept(new, db, q)
        /\ SamplesOf(new, p) = SamplesOf(db, p)
        /\ HiddenOf(new, p) = HiddenOf(db, p) \ {o.case}
        /\ \A k \in CasesOf(db, p) : k # o.case => new.cases[k] = db.cases[k]
        /\ new.problems = db.problems
        /\ new.lastProblem = db.lastProblem
        /\ new.lastCase = db.lastCase
        /\ new.status = db.status
    BY RemovedCase
  <1>. DEFINE h == HiddenView(db, p)
              nh == HiddenView(new, p)
              hidden == [k \in DOMAIN h \ {o.case} |-> h[k]]
              ids == HiddenOf(db, p)
  <1>5. nh = hidden
    <2>1. DOMAIN h = ids  BY <1>1
    <2>2. nh = [k \in ids \ {o.case} |-> nh[k]]  BY <1>4, HiddenFields
    <2>3. ASSUME NEW k \in ids \ {o.case} PROVE nh[k] = h[k]
      <3>1. nh[k] = [ord |-> new.cases[k].ord, text |-> new.cases[k].text]  BY <1>4, HiddenFields
      <3>2. h[k] = [ord |-> db.cases[k].ord, text |-> db.cases[k].text]  BY HiddenFields
      <3>3. new.cases[k] = db.cases[k]  BY <1>1, <1>4, <2>3
      <3>. QED  BY <3>1, <3>2, <3>3
    <2>. HIDE DEF h, nh, ids
    <2>. QED  BY <2>1, <2>2, <2>3
  <1>6. \A k \in SamplesOf(db, p) : new.cases[k] = db.cases[k]
    <2>1. SUFFICES ASSUME NEW k \in SamplesOf(db, p) PROVE new.cases[k] = db.cases[k]  OBVIOUS
    <2>2. k \in CasesOf(db, p) /\ k # o.case  BY <1>1
    <2>. QED  BY <1>4, <2>2
  <1>7. CatalogOf(new) = [CatalogOf(db) EXCEPT ![p] = [CatalogOf(db)[p] EXCEPT !.hidden = hidden]]
    <2>. HIDE DEF hidden
    <2>1. HiddenView(new, p) = hidden  BY <1>5
    <2>. QED  BY <1>1, <1>4, <1>6, <2>1, HidesIs
  <1>8. hidden = [k \in DOMAIN old.hidden \ {o.case} |-> old.hidden[k]]  BY <1>3
  <1>. HIDE DEF hidden
  <1>. QED  BY <1>1, <1>3, <1>4, <1>7, <1>8, CatalogFields DEF AsRemoved

-----------------------------------------------------------------------------
(* Every step is one that the promise allows, or none for it.              *)

CallsFrom(ops, answers) == [t \in Clients |-> [op |-> ops[t], answer |-> answers[t]]]

SubmittedIn(db) == {s[2] : s \in DOMAIN db.status}

\* The state of the promise is computed from what is committed and from the requests.
LEMMA Mapping ==
    /\ CommittedCatalog = CatalogOf(disk) /\ CommittedCatalog' = CatalogOf(disk')
    /\ SubmittedTo = SubmittedIn(disk) /\ SubmittedTo' = SubmittedIn(disk')
    /\ Calls = CallsFrom(op, answer) /\ Calls' = CallsFrom(op', answer')
    /\ Promise!Idle = NoOp
  <1>1. CommittedCatalog = CatalogOf(disk)  BY DEF CommittedCatalog, CatalogOf, View, HiddenView
  <1>2. CommittedCatalog' = CatalogOf(disk')  BY DEF CommittedCatalog, CatalogOf, View, HiddenView
  <1>3. SubmittedTo = SubmittedIn(disk) /\ SubmittedTo' = SubmittedIn(disk')  BY DEF SubmittedTo, SubmittedIn
  <1>4. Calls = CallsFrom(op, answer) /\ Calls' = CallsFrom(op', answer')  BY DEF Calls, CallsFrom
  <1>5. Promise!Idle = NoOp  BY DEF Promise!Idle, NoOp
  <1>. QED  BY <1>1, <1>2, <1>3, <1>4, <1>5

\* A request in the promise.
LEMMA CallRow ==
    ASSUME NEW ops, NEW answers, NEW t \in Clients
    PROVE  /\ CallsFrom(ops, answers)[t] = [op |-> ops[t], answer |-> answers[t]]
           /\ CallsFrom(ops, answers)[t].op = ops[t]
  BY DEF CallsFrom

\* The requests are a function.
LEMMA CallRows ==
    ASSUME NEW ops, NEW answers
    PROVE  CallsFrom(ops, answers) = [s \in Clients |-> CallsFrom(ops, answers)[s]]
  BY DEF CallsFrom

\* The row of one request changes.
RowChanged(new, old, t, row) == new[t] = row /\ \A s \in Clients : s # t => new[s] = old[s]

\* Its arrival.
LEMMA CallArrives ==
    ASSUME NEW ops, NEW answers, NEW t \in Clients, NEW o,
           NEW newOps, RowChanged(newOps, ops, t, o)
    PROVE  CallsFrom(newOps, answers) = [CallsFrom(ops, answers) EXCEPT ![t].op = o]
  <1>. DEFINE calls == CallsFrom(ops, answers)
              more == CallsFrom(newOps, answers)
  <1>1. calls = [s \in Clients |-> calls[s]] /\ more = [s \in Clients |-> more[s]]  BY CallRows
  <1>2. \A s \in Clients : calls[s] = [op |-> ops[s], answer |-> answers[s]]  BY CallRow
  <1>3. \A s \in Clients : more[s] = [op |-> newOps[s], answer |-> answers[s]]  BY CallRow
  <1>. HIDE DEF calls, more
  <1>4. \A s \in Clients : s # t => more[s] = calls[s]  BY <1>2, <1>3 DEF RowChanged
  <1>5. more[t] = [calls[t] EXCEPT !.op = o]
    <2>1. calls[t] = [op |-> ops[t], answer |-> answers[t]]  BY <1>2
    <2>2. more[t] = [op |-> o, answer |-> answers[t]]  BY <1>3 DEF RowChanged
    <2>. QED  BY <2>1, <2>2
  <1>6. more = [calls EXCEPT ![t].op = o]  BY <1>1, <1>4, <1>5
  <1>. QED  BY <1>6 DEF calls, more

\* Its answer.
LEMMA CallEnds ==
    ASSUME NEW ops, NEW answers, NEW t \in Clients, NEW o, NEW what,
           NEW newOps, RowChanged(newOps, ops, t, o),
           NEW newAnswers, RowChanged(newAnswers, answers, t, what)
    PROVE  CallsFrom(newOps, newAnswers) = [CallsFrom(ops, answers) EXCEPT ![t] = [op |-> o, answer |-> what]]
  <1>. DEFINE calls == CallsFrom(ops, answers)
              more == CallsFrom(newOps, newAnswers)
  <1>1. calls = [s \in Clients |-> calls[s]] /\ more = [s \in Clients |-> more[s]]  BY CallRows
  <1>2. \A s \in Clients : calls[s] = [op |-> ops[s], answer |-> answers[s]]  BY CallRow
  <1>3. \A s \in Clients : more[s] = [op |-> newOps[s], answer |-> newAnswers[s]]  BY CallRow
  <1>. HIDE DEF calls, more
  <1>4. \A s \in Clients : s # t => more[s] = calls[s]  BY <1>2, <1>3 DEF RowChanged
  <1>5. more[t] = [op |-> o, answer |-> what]  BY <1>2, <1>3 DEF RowChanged
  <1>6. more = [calls EXCEPT ![t] = [op |-> o, answer |-> what]]  BY <1>1, <1>4, <1>5
  <1>. QED  BY <1>6 DEF calls, more

\* A step that commits nothing and answers nobody is none for the promise.
LEMMA NoPromise ==
    ASSUME disk' = disk, op' = op, answer' = answer
    PROVE  UNCHANGED Promise!catalogVars
  <1>1. CommittedCatalog' = CommittedCatalog /\ SubmittedTo' = SubmittedTo /\ Calls' = Calls  BY Mapping
  <1>2. (1..disk.lastProblem)' = 1..disk.lastProblem /\ (1..disk.lastCase)' = 1..disk.lastCase  OBVIOUS
  <1>. QED  BY <1>1, <1>2 DEF Promise!catalogVars

\* BEGIN is the arrival of the request.
LEMMA BeginRequests ==
    ASSUME CatalogInv, NEW t \in Clients, Begin(t)
    PROVE  Promise!Request(t)
  <1>1. PICK o \in Operations[t] : op' = [op EXCEPT ![t] = o]  BY DEF Begin
  <1>2. pc[t] = "idle" /\ mutex = None /\ disk' = disk /\ answer' = answer  BY DEF Begin, begin
  <1>3. DOMAIN op = Clients /\ DOMAIN answer = Clients  BY DEF CatalogInv, CatalogTypeOK
  <1>4. mutex # t  BY <1>2, CatalogAssumption
  <1>5. op[t] = NoOp /\ answer[t] = None  BY <1>2, <1>4 DEF CatalogInv, LockInv, AnswerInv
  <1>6. o \in AllOperations  BY OpsTyped
  <1>7. Calls[t] = [op |-> Promise!Idle, answer |-> None]
    <2>1. CallsFrom(op, answer)[t] = [op |-> op[t], answer |-> answer[t]]  BY CallRow
    <2>. QED  BY <1>5, <2>1, Mapping
  <1>8. Calls' = [Calls EXCEPT ![t].op = o]
    <2>1. RowChanged(op', op, t, o)  BY <1>1, <1>3 DEF RowChanged
    <2>2. CallsFrom(op', answer) = [CallsFrom(op, answer) EXCEPT ![t].op = o]  BY <2>1, CallArrives
    <2>. QED  BY <1>2, <2>2, Mapping
  <1>9. CommittedCatalog' = CommittedCatalog /\ SubmittedTo' = SubmittedTo
        /\ (1..disk.lastProblem)' = 1..disk.lastProblem /\ (1..disk.lastCase)' = 1..disk.lastCase
    BY <1>2, Mapping
  <1>. QED  BY <1>6, <1>7, <1>8, <1>9 DEF Promise!Request

\* The end of a transaction is the answer.
LEMMA ReplyAnswers ==
    ASSUME CatalogInv, NEW t \in Clients, mutex = t, NEW what, Reply(t, what)
    PROVE  Promise!Answered(t, what) /\ Calls[t].op = op[t]
  <1>1. DOMAIN op = Clients /\ DOMAIN answer = Clients  BY DEF CatalogInv, CatalogTypeOK
  <1>2. op[t] # NoOp
    <2>1. op[t] \in Operations[t]  BY Inside
    <2>. QED  BY <2>1, OpsTyped
  <1>3. Calls[t].op = op[t]
    <2>1. CallsFrom(op, answer)[t].op = op[t]  BY CallRow, ZenonT(40)
    <2>. QED  BY <2>1, Mapping
  <1>4. op' = [op EXCEPT ![t] = NoOp] /\ answer' = [answer EXCEPT ![t] = what]  BY DEF Reply
  <1>5. Calls' = [Calls EXCEPT ![t] = [op |-> Promise!Idle, answer |-> what]]
    <2>1. RowChanged(op', op, t, NoOp) /\ RowChanged(answer', answer, t, what)  BY <1>1, <1>4 DEF RowChanged
    <2>2. CallsFrom(op', answer') = [CallsFrom(op, answer) EXCEPT ![t] = [op |-> NoOp, answer |-> what]]
      BY <2>1, CallEnds
    <2>. QED  BY <2>2, Mapping
  <1>. QED  BY <1>2, <1>3, <1>5, Mapping DEF Promise!Answered

\* A submission keeps its problem.
LEMMA SettleSubmits ==
    ASSUME CatalogInv, NEW u \in Users, NEW p \in 1..MaxId, NEW solved \in BOOLEAN, Settle(u, p, solved)
    PROVE  Promise!Submission
  <1>1. /\ mutex = None /\ p \in DOMAIN work.problems /\ disk' = work' /\ op' = op /\ answer' = answer
        /\ \E v : work' = WithStatus(work, u, p, v)
    BY SettleWrites
  <1>2. PICK v : work' = WithStatus(work, u, p, v)  BY <1>1
  <1>3. work = disk /\ Database(disk)  BY <1>1, CatalogAssumption DEF CatalogInv, WorkInv
  <1>4. /\ disk'.problems = disk.problems /\ disk'.cases = disk.cases
        /\ disk'.lastProblem = disk.lastProblem /\ disk'.lastCase = disk.lastCase
        /\ DOMAIN disk'.status = DOMAIN disk.status \cup {<<u, p>>}
    BY <1>1, <1>2, <1>3, SettledDatabase
  <1>5. CatalogOf(disk') = CatalogOf(disk)
    <2>1. \A q : Kept(disk', disk, q)  BY <1>4, SameCases
    <2>2. \A q : View(disk', q) = View(disk, q)  BY <1>3, <1>4, <2>1, KeptView
    <2>. QED  BY <1>4, <2>2 DEF CatalogOf
  <1>6. SubmittedIn(disk') = SubmittedIn(disk) \cup {p}
    <2>1. <<u, p>>[2] = p  OBVIOUS
    <2>. QED  BY <1>4, <2>1 DEF SubmittedIn
  <1>7. p \in DOMAIN CatalogOf(disk)  BY <1>1, <1>3, CatalogFields
  <1>8. /\ Calls' = Calls /\ CommittedCatalog' = CommittedCatalog
        /\ (1..disk.lastProblem)' = 1..disk.lastProblem /\ (1..disk.lastCase)' = 1..disk.lastCase
    BY <1>1, <1>4, <1>5, Mapping
  <1>9. p \in DOMAIN CommittedCatalog /\ SubmittedTo' = SubmittedTo \cup {p}  BY <1>6, <1>7, Mapping
  <1>. QED  BY <1>8, <1>9 DEF Promise!Submission

\* A refusal that is due on the tables db.
Due(db, o, why) ==
    \/ why = "Failed"
    \/ /\ why = "NotFound" /\ o.kind \in {"update", "delete", "addCase"}
       /\ o.problem \notin DOMAIN db.problems
    \/ /\ why = "NotFound" /\ o.kind \in {"changeCase", "removeCase"}
       /\ ~find_hidden(db, o)
    \/ /\ why = "HasSubmissions" /\ o.kind = "delete"
       /\ \E s \in DOMAIN db.status : s[2] = o.problem
    \/ /\ why = "OrdExhausted" /\ o.kind = "addCase" /\ o.problem \in DOMAIN db.problems
       /\ ~OrdFits(NewOrd(db, o))

\* ROLLBACK leaves no trace, and the answer says why.
LEMMA RollbackRefuses ==
    ASSUME CatalogInv, NEW t \in Clients, mutex = t, NEW why, Rollback(t, why), Due(disk, op[t], why)
    PROVE  Promise!Refused(t)
  <1>1. Reply(t, why) /\ disk' = disk  BY DEF Rollback
  <1>2. Promise!Answered(t, why) /\ Calls[t].op = op[t]  BY <1>1, ReplyAnswers
  <1>3. /\ CommittedCatalog' = CommittedCatalog /\ SubmittedTo' = SubmittedTo
        /\ (1..disk.lastProblem)' = 1..disk.lastProblem /\ (1..disk.lastCase)' = 1..disk.lastCase
    BY <1>1, Mapping
  <1>. DEFINE o == op[t]
              p == op[t].problem
  <1>4. DOMAIN CommittedCatalog = DOMAIN disk.problems
    <2>1. DOMAIN CatalogOf(disk) = DOMAIN disk.problems  BY CatalogFields
    <2>. QED  BY <2>1, Mapping
  <1>5. Database(disk) /\ SamplesNumbered(disk)  BY DEF CatalogInv
  <1>6. ASSUME p \in DOMAIN disk.problems PROVE CommittedCatalog[p] = View(disk, p)
    <2>1. CatalogOf(disk)[p] = View(disk, p)  BY <1>6, CatalogFields
    <2>. QED  BY <2>1, Mapping
  <1>7. CASE why = "Failed"  BY <1>2, <1>3, <1>7 DEF Promise!Refused
  <1>8. CASE why = "NotFound" /\ o.kind \in {"update", "delete", "addCase"} /\ p \notin DOMAIN disk.problems
    BY <1>2, <1>3, <1>4, <1>8 DEF Promise!Refused
  <1>9. CASE why = "NotFound" /\ o.kind \in {"changeCase", "removeCase"} /\ ~find_hidden(disk, o)
    <2>1. ASSUME p \in DOMAIN disk.problems PROVE o.case \notin DOMAIN CommittedCatalog[p].hidden
      <3>1. CommittedCatalog[p].hidden = HiddenView(disk, p)
        <4>1. CommittedCatalog[p] = View(disk, p)  BY <1>6, <2>1
        <4>. QED  BY <4>1, ViewFields
      <3>2. o.case \notin HiddenOf(disk, p)  BY <1>9 DEF find_hidden
      <3>3. DOMAIN HiddenView(disk, p) = HiddenOf(disk, p)  BY HiddenFields
      <3>. QED  BY <3>1, <3>2, <3>3
    <2>. QED  BY <1>2, <1>3, <1>4, <1>9, <2>1 DEF Promise!Refused
  <1>10. CASE why = "HasSubmissions" /\ o.kind = "delete" /\ \E s \in DOMAIN disk.status : s[2] = p
    <2>1. p \in SubmittedIn(disk)  BY <1>10 DEF SubmittedIn
    <2>2. p \in SubmittedTo  BY <2>1, Mapping
    <2>. QED  BY <1>2, <1>3, <1>10, <2>2 DEF Promise!Refused
  <1>11. CASE why = "OrdExhausted" /\ o.kind = "addCase" /\ p \in DOMAIN disk.problems /\ ~OrdFits(NewOrd(disk, o))
    <2>1. OpFields(t, o)  BY Inside
    <2>2. o.ord \in {None} \cup 0..MaxOrd  BY <1>11, <2>1 DEF OpFields
    <2>3. o.ord = None /\ ~(NextOrd(disk, p) <= MaxOrd)
      <3>1. CASE o.ord = None  BY <1>11, <3>1 DEF NewOrd, OrdFits, Default
      <3>2. CASE o.ord # None
        <4>1. o.ord \in 0..MaxOrd /\ ~(o.ord <= MaxOrd)  BY <1>11, <2>2, <3>2 DEF NewOrd, OrdFits, Default
        <4>. QED  BY <4>1, CatalogAssumption
      <3>. QED  BY <3>1, <3>2
    <2>4. NextOrd(disk, p) \in Nat /\ (NextOrd(disk, p) # 0 => \E k \in CasesOf(disk, p) : disk.cases[k].ord = NextOrd(disk, p) - 1)
      BY <1>5, NextOrdIs
    <2>5. NextOrd(disk, p) # 0  BY <2>3, <2>4, CatalogAssumption
    <2>6. PICK k \in CasesOf(disk, p) : disk.cases[k].ord = NextOrd(disk, p) - 1  BY <2>4, <2>5
    <2>7. disk.cases[k].ord \in 0..MaxOrd  BY <1>5 DEF Database, Tables, CasesOf
    <2>8. disk.cases[k].ord = MaxOrd  BY <2>3, <2>4, <2>6, <2>7, CatalogAssumption
    <2>9. CommittedCatalog[p] = View(disk, p)  BY <1>6, <1>11
    <2>10. MaxOrd \in Promise!Ords(CommittedCatalog[p])  BY <1>5, <1>11, <2>8, <2>9, OrdsIs
    <2>. QED  BY <1>2, <1>3, <1>4, <1>11, <2>3, <2>10 DEF Promise!Refused
  <1>. QED  BY <1>7, <1>8, <1>9, <1>10, <1>11 DEF Due

\* A statement that writes is none for the promise.
LEMMA WriteHidden ==
    ASSUME NEW t, NEW db, NEW to, Write(t, db, to)
    PROVE  UNCHANGED Promise!catalogVars
  <1>1. disk' = disk /\ op' = op /\ answer' = answer  BY DEF Write
  <1>. QED  BY <1>1, NoPromise

\* The first statement of a request either writes or ends the transaction with a
\* refusal that is due.
LEMMA FirstStatement ==
    ASSUME CatalogInv, NEW t \in Clients,
           UpdateProblem(t) \/ DeleteCases(t) \/ CreateCase(t) \/ UpdateCase(t) \/ DeleteCase(t)
    PROVE  UNCHANGED Promise!catalogVars \/ Promise!Refused(t)
  <1>. DEFINE o == op[t]
              p == op[t].problem
  <1>1. pc[t] = "begun"  BY DEF UpdateProblem, DeleteCases, CreateCase, UpdateCase, DeleteCase, At
  <1>2. mutex = t /\ work = disk  BY <1>1, Untouched
  <1>3. CASE UpdateProblem(t)
    <2>1. o.kind = "update"  BY <1>3 DEF UpdateProblem, At
    <2>2. CASE p \notin DOMAIN work.problems /\ Rollback(t, "NotFound")
      <3>1. Due(disk, o, "NotFound")  BY <1>2, <2>1, <2>2 DEF Due
      <3>. QED  BY <1>2, <2>2, <3>1, RollbackRefuses
    <2>3. CASE \E db, to : Write(t, db, to)  BY <2>3, WriteHidden
    <2>. QED  BY <1>3, <2>2, <2>3 DEF UpdateProblem
  <1>4. CASE DeleteCases(t)
    <2>1. o.kind = "delete"  BY <1>4 DEF DeleteCases, At
    <2>2. CASE p \notin DOMAIN work.problems /\ Rollback(t, "NotFound")
      <3>1. Due(disk, o, "NotFound")  BY <1>2, <2>1, <2>2 DEF Due
      <3>. QED  BY <1>2, <2>2, <3>1, RollbackRefuses
    <2>3. CASE (\E s \in DOMAIN work.status : s[2] = p) /\ Rollback(t, "HasSubmissions")
      <3>1. Due(disk, o, "HasSubmissions")  BY <1>2, <2>1, <2>3 DEF Due
      <3>. QED  BY <1>2, <2>3, <3>1, RollbackRefuses
    <2>4. CASE \E db, to : Write(t, db, to)  BY <2>4, WriteHidden
    <2>. QED  BY <1>4, <2>2, <2>3, <2>4 DEF DeleteCases
  <1>5. CASE CreateCase(t)
    <2>. DEFINE ord == Default(o.ord, NextOrd(work, p))
    <2>1. o.kind = "addCase"  BY <1>5 DEF CreateCase, At
    <2>2. CASE p \notin DOMAIN work.problems /\ Rollback(t, "NotFound")
      <3>1. Due(disk, o, "NotFound")  BY <1>2, <2>1, <2>2 DEF Due
      <3>. QED  BY <1>2, <2>2, <3>1, RollbackRefuses
    <2>3. CASE p \in DOMAIN work.problems /\ ~OrdFits(ord) /\ Rollback(t, "OrdExhausted")
      <3>1. ord = NewOrd(disk, o)  BY <1>2 DEF NewOrd
      <3>. HIDE DEF ord
      <3>2. Due(disk, o, "OrdExhausted")  BY <1>2, <2>1, <2>3, <3>1 DEF Due
      <3>. QED  BY <1>2, <2>3, <3>2, RollbackRefuses
    <2>4. CASE \E db, to : Write(t, db, to)  BY <2>4, WriteHidden
    <2>. QED  BY <1>5, <2>2, <2>3, <2>4 DEF CreateCase
  <1>6. CASE UpdateCase(t) \/ DeleteCase(t)
    <2>1. o.kind \in {"changeCase", "removeCase"}  BY <1>6 DEF UpdateCase, DeleteCase, At
    <2>2. CASE ~find_hidden(work, o) /\ Rollback(t, "NotFound")
      <3>1. Due(disk, o, "NotFound")  BY <1>2, <2>1, <2>2 DEF Due
      <3>. QED  BY <1>2, <2>2, <3>1, RollbackRefuses
    <2>3. CASE \E db, to : Write(t, db, to)  BY <2>3, WriteHidden
    <2>. QED  BY <1>6, <2>2, <2>3 DEF UpdateCase, DeleteCase
  <1>. QED  BY <1>3, <1>4, <1>5, <1>6


\* COMMIT is the moment at which the request takes effect.
LEMMA CommitPerforms ==
    ASSUME CatalogInv, NEW t \in Clients, Commit(t)
    PROVE  Promise!Perform(t)
  <1>. DEFINE o == Calls[t].op
              p == Calls[t].op.problem
              cat == CommittedCatalog
              old == CommittedCatalog[p]
  <1>1. disk' = work /\ Reply(t, "Done")  BY DEF Commit
  <1>2. mutex = t /\ OpFields(t, op[t]) /\ Effect(disk, op[t], work)  BY CommitEffect
  <1>3. Promise!Answered(t, "Done") /\ o = op[t]  BY <1>1, <1>2, ReplyAnswers
  <1>. HIDE DEF o
  <1>4. OpFields(t, o) /\ Effect(disk, o, work)  BY <1>2, <1>3
  <1>5. Database(disk) /\ SamplesNumbered(disk)  BY DEF CatalogInv
  <1>6. cat = CatalogOf(disk) /\ CommittedCatalog' = CatalogOf(work)  BY <1>1, Mapping
  <1>7. DOMAIN cat = DOMAIN disk.problems  BY <1>6, CatalogFields
  <1>8. (1..disk.lastProblem)' = 1..work.lastProblem /\ (1..disk.lastCase)' = 1..work.lastCase  BY <1>1
  <1>9. work.status = disk.status => SubmittedTo' = SubmittedTo  BY <1>1, Mapping DEF SubmittedIn
  <1>10. CASE o.kind = "create" /\ work = WithSamples(Created(disk, o), disk.lastProblem + 1, o.samples, Len(o.samples))
    <2>. DEFINE id == disk.lastProblem + 1
                row == [tag |-> o.tag, visible |-> o.visible, samples |-> o.samples, hidden |-> <<>>]
    <2>1. AsCreated(disk, work, o, id, row)  BY <1>4, <1>5, <1>10, CreatePromise
    <2>. HIDE DEF id, row
    <2>2. /\ id \notin 1..disk.lastProblem
          /\ 1..work.lastProblem = (1..disk.lastProblem) \cup {id}
          /\ CatalogOf(work) = [q \in DOMAIN CatalogOf(disk) \cup {id} |-> IF q # id THEN CatalogOf(disk)[q] ELSE row]
          /\ 1..disk.lastCase \subseteq 1..work.lastCase
          /\ work.status = disk.status
      BY <2>1 DEF AsCreated
    <2>3. CommittedCatalog' = [q \in DOMAIN cat \cup {id} |-> IF q # id THEN cat[q] ELSE row]  BY <1>6, <2>2
    <2>4. (1..disk.lastProblem)' = (1..disk.lastProblem) \cup {id}  BY <1>8, <2>2
    <2>5. id \in (1..disk.lastProblem)' \ 1..disk.lastProblem  BY <2>2, <2>4
    <2>6. \E i \in (1..disk.lastProblem)' \ 1..disk.lastProblem :
            /\ (1..disk.lastProblem)' = (1..disk.lastProblem) \cup {i}
            /\ CommittedCatalog' = [q \in DOMAIN CommittedCatalog \cup {i} |-> IF q # i THEN CommittedCatalog[q] ELSE row]
      <3>. WITNESS id \in (1..disk.lastProblem)' \ 1..disk.lastProblem
      <3>. QED  BY <2>3, <2>4
    <2>7. 1..disk.lastCase \subseteq (1..disk.lastCase)' /\ SubmittedTo' = SubmittedTo  BY <1>8, <1>9, <2>2
    <2>8. Promise!CreateProblem(t)  BY <1>10, <2>6, <2>7 DEF Promise!CreateProblem, row, o
    <2>. QED  BY <1>3, <2>8 DEF Promise!Perform
  <1>11. CASE /\ o.kind = "update" /\ p \in DOMAIN disk.problems
              /\ work = IF o.samples = None THEN Updated(disk, o)
                        ELSE WithSamples(Updated(disk, o), p, o.samples, Len(o.samples))
    <2>1. old = View(disk, p)  BY <1>6, <1>11, CatalogFields DEF o
    <2>. DEFINE row == [tag |-> Default(o.tag, old.tag), visible |-> Default(o.visible, old.visible),
                        samples |-> Default(o.samples, old.samples), hidden |-> old.hidden]
    <2>2. /\ CatalogOf(work) = [CatalogOf(disk) EXCEPT ![p] = row]
          /\ work.lastProblem = disk.lastProblem
          /\ 1..disk.lastCase \subseteq 1..work.lastCase
          /\ work.status = disk.status
      BY <1>4, <1>5, <1>11, <2>1, UpdatePromise, SMTT(30) DEF o
    <2>3. row = [tag |-> Promise!Given(o.tag, old.tag), visible |-> Promise!Given(o.visible, old.visible),
                 samples |-> Promise!Given(o.samples, old.samples), hidden |-> old.hidden]
      BY DEF Default, Promise!Given
    <2>. HIDE DEF row
    <2>4. Promise!Become(p, row)  BY <1>6, <1>8, <1>9, <2>2 DEF Promise!Become
    <2>5. p \in DOMAIN CommittedCatalog /\ 1..disk.lastCase \subseteq (1..disk.lastCase)'
      BY <1>7, <1>8, <1>11, <2>2 DEF o
    <2>6. Promise!UpdateProblem(t)  BY <1>11, <2>3, <2>4, <2>5 DEF Promise!UpdateProblem, o
    <2>. QED  BY <1>3, <2>6 DEF Promise!Perform
  <1>12. CASE /\ o.kind = "delete" /\ p \in DOMAIN disk.problems
              /\ \A s \in DOMAIN disk.status : s[2] # p
              /\ work = Removed(disk, o)
    <2>1. AsDeleted(disk, work, o)  BY <1>5, <1>12, DeletePromise DEF o
    <2>2. /\ CatalogOf(work) = [q \in DOMAIN CatalogOf(disk) \ {p} |-> CatalogOf(disk)[q]]
          /\ work.lastProblem = disk.lastProblem /\ work.lastCase = disk.lastCase /\ work.status = disk.status
      BY <2>1 DEF AsDeleted, o
    <2>3. p \in DOMAIN CommittedCatalog \ SubmittedTo  BY <1>7, <1>12, Mapping DEF SubmittedIn
    <2>4. CommittedCatalog' = [q \in DOMAIN CommittedCatalog \ {p} |-> CommittedCatalog[q]]  BY <1>6, <2>2
    <2>5. (1..disk.lastProblem)' = 1..disk.lastProblem /\ (1..disk.lastCase)' = 1..disk.lastCase
          /\ SubmittedTo' = SubmittedTo
      BY <1>8, <1>9, <2>2
    <2>6. Promise!DeleteProblem(t)  BY <1>12, <2>3, <2>4, <2>5 DEF Promise!DeleteProblem, o
    <2>. QED  BY <1>3, <2>6 DEF Promise!Perform
  <1>13. CASE /\ o.kind = "addCase" /\ p \in DOMAIN disk.problems
              /\ OrdFits(NewOrd(disk, o))
              /\ work = CaseAdded(disk, o)
    <2>. DEFINE id == disk.lastCase + 1
                ord == NewOrd(disk, o)
                hidden == [k \in DOMAIN old.hidden \cup {id} |->
                             IF k = id THEN [ord |-> ord, text |-> o.text] ELSE old.hidden[k]]
                more == [old EXCEPT !.hidden = hidden]
    <2>1. old = CatalogOf(disk)[p]  BY <1>6
    <2>2. AsAdded(disk, work, o, p, id, ord, old)  BY <1>4, <1>5, <1>13, <2>1, AddPromise DEF o
    <2>. HIDE DEF id, ord
    <2>3. /\ id \notin 1..disk.lastCase /\ 1..work.lastCase = (1..disk.lastCase) \cup {id}
          /\ ord \in 0..MaxOrd
          /\ IF o.ord = None THEN \A x \in Promise!Ords(old) : x < ord ELSE ord = o.ord
          /\ CatalogOf(work) = [CatalogOf(disk) EXCEPT ![p] = more]
          /\ work.lastProblem = disk.lastProblem /\ work.status = disk.status
      BY <2>2 DEF AsAdded
    <2>4. Promise!Become(p, more)
      <3>. HIDE DEF more
      <3>. QED  BY <1>6, <1>8, <1>9, <2>3 DEF Promise!Become
    <2>5. Promise!Hides(p, hidden)
      <3>. HIDE DEF hidden
      <3>. QED  BY <2>4 DEF Promise!Hides
    <2>6. (1..disk.lastCase)' = (1..disk.lastCase) \cup {id}  BY <1>8, <2>3
    <2>7. id \in (1..disk.lastCase)' \ 1..disk.lastCase  BY <2>3, <2>6
    <2>8. \E i \in (1..disk.lastCase)' \ 1..disk.lastCase, n \in 0..MaxOrd :
            /\ (1..disk.lastCase)' = (1..disk.lastCase) \cup {i}
            /\ IF o.ord = None THEN \A x \in Promise!Ords(old) : x < n ELSE n = o.ord
            /\ Promise!Hides(p, [k \in DOMAIN old.hidden \cup {i} |->
                                   IF k = i THEN [ord |-> n, text |-> o.text] ELSE old.hidden[k]])
      <3>. USE <2>3
      <3>. WITNESS id \in (1..disk.lastCase)' \ 1..disk.lastCase, ord \in 0..MaxOrd
      <3>. QED  BY <2>3, <2>5, <2>6
    <2>9. p \in DOMAIN CommittedCatalog  BY <1>7, <1>13
    <2>10. Promise!CreateCase(t)  BY <1>13, <2>8, <2>9 DEF Promise!CreateCase, o
    <2>. QED  BY <1>3, <2>10 DEF Promise!Perform
  <1>14. CASE o.kind = "changeCase" /\ find_hidden(disk, o) /\ work = CaseChanged(disk, o)
    <2>. DEFINE row == [ord |-> Default(o.ord, old.hidden[o.case].ord), text |-> Default(o.text, old.hidden[o.case].text)]
                hidden == [old.hidden EXCEPT ![o.case] = row]
                more == [old EXCEPT !.hidden = hidden]
    <2>1. old = CatalogOf(disk)[p]  BY <1>6
    <2>2. AsChanged(disk, work, o, p, old, row)  BY <1>4, <1>5, <1>14, <2>1, ChangePromise DEF o
    <2>3. row = [ord |-> Promise!Given(o.ord, old.hidden[o.case].ord),
                 text |-> Promise!Given(o.text, old.hidden[o.case].text)]
      BY DEF Default, Promise!Given
    <2>. HIDE DEF row
    <2>4. /\ p \in DOMAIN CatalogOf(disk)
          /\ o.case \in DOMAIN old.hidden
          /\ CatalogOf(work) = [CatalogOf(disk) EXCEPT ![p] = more]
          /\ work.lastProblem = disk.lastProblem /\ work.lastCase = disk.lastCase /\ work.status = disk.status
      BY <2>2 DEF AsChanged
    <2>5. Promise!Become(p, more)
      <3>. HIDE DEF more
      <3>. QED  BY <1>6, <1>8, <1>9, <2>4 DEF Promise!Become
    <2>6. Promise!Hides(p, hidden)
      <3>. HIDE DEF hidden
      <3>. QED  BY <2>5 DEF Promise!Hides
    <2>7. (1..disk.lastCase)' = 1..disk.lastCase /\ p \in DOMAIN CommittedCatalog  BY <1>6, <1>8, <2>4
    <2>8. Promise!UpdateCase(t)  BY <1>14, <2>3, <2>4, <2>6, <2>7 DEF Promise!UpdateCase, o
    <2>. QED  BY <1>3, <2>8 DEF Promise!Perform
  <1>15. CASE o.kind = "removeCase" /\ find_hidden(disk, o) /\ work = CaseRemoved(disk, o)
    <2>. DEFINE hidden == [k \in DOMAIN old.hidden \ {o.case} |-> old.hidden[k]]
                more == [old EXCEPT !.hidden = hidden]
    <2>1. old = CatalogOf(disk)[p]  BY <1>6
    <2>2. AsRemoved(disk, work, o, p, old)  BY <1>5, <1>15, <2>1, RemovePromise DEF o
    <2>3. /\ p \in DOMAIN CatalogOf(disk)
          /\ o.case \in DOMAIN old.hidden
          /\ CatalogOf(work) = [CatalogOf(disk) EXCEPT ![p] = more]
          /\ work.lastProblem = disk.lastProblem /\ work.lastCase = disk.lastCase /\ work.status = disk.status
      BY <2>2 DEF AsRemoved
    <2>4. Promise!Become(p, more)
      <3>. HIDE DEF more
      <3>. QED  BY <1>6, <1>8, <1>9, <2>3 DEF Promise!Become
    <2>5. Promise!Hides(p, hidden)
      <3>. HIDE DEF hidden
      <3>. QED  BY <2>4 DEF Promise!Hides
    <2>6. (1..disk.lastCase)' = 1..disk.lastCase /\ p \in DOMAIN CommittedCatalog  BY <1>6, <1>8, <2>3
    <2>7. Promise!DeleteCase(t)  BY <1>15, <2>3, <2>5, <2>6 DEF Promise!DeleteCase, o
    <2>. QED  BY <1>3, <2>7 DEF Promise!Perform
  <1>. QED  BY <1>4, <1>10, <1>11, <1>12, <1>13, <1>14, <1>15 DEF Effect, o


\* Every step of a request is a step of the promise, or none.
LEMMA ClientPromise ==
    ASSUME CatalogInv, NEW t \in Clients, ClientNext(t)
    PROVE  \/ UNCHANGED Promise!catalogVars
           \/ Promise!Request(t) \/ Promise!Perform(t) \/ Promise!Refused(t)
  <1>1. CASE Reject(t)
    <2>1. disk' = disk /\ op' = op /\ answer' = answer  BY <1>1 DEF Reject, dbVars, clientVars
    <2>. QED  BY <2>1, NoPromise
  <1>2. CASE Begin(t)  BY <1>2, BeginRequests
  <1>3. CASE Fail(t)
    <2>1. mutex = t /\ Rollback(t, "Failed")  BY <1>3 DEF Fail
    <2>2. Due(disk, op[t], "Failed")  BY DEF Due
    <2>. QED  BY <2>1, <2>2, RollbackRefuses
  <1>4. CASE Commit(t)  BY <1>4, CommitPerforms
  <1>5. CASE CreateProblem(t) \/ ReplaceSamples(t) \/ InsertSample(t) \/ DeleteProblem(t)
    <2>1. \E db, to : Write(t, db, to)  BY <1>5 DEF CreateProblem, ReplaceSamples, InsertSample, DeleteProblem
    <2>. QED  BY <2>1, WriteHidden
  <1>6. CASE UpdateProblem(t) \/ DeleteCases(t) \/ CreateCase(t) \/ UpdateCase(t) \/ DeleteCase(t)
    BY <1>6, FirstStatement
  <1>. QED  BY <1>1, <1>2, <1>3, <1>4, <1>5, <1>6 DEF ClientNext

\* So is every other step.
LEMMA StepPromise ==
    ASSUME CatalogInv, [Next]_vars
    PROVE  [Promise!CatalogNext]_(Promise!catalogVars)
  <1>1. CASE \E t \in Clients : ClientNext(t)
    <2>1. PICK t \in Clients : ClientNext(t)  BY <1>1
    <2>2. \/ UNCHANGED Promise!catalogVars
          \/ Promise!Request(t) \/ Promise!Perform(t) \/ Promise!Refused(t)
      BY <2>1, ClientPromise
    <2>. QED  BY <2>2 DEF Promise!CatalogNext
  <1>2. CASE \E u \in Users, p \in 1..MaxId, solved \in BOOLEAN : Settle(u, p, solved)
    <2>1. Promise!Submission  BY <1>2, SettleSubmits
    <2>. QED  BY <2>1 DEF Promise!CatalogNext
  <1>3. CASE \E b \in Boards : BoardBegin(b) \/ BoardCount(b) \/ BoardPage(b) \/ BoardFail(b)
    <2>1. disk' = disk /\ op' = op /\ answer' = answer
      BY <1>3 DEF BoardBegin, BoardCount, BoardPage, BoardFail, dbVars, clientVars
    <2>2. UNCHANGED Promise!catalogVars  BY <2>1, NoPromise
    <2>. QED  BY <2>2
  <1>4. CASE UNCHANGED vars
    <2>1. disk' = disk /\ op' = op /\ answer' = answer  BY <1>4 DEF vars, dbVars, clientVars
    <2>2. UNCHANGED Promise!catalogVars  BY <2>1, NoPromise
    <2>. QED  BY <2>2
  <1>. QED  BY <1>1, <1>2, <1>3, <1>4 DEF Next

\* The promise starts with what is there at the start and no request.
LEMMA InitPromise ==
    ASSUME Init
    PROVE  Promise!CatalogInit
  <1>1. PICK early \in SUBSET {<<Min(Users), 1>>} :
       work = [problems |-> [p \in {1} |-> [tag |-> Initial, visible |-> TRUE]],
               cases |-> [k \in 1..2 |-> [problem |-> 1, ord |-> k - 1, sample |-> k = 1,
                                          text |-> <<Initial, 2 - k>>]],
               lastProblem |-> 1, lastCase |-> 2,
               status |-> [s \in early |-> [count |-> 1, first |-> 0]]]
    BY DEF Init
  <1>2. disk = work /\ op = [t \in Clients |-> NoOp] /\ answer = [t \in Clients |-> None]  BY DEF Init
  <1>3. DOMAIN disk.problems = {1} /\ DOMAIN disk.cases = 1..2 /\ disk.lastProblem = 1 /\ disk.lastCase = 2
        /\ DOMAIN disk.status = early
    BY <1>1, <1>2
  <1>4. DOMAIN CommittedCatalog = DOMAIN disk.problems
        /\ \A p \in DOMAIN disk.problems : CommittedCatalog[p] = View(disk, p)
    BY Mapping, CatalogFields
  <1>5. Calls = [t \in Clients |-> [op |-> Promise!Idle, answer |-> None]]
    BY <1>2, Mapping DEF Calls
  <1>6. 1..disk.lastProblem = DOMAIN CommittedCatalog  BY <1>3, <1>4
  <1>7. ASSUME NEW p \in DOMAIN CommittedCatalog PROVE DOMAIN CommittedCatalog[p].hidden \subseteq 1..disk.lastCase
    <2>1. CommittedCatalog[p] = View(disk, p)  BY <1>4, <1>7
    <2>2. CommittedCatalog[p].hidden = HiddenView(disk, p)  BY <2>1, ViewFields
    <2>3. DOMAIN HiddenView(disk, p) = HiddenOf(disk, p)  BY HiddenFields
    <2>4. HiddenOf(disk, p) \subseteq 1..2  BY <1>3 DEF HiddenOf, CasesOf
    <2>. QED  BY <1>3, <2>2, <2>3, <2>4
  <1>8. SubmittedTo \subseteq DOMAIN CommittedCatalog
    <2>1. \A s \in early : s[2] = 1  OBVIOUS
    <2>. QED  BY <1>3, <1>4, <2>1 DEF SubmittedTo
  <1>. QED  BY <1>5, <1>6, <1>7, <1>8 DEF Promise!CatalogInit

\* Each request of an administrator takes effect as a whole at one moment, COMMIT,
\* on the problem it names and nothing else, and is answered accordingly; refused
\* and failed ones leave no trace: the transactions of db/problem_admin.cpp and
\* db/testcase_admin.cpp implement module Catalog.
THEOREM CatalogIsImplemented == Spec => ImplementsCatalog
  <1>1. Init => Promise!CatalogInit  BY InitPromise
  <1>2. CatalogInv /\ [Next]_vars => [Promise!CatalogNext]_(Promise!catalogVars)  BY StepPromise
  <1>. QED  BY <1>1, <1>2, CatalogInvariant, PTL DEF Spec, ImplementsCatalog, Promise!CatalogSpec

-----------------------------------------------------------------------------
(* Keywords and tags: what a filter finds.                                 *)

\* instr finds the places where the part stands.
LEMMA InstrIs ==
    ASSUME NEW C, NEW text, NEW part, Chars(text, C), Chars(part, C)
    PROVE  /\ Len(text) \in Nat /\ Len(part) \in Nat
           /\ instr(text, part) <=> \E i \in 0..(Len(text) - Len(part)) : StandsAt(text, part, i)
  <1>. DEFINE n == Len(text)
              m == Len(part)
  <1>1. text \in Seq(C) /\ part \in Seq(C) /\ n \in Nat /\ m \in Nat  BY LenProperties DEF Chars
  <1>2. ASSUME NEW i \in 0..(n - m)
        PROVE  SubSeq(text, i + 1, i + m) = part <=> StandsAt(text, part, i)
    <2>. DEFINE s == SubSeq(text, i + 1, i + m)
    <2>1. s \in Seq(C) /\ Len(s) = m /\ \A c \in 1..m : s[c] = text[i + c]
      <3>. DEFINE a == i + 1
                  b == i + m
      <3>. HIDE DEF n, m
      <3>1. a \in Nat /\ b \in Nat /\ a >= 1 /\ b <= n /\ a <= b + 1
            /\ (IF a <= b THEN b - a + 1 ELSE 0) = m
            /\ \A c \in 1..m : a + c - 1 = i + c /\ a - 1 + c = i + c
        BY <1>1
      <3>2. \A c \in 1..m : c \in 1..(b - a + 1)  BY <1>1
      <3>. HIDE DEF a, b
      <3>3. /\ SubSeq(text, a, b) \in Seq(C)
            /\ Len(SubSeq(text, a, b)) = IF a <= b THEN b - a + 1 ELSE 0
            /\ \A c \in 1..(b - a + 1) : SubSeq(text, a, b)[c] = text[a + c - 1]
        BY <1>1, <3>1, SubSeqProperties DEF n
      <3>. QED  BY <3>1, <3>2, <3>3 DEF a, b
    <2>. HIDE DEF s
    <2>2. ASSUME StandsAt(text, part, i) PROVE s = part
      <3>1. \A c \in 1..m : s[c] = part[c]  BY <2>1, <2>2 DEF StandsAt
      <3>. QED  BY <1>1, <2>1, <3>1, SeqEqual
    <2>3. ASSUME s = part PROVE StandsAt(text, part, i)  BY <2>1, <2>3 DEF StandsAt
    <2>. QED  BY <2>2, <2>3 DEF s
  <1>3. instr(text, part) <=> \E i \in 0..(n - m) : SubSeq(text, i + 1, i + m) = part  BY DEF instr
  <1>. HIDE DEF n, m
  <1>4. (\E i \in 0..(n - m) : SubSeq(text, i + 1, i + m) = part) <=> \E i \in 0..(n - m) : StandsAt(text, part, i)
    BY <1>2
  <1>. QED  BY <1>1, <1>3, <1>4 DEF n, m

\* The places that the pattern from i on matches from, when g tells it for those behind.
MatchedFrom(text, p, g, i) ==
    LET any == {j \in 1..(Len(text) + 1) : \E k \in g[i + 1] : j <= k}
        escaped == {j \in 1..Len(text) : Same(text[j], p[i + 1]) /\ j + 1 \in g[i + 2]}
        one == {j \in 1..Len(text) : (p[i] = "_" \/ Same(text[j], p[i])) /\ j + 1 \in g[i + 1]}
    IN  CASE i > Len(p) -> {Len(text) + 1}
          [] i <= Len(p) /\ p[i] = "%" -> any
          [] i < Len(p) /\ p[i] = "\\" -> escaped
          [] OTHER -> one

\* The function that Like reads its answer from.
IsMatching(g, text, p) == g = [i \in 1..(Len(p) + 1) |-> MatchedFrom(text, p, g, i)]

\* Behind its end the pattern matches at the end of the text.
LEMMA MatchedAtEnd ==
    ASSUME NEW text, NEW p, NEW n \in Nat, Len(p) = n, NEW g, NEW i \in Nat, i > n
    PROVE  MatchedFrom(text, p, g, i) = {Len(text) + 1}
  <1>1. i > Len(p) /\ ~(i <= Len(p)) /\ ~(i < Len(p))  OBVIOUS
  <1>. QED  BY <1>1 DEF MatchedFrom

\* What MatchedFrom needs of g is behind i.
LEMMA MatchedAhead ==
    ASSUME NEW text, NEW p, NEW n \in Nat, Len(p) = n, NEW g, NEW h, NEW i \in 1..(n + 1),
           \A k \in (i + 1)..(n + 1) : g[k] = h[k]
    PROVE  MatchedFrom(text, p, g, i) = MatchedFrom(text, p, h, i)
  <1>1. CASE i = n + 1
    <2>1. i > n /\ i \in Nat  BY <1>1
    <2>2. MatchedFrom(text, p, g, i) = {Len(text) + 1}  BY <2>1, MatchedAtEnd
    <2>3. MatchedFrom(text, p, h, i) = {Len(text) + 1}  BY <2>1, MatchedAtEnd
    <2>. QED  BY <2>2, <2>3
  <1>2. CASE i # n + 1
    <2>1. ~(i > n) /\ i + 1 \in (i + 1)..(n + 1) /\ (i < n => i + 2 \in (i + 1)..(n + 1))  BY <1>2
    <2>2. g[i + 1] = h[i + 1] /\ (i < n => g[i + 2] = h[i + 2])  BY <2>1
    <2>3. CASE p[i] = "%"  BY <2>1, <2>2, <2>3 DEF MatchedFrom
    <2>4. CASE p[i] # "%" /\ p[i] = "\\" /\ i < n  BY <2>1, <2>2, <2>4 DEF MatchedFrom
    <2>5. CASE p[i] # "%" /\ ~(p[i] = "\\" /\ i < n)  BY <2>1, <2>2, <2>5 DEF MatchedFrom
    <2>. QED  BY <2>3, <2>4, <2>5
  <1>. QED  BY <1>1, <1>2

\* There is such a function, for any text and pattern.
LEMMA SomeMatching ==
    ASSUME NEW text, NEW p, NEW n \in Nat, Len(p) = n
    PROVE  \E g : IsMatching(g, text, p)
  <1>. DEFINE Solves(g, m) == \A i \in (n + 1 - m)..(n + 1) : g[i] = MatchedFrom(text, p, g, i)
              Fails == {m \in 0..n : ~\E g : Solves(g, m)}
  <1>1. Fails = {}
    <2>1. SUFFICES ASSUME Fails # {} PROVE FALSE  OBVIOUS
    <2>2. PICK m \in Fails : \A k \in Fails : m <= k
      <3>1. Fails \in SUBSET Nat  OBVIOUS
      <3>. HIDE DEF Fails
      <3>. QED  BY <2>1, <3>1, Smallest
    <2>3. m \in 0..n /\ ~\E g : Solves(g, m)  OBVIOUS
    <2>4. m # 0
      <3>. DEFINE none == [i \in 1..(n + 1) |-> {Len(text) + 1}]
      <3>1. \A i \in (n + 1 - 0)..(n + 1) : i \in Nat /\ i \in 1..(n + 1) /\ i > n  OBVIOUS
      <3>2. \A i \in 1..(n + 1) : none[i] = {Len(text) + 1}  OBVIOUS
      <3>. HIDE DEF none
      <3>3. \A i \in (n + 1 - 0)..(n + 1) : MatchedFrom(text, p, none, i) = {Len(text) + 1}
        BY <3>1, MatchedAtEnd
      <3>4. Solves(none, 0)  BY <3>1, <3>2, <3>3
      <3>. QED  BY <2>3, <3>4
    <2>5. m - 1 \in 0..n /\ ~(m <= m - 1)  BY <2>3, <2>4
    <2>6. m - 1 \notin Fails
      <3>. HIDE DEF Fails
      <3>. QED  BY <2>2, <2>5
    <2>7. PICK g : Solves(g, m - 1)  BY <2>5, <2>6
    <2>. DEFINE a == n + 1 - m
                new == MatchedFrom(text, p, g, a)
                h == [i \in 1..(n + 1) |-> IF i = a THEN new ELSE g[i]]
    <2>8. a \in 1..(n + 1) /\ n + 1 - (m - 1) = a + 1  BY <2>3
    <2>9. \A i \in (a + 1)..(n + 1) : g[i] = MatchedFrom(text, p, g, i)  BY <2>7, <2>8
    <2>. HIDE DEF a, new
    <2>10. h[a] = new /\ \A i \in (a + 1)..(n + 1) : h[i] = g[i]
      <3>1. \A i \in (a + 1)..(n + 1) : i \in 1..(n + 1) /\ i # a  BY <2>8
      <3>. QED  BY <2>8, <3>1
    <2>. HIDE DEF h
    <2>11. ASSUME NEW i \in a..(n + 1) PROVE h[i] = MatchedFrom(text, p, h, i)
      <3>1. i \in 1..(n + 1) /\ \A k \in (i + 1)..(n + 1) : k \in (a + 1)..(n + 1)  BY <2>8
      <3>2. \A k \in (i + 1)..(n + 1) : g[k] = h[k]  BY <2>10, <3>1
      <3>3. MatchedFrom(text, p, g, i) = MatchedFrom(text, p, h, i)
        <4>. HIDE DEF Solves
        <4>. QED  BY <3>1, <3>2, MatchedAhead
      <3>4. CASE i = a  BY <2>10, <3>3, <3>4 DEF new
      <3>5. CASE i # a
        <4>1. i \in (a + 1)..(n + 1)  BY <2>8, <3>5
        <4>. QED  BY <2>9, <2>10, <3>3, <4>1
      <3>. QED  BY <3>4, <3>5
    <2>12. Solves(h, m)  BY <2>11 DEF a
    <2>. QED  BY <2>3, <2>12
  <1>2. PICK g : Solves(g, n)
    <2>1. n \in 0..n  OBVIOUS
    <2>2. n \notin Fails
      <3>. HIDE DEF Fails
      <3>. QED  BY <1>1
    <2>. QED  BY <2>1, <2>2
  <1>. DEFINE h == [i \in 1..(n + 1) |-> g[i]]
              of(i) == MatchedFrom(text, p, h, i)
  <1>3. \A i \in 1..(n + 1) : h[i] = g[i]  OBVIOUS
  <1>4. \A i \in 1..(n + 1) : g[i] = MatchedFrom(text, p, g, i)
    <2>1. n + 1 - n = 1  OBVIOUS
    <2>. QED  BY <1>2, <2>1
  <1>5. \A i \in 1..(n + 1) : g[i] = of(i)
    <2>1. SUFFICES ASSUME NEW i \in 1..(n + 1) PROVE g[i] = of(i)  OBVIOUS
    <2>2. \A k \in (i + 1)..(n + 1) : k \in 1..(n + 1)  OBVIOUS
    <2>. HIDE DEF h
    <2>3. \A k \in (i + 1)..(n + 1) : g[k] = h[k]  BY <1>3, <2>2
    <2>. HIDE DEF Solves
    <2>4. MatchedFrom(text, p, g, i) = MatchedFrom(text, p, h, i)  BY <2>3, MatchedAhead
    <2>. QED  BY <1>4, <2>4
  <1>6. h = [i \in 1..(n + 1) |-> of(i)]
    <2>1. h = [i \in 1..(n + 1) |-> g[i]]  OBVIOUS
    <2>. HIDE DEF h, of
    <2>. QED  BY <1>5, <2>1
  <1>. HIDE DEF h
  <1>7. IsMatching(h, text, p)  BY <1>6 DEF IsMatching
  <1>. QED  BY <1>7

\* Like takes one.
LEMMA LikeIs ==
    ASSUME NEW text, NEW p, NEW n \in Nat, Len(p) = n
    PROVE  \E g : IsMatching(g, text, p) /\ (Like(text, p) <=> 1 \in g[1])
  <1>. DEFINE h == CHOOSE g : IsMatching(g, text, p)
  <1>1. IsMatching(h, text, p)
    <2>. HIDE DEF h
    <2>. QED  BY SomeMatching DEF h
  <1>2. Like(text, p) <=> 1 \in h[1]  BY DEF Like, IsMatching, MatchedFrom
  <1>. QED  BY <1>1, <1>2

\* The characters with a meaning in a LIKE pattern.
Meta == {"\\", "%", "_"}

\* The pattern of a keyword: character i stands at q[i], behind an escape character if
\* it has a meaning.
PatternAt(p, q, K) ==
    /\ Len(p) \in Nat
    /\ q \in [1..(Len(K) + 1) -> 1..Len(p)]
    /\ q[1] = 2
    /\ q[Len(K) + 1] = Len(p)
    /\ p[1] = "%"
    /\ p[Len(p)] = "%"
    /\ \A i \in 1..Len(K) :
        \/ K[i] \in Meta /\ p[q[i]] = "\\" /\ p[q[i] + 1] = K[i] /\ q[i + 1] = q[i] + 2
        \/ K[i] \notin Meta /\ p[q[i]] = K[i] /\ q[i + 1] = q[i] + 1

\* escape_like puts the characters, escaped where they have a meaning, one behind the other.
LEMMA EscapedIs ==
    ASSUME NEW C, NEW K, Chars(K, C), NEW s, s = [i \in 1..Len(K) |-> IF K[i] \in Meta THEN <<"\\", K[i]>> ELSE <<K[i]>>]
    PROVE  /\ Len(K) \in Nat
           /\ Chars(escape_like(K), C \cup {"\\"})
           /\ \E at : Placed(escape_like(K), at, s, Len(K))
  <1>. DEFINE n == Len(K)
              D == C \cup {"\\"}
              E == escape_like(K)
  <1>1. n \in Nat /\ DOMAIN K = 1..n /\ \A i \in 1..n : K[i] \in C
    <2>1. K \in Seq(C)  BY DEF Chars
    <2>2. n \in Nat /\ DOMAIN K = 1..n  BY <2>1, LenProperties
    <2>. QED  BY <2>1, <2>2, ElementOfSeq
  <1>2. E = FlattenSeq(s)
    <2>. DEFINE mine(i) == IF K[i] \in Meta THEN <<"\\", K[i]>> ELSE <<K[i]>>
    <2>1. s = [i \in DOMAIN K |-> mine(i)]  BY <1>1
    <2>2. E = FlattenSeq([i \in DOMAIN K |-> mine(i)])  BY DEF escape_like, Meta
    <2>. QED  BY <2>1, <2>2
  <1>3. Parts(s, n, D) /\ DOMAIN s = 1..n
    <2>1. \A i \in 1..n : s[i] = IF K[i] \in Meta THEN <<"\\", K[i]>> ELSE <<K[i]>>  OBVIOUS
    <2>2. \A i \in 1..n : <<"\\", K[i]>> \in Seq(D) /\ <<K[i]>> \in Seq(D)  BY <1>1
    <2>3. DOMAIN s = 1..n  OBVIOUS
    <2>. HIDE DEF n, D
    <2>4. \A i \in 1..n : s[i] \in Seq(D)  BY <2>1, <2>2
    <2>. QED  BY <2>3, <2>4 DEF Parts
  <1>4. Len(s) = n
    <2>1. s \in [1..n -> Seq(D)]
      <3>1. \A i \in 1..n : s[i] \in Seq(D)  BY <1>3 DEF Parts
      <3>2. s = [i \in 1..n |-> s[i]]
        <4>. DEFINE mine(i) == IF K[i] \in Meta THEN <<"\\", K[i]>> ELSE <<K[i]>>
        <4>1. s = [i \in 1..n |-> mine(i)]  OBVIOUS
        <4>. HIDE DEF mine, n
        <4>. QED  BY <4>1
      <3>. HIDE DEF n, D
      <3>. QED  BY <3>1, <3>2
    <2>. HIDE DEF n, D
    <2>2. s \in Seq(Seq(D))  BY <1>1, <2>1, SeqDef
    <2>. QED  BY <1>1, <2>1, <2>2, LenProperties
  <1>. HIDE DEF E, n, D
  <1>5. CASE n = 0
    <2>1. s = <<>>
      <3>1. s \in Seq(Seq(D))
        <4>1. s = [i \in 1..n |-> s[i]]
          <5>. DEFINE mine(i) == IF K[i] \in Meta THEN <<"\\", K[i]>> ELSE <<K[i]>>
          <5>1. s = [i \in 1..n |-> mine(i)]  BY DEF n
          <5>. HIDE DEF mine
          <5>. QED  BY <5>1
        <4>2. s \in [1..n -> Seq(D)]  BY <1>5, <4>1
        <4>. QED  BY <1>1, <4>2, SeqDef
      <3>. QED  BY <1>4, <1>5, <3>1, EmptySeq
    <2>2. E = <<>>
      <3>1. FlattenSeq(<<>>) = <<>>  BY DEF FlattenSeq
      <3>. QED  BY <1>2, <2>1, <3>1
    <2>. DEFINE at == [j \in 1..1 |-> 0]
    <2>3. at \in [1..(0 + 1) -> 0..0] /\ at[1] = 0 /\ at[0 + 1] = 0  OBVIOUS
    <2>4. Len(E) = 0 /\ E \in Seq(D)  BY <2>2
    <2>. HIDE DEF at
    <2>5. Placed(E, at, s, n)  BY <1>5, <2>3, <2>4 DEF Placed
    <2>. QED  BY <1>1, <2>4, <2>5 DEF E, n, D, Chars
  <1>6. CASE n # 0
    <2>1. n \in Nat \ {0}  BY <1>1, <1>6
    <2>2. FlattenSeq(s) \in Seq(D) /\ \E at : Placed(FlattenSeq(s), at, s, n)  BY <1>3, <1>4, <2>1, FlattenPlaces
    <2>. QED  BY <1>1, <1>2, <2>2 DEF E, n, D, Chars
  <1>. QED  BY <1>5, <1>6

\* The pattern that a keyword becomes.
LEMMA PatternIs ==
    ASSUME NEW C, NEW K, Chars(K, C)
    PROVE  \E q : PatternAt(title_like_pattern(K), q, K)
  <1>. DEFINE n == Len(K)
              s == [i \in 1..n |-> IF K[i] \in Meta THEN <<"\\", K[i]>> ELSE <<K[i]>>]
              E == escape_like(K)
              z == Len(E)
              p == title_like_pattern(K)
              D == C \cup {"\\"}
  <1>1. n \in Nat /\ Chars(E, D) /\ \E at : Placed(E, at, s, n)
    <2>. HIDE DEF s, D
    <2>. QED  BY EscapedIs DEF s, D
  <1>2. PICK at : Placed(E, at, s, n)
    <2>. HIDE DEF s, n, E
    <2>. QED  BY <1>1
  <1>3. \A i \in 1..n : \/ K[i] \in Meta /\ Len(s[i]) = 2 /\ s[i][1] = "\\" /\ s[i][2] = K[i]
                        \/ K[i] \notin Meta /\ Len(s[i]) = 1 /\ s[i][1] = K[i]
    <2>1. SUFFICES ASSUME NEW i \in 1..n
          PROVE \/ K[i] \in Meta /\ Len(s[i]) = 2 /\ s[i][1] = "\\" /\ s[i][2] = K[i]
                \/ K[i] \notin Meta /\ Len(s[i]) = 1 /\ s[i][1] = K[i]
      OBVIOUS
    <2>2. s[i] = IF K[i] \in Meta THEN <<"\\", K[i]>> ELSE <<K[i]>>  OBVIOUS
    <2>. DEFINE k == K[i]
    <2>. HIDE DEF s, k
    <2>3. CASE k \in Meta  BY <2>2, <2>3 DEF k
    <2>4. CASE k \notin Meta  BY <2>2, <2>4 DEF k
    <2>. QED  BY <2>3, <2>4 DEF k
  <1>. DEFINE size(i) == Len(s[i])
  <1>4. /\ z \in Nat
        /\ at \in [1..(n + 1) -> 0..z] /\ at[1] = 0 /\ at[n + 1] = z
        /\ \A i \in 1..n : at[i + 1] = at[i] + size(i) /\ \A c \in 1..size(i) : E[at[i] + c] = s[i][c]
    <2>. HIDE DEF s, E, n
    <2>. QED  BY <1>2 DEF Placed
  <1>5. p = Wrapped(E, "%")  BY DEF title_like_pattern, Wrapped
  <1>6. Len(p) = z + 2 /\ p[1] = "%" /\ p[z + 2] = "%" /\ \A i \in 1..z : p[i + 1] = E[i]
    <2>1. Chars(E, D)  BY <1>1
    <2>. DEFINE w == Wrapped(E, "%")
    <2>. HIDE DEF E, p, D
    <2>2. WrappedAt(E, "%", w)  BY <2>1, WrappedIs
    <2>. HIDE DEF w
    <2>. QED  BY <1>5, <2>2 DEF WrappedAt, w
  <1>. HIDE DEF p, z, E, s, n
  <1>. DEFINE q == [i \in 1..(n + 1) |-> at[i] + 2]
  <1>7. \A i \in 1..(n + 1) : at[i] \in 0..z /\ at[i] + 2 \in 1..(z + 2)  BY <1>4
  <1>8. q \in [1..(n + 1) -> 1..(z + 2)] /\ q[1] = 2 /\ q[n + 1] = z + 2
    <2>1. 1 \in 1..(n + 1) /\ n + 1 \in 1..(n + 1)  BY <1>1
    <2>. QED  BY <1>4, <1>7, <2>1
  <1>9. \A i \in 1..n : q[i] = at[i] + 2 /\ q[i + 1] = at[i + 1] + 2 /\ at[i] \in 0..z /\ at[i + 1] \in 0..z
    <2>1. \A i \in 1..n : i \in 1..(n + 1) /\ i + 1 \in 1..(n + 1)  BY <1>1
    <2>. QED  BY <1>7, <2>1
  <1>. HIDE DEF q
  <1>10. ASSUME NEW i \in 1..n
         PROVE  \/ K[i] \in Meta /\ p[q[i]] = "\\" /\ p[q[i] + 1] = K[i] /\ q[i + 1] = q[i] + 2
                \/ K[i] \notin Meta /\ p[q[i]] = K[i] /\ q[i + 1] = q[i] + 1
    <2>. DEFINE a == at[i]
                b == at[i + 1]
    <2>1. a \in 0..z /\ b \in 0..z /\ q[i] = a + 2 /\ q[i + 1] = b + 2 /\ b = a + size(i)  BY <1>4, <1>9
    <2>2. \A c \in 1..size(i) : E[a + c] = s[i][c]  BY <1>4
    <2>. HIDE DEF a, b
    <2>3. CASE K[i] \in Meta
      <3>1. size(i) = 2 /\ s[i][1] = "\\" /\ s[i][2] = K[i]  BY <1>3, <2>3
      <3>2. a + 1 \in 1..z /\ a + 2 \in 1..z /\ (a + 1) + 1 = q[i] /\ (a + 2) + 1 = q[i] + 1 /\ q[i + 1] = q[i] + 2
        BY <1>4, <2>1, <3>1
      <3>3. E[a + 1] = "\\" /\ E[a + 2] = K[i]
        <4>1. 1 \in 1..size(i) /\ 2 \in 1..size(i)  BY <3>1
        <4>. QED  BY <2>2, <3>1, <4>1
      <3>4. p[q[i]] = "\\" /\ p[q[i] + 1] = K[i]  BY <1>6, <3>2, <3>3
      <3>. QED  BY <2>3, <3>2, <3>4
    <2>4. CASE K[i] \notin Meta
      <3>1. size(i) = 1 /\ s[i][1] = K[i]  BY <1>3, <2>4
      <3>2. a + 1 \in 1..z /\ (a + 1) + 1 = q[i] /\ q[i + 1] = q[i] + 1  BY <1>4, <2>1, <3>1
      <3>3. E[a + 1] = K[i]
        <4>1. 1 \in 1..size(i)  BY <3>1
        <4>. QED  BY <2>2, <3>1, <4>1
      <3>4. p[q[i]] = K[i]  BY <1>6, <3>2, <3>3
      <3>. QED  BY <2>4, <3>2, <3>4
    <2>. QED  BY <2>3, <2>4
  <1>11. z + 2 \in Nat /\ Len(p) = z + 2  BY <1>4, <1>6
  <1>12. PatternAt(p, q, K)  BY <1>6, <1>8, <1>10, <1>11 DEF PatternAt, n
  <1>. QED  BY <1>12 DEF p

\* Once a character of the keyword is matched, the rest of the pattern is.
LEMMA LetterMatched ==
    ASSUME NEW T, NEW p, NEW K, NEW q, PatternAt(p, q, K), NEW g, IsMatching(g, T, p),
           Len(K) \in Nat, NEW i \in 1..Len(K), NEW j
    PROVE  j \in g[q[i]] <=> j \in 1..Len(T) /\ Same(T[j], K[i]) /\ j + 1 \in g[q[i + 1]]
  <1>. DEFINE n == Len(p)
              k == Len(K)
              a == q[i]
  <1>1. n \in Nat /\ q \in [1..(k + 1) -> 1..n]  BY DEF PatternAt
  <1>2. a \in 1..n /\ q[i + 1] \in 1..n
    <2>1. i \in 1..(k + 1) /\ i + 1 \in 1..(k + 1)  OBVIOUS
    <2>. HIDE DEF k, n
    <2>. QED  BY <1>1, <2>1
  <1>3. \/ K[i] \in Meta /\ p[a] = "\\" /\ p[a + 1] = K[i] /\ q[i + 1] = a + 2
        \/ K[i] \notin Meta /\ p[a] = K[i] /\ q[i + 1] = a + 1
    BY DEF PatternAt
  <1>4. g[a] = MatchedFrom(T, p, g, a)
    <2>. DEFINE of(x) == MatchedFrom(T, p, g, x)
    <2>1. g = [x \in 1..(n + 1) |-> of(x)]  BY DEF IsMatching
    <2>2. a \in 1..(n + 1)  BY <1>1, <1>2
    <2>. HIDE DEF of, n, a
    <2>3. g[a] = of(a)  BY <2>1, <2>2
    <2>. QED  BY <2>3 DEF of
  <1>. HIDE DEF a
  <1>5. CASE K[i] \in Meta /\ p[a] = "\\" /\ p[a + 1] = K[i] /\ q[i + 1] = a + 2
    <2>1. ~(a > Len(p)) /\ a < Len(p)
      <3>. DEFINE b == q[i + 1]
      <3>. HIDE DEF n, b
      <3>1. ~(a > n) /\ a < n  BY <1>1, <1>2, <1>5 DEF b
      <3>. QED  BY <3>1 DEF n
    <2>2. MatchedFrom(T, p, g, a) = {x \in 1..Len(T) : Same(T[x], p[a + 1]) /\ x + 1 \in g[a + 2]}
      <3>1. p[a] # "%" /\ p[a] = "\\"  BY <1>5
      <3>. QED  BY <2>1, <3>1 DEF MatchedFrom
    <2>. QED  BY <1>4, <1>5, <2>2 DEF a
  <1>6. CASE K[i] \notin Meta /\ p[a] = K[i] /\ q[i + 1] = a + 1
    <2>1. ~(a > Len(p))
      <3>. HIDE DEF n
      <3>1. ~(a > n)  BY <1>1, <1>2
      <3>. QED  BY <3>1 DEF n
    <2>2. p[a] # "%" /\ p[a] # "\\" /\ K[i] # "_"  BY <1>6 DEF Meta
    <2>3. MatchedFrom(T, p, g, a) = {x \in 1..Len(T) : (p[a] = "_" \/ Same(T[x], p[a])) /\ x + 1 \in g[a + 1]}
      BY <2>1, <2>2 DEF MatchedFrom
    <2>. QED  BY <1>4, <1>6, <2>2, <2>3 DEF a
  <1>. QED  BY <1>3, <1>5, <1>6 DEF a

\* A percent sign matches any text.
LEMMA PercentMatched ==
    ASSUME NEW T, NEW p, NEW g, IsMatching(g, T, p), Len(p) \in Nat, NEW a \in 1..Len(p), p[a] = "%", NEW j
    PROVE  j \in g[a] <=> j \in 1..(Len(T) + 1) /\ \E k \in g[a + 1] : j <= k
  <1>. DEFINE n == Len(p)
              of(x) == MatchedFrom(T, p, g, x)
  <1>1. g = [x \in 1..(n + 1) |-> of(x)]  BY DEF IsMatching
  <1>2. a \in 1..(n + 1) /\ ~(a > n) /\ a <= n  OBVIOUS
  <1>. HIDE DEF of, n
  <1>3. g[a] = of(a)  BY <1>1, <1>2
  <1>4. of(a) = {x \in 1..(Len(T) + 1) : \E k \in g[a + 1] : x <= k}  BY <1>2 DEF of, n, MatchedFrom
  <1>. QED  BY <1>3, <1>4

\* From its character i on the keyword stands in the text at j, in whichever case.
RestAt(T, K, i, j) ==
    /\ j \in 1..(Len(T) + 1)
    /\ j + (Len(K) + 1 - i) <= Len(T) + 1
    /\ \A d \in 0..(Len(K) - i) : Same(T[j + d], K[i + d])

\* One character more.
LEMMA RestIs ==
    ASSUME NEW T, NEW K, Len(T) \in Nat, Len(K) \in Nat, NEW i \in 1..Len(K), NEW j
    PROVE  RestAt(T, K, i, j) <=> j \in 1..Len(T) /\ Same(T[j], K[i]) /\ RestAt(T, K, i + 1, j + 1)
  <1>. DEFINE t == Len(T)
              k == Len(K)
  <1>0. t \in Nat /\ k \in Nat /\ i \in 1..k  OBVIOUS
  <1>. HIDE DEF t, k
  <1>1. SUFFICES ASSUME j \in 1..(t + 1)
        PROVE RestAt(T, K, i, j) <=> j \in 1..t /\ Same(T[j], K[i]) /\ RestAt(T, K, i + 1, j + 1)
    <2>1. j \in 1..t => j \in 1..(t + 1)  BY <1>0
    <2>. QED  BY <2>1 DEF RestAt, t
  <1>2. RestAt(T, K, i, j) <=> /\ j + (k + 1 - i) <= t + 1
                               /\ \A d \in 0..(k - i) : Same(T[j + d], K[i + d])
    BY <1>1 DEF RestAt, t, k
  <1>3. RestAt(T, K, i + 1, j + 1) <=> /\ j + 1 \in 1..(t + 1)
                                       /\ (j + 1) + (k + 1 - (i + 1)) <= t + 1
                                       /\ \A d \in 0..(k - (i + 1)) : Same(T[(j + 1) + d], K[(i + 1) + d])
    BY DEF RestAt, t, k
  <1>4. /\ j + (k + 1 - i) = (j + 1) + (k + 1 - (i + 1))
        /\ j + (k + 1 - i) <= t + 1 => j \in 1..t
        /\ j \in 1..t => j + 1 \in 1..(t + 1)
        /\ 0 \in 0..(k - i) /\ j + 0 = j /\ i + 0 = i
    BY <1>0, <1>1
  <1>5. (\A d \in 0..(k - i) : Same(T[j + d], K[i + d]))
          <=> Same(T[j], K[i]) /\ \A d \in 0..(k - (i + 1)) : Same(T[(j + 1) + d], K[(i + 1) + d])
    <2>1. ASSUME \A d \in 0..(k - i) : Same(T[j + d], K[i + d])
          PROVE  Same(T[j], K[i]) /\ \A d \in 0..(k - (i + 1)) : Same(T[(j + 1) + d], K[(i + 1) + d])
      <3>1. Same(T[j], K[i])
        <4>1. Same(T[j + 0], K[i + 0])  BY <1>4, <2>1
        <4>. QED  BY <1>4, <4>1
      <3>2. ASSUME NEW d \in 0..(k - (i + 1)) PROVE Same(T[(j + 1) + d], K[(i + 1) + d])
        <4>1. d + 1 \in 0..(k - i) /\ (j + 1) + d = j + (d + 1) /\ (i + 1) + d = i + (d + 1)  BY <1>0, <1>1
        <4>. QED  BY <2>1, <4>1
      <3>. QED  BY <3>1, <3>2
    <2>2. ASSUME Same(T[j], K[i]), \A d \in 0..(k - (i + 1)) : Same(T[(j + 1) + d], K[(i + 1) + d]), NEW d \in 0..(k - i)
          PROVE  Same(T[j + d], K[i + d])
      <3>1. CASE d = 0  BY <1>4, <2>2, <3>1
      <3>2. CASE d # 0
        <4>1. d - 1 \in 0..(k - (i + 1)) /\ (j + 1) + (d - 1) = j + d /\ (i + 1) + (d - 1) = i + d
          BY <1>0, <1>1, <3>2
        <4>. QED  BY <2>2, <4>1
      <3>. QED  BY <3>1, <3>2
    <2>. QED  BY <2>1, <2>2
  <1>. QED  BY <1>2, <1>3, <1>4, <1>5

\* The pattern from the place of character i on matches where the rest of the keyword
\* stands.
LEMMA RestMatched ==
    ASSUME NEW T, NEW p, NEW K, NEW q, PatternAt(p, q, K), NEW g, IsMatching(g, T, p),
           Len(T) \in Nat, Len(K) \in Nat
    PROVE  \A i \in 1..(Len(K) + 1) : \A j : j \in g[q[i]] <=> RestAt(T, K, i, j)
  <1>. DEFINE k == Len(K)
              t == Len(T)
              n == Len(p)
              Good(i) == \A j : j \in g[q[i]] <=> RestAt(T, K, i, j)
              Missed == {m \in 0..k : ~Good(k + 1 - m)}
  <1>1. Good(k + 1)
    <2>1. n \in Nat /\ n \in 1..n /\ p[n] = "%" /\ q[k + 1] = n
      <3>1. n \in Nat /\ p[n] = "%" /\ q[k + 1] = n /\ q \in [1..(k + 1) -> 1..n]  BY DEF PatternAt
      <3>2. k + 1 \in 1..(k + 1)  OBVIOUS
      <3>. HIDE DEF k, n
      <3>. QED  BY <3>1, <3>2
    <2>2. g[n + 1] = {t + 1}
      <3>. DEFINE of(x) == MatchedFrom(T, p, g, x)
      <3>1. g = [x \in 1..(n + 1) |-> of(x)]  BY DEF IsMatching
      <3>2. n + 1 \in 1..(n + 1) /\ n + 1 > n /\ n + 1 \in Nat  BY <2>1
      <3>3. of(n + 1) = {t + 1}  BY <2>1, <3>2, MatchedAtEnd
      <3>. HIDE DEF of, n
      <3>. QED  BY <3>1, <3>2, <3>3
    <2>3. ASSUME NEW j PROVE j \in g[n] <=> RestAt(T, K, k + 1, j)
      <3>1. j \in g[n] <=> j \in 1..(t + 1) /\ \E x \in g[n + 1] : j <= x  BY <2>1, PercentMatched
      <3>2. RestAt(T, K, k + 1, j) <=> /\ j \in 1..(t + 1)
                                       /\ j + (k + 1 - (k + 1)) <= t + 1
                                       /\ \A d \in 0..(k - (k + 1)) : Same(T[j + d], K[(k + 1) + d])
        BY DEF RestAt
      <3>. HIDE DEF k, t, n
      <3>3. k \in Nat /\ t \in Nat  BY DEF k, t
      <3>4. k + 1 - (k + 1) = 0 /\ 0..(k - (k + 1)) = {}  BY <3>3
      <3>5. j \in 1..(t + 1) => j <= t + 1 /\ j + 0 <= t + 1  BY <3>3
      <3>. QED  BY <2>2, <3>1, <3>2, <3>4, <3>5
    <2>. QED  BY <2>1, <2>3
  <1>2. ASSUME NEW i \in 1..k, Good(i + 1) PROVE Good(i)
    <2>1. SUFFICES ASSUME NEW j PROVE j \in g[q[i]] <=> RestAt(T, K, i, j)  OBVIOUS
    <2>2. j \in g[q[i]] <=> j \in 1..t /\ Same(T[j], K[i]) /\ j + 1 \in g[q[i + 1]]  BY LetterMatched
    <2>3. RestAt(T, K, i, j) <=> j \in 1..t /\ Same(T[j], K[i]) /\ RestAt(T, K, i + 1, j + 1)  BY RestIs
    <2>4. j + 1 \in g[q[i + 1]] <=> RestAt(T, K, i + 1, j + 1)  BY <1>2
    <2>. QED  BY <2>2, <2>3, <2>4
  <1>3. k \in Nat  OBVIOUS
  <1>. HIDE DEF Good, k
  <1>4. Missed = {}
    <2>1. SUFFICES ASSUME Missed # {} PROVE FALSE  OBVIOUS
    <2>2. PICK m \in Missed : \A x \in Missed : m <= x
      <3>1. Missed \in SUBSET Nat  OBVIOUS
      <3>. HIDE DEF Missed
      <3>. QED  BY <2>1, <3>1, Smallest
    <2>3. m \in 0..k /\ ~Good(k + 1 - m)  OBVIOUS
    <2>4. m # 0
      <3>1. k + 1 - 0 = k + 1  BY <1>3
      <3>. QED  BY <1>1, <2>3, <3>1
    <2>5. /\ m - 1 \in 0..k /\ ~(m <= m - 1)
          /\ k + 1 - m \in 1..k /\ k + 1 - (m - 1) = (k + 1 - m) + 1
      BY <1>3, <2>3, <2>4
    <2>6. m - 1 \notin Missed
      <3>. HIDE DEF Missed
      <3>. QED  BY <2>2, <2>5
    <2>7. Good((k + 1 - m) + 1)  BY <2>5, <2>6
    <2>. QED  BY <1>2, <2>3, <2>5, <2>7
  <1>5. ASSUME NEW i \in 1..(k + 1) PROVE Good(i)
    <2>1. k + 1 - i \in 0..k /\ k + 1 - (k + 1 - i) = i  BY <1>3
    <2>2. k + 1 - i \notin Missed
      <3>. HIDE DEF Missed
      <3>. QED  BY <1>4
    <2>. QED  BY <2>1, <2>2
  <1>. QED  BY <1>5 DEF Good, k

\* The text in lower case is as long, and each of its characters is.
LEMMA LowerIs ==
    ASSUME NEW C, NEW T \in Seq(C)
    PROVE  /\ Lower(T) \in Seq({lower(c) : c \in C})
           /\ Len(Lower(T)) = Len(T)
           /\ \A i \in 1..Len(T) : Lower(T)[i] = lower(T[i])
           /\ Chars(Lower(T), {lower(c) : c \in C})
  <1>. DEFINE n == Len(T)
              D == {lower(c) : c \in C}
              of(i) == lower(T[i])
  <1>1. n \in Nat /\ DOMAIN T = 1..n /\ \A i \in 1..n : T[i] \in C  BY LenProperties, ElementOfSeq
  <1>2. Lower(T) = [i \in 1..n |-> of(i)]  BY <1>1 DEF Lower
  <1>3. \A i \in 1..n : of(i) \in D  BY <1>1
  <1>. HIDE DEF n, D, of
  <1>4. Lower(T) \in [1..n -> D] /\ \A i \in 1..n : Lower(T)[i] = of(i)  BY <1>2, <1>3
  <1>5. Lower(T) \in Seq(D)  BY <1>1, <1>4, SeqDef
  <1>6. Len(Lower(T)) = n  BY <1>1, <1>4, <1>5, LenProperties
  <1>. QED  BY <1>4, <1>5, <1>6 DEF n, D, of, Chars

\* A keyword is found in a text exactly where it stands in it but for the case of ASCII
\* letters, for all texts: title_like_pattern takes the wildcards of LIKE and its escape
\* character out of effect.
THEOREM KeywordFound ==
    ASSUME NEW C, NEW T \in Seq(C), NEW K \in Seq(C)
    PROVE  Like(T, title_like_pattern(K)) <=> instr(Lower(T), Lower(K))
  <1>. DEFINE p == title_like_pattern(K)
              n == Len(p)
              t == Len(T)
              k == Len(K)
              Folded == {lower(c) : c \in C}
              LowerAt(i) == StandsAt(Lower(T), Lower(K), i)
  <1>1. Chars(T, C) /\ Chars(K, C)  BY DEF Chars
  <1>2. t \in Nat /\ k \in Nat  BY LenProperties
  <1>3. PICK q : PatternAt(p, q, K)  BY <1>1, PatternIs
  <1>4. n \in Nat /\ 1 \in 1..n /\ p[1] = "%" /\ q[1] = 2
    <2>1. n \in Nat /\ p[1] = "%" /\ q[1] = 2 /\ q \in [1..(k + 1) -> 1..n]  BY <1>3 DEF PatternAt
    <2>2. 1 \in 1..(k + 1)  BY <1>2
    <2>3. 2 \in 1..n
      <3>. HIDE DEF n, k, p
      <3>. QED  BY <2>1, <2>2
    <2>. HIDE DEF n, p
    <2>. QED  BY <2>1, <2>3
  <1>. HIDE DEF p
  <1>5. PICK g : IsMatching(g, T, p) /\ (Like(T, p) <=> 1 \in g[1])  BY <1>4, LikeIs
  <1>6. \A i \in 1..(k + 1) : \A j : j \in g[q[i]] <=> RestAt(T, K, i, j)  BY <1>2, <1>3, <1>5, RestMatched
  <1>7. \A j : j \in g[2] <=> RestAt(T, K, 1, j)
    <2>1. 1 \in 1..(k + 1)  BY <1>2
    <2>. QED  BY <1>4, <1>6, <2>1
  <1>8. 1 \in g[1] <=> 1 \in 1..(t + 1) /\ \E x \in g[1 + 1] : 1 <= x  BY <1>4, <1>5, PercentMatched
  <1>9. 1 \in g[1] <=> \E x : RestAt(T, K, 1, x)
    <2>1. 1 + 1 = 2 /\ 1 \in 1..(t + 1)  BY <1>2
    <2>2. \A x : RestAt(T, K, 1, x) => 1 <= x
      <3>1. \A x : RestAt(T, K, 1, x) => x \in 1..(t + 1)  BY DEF RestAt
      <3>. QED  BY <1>2, <3>1
    <2>. QED  BY <1>7, <1>8, <2>1, <2>2
  <1>12. /\ Chars(Lower(T), Folded) /\ Chars(Lower(K), Folded)
         /\ Len(Lower(T)) = t /\ Len(Lower(K)) = k
         /\ \A i \in 1..t : Lower(T)[i] = lower(T[i])
         /\ \A i \in 1..k : Lower(K)[i] = lower(K[i])
    BY LowerIs
  <1>10. (\E x : RestAt(T, K, 1, x)) <=> \E i \in 0..(t - k) : LowerAt(i)
    <2>0. \A x : RestAt(T, K, 1, x) <=> /\ x \in 1..(t + 1)
                                        /\ x + (k + 1 - 1) <= t + 1
                                        /\ \A d \in 0..(k - 1) : Same(T[x + d], K[1 + d])
      BY DEF RestAt
    <2>1. \A i \in 0..(t - k) : LowerAt(i) <=> \A c \in 1..k : Same(T[i + c], K[c])
      <3>1. \A i \in 0..(t - k) : LowerAt(i) <=> \A c \in 1..k : Lower(T)[i + c] = Lower(K)[c]
        BY <1>12 DEF StandsAt
      <3>2. \A i \in 0..(t - k), c \in 1..k : i + c \in 1..t  BY <1>2
      <3>3. \A i \in 0..(t - k), c \in 1..k :
              Lower(T)[i + c] = lower(T[i + c]) /\ Lower(K)[c] = lower(K[c])
        BY <1>12, <3>2
      <3>. QED  BY <3>1, <3>3 DEF Same
    <2>. HIDE DEF t, k, LowerAt
    <2>2. ASSUME NEW x, RestAt(T, K, 1, x) PROVE \E i \in 0..(t - k) : LowerAt(i)
      <3>1. x \in 1..(t + 1) /\ x + (k + 1 - 1) <= t + 1 /\ \A d \in 0..(k - 1) : Same(T[x + d], K[1 + d])
        BY <2>0, <2>2
      <3>2. x - 1 \in 0..(t - k)  BY <1>2, <3>1
      <3>3. \A c \in 1..k : c - 1 \in 0..(k - 1) /\ x + (c - 1) = (x - 1) + c /\ 1 + (c - 1) = c  BY <1>2, <3>1
      <3>4. \A c \in 1..k : Same(T[(x - 1) + c], K[c])
        <4>1. \A c \in 1..k : Same(T[x + (c - 1)], K[1 + (c - 1)])  BY <3>1, <3>3
        <4>. QED  BY <3>3, <4>1
      <3>. QED  BY <2>1, <3>2, <3>4
    <2>3. ASSUME NEW i \in 0..(t - k), LowerAt(i) PROVE \E x : RestAt(T, K, 1, x)
      <3>1. \A c \in 1..k : Same(T[i + c], K[c])  BY <2>1, <2>3
      <3>2. i + 1 \in 1..(t + 1) /\ (i + 1) + (k + 1 - 1) <= t + 1  BY <1>2
      <3>3. \A d \in 0..(k - 1) : 1 + d \in 1..k /\ (i + 1) + d = i + (1 + d)  BY <1>2
      <3>4. \A d \in 0..(k - 1) : Same(T[(i + 1) + d], K[1 + d])  BY <3>1, <3>3
      <3>5. RestAt(T, K, 1, i + 1)  BY <2>0, <3>2, <3>4
      <3>. QED  BY <3>5
    <2>. QED  BY <2>2, <2>3
  <1>11. instr(Lower(T), Lower(K)) <=> \E i \in 0..(t - k) : LowerAt(i)
    <2>. HIDE DEF t, k, Folded
    <2>. QED  BY <1>12, InstrIs
  <1>. QED  BY <1>5, <1>9, <1>10, <1>11 DEF p

\* A text that trim leaves as it is.
Trimmed(t) == t # <<>> => t[1] # " " /\ t[Len(t)] # " "

\* trim leaves what has no white space at its ends.
LEMMA TrimKeeps ==
    ASSUME NEW C, NEW t, Chars(t, C), Trimmed(t)
    PROVE  trim(t) = t
  <1>. DEFINE ink == {i \in DOMAIN t : t[i] # " "}
              n == Len(t)
  <1>1. n \in Nat /\ DOMAIN t = 1..n  BY LenProperties DEF Chars
  <1>2. CASE t = <<>>
    <2>1. ink = {}
      <3>1. n = 0  BY <1>2, EmptySeq
      <3>. HIDE DEF n
      <3>. QED  BY <1>1, <3>1
    <2>. QED  BY <1>2, <2>1 DEF trim
  <1>3. CASE t # <<>>
    <2>1. n # 0  BY <1>3, EmptySeq DEF Chars
    <2>2. t[1] # " " /\ t[n] # " "  BY <1>3 DEF Trimmed
    <2>. HIDE DEF n
    <2>10. n \in Nat  BY <1>1
    <2>12. \A x : x \in ink <=> x \in 1..n /\ t[x] # " "  BY <1>1
    <2>. HIDE DEF ink
    <2>11. 1 \in 1..n /\ n \in 1..n /\ \A x \in 1..n : 1 <= x /\ x <= n  BY <2>1, <2>10
    <2>3. 1 \in ink /\ n \in ink /\ \A x \in ink : x \in 1..n  BY <2>2, <2>11, <2>12
    <2>4. ink # {} /\ ink \in SUBSET Int /\ ink \in SUBSET Nat
      <3>1. \A x \in 1..n : x \in Int /\ x \in Nat  OBVIOUS
      <3>. QED  BY <2>3, <3>1
    <2>5. Min(ink) \in ink /\ Min(ink) <= 1
      <3>1. \A x \in ink : Min(ink) <= x  BY <2>4, MinIs
      <3>. QED  BY <2>3, <2>4, <3>1, MinIs
    <2>6. Max(ink) \in ink /\ n <= Max(ink)
      <3>1. n \in Int /\ \A x \in ink : x <= n  BY <2>3, <2>10, <2>11
      <3>. QED  BY <2>3, <2>4, <3>1, MaxIs
    <2>7. Min(ink) = 1 /\ Max(ink) = n
      <3>. DEFINE a == Min(ink)
                  b == Max(ink)
      <3>. HIDE DEF a, b
      <3>1. a \in ink /\ a <= 1 /\ b \in ink /\ n <= b  BY <2>5, <2>6 DEF a, b
      <3>2. a \in 1..n /\ b \in 1..n  BY <2>3, <3>1
      <3>4. a <= 1 /\ n <= b  BY <3>1
      <3>3. a = 1 /\ b = n  BY <2>10, <3>2, <3>4
      <3>. QED  BY <3>3 DEF a, b
    <2>8. trim(t) = SubSeq(t, 1, n)  BY <2>4, <2>7 DEF trim, ink
    <2>9. SubSeq(t, 1, n) = t  BY SubSeqFull DEF n, Chars
    <2>. QED  BY <2>8, <2>9
  <1>. QED  BY <1>2, <1>3

\* What trim returns has no white space at its ends.
LEMMA TrimIs ==
    ASSUME NEW C, NEW s, Chars(s, C)
    PROVE  trim(s) \in Seq(C) /\ Trimmed(trim(s))
  <1>. DEFINE ink == {i \in DOMAIN s : s[i] # " "}
              n == Len(s)
              a == Min(ink)
              b == Max(ink)
  <1>1. n \in Nat /\ DOMAIN s = 1..n  BY LenProperties DEF Chars
  <1>2. CASE ink = {}
    <2>1. trim(s) = <<>>  BY <1>2 DEF trim
    <2>. QED  BY <2>1 DEF Trimmed
  <1>3. CASE ink # {}
    <2>1. trim(s) = SubSeq(s, a, b)  BY <1>3 DEF trim
    <2>. HIDE DEF n
    <2>13. n \in Nat /\ \A x \in 1..n : x <= n  BY <1>1
    <2>2. \A x : x \in ink <=> x \in 1..n /\ s[x] # " "  BY <1>1
    <2>. HIDE DEF ink
    <2>12. ink \in SUBSET Nat /\ ink \in SUBSET Int
      <3>1. \A x \in 1..n : x \in Int /\ x \in Nat  OBVIOUS
      <3>. QED  BY <2>2, <3>1
    <2>3. a \in ink /\ \A x \in ink : a <= x  BY <1>3, <2>12, MinIs
    <2>4. n \in Int /\ \A x \in ink : x <= n
      <3>1. n \in Int  BY <2>13
      <3>. QED  BY <2>2, <2>13, <3>1
    <2>5. b \in ink  BY <1>3, <2>4, <2>12, MaxIs
    <2>. DEFINE t == SubSeq(s, a, b)
                m == b - a + 1
    <2>. HIDE DEF a, b
    <2>6. a \in 1..n /\ b \in 1..n /\ a <= b  BY <2>2, <2>3, <2>5
    <2>14. s[a] # " " /\ s[b] # " "  BY <2>2, <2>3, <2>5
    <2>7. \A i \in a..b : s[i] \in C
      <3>1. \A i \in a..b : i \in 1..n  BY <2>6, <2>13
      <3>2. \A i \in 1..n : s[i] \in C  BY ElementOfSeq DEF n, Chars
      <3>. QED  BY <3>1, <3>2
    <2>8. t \in Seq(C) /\ Len(t) = m /\ \A i \in 1..m : t[i] = s[a + i - 1]
      <3>1. a \in Int /\ b \in Int /\ a <= b  BY <2>6, <2>13
      <3>. QED  BY <2>7, <3>1, SubSeqProperties
    <2>. HIDE DEF t
    <2>9. m \in Nat /\ 1 \in 1..m /\ m \in 1..m /\ a + 1 - 1 = a /\ a + m - 1 = b  BY <2>6, <2>13
    <2>. HIDE DEF m
    <2>10. t[1] = s[a] /\ t[m] = s[b]  BY <2>8, <2>9
    <2>11. Trimmed(t)  BY <2>8, <2>10, <2>14 DEF Trimmed
    <2>. QED  BY <2>1, <2>8, <2>11 DEF t
  <1>. QED  BY <1>2, <1>3

\* A list of tags that parse_tags can accept: trimmed, not empty, without a comma.
TagList(tags, C) ==
    /\ tags \in Seq(Seq(C))
    /\ \A i \in DOMAIN tags : Trimmed(tags[i]) /\ tags[i] # <<>> /\ "," \notin Range(tags[i])

\* So is a list of them.
LEMMA TagsWithoutComma ==
    ASSUME NEW C, NEW tags, TagList(tags, C)
    PROVE  tags \in Seq(Seq(C \ {","}))
  <1>. DEFINE n == Len(tags)
              S == Seq(C \ {","})
  <1>1. tags \in Seq(Seq(C)) /\ n \in Nat /\ DOMAIN tags = 1..n /\ tags \in [1..n -> Seq(C)]
    <2>1. tags \in Seq(Seq(C))  BY DEF TagList
    <2>. QED  BY <2>1, LenProperties
  <1>2. \A i \in 1..n : tags[i] \in S
    <2>1. SUFFICES ASSUME NEW i \in 1..n PROVE tags[i] \in S  OBVIOUS
    <2>2. tags[i] \in Seq(C) /\ "," \notin Range(tags[i])  BY <1>1 DEF TagList
    <2>. HIDE DEF S
    <2>3. tags[i] \in Seq(C \ {","})  BY <2>2, WithoutMark
    <2>. QED  BY <2>3 DEF S
  <1>. HIDE DEF n, S
  <1>3. tags \in [1..n -> S]  BY <1>1, <1>2
  <1>4. tags \in Seq(S)  BY <1>1, <1>3, SeqDef
  <1>. QED  BY <1>4 DEF S

\* What the column holds reads back as the accepted list: split_tags undoes join_tags,
\* for tags of any characters and any number of them.
THEOREM TagsReadBack ==
    ASSUME NEW C, NEW tags, TagList(tags, C)
    PROVE  split_tags(join_tags(tags)) = tags
  <1>. DEFINE pieces == Pieces(join_tags(tags), ",")
              one(j) == IF trim(pieces[j]) = <<>> THEN <<>> ELSE <<trim(pieces[j])>>
  <1>1. split_tags(join_tags(tags)) = FlattenSeq([j \in DOMAIN pieces |-> one(j)])  BY DEF split_tags
  <1>2. CASE tags = <<>>
    <2>1. pieces = <<<<>>>>
      <3>1. join_tags(tags) = <<>>  BY <1>2 DEF join_tags, Joined
      <3>. QED  BY <3>1, PiecesOfEmpty
    <2>. DEFINE parts == [j \in DOMAIN pieces |-> one(j)]
    <2>2. DOMAIN pieces = 1..1 /\ pieces[1] = <<>>
      <3>. HIDE DEF pieces
      <3>. QED  BY <2>1
    <2>3. one(1) = <<>>
      <3>1. trim(<<>>) = <<>>
        <4>1. Chars(<<>>, {})  BY DEF Chars
        <4>. QED  BY <4>1, TrimKeeps DEF Trimmed
      <3>. HIDE DEF pieces
      <3>. QED  BY <2>2, <3>1
    <2>. HIDE DEF pieces, one
    <2>4. parts = <<<<>>>>
      <3>1. parts = [j \in 1..1 |-> one(j)]  BY <2>2
      <3>2. \A j \in 1..1 : one(j) = <<>>  BY <2>3
      <3>3. <<<<>>>> = [j \in 1..1 |-> <<>>]  OBVIOUS
      <3>. HIDE DEF parts
      <3>. QED  BY <3>1, <3>2, <3>3
    <2>5. FlattenSeq(<<<<>>>>) = <<>>
      <3>. DEFINE Q == <<<<>>>>
      <3>1. Len(Q) = 1 /\ Q[1] = <<>>  OBVIOUS
      <3>. HIDE DEF Q
      <3>2. 1 \in Nat \ {0} /\ 1 \in 1..1  OBVIOUS
      <3>3. PICK f : IsJoined(f, Q, 1) /\ FlattenSeq(Q) = f[1]  BY <3>1, <3>2, FlattenIs
      <3>4. f[1] = Q[1]
        <4>. DEFINE F(i) == IF i = 1 THEN Q[i] ELSE f[i - 1] \o Q[i]
        <4>1. f = [i \in 1..1 |-> F(i)]  BY <3>3 DEF IsJoined
        <4>2. F(1) = Q[1]  OBVIOUS
        <4>. HIDE DEF F
        <4>. QED  BY <3>2, <4>1, <4>2
      <3>. QED  BY <3>1, <3>3, <3>4 DEF Q
    <2>. HIDE DEF parts
    <2>6. FlattenSeq(parts) = <<>>  BY <2>4, <2>5
    <2>. QED  BY <1>1, <1>2, <2>6 DEF parts
  <1>3. CASE tags # <<>>
    <2>. DEFINE D == C \ {","}
    <2>1. tags \in Seq(Seq(D)) /\ "," \notin D  BY TagsWithoutComma
    <2>2. pieces = tags
      <3>. HIDE DEF D
      <3>1. Pieces(Joined(tags, ","), ",") = tags  BY <1>3, <2>1, PiecesOfJoined
      <3>. QED  BY <3>1 DEF join_tags
    <2>3. ASSUME NEW j \in DOMAIN tags PROVE one(j) = <<tags[j]>>
      <3>1. tags[j] \in Seq(C) /\ Trimmed(tags[j]) /\ tags[j] # <<>>
        <4>1. tags \in Seq(Seq(C)) /\ Trimmed(tags[j]) /\ tags[j] # <<>>  BY DEF TagList
        <4>2. DOMAIN tags = 1..Len(tags)  BY <4>1, LenProperties
        <4>3. tags[j] \in Seq(C)  BY <4>1, <4>2, ElementOfSeq
        <4>. QED  BY <4>1, <4>3
      <3>2. trim(tags[j]) = tags[j]  BY <3>1, TrimKeeps DEF Chars
      <3>. HIDE DEF pieces
      <3>. QED  BY <2>2, <3>1, <3>2
    <2>4. [j \in DOMAIN pieces |-> one(j)] = [j \in DOMAIN tags |-> <<tags[j]>>]
      <3>. HIDE DEF pieces, one
      <3>. QED  BY <2>2, <2>3
    <2>5. FlattenSeq([j \in DOMAIN tags |-> <<tags[j]>>]) = tags  BY <1>3, <2>1, FlattenSingles
    <2>. HIDE DEF pieces, one
    <2>. QED  BY <1>1, <2>4, <2>5
  <1>. QED  BY <1>2, <1>3

\* Between marks f stands in the joined texts exactly if it is one of them.
FoundIfAmong(K, f, mark) ==
    instr(Wrapped(Joined(K, mark), mark), Wrapped(f, mark)) <=> \E j \in 1..Len(K) : K[j] = f

\* So it is, if neither f nor one of them has a mark in it.
LEMMA FoundAmong ==
    ASSUME NEW mark, NEW C, mark \notin C, NEW K, Text(K, C), NEW f, Chars(f, C), f # <<>>
    PROVE  FoundIfAmong(K, f, mark)
  <1>. DEFINE D == C \cup {mark}
              t == Joined(K, mark)
              w == Wrapped(t, mark)
              e == Wrapped(f, mark)
  <1>1. Chars(t, D)
    <2>1. CASE K = <<>>
      <3>1. t = <<>>  BY <2>1 DEF Joined
      <3>. QED  BY <3>1 DEF Chars
    <2>2. CASE K # <<>>  BY <2>2, JoinedIs
    <2>. QED  BY <2>1, <2>2
  <1>. HIDE DEF t
  <1>2. Chars(w, D) /\ WrappedAt(t, mark, w)
    <2>1. D \cup {mark} = D  OBVIOUS
    <2>2. Chars(w, D \cup {mark}) /\ WrappedAt(t, mark, w)
      <3>. HIDE DEF D
      <3>. QED  BY <1>1, WrappedIs
    <2>. HIDE DEF D, w
    <2>. QED  BY <2>1, <2>2
  <1>3. Chars(e, D) /\ WrappedAt(f, mark, e)  BY WrappedIs
  <1>. HIDE DEF w, e, D
  <1>4. instr(w, e) <=> \E i \in 0..(Len(w) - Len(e)) : StandsAt(w, e, i)  BY <1>2, <1>3, InstrIs
  <1>5. CASE K = <<>>
    <2>1. t = <<>> /\ Len(K) = 0  BY <1>5 DEF Joined, t
    <2>2. Len(t) = 0  BY <2>1
    <2>3. Len(w) = 2  BY <1>2, <2>2 DEF WrappedAt
    <2>4. Len(f) \in Nat /\ Len(f) # 0 /\ Len(e) = Len(f) + 2
      <3>1. f \in Seq(C)  BY DEF Chars
      <3>. QED  BY <1>3, <3>1, LenProperties, EmptySeq DEF WrappedAt
    <2>. DEFINE m == Len(f)
                x == Len(w) - Len(e)
    <2>5. x = 2 - (m + 2) /\ m \in Nat /\ m # 0  BY <2>3, <2>4
    <2>. HIDE DEF m, x
    <2>6. 0..x = {}  BY <2>5
    <2>7. ~instr(w, e)  BY <1>4, <2>6 DEF x
    <2>8. 1..Len(K) = {}  BY <2>1
    <2>. QED  BY <2>7, <2>8 DEF w, e, t, FoundIfAmong
  <1>6. CASE K # <<>>
    <2>. DEFINE text == <<mark>> \o t
                z == Len(t)
    <2>1. PICK p : Blocks(mark, text, p, K)  BY <1>6, JoinedIs DEF t
    <2>2. Len(text) = z + 1 /\ text[1] = mark /\ \A i \in 1..z : text[i + 1] = t[i]  BY <1>1, MarkFirst
    <2>3. z \in Nat /\ Len(w) = z + 2 /\ w[1] = mark /\ w[z + 2] = mark /\ \A i \in 1..z : w[i + 1] = t[i]
      BY <1>2 DEF WrappedAt
    <2>. HIDE DEF text, z
    <2>4. Len(w) = Len(text) + 1 /\ w[Len(text) + 1] = mark
      <3>1. (z + 1) + 1 = z + 2  BY <2>3
      <3>. QED  BY <2>2, <2>3, <3>1
    <2>5. \A x \in 1..Len(text) : w[x] = text[x]
      <3>1. SUFFICES ASSUME NEW x \in 1..(z + 1) PROVE w[x] = text[x]  BY <2>2
      <3>2. CASE x = 1  BY <2>2, <2>3, <3>2
      <3>3. CASE x # 1
        <4>1. x - 1 \in 1..z /\ (x - 1) + 1 = x  BY <2>3, <3>3
        <4>2. w[(x - 1) + 1] = t[x - 1] /\ text[(x - 1) + 1] = t[x - 1]  BY <2>2, <2>3, <4>1
        <4>. QED  BY <4>1, <4>2
      <3>. QED  BY <3>2, <3>3
    <2>6. (\E i \in 0..(Len(w) - Len(e)) : StandsAt(w, e, i)) <=> \E j \in 1..Len(K) : K[j] = f
      BY <1>3, <2>1, <2>4, <2>5, FoundAsBlock
    <2>. QED  BY <1>4, <2>6 DEF w, e, t, FoundIfAmong
  <1>. QED  BY <1>5, <1>6

\* A tag finds exactly the problems that have it: never one with a longer tag that
\* contains it, and none is missed, whatever the tags are (build_where's condition on
\* the column that join_tags wrote).
THEOREM TagsFound ==
    ASSUME NEW C, NEW tags, TagList(tags, C), NEW f \in Seq(C), f # <<>>, "," \notin Range(f)
    PROVE  MatchesTag(join_tags(tags), f) <=> f \in Range(tags)
  <1>. DEFINE D == C \ {","}
              n == Len(tags)
  <1>1. MatchesTag(join_tags(tags), f) <=> instr(Wrapped(Joined(tags, ","), ","), Wrapped(f, ","))
    BY DEF MatchesTag, join_tags, tag_match_needle, Wrapped
  <1>2. "," \notin D /\ Text(tags, D) /\ Chars(f, D)
    <2>1. tags \in Seq(Seq(D))  BY TagsWithoutComma
    <2>2. f \in Seq(D)  BY WithoutMark
    <2>. QED  BY <2>1, <2>2 DEF Text, Chars
  <1>3. instr(Wrapped(Joined(tags, ","), ","), Wrapped(f, ",")) <=> \E j \in 1..n : tags[j] = f
    <2>1. FoundIfAmong(tags, f, ",")
      <3>. HIDE DEF D
      <3>. QED  BY <1>2, FoundAmong
    <2>. QED  BY <2>1 DEF FoundIfAmong
  <1>4. DOMAIN tags = 1..n
    <2>1. tags \in Seq(Seq(C))  BY DEF TagList
    <2>. QED  BY <2>1, LenProperties
  <1>5. f \in Range(tags) <=> \E j \in 1..n : tags[j] = f
    <2>1. Range(tags) = {tags[j] : j \in DOMAIN tags}  BY DEF Range
    <2>. HIDE DEF n
    <2>. QED  BY <1>4, <2>1
  <1>. QED  BY <1>1, <1>3, <1>5

\* The texts that are tried are texts.
LEMMA TextsAre ==
    ASSUME NEW C, NEW w \in Texts(C)
    PROVE  w \in Seq(C)
  <1>1. PICK n \in 0..MaxText : w \in [1..n -> C]  BY DEF Texts
  <1>2. n \in Nat  BY TextAssumption
  <1>. QED  BY <1>1, <1>2, SeqDef

\* What parse_tags accepts of such texts is a list of tags.
LEMMA ParsedIs ==
    ASSUME NEW C, NEW n \in Nat, NEW raw \in [1..n -> Texts(C)], NEW tags \in parse_tags(raw)
    PROVE  TagList(tags, C)
  <1>1. tags = [i \in 1..n |-> trim(raw[i])] /\ AcceptsTags(tags)  BY DEF parse_tags
  <1>2. \A i \in 1..n : tags[i] \in Seq(C) /\ Trimmed(tags[i])
    <2>1. SUFFICES ASSUME NEW i \in 1..n PROVE tags[i] \in Seq(C) /\ Trimmed(tags[i])  OBVIOUS
    <2>2. raw[i] \in Seq(C)  BY TextsAre
    <2>3. trim(raw[i]) \in Seq(C) /\ Trimmed(trim(raw[i]))  BY <2>2, TrimIs DEF Chars
    <2>. QED  BY <1>1, <2>3
  <1>3. DOMAIN tags = 1..n /\ tags \in [1..n -> Seq(C)]  BY <1>1, <1>2
  <1>4. tags \in Seq(Seq(C))  BY <1>3, SeqDef
  <1>. QED  BY <1>1, <1>2, <1>3, <1>4 DEF TagList, AcceptsTags

\* The filters of the lists are literal: what the column holds reads back as the
\* accepted tags, a tag finds exactly the problems that have it, and a keyword exactly
\* the titles it stands in but for the case of ASCII letters (db/problems.cpp,
\* problem/list_query.cpp).
THEOREM FiltersAlwaysLiteral == FiltersLiteral
  <1>1. TagsExact
    <2>. DEFINE C == {"a", "b", ",", " "}
                words == Texts(C)
                filters == {f \in {trim(w) : w \in words} : f # <<>> /\ "," \notin Range(f)}
    <2>1. SUFFICES ASSUME NEW raw \in UNION {[1..n -> words] : n \in 0..MaxTags}, NEW tags \in parse_tags(raw)
                   PROVE /\ split_tags(join_tags(tags)) = tags
                         /\ \A f \in filters : MatchesTag(join_tags(tags), f) <=> f \in Range(tags)
      BY DEF TagsExact
    <2>2. PICK n \in 0..MaxTags : raw \in [1..n -> words]  OBVIOUS
    <2>. HIDE DEF C
    <2>3. TagList(tags, C)
      <3>1. n \in Nat  BY TextAssumption
      <3>. QED  BY <2>2, <3>1, ParsedIs
    <2>4. split_tags(join_tags(tags)) = tags  BY <2>3, TagsReadBack
    <2>5. ASSUME NEW f \in filters PROVE MatchesTag(join_tags(tags), f) <=> f \in Range(tags)
      <3>1. PICK w \in words : f = trim(w)  OBVIOUS
      <3>2. f # <<>> /\ "," \notin Range(f)  OBVIOUS
      <3>3. w \in Seq(C)  BY TextsAre
      <3>4. f \in Seq(C)  BY <3>1, <3>3, TrimIs DEF Chars
      <3>. QED  BY <2>3, <3>2, <3>4, TagsFound
    <2>. QED  BY <2>4, <2>5
  <1>2. KeywordLiteral
    <2>. DEFINE C == {"a", "A", "%", "_", "\\"}
    <2>1. SUFFICES ASSUME NEW title \in Texts(C), NEW keyword \in Texts(C)
                   PROVE Like(title, title_like_pattern(keyword)) <=> instr(Lower(title), Lower(keyword))
      BY DEF KeywordLiteral
    <2>. HIDE DEF C
    <2>2. title \in Seq(C) /\ keyword \in Seq(C)  BY TextsAre
    <2>. QED  BY <2>2, KeywordFound
  <1>. QED  BY <1>1, <1>2 DEF FiltersLiteral

-----------------------------------------------------------------------------
(* What the list, the page of a problem and the samples show.              *)

\* A page up to the last one starts within the list.
LEMMA PageStarts ==
    ASSUME NEW n \in Nat, NEW last \in Nat, last # 0 => (last - 1) * PageSize < n
    PROVE  \A k \in 1..last : (k - 1) * PageSize < n /\ (k - 1) * PageSize \in Nat
  <1>1. SUFFICES ASSUME NEW k \in 1..last PROVE (k - 1) * PageSize < n /\ (k - 1) * PageSize \in Nat  OBVIOUS
  <1>. DEFINE a == k - 1
              b == last - 1
  <1>2. a \in Nat /\ b \in Nat /\ a <= b /\ last # 0  OBVIOUS
  <1>3. b * PageSize < n  BY <1>2
  <1>4. PageSize \in Nat  BY CatalogAssumption
  <1>. HIDE DEF a, b
  <1>5. a * PageSize <= b * PageSize /\ a * PageSize \in Nat /\ b * PageSize \in Nat  BY <1>2, <1>4
  <1>. DEFINE x == a * PageSize
              y == b * PageSize
  <1>. HIDE DEF x, y
  <1>6. x < n /\ x \in Nat  BY <1>3, <1>5 DEF x, y
  <1>. QED  BY <1>6 DEF x, a

\* The pages from 1 to the last, joined, are the list.
LEMMA PagesJoined ==
    ASSUME NEW S, NEW s \in Seq(S), NEW last \in Nat,
           last = 0 => Len(s) = 0,
           last # 0 => (last - 1) * PageSize < Len(s) /\ Len(s) <= last * PageSize
    PROVE  FlattenSeq([k \in 1..last |-> Page(s, k)]) = s
  <1>. DEFINE n == Len(s)
              pages == [k \in 1..last |-> Page(s, k)]
              upto(k) == IF k * PageSize <= n THEN k * PageSize ELSE n
              start(k) == SubSeq(s, 1, upto(k))
              g == [k \in 1..last |-> start(k)]
  <1>1. n \in Nat  BY LenProperties
  <1>2. PageSize \in Nat \ {0}  BY CatalogAssumption
  <1>3. \A k \in 1..last : (k - 1) * PageSize \in Nat /\ k * PageSize = (k - 1) * PageSize + PageSize
    BY <1>2
  <1>4. \A k \in 1..last : Page(s, k) = SubSeq(s, (k - 1) * PageSize + 1, upto(k))
    <2>1. SUFFICES ASSUME NEW k \in 1..last PROVE Page(s, k) = SubSeq(s, (k - 1) * PageSize + 1, upto(k))  OBVIOUS
    <2>2. Page(s, k) = SubSeq(s, (k - 1) * PageSize + 1, Min({(k - 1) * PageSize + PageSize, n}))  BY DEF Page
    <2>3. Min({(k - 1) * PageSize + PageSize, n}) = upto(k)
      <3>. DEFINE a == (k - 1) * PageSize
                  b == k * PageSize
      <3>1. a \in Nat /\ b = a + PageSize  BY <1>3
      <3>. HIDE DEF a, b, n
      <3>2. Min({a + PageSize, n}) = IF b <= n THEN b ELSE n  BY <1>1, <1>2, <3>1, MinOfTwo
      <3>. QED  BY <3>2 DEF a, b
    <2>. QED  BY <2>2, <2>3
  <1>5. CASE last = 0
    <2>1. pages = <<>>  BY <1>5
    <2>2. FlattenSeq(<<>>) = <<>>  BY DEF FlattenSeq
    <2>3. s = <<>>  BY <1>5, EmptySeq
    <2>. QED  BY <2>1, <2>2, <2>3
  <1>6. CASE last # 0
    <2>1. \A k \in 1..last : (k - 1) * PageSize < n  BY <1>1, PageStarts
    <2>2. upto(last) = n
      <3>1. last * PageSize \in Nat /\ n <= last * PageSize  BY <1>2, <1>6
      <3>. DEFINE x == last * PageSize
      <3>. HIDE DEF x, n
      <3>2. (IF x <= n THEN x ELSE n) = n  BY <1>1, <3>1 DEF x
      <3>. QED  BY <3>2 DEF x
    <2>3. Len(pages) = last
      <3>. DEFINE T == {pages[k] : k \in 1..last}
      <3>1. pages \in [1..last -> T]  OBVIOUS
      <3>. HIDE DEF pages, T
      <3>2. pages \in Seq(T)  BY <3>1, SeqDef
      <3>3. Len(pages) \in Nat /\ DOMAIN pages = 1..Len(pages)  BY <3>2, LenProperties
      <3>4. DOMAIN pages = 1..last  BY <3>1
      <3>. DEFINE m == Len(pages)
      <3>5. m \in Nat /\ 1..m = 1..last  BY <3>3, <3>4
      <3>. HIDE DEF m, n
      <3>6. m = last  BY <3>5
      <3>. QED  BY <3>6 DEF m
    <2>4. ASSUME NEW k \in 1..last PROVE start(k) = IF k = 1 THEN Page(s, k) ELSE start(k - 1) \o Page(s, k)
      <3>1. CASE k = 1
        <4>1. (k - 1) * PageSize + 1 = 1  BY <1>2, <3>1
        <4>. QED  BY <1>4, <3>1, <4>1
      <3>2. CASE k # 1
        <4>. DEFINE a == (k - 1) * PageSize
                    b == upto(k)
        <4>1. a \in Nat /\ a < n  BY <1>3, <2>1
        <4>2. b \in a..n
          <5>. DEFINE c == k * PageSize
          <5>1. c = a + PageSize  BY <1>3
          <5>. HIDE DEF a, c, n
          <5>2. (IF c <= n THEN c ELSE n) \in a..n  BY <1>1, <1>2, <4>1, <5>1
          <5>. QED  BY <5>2 DEF c
        <4>3. upto(k - 1) = a  BY <4>1
        <4>4. Page(s, k) = SubSeq(s, a + 1, b)  BY <1>4
        <4>. HIDE DEF a, b, n
        <4>5. 1 \in 1..(Len(s) + 1) /\ a \in (1 - 1)..Len(s) /\ b \in a..Len(s)  BY <1>1, <4>1, <4>2 DEF n
        <4>6. SubSeq(s, 1, a) \o SubSeq(s, a + 1, b) = SubSeq(s, 1, b)  BY <4>5, ConcatAdjacentSubSeq
        <4>. QED  BY <3>2, <4>3, <4>4, <4>6 DEF b
      <3>. QED  BY <3>1, <3>2
    <2>5. IsJoined(g, pages, last)
      <3>. DEFINE next(k) == IF k = 1 THEN Page(s, k) ELSE start(k - 1) \o Page(s, k)
      <3>1. g = [k \in 1..last |-> next(k)]
        <4>1. \A k \in 1..last : start(k) = next(k)  BY <2>4
        <4>. HIDE DEF start, next
        <4>. QED  BY <4>1
      <3>2. \A k \in 1..last : next(k) = IF k = 1 THEN pages[k] ELSE g[k - 1] \o pages[k]
        <4>1. SUFFICES ASSUME NEW k \in 1..last
              PROVE next(k) = IF k = 1 THEN pages[k] ELSE g[k - 1] \o pages[k]
          OBVIOUS
        <4>2. pages[k] = Page(s, k)  OBVIOUS
        <4>3. k # 1 => g[k - 1] = start(k - 1)
          <5>. HIDE DEF start
          <5>. QED  OBVIOUS
        <4>. HIDE DEF start, g, pages
        <4>. QED  BY <4>2, <4>3
      <3>. DEFINE joined(k) == IF k = 1 THEN pages[k] ELSE g[k - 1] \o pages[k]
      <3>3. \A k \in 1..last : next(k) = joined(k)  BY <3>2
      <3>4. [k \in 1..last |-> next(k)] = [k \in 1..last |-> joined(k)]
        <4>. HIDE DEF next, joined
        <4>. QED  BY <3>3
      <3>. HIDE DEF g, pages
      <3>. QED  BY <3>1, <3>4 DEF IsJoined
    <2>6. g[last] = start(last)
      <3>. HIDE DEF start
      <3>. QED  BY <1>6
    <2>7. start(last) = s  BY <2>2, SubSeqFull
    <2>8. FlattenSeq(pages) = g[last]
      <3>1. last \in Nat \ {0}  BY <1>6
      <3>. HIDE DEF g, pages
      <3>. QED  BY <2>3, <2>5, <3>1, FlattenOf
    <2>. QED  BY <2>6, <2>7, <2>8
  <1>. QED  BY <1>5, <1>6

\* The number of pages.
LEMMA LastPage ==
    ASSUME NEW n \in Nat, NEW last, last = total_pages(n)
    PROVE  /\ last \in Nat
           /\ last = 0 => n = 0
           /\ last # 0 => (last - 1) * PageSize < n /\ n <= last * PageSize
  <1>1. PageSize \in Nat \ {0}  BY CatalogAssumption
  <1>2. CASE n = 0  BY <1>2 DEF total_pages
  <1>3. CASE n # 0
    <2>. DEFINE q == (n + PageSize - 1) \div PageSize
    <2>1. last = q  BY <1>3 DEF total_pages
    <2>2. \A a \in Nat, b \in Nat \ {0} : a \div b \in Nat /\ b * (a \div b) <= a /\ a < b * (a \div b) + b  OBVIOUS
    <2>3. n + PageSize - 1 \in Nat  BY <1>1, <1>3
    <2>4. q \in Nat /\ PageSize * q <= n + PageSize - 1 /\ n + PageSize - 1 < PageSize * q + PageSize
      BY <1>1, <2>2, <2>3
    <2>. HIDE DEF q
    <2>5. (q - 1) * PageSize = PageSize * q - PageSize /\ q * PageSize = PageSize * q /\ PageSize * q \in Nat
      BY <1>1, <2>4
    <2>. DEFINE x == PageSize * q
    <2>. HIDE DEF x
    <2>6. x \in Nat /\ x <= n + PageSize - 1 /\ n + PageSize - 1 < x + PageSize  BY <2>4, <2>5 DEF x
    <2>7. x - PageSize < n /\ n <= x  BY <1>1, <2>6
    <2>8. q # 0
      <3>1. SUFFICES ASSUME q = 0 PROVE FALSE  OBVIOUS
      <3>2. x = 0  BY <1>1, <3>1 DEF x
      <3>. QED  BY <1>3, <2>7, <3>2
    <2>. QED  BY <2>1, <2>4, <2>5, <2>7, <2>8 DEF x
  <1>. QED  BY <1>2, <1>3

\* The n elements of ids in ascending order.
Climbs(s, ids, n) ==
    /\ DOMAIN s = 1..n
    /\ \A i \in 1..n : s[i] \in ids
    /\ \A x \in ids : \E i \in 1..n : s[i] = x
    /\ \A i, j \in 1..n : i < j => s[i] < s[j]

\* Ascending gives them.
LEMMA AscendingInLine ==
    ASSUME NEW ids \in SUBSET Nat, IsFiniteSet(ids)
    PROVE  /\ Cardinality(ids) \in Nat
           /\ Ascending(ids) \in Seq(ids)
           /\ Len(Ascending(ids)) = Cardinality(ids)
           /\ Climbs(Ascending(ids), ids, Cardinality(ids))
  <1>. DEFINE R == {q \in ids \X ids : q[1] < q[2]}
              s == Ascending(ids)
              n == Cardinality(ids)
  <1>1. \A x, y \in ids : <<x, y>> \in R <=> x < y  OBVIOUS
  <1>2. \A x \in ids : x \in Nat  OBVIOUS
  <1>3. \A x, y : <<x, y>> \in R => x \in ids /\ y \in ids  OBVIOUS
  <1>4. Ascending(ids) = Sorted(ids, R)  BY DEF Ascending
  <1>. HIDE DEF R, s
  <1>5. Orders(R, ids)  BY <1>1, <1>2, <1>3 DEF Orders
  <1>6. InLine(s, n, ids, R)  BY <1>4, <1>5, SortedInLine DEF s
  <1>7. n \in Nat  BY FS_CardinalityType
  <1>8. s \in [1..n -> ids]  BY <1>6 DEF InLine
  <1>9. s \in Seq(ids) /\ DOMAIN s = 1..n  BY <1>7, <1>8, SeqDef
  <1>10. Len(s) = n  BY <1>4, SortedLength DEF s
  <1>11. \A i, j \in 1..n : i < j => s[i] < s[j]  BY <1>1, <1>6, <1>8 DEF InLine
  <1>12. Climbs(s, ids, n)  BY <1>6, <1>8, <1>9, <1>11 DEF InLine, Climbs
  <1>. QED  BY <1>7, <1>9, <1>10, <1>12 DEF s

\* The samples are those among all cases, in their order.
AmongCases(db, p) ==
    LET cases == list_testcases(db, p)
        places == Ascending({i \in DOMAIN cases : db.cases[cases[i]].sample})
    IN  list_samples(db, p) = [i \in DOMAIN places |-> db.cases[cases[places[i]]].text]

\* They are.
LEMMA SamplesAmongCases ==
    ASSUME NEW db, Database(db), NEW p
    PROVE  AmongCases(db, p)
  <1>. DEFINE cases == list_testcases(db, p)
              places == Ascending({i \in DOMAIN cases : db.cases[cases[i]].sample})
              C == CasesOf(db, p)
              S == SamplesOf(db, p)
              I == {i \in DOMAIN cases : db.cases[cases[i]].sample}
              m == Cardinality(C)
              n == Cardinality(I)
              e == [i \in DOMAIN places |-> cases[places[i]]]
  <1>1. C \in SUBSET DOMAIN db.cases /\ S \in SUBSET DOMAIN db.cases  BY DEF SamplesOf, CasesOf
  <1>2. \A k : k \in S <=> k \in C /\ db.cases[k].sample  BY DEF SamplesOf
  <1>3. InLine(cases, m, C, ByPosition(db, C)) /\ m \in Nat
    <2>1. cases = InOrder(db, C)  BY DEF list_testcases
    <2>2. IsFiniteSet(C) /\ InLine(InOrder(db, C), Cardinality(C), C, ByPosition(db, C))  BY <1>1, InOrderInLine
    <2>3. Cardinality(C) \in Nat  BY <2>2, FS_CardinalityType
    <2>. QED  BY <2>1, <2>2, <2>3
  <1>4. DOMAIN cases = 1..m /\ \A i \in 1..m : cases[i] \in C  BY <1>3 DEF InLine
  <1>. HIDE DEF m, C, S
  <1>5. I \in SUBSET Nat /\ IsFiniteSet(I)
    <2>1. I \subseteq 1..m  BY <1>4
    <2>2. IsFiniteSet(1..m)  BY <1>3, FS_Interval
    <2>3. IsFiniteSet(I)  BY <2>1, <2>2, FS_Subset
    <2>4. 1..m \subseteq Nat  OBVIOUS
    <2>. QED  BY <2>1, <2>3, <2>4
  <1>6. \A i : i \in I <=> i \in 1..m /\ db.cases[cases[i]].sample  BY <1>4
  <1>7. places = Ascending(I)  OBVIOUS
  <1>. HIDE DEF I, n, cases, places
  <1>8. /\ n \in Nat
        /\ DOMAIN places = 1..n
        /\ \A i \in 1..n : places[i] \in I
        /\ \A x \in I : \E i \in 1..n : places[i] = x
        /\ \A i, j \in 1..n : i < j => places[i] < places[j]
    <2>1. Cardinality(I) \in Nat /\ Climbs(Ascending(I), I, Cardinality(I))  BY <1>5, AscendingInLine
    <2>. QED  BY <1>7, <2>1 DEF Climbs, n
  <1>9. \A i \in 1..n : e[i] = cases[places[i]] /\ places[i] \in 1..m /\ db.cases[cases[places[i]]].sample
    BY <1>6, <1>8
  <1>10. e = [i \in 1..n |-> e[i]]
    <2>. DEFINE of(i) == cases[places[i]]
    <2>1. e = [i \in 1..n |-> of(i)]  BY <1>8
    <2>. HIDE DEF of, e
    <2>. QED  BY <2>1
  <1>. HIDE DEF e
  <1>11. InLine(e, n, S, ByPosition(db, S))
    <2>1. \A i \in 1..n : e[i] \in S  BY <1>2, <1>4, <1>9
    <2>2. e \in [1..n -> S]  BY <1>10, <2>1
    <2>3. ASSUME NEW k \in S PROVE \E i \in 1..n : e[i] = k
      <3>1. PICK j \in 1..m : cases[j] = k  BY <1>2, <1>3 DEF InLine
      <3>2. j \in I  BY <1>2, <1>6, <3>1
      <3>3. PICK i \in 1..n : places[i] = j  BY <1>8, <3>2
      <3>. QED  BY <1>9, <3>1, <3>3
    <2>4. ASSUME NEW i \in 1..n, NEW j \in 1..n, i < j PROVE <<e[i], e[j]>> \in ByPosition(db, S)
      <3>1. places[i] < places[j]  BY <1>8, <2>4
      <3>2. <<e[i], e[j]>> \in ByPosition(db, C)  BY <1>3, <1>9, <3>1 DEF InLine
      <3>3. e[i] \in S /\ e[j] \in S  BY <2>1
      <3>. QED  BY <3>2, <3>3 DEF ByPosition
    <2>. QED  BY <2>2, <2>3, <2>4 DEF InLine
  <1>12. InOrder(db, S) = e
    <2>1. InOrder(db, S) = Sorted(S, ByPosition(db, S))  BY DEF InOrder, ByPosition
    <2>2. Orders(ByPosition(db, S), S)  BY <1>1, PositionOrders
    <2>. QED  BY <1>8, <1>11, <2>1, <2>2, SortedIs
  <1>13. DOMAIN e = DOMAIN places  BY <1>8, <1>10
  <1>14. list_samples(db, p) = [i \in DOMAIN e |-> db.cases[e[i]].text]  BY <1>12 DEF list_samples, S
  <1>15. \A i \in DOMAIN places : db.cases[e[i]].text = db.cases[cases[places[i]]].text  BY <1>8, <1>9
  <1>. DEFINE a(i) == db.cases[e[i]].text
              b(i) == db.cases[cases[places[i]]].text
  <1>16. [i \in DOMAIN places |-> a(i)] = [i \in DOMAIN places |-> b(i)]
    <2>1. \A i \in DOMAIN places : a(i) = b(i)  BY <1>15
    <2>. HIDE DEF a, b
    <2>. QED  BY <2>1
  <1>17. list_samples(db, p) = [i \in DOMAIN places |-> db.cases[cases[places[i]]].text]  BY <1>13, <1>14, <1>16
  <1>. QED  BY <1>17 DEF AmongCases, cases, places

\* Who sees what.
LEMMA ListedIs ==
    ASSUME NEW db, NEW admin \in BOOLEAN
    PROVE  /\ build_where(db, Visibility(admin, "all"), None)
                = {p \in DOMAIN db.problems : db.problems[p].visible \/ admin}
           /\ \A filter \in {"all", "visible", "hidden"} :
                build_where(db, Visibility(admin, filter), None)
                    \subseteq {p \in DOMAIN db.problems : db.problems[p].visible \/ admin}
  <1>. QED  BY DEF build_where, Visibility

\* The samples of a problem are a list of texts.
LEMMA SamplesTyped ==
    ASSUME NEW db, Database(db), NEW p
    PROVE  list_samples(db, p) \in Seq(Authors \X Nat)
  <1>. DEFINE S == SamplesOf(db, p)
              ids == InOrder(db, S)
              n == Cardinality(S)
              text(i) == db.cases[ids[i]].text
  <1>1. S \in SUBSET DOMAIN db.cases  BY DEF SamplesOf, CasesOf
  <1>2. InLine(ids, n, S, ByPosition(db, S)) /\ IsFiniteSet(S)  BY <1>1, InOrderInLine
  <1>3. n \in Nat  BY <1>2, FS_CardinalityType
  <1>4. DOMAIN ids = 1..n /\ \A i \in 1..n : ids[i] \in DOMAIN db.cases  BY <1>1, <1>2 DEF InLine
  <1>5. \A k \in DOMAIN db.cases : db.cases[k].text \in Authors \X Nat  BY DEF Database, CaseRows
  <1>6. \A i \in 1..n : text(i) \in Authors \X Nat  BY <1>4, <1>5
  <1>7. list_samples(db, p) = [i \in 1..n |-> text(i)]  BY <1>4 DEF list_samples
  <1>. HIDE DEF n, text
  <1>8. [i \in 1..n |-> text(i)] \in [1..n -> Authors \X Nat]  BY <1>6
  <1>9. [i \in 1..n |-> text(i)] \in Seq(Authors \X Nat)  BY <1>3, <1>8, SeqDef
  <1>. QED  BY <1>7, <1>9

\* The length of a page of a list of that size.
HasRows(s, n, size) ==
    Len(Page(s, n)) = IF size - (n - 1) * PageSize < 0 THEN 0 ELSE Min({size - (n - 1) * PageSize, PageSize})

\* The views agree in every state of the tables.
LEMMA AgreeOn ==
    ASSUME Database(work)
    PROVE  ViewsAgree
  <1>1. ASSUME NEW admin \in BOOLEAN
        PROVE  LET listed(filter, tag) == build_where(work, Visibility(admin, filter), tag)
                   shown == {p \in 1..work.lastProblem : Shows(work, admin, p)}
                   page(n) == Page(Ascending(listed("all", None)), n)
                   last == total_pages(Cardinality(listed("all", None))) IN
               /\ FlattenSeq([n \in 1..last |-> page(n)]) = Ascending(shown)
               /\ \A n \in 1..last : page(n) # <<>>
               /\ page(last + 1) = <<>>
               /\ \A filter \in {"all", "visible", "hidden"} : listed(filter, None) \subseteq shown
               /\ list_tags(work, admin) = {tag \in Clients \cup {Initial} : listed("all", tag) # {}}
               /\ \A p \in shown :
                   LET cases == list_testcases(work, p)
                       places == Ascending({i \in DOMAIN cases : work.cases[cases[i]].sample})
                   IN  list_samples(work, p) = [i \in DOMAIN places |-> work.cases[cases[places[i]]].text]
    <2>. DEFINE ids == {p \in DOMAIN work.problems : work.problems[p].visible \/ admin}
                s == Ascending(ids)
                shown == {p \in 1..work.lastProblem : Shows(work, admin, p)}
                page(n) == Page(Ascending(build_where(work, Visibility(admin, "all"), None)), n)
                last == total_pages(Cardinality(build_where(work, Visibility(admin, "all"), None)))
                size == Cardinality(ids)
    <2>1. build_where(work, Visibility(admin, "all"), None) = ids
          /\ \A filter \in {"all", "visible", "hidden"} : build_where(work, Visibility(admin, filter), None) \subseteq ids
      BY ListedIs
    <2>2. shown = ids
      <3>1. \A p \in DOMAIN work.problems : p \in 1..work.lastProblem  BY DEF Database, Tables
      <3>2. \A p : Shows(work, admin, p) <=> p \in ids  BY DEF Shows
      <3>. QED  BY <3>1, <3>2
    <2>3. ids \in SUBSET Nat /\ IsFiniteSet(ids)
      <3>1. ids \subseteq 1..work.lastProblem /\ work.lastProblem \in Nat  BY DEF Database, Tables
      <3>2. IsFiniteSet(1..work.lastProblem)  BY <3>1, FS_Interval
      <3>3. IsFiniteSet(ids)  BY <3>1, <3>2, FS_Subset
      <3>4. 1..work.lastProblem \subseteq Nat  OBVIOUS
      <3>. QED  BY <3>1, <3>3, <3>4
    <2>4. size \in Nat /\ s \in Seq(ids) /\ Len(s) = size
      <3>. HIDE DEF ids
      <3>. QED  BY <2>3, AscendingInLine
    <2>5. /\ \A n : page(n) = Page(s, n)
          /\ last = total_pages(size)
      <3>. HIDE DEF ids
      <3>. QED  BY <2>1
    <2>7. list_tags(work, admin)
            = {tag \in Clients \cup {Initial} : build_where(work, Visibility(admin, "all"), tag) # {}}
      <3>1. \A tag \in Authors : build_where(work, Visibility(admin, "all"), tag)
                = {p \in ids : work.problems[p].tag = tag}
        <4>1. \A tag \in Authors : tag # None  BY CatalogAssumption DEF Authors
        <4>. QED  BY <4>1 DEF build_where, Visibility
      <3>2. list_tags(work, admin) = {work.problems[p].tag : p \in ids}  BY DEF list_tags
      <3>3. \A p \in ids : work.problems[p].tag \in Authors  BY DEF Database, ProblemRows
      <3>. HIDE DEF ids
      <3>4. {work.problems[p].tag : p \in ids} = {tag \in Authors : {p \in ids : work.problems[p].tag = tag} # {}}
        BY <3>3
      <3>. QED  BY <3>1, <3>2, <3>4 DEF Authors
    <2>. HIDE DEF ids, s, size
    <2>8. last = total_pages(size)  BY <2>5
    <2>9. /\ last \in Nat
          /\ last = 0 => size = 0
          /\ last # 0 => (last - 1) * PageSize < size /\ size <= last * PageSize
      BY <2>4, <2>8, LastPage
    <2>10. \A n \in Nat \ {0} : HasRows(s, n, size)
      <3>1. SUFFICES ASSUME NEW n \in Nat \ {0} PROVE HasRows(s, n, size)  OBVIOUS
      <3>2. Len(Page(s, n))
              = IF Len(s) - (n - 1) * PageSize < 0 THEN 0 ELSE Min({Len(s) - (n - 1) * PageSize, PageSize})
        BY <2>4, PageLength
      <3>. QED  BY <2>4, <3>2 DEF HasRows
    <2>. HIDE DEF page, last
    <2>11. FlattenSeq([n \in 1..last |-> page(n)]) = s
      <3>1. FlattenSeq([n \in 1..last |-> Page(s, n)]) = s  BY <2>4, <2>9, PagesJoined
      <3>2. [n \in 1..last |-> page(n)] = [n \in 1..last |-> Page(s, n)]  BY <2>5
      <3>. QED  BY <3>1, <3>2
    <2>12. \A n \in 1..last : page(n) # <<>>
      <3>1. SUFFICES ASSUME NEW n \in 1..last PROVE page(n) # <<>>  OBVIOUS
      <3>. DEFINE a == (n - 1) * PageSize
      <3>2. a < size /\ a \in Nat
        <4>1. last # 0 => (last - 1) * PageSize < size  BY <2>9
        <4>2. \A k \in 1..last : (k - 1) * PageSize < size /\ (k - 1) * PageSize \in Nat
          BY <2>4, <2>9, <4>1, PageStarts
        <4>. QED  BY <4>2
      <3>3. Len(Page(s, n)) = IF size - a < 0 THEN 0 ELSE Min({size - a, PageSize})
        <4>1. n \in Nat \ {0}  BY <2>9
        <4>. HIDE DEF s, size
        <4>2. HasRows(s, n, size)  BY <2>10, <4>1
        <4>. QED  BY <4>2 DEF HasRows
      <3>4. PageSize \in Nat \ {0}  BY CatalogAssumption
      <3>. HIDE DEF a
      <3>5. Min({size - a, PageSize}) = IF size - a <= PageSize THEN size - a ELSE PageSize
        BY <2>4, <3>2, <3>4, MinOfTwo
      <3>6. Len(Page(s, n)) # 0  BY <2>4, <3>2, <3>3, <3>4, <3>5
      <3>7. Page(s, n) # <<>>  BY <3>6
      <3>. QED  BY <2>5, <3>7
    <2>13. page(last + 1) = <<>>
      <3>. DEFINE a == last * PageSize
                  upto == Min({a + PageSize, size})
      <3>1. PageSize \in Nat \ {0}  BY CatalogAssumption
      <3>2. a \in Nat /\ size <= a  BY <2>4, <2>9, <3>1
      <3>3. Page(s, last + 1) = SubSeq(s, a + 1, upto)
        <4>1. (last + 1) - 1 = last  BY <2>9
        <4>. QED  BY <2>4, <4>1 DEF Page
      <3>. HIDE DEF a
      <3>4. upto = IF a + PageSize <= size THEN a + PageSize ELSE size  BY <2>4, <3>1, <3>2, MinOfTwo
      <3>. HIDE DEF upto
      <3>5. upto \in Int /\ a + 1 \in Int /\ upto < a + 1  BY <2>4, <3>1, <3>2, <3>4
      <3>6. Page(s, last + 1) = <<>>  BY <3>3, <3>5, SubSeqEmpty
      <3>. QED  BY <2>5, <3>6
    <2>14. \A p \in shown :
             LET cases == list_testcases(work, p)
                 places == Ascending({i \in DOMAIN cases : work.cases[cases[i]].sample})
             IN  list_samples(work, p) = [i \in DOMAIN places |-> work.cases[cases[places[i]]].text]
      <3>1. SUFFICES ASSUME NEW p \in shown
            PROVE LET cases == list_testcases(work, p)
                      places == Ascending({i \in DOMAIN cases : work.cases[cases[i]].sample})
                  IN  list_samples(work, p) = [i \in DOMAIN places |-> work.cases[cases[places[i]]].text]
        OBVIOUS
      <3>. DEFINE cases == list_testcases(work, p)
                  places == Ascending({i \in DOMAIN cases : work.cases[cases[i]].sample})
                  texts == [i \in DOMAIN places |-> work.cases[cases[places[i]]].text]
      <3>2. AmongCases(work, p)  BY SamplesAmongCases
      <3>3. list_samples(work, p) = texts  BY <3>2 DEF AmongCases
      <3>. QED  BY <3>3
    <2>15. FlattenSeq([n \in 1..last |-> page(n)]) = Ascending(shown)  BY <2>2, <2>11 DEF s
    <2>16. \A filter \in {"all", "visible", "hidden"} : build_where(work, Visibility(admin, filter), None) \subseteq shown
      BY <2>1, <2>2
    <2>. HIDE DEF shown
    <2>. QED  BY <2>7, <2>12, <2>13, <2>14, <2>15, <2>16 DEF page, last, shown
  <1>. QED  BY <1>1, FiltersAlwaysLiteral DEF ViewsAgree

\* What the statements of the list, the tag options and the page of a problem find in
\* one state agrees, in every state the transactions reach: the pages joined in order
\* are the problems whose page opens, no filter lists another, the samples are in
\* order, and a tag or a keyword finds exactly what it names (db/problems.cpp,
\* problem/list_query.cpp).
THEOREM ViewsAlwaysAgree == Spec => []ViewsAgree
  <1>1. CatalogInv => ViewsAgree  BY AgreeOn DEF CatalogInv
  <1>. QED  BY <1>1, CatalogInvariant, PTL

-----------------------------------------------------------------------------
(* Requests that read row by row (ProblemReaders).                         *)

\* Two finite sets that differ in one element at most are almost as large.
LEMMA OneApart ==
    ASSUME NEW S, NEW T, NEW p, IsFiniteSet(S), IsFiniteSet(T), \A q : q # p => (q \in S <=> q \in T)
    PROVE  /\ Cardinality(S) \in Nat /\ Cardinality(T) \in Nat
           /\ Cardinality(S) <= Cardinality(T) + 1
           /\ Cardinality(T) <= Cardinality(S) + 1
  <1>1. Cardinality(S) \in Nat /\ Cardinality(T) \in Nat  BY FS_CardinalityType
  <1>2. S \subseteq T \cup {p} /\ T \subseteq S \cup {p}  OBVIOUS
  <1>3. /\ IsFiniteSet(T \cup {p})
        /\ Cardinality(T \cup {p}) = IF p \in T THEN Cardinality(T) ELSE Cardinality(T) + 1
    BY FS_AddElement
  <1>4. /\ IsFiniteSet(S \cup {p})
        /\ Cardinality(S \cup {p}) = IF p \in S THEN Cardinality(S) ELSE Cardinality(S) + 1
    BY FS_AddElement
  <1>5. Cardinality(S) <= Cardinality(T \cup {p})  BY <1>2, <1>3, FS_Subset
  <1>6. Cardinality(T) <= Cardinality(S \cup {p})  BY <1>2, <1>4, FS_Subset
  <1>. QED  BY <1>1, <1>3, <1>4, <1>5, <1>6

\* T is what R puts behind x.
StandsBehind(T, S, R, x) == T = {y \in S : <<x, y>> \in R}

\* Q puts the elements of T in the order R.
SameOrder(Q, R, T) == \A x, y \in T : <<x, y>> \in Q <=> <<x, y>> \in R

\* s is the line of S in the order R, n long, and T stands behind its element at i.
TailOf(T, Q, s, i, n, S, R) ==
    /\ n \in Nat /\ i \in 1..n
    /\ Orders(R, S) /\ InLine(s, n, S, R)
    /\ StandsBehind(T, S, R, s[i]) /\ SameOrder(Q, R, T)

\* Sorting what stands behind the element at i gives the rest of the line.
LEMMA SortedTail ==
    ASSUME NEW T, NEW Q, NEW s, NEW i, NEW n, NEW S, NEW R, TailOf(T, Q, s, i, n, S, R)
    PROVE  Sorted(T, Q) = SubSeq(s, i + 1, n)
  <1>. n \in Nat /\ i \in 1..n /\ Orders(R, S) /\ InLine(s, n, S, R)  BY DEF TailOf
  <1>. T = {x \in S : <<s[i], x>> \in R} /\ \A x, y \in T : <<x, y>> \in Q <=> <<x, y>> \in R
    BY DEF TailOf, StandsBehind, SameOrder
  <1>. DEFINE e == SubSeq(s, i + 1, n)
              m == n - i
  <1>1. m \in Nat  OBVIOUS
  <1>2. \A j \in (i + 1)..n : s[j] \in S  BY DEF InLine
  <1>3. e \in Seq(S) /\ Len(e) = m /\ \A j \in 1..m : e[j] = s[i + j]
    <2>1. i + 1 \in Int /\ n \in Int  OBVIOUS
    <2>2. /\ SubSeq(s, i + 1, n) \in Seq(S)
          /\ Len(SubSeq(s, i + 1, n)) = IF i + 1 <= n THEN n - (i + 1) + 1 ELSE 0
          /\ \A j \in 1..(n - (i + 1) + 1) : SubSeq(s, i + 1, n)[j] = s[(i + 1) + j - 1]
      BY <1>2, <2>1, SubSeqProperties
    <2>3. (IF i + 1 <= n THEN n - (i + 1) + 1 ELSE 0) = m /\ n - (i + 1) + 1 = m  OBVIOUS
    <2>4. \A j \in 1..m : (i + 1) + j - 1 = i + j  OBVIOUS
    <2>. HIDE DEF e, m
    <2>. QED  BY <2>2, <2>3, <2>4 DEF e
  <1>4. \A j \in 1..m : i + j \in 1..n /\ i < i + j  OBVIOUS
  <1>5. \A j, k \in 1..m : j < k => i + j < i + k  OBVIOUS
  <1>6. DOMAIN e = 1..m /\ e \in [1..m -> S]
    <2>. HIDE DEF e, m
    <2>. QED  BY <1>3, LenProperties
  <1>7. \A j \in 1..m : e[j] \in T
    <2>1. \A j \in 1..m : <<s[i], s[i + j]>> \in R  BY <1>4 DEF InLine
    <2>. HIDE DEF e, m
    <2>. QED  BY <1>3, <1>6, <2>1
  <1>8. ASSUME NEW x \in T PROVE \E j \in 1..m : e[j] = x
    <2>1. PICK k \in 1..n : s[k] = x  BY DEF InLine
    <2>2. <<s[i], s[k]>> \in R  BY <2>1
    <2>3. s[i] \in S /\ s[k] \in S  BY DEF InLine
    <2>4. i < k
      <3>1. k # i  BY <2>2, <2>3 DEF Orders
      <3>2. ~(k < i)
        <4>1. SUFFICES ASSUME k < i PROVE FALSE  OBVIOUS
        <4>2. <<s[k], s[i]>> \in R  BY <4>1 DEF InLine
        <4>. QED  BY <2>2, <2>3, <4>2 DEF Orders
      <3>. QED  BY <3>1, <3>2
    <2>5. k - i \in 1..m /\ i + (k - i) = k  BY <2>4
    <2>. HIDE DEF e, m
    <2>. QED  BY <1>3, <2>1, <2>5
  <1>9. \A j, k \in 1..m : j < k => <<e[j], e[k]>> \in Q
    <2>1. \A j, k \in 1..m : j < k => <<s[i + j], s[i + k]>> \in R  BY <1>4, <1>5 DEF InLine
    <2>. HIDE DEF e, m
    <2>. QED  BY <1>3, <1>7, <2>1
  <1>. HIDE DEF e, m
  <1>10. InLine(e, m, T, Q)
    <2>1. e \in [1..m -> T]  BY <1>6, <1>7
    <2>. QED  BY <1>8, <1>9, <2>1 DEF InLine
  <1>11. Orders(Q, T)
    <2>1. \A x \in T : x \in S  OBVIOUS
    <2>. QED  BY <2>1 DEF Orders
  <1>12. Sorted(T, Q) = e  BY <1>1, <1>10, <1>11, SortedIs
  <1>. QED  BY <1>12 DEF e

\* What is larger than the element at i, in ascending order, is the rest.
LEMMA AscendingTail ==
    ASSUME NEW ids \in SUBSET Nat, IsFiniteSet(ids), NEW i \in 1..Cardinality(ids),
           NEW x, x = Ascending(ids)[i]
    PROVE  Ascending({p \in ids : p > x}) = SubSeq(Ascending(ids), i + 1, Cardinality(ids))
  <1>. DEFINE R == {q \in ids \X ids : q[1] < q[2]}
              T == {p \in ids : p > x}
              Q == {q \in T \X T : q[1] < q[2]}
              s == Ascending(ids)
              n == Cardinality(ids)
  <1>1. \A y, z \in ids : <<y, z>> \in R <=> y < z  OBVIOUS
  <1>2. \A y, z \in T : y \in ids /\ z \in ids /\ (<<y, z>> \in Q <=> y < z)  OBVIOUS
  <1>3. \A y \in ids : y \in Nat  OBVIOUS
  <1>4. s = Sorted(ids, R) /\ Ascending(T) = Sorted(T, Q)  BY DEF Ascending
  <1>5. n \in Nat  BY FS_CardinalityType
  <1>6. \A y : y \in T <=> y \in ids /\ y > x  OBVIOUS
  <1>. HIDE DEF R, T, Q, s, n
  <1>7. Orders(R, ids)  BY <1>1, <1>3 DEF Orders
  <1>8. InLine(s, n, ids, R)  BY <1>4, <1>7, SortedInLine DEF n
  <1>9. x \in ids /\ x = s[i]  BY <1>8 DEF InLine, n, s
  <1>10. T = {y \in ids : <<s[i], y>> \in R}
    <2>1. \A y \in ids : y > x <=> <<x, y>> \in R  BY <1>1, <1>3, <1>9
    <2>. QED  BY <1>6, <1>9, <2>1
  <1>11. \A y, z \in T : <<y, z>> \in Q <=> <<y, z>> \in R  BY <1>1, <1>2
  <1>12. Sorted(T, Q) = SubSeq(s, i + 1, n)
    <2>1. i \in 1..n  BY DEF n
    <2>2. StandsBehind(T, ids, R, s[i])  BY <1>10 DEF StandsBehind
    <2>3. SameOrder(Q, R, T)  BY <1>11 DEF SameOrder
    <2>4. TailOf(T, Q, s, i, n, ids, R)  BY <1>5, <1>7, <1>8, <2>1, <2>2, <2>3 DEF TailOf
    <2>. QED  BY <2>4, SortedTail
  <1>. QED  BY <1>4, <1>12 DEF T, s, n

\* Two numbers that are not further apart than m.
Near(a, b, m) == a - b <= m /\ b - a <= m

\* The rows a page would have behind its offset, without a limit.
RestOf(q) == IF q.total > Offset(q) THEN q.total - Offset(q) ELSE 0

Rising(rows) == \A i, j \in DOMAIN rows : i < j => rows[i] < rows[j]

\* The rows are the first of the ids behind the offset o.
IsStart(rows, ids, o) ==
    rows = <<>> \/ (o + Len(rows) <= Len(ids) /\ rows = SubSeq(ids, o + 1, o + Len(rows)))

\* What a request for the list says of itself.
IsList(q) == q.page \in Nat \ {0} /\ q.total \in Nat /\ q.rows \in Seq(Nat)

\* A request q for the list is reading: its answer alone would be a, what it reads has
\* changed m times, and db is what it sees.
Reading(q, a, m, db) ==
    /\ IsList(q)
    /\ Len(q.rows) <= PageSize
    /\ Rising(q.rows)
    /\ Near(Len(q.rows) + Len(Ahead(db, q)), RestOf(q), m)
    /\ m = 0 => /\ a = Page(Ascending(Listed(db, q)), q.page)
                /\ IsStart(q.rows, Ascending(Listed(db, q)), Offset(q))

\* It has answered.
Answer(q, a, m) ==
    /\ m = 0 => q.rows = a
    /\ LET rest == q.total - Offset(q)
           fit == IF rest < 0 THEN 0 ELSE Min({rest, PageSize})
       IN  Len(q.rows) - fit \in -m..m
    /\ Rising(q.rows)

\* The problems that a list shows are finitely many numbers.
LEMMA ListedIds ==
    ASSUME NEW db, Database(db), NEW q
    PROVE  /\ Listed(db, q) \in SUBSET Nat
           /\ IsFiniteSet(Listed(db, q))
           /\ Cardinality(Listed(db, q)) \in Nat
           /\ \A T \in SUBSET Listed(db, q) : IsFiniteSet(T) /\ T \in SUBSET Nat
  <1>1. Listed(db, q) \subseteq DOMAIN db.problems  BY DEF Listed, build_where
  <1>2. DOMAIN db.problems \subseteq 1..db.lastProblem /\ db.lastProblem \in Nat  BY DEF Database, Tables
  <1>3. IsFiniteSet(1..db.lastProblem)  BY <1>2, FS_Interval
  <1>4. \A T \in SUBSET (1..db.lastProblem) : IsFiniteSet(T)  BY <1>3, FS_Subset
  <1>5. 1..db.lastProblem \subseteq Nat  BY <1>2
  <1>6. IsFiniteSet(Listed(db, q))  BY <1>1, <1>2, <1>4
  <1>. QED  BY <1>1, <1>2, <1>4, <1>5, <1>6, FS_CardinalityType

\* The offset is a number.
LEMMA OffsetIs ==
    ASSUME NEW q, q.page \in Nat \ {0}
    PROVE  Offset(q) \in Nat /\ PageSize \in Nat \ {0}
  <1>1. PageSize \in Nat \ {0}  BY CatalogAssumption
  <1>2. q.page - 1 \in Nat  OBVIOUS
  <1>3. \A a, b \in Nat : a * b \in Nat  OBVIOUS
  <1>. QED  BY <1>1, <1>2, <1>3 DEF Offset

\* A line of some numbers is one of numbers.
LEMMA NatSeq ==
    ASSUME NEW T \in SUBSET Nat, NEW s \in Seq(T)
    PROVE  s \in Seq(Nat)
  <1>1. Len(s) \in Nat /\ s \in [1..Len(s) -> T]  BY LenProperties
  <1>2. s \in [1..Len(s) -> Nat]  BY <1>1
  <1>. QED  BY <1>1, <1>2, SeqDef

\* One number more.
LEMMA AppendNat ==
    ASSUME NEW s \in Seq(Nat), NEW x \in Nat
    PROVE  /\ Append(s, x) \in Seq(Nat) /\ Append(s, x) # <<>> /\ Len(Append(s, x)) = Len(s) + 1
           /\ \A i \in 1..Len(s) : Append(s, x)[i] = s[i]
           /\ Append(s, x)[Len(s) + 1] = x
  BY AppendProperties

\* The cursor has in front of it, before the first row, the ids behind the offset, and
\* later those above its row.
AheadAt(db, q) ==
    LET ids == Ascending(Listed(db, q))
        n == Cardinality(Listed(db, q))
        o == Offset(q)
        T == {p \in Listed(db, q) : p > Last(q.rows)}
    IN  /\ ids \in Seq(Nat) /\ Len(ids) = n /\ n \in Nat /\ o \in Nat
        /\ Ahead(db, q) \in Seq(Nat)
        /\ q.rows = <<>> =>
            /\ Ahead(db, q) = SubSeq(ids, o + 1, n)
            /\ Len(Ahead(db, q)) = IF n > o THEN n - o ELSE 0
        /\ q.rows # <<>> =>
            /\ Ahead(db, q) = Ascending(T)
            /\ IsFiniteSet(T)
            /\ Len(Ahead(db, q)) = Cardinality(T)

\* What the cursor has in front of it.
LEMMA AheadIs ==
    ASSUME NEW db, Database(db), NEW q, IsList(q)
    PROVE  AheadAt(db, q)
  <1>. DEFINE ids == Ascending(Listed(db, q))
              n == Cardinality(Listed(db, q))
              o == Offset(q)
  <1>1. Listed(db, q) \in SUBSET Nat /\ IsFiniteSet(Listed(db, q)) /\ n \in Nat  BY ListedIds
  <1>2. o \in Nat  BY OffsetIs DEF IsList
  <1>3. /\ Ascending(Listed(db, q)) \in Seq(Listed(db, q))
        /\ Len(Ascending(Listed(db, q))) = Cardinality(Listed(db, q))
    BY <1>1, AscendingInLine
  <1>4. ids \in Seq(Nat) /\ Len(ids) = n
    <2>1. Ascending(Listed(db, q)) \in Seq(Nat)  BY <1>1, <1>3, NatSeq
    <2>. HIDE DEF ids, n
    <2>. QED  BY <1>3, <2>1 DEF ids, n
  <1>. HIDE DEF ids, n, o
  <1>5. ASSUME q.rows = <<>>
        PROVE  /\ Ahead(db, q) = SubSeq(ids, o + 1, n)
               /\ Ahead(db, q) \in Seq(Nat)
               /\ Len(Ahead(db, q)) = IF n > o THEN n - o ELSE 0
    <2>1. Ahead(db, q) = SubSeq(ids, o + 1, n)  BY <1>4, <1>5 DEF Ahead, ids, o
    <2>2. \A i \in (o + 1)..n : ids[i] \in Nat
      <3>1. \A i \in 1..Len(ids) : ids[i] \in Nat  BY <1>4, LenProperties
      <3>2. \A i \in (o + 1)..n : i \in 1..n  BY <1>1, <1>2
      <3>. QED  BY <1>4, <3>1, <3>2
    <2>3. /\ SubSeq(ids, o + 1, n) \in Seq(Nat)
          /\ Len(SubSeq(ids, o + 1, n)) = IF o + 1 <= n THEN n - (o + 1) + 1 ELSE 0
      <3>1. o + 1 \in Int /\ n \in Int  BY <1>1, <1>2
      <3>. QED  BY <2>2, <3>1, SubSeqProperties
    <2>4. (IF o + 1 <= n THEN n - (o + 1) + 1 ELSE 0) = IF n > o THEN n - o ELSE 0  BY <1>1, <1>2
    <2>. QED  BY <2>1, <2>3, <2>4
  <1>6. ASSUME q.rows # <<>>
        PROVE  LET T == {p \in Listed(db, q) : p > Last(q.rows)}
               IN  /\ Ahead(db, q) = Ascending(T)
                   /\ Ahead(db, q) \in Seq(Nat)
                   /\ IsFiniteSet(T)
                   /\ Len(Ahead(db, q)) = Cardinality(T)
    <2>. DEFINE T == {p \in Listed(db, q) : p > Last(q.rows)}
    <2>1. Ahead(db, q) = Ascending(T)  BY <1>6 DEF Ahead
    <2>2. T \in SUBSET Listed(db, q)  OBVIOUS
    <2>. HIDE DEF T
    <2>3. T \in SUBSET Nat /\ IsFiniteSet(T)  BY <2>2, ListedIds
    <2>4. Ascending(T) \in Seq(T) /\ Len(Ascending(T)) = Cardinality(T)  BY <2>3, AscendingInLine
    <2>5. Ascending(T) \in Seq(Nat)  BY <2>3, <2>4, NatSeq
    <2>. QED  BY <2>1, <2>3, <2>4, <2>5 DEF T
  <1>. QED  BY <1>1, <1>2, <1>4, <1>5, <1>6 DEF AheadAt, ids, n, o

\* Before the first row.
LEMMA AheadFirst ==
    ASSUME NEW db, Database(db), NEW q, IsList(q), q.rows = <<>>
    PROVE  LET n == Cardinality(Listed(db, q))
               o == Offset(q)
           IN  /\ Ahead(db, q) = SubSeq(Ascending(Listed(db, q)), o + 1, n)
               /\ Len(Ahead(db, q)) = IF n > o THEN n - o ELSE 0
  BY AheadIs DEF AheadAt

Above(S, x) == {p \in S : p > x}

\* Behind a row.
LEMMA AheadLater ==
    ASSUME NEW db, Database(db), NEW q, IsList(q), q.rows # <<>>
    PROVE  /\ Ahead(db, q) = Ascending(Above(Listed(db, q), Last(q.rows)))
           /\ Len(Ahead(db, q)) = Cardinality(Above(Listed(db, q), Last(q.rows)))
  <1>. DEFINE T == {p \in Listed(db, q) : p > Last(q.rows)}
  <1>1. Ahead(db, q) = Ascending(T) /\ Len(Ahead(db, q)) = Cardinality(T)  BY AheadIs DEF AheadAt
  <1>2. T = Above(Listed(db, q), Last(q.rows))  BY DEF Above
  <1>. HIDE DEF T
  <1>. QED  BY <1>1, <1>2

\* SELECT COUNT: what is in front of the cursor is what the total leaves.
LEMMA CountReads ==
    ASSUME NEW db, Database(db), NEW q, IsList(q), q.rows = <<>>,
           q.total = Cardinality(Listed(db, q)),
           NEW a, a = Page(Ascending(Listed(db, q)), q.page)
    PROVE  Reading(q, a, 0, db)
  <1>. DEFINE n == Cardinality(Listed(db, q))
              o == Offset(q)
  <1>1. n \in Nat /\ o \in Nat /\ Len(Ahead(db, q)) = IF n > o THEN n - o ELSE 0  BY AheadIs DEF AheadAt
  <1>2. RestOf(q) = IF n > o THEN n - o ELSE 0  BY DEF RestOf
  <1>3. Len(q.rows) = 0  OBVIOUS
  <1>4. Len(q.rows) <= PageSize  BY <1>3, CatalogAssumption
  <1>5. Rising(q.rows)  BY DEF Rising
  <1>6. Near(Len(q.rows) + Len(Ahead(db, q)), RestOf(q), 0)
    <2>. DEFINE x == IF n > o THEN n - o ELSE 0
    <2>1. x \in Nat  BY <1>1
    <2>2. Len(Ahead(db, q)) = x /\ RestOf(q) = x  BY <1>1, <1>2
    <2>. HIDE DEF x
    <2>3. Near(0 + x, x, 0)  BY <2>1 DEF Near
    <2>. QED  BY <1>3, <2>2, <2>3
  <1>7. IsStart(q.rows, Ascending(Listed(db, q)), Offset(q))  BY DEF IsStart
  <1>. QED  BY <1>4, <1>5, <1>6, <1>7 DEF Reading

\* As long as the rows are the first of the ids, the cursor has the others in front of it.
LEMMA StartAhead ==
    ASSUME NEW db, Database(db), NEW q, IsList(q), q.rows # <<>>,
           NEW ids, ids = Ascending(Listed(db, q)), NEW n, n = Cardinality(Listed(db, q)),
           NEW k, k = Offset(q) + Len(q.rows), IsStart(q.rows, ids, Offset(q))
    PROVE  /\ k \in 1..n /\ Last(q.rows) = ids[k]
           /\ Ahead(db, q) = SubSeq(ids, k + 1, n)
           /\ Len(Ahead(db, q)) = n - k
  <1>. DEFINE o == Offset(q)
              l == Len(q.rows)
  <1>1. ids \in Seq(Nat) /\ Len(ids) = n /\ n \in Nat /\ o \in Nat  BY AheadIs DEF AheadAt
  <1>2. l \in Nat \ {0}  BY EmptySeq DEF IsList
  <1>3. k <= n /\ q.rows = SubSeq(ids, o + 1, k)  BY <1>1 DEF IsStart
  <1>4. k = o + l  OBVIOUS
  <1>. HIDE DEF o, l
  <1>5. k \in 1..n /\ k \in Int /\ o + 1 \in Int /\ k - (o + 1) + 1 = l
    <2>1. ASSUME NEW x \in Nat, NEW y \in Nat \ {0}, NEW z \in Nat, x + y <= z
          PROVE  x + y \in 1..z /\ x + y \in Int /\ x + 1 \in Int /\ (x + y) - (x + 1) + 1 = y
      BY <2>1
    <2>2. o + l <= n  BY <1>3, <1>4
    <2>3. o + l \in 1..n /\ o + l \in Int /\ o + 1 \in Int /\ (o + l) - (o + 1) + 1 = l  BY <1>1, <1>2, <2>1, <2>2
    <2>. QED  BY <1>4, <2>3
  <1>6. \A i \in (o + 1)..k : ids[i] \in Nat
    <2>1. \A i \in 1..Len(ids) : ids[i] \in Nat  BY <1>1, LenProperties
    <2>2. \A i \in (o + 1)..k : i \in 1..n
      <3>1. ASSUME NEW i \in (o + 1)..k PROVE i \in 1..n  BY <1>1, <1>5, <3>1
      <3>. QED  BY <3>1
    <2>. QED  BY <1>1, <2>1, <2>2
  <1>7. Last(q.rows) = ids[k]
    <2>1. \A i \in 1..(k - (o + 1) + 1) : SubSeq(ids, o + 1, k)[i] = ids[(o + 1) + i - 1]
      BY <1>5, <1>6, SubSeqProperties
    <2>2. l \in 1..(k - (o + 1) + 1) /\ (o + 1) + l - 1 = k
      <3>1. ASSUME NEW x \in Nat, NEW y \in Nat \ {0} PROVE y \in 1..y /\ (x + 1) + y - 1 = x + y  OBVIOUS
      <3>2. l \in 1..l /\ (o + 1) + l - 1 = o + l  BY <1>1, <1>2, <3>1
      <3>. QED  BY <1>4, <1>5, <3>2
    <2>3. q.rows[l] = ids[(o + 1) + l - 1]  BY <1>3, <2>1, <2>2
    <2>. QED  BY <2>2, <2>3 DEF Last, l
  <1>8. Listed(db, q) \in SUBSET Nat /\ IsFiniteSet(Listed(db, q))  BY ListedIds
  <1>9. Ascending({p \in Listed(db, q) : p > Last(q.rows)}) = SubSeq(ids, k + 1, n)
    BY <1>5, <1>7, <1>8, AscendingTail
  <1>10. Ahead(db, q) = SubSeq(ids, k + 1, n)  BY <1>9, AheadIs DEF AheadAt
  <1>11. Len(SubSeq(ids, k + 1, n)) = IF k + 1 <= n THEN n - (k + 1) + 1 ELSE 0
    <2>1. \A i \in (k + 1)..n : ids[i] \in Nat
      <3>1. \A i \in 1..Len(ids) : ids[i] \in Nat  BY <1>1, LenProperties
      <3>2. \A i \in (k + 1)..n : i \in 1..n  BY <1>1, <1>5
      <3>. QED  BY <1>1, <3>1, <3>2
    <2>2. k + 1 \in Int /\ n \in Int  BY <1>1, <1>5
    <2>. QED  BY <2>1, <2>2, SubSeqProperties
  <1>12. (IF k + 1 <= n THEN n - (k + 1) + 1 ELSE 0) = n - k
    <2>1. ASSUME NEW y \in Nat, NEW x \in 1..y PROVE (IF x + 1 <= y THEN y - (x + 1) + 1 ELSE 0) = y - x  OBVIOUS
    <2>. QED  BY <1>1, <1>5, <2>1
  <1>. QED  BY <1>5, <1>7, <1>10, <1>11, <1>12

\* A row is read: x, which stood first in front of the cursor.
LEMMA RowAhead ==
    ASSUME NEW db, Database(db), NEW q, IsList(q), Ahead(db, q) # <<>>,
           NEW x, x = Head(Ahead(db, q)),
           NEW r, r.page = q.page, Listed(db, r) = Listed(db, q), IsList(r), r.rows = Append(q.rows, x)
    PROVE  /\ x \in Nat
           /\ q.rows # <<>> => x > Last(q.rows)
           /\ Len(Ahead(db, q)) \in Nat
           /\ Len(Ahead(db, r)) = Len(Ahead(db, q)) - 1
  <1>. DEFINE A == Listed(db, q)
              ids == Ascending(A)
              n == Cardinality(A)
              o == Offset(q)
  <1>1. /\ ids \in Seq(Nat) /\ Len(ids) = n /\ n \in Nat /\ o \in Nat
        /\ q.rows = <<>> => /\ Ahead(db, q) = SubSeq(ids, o + 1, n)
                            /\ Ahead(db, q) \in Seq(Nat)
                            /\ Len(Ahead(db, q)) = IF n > o THEN n - o ELSE 0
    BY AheadIs DEF AheadAt
  <1>2. r.rows # <<>> /\ Last(r.rows) = x
    <2>1. Ahead(db, q) \in Seq(Nat)  BY AheadIs DEF AheadAt
    <2>2. x \in Nat  BY <2>1, HeadTailProperties
    <2>3. q.rows \in Seq(Nat)  BY DEF IsList
    <2>4. r.rows # <<>> /\ Len(r.rows) = Len(q.rows) + 1 /\ r.rows[Len(q.rows) + 1] = x
      BY <2>2, <2>3, AppendNat
    <2>5. r.rows[Len(r.rows)] = x  BY <2>4
    <2>. QED  BY <2>4, <2>5 DEF Last
  <1>3. /\ Ahead(db, r) = Ascending({p \in A : p > x})
        /\ Len(Ahead(db, r)) = Cardinality({p \in A : p > x})
    <2>1. /\ Ahead(db, r) = Ascending(Above(Listed(db, r), Last(r.rows)))
          /\ Len(Ahead(db, r)) = Cardinality(Above(Listed(db, r), Last(r.rows)))
      BY <1>2, AheadLater
    <2>2. Above(Listed(db, r), Last(r.rows)) = Above(A, x)  BY <1>2
    <2>3. Above(A, x) = {p \in A : p > x}  BY DEF Above
    <2>. QED  BY <2>1, <2>2, <2>3
  <1>4. A \in SUBSET Nat /\ IsFiniteSet(A)  BY ListedIds
  <1>5. ASSUME NEW T \in SUBSET A, NEW i \in 1..Cardinality(T), x = Ascending(T)[i],
               {p \in T : p > x} = {p \in A : p > x}
        PROVE  /\ x \in T /\ x \in Nat
               /\ Len(Ahead(db, r)) = Cardinality(T) - i
    <2>1. T \in SUBSET Nat /\ IsFiniteSet(T)  BY ListedIds
    <2>2. /\ Cardinality(T) \in Nat /\ Ascending(T) \in Seq(T)
          /\ Len(Ascending(T)) = Cardinality(T)
      BY <2>1, AscendingInLine
    <2>3. x \in T  BY <1>5, <2>2, LenProperties
    <2>4. Ascending({p \in T : p > x}) = SubSeq(Ascending(T), i + 1, Cardinality(T))  BY <1>5, <2>1, AscendingTail
    <2>5. Ahead(db, r) = SubSeq(Ascending(T), i + 1, Cardinality(T))  BY <1>3, <1>5, <2>4
    <2>6. \A j \in (i + 1)..Cardinality(T) : Ascending(T)[j] \in T
      <3>1. \A j \in 1..Len(Ascending(T)) : Ascending(T)[j] \in T  BY <2>2, LenProperties
      <3>2. \A j \in (i + 1)..Cardinality(T) : j \in 1..Cardinality(T)  BY <2>2
      <3>. QED  BY <2>2, <3>1, <3>2
    <2>. DEFINE m == Cardinality(T)
    <2>7. i + 1 \in Int /\ m \in Int /\ i \in 1..m  BY <2>2
    <2>8. Len(SubSeq(Ascending(T), i + 1, m)) = IF i + 1 <= m THEN m - (i + 1) + 1 ELSE 0
      BY <2>6, <2>7, SubSeqProperties
    <2>9. Len(Ahead(db, r)) = IF i + 1 <= m THEN m - (i + 1) + 1 ELSE 0  BY <2>5, <2>8
    <2>. HIDE DEF m
    <2>10. (IF i + 1 <= m THEN m - (i + 1) + 1 ELSE 0) = m - i  BY <2>7
    <2>. QED  BY <2>1, <2>3, <2>9, <2>10 DEF m
  <1>. HIDE DEF A
  <1>6. CASE q.rows = <<>>
    <2>1. n > o  
      <3>1. Len(Ahead(db, q)) # 0  BY <1>1, <1>6, EmptySeq
      <3>. QED  BY <1>1, <1>6, <3>1
    <2>. HIDE DEF n, o, ids
    <2>2. o + 1 \in 1..n /\ n \in (o + 1)..n  BY <1>1, <2>1
    <2>3. x = ids[o + 1]
      <3>1. o + 1 \in 1..Len(ids) /\ n \in (o + 1)..Len(ids)  BY <1>1, <2>2
      <3>2. Head(SubSeq(ids, o + 1, n)) = ids[o + 1]  BY <1>1, <3>1, HeadTailOfSubSeq
      <3>. QED  BY <1>1, <1>6, <3>2
    <2>4. x \in Nat /\ Len(Ahead(db, r)) = n - (o + 1)  BY <1>5, <2>2, <2>3 DEF n, ids
    <2>5. Len(Ahead(db, q)) = n - o /\ n - o \in Nat  BY <1>1, <1>6, <2>1
    <2>6. n - (o + 1) = (n - o) - 1  BY <1>1
    <2>. QED  BY <1>6, <2>4, <2>5, <2>6
  <1>7. CASE q.rows # <<>>
    <2>. DEFINE T == {p \in A : p > Last(q.rows)}
    <2>1. Ahead(db, q) = Ascending(T) /\ Len(Ahead(db, q)) = Cardinality(T)  BY <1>7, AheadIs DEF AheadAt, A
    <2>2. T \in SUBSET A  OBVIOUS
    <2>3. T \in SUBSET Nat /\ IsFiniteSet(T)  BY <2>2, ListedIds DEF A
    <2>4. /\ Cardinality(T) \in Nat /\ Ascending(T) \in Seq(T)
          /\ Len(Ascending(T)) = Cardinality(T)
      BY <2>3, AscendingInLine
    <2>5. 1 \in 1..Cardinality(T) /\ x = Ascending(T)[1]
      <3>1. Len(Ahead(db, q)) # 0  BY <2>1, <2>4, EmptySeq
      <3>. QED  BY <2>1, <2>4, <3>1
    <2>6. x \in T  BY <2>4, <2>5, LenProperties
    <2>7. {p \in T : p > x} = {p \in A : p > x}
      <3>1. Last(q.rows) \in Nat
        <4>1. Len(q.rows) \in 1..Len(q.rows)  BY <1>7, EmptySeq DEF IsList
        <4>. QED  BY <4>1, LenProperties DEF IsList, Last
      <3>2. \A p \in Nat : p > x => p > Last(q.rows)  BY <2>3, <2>6, <3>1
      <3>. QED  BY <1>4, <3>2
    <2>8. x \in Nat /\ Len(Ahead(db, r)) = Cardinality(T) - 1  BY <1>5, <2>2, <2>5, <2>7
    <2>. QED  BY <2>1, <2>4, <2>6, <2>8
  <1>. QED  BY <1>6, <1>7

\* SQLITE_ROW: one row more, one less in front of the cursor.
LEMMA RowReads ==
    ASSUME NEW db, Database(db), NEW q, NEW a, NEW m \in Nat, Reading(q, a, m, db),
           Len(q.rows) < PageSize, Ahead(db, q) # <<>>,
           NEW r, r.page = q.page, r.total = q.total, Listed(db, r) = Listed(db, q),
           r.rows = Append(q.rows, Head(Ahead(db, q)))
    PROVE  Reading(r, a, m, db)
  <1>. DEFINE x == Head(Ahead(db, q))
              k == Len(q.rows)
              ids == Ascending(Listed(db, q))
              o == Offset(q)
  <1>1. IsList(q) /\ k \in Nat  BY LenProperties DEF Reading, IsList
  <1>2. x \in Nat
    <2>1. Ahead(db, q) \in Seq(Nat)  BY <1>1, AheadIs DEF AheadAt
    <2>. QED  BY <2>1, HeadTailProperties
  <1>3. /\ r.rows \in Seq(Nat) /\ Len(r.rows) = k + 1 /\ r.rows # <<>>
        /\ \A i \in 1..k : r.rows[i] = q.rows[i]
        /\ r.rows[k + 1] = x
    <2>1. q.rows \in Seq(Nat)  BY <1>1 DEF IsList
    <2>. DEFINE s == q.rows
    <2>2. s \in Seq(Nat) /\ r.rows = Append(s, x) /\ k = Len(s)  BY <2>1
    <2>. HIDE DEF s, x, k
    <2>3. /\ Append(s, x) \in Seq(Nat) /\ Append(s, x) # <<>> /\ Len(Append(s, x)) = Len(s) + 1
          /\ \A i \in 1..Len(s) : Append(s, x)[i] = s[i]
          /\ Append(s, x)[Len(s) + 1] = x
      BY <1>2, <2>2, AppendNat
    <2>4. /\ r.rows \in Seq(Nat) /\ Len(r.rows) = k + 1 /\ r.rows # <<>>
          /\ \A i \in 1..k : r.rows[i] = s[i]
          /\ r.rows[k + 1] = x
      BY <2>2, <2>3
    <2>. QED  BY <2>4 DEF s
  <1>4. IsList(r)  BY <1>1, <1>3 DEF IsList
  <1>5. /\ q.rows # <<>> => x > Last(q.rows)
        /\ Len(Ahead(db, q)) \in Nat
        /\ Len(Ahead(db, r)) = Len(Ahead(db, q)) - 1
    BY <1>1, <1>4, RowAhead
  <1>6. Offset(r) = o /\ RestOf(r) = RestOf(q)  BY DEF Offset, RestOf
  <1>7. /\ Len(q.rows) <= PageSize /\ Rising(q.rows)
        /\ Near(Len(q.rows) + Len(Ahead(db, q)), RestOf(q), m)
        /\ m = 0 => a = Page(ids, q.page) /\ IsStart(q.rows, ids, o)
    BY DEF Reading
  <1>8. Len(r.rows) <= PageSize  BY <1>1, <1>3, CatalogAssumption
  <1>9. Rising(r.rows)
    <2>1. DOMAIN r.rows = 1..(k + 1) /\ DOMAIN q.rows = 1..k  BY <1>1, <1>3, LenProperties DEF IsList
    <2>2. \A i \in 1..k : q.rows[i] \in Nat  BY <1>1, LenProperties DEF IsList
    <2>3. ASSUME NEW i \in 1..k PROVE q.rows[i] < x
      <3>1. q.rows # <<>> /\ k \in 1..k  BY <1>1
      <3>2. q.rows[k] < x
        <4>1. x > q.rows[k]  BY <1>5, <3>1 DEF Last
        <4>. QED  BY <1>2, <2>2, <3>1, <4>1
      <3>3. i = k \/ q.rows[i] < q.rows[k]  BY <1>7, <2>1, <3>1 DEF Rising
      <3>. QED  BY <1>2, <2>2, <3>1, <3>2, <3>3
    <2>. HIDE DEF k, x
    <2>4. ASSUME NEW i \in 1..(k + 1), NEW j \in 1..(k + 1), i < j PROVE r.rows[i] < r.rows[j]
      <3>1. i \in 1..k /\ (j \in 1..k \/ j = k + 1)  BY <1>1, <2>4
      <3>2. CASE j \in 1..k
        <4>1. q.rows[i] < q.rows[j]  BY <1>7, <2>1, <2>4, <3>1, <3>2 DEF Rising
        <4>. QED  BY <1>3, <3>1, <3>2, <4>1
      <3>3. CASE j = k + 1  BY <1>3, <2>3, <3>1, <3>3
      <3>. QED  BY <3>1, <3>2, <3>3
    <2>. QED  BY <2>1, <2>4 DEF Rising
  <1>10. Near(Len(r.rows) + Len(Ahead(db, r)), RestOf(r), m)
    <2>. DEFINE y == Len(Ahead(db, q))
    <2>. HIDE DEF y, k
    <2>1. y \in Nat /\ (k + 1) + (y - 1) = k + y  BY <1>1, <1>5 DEF y
    <2>2. Len(r.rows) + Len(Ahead(db, r)) = k + y  BY <1>3, <1>5, <2>1 DEF y
    <2>. QED  BY <1>6, <1>7, <2>2 DEF k, y
  <1>11. ASSUME m = 0 PROVE IsStart(r.rows, ids, o)
    <2>. DEFINE n == Cardinality(Listed(db, q))
    <2>1. ids \in Seq(Nat) /\ Len(ids) = n /\ n \in Nat /\ o \in Nat  BY <1>1, AheadIs DEF AheadAt
    <2>2. o + k < n /\ x = ids[o + k + 1] /\ q.rows = SubSeq(ids, o + 1, o + k)
      <3>1. CASE q.rows = <<>>
        <4>1. Ahead(db, q) = SubSeq(ids, o + 1, n) /\ Len(Ahead(db, q)) = IF n > o THEN n - o ELSE 0
          BY <1>1, <3>1, AheadFirst
        <4>2. k = 0  BY <3>1
        <4>3. Len(Ahead(db, q)) # 0
          <5>1. Ahead(db, q) \in Seq(Nat)  BY <1>1, AheadIs DEF AheadAt
          <5>. QED  BY <5>1, EmptySeq
        <4>. HIDE DEF o, n, k
        <4>4. n > o /\ o + 1 \in 1..Len(ids) /\ n \in (o + 1)..Len(ids)  BY <2>1, <4>1, <4>3
        <4>. HIDE DEF ids
        <4>5. Head(SubSeq(ids, o + 1, n)) = ids[o + 1]  BY <2>1, <4>4, HeadTailOfSubSeq
        <4>6. o + k < n /\ o + k + 1 = o + 1 /\ o + k = o  BY <2>1, <4>2, <4>4
        <4>7. SubSeq(ids, o + 1, o) = <<>>  BY <2>1, SubSeqEmpty
        <4>. QED  BY <3>1, <4>1, <4>5, <4>6, <4>7 DEF x
      <3>2. CASE q.rows # <<>>
        <4>. DEFINE e == o + k
        <4>1. IsStart(q.rows, ids, o)  BY <1>7, <1>11
        <4>2. e \in 1..n /\ Ahead(db, q) = SubSeq(ids, e + 1, n) /\ Len(Ahead(db, q)) = n - e
          BY <1>1, <3>2, <4>1, StartAhead
        <4>3. q.rows = SubSeq(ids, o + 1, e)  BY <3>2, <4>1 DEF IsStart
        <4>4. Len(Ahead(db, q)) # 0
          <5>1. Ahead(db, q) \in Seq(Nat)  BY <1>1, AheadIs DEF AheadAt
          <5>. QED  BY <5>1, EmptySeq
        <4>. HIDE DEF e, n, ids
        <4>5. e < n /\ e + 1 \in 1..Len(ids) /\ n \in (e + 1)..Len(ids)  BY <2>1, <4>2, <4>4
        <4>6. Head(SubSeq(ids, e + 1, n)) = ids[e + 1]  BY <2>1, <4>5, HeadTailOfSubSeq
        <4>. QED  BY <4>2, <4>3, <4>5, <4>6 DEF e, x
      <3>. QED  BY <3>1, <3>2
    <2>. HIDE DEF n, ids, o, k, x
    <2>. DEFINE e == o + k + 1
    <2>3. e \in 1..n /\ o + 1 \in 1..Len(ids) /\ e \in (o + 1)..Len(ids) /\ e - 1 = o + k
      BY <1>1, <2>1, <2>2
    <2>4. SubSeq(ids, o + 1, e) = SubSeq(ids, o + 1, e - 1) \o <<ids[e]>>
      BY <2>1, <2>3, SubSeqRecursiveSecond
    <2>5. r.rows = q.rows \o <<x>>  BY <1>1, <1>2, AppendIsConcat DEF IsList, x
    <2>6. r.rows = SubSeq(ids, o + 1, e)  BY <2>2, <2>3, <2>4, <2>5
    <2>7. o + Len(r.rows) = e /\ e <= Len(ids)
      <3>1. Len(r.rows) = k + 1  BY <1>3
      <3>2. o + (k + 1) = o + k + 1  BY <1>1, <2>1 DEF k
      <3>3. o + Len(r.rows) = e  BY <3>1, <3>2
      <3>. HIDE DEF e
      <3>. QED  BY <2>1, <2>3, <3>3
    <2>. QED  BY <2>6, <2>7 DEF IsStart
  <1>. QED  BY <1>4, <1>6, <1>7, <1>8, <1>9, <1>10, <1>11 DEF Reading

\* SQLITE_DONE: the answer keeps what is promised of it.
LEMMA DoneAnswers ==
    ASSUME NEW db, Database(db), NEW q, NEW a, NEW m \in Nat, Reading(q, a, m, db),
           Len(q.rows) = PageSize \/ Ahead(db, q) = <<>>
    PROVE  Answer(q, a, m)
  <1>. DEFINE k == Len(q.rows)
              y == Len(Ahead(db, q))
              z == RestOf(q)
              rest == q.total - Offset(q)
              fit == IF rest < 0 THEN 0 ELSE Min({rest, PageSize})
              ids == Ascending(Listed(db, q))
              n == Cardinality(Listed(db, q))
              o == Offset(q)
  <1>1. IsList(q) /\ k \in Nat  BY LenProperties DEF Reading, IsList
  <1>2. ids \in Seq(Nat) /\ Len(ids) = n /\ n \in Nat /\ o \in Nat  BY <1>1, AheadIs DEF AheadAt
  <1>3. PageSize \in Nat \ {0}  BY CatalogAssumption
  <1>4. y \in Nat /\ (Ahead(db, q) = <<>> => y = 0)
    <2>1. Ahead(db, q) \in Seq(Nat)  BY <1>1, AheadIs DEF AheadAt
    <2>. QED  BY <2>1, LenProperties
  <1>5. k <= PageSize /\ Rising(q.rows) /\ Near(k + y, z, m)
        /\ (m = 0 => a = Page(ids, q.page) /\ IsStart(q.rows, ids, o))
    BY DEF Reading
  <1>6. k - fit \in -m..m
    <2>1. q.total \in Nat  BY <1>1 DEF IsList
    <2>2. rest \in Int /\ z = IF rest > 0 THEN rest ELSE 0  BY <1>2, <2>1 DEF RestOf
    <2>3. rest >= 0 => fit = IF rest <= PageSize THEN rest ELSE PageSize  BY <1>3, <2>2, MinOfTwo
    <2>4. rest < 0 => fit = 0  OBVIOUS
    <2>5. k = PageSize \/ y = 0  BY <1>4
    <2>. HIDE DEF k, y, z, rest, fit
    <2>6. (k + y) - z <= m /\ z - (k + y) <= m  BY <1>5 DEF Near
    <2>7. fit = IF z <= PageSize THEN z ELSE PageSize  BY <1>3, <2>2, <2>3, <2>4
    <2>8. z \in Nat  BY <2>2
    <2>. QED  BY <1>1, <1>3, <1>4, <1>5, <2>5, <2>6, <2>7, <2>8
  <1>7. ASSUME m = 0 PROVE q.rows = a
    <2>1. a = SubSeq(ids, o + 1, Min({o + PageSize, n}))
      <3>1. Len(ids) \in Nat /\ q.page \in Nat \ {0}  BY <1>1, <1>2 DEF IsList
      <3>2. Page(ids, q.page) = SubSeq(ids, o + 1, Min({o + PageSize, Len(ids)}))
        BY <3>1, PageLength DEF Offset
      <3>. QED  BY <1>2, <1>5, <1>7, <3>2
    <2>2. Min({o + PageSize, n}) = IF o + PageSize <= n THEN o + PageSize ELSE n  BY <1>2, <1>3, MinOfTwo
    <2>3. CASE q.rows = <<>>
      <3>1. Ahead(db, q) = <<>>  BY <1>3, <2>3
      <3>2. y = IF n > o THEN n - o ELSE 0  BY <1>1, <2>3, AheadIs DEF AheadAt
      <3>. HIDE DEF y, n, o, ids
      <3>3. n <= o  BY <1>2, <1>4, <3>1, <3>2
      <3>4. Min({o + PageSize, n}) = n  BY <1>2, <1>3, <2>2, <3>3
      <3>5. SubSeq(ids, o + 1, n) = <<>>  BY <1>2, <3>3, SubSeqEmpty
      <3>. QED  BY <2>1, <2>3, <3>4, <3>5
    <2>4. CASE q.rows # <<>>
      <3>1. IsStart(q.rows, ids, o)  BY <1>5, <1>7
      <3>2. o + k \in 1..n /\ y = n - (o + k)  BY <1>1, <2>4, <3>1, StartAhead
      <3>3. q.rows = SubSeq(ids, o + 1, o + k)  BY <2>4, <3>1 DEF IsStart
      <3>4. k = PageSize \/ y = 0  BY <1>4
      <3>. HIDE DEF y, n, o, ids, k
      <3>5. (IF o + PageSize <= n THEN o + PageSize ELSE n) = o + k  BY <1>1, <1>2, <1>3, <1>5, <3>2, <3>4
      <3>. QED  BY <2>1, <2>2, <3>3, <3>5
    <2>. QED  BY <2>3, <2>4
  <1>. QED  BY <1>5, <1>6, <1>7 DEF Answer

\* Somebody writes to one problem at most: what is in front of the cursor becomes one
\* more or one less at most, and that is counted.
LEMMA OthersWrite ==
    ASSUME NEW db, Database(db), NEW new, Database(new), NEW q, NEW a, NEW m \in Nat, Reading(q, a, m, db),
           NEW p, \A r : r # p => (r \in Listed(db, q) <=> r \in Listed(new, q)),
           NEW l, l = IF Listed(new, q) = Listed(db, q) THEN m ELSE m + 1
    PROVE  Reading(q, a, l, new)
  <1>1. IsList(q) /\ Len(q.rows) \in Nat  BY LenProperties DEF Reading, IsList
  <1>2. CASE Listed(new, q) = Listed(db, q)
    <2>1. Ahead(new, q) = Ahead(db, q)  BY <1>2 DEF Ahead
    <2>. QED  BY <1>2, <2>1 DEF Reading
  <1>3. CASE Listed(new, q) # Listed(db, q)
    <2>. DEFINE x == Len(Ahead(db, q))
                y == Len(Ahead(new, q))
                k == Len(q.rows)
                z == RestOf(q)
    <2>1. x \in Nat /\ y \in Nat /\ y - x <= 1 /\ x - y <= 1
      <3>1. CASE q.rows = <<>>
        <4>. DEFINE n == Cardinality(Listed(db, q))
                    i == Cardinality(Listed(new, q))
                    o == Offset(q)
        <4>1. o \in Nat /\ n \in Nat /\ x = IF n > o THEN n - o ELSE 0  BY <1>1, <3>1, AheadIs DEF AheadAt
        <4>2. i \in Nat /\ y = IF i > o THEN i - o ELSE 0  BY <1>1, <3>1, AheadIs DEF AheadAt
        <4>3. IsFiniteSet(Listed(db, q)) /\ IsFiniteSet(Listed(new, q))  BY ListedIds
        <4>4. n <= i + 1 /\ i <= n + 1  BY <4>3, OneApart
        <4>. HIDE DEF n, i, o, x, y
        <4>. QED  BY <4>1, <4>2, <4>4
      <3>2. CASE q.rows # <<>>
        <4>. DEFINE S == {r \in Listed(db, q) : r > Last(q.rows)}
                    T == {r \in Listed(new, q) : r > Last(q.rows)}
        <4>1. IsFiniteSet(S) /\ x = Cardinality(S)  BY <1>1, <3>2, AheadIs DEF AheadAt
        <4>2. IsFiniteSet(T) /\ y = Cardinality(T)  BY <1>1, <3>2, AheadIs DEF AheadAt
        <4>3. \A r : r # p => (r \in S <=> r \in T)  OBVIOUS
        <4>. HIDE DEF S, T, x, y
        <4>4. /\ Cardinality(S) \in Nat /\ Cardinality(T) \in Nat
              /\ Cardinality(S) <= Cardinality(T) + 1 /\ Cardinality(T) <= Cardinality(S) + 1
          BY <4>1, <4>2, <4>3, OneApart
        <4>. QED  BY <4>1, <4>2, <4>4
      <3>. QED  BY <3>1, <3>2
    <2>2. Near(k + x, z, m)  BY DEF Reading
    <2>3. z \in Int
      <3>1. q.total \in Nat /\ Offset(q) \in Nat  BY <1>1, OffsetIs DEF IsList
      <3>. QED  BY <3>1 DEF RestOf
    <2>. HIDE DEF x, y, k, z
    <2>4. k \in Nat  BY <1>1 DEF k
    <2>5. Near(k + y, z, m + 1)  BY <2>1, <2>2, <2>3, <2>4 DEF Near
    <2>6. l = m + 1 /\ l # 0  BY <1>3
    <2>. QED  BY <2>5, <2>6 DEF Reading, k, y, z
  <1>. QED  BY <1>2, <1>3

\* The tables f and g have the same rows but for one at most.
OneRow(f, g) ==
    \E p : \A q : q # p => /\ q \in DOMAIN f <=> q \in DOMAIN g
                           /\ q \in DOMAIN f => g[q] = f[q]

\* No row, a row more, a row written, a row less.
LEMMA RowChanges ==
    ASSUME NEW f, NEW k, NEW v
    PROVE  /\ OneRow(f, f)
           /\ OneRow(f, Put(f, k, v))
           /\ OneRow(f, [f EXCEPT ![k] = v])
           /\ OneRow(f, Drop(f, {k}))
  BY DEF OneRow, Put, Drop

\* It does not matter which of them was first.
LEMMA RowBack ==
    ASSUME NEW f, NEW g, OneRow(f, g)
    PROVE  OneRow(g, f)
  <1>1. PICK p : \A q : q # p => (q \in DOMAIN f <=> q \in DOMAIN g) /\ (q \in DOMAIN f => g[q] = f[q])  BY DEF OneRow
  <1>2. \A q : q # p => (q \in DOMAIN g <=> q \in DOMAIN f) /\ (q \in DOMAIN g => f[q] = g[q])  BY <1>1
  <1>. QED  BY <1>2 DEF OneRow

\* A transaction has written one row of problems at most.
LEMMA WrittenRow ==
    ASSUME NEW db, Database(db), NEW t \in Clients, NEW o, OpFields(t, o), NEW place \in Places,
           NEW p, NEW rest, NEW new, Written(place, o, p, rest, db, new)
    PROVE  OneRow(db.problems, new.problems)
  <1>1. OneRow(db.problems, db.problems)  BY RowChanges
  <1>2. ASSUME o.kind = "create"
        PROVE  /\ OneRow(db.problems, Created(db, o).problems)
               /\ Database(Created(db, o))
    <2>1. o.tag \in Authors /\ o.visible \in BOOLEAN  BY <1>2 DEF OpFields, Authors
    <2>2. Created(db, o).problems = Put(db.problems, db.lastProblem + 1, NewRow(o))  BY CreatedColumns
    <2>3. Database(Created(db, o))  BY <2>1, CreatedDatabase
    <2>4. OneRow(db.problems, Put(db.problems, db.lastProblem + 1, NewRow(o)))  BY RowChanges
    <2>. QED  BY <2>2, <2>3, <2>4
  <1>3. ASSUME o.kind = "update", o.problem \in DOMAIN db.problems
        PROVE  /\ OneRow(db.problems, Updated(db, o).problems)
               /\ Database(Updated(db, o))
    <2>. DEFINE row == merged(o, db.problems[o.problem])
    <2>1. Updated(db, o).problems = [db.problems EXCEPT ![o.problem] = row]  BY UpdatedColumns
    <2>. HIDE DEF row
    <2>2. Database(Updated(db, o))  BY <1>3, UpdatedDatabase
    <2>3. OneRow(db.problems, [db.problems EXCEPT ![o.problem] = row])  BY RowChanges
    <2>. QED  BY <2>1, <2>2, <2>3
  <1>4. ASSUME NEW base, Database(base), NEW k, NEW texts, NEW d
        PROVE  WithSamples(base, k, texts, d).problems = base.problems
    BY <1>4, SampleColumns, RecordColumns
  <1>5. /\ Emptied(db, o).problems = db.problems
        /\ Removed(db, o).problems = Drop(db.problems, {o.problem})
        /\ CaseAdded(db, o).problems = db.problems
        /\ CaseRemoved(db, o).problems = db.problems
    <2>1. \A problems, cases, lastProblem, lastCase, status :
             Record(problems, cases, lastProblem, lastCase, status).problems = problems
      BY DEF Record
    <2>2. \E cases, lastProblem, lastCase, status :
             Emptied(db, o) = Record(db.problems, cases, lastProblem, lastCase, status)
      <3>1. Emptied(db, o) = Record(db.problems, Drop(db.cases, CasesOf(db, o.problem)),
                                    db.lastProblem, db.lastCase, db.status)
        BY Columns
      <3>. QED  BY <3>1
    <2>3. \E cases, lastProblem, lastCase, status :
             Removed(db, o) = Record(Drop(db.problems, {o.problem}), cases, lastProblem, lastCase, status)
      <3>1. Removed(db, o) = Record(Drop(db.problems, {o.problem}), Drop(db.cases, CasesOf(db, o.problem)),
                                    db.lastProblem, db.lastCase, db.status)
        BY Columns
      <3>. QED  BY <3>1
    <2>4. \E cases, lastProblem, lastCase, status :
             CaseAdded(db, o) = Record(db.problems, cases, lastProblem, lastCase, status)
      <3>. DEFINE more == Put(db.cases, db.lastCase + 1, [problem |-> o.problem, ord |-> NewOrd(db, o),
                                                          sample |-> FALSE, text |-> o.text])
      <3>1. CaseAdded(db, o) = Record(db.problems, more, db.lastProblem, db.lastCase + 1, db.status)  BY Columns
      <3>. HIDE DEF more
      <3>. QED  BY <3>1
    <2>5. \E cases, lastProblem, lastCase, status :
             CaseRemoved(db, o) = Record(db.problems, cases, lastProblem, lastCase, status)
      <3>1. CaseRemoved(db, o) = Record(db.problems, Drop(db.cases, {o.case}),
                                        db.lastProblem, db.lastCase, db.status)
        BY Columns
      <3>. QED  BY <3>1
    <2>. QED  BY <2>1, <2>2, <2>3, <2>4, <2>5
  <1>6. CaseChanged(db, o).problems = db.problems
    <2>1. PICK problems, cases, lastProblem, lastCase, status :
             db = [problems |-> problems, cases |-> cases, lastProblem |-> lastProblem,
                   lastCase |-> lastCase, status |-> status]
      BY DEF Database
    <2>. QED  BY <2>1 DEF CaseChanged
  <1>7. CASE place = "begun"  BY <1>1, <1>7 DEF Written
  <1>8. CASE place = "replace"  BY <1>3, <1>8 DEF Written
  <1>9. CASE place = "samples"
    <2>1. PICK d \in 0..Len(o.samples) : Inserting(db, o, p, rest, new, d)  BY <1>9 DEF Written
    <2>. QED  BY <1>2, <1>3, <1>4, <2>1 DEF Inserting
  <1>10. CASE place = "emptied"  BY <1>1, <1>5, <1>10 DEF Written
  <1>11. CASE place = "written"
    <2>1. Effect(db, o, new)  BY <1>11 DEF Written
    <2>. DEFINE d == Len(o.samples)
    <2>. HIDE DEF d
    <2>2. CASE o.kind = "create" /\ new = WithSamples(Created(db, o), db.lastProblem + 1, o.samples, d)
      BY <1>2, <1>4, <2>2
    <2>3. CASE /\ o.kind = "update" /\ o.problem \in DOMAIN db.problems
               /\ new = IF o.samples = None THEN Updated(db, o)
                        ELSE WithSamples(Updated(db, o), o.problem, o.samples, d)
      BY <1>3, <1>4, <2>3
    <2>4. CASE new = Removed(db, o)  BY <1>5, <2>4, RowChanges
    <2>5. CASE new = CaseAdded(db, o)  BY <1>1, <1>5, <2>5
    <2>6. CASE new = CaseChanged(db, o)  BY <1>1, <1>6, <2>6
    <2>7. CASE new = CaseRemoved(db, o)  BY <1>1, <1>5, <2>7
    <2>. QED  BY <2>1, <2>2, <2>3, <2>4, <2>5, <2>6, <2>7 DEF Effect, d
  <1>. QED  BY <1>7, <1>8, <1>9, <1>10, <1>11 DEF Places

\* What a statement leaves of problems, by the columns that it writes.
LEMMA ColumnsWritten ==
    ASSUME NEW db, Database(db)
    PROVE  /\ \A x, y : [db EXCEPT !.lastProblem = x, !.problems = y].problems = y
           /\ \A x : [db EXCEPT !.problems = x].problems = x
           /\ \A x, y : [db EXCEPT !.lastCase = x, !.cases = y].problems = db.problems
           /\ \A x : [db EXCEPT !.cases = x].problems = db.problems
           /\ \A x : [db EXCEPT !.status = x].problems = db.problems
  <1>1. PICK problems, cases, lastProblem, lastCase, status :
           db = [problems |-> problems, cases |-> cases, lastProblem |-> lastProblem,
                 lastCase |-> lastCase, status |-> status]
    BY DEF Database
  <1>. QED  BY <1>1

\* A step of a request of an administrator writes one row of problems at most.
LEMMA ClientRow ==
    ASSUME CatalogInv, NEW t \in Clients, ClientNext(t)
    PROVE  OneRow(work.problems, work'.problems)
  <1>. DEFINE f == work.problems
              o == op[t]
  <1>1. Database(work) /\ Database(disk)  BY DEF CatalogInv
  <1>2. OneRow(f, f)  BY RowChanges
  <1>3. ASSUME NEW why, pc[t] \in Places \/ mutex = t, Rollback(t, why) PROVE OneRow(f, work'.problems)
    <2>1. /\ pc[t] \in Places /\ OpFields(t, o)
          /\ Written(pc[t], o, target[t], todo[t], disk, work)
      BY <1>3, Inside
    <2>2. OneRow(disk.problems, work.problems)  BY <1>1, <2>1, WrittenRow
    <2>3. work' = disk  BY <1>3 DEF Rollback
    <2>. QED  BY <2>2, <2>3, RowBack
  <1>4. ASSUME Reject(t) \/ Begin(t) \/ Commit(t) PROVE OneRow(f, work'.problems)
    <2>1. work' = work  BY <1>4 DEF Reject, Begin, Commit, dbVars
    <2>. QED  BY <1>2, <2>1
  <1>5. ASSUME Fail(t) PROVE OneRow(f, work'.problems)  BY <1>3, <1>5 DEF Fail
  <1>6. ASSUME CreateProblem(t) PROVE OneRow(f, work'.problems)
    <2>. DEFINE id == work.lastProblem + 1
                more == Put(work.problems, id, [tag |-> o.tag, visible |-> o.visible])
    <2>1. work' = [work EXCEPT !.lastProblem = id, !.problems = more]  BY <1>6 DEF CreateProblem, Write
    <2>2. OneRow(f, more)  BY RowChanges
    <2>. HIDE DEF id, more
    <2>. QED  BY <1>1, <2>1, <2>2, ColumnsWritten
  <1>7. ASSUME InsertSample(t) PROVE OneRow(f, work'.problems)
    <2>. DEFINE id == work.lastCase + 1
                more == Put(work.cases, id, [problem |-> target[t], ord |-> Len(o.samples) - Len(todo[t]),
                                             sample |-> TRUE, text |-> Head(todo[t])])
    <2>1. work' = [work EXCEPT !.lastCase = id, !.cases = more]  BY <1>7 DEF InsertSample, Write
    <2>. HIDE DEF id, more
    <2>2. work'.problems = f  BY <1>1, <2>1, ColumnsWritten
    <2>. QED  BY <1>2, <2>2
  <1>8. ASSUME UpdateProblem(t) PROVE OneRow(f, work'.problems)
    <2>. DEFINE other == [work.problems EXCEPT ![o.problem] = merged(o, @)]
    <2>1. \/ work' = [work EXCEPT !.problems = other]
          \/ Rollback(t, "NotFound") /\ pc[t] = "begun"
      <3>1. [work EXCEPT !.problems[o.problem] = merged(o, @)] = [work EXCEPT !.problems = other]
        <4>1. PICK problems, cases, lastProblem, lastCase, status :
                 work = [problems |-> problems, cases |-> cases, lastProblem |-> lastProblem,
                         lastCase |-> lastCase, status |-> status]
          BY <1>1 DEF Database
        <4>. QED  BY <4>1
      <3>. QED  BY <1>8, <3>1 DEF UpdateProblem, At, Write
    <2>2. OneRow(f, other)
      <3>. DEFINE row == merged(o, work.problems[o.problem])
      <3>1. other = [work.problems EXCEPT ![o.problem] = row]  OBVIOUS
      <3>. HIDE DEF row, other
      <3>. QED  BY <3>1, RowChanges
    <2>. HIDE DEF other
    <2>3. work' = [work EXCEPT !.problems = other] => work'.problems = other  BY <1>1, ColumnsWritten
    <2>. QED  BY <1>3, <2>1, <2>2, <2>3 DEF Places
  <1>9. ASSUME ReplaceSamples(t) PROVE OneRow(f, work'.problems)
    <2>. DEFINE left == Drop(work.cases, SamplesOf(work, o.problem))
    <2>1. work' = [work EXCEPT !.cases = left]  BY <1>9 DEF ReplaceSamples, Write
    <2>. HIDE DEF left
    <2>2. work'.problems = f  BY <1>1, <2>1, ColumnsWritten
    <2>. QED  BY <1>2, <2>2
  <1>10. ASSUME DeleteCases(t) PROVE OneRow(f, work'.problems)
    <2>. DEFINE left == Drop(work.cases, CasesOf(work, o.problem))
    <2>1. \/ work' = [work EXCEPT !.cases = left]
          \/ pc[t] = "begun" /\ \E why : Rollback(t, why)
      BY <1>10 DEF DeleteCases, At, Write
    <2>. HIDE DEF left
    <2>2. work' = [work EXCEPT !.cases = left] => work'.problems = f  BY <1>1, ColumnsWritten
    <2>. QED  BY <1>2, <1>3, <2>1, <2>2 DEF Places
  <1>11. ASSUME DeleteProblem(t) PROVE OneRow(f, work'.problems)
    <2>. DEFINE left == Drop(work.problems, {o.problem})
    <2>1. work' = [work EXCEPT !.problems = left]  BY <1>11 DEF DeleteProblem, Write
    <2>2. OneRow(f, left)  BY RowChanges
    <2>. HIDE DEF left
    <2>. QED  BY <1>1, <2>1, <2>2, ColumnsWritten
  <1>12. ASSUME CreateCase(t) PROVE OneRow(f, work'.problems)
    <2>. DEFINE id == work.lastCase + 1
                ord == Default(o.ord, NextOrd(work, o.problem))
                more == Put(work.cases, id, [problem |-> o.problem, ord |-> ord, sample |-> FALSE, text |-> o.text])
    <2>1. \/ work' = [work EXCEPT !.lastCase = id, !.cases = more]
          \/ pc[t] = "begun" /\ \E why : Rollback(t, why)
      BY <1>12 DEF CreateCase, At, Write
    <2>. HIDE DEF id, more
    <2>2. work' = [work EXCEPT !.lastCase = id, !.cases = more] => work'.problems = f  BY <1>1, ColumnsWritten
    <2>. QED  BY <1>2, <1>3, <2>1, <2>2 DEF Places
  <1>13. ASSUME UpdateCase(t) PROVE OneRow(f, work'.problems)
    <2>. DEFINE other == [work.cases EXCEPT ![o.case] = changed(o, @)]
    <2>1. \/ work' = [work EXCEPT !.cases = other]
          \/ pc[t] = "begun" /\ \E why : Rollback(t, why)
      <3>1. [work EXCEPT !.cases[o.case] = changed(o, @)] = [work EXCEPT !.cases = other]
        <4>1. PICK problems, cases, lastProblem, lastCase, status :
                 work = [problems |-> problems, cases |-> cases, lastProblem |-> lastProblem,
                         lastCase |-> lastCase, status |-> status]
          BY <1>1 DEF Database
        <4>. QED  BY <4>1
      <3>. QED  BY <1>13, <3>1 DEF UpdateCase, At, Write
    <2>. HIDE DEF other
    <2>2. work' = [work EXCEPT !.cases = other] => work'.problems = f  BY <1>1, ColumnsWritten
    <2>. QED  BY <1>2, <1>3, <2>1, <2>2 DEF Places
  <1>14. ASSUME DeleteCase(t) PROVE OneRow(f, work'.problems)
    <2>. DEFINE left == Drop(work.cases, {o.case})
    <2>1. \/ work' = [work EXCEPT !.cases = left]
          \/ pc[t] = "begun" /\ \E why : Rollback(t, why)
      BY <1>14 DEF DeleteCase, At, Write
    <2>. HIDE DEF left
    <2>2. work' = [work EXCEPT !.cases = left] => work'.problems = f  BY <1>1, ColumnsWritten
    <2>. QED  BY <1>2, <1>3, <2>1, <2>2 DEF Places
  <1>. QED  BY <1>4, <1>5, <1>6, <1>7, <1>8, <1>9, <1>10, <1>11, <1>12, <1>13, <1>14 DEF ClientNext

\* So does every step.
LEMMA NextRow ==
    ASSUME CatalogInv, Next
    PROVE  OneRow(work.problems, work'.problems)
  <1>1. OneRow(work.problems, work.problems)  BY RowChanges
  <1>2. Database(work)  BY DEF CatalogInv
  <1>3. CASE \E t \in Clients : ClientNext(t)  BY <1>3, ClientRow
  <1>4. CASE \E u \in Users, p \in 1..MaxId, solved \in BOOLEAN : Settle(u, p, solved)
    <2>1. PICK u \in Users, p \in 1..MaxId, solved \in BOOLEAN : Settle(u, p, solved)  BY <1>4
    <2>2. PICK v : work' = WithStatus(work, u, p, v)  BY <2>1, SettleWrites
    <2>3. work'.problems = work.problems  BY <1>2, <2>2, ColumnsWritten DEF WithStatus
    <2>. QED  BY <1>1, <2>3
  <1>5. CASE \E b \in Boards : BoardBegin(b) \/ BoardCount(b) \/ BoardPage(b) \/ BoardFail(b)
    <2>1. work' = work  BY <1>5 DEF BoardBegin, BoardCount, BoardPage, BoardFail, dbVars
    <2>. QED  BY <1>1, <2>1
  <1>. QED  BY <1>3, <1>4, <1>5 DEF Next

\* The key of the n-th of the samples, and the one before all.
KeyOf(db, ids, n) == IF n = 0 THEN <<-1, 0>> ELSE <<db.cases[ids[n]].ord, ids[n]>>

\* A request q for a problem has read the first n of its samples, whose texts are a.
HasFound(db, q, a, n) ==
    LET ids == InOrder(db, SamplesOf(db, q.problem)) IN
    /\ n \in 0..Cardinality(SamplesOf(db, q.problem))
    /\ a = list_samples(db, q.problem)
    /\ q.rows = SubSeq(a, 1, n)
    /\ q.at = KeyOf(db, ids, n)

\* Behind the n-th sample the cursor has the others in front of it.
BehindAt(db, q, a, n) ==
    LET S == SamplesOf(db, q.problem)
        ids == InOrder(db, S)
        m == Cardinality(S)
    IN  /\ m \in Nat /\ ids \in Seq(S) /\ Len(ids) = m
        /\ a \in Seq(Authors \X Nat) /\ Len(a) = m
        /\ \A i \in 1..m : a[i] = db.cases[ids[i]].text
        /\ Behind(db, q) = SubSeq(ids, n + 1, m)

\* The list of the samples and what the cursor has in front of it.
LEMMA BehindIs ==
    ASSUME NEW db, Database(db), NEW q, NEW a, NEW n, HasFound(db, q, a, n),
           NEW S, S = SamplesOf(db, q.problem), NEW ids, ids = InOrder(db, S), NEW m, m = Cardinality(S)
    PROVE  BehindAt(db, q, a, n)
  <1>1. S \in SUBSET DOMAIN db.cases  BY DEF SamplesOf, CasesOf
  <1>2. IsFiniteSet(S) /\ InLine(ids, m, S, ByPosition(db, S))  BY <1>1, InOrderInLine
  <1>3. m \in Nat  BY <1>2, FS_CardinalityType
  <1>4. ids \in [1..m -> S]  BY <1>2 DEF InLine
  <1>5. ids \in Seq(S) /\ DOMAIN ids = 1..m  BY <1>3, <1>4, SeqDef
  <1>6. Len(ids) = m  BY <1>3, <1>5, LenProperties
  <1>7. n \in 0..m /\ a = list_samples(db, q.problem) /\ q.at = KeyOf(db, ids, n)  BY DEF HasFound
  <1>8. a \in Seq(Authors \X Nat)  BY <1>7, SamplesTyped
  <1>9. a = [i \in 1..m |-> db.cases[ids[i]].text]  BY <1>5, <1>7 DEF list_samples
  <1>10. Len(a) = m /\ \A i \in 1..m : a[i] = db.cases[ids[i]].text
    <2>. DEFINE text(i) == db.cases[ids[i]].text
    <2>1. a = [i \in 1..m |-> text(i)]  BY <1>9
    <2>. HIDE DEF text
    <2>2. DOMAIN a = 1..m /\ \A i \in 1..m : a[i] = text(i)  BY <2>1
    <2>3. Len(a) = m  BY <1>3, <1>8, <2>2, LenProperties
    <2>. QED  BY <2>2, <2>3 DEF text
  <1>. DEFINE T == {k \in S : db.cases[k].ord > q.at[1] \/ (db.cases[k].ord = q.at[1] /\ k > q.at[2])}
  <1>11. Behind(db, q) = InOrder(db, T)  BY DEF Behind
  <1>12. Behind(db, q) = SubSeq(ids, n + 1, m)
    <2>1. CASE n = 0
      <3>1. q.at[1] = -1  BY <1>7, <2>1 DEF KeyOf
      <3>2. \A k \in S : db.cases[k].ord \in Nat  BY <1>1 DEF Database, Tables
      <3>3. \A x \in Nat : x > -1  OBVIOUS
      <3>4. T = S  BY <3>1, <3>2, <3>3
      <3>5. n + 1 = 1  BY <2>1
      <3>6. ids = SubSeq(ids, 1, Len(ids))  BY <1>5, SubSeqFull
      <3>. QED  BY <1>6, <1>11, <3>4, <3>5, <3>6
    <2>2. CASE n # 0
      <3>. DEFINE R == ByPosition(db, S)
      <3>1. n \in 1..m  BY <1>3, <1>7, <2>2
      <3>2. q.at = <<db.cases[ids[n]].ord, ids[n]>> /\ ids[n] \in S  BY <1>4, <1>7, <2>2, <3>1 DEF KeyOf
      <3>3. q.at[1] = db.cases[ids[n]].ord /\ q.at[2] = ids[n]  BY <3>2
      <3>4. \A k \in S : k \in Int /\ db.cases[k].ord \in Int  BY <1>1 DEF Database, Tables
      <3>5. \A x, y \in Int : x > y <=> y < x  OBVIOUS
      <3>6. \A x, y \in S : <<x, y>> \in R <=> \/ db.cases[x].ord < db.cases[y].ord
                                               \/ db.cases[x].ord = db.cases[y].ord /\ x < y
        BY DEF ByPosition
      <3>7. T = {k \in S : <<ids[n], k>> \in R}
        <4>1. \A k \in S : k \in T <=> <<ids[n], k>> \in R  BY <3>2, <3>3, <3>4, <3>5, <3>6
        <4>. QED  BY <4>1
      <3>8. \A x, y \in T : <<x, y>> \in ByPosition(db, T) <=> <<x, y>> \in R
        <4>1. \A x \in T : x \in S  OBVIOUS
        <4>2. \A x, y \in T : <<x, y>> \in ByPosition(db, T) <=> \/ db.cases[x].ord < db.cases[y].ord
                                                                 \/ db.cases[x].ord = db.cases[y].ord /\ x < y
          <5>. HIDE DEF T
          <5>. QED  BY DEF ByPosition
        <4>. QED  BY <3>6, <4>1, <4>2
      <3>9. Orders(R, S)  BY <1>1, PositionOrders
      <3>10. InOrder(db, T) = Sorted(T, ByPosition(db, T))  BY DEF InOrder, ByPosition
      <3>. HIDE DEF T, R
      <3>11. Sorted(T, ByPosition(db, T)) = SubSeq(ids, n + 1, m)
        <4>1. InLine(ids, m, S, R)  BY <1>2 DEF R
        <4>2. StandsBehind(T, S, R, ids[n])  BY <3>7 DEF StandsBehind
        <4>3. SameOrder(ByPosition(db, T), R, T)  BY <3>8 DEF SameOrder
        <4>4. TailOf(T, ByPosition(db, T), ids, n, m, S, R)  BY <1>3, <3>1, <3>9, <4>1, <4>2, <4>3 DEF TailOf
        <4>. QED  BY <4>4, SortedTail
      <3>. QED  BY <1>11, <3>10, <3>11
    <2>. QED  BY <2>1, <2>2
  <1>. QED  BY <1>3, <1>5, <1>6, <1>8, <1>10, <1>12 DEF BehindAt

\* Whatever they are called.
LEMMA SamplesAhead ==
    ASSUME NEW db, Database(db), NEW q, NEW a, NEW n, HasFound(db, q, a, n)
    PROVE  BehindAt(db, q, a, n)
  BY BehindIs

\* SQLITE_ROW: the next sample.
LEMMA SampleFound ==
    ASSUME NEW db, Database(db), NEW q, NEW a, NEW n, HasFound(db, q, a, n), Behind(db, q) # <<>>,
           NEW k, k = Head(Behind(db, q)),
           NEW r, r.problem = q.problem, r.at = <<db.cases[k].ord, k>>,
           r.rows = Append(q.rows, db.cases[k].text)
    PROVE  HasFound(db, r, a, n + 1)
  <1>. DEFINE S == SamplesOf(db, q.problem)
              ids == InOrder(db, S)
              m == Cardinality(S)
  <1>1. /\ m \in Nat /\ ids \in Seq(S) /\ Len(ids) = m
        /\ a \in Seq(Authors \X Nat) /\ Len(a) = m
        /\ \A i \in 1..m : a[i] = db.cases[ids[i]].text
        /\ Behind(db, q) = SubSeq(ids, n + 1, m)
    BY SamplesAhead DEF BehindAt
  <1>2. /\ n \in 0..m /\ a = list_samples(db, q.problem)
        /\ q.rows = SubSeq(a, 1, n)
    BY DEF HasFound
  <1>. HIDE DEF S, ids, m
  <1>3. n < m
    <2>1. SUFFICES ASSUME ~(n < m) PROVE FALSE  OBVIOUS
    <2>2. n + 1 \in Int /\ m < n + 1  BY <1>1, <1>2, <2>1
    <2>3. SubSeq(ids, n + 1, m) = <<>>  BY <1>1, <2>2, SubSeqEmpty
    <2>. QED  BY <1>1, <2>3
  <1>4. n + 1 \in 1..Len(ids) /\ m \in (n + 1)..Len(ids)  BY <1>1, <1>2, <1>3
  <1>5. k = ids[n + 1]
    <2>1. Head(SubSeq(ids, n + 1, m)) = ids[n + 1]  BY <1>1, <1>4, HeadTailOfSubSeq
    <2>. QED  BY <1>1, <2>1
  <1>6. r.at = KeyOf(db, ids, n + 1)
    <2>1. n + 1 # 0  BY <1>2
    <2>. QED  BY <1>5, <2>1 DEF KeyOf
  <1>7. r.rows = SubSeq(a, 1, n + 1)
    <2>1. db.cases[k].text = a[n + 1]  BY <1>1, <1>4, <1>5
    <2>2. n + 1 \in 1..Len(a) /\ 1 \in 1..Len(a) /\ (n + 1) - 1 = n  BY <1>1, <1>2, <1>4
    <2>3. SubSeq(a, 1, n + 1) = SubSeq(a, 1, (n + 1) - 1) \o <<a[n + 1]>>  BY <1>1, <2>2, SubSeqRecursiveSecond
    <2>4. q.rows \in Seq(Authors \X Nat) /\ a[n + 1] \in Authors \X Nat
      <3>1. \A i \in 1..Len(a) : a[i] \in Authors \X Nat  BY <1>1, LenProperties
      <3>2. \A i \in 1..n : i \in 1..Len(a)  BY <1>1, <1>2
      <3>3. \A i \in 1..n : a[i] \in Authors \X Nat  BY <3>1, <3>2
      <3>4. 1 \in Int /\ n \in Int  BY <1>2
      <3>5. SubSeq(a, 1, n) \in Seq(Authors \X Nat)  BY <3>3, <3>4, SubSeqProperties
      <3>. QED  BY <1>2, <2>2, <3>1, <3>5
    <2>5. Append(q.rows, a[n + 1]) = q.rows \o <<a[n + 1]>>  BY <2>4, AppendIsConcat
    <2>. QED  BY <1>2, <2>1, <2>2, <2>3, <2>5
  <1>8. n + 1 \in 0..m  BY <1>1, <1>2, <1>3
  <1>. QED  BY <1>2, <1>6, <1>7, <1>8 DEF HasFound, S, ids, m

\* SQLITE_DONE: all of them are read.
LEMMA AllFound ==
    ASSUME NEW db, Database(db), NEW q, NEW a, NEW n, HasFound(db, q, a, n), Behind(db, q) = <<>>
    PROVE  q.rows = a
  <1>. DEFINE S == SamplesOf(db, q.problem)
              ids == InOrder(db, S)
              m == Cardinality(S)
  <1>1. /\ m \in Nat /\ ids \in Seq(S) /\ Len(ids) = m
        /\ a \in Seq(Authors \X Nat) /\ Len(a) = m
        /\ \A i \in 1..m : a[i] = db.cases[ids[i]].text
        /\ Behind(db, q) = SubSeq(ids, n + 1, m)
    BY SamplesAhead DEF BehindAt
  <1>2. n \in 0..m /\ q.rows = SubSeq(a, 1, n)  BY DEF HasFound
  <1>. HIDE DEF S, ids, m
  <1>3. n = m
    <2>1. \A i \in (n + 1)..m : ids[i] \in S
      <3>1. \A i \in 1..Len(ids) : ids[i] \in S  BY <1>1, LenProperties
      <3>2. \A i \in (n + 1)..m : i \in 1..m  BY <1>1, <1>2
      <3>. QED  BY <1>1, <3>1, <3>2
    <2>2. n + 1 \in Int /\ m \in Int  BY <1>1, <1>2
    <2>3. Len(SubSeq(ids, n + 1, m)) = IF n + 1 <= m THEN m - (n + 1) + 1 ELSE 0  BY <2>1, <2>2, SubSeqProperties
    <2>4. Len(SubSeq(ids, n + 1, m)) = 0
      <3>1. SubSeq(ids, n + 1, m) = <<>>  BY <1>1
      <3>. QED  BY <3>1, EmptySeq
    <2>5. n \in Nat /\ m \in Nat /\ n <= m  BY <1>1, <1>2
    <2>6. ~(n + 1 <= m)
      <3>1. SUFFICES ASSUME n + 1 <= m PROVE FALSE  OBVIOUS
      <3>2. m - (n + 1) + 1 = 0  BY <2>3, <2>4, <3>1
      <3>. QED  BY <2>5, <3>1, <3>2
    <2>. QED  BY <2>5, <2>6
  <1>4. a = SubSeq(a, 1, Len(a))  BY <1>1, SubSeqFull
  <1>. QED  BY <1>1, <1>2, <1>3, <1>4

\* Who writes and leaves the samples of the problem alone changes nothing for it.
LEMMA SamplesStay ==
    ASSUME NEW db, NEW new, NEW q, NEW a, NEW n, HasFound(db, q, a, n),
           Samples(new, q.problem) = Samples(db, q.problem), Database(db)
    PROVE  HasFound(new, q, a, n)
  <1>. DEFINE S == SamplesOf(db, q.problem)
              ids == InOrder(db, S)
              m == Cardinality(S)
  <1>1. SamplesOf(new, q.problem) = S
    <2>1. DOMAIN Samples(new, q.problem) = SamplesOf(new, q.problem)  BY DEF Samples
    <2>2. DOMAIN Samples(db, q.problem) = S  BY DEF Samples
    <2>. QED  BY <2>1, <2>2
  <1>2. \A k \in S : new.cases[k] = db.cases[k]
    <2>1. ASSUME NEW k \in S PROVE new.cases[k] = db.cases[k]
      <3>1. Samples(new, q.problem)[k] = new.cases[k]  BY <1>1 DEF Samples
      <3>2. Samples(db, q.problem)[k] = db.cases[k]  BY DEF Samples
      <3>. QED  BY <3>1, <3>2
    <2>. QED  BY <2>1
  <1>3. ids \in Seq(S) /\ Len(ids) = m /\ m \in Nat  BY SamplesAhead DEF BehindAt
  <1>4. n \in 0..m  BY DEF HasFound
  <1>. HIDE DEF S, m
  <1>5. InOrder(new, S) = ids
    <2>1. \A x, y \in S : <<x, y>> \in ByPosition(new, S) <=> <<x, y>> \in ByPosition(db, S)
      BY <1>2 DEF ByPosition
    <2>2. ByPosition(new, S) \subseteq S \X S /\ ByPosition(db, S) \subseteq S \X S  BY DEF ByPosition
    <2>3. ByPosition(new, S) = ByPosition(db, S)  BY <2>1, <2>2
    <2>4. InOrder(new, S) = Sorted(S, ByPosition(new, S)) /\ InOrder(db, S) = Sorted(S, ByPosition(db, S))
      BY DEF InOrder, ByPosition
    <2>. QED  BY <2>3, <2>4
  <1>. HIDE DEF ids
  <1>6. \A i \in 1..m : ids[i] \in S  BY <1>3, LenProperties
  <1>7. KeyOf(new, ids, n) = KeyOf(db, ids, n)
    <2>1. CASE n = 0  BY <2>1 DEF KeyOf
    <2>2. CASE n # 0
      <3>1. n \in 1..m  BY <1>3, <1>4, <2>2
      <3>. QED  BY <1>2, <1>6, <3>1 DEF KeyOf
    <2>. QED  BY <2>1, <2>2
  <1>8. list_samples(new, q.problem) = list_samples(db, q.problem)  BY <1>1, <1>2, KeptSamples DEF S
  <1>. QED  BY <1>1, <1>5, <1>7, <1>8 DEF HasFound, S, ids

\* A request q for the list that is at place; a and m as in Reading.
ListState(place, q, a, m, db) ==
    /\ q = [visibility |-> q.visibility, tag |-> q.tag, page |-> q.page, total |-> q.total, rows |-> q.rows]
    /\ m \in Nat
    /\ place = "idle" => m = 0
    /\ place \in {"counted", "listing"} => Reading(q, a, m, db)
    /\ place = "answered" => Answer(q, a, m)

\* A request for a problem.
DetailState(place, q, a, m, db) ==
    /\ q = [admin |-> q.admin, problem |-> q.problem, at |-> q.at, rows |-> q.rows]
    /\ m \in Nat
    /\ place = "idle" => m = 0
    /\ place = "found" /\ m = 0 => \E n : HasFound(db, q, a, n)
    /\ place = "answered" /\ m = 0 => q.rows = a

\* Every request, and what the connection shows it now.
ReadInv ==
    /\ DOMAIN readPc = Readers /\ DOMAIN list = Lists /\ DOMAIN detail = Details
    /\ DOMAIN alone = Readers /\ DOMAIN moved = Readers
    /\ \A l \in Lists : ListState(readPc[l], list[l], alone[l], moved[l], work)
    /\ \A d \in Details : DetailState(readPc[d], detail[d], alone[d], moved[d], work)

\* Nobody has asked yet.
LEMMA ReadInitInv ==
    ASSUME ReadInit
    PROVE  ReadInv
  <1>1. /\ readPc = [r \in Readers |-> "idle"] /\ list = [l \in Lists |-> NoList]
        /\ detail = [d \in Details |-> NoDetail] /\ alone = [r \in Readers |-> <<>>]
        /\ moved = [r \in Readers |-> 0]
    BY DEF ReadInit
  <1>2. Lists \subseteq Readers /\ Details \subseteq Readers  BY DEF Readers
  <1>3. ASSUME NEW l \in Lists PROVE ListState(readPc[l], list[l], alone[l], moved[l], work)
    <2>1. readPc[l] = "idle" /\ list[l] = NoList /\ moved[l] = 0  BY <1>1, <1>2
    <2>. QED  BY <2>1 DEF ListState, NoList
  <1>4. ASSUME NEW d \in Details PROVE DetailState(readPc[d], detail[d], alone[d], moved[d], work)
    <2>1. readPc[d] = "idle" /\ detail[d] = NoDetail /\ moved[d] = 0  BY <1>1, <1>2
    <2>. QED  BY <2>1 DEF DetailState, NoDetail
  <1>. QED  BY <1>1, <1>3, <1>4 DEF ReadInv

\* A step of a request for the list.
LEMMA ListStep ==
    ASSUME ReadInv, NEW l \in Lists, NEW to, NEW q, NEW a,
           DOMAIN readPc' = Readers, readPc'[l] = to, \A x \in Readers : x # l => readPc'[x] = readPc[x],
           moved' = moved, detail' = detail, work' = work,
           DOMAIN list' = Lists, list'[l] = q, \A x \in Lists : x # l => list'[x] = list[x],
           DOMAIN alone' = Readers, alone'[l] = a, \A x \in Readers : x # l => alone'[x] = alone[x],
           ListState(to, q, a, moved[l], work)
    PROVE  ReadInv'
  <1>1. l \in Readers /\ Lists \subseteq Readers /\ Details \subseteq Readers /\ l \notin Details
    BY ReadersAssumption DEF Readers
  <1>2. ASSUME NEW x \in Lists PROVE ListState(readPc'[x], list'[x], alone'[x], moved'[x], work')
    <2>1. CASE x = l  BY <2>1
    <2>2. CASE x # l
      <3>1. ListState(readPc[x], list[x], alone[x], moved[x], work)  BY DEF ReadInv
      <3>2. readPc'[x] = readPc[x] /\ list'[x] = list[x] /\ alone'[x] = alone[x]  BY <1>1, <2>2
      <3>. QED  BY <3>1, <3>2
    <2>. QED  BY <2>1, <2>2
  <1>3. ASSUME NEW x \in Details PROVE DetailState(readPc'[x], detail'[x], alone'[x], moved'[x], work')
    <2>1. DetailState(readPc[x], detail[x], alone[x], moved[x], work)  BY DEF ReadInv
    <2>2. readPc'[x] = readPc[x] /\ alone'[x] = alone[x]  BY <1>1
    <2>. QED  BY <2>1, <2>2
  <1>. QED  BY <1>2, <1>3 DEF ReadInv

\* A step of a request for a problem.
LEMMA DetailStep ==
    ASSUME ReadInv, NEW d \in Details, NEW to, NEW q, NEW a,
           DOMAIN readPc' = Readers, readPc'[d] = to, \A x \in Readers : x # d => readPc'[x] = readPc[x],
           moved' = moved, list' = list, work' = work,
           DOMAIN detail' = Details, detail'[d] = q, \A x \in Details : x # d => detail'[x] = detail[x],
           DOMAIN alone' = Readers, alone'[d] = a, \A x \in Readers : x # d => alone'[x] = alone[x],
           DetailState(to, q, a, moved[d], work)
    PROVE  ReadInv'
  <1>1. d \in Readers /\ Lists \subseteq Readers /\ Details \subseteq Readers /\ d \notin Lists
    BY ReadersAssumption DEF Readers
  <1>2. ASSUME NEW x \in Details PROVE DetailState(readPc'[x], detail'[x], alone'[x], moved'[x], work')
    <2>1. CASE x = d  BY <2>1
    <2>2. CASE x # d
      <3>1. DetailState(readPc[x], detail[x], alone[x], moved[x], work)  BY DEF ReadInv
      <3>2. readPc'[x] = readPc[x] /\ detail'[x] = detail[x] /\ alone'[x] = alone[x]  BY <1>1, <2>2
      <3>. QED  BY <3>1, <3>2
    <2>. QED  BY <2>1, <2>2
  <1>3. ASSUME NEW x \in Lists PROVE ListState(readPc'[x], list'[x], alone'[x], moved'[x], work')
    <2>1. ListState(readPc[x], list[x], alone[x], moved[x], work)  BY DEF ReadInv
    <2>2. readPc'[x] = readPc[x] /\ alone'[x] = alone[x]  BY <1>1
    <2>. QED  BY <2>1, <2>2
  <1>. QED  BY <1>2, <1>3 DEF ReadInv

\* The requests for the list keep the invariant.
LEMMA ListKeeps ==
    ASSUME ReadInv, Database(work), work' = work, NEW l \in Lists, ListNext(l) \/ ReadFails(l)
    PROVE  ReadInv'
  <1>. DEFINE q == list[l]
              a == alone[l]
              m == moved[l]
  <1>1. /\ DOMAIN list = Lists /\ DOMAIN alone = Readers /\ DOMAIN readPc = Readers /\ l \in Readers
        /\ ListState(readPc[l], q, a, m, work)
    BY DEF ReadInv, Readers
  <1>2. /\ q = [visibility |-> q.visibility, tag |-> q.tag, page |-> q.page, total |-> q.total, rows |-> q.rows]
        /\ m \in Nat
        /\ readPc[l] = "idle" => m = 0
        /\ readPc[l] \in {"counted", "listing"} => Reading(q, a, m, work)
    BY <1>1 DEF ListState
  <1>3. CASE ListCount(l)
    <2>1. PICK admin \in BOOLEAN, filter \in {"all", "visible", "hidden"}, tag \in Tags, page \in 1..MaxPage :
             LET visibility == Visibility(admin, filter) IN
             /\ list' = [list EXCEPT ![l] = [visibility |-> visibility, tag |-> tag, page |-> page,
                                             total |-> CountOf(work, visibility, tag), rows |-> <<>>]]
             /\ alone' = [alone EXCEPT ![l] = Page(Ascending(build_where(work, visibility, tag)), page)]
      BY <1>3 DEF ListCount
    <2>. DEFINE visibility == Visibility(admin, filter)
                r == [visibility |-> visibility, tag |-> tag, page |-> page,
                      total |-> CountOf(work, visibility, tag), rows |-> <<>>]
                b == Page(Ascending(build_where(work, visibility, tag)), page)
    <2>2. readPc[l] = "idle" /\ readPc' = [readPc EXCEPT ![l] = "counted"] /\ detail' = detail /\ moved' = moved
      BY <1>3 DEF ListCount, ReadGoto
    <2>3. list' = [list EXCEPT ![l] = r] /\ alone' = [alone EXCEPT ![l] = b]  BY <2>1
    <2>. HIDE DEF visibility
    <2>4. /\ r = [visibility |-> r.visibility, tag |-> r.tag, page |-> r.page, total |-> r.total, rows |-> r.rows]
          /\ r.page = page /\ r.rows = <<>> /\ r.total = CountOf(work, visibility, tag)
          /\ r.visibility = visibility /\ r.tag = tag
      OBVIOUS
    <2>. HIDE DEF r
    <2>5. Listed(work, r) = build_where(work, visibility, tag)  BY <2>4 DEF Listed
    <2>6. r.total = Cardinality(Listed(work, r)) /\ b = Page(Ascending(Listed(work, r)), r.page)
      BY <2>4, <2>5 DEF CountOf
    <2>. HIDE DEF b
    <2>7. IsList(r)
      <3>1. r.total \in Nat  BY <2>6, ListedIds
      <3>2. r.page \in Nat \ {0}  BY <2>4, ReadersAssumption
      <3>3. r.rows \in Seq(Nat)  BY <2>4, EmptySeq
      <3>. QED  BY <3>1, <3>2, <3>3 DEF IsList
    <2>8. Reading(r, b, 0, work)  BY <2>4, <2>6, <2>7, CountReads
    <2>9. ListState("counted", r, b, m, work)  BY <1>2, <2>2, <2>4, <2>8 DEF ListState
    <2>. QED  BY <1>1, <2>2, <2>3, <2>9, ListStep
  <1>4. CASE ListRow(l)
    <2>. DEFINE x == Head(Ahead(work, q))
                r == [q EXCEPT !.rows = Append(@, x)]
    <2>1. /\ readPc[l] \in {"counted", "listing"} /\ Len(q.rows) < PageSize /\ Ahead(work, q) # <<>>
          /\ readPc' = [readPc EXCEPT ![l] = "listing"] /\ detail' = detail /\ moved' = moved /\ alone' = alone
          /\ list' = [list EXCEPT ![l].rows = Append(@, x)]
      BY <1>4 DEF ListRow, ReadGoto
    <2>. HIDE DEF x
    <2>2. DOMAIN list' = Lists /\ list'[l] = r /\ \A y \in Lists : y # l => list'[y] = list[y]
      BY <1>1, <2>1
    <2>3. /\ r.visibility = q.visibility /\ r.tag = q.tag /\ r.page = q.page /\ r.total = q.total
          /\ r.rows = Append(q.rows, x)
          /\ r = [visibility |-> r.visibility, tag |-> r.tag, page |-> r.page, total |-> r.total, rows |-> r.rows]
      <3>1. PICK v, t, p, n, rows : q = [visibility |-> v, tag |-> t, page |-> p, total |-> n, rows |-> rows]
        BY <1>2
      <3>. QED  BY <3>1
    <2>. HIDE DEF r, q
    <2>4. Listed(work, r) = Listed(work, q)  BY <2>3 DEF Listed
    <2>5. Reading(r, a, m, work)  BY <1>2, <2>1, <2>3, <2>4, RowReads DEF x
    <2>6. ListState("listing", r, a, m, work)  BY <1>2, <2>3, <2>5 DEF ListState
    <2>. QED  BY <1>1, <2>1, <2>2, <2>6, ListStep
  <1>5. CASE ListDone(l)
    <2>1. /\ readPc[l] \in {"counted", "listing"} /\ (Len(q.rows) = PageSize \/ Ahead(work, q) = <<>>)
          /\ readPc' = [readPc EXCEPT ![l] = "answered"]
          /\ list' = list /\ detail' = detail /\ moved' = moved /\ alone' = alone
      BY <1>5 DEF ListDone, ReadGoto
    <2>2. Answer(q, a, m)  BY <1>2, <2>1, DoneAnswers
    <2>3. ListState("answered", q, a, m, work)  BY <1>2, <2>2 DEF ListState
    <2>. QED  BY <1>1, <2>1, <2>3, ListStep
  <1>6. CASE ReadFails(l)
    <2>1. /\ readPc' = [readPc EXCEPT ![l] = "failed"]
          /\ list' = list /\ detail' = detail /\ moved' = moved /\ alone' = alone
      BY <1>6 DEF ReadFails, ReadGoto
    <2>2. ListState("failed", q, a, m, work)  BY <1>2 DEF ListState
    <2>. QED  BY <1>1, <2>1, <2>2, ListStep
  <1>. QED  BY <1>3, <1>4, <1>5, <1>6 DEF ListNext

\* What a request for a problem asks for.
LEMMA AskedFor ==
    ASSUME NEW x, NEW y
    PROVE  [NoDetail EXCEPT !.admin = x, !.problem = y]
             = [admin |-> x, problem |-> y, at |-> <<-1, 0>>, rows |-> <<>>]
  <1>. DEFINE v == FALSE
              at == <<-1, 0>>
              rows == <<>>
              q == [admin |-> v, problem |-> 0, at |-> at, rows |-> rows]
              r == [q EXCEPT !.admin = x]
  <1>1. NoDetail = q  BY DEF NoDetail
  <1>. HIDE DEF v, at, rows
  <1>2. r = [admin |-> x, problem |-> 0, at |-> at, rows |-> rows]  OBVIOUS
  <1>. HIDE DEF r
  <1>3. [r EXCEPT !.problem = y] = [admin |-> x, problem |-> y, at |-> at, rows |-> rows]  BY <1>2
  <1>. HIDE DEF q
  <1>4. [NoDetail EXCEPT !.admin = x, !.problem = y] = [r EXCEPT !.problem = y]  BY <1>1 DEF r
  <1>. QED  BY <1>3, <1>4 DEF at, rows

\* The requests for a problem keep it.
LEMMA DetailKeeps ==
    ASSUME ReadInv, Database(work), work' = work, NEW d \in Details, DetailNext(d) \/ ReadFails(d)
    PROVE  ReadInv'
  <1>. DEFINE q == detail[d]
              a == alone[d]
              m == moved[d]
  <1>1. /\ DOMAIN detail = Details /\ DOMAIN alone = Readers /\ DOMAIN readPc = Readers /\ d \in Readers
        /\ DetailState(readPc[d], q, a, m, work)
    BY DEF ReadInv, Readers
  <1>2. /\ q = [admin |-> q.admin, problem |-> q.problem, at |-> q.at, rows |-> q.rows]
        /\ m \in Nat
        /\ readPc[d] = "idle" => m = 0
        /\ readPc[d] = "found" /\ m = 0 => \E n : HasFound(work, q, a, n)
    BY <1>1 DEF DetailState
  <1>3. CASE DetailFind(d)
    <2>1. readPc[d] = "idle" /\ list' = list /\ moved' = moved  BY <1>3 DEF DetailFind
    <2>2. PICK admin \in BOOLEAN, p \in 1..MaxId :
             \/ readPc' = [readPc EXCEPT ![d] = "missing"] /\ detail' = detail /\ alone' = alone
             \/ /\ detail' = [detail EXCEPT ![d] = [NoDetail EXCEPT !.admin = admin, !.problem = p]]
                /\ alone' = [alone EXCEPT ![d] = list_samples(work, p)]
                /\ readPc' = [readPc EXCEPT ![d] = "found"]
      BY <1>3 DEF DetailFind, ReadGoto
    <2>3. CASE readPc' = [readPc EXCEPT ![d] = "missing"] /\ detail' = detail /\ alone' = alone
      <3>1. DetailState("missing", q, a, m, work)  BY <1>2 DEF DetailState
      <3>. QED  BY <1>1, <2>1, <2>3, <3>1, DetailStep
    <2>4. CASE /\ detail' = [detail EXCEPT ![d] = [NoDetail EXCEPT !.admin = admin, !.problem = p]]
               /\ alone' = [alone EXCEPT ![d] = list_samples(work, p)]
               /\ readPc' = [readPc EXCEPT ![d] = "found"]
      <3>. DEFINE r == [admin |-> admin, problem |-> p, at |-> <<-1, 0>>, rows |-> <<>>]
                  b == list_samples(work, p)
      <3>1. [NoDetail EXCEPT !.admin = admin, !.problem = p] = r  BY AskedFor
      <3>2. /\ r.problem = p /\ r.at = <<-1, 0>> /\ r.rows = <<>>
            /\ r = [admin |-> r.admin, problem |-> r.problem, at |-> r.at, rows |-> r.rows]
        OBVIOUS
      <3>. HIDE DEF r
      <3>3. HasFound(work, r, b, 0)
        <4>1. Cardinality(SamplesOf(work, p)) \in Nat
          <5>1. SamplesOf(work, p) \in SUBSET DOMAIN work.cases  BY DEF SamplesOf, CasesOf
          <5>. QED  BY <5>1, InOrderInLine, FS_CardinalityType
        <4>2. b \in Seq(Authors \X Nat)  BY SamplesTyped
        <4>3. SubSeq(b, 1, 0) = <<>>  BY <4>2, SubSeqEmpty
        <4>. HIDE DEF b
        <4>4. b = list_samples(work, r.problem)  BY <3>2 DEF b
        <4>5. 0 \in 0..Cardinality(SamplesOf(work, r.problem))  BY <3>2, <4>1
        <4>. QED  BY <3>2, <4>3, <4>4, <4>5 DEF HasFound, KeyOf
      <3>. HIDE DEF b
      <3>4. DetailState("found", r, b, m, work)  BY <1>2, <3>2, <3>3 DEF DetailState
      <3>5. detail' = [detail EXCEPT ![d] = r] /\ alone' = [alone EXCEPT ![d] = b]  BY <2>4, <3>1 DEF b
      <3>. QED  BY <1>1, <2>1, <2>4, <3>4, <3>5, DetailStep
    <2>. QED  BY <2>2, <2>3, <2>4
  <1>4. CASE DetailRow(d)
    <2>. DEFINE k == Head(Behind(work, q))
                at == <<work.cases[k].ord, k>>
                text == work.cases[k].text
                r == [admin |-> q.admin, problem |-> q.problem, at |-> at, rows |-> Append(q.rows, text)]
    <2>1. /\ readPc[d] = "found" /\ Behind(work, q) # <<>>
          /\ readPc' = readPc /\ list' = list /\ moved' = moved /\ alone' = alone
          /\ detail' = [detail EXCEPT ![d].at = at, ![d].rows = Append(@, text)]
      BY <1>4 DEF DetailRow
    <2>. HIDE DEF at, text
    <2>2. DOMAIN detail' = Details /\ detail'[d] = r /\ \A y \in Details : y # d => detail'[y] = detail[y]
      <3>1. PICK v, p, x, rows : q = [admin |-> v, problem |-> p, at |-> x, rows |-> rows]  BY <1>2
      <3>. QED  BY <1>1, <2>1, <3>1
    <2>3. /\ r.problem = q.problem /\ r.at = at /\ r.rows = Append(q.rows, text)
          /\ r = [admin |-> r.admin, problem |-> r.problem, at |-> r.at, rows |-> r.rows]
      OBVIOUS
    <2>. HIDE DEF r, q
    <2>4. ASSUME m = 0 PROVE \E n : HasFound(work, r, a, n)
      <3>1. PICK n : HasFound(work, q, a, n)  BY <1>2, <2>1, <2>4
      <3>2. r.at = <<work.cases[k].ord, k>> /\ r.rows = Append(q.rows, work.cases[k].text)  BY <2>3 DEF at, text
      <3>3. HasFound(work, r, a, n + 1)  BY <2>1, <2>3, <3>1, <3>2, SampleFound
      <3>. QED  BY <3>3
    <2>5. DetailState("found", r, a, m, work)  BY <1>2, <2>3, <2>4 DEF DetailState
    <2>. QED  BY <1>1, <2>1, <2>2, <2>5, DetailStep
  <1>5. CASE DetailDone(d)
    <2>1. /\ readPc[d] = "found" /\ Behind(work, q) = <<>>
          /\ readPc' = [readPc EXCEPT ![d] = "answered"]
          /\ list' = list /\ detail' = detail /\ moved' = moved /\ alone' = alone
      BY <1>5 DEF DetailDone, ReadGoto
    <2>2. m = 0 => q.rows = a  BY <1>2, <2>1, AllFound
    <2>3. DetailState("answered", q, a, m, work)  BY <1>2, <2>2 DEF DetailState
    <2>. QED  BY <1>1, <2>1, <2>3, DetailStep
  <1>6. CASE ReadFails(d)
    <2>1. /\ readPc' = [readPc EXCEPT ![d] = "failed"]
          /\ list' = list /\ detail' = detail /\ moved' = moved /\ alone' = alone
      BY <1>6 DEF ReadFails, ReadGoto
    <2>2. DetailState("failed", q, a, m, work)  BY <1>2 DEF DetailState
    <2>. QED  BY <1>1, <2>1, <2>2, DetailStep
  <1>. QED  BY <1>3, <1>4, <1>5, <1>6 DEF DetailNext

\* So do the steps of all others.
LEMMA ElsewhereKeeps ==
    ASSUME ReadInv, CatalogInv, Database(work'), Elsewhere
    PROVE  ReadInv'
  <1>1. /\ Next
        /\ moved' = [r \in Readers |-> IF Pending(r) /\ Reads(work', r) # Reads(work, r) THEN moved[r] + 1 ELSE moved[r]]
        /\ readPc' = readPc /\ list' = list /\ detail' = detail /\ alone' = alone
    BY DEF Elsewhere
  <1>2. Database(work)  BY DEF CatalogInv
  <1>3. PICK p : \A q : q # p => /\ q \in DOMAIN work.problems <=> q \in DOMAIN work'.problems
                                 /\ q \in DOMAIN work.problems => work'.problems[q] = work.problems[q]
    BY <1>1, NextRow DEF OneRow
  <1>4. ASSUME NEW l \in Lists PROVE ListState(readPc[l], list[l], alone[l], moved'[l], work')
    <2>. DEFINE q == list[l]
                m == moved[l]
                n == moved'[l]
    <2>1. ListState(readPc[l], q, alone[l], m, work)  BY DEF ReadInv
    <2>2. /\ q = [visibility |-> q.visibility, tag |-> q.tag, page |-> q.page, total |-> q.total, rows |-> q.rows]
          /\ m \in Nat
          /\ readPc[l] = "idle" => m = 0
          /\ readPc[l] \in {"counted", "listing"} => Reading(q, alone[l], m, work)
          /\ readPc[l] = "answered" => Answer(q, alone[l], m)
      BY <2>1 DEF ListState
    <2>3. l \in Readers  BY DEF Readers
    <2>4. n = IF Pending(l) /\ Reads(work', l) # Reads(work, l) THEN m + 1 ELSE m  BY <1>1, <2>3
    <2>5. Reads(work', l) = Listed(work', q) /\ Reads(work, l) = Listed(work, q)  BY DEF Reads
    <2>6. ~Pending(l) => n = m  BY <2>4
    <2>7. n \in Nat  BY <2>2, <2>4
    <2>8. ASSUME NEW r, r # p PROVE r \in Listed(work, q) <=> r \in Listed(work', q)
      BY <1>3, <2>8 DEF Listed, build_where
    <2>9. ASSUME readPc[l] \in {"counted", "listing"} PROVE Reading(q, alone[l], n, work')
      <3>1. Pending(l)  BY <2>9 DEF Pending
      <3>2. n = IF Listed(work', q) = Listed(work, q) THEN m ELSE m + 1  BY <2>4, <2>5, <3>1
      <3>3. Reading(q, alone[l], m, work)  BY <2>2, <2>9
      <3>. HIDE DEF n, q, m
      <3>4. m \in Nat  BY <2>2
      <3>. QED  BY <1>2, <2>8, <3>2, <3>3, <3>4, OthersWrite
    <2>10. readPc[l] \in {"idle", "answered"} => n = m  BY <2>6 DEF Pending
    <2>. HIDE DEF q, m, n
    <2>11. ListState(readPc[l], q, alone[l], n, work')  BY <2>2, <2>7, <2>9, <2>10 DEF ListState
    <2>. QED  BY <2>11 DEF q, n
  <1>5. ASSUME NEW d \in Details PROVE DetailState(readPc[d], detail[d], alone[d], moved'[d], work')
    <2>. DEFINE q == detail[d]
                m == moved[d]
                n == moved'[d]
    <2>1. DetailState(readPc[d], q, alone[d], m, work)  BY DEF ReadInv
    <2>2. /\ q = [admin |-> q.admin, problem |-> q.problem, at |-> q.at, rows |-> q.rows]
          /\ m \in Nat
          /\ readPc[d] = "idle" => m = 0
          /\ readPc[d] = "found" /\ m = 0 => \E i : HasFound(work, q, alone[d], i)
          /\ readPc[d] = "answered" /\ m = 0 => q.rows = alone[d]
      BY <2>1 DEF DetailState
    <2>3. d \in Readers /\ d \notin Lists  BY ReadersAssumption DEF Readers
    <2>4. n = IF Pending(d) /\ Reads(work', d) # Reads(work, d) THEN m + 1 ELSE m  BY <1>1, <2>3
    <2>5. /\ Reads(work', d) = <<Shows(work', q.admin, q.problem), Samples(work', q.problem)>>
          /\ Reads(work, d) = <<Shows(work, q.admin, q.problem), Samples(work, q.problem)>>
      BY <2>3 DEF Reads
    <2>6. ~Pending(d) => n = m  BY <2>4
    <2>7. n \in Nat /\ (n = 0 => m = 0)  BY <2>2, <2>4
    <2>8. ASSUME readPc[d] = "found", n = 0 PROVE \E i : HasFound(work', q, alone[d], i)
      <3>1. Pending(d) /\ m = 0  BY <2>7, <2>8 DEF Pending
      <3>2. Reads(work', d) = Reads(work, d)  BY <2>2, <2>4, <2>8, <3>1
      <3>3. Samples(work', q.problem) = Samples(work, q.problem)  BY <2>5, <3>2
      <3>4. PICK i : HasFound(work, q, alone[d], i)  BY <2>2, <2>8, <3>1
      <3>5. HasFound(work', q, alone[d], i)  BY <1>2, <3>3, <3>4, SamplesStay
      <3>. QED  BY <3>5
    <2>9. readPc[d] \in {"idle", "answered"} => n = m  BY <2>6 DEF Pending
    <2>. HIDE DEF q, m, n
    <2>10. DetailState(readPc[d], q, alone[d], n, work')  BY <2>2, <2>7, <2>8, <2>9 DEF DetailState
    <2>. QED  BY <2>10 DEF q, n
  <1>6. DOMAIN moved' = Readers  BY <1>1
  <1>. QED  BY <1>1, <1>4, <1>5, <1>6 DEF ReadInv

\* Every step keeps it.
LEMMA ReadNextKeeps ==
    ASSUME ReadInv, CatalogInv, CatalogInv', [ReadNext]_<<vars, readVars>>
    PROVE  ReadInv'
  <1>1. Database(work) /\ Database(work')  BY DEF CatalogInv
  <1>2. CASE UNCHANGED <<vars, readVars>>
    <2>1. /\ work' = work /\ readPc' = readPc /\ list' = list /\ detail' = detail
          /\ alone' = alone /\ moved' = moved
      BY <1>2 DEF vars, dbVars, readVars
    <2>. QED  BY <2>1 DEF ReadInv
  <1>3. CASE Elsewhere  BY <1>1, <1>3, ElsewhereKeeps
  <1>4. CASE ReaderNext
    <2>1. work' = work  BY <1>4 DEF ReaderNext, vars, dbVars
    <2>2. \/ \E l \in Lists : ListNext(l) \/ ReadFails(l)
          \/ \E d \in Details : DetailNext(d) \/ ReadFails(d)
      BY <1>4 DEF ReaderNext, Readers
    <2>. QED  BY <1>1, <2>1, <2>2, ListKeeps, DetailKeeps
  <1>. QED  BY <1>2, <1>3, <1>4 DEF ReadNext

\* The requests for the problem list and for a problem change nothing of the tables and
\* of the other requests: what is proved of ProblemCatalog holds while they read
\* (http/server.cpp, db/problems.cpp).
THEOREM ReadersOnlyRead == ReadSpec => Spec
  <1>1. ReadInit => Init  BY DEF ReadInit
  <1>2. [ReadNext]_<<vars, readVars>> => [Next]_vars  BY DEF ReadNext, Elsewhere, ReaderNext
  <1>. QED  BY <1>1, <1>2, PTL DEF ReadSpec, Spec

\* Every request for the list or for a problem that is reading has, with what is in front
\* of its cursor, what its first statement promised, but for one row for each change
\* in between; nothing is read twice or out of order (db/problems.cpp).
THEOREM ReadersInvariant == ReadSpec => []ReadInv
  <1>1. ReadInit => ReadInv  BY ReadInitInv
  <1>2. ReadInv /\ CatalogInv /\ CatalogInv' /\ [ReadNext]_<<vars, readVars>> => ReadInv'  BY ReadNextKeeps
  <1>. QED  BY <1>1, <1>2, ReadersOnlyRead, CatalogInvariant, PTL DEF ReadSpec

\* For any number of readers and writers, pages and samples: an answer during which
\* nothing changed is that of one state of the tables; otherwise the total and the
\* rows of a page are apart by one for each change at most, and no page has a problem
\* twice (db/problems.cpp, http/server.cpp).
THEOREM ReadersAreConsistent == ReadSpec => []ReadersConsistent
  <1>1. ReadInv => ReadersConsistent
    <2>1. SUFFICES ASSUME ReadInv PROVE ReadersConsistent  OBVIOUS
    <2>2. ASSUME NEW l \in Lists, readPc[l] = "answered" PROVE Answer(list[l], alone[l], moved[l])
      BY <2>1, <2>2 DEF ReadInv, ListState
    <2>3. ASSUME NEW d \in Details, readPc[d] = "answered", moved[d] = 0 PROVE detail[d].rows = alone[d]
      BY <2>1, <2>3 DEF ReadInv, DetailState
    <2>. QED  BY <2>2, <2>3 DEF ReadersConsistent, Answer, Rising
  <1>. QED  BY <1>1, ReadersInvariant, PTL

=============================================================================
