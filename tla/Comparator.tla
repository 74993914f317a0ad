----------------------------- MODULE Comparator -----------------------------
(***************************************************************************)
(* The comparison of a program's output with the expected one              *)
(* (judge/comparator.cpp).  A text is a sequence of characters: "\n", a    *)
(* blank (" " stands for every character of is_trailing_whitespace) or     *)
(* anything else.                                                          *)
(***************************************************************************)
EXTENDS Integers, Sequences, FiniteSets, SequencesExt, TextPieces

CONSTANT MaxLength  \* bound: length of the outputs that are tried

ASSUME OutputAssumption == MaxLength \in Nat

is_trailing_whitespace == {" "}

\* pop_back while the last element is unwanted.
Stripped(s, unwanted) ==
    LET kept == {i \in DOMAIN s : s[i] \notin unwanted}
    IN  IF kept = {} THEN <<>> ELSE SubSeq(s, 1, Max(kept))

\* The lines without their trailing blanks.
Lines(text) ==
    LET lines == Pieces(text, "\n")
    IN  [j \in DOMAIN lines |-> Stripped(lines[j], is_trailing_whitespace)]

\* Mutant of normalize_output: blank lines are dropped wherever they are.
normalize_output_AllBlankLines(text) == Joined(SelectSeq(Lines(text), LAMBDA l : l # <<>>), "\n")

\* Trailing blanks of each line go, then the empty lines at the end.
normalize_output(text) == Joined(Stripped(Lines(text), {<<>>}), "\n")

outputs_match(expected, actual) == normalize_output(expected) = normalize_output(actual)

-----------------------------------------------------------------------------
Outputs == UNION {[1..n -> {"a", " ", "\n"}] : n \in 0..MaxLength}

\* What a reader sees of a text: the characters up to the last ink of each line,
\* where they stand.
Visible(text) ==
    LET line(i) == Cardinality({j \in 1..(i - 1) : text[j] = "\n"})
        column(i) == i - Max({0} \cup {j \in 1..(i - 1) : text[j] = "\n"})
        ink(i) == text[i] \notin {" ", "\n"}
        shown == {i \in DOMAIN text : text[i] # "\n" /\ \E j \in i..Len(text) : ink(j) /\ line(j) = line(i)}
    IN  {<<line(i), column(i), text[i]>> : i \in shown}

\* An expected and an actual output are compared, and looked at by a reader.
Comparisons ==
    LET seen == [o \in Outputs |-> Visible(o)]
    IN  {[matches |-> outputs_match(a, b), same |-> seen[a] = seen[b]] : a, b \in Outputs}

=============================================================================
