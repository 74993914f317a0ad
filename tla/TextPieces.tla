----------------------------- MODULE TextPieces -----------------------------
(***************************************************************************)
(* Cutting a text at every occurrence of a character, and joining texts    *)
(* with it between them: the loops of normalize_output                     *)
(* (judge/comparator.cpp) and of join_tags and split_tags                  *)
(* (problem/validation.cpp, db/problems.cpp).  A text is a sequence of     *)
(* characters.                                                             *)
(***************************************************************************)
EXTENDS Integers, Sequences, FiniteSets, SequencesExt

\* Where the text is cut: before it, at every mark and behind it.
Cuts(text, mark) == {0, Len(text) + 1} \cup {i \in DOMAIN text : text[i] = mark}
Cut(text, mark, k) ==
    CHOOSE c \in Cuts(text, mark) : Cardinality({d \in Cuts(text, mark) : d < c}) = k

\* What is between the cuts; there is always a last piece, maybe empty.
Pieces(text, mark) ==
    [k \in 1..(Cardinality(Cuts(text, mark)) - 1) |->
        SubSeq(text, Cut(text, mark, k - 1) + 1, Cut(text, mark, k) - 1)]

\* The mark stands between two texts, and not before the first or behind the last.
Joined(texts, mark) ==
    IF texts = <<>> THEN <<>> ELSE Tail(FlattenSeq([j \in DOMAIN texts |-> <<mark>> \o texts[j]]))

=============================================================================
