---------------------------- MODULE TextFilters ----------------------------
(***************************************************************************)
(* How the tags of a problem are stored in one column and searched in it,  *)
(* and how a keyword becomes a LIKE pattern (problem/validation.cpp,       *)
(* problem/list_query.cpp, db/problems.cpp).  A text is a sequence of      *)
(* characters; " " stands for any ASCII white space, letters for all bytes *)
(* without a meaning of their own, and "A" for the upper case of "a".      *)
(***************************************************************************)
EXTENDS Integers, Sequences, FiniteSets, SequencesExt, TextPieces

CONSTANTS
    MaxText,    \* bound: length of the texts that are tried
    MaxTags     \* kMaxTags

ASSUME TextAssumption == MaxText \in Nat /\ MaxTags \in Nat

trim(s) ==
    LET ink == {i \in DOMAIN s : s[i] # " "}
    IN  IF ink = {} THEN <<>> ELSE SubSeq(s, Min(ink), Max(ink))

\* Mutant of AcceptsTags: a comma within a tag is not refused.
AcceptsTags_Comma(tags) ==
    /\ Len(tags) <= MaxTags
    /\ \A i \in DOMAIN tags : tags[i] # <<>>
    /\ IsInjective(tags)

\* What parse_tags lets pass of the trimmed texts.
AcceptsTags(tags) ==
    /\ Len(tags) <= MaxTags
    /\ \A i \in DOMAIN tags : tags[i] # <<>> /\ "," \notin Range(tags[i])
    /\ IsInjective(tags)

\* The accepted list of tags, or none.
parse_tags(raw) ==
    LET tags == [i \in DOMAIN raw |-> trim(raw[i])] IN {t \in {tags} : AcceptsTags(t)}

join_tags(tags) == Joined(tags, ",")

\* The pieces between the commas, trimmed, the empty ones dropped.
split_tags(s) ==
    LET pieces == Pieces(s, ",")
        tags(j) == IF trim(pieces[j]) = <<>> THEN <<>> ELSE <<trim(pieces[j])>>
    IN  FlattenSeq([j \in DOMAIN pieces |-> tags(j)])

\* SQLite's instr(text, part) > 0.
instr(text, part) ==
    \E i \in 0..(Len(text) - Len(part)) : SubSeq(text, i + 1, i + Len(part)) = part

tag_match_needle(tag) == <<",">> \o tag \o <<",">>

MatchesTag(stored, tag) == instr(<<",">> \o stored \o <<",">>, tag_match_needle(tag))

escape_like(s) ==
    FlattenSeq([i \in DOMAIN s |-> IF s[i] \in {"\\", "%", "_"} THEN <<"\\", s[i]>> ELSE <<s[i]>>])

title_like_pattern(keyword) == <<"%">> \o escape_like(keyword) \o <<"%">>

\* LIKE takes no account of the case of ASCII letters, escaped or not.
lower(c) == IF c = "A" THEN "a" ELSE c
Lower(s) == [i \in DOMAIN s |-> lower(s[i])]
Same(c, d) == lower(c) = lower(d)

\* SQLite's text LIKE p ESCAPE '\'.  from[i] are the places of the text from which on
\* it matches the pattern from i on.
Like(text, p) ==
    LET from[i \in 1..(Len(p) + 1)] ==
            LET any == {j \in 1..(Len(text) + 1) : \E k \in from[i + 1] : j <= k}
                escaped == {j \in 1..Len(text) : Same(text[j], p[i + 1]) /\ j + 1 \in from[i + 2]}
                one == {j \in 1..Len(text) : (p[i] = "_" \/ Same(text[j], p[i])) /\ j + 1 \in from[i + 1]}
            IN  CASE i > Len(p) -> {Len(text) + 1}
                  [] i <= Len(p) /\ p[i] = "%" -> any
                  [] i < Len(p) /\ p[i] = "\\" -> escaped
                  [] OTHER -> one
    IN  1 \in from[1]

-----------------------------------------------------------------------------
Texts(chars) == UNION {[1..n -> chars] : n \in 0..MaxText}

TagsExact ==
    LET words == Texts({"a", "b", ",", " "})
        filters == {f \in {trim(w) : w \in words} : f # <<>> /\ "," \notin Range(f)}
    IN  \A raw \in UNION {[1..n -> words] : n \in 0..MaxTags} :
            \A tags \in parse_tags(raw) :
                /\ split_tags(join_tags(tags)) = tags
                /\ \A f \in filters : MatchesTag(join_tags(tags), f) <=> f \in Range(tags)

KeywordLiteral ==
    LET words == Texts({"a", "A", "%", "_", "\\"})
    IN  \A title, keyword \in words :
            Like(title, title_like_pattern(keyword)) <=> instr(Lower(title), Lower(keyword))

\* What the column holds reads back as the accepted list, and a tag (as a list
\* request gives it, trimmed) finds exactly the problems that have it: never a
\* problem with a longer tag that contains it, and none is missed.  A keyword is
\* found in a title exactly where it stands in it but for the case of ASCII letters,
\* the wildcards of LIKE and the escape character taken literally (list_query.h).
FiltersLiteral == TagsExact /\ KeywordLiteral

=============================================================================
