\* Two times for three submissions: equal times happen.
SPECIFICATION Spec
CONSTANTS
    Submissions = {s1, s2, s3}
    Rejudgers = {r1, r2}
    MaxTime = 2
    MaxEdits = 1
    None = Nil
SYMMETRY Symmetry
INVARIANTS
    SummaryAgrees
PROPERTIES
    SettlingKeepsSolved
    NoStaleVerdict
