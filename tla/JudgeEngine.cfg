\* Two judges, one permit; the global limit can end a judge at the gate, while
\* compiling, and in each test case.
SPECIFICATION EngineSpec
CONSTANTS
    Engines = {e1, e2}
    Tests = 2
    MaxCompiles = 1
    Global = 3
    CompileLimit = 2
    ProblemLimit = 2
    MaxLength = 4
CHECK_DEADLOCK FALSE
INVARIANTS
    AcceptedIffCorrect
    BlameIsDue
    PermitsAccounted
    WithinGlobalLimit
    MatchIsVisible
PROPERTIES
    EveryJudgeEnds
