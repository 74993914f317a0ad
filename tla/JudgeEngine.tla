----------------------------- MODULE JudgeEngine -----------------------------
(***************************************************************************)
(* Judging one submission (judge/judge.cpp), by several workers that share *)
(* a gate which bounds the number of compilations at a time                *)
(* (judge/compile_gate.cpp).                                               *)
(*                                                                         *)
(* Every judge has one global deadline for waiting at the gate, compiling  *)
(* and running all test cases; each process it starts gets a limit of its  *)
(* own, cut to what is left of the global one.  A token can cancel the     *)
(* judge at any moment.  Time is counted in ticks per judge; what a        *)
(* process does, and how long it takes within its limit, is any outcome    *)
(* that the executor can report (judge/local_executor.cpp).                *)
(***************************************************************************)
EXTENDS Integers, Sequences, FiniteSets, Comparator

CONSTANTS
    Engines,       \* judges, each with a worker thread of its own
    Tests,         \* number of test cases of the problem
    MaxCompiles,   \* max_concurrent_ of the compile gate
    Global,        \* global_time_limit_ms, in ticks
    CompileLimit,  \* compile_time_limit_ms, in ticks
    ProblemLimit   \* time limit of a test case (already cut to max_time_limit_ms)

ASSUME EngineAssumption ==
    /\ IsFiniteSet(Engines)
    /\ Tests \in Nat
    /\ MaxCompiles \in Nat \ {0}
    /\ Global \in Nat
    /\ CompileLimit \in Nat \ {0}
    /\ ProblemLimit \in Nat \ {0}

VARIABLES
    pc,         \* where each judge is
    elapsed,    \* ticks since the global deadline was set
    cancelled,  \* the token of the judge
    active,     \* permits the gate has given out (active_)
    limit,      \* limit of the process that is running, else 0
    cases,      \* result.cases
    blame,      \* why a judge was ended early: "none", "service" or "compiler"
    status      \* result.status when done

engineVars == <<pc, elapsed, cancelled, active, limit, cases, blame, status>>

Statuses == {"AC", "WA", "RE", "MLE", "TLE", "SYSERR", "CE"}

\* judge_status_severity
severity == [AC |-> 0, WA |-> 1, RE |-> 2, MLE |-> 3, TLE |-> 4, SYSERR |-> 5, CE |-> 6]

EngineInit ==
    /\ pc = [e \in Engines |-> "start"]
    /\ elapsed = [e \in Engines |-> 0]
    /\ cancelled = [e \in Engines |-> FALSE]
    /\ active = 0
    /\ limit = [e \in Engines |-> 0]
    /\ cases = [e \in Engines |-> <<>>]
    /\ blame = [e \in Engines |-> "none"]
    /\ status = [e \in Engines |-> "none"]

Move(e, to) == pc' = [pc EXCEPT ![e] = to]

\* remaining_ms of the global deadline.
remaining_ms(e) == IF elapsed[e] >= Global THEN 0 ELSE Global - elapsed[e]

\* Mutant of effective_time_limit_ms: a test case gets its whole time limit.
effective_time_limit_ms_Uncapped(problem_limit_ms, remaining_global_ms) == problem_limit_ms

effective_time_limit_ms(problem_limit_ms, remaining_global_ms) ==
    IF problem_limit_ms < remaining_global_ms THEN problem_limit_ms ELSE remaining_global_ms

-----------------------------------------------------------------------------
(* What the executor reports of a process, and what is made of it.         *)

\* One of cancel, time-out and memory limit may have killed the process; it can
\* have ended by itself at the same moment.  A process that was not launched, or
\* was cancelled before, has not ended.
Evidence ==
    {e \in [stop : {"no", "cancelled", "launch_error", "timed_out", "memory_exceeded"},
            ended : {"zero", "nonzero", "signal", "lost"},
            truncated : BOOLEAN,
            output : Comparisons] :
        e.stop = "launch_error" => e.ended = "lost" /\ ~e.truncated}

\* The program ended by itself, without a fault and with all its output; and a
\* reader of the output finds nothing wrong with it.
Normal(e) == e.stop = "no" /\ e.ended = "zero" /\ ~e.truncated
Clean(e) == Normal(e) /\ e.output.same

\* Mutant of classify_case: matching output hides a crash.
classify_case_OutputFirst(e) ==
    CASE e.stop \in {"cancelled", "launch_error"} -> "SYSERR"
      [] e.stop = "memory_exceeded" -> "MLE"
      [] e.stop = "timed_out" -> "TLE"
      [] e.stop = "no" /\ e.output.matches -> "AC"
      [] e.stop = "no" /\ ~e.output.matches /\ (e.ended # "zero" \/ e.truncated) -> "RE"
      [] OTHER -> "WA"

classify_case(e) ==
    CASE e.stop \in {"cancelled", "launch_error"} -> "SYSERR"
      [] e.stop = "memory_exceeded" -> "MLE"
      [] e.stop = "timed_out" -> "TLE"
      [] e.stop = "no" /\ (e.ended # "zero" \/ e.truncated) -> "RE"
      [] e.stop = "no" /\ e.ended = "zero" /\ ~e.truncated /\ e.output.matches -> "AC"
      [] OTHER -> "WA"

\* The worst status of the test cases that ran; none at all is an internal error.
summarize_cases(results) ==
    IF results = <<>>
    THEN "SYSERR"
    ELSE CHOOSE s \in {results[i].status : i \in DOMAIN results} :
             \A i \in DOMAIN results : severity[results[i].status] <= severity[s]

-----------------------------------------------------------------------------
(* The judge.                                                              *)

\* judge() returns without running test cases.
Return(e, verdict, cause) ==
    /\ Move(e, "done")
    /\ status' = [status EXCEPT ![e] = verdict]
    /\ blame' = [blame EXCEPT ![e] = cause]

\* The input is checked and the global deadline is set; an invalid language, no
\* test case, a cancelled token or a failing workspace end the judge.
Begin(e) ==
    /\ pc[e] = "start"
    /\ \/ Return(e, "SYSERR", "service")
       \/ /\ ~cancelled[e]
          /\ Tests > 0
          /\ Move(e, "gate")
          /\ UNCHANGED <<status, blame>>
    /\ UNCHANGED <<elapsed, cancelled, active, limit, cases>>

\* CompileGate::acquire: a free permit is taken without a look at the deadline.
Acquire(e) ==
    /\ pc[e] = "gate"
    /\ active < MaxCompiles
    /\ active' = active + 1
    /\ Move(e, "permit")
    /\ UNCHANGED <<elapsed, cancelled, limit, cases, blame, status>>

\* It waits for at most what is left.
Wait(e) ==
    /\ pc[e] = "gate"
    /\ active >= MaxCompiles
    /\ ~cancelled[e]
    /\ \E ticks \in 1..remaining_ms(e) : elapsed' = [elapsed EXCEPT ![e] = @ + ticks]
    /\ UNCHANGED <<pc, cancelled, active, limit, cases, blame, status>>

\* The gate is full and the judge was cancelled or its time is over.
GiveUp(e) ==
    /\ pc[e] = "gate"
    /\ active >= MaxCompiles
    /\ cancelled[e] \/ remaining_ms(e) = 0
    /\ Return(e, "SYSERR", "service")
    /\ UNCHANGED <<elapsed, cancelled, active, limit, cases>>

\* Mutant of Launch: the permit is kept when the time is already over.
Launch_KeepsPermit(e) ==
    /\ pc[e] = "permit"
    /\ \/ /\ remaining_ms(e) = 0
          /\ Return(e, "SYSERR", "service")
          /\ UNCHANGED <<limit, active>>
       \/ /\ remaining_ms(e) > 0
          /\ limit' = [limit EXCEPT ![e] = effective_time_limit_ms(CompileLimit, remaining_ms(e))]
          /\ Move(e, "compiling")
          /\ UNCHANGED <<active, blame, status>>
    /\ UNCHANGED <<elapsed, cancelled, cases>>

\* The compiler is started with what is left, if anything is; else the guard
\* gives the permit back.
Launch(e) ==
    /\ pc[e] = "permit"
    /\ \/ /\ remaining_ms(e) = 0
          /\ active' = active - 1
          /\ Return(e, "SYSERR", "service")
          /\ UNCHANGED limit
       \/ /\ remaining_ms(e) > 0
          /\ limit' = [limit EXCEPT ![e] = effective_time_limit_ms(CompileLimit, remaining_ms(e))]
          /\ Move(e, "compiling")
          /\ UNCHANGED <<active, blame, status>>
    /\ UNCHANGED <<elapsed, cancelled, cases>>

\* The process ends after some ticks, a time-out after the whole limit.
TimePasses(e, stop) ==
    \E ticks \in 0..limit[e] :
        /\ stop = "timed_out" => ticks = limit[e]
        /\ elapsed' = [elapsed EXCEPT ![e] = @ + ticks]

\* A compiler that fails, or uses up its own limit, is a compile error; one that
\* was killed, was not started or ran into the global deadline is not.
CompileFailure(e, stop, ended) ==
    CASE stop \in {"cancelled", "launch_error"} -> "SYSERR"
      [] stop = "timed_out" -> IF CompileLimit > limit[e] THEN "SYSERR" ELSE "CE"
      [] stop \notin {"cancelled", "launch_error", "timed_out"} /\ ended = "nonzero" -> "CE"
      [] OTHER -> "SYSERR"

\* executor_.compile returns and the permit goes back.  Exit code 0 is a failure
\* still when there is no executable.
Compiled(e) ==
    /\ pc[e] = "compiling"
    /\ \E report \in {[stop |-> r.stop, ended |-> r.ended] : r \in Evidence} :
           /\ report.stop = "cancelled" => cancelled[e]
           /\ TimePasses(e, report.stop)
           /\ \/ /\ report.stop \in {"no", "memory_exceeded"}
                 /\ report.ended = "zero"
                 /\ Move(e, "cases")
                 /\ UNCHANGED <<status, blame>>
              \/ LET verdict == CompileFailure(e, report.stop, report.ended)
                     own == \/ report.stop = "timed_out" /\ limit[e] = CompileLimit
                            \/ report.stop \in {"no", "memory_exceeded"} /\ report.ended = "nonzero"
                 IN  Return(e, verdict, IF own THEN "compiler" ELSE "service")
    /\ active' = active - 1
    /\ limit' = [limit EXCEPT ![e] = 0]
    /\ UNCHANGED <<cancelled, cases>>

\* The loop over the test cases ends early; what has run is kept.
Abort(e) == Return(e, "SYSERR", "service")

\* The loop is over: the worst status of the test cases that ran.
Finished(e, results) == Return(e, summarize_cases(results), "none")

\* The next test case: a cancelled token or a passed deadline end the judge.
NextCase(e) ==
    /\ pc[e] = "cases"
    /\ \/ /\ cancelled[e] \/ remaining_ms(e) = 0
          /\ Abort(e)
          /\ UNCHANGED limit
       \/ /\ ~cancelled[e]
          /\ remaining_ms(e) > 0
          /\ limit' = [limit EXCEPT ![e] = effective_time_limit_ms(ProblemLimit, remaining_ms(e))]
          /\ Move(e, "running")
          /\ UNCHANGED <<status, blame>>
    /\ UNCHANGED <<elapsed, cancelled, active, cases>>

\* Mutant of CutOff: a test case that the global deadline cut off is a plain time-out.
CutOff_Ignored(e, report) == FALSE

\* global_capped and timed_out: the global deadline ended the test case.
CutOff(e, report) == report.stop = "timed_out" /\ limit[e] < ProblemLimit

\* What is kept of a test case: its status and, for the properties, whether the
\* program ended normally, was right, had its whole time, and was left alone by the service.
CaseResult(e, report) ==
    [status |-> classify_case(report),
     normal |-> Normal(report),
     clean |-> Clean(report),
     full |-> report.stop = "timed_out" /\ limit[e] = ProblemLimit,
     left_alone |-> /\ report.stop \notin {"cancelled", "launch_error"}
                    /\ report.stop = "timed_out" => limit[e] = ProblemLimit]

\* After a test case: the service has stopped or the global time is over; or no
\* process could be started or all test cases are done; or the loop goes on.
AfterCase(e, report, results) ==
    \/ /\ report.stop = "cancelled" \/ CutOff(e, report)
       /\ Abort(e)
    \/ /\ report.stop # "cancelled" /\ ~CutOff(e, report)
       /\ report.stop = "launch_error" \/ Len(results) = Tests
       /\ Finished(e, results)
    \/ /\ report.stop \notin {"cancelled", "launch_error"} /\ ~CutOff(e, report)
       /\ Len(results) < Tests
       /\ Move(e, "cases")
       /\ UNCHANGED <<status, blame>>

\* Mutant of Ran: a test case whose process could not be started is tried again.
Ran_Retries(e) ==
    /\ pc[e] = "running"
    /\ \E report \in Evidence :
           LET results == Append(cases[e], CaseResult(e, report))
           IN  /\ report.stop = "cancelled" => cancelled[e]
               /\ TimePasses(e, report.stop)
               /\ \/ /\ report.stop = "launch_error"
                     /\ Move(e, "cases")
                     /\ UNCHANGED <<cases, status, blame>>
                  \/ /\ report.stop # "launch_error"
                     /\ cases' = [cases EXCEPT ![e] = results]
                     /\ AfterCase(e, report, results)
    /\ limit' = [limit EXCEPT ![e] = 0]
    /\ UNCHANGED <<cancelled, active>>

\* executor_.run returns; the result is classified and the loop goes on, unless
\* the rest is aborted.
Ran(e) ==
    /\ pc[e] = "running"
    /\ \E report \in Evidence :
           LET results == Append(cases[e], CaseResult(e, report))
           IN  /\ report.stop = "cancelled" => cancelled[e]
               /\ TimePasses(e, report.stop)
               /\ cases' = [cases EXCEPT ![e] = results]
               /\ AfterCase(e, report, results)
    /\ limit' = [limit EXCEPT ![e] = 0]
    /\ UNCHANGED <<cancelled, active>>

\* The scheduler stops: cancel_all sets the token.
Cancel(e) ==
    /\ pc[e] # "done"
    /\ ~cancelled[e]
    /\ cancelled' = [cancelled EXCEPT ![e] = TRUE]
    /\ UNCHANGED <<pc, elapsed, active, limit, cases, blame, status>>

Step(e) ==
    \/ Begin(e) \/ Acquire(e) \/ Wait(e) \/ GiveUp(e) \/ Launch(e) \/ Compiled(e)
    \/ NextCase(e) \/ Ran(e)

EngineNext == \E e \in Engines : Step(e) \/ Cancel(e)

\* Worker threads are scheduled, and the executor returns within its limit.
EngineFairness == \A e \in Engines : WF_engineVars(Step(e))

EngineSpec == EngineInit /\ [][EngineNext]_engineVars /\ EngineFairness

-----------------------------------------------------------------------------
(* Properties.                                                             *)

CaseResults == [status : Statuses, normal : BOOLEAN, clean : BOOLEAN, full : BOOLEAN, left_alone : BOOLEAN]

EngineTypeOK ==
    /\ pc \in [Engines -> {"start", "gate", "permit", "compiling", "cases", "running", "done"}]
    /\ elapsed \in [Engines -> Nat]
    /\ cancelled \in [Engines -> BOOLEAN]
    /\ active \in 0..MaxCompiles
    /\ limit \in [Engines -> Nat]
    /\ \A e \in Engines : cases[e] \in Seq(CaseResults) /\ Len(cases[e]) <= Tests
    /\ blame \in [Engines -> {"none", "service", "compiler"}]
    /\ status \in [Engines -> Statuses \cup {"none"}]

Judged(e) == pc[e] = "done"

\* A submission is AC exactly when every test case was run and every run ended
\* by itself, with exit code 0, complete output and, to a reader, the right one: neither a crash
\* after the right output, nor a judge that was cut short, nor an empty one gives
\* AC, and nothing else takes an AC away (judge.cpp, classification.cpp).
AcceptedIffCorrect ==
    \A e \in Engines :
        Judged(e) => (status[e] = "AC" <=>
            Len(cases[e]) = Tests /\ Tests > 0 /\ \A i \in DOMAIN cases[e] : cases[e][i].clean)

\* A test case that ended normally is AC or WA by what a reader sees of its output:
\* blanks at the end of lines and empty lines at the end make no difference,
\* everything else does (leading and inner blanks, empty lines in between); no
\* other case is AC or WA (comparator.cpp, classification.cpp).
MatchIsVisible ==
    \A e \in Engines : \A i \in DOMAIN cases[e] :
        /\ cases[e][i].status = "AC" <=> cases[e][i].clean
        /\ cases[e][i].status = "WA" <=> cases[e][i].normal /\ ~cases[e][i].clean

\* What the service does is never blamed on the program: a verdict other than
\* SYSERR and CE comes from a run of every test case, none of which was cancelled,
\* not started, or cut off by the global deadline; TLE only when some test case
\* had its whole time limit; CE only when the compiler said so or had its whole limit.
BlameIsDue ==
    \A e \in Engines : Judged(e) =>
        /\ status[e] \notin {"SYSERR", "CE"} =>
               Len(cases[e]) = Tests /\ \A i \in DOMAIN cases[e] : cases[e][i].left_alone
        /\ status[e] = "TLE" => \E i \in DOMAIN cases[e] : cases[e][i].full
        /\ status[e] = "CE" => blame[e] = "compiler"

\* The state is well typed, and the permits given out are those of the judges
\* that hold one: no way out of a judge loses a permit or gives one back twice,
\* whether it waited, was cancelled, ran out of time or compiled (CompileGateGuard).
PermitsAccounted ==
    /\ EngineTypeOK
    /\ active = Cardinality({e \in Engines : pc[e] \in {"permit", "compiling"}})

\* A judge never takes longer than the global limit, however its waiting at the
\* gate, compiling and test cases add up, as long as the executor keeps to the
\* limits it is given.
WithinGlobalLimit == \A e \in Engines : elapsed[e] <= Global

\* Every judge ends, with a verdict, even if it never gets a permit.
EveryJudgeEnds == \A e \in Engines : <>(Judged(e) /\ status[e] # "none")

=============================================================================
