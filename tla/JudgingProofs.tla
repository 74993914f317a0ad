---------------------------- MODULE JudgingProofs ----------------------------
(***************************************************************************)
(* Proofs about the two halves of judging a program: JudgeEngine, which    *)
(* decides, and LocalExecutor, which runs the processes.                   *)
(*                                                                         *)
(* The comparator: two outputs match exactly when a reader cannot tell     *)
(* them apart, for texts of any length (OutputsMatchAsSeen).  The lines    *)
(* that normalize_output keeps are what the reader sees (SeenIsKept,       *)
(* KeptIsSeen), and they can be found again in the text that it joins them *)
(* to (JoinedOnce).                                                        *)
(*                                                                         *)
(* The engine: for any number of judges, test cases, permits and any       *)
(* limits.                                                                 *)
(*                                                                         *)
(* The executor: for any number of jobs that fork, inherit each other's    *)
(* pipes and end in any order, and any amount of output.  The invariant is *)
(* a conjunction over the jobs, and a job's part mentions no other job: a  *)
(* step of one job leaves the part of every other true (SameKeeps),        *)
(* however the pipes it closes were shared.  What one job needs of the     *)
(* pipes is only that its own processes hold them, so that the end of a    *)
(* pipe means that its writers among them are over.                        *)
(***************************************************************************)
EXTENDS JudgeEngine, LocalExecutor, TextProofs, FiniteSetTheorems, SequenceTheorems, TLAPS

-----------------------------------------------------------------------------
(* The engine: the inductive invariant.                                    *)

Holders == {e \in Engines : pc[e] \in {"permit", "compiling"}}

EngineType ==
    /\ pc \in [Engines -> {"start", "gate", "permit", "compiling", "cases", "running", "done"}]
    /\ elapsed \in [Engines -> Nat]
    /\ cancelled \in [Engines -> BOOLEAN]
    /\ active \in 0..MaxCompiles
    /\ limit \in [Engines -> Nat]
    /\ cases \in [Engines -> Seq(CaseResults)]
    /\ blame \in [Engines -> {"none", "service", "compiler"}]
    /\ status \in [Engines -> Statuses \cup {"none"}]

\* CompileGate counts the judges between acquire and the end of its guard.
PermitInv == active = Cardinality(Holders)

\* Whatever runs has been given no more than what was left.
TimeInv ==
    \A e \in Engines :
        /\ elapsed[e] + limit[e] <= Global
        /\ pc[e] \notin {"compiling", "running"} => limit[e] = 0
        /\ pc[e] = "compiling" => limit[e] <= CompileLimit
        /\ pc[e] = "running" => limit[e] <= ProblemLimit

\* What is kept of one test case.
CaseInv(r) ==
    /\ r.status # "CE"
    /\ r.status = "TLE" /\ r.left_alone => r.full
    /\ r.status # "SYSERR" /\ r.status # "TLE" => r.left_alone
    /\ r.clean => r.left_alone

\* The loop goes on only after a test case that the service left alone.
LoopInv ==
    \A e \in Engines :
        /\ \A i \in DOMAIN cases[e] : CaseInv(cases[e][i])
        /\ pc[e] \in {"gate", "permit", "compiling", "cases", "running"} => Len(cases[e]) < Tests
        /\ pc[e] \in {"start", "gate", "permit", "compiling"} => cases[e] = <<>>
        /\ pc[e] \in {"cases", "running"} => \A i \in DOMAIN cases[e] : cases[e][i].left_alone

\* A judge that came to the end of its loop has the worst status of its cases; one
\* that was ended early has run too few of them or one that cannot be right.
DoneInv ==
    \A e \in Engines :
        /\ Len(cases[e]) <= Tests
        /\ pc[e] = "done" =>
            \/ /\ blame[e] = "none"
               /\ cases[e] # <<>>
               /\ status[e] = summarize_cases(cases[e])
               /\ \/ Len(cases[e]) = Tests /\ \A i \in DOMAIN cases[e] : cases[e][i].left_alone
                  \/ \E i \in DOMAIN cases[e] : cases[e][i].status = "SYSERR"
            \/ /\ status[e] \in {"SYSERR", "CE"}
               /\ status[e] = "CE" => blame[e] = "compiler"
               /\ \/ Len(cases[e]) < Tests
                  \/ Tests = 0
                  \/ \E i \in DOMAIN cases[e] : ~cases[e][i].clean

EngineInv == EngineType /\ PermitInv /\ TimeInv /\ LoopInv /\ DoneInv

-----------------------------------------------------------------------------
(* What the operators of the judge return.                                 *)

\* The severity table, one value at a time: no two statuses weigh the same.
LEMMA SeverityValues ==
    /\ severity["AC"] = 0 /\ severity["WA"] = 1 /\ severity["RE"] = 2 /\ severity["MLE"] = 3
    /\ severity["TLE"] = 4 /\ severity["SYSERR"] = 5 /\ severity["CE"] = 6
  BY DEF severity

\* summarize_cases returns the status of one of the cases, and none is worse.
LEMMA SummarizeIsWorst ==
    ASSUME NEW results \in Seq(CaseResults), results # <<>>
    PROVE  /\ \E i \in DOMAIN results : summarize_cases(results) = results[i].status
           /\ \A i \in DOMAIN results : severity[results[i].status] <= severity[summarize_cases(results)]
<1> DEFINE S == {results[i].status : i \in DOMAIN results}
           Worst(s) == \A i \in DOMAIN results : severity[results[i].status] <= severity[s]
<1>1. \A i \in DOMAIN results : results[i].status \in Statuses
  <2>1. \A i \in DOMAIN results : results[i] \in CaseResults
    BY ElementOfSeq, LenProperties
  <2> QED BY <2>1 DEF CaseResults
<1>2. \E s \in S : TRUE
  <2>1. 1 \in DOMAIN results
    BY EmptySeq, LenProperties
  <2> QED BY <2>1
<1>3. \E s \in S : Worst(s)
  <2>1. \A s \in S : s \in Statuses
    BY <1>1
  <2>2. \A i \in DOMAIN results : results[i].status \in S
    OBVIOUS
  <2> HIDE DEF S
  <2>3. CASE "CE" \in S
    <3>1. \A i \in DOMAIN results : results[i].status \in {"CE", "SYSERR", "TLE", "MLE", "RE", "WA", "AC"}
      BY <1>1, <2>2, <2>3 DEF Statuses
    <3>2. Worst("CE")
      BY <3>1, SeverityValues
    <3> QED BY <2>3, <3>2
  <2>4. CASE S \cap {"CE"} = {} /\ "SYSERR" \in S
    <3>1. \A i \in DOMAIN results : results[i].status \in {"SYSERR", "TLE", "MLE", "RE", "WA", "AC"}
      BY <1>1, <2>2, <2>4 DEF Statuses
    <3>2. Worst("SYSERR")
      BY <3>1, SeverityValues
    <3> QED BY <2>4, <3>2
  <2>5. CASE S \cap {"CE", "SYSERR"} = {} /\ "TLE" \in S
    <3>1. \A i \in DOMAIN results : results[i].status \in {"TLE", "MLE", "RE", "WA", "AC"}
      BY <1>1, <2>2, <2>5 DEF Statuses
    <3>2. Worst("TLE")
      BY <3>1, SeverityValues
    <3> QED BY <2>5, <3>2
  <2>6. CASE S \cap {"CE", "SYSERR", "TLE"} = {} /\ "MLE" \in S
    <3>1. \A i \in DOMAIN results : results[i].status \in {"MLE", "RE", "WA", "AC"}
      BY <1>1, <2>2, <2>6 DEF Statuses
    <3>2. Worst("MLE")
      BY <3>1, SeverityValues
    <3> QED BY <2>6, <3>2
  <2>7. CASE S \cap {"CE", "SYSERR", "TLE", "MLE"} = {} /\ "RE" \in S
    <3>1. \A i \in DOMAIN results : results[i].status \in {"RE", "WA", "AC"}
      BY <1>1, <2>2, <2>7 DEF Statuses
    <3>2. Worst("RE")
      BY <3>1, SeverityValues
    <3> QED BY <2>7, <3>2
  <2>8. CASE S \cap {"CE", "SYSERR", "TLE", "MLE", "RE"} = {} /\ "WA" \in S
    <3>1. \A i \in DOMAIN results : results[i].status \in {"WA", "AC"}
      BY <1>1, <2>2, <2>8 DEF Statuses
    <3>2. Worst("WA")
      BY <3>1, SeverityValues
    <3> QED BY <2>8, <3>2
  <2>9. CASE S \cap {"CE", "SYSERR", "TLE", "MLE", "RE", "WA"} = {}
    <3>1. \A i \in DOMAIN results : results[i].status \in {"AC"}
      BY <1>1, <2>2, <2>9 DEF Statuses
    <3>2. "AC" \in S
      BY <1>2, <2>1, <2>9 DEF Statuses
    <3>3. Worst("AC")
      BY <3>1, SeverityValues
    <3> QED BY <3>2, <3>3
  <2> QED BY <2>3, <2>4, <2>5, <2>6, <2>7, <2>8, <2>9
<1>4. summarize_cases(results) = CHOOSE s \in S : Worst(s)
  BY DEF summarize_cases
<1>5. summarize_cases(results) \in S /\ Worst(summarize_cases(results))
  <2> HIDE DEF S, Worst
  <2> QED BY <1>3, <1>4
<1> QED BY <1>5

\* classify_case and what is kept next to it.
LEMMA CaseResultFacts ==
    ASSUME NEW e \in Engines, NEW evidence \in Evidence, limit[e] \in Nat, limit[e] <= ProblemLimit
    PROVE  /\ CaseResult(e, evidence) \in CaseResults
           /\ CaseInv(CaseResult(e, evidence))
           /\ evidence.stop = "launch_error" => CaseResult(e, evidence).status = "SYSERR"
           /\ evidence.stop \notin {"cancelled", "launch_error"} /\ ~CutOff(e, evidence)
                  => CaseResult(e, evidence).left_alone
           /\ evidence.stop = "cancelled" \/ CutOff(e, evidence) => ~CaseResult(e, evidence).clean
<1> USE EngineAssumption
<1>1. evidence.stop \in {"no", "cancelled", "launch_error", "timed_out", "memory_exceeded"}
  BY DEF Evidence
<1>2. /\ evidence.stop \in {"cancelled", "launch_error"} => classify_case(evidence) = "SYSERR"
      /\ evidence.stop = "memory_exceeded" => classify_case(evidence) = "MLE"
      /\ evidence.stop = "timed_out" => classify_case(evidence) = "TLE"
      /\ evidence.stop = "no" /\ (evidence.ended # "zero" \/ evidence.truncated) => classify_case(evidence) = "RE"
      /\ evidence.stop = "no" /\ evidence.ended = "zero" /\ ~evidence.truncated /\ evidence.output.matches
             => classify_case(evidence) = "AC"
      /\ evidence.stop = "no" /\ evidence.ended = "zero" /\ ~evidence.truncated /\ ~evidence.output.matches
             => classify_case(evidence) = "WA"
  BY DEF classify_case
<1>3. /\ classify_case(evidence) \in Statuses \ {"CE"}
      /\ classify_case(evidence) = "TLE" <=> evidence.stop = "timed_out"
      /\ classify_case(evidence) = "SYSERR" <=> evidence.stop \in {"cancelled", "launch_error"}
  BY <1>1, <1>2 DEF Statuses
<1> DEFINE r == CaseResult(e, evidence)
<1>4. /\ r.status = classify_case(evidence)
      /\ r.clean <=> Clean(evidence)
      /\ r.full <=> evidence.stop = "timed_out" /\ limit[e] = ProblemLimit
      /\ r.left_alone <=> /\ evidence.stop \notin {"cancelled", "launch_error"}
                          /\ evidence.stop = "timed_out" => limit[e] = ProblemLimit
  BY DEF CaseResult
<1>5. r \in CaseResults
  BY <1>3 DEF CaseResult, CaseResults, Normal, Clean
<1>6. CaseInv(r)
  BY <1>3, <1>4 DEF CaseInv, Clean, Normal
<1> QED BY <1>1, <1>3, <1>4, <1>5, <1>6 DEF CutOff, Clean, Normal

\* A verdict of the compiler's own is CE, any other SYSERR (compile_failure).
LEMMA CompileFailureFacts ==
    ASSUME NEW e \in Engines, limit[e] \in Nat, limit[e] <= CompileLimit,
           NEW stop \in {"no", "cancelled", "launch_error", "timed_out", "memory_exceeded"}, NEW ended
    PROVE  /\ CompileFailure(e, stop, ended) \in {"SYSERR", "CE"}
           /\ CompileFailure(e, stop, ended) = "CE" =>
                 \/ stop = "timed_out" /\ limit[e] = CompileLimit
                 \/ stop \in {"no", "memory_exceeded"} /\ ended = "nonzero"
<1> USE EngineAssumption
<1>1. CASE stop \in {"cancelled", "launch_error"}
  BY <1>1 DEF CompileFailure
<1>2. CASE stop = "timed_out"
  BY <1>2 DEF CompileFailure
<1>3. CASE stop \in {"no", "memory_exceeded"} /\ ended = "nonzero"
  BY <1>3 DEF CompileFailure
<1>4. CASE stop \in {"no", "memory_exceeded"} /\ ended # "nonzero"
  BY <1>4 DEF CompileFailure
<1> QED BY <1>1, <1>2, <1>3, <1>4

\* A judge that holds a permit is counted.
LEMMA HolderCounted ==
    ASSUME EngineInv, NEW e \in Engines
    PROVE  /\ IsFiniteSet(Holders) /\ Cardinality(Holders) \in Nat
           /\ e \in Holders => active >= 1 /\ Cardinality(Holders \ {e}) = active - 1
           /\ e \notin Holders => Cardinality(Holders \cup {e}) = active + 1
<1>1. IsFiniteSet(Holders)
  BY EngineAssumption, FS_Subset DEF Holders
<1>2. Cardinality(Holders) \in Nat /\ active = Cardinality(Holders)
  BY <1>1, FS_CardinalityType DEF EngineInv, PermitInv
<1>3. e \in Holders => active >= 1 /\ Cardinality(Holders \ {e}) = active - 1
  <2> SUFFICES ASSUME e \in Holders PROVE active >= 1 /\ Cardinality(Holders \ {e}) = active - 1
    OBVIOUS
  <2>1. Cardinality(Holders \ {e}) = Cardinality(Holders) - 1
    BY <1>1, FS_RemoveElement
  <2>2. Holders # {}
    OBVIOUS
  <2>3. Cardinality(Holders) # 0
    BY <1>1, <2>2, FS_EmptySet
  <2> QED BY <1>2, <2>1, <2>3
<1>4. e \notin Holders => Cardinality(Holders \cup {e}) = active + 1
  BY <1>1, <1>2, FS_AddElement
<1> QED BY <1>1, <1>2, <1>3, <1>4

-----------------------------------------------------------------------------
(* Steps.                                                                  *)

\* Before the first engine begins no permit is out and nothing is measured.
LEMMA EngineInitInv == EngineInit => EngineInv
<1> SUFFICES ASSUME EngineInit PROVE EngineInv
  OBVIOUS
<1>1. EngineType
  BY EngineAssumption DEF EngineInit, EngineType
<1>2. PermitInv
  <2>1. Holders = {}
    BY DEF EngineInit, Holders
  <2> QED BY <2>1, FS_EmptySet DEF EngineInit, PermitInv
<1>3. TimeInv
  BY EngineAssumption DEF EngineInit, TimeInv
<1>4. \A e \in Engines : cases[e] = <<>> /\ Len(cases[e]) = 0 /\ DOMAIN cases[e] = {}
  BY DEF EngineInit
<1>5. LoopInv
  BY <1>4 DEF EngineInit, LoopInv
<1>6. DoneInv
  BY <1>4, EngineAssumption DEF EngineInit, DoneInv
<1> QED BY <1>1, <1>2, <1>3, <1>5, <1>6 DEF EngineInv

\* An early return before any test case has run, and the beginning.
LEMMA BeginStep == ASSUME EngineInv, NEW e \in Engines, Begin(e) \/ GiveUp(e) PROVE EngineInv'
<1>0. /\ EngineType /\ TimeInv /\ LoopInv /\ DoneInv /\ Holders' = Holders
      /\ UNCHANGED <<elapsed, cancelled, active, limit, cases>>
      /\ pc[e] \in {"start", "gate"}
      /\ \/ /\ pc' = [pc EXCEPT ![e] = "done"]
            /\ status' = [status EXCEPT ![e] = "SYSERR"]
            /\ blame' = [blame EXCEPT ![e] = "service"]
         \/ /\ Tests > 0 /\ pc[e] = "start"
            /\ pc' = [pc EXCEPT ![e] = "gate"]
            /\ UNCHANGED <<status, blame>>
  BY DEF EngineInv, EngineType, Holders, Begin, GiveUp, Return, Move
<1>1. EngineType'
  BY <1>0 DEF EngineType, Statuses
<1>2. PermitInv'
  BY <1>0 DEF EngineInv, PermitInv
<1>3. TimeInv'
  BY <1>0 DEF EngineType, TimeInv
<1>4. cases[e] = <<>> /\ Len(cases[e]) = 0 /\ DOMAIN cases[e] = {}
  BY <1>0 DEF LoopInv
<1>5. LoopInv'
  BY <1>0, <1>4 DEF EngineType, LoopInv, CaseInv
<1>6. DoneInv'
  <2>1. 0 < Tests \/ Tests = 0
    BY EngineAssumption
  <2>2. pc'[e] = "done" => status'[e] = "SYSERR"
    BY <1>0 DEF EngineType
  <2>3. \A d \in Engines : d # e => pc'[d] = pc[d] /\ status'[d] = status[d] /\ blame'[d] = blame[d]
    BY <1>0 DEF EngineType
  <2> QED BY <1>0, <1>4, <2>1, <2>2, <2>3 DEF DoneInv
<1> QED BY <1>1, <1>2, <1>3, <1>5, <1>6 DEF EngineInv

\* CompileGate::acquire with a free permit.
LEMMA AcquireStep == ASSUME EngineInv, NEW e \in Engines, Acquire(e) PROVE EngineInv'
<1>0. /\ EngineType /\ TimeInv /\ LoopInv /\ DoneInv
      /\ UNCHANGED <<elapsed, cancelled, limit, cases, blame, status>>
      /\ pc[e] = "gate" /\ pc' = [pc EXCEPT ![e] = "permit"]
      /\ active < MaxCompiles /\ active' = active + 1
  BY DEF EngineInv, Acquire, Move
<1>1. EngineType'
  BY <1>0, EngineAssumption DEF EngineType
<1>2. PermitInv'
  <2>1. e \notin Holders /\ Holders' = Holders \cup {e}
    BY <1>0 DEF EngineType, Holders
  <2> QED BY <1>0, <2>1, HolderCounted DEF PermitInv
<1>3. TimeInv'
  BY <1>0 DEF EngineType, TimeInv
<1>4. LoopInv'
  BY <1>0 DEF EngineType, LoopInv, CaseInv
<1>5. DoneInv'
  BY <1>0 DEF EngineType, DoneInv
<1> QED BY <1>1, <1>2, <1>3, <1>4, <1>5 DEF EngineInv

\* Waiting at the gate, and the token of the judge.
LEMMA WaitStep == ASSUME EngineInv, NEW e \in Engines, Wait(e) \/ Cancel(e) PROVE EngineInv'
<1>0. /\ EngineType /\ TimeInv /\ LoopInv /\ DoneInv /\ Holders' = Holders
      /\ UNCHANGED <<pc, active, limit, cases, blame, status>>
  BY DEF EngineInv, Wait, Cancel, Holders
<1>1. cancelled' \in [Engines -> BOOLEAN]
  BY <1>0 DEF EngineType, Wait, Cancel
<1>2. elapsed' \in [Engines -> Nat] /\ \A d \in Engines : elapsed'[d] + limit[d] <= Global
  <2>1. CASE Cancel(e)
    BY <1>0, <2>1 DEF EngineType, TimeInv, Cancel
  <2>2. CASE Wait(e)
    <3>1. PICK ticks \in 1..remaining_ms(e) : elapsed' = [elapsed EXCEPT ![e] = @ + ticks]
      BY <2>2 DEF Wait
    <3>2. elapsed[e] < Global /\ ticks \in 1..(Global - elapsed[e])
      BY <1>0, <3>1, EngineAssumption DEF remaining_ms, EngineType
    <3>3. limit[e] = 0
      BY <1>0, <2>2 DEF Wait, TimeInv
    <3>4. elapsed[e] \in Nat /\ ticks \in Nat /\ elapsed[e] + ticks \in Nat /\ elapsed[e] + ticks + 0 <= Global
      BY <1>0, <3>2, EngineAssumption DEF EngineType
    <3> QED BY <1>0, <3>1, <3>3, <3>4 DEF EngineType, TimeInv
  <2> QED BY <2>1, <2>2
<1>3. EngineType'
  BY <1>0, <1>1, <1>2 DEF EngineType
<1>4. PermitInv'
  BY <1>0 DEF EngineInv, PermitInv
<1>5. TimeInv'
  BY <1>0, <1>2 DEF TimeInv
<1>6. LoopInv'
  BY <1>0 DEF LoopInv, CaseInv
<1>7. DoneInv'
  BY <1>0 DEF DoneInv
<1> QED BY <1>3, <1>4, <1>5, <1>6, <1>7 DEF EngineInv

\* The limits of the two kinds of processes are cut to what is left.
LEMMA EffectiveLimit ==
    ASSUME EngineType, NEW e \in Engines, remaining_ms(e) > 0, NEW own \in Nat
    PROVE  LET given == effective_time_limit_ms(own, remaining_ms(e))
           IN  given \in Nat /\ given <= own /\ elapsed[e] + given <= Global
  BY EngineAssumption DEF EngineType, remaining_ms, effective_time_limit_ms

\* The compiler is started, or the permit goes back.
LEMMA LaunchStep == ASSUME EngineInv, NEW e \in Engines, Launch(e) PROVE EngineInv'
<1>0. /\ EngineType /\ TimeInv /\ LoopInv /\ DoneInv
      /\ UNCHANGED <<elapsed, cancelled, cases>> /\ pc[e] = "permit"
  BY DEF EngineInv, Launch
<1>1. cases[e] = <<>> /\ Len(cases[e]) = 0 /\ DOMAIN cases[e] = {} /\ e \in Holders
  BY <1>0 DEF LoopInv, Holders
<1>2. CASE /\ active' = active - 1
           /\ Return(e, "SYSERR", "service")
           /\ UNCHANGED limit
  <2>1. Holders' = Holders \ {e}
    BY <1>0, <1>2 DEF Return, Move, EngineType, Holders
  <2>2. PermitInv' /\ active' \in 0..MaxCompiles
    <3>1. active >= 1 /\ Cardinality(Holders \ {e}) = active - 1
      BY <1>1, HolderCounted
    <3>2. active' \in 0..MaxCompiles
      BY <1>0, <1>2, <3>1, EngineAssumption DEF EngineType
    <3> QED BY <1>2, <2>1, <3>1, <3>2 DEF PermitInv
  <2>3. EngineType'
    BY <1>0, <1>2, <2>2 DEF Return, Move, EngineType, Statuses
  <2>4. TimeInv'
    BY <1>0, <1>2 DEF Return, Move, EngineType, TimeInv
  <2>5. LoopInv'
    BY <1>0, <1>2 DEF Return, Move, EngineType, LoopInv, CaseInv
  <2>6. DoneInv'
    <3>1. 0 < Tests \/ Tests = 0
      BY EngineAssumption
    <3> QED BY <1>0, <1>1, <1>2, <3>1 DEF Return, Move, EngineType, DoneInv
  <2> QED BY <2>2, <2>3, <2>4, <2>5, <2>6 DEF EngineInv
<1>3. CASE /\ remaining_ms(e) > 0
           /\ limit' = [limit EXCEPT ![e] = effective_time_limit_ms(CompileLimit, remaining_ms(e))]
           /\ Move(e, "compiling")
           /\ UNCHANGED <<active, blame, status>>
  <2> DEFINE given == effective_time_limit_ms(CompileLimit, remaining_ms(e))
  <2>1. given \in Nat /\ given <= CompileLimit /\ elapsed[e] + given <= Global
    BY <1>0, <1>3, EffectiveLimit, EngineAssumption
  <2>2. limit' = [limit EXCEPT ![e] = given] /\ pc' = [pc EXCEPT ![e] = "compiling"]
    BY <1>3 DEF Move
  <2> HIDE DEF given
  <2>3. Holders' = Holders
    BY <1>0, <2>2 DEF EngineType, Holders
  <2>4. PermitInv'
    BY <1>3, <2>3 DEF EngineInv, PermitInv
  <2>5. EngineType'
    BY <1>0, <1>3, <2>1, <2>2 DEF EngineType
  <2>6. TimeInv'
    BY <1>0, <2>1, <2>2 DEF EngineType, TimeInv
  <2>7. LoopInv'
    BY <1>0, <2>2 DEF EngineType, LoopInv, CaseInv
  <2>8. DoneInv'
    BY <1>0, <1>3, <2>2 DEF EngineType, DoneInv
  <2> QED BY <2>4, <2>5, <2>6, <2>7, <2>8 DEF EngineInv
<1> QED BY <1>2, <1>3 DEF Launch

\* However long the process took within its limit, the global limit is kept.
LEMMA TimeOfProcess ==
    ASSUME EngineType, TimeInv, NEW e \in Engines, NEW stop, TimePasses(e, stop),
           limit' = [limit EXCEPT ![e] = 0]
    PROVE  /\ elapsed' \in [Engines -> Nat]
           /\ limit' \in [Engines -> Nat]
           /\ \A d \in Engines : elapsed'[d] + limit'[d] <= Global
           /\ limit'[e] = 0 /\ \A d \in Engines : d # e => limit'[d] = limit[d]
<1>1. PICK ticks \in 0..limit[e] : elapsed' = [elapsed EXCEPT ![e] = @ + ticks]
  BY DEF TimePasses
<1>2. elapsed[e] \in Nat /\ limit[e] \in Nat /\ elapsed[e] + limit[e] <= Global
  BY DEF EngineType, TimeInv
<1>3. elapsed[e] + ticks \in Nat /\ elapsed[e] + ticks + 0 <= Global
  BY <1>1, <1>2, EngineAssumption
<1> QED BY <1>1, <1>3 DEF EngineType, TimeInv

\* The compiler has ended: the permit goes back whatever it reported.
LEMMA CompiledStep == ASSUME EngineInv, NEW e \in Engines, Compiled(e) PROVE EngineInv'
<1>0. /\ EngineType /\ TimeInv /\ LoopInv /\ DoneInv
      /\ pc[e] = "compiling" /\ active' = active - 1
      /\ limit' = [limit EXCEPT ![e] = 0]
      /\ UNCHANGED <<cancelled, cases>>
  BY DEF EngineInv, Compiled
<1>1. PICK evidence \in {[stop |-> r.stop, ended |-> r.ended] : r \in Evidence} :
        /\ TimePasses(e, evidence.stop)
        /\ \/ /\ Move(e, "cases")
              /\ UNCHANGED <<status, blame>>
           \/ LET verdict == CompileFailure(e, evidence.stop, evidence.ended)
                  own == \/ evidence.stop = "timed_out" /\ limit[e] = CompileLimit
                         \/ evidence.stop \in {"no", "memory_exceeded"} /\ evidence.ended = "nonzero"
              IN  Return(e, verdict, IF own THEN "compiler" ELSE "service")
  BY DEF Compiled
<1>2. evidence.stop \in {"no", "cancelled", "launch_error", "timed_out", "memory_exceeded"}
  BY DEF Evidence
<1> DEFINE verdict == CompileFailure(e, evidence.stop, evidence.ended)
           own == \/ evidence.stop = "timed_out" /\ limit[e] = CompileLimit
                  \/ evidence.stop \in {"no", "memory_exceeded"} /\ evidence.ended = "nonzero"
           blamed == IF own THEN "compiler" ELSE "service"
<1>3. verdict \in {"SYSERR", "CE"} /\ (verdict = "CE" => blamed = "compiler") /\ blamed \in {"compiler", "service"}
  <2>1. limit[e] \in Nat /\ limit[e] <= CompileLimit
    BY <1>0 DEF EngineType, TimeInv
  <2> QED BY <1>2, <2>1, CompileFailureFacts
<1>4. \/ pc' = [pc EXCEPT ![e] = "cases"] /\ UNCHANGED <<status, blame>>
      \/ /\ pc' = [pc EXCEPT ![e] = "done"]
         /\ status' = [status EXCEPT ![e] = verdict]
         /\ blame' = [blame EXCEPT ![e] = blamed]
  BY <1>1 DEF Move, Return
<1> HIDE DEF verdict, own, blamed
<1>5. cases[e] = <<>> /\ Len(cases[e]) = 0 /\ DOMAIN cases[e] = {} /\ e \in Holders /\ 0 < Tests
  BY <1>0 DEF LoopInv, Holders
<1>6. PermitInv' /\ active' \in 0..MaxCompiles
  <2>1. active >= 1 /\ Cardinality(Holders \ {e}) = active - 1
    BY <1>5, HolderCounted
  <2>2. active' \in 0..MaxCompiles
    BY <1>0, <2>1, EngineAssumption DEF EngineType
  <2>3. Holders' = Holders \ {e}
    BY <1>0, <1>4 DEF EngineType, Holders
  <2> QED BY <1>0, <2>1, <2>2, <2>3 DEF PermitInv
<1>7. /\ elapsed' \in [Engines -> Nat]
      /\ limit' \in [Engines -> Nat]
      /\ \A d \in Engines : elapsed'[d] + limit'[d] <= Global
      /\ limit'[e] = 0 /\ \A d \in Engines : d # e => limit'[d] = limit[d]
  BY <1>0, <1>1, TimeOfProcess
<1>8. EngineType'
  <2>1. pc' \in [Engines -> {"start", "gate", "permit", "compiling", "cases", "running", "done"}]
    BY <1>0, <1>4 DEF EngineType
  <2>2. status' \in [Engines -> Statuses \cup {"none"}]
    BY <1>0, <1>3, <1>4 DEF EngineType, Statuses
  <2>3. blame' \in [Engines -> {"none", "service", "compiler"}]
    BY <1>0, <1>3, <1>4 DEF EngineType
  <2> QED BY <1>0, <1>6, <1>7, <2>1, <2>2, <2>3 DEF EngineType
<1>9. /\ pc'[e] \in {"cases", "done"}
      /\ \A d \in Engines : d # e => pc'[d] = pc[d] /\ status'[d] = status[d] /\ blame'[d] = blame[d]
      /\ pc'[e] = "done" => status'[e] = verdict /\ blame'[e] = blamed
  BY <1>0, <1>4 DEF EngineType
<1>10. TimeInv'
  BY <1>0, <1>7, <1>9 DEF TimeInv
<1>11. LoopInv'
  BY <1>0, <1>5, <1>9 DEF LoopInv, CaseInv
<1>12. DoneInv'
  BY <1>0, <1>3, <1>5, <1>9 DEF DoneInv
<1> QED BY <1>6, <1>8, <1>10, <1>11, <1>12 DEF EngineInv

\* The next test case is started, or the judge is ended.
LEMMA NextCaseStep == ASSUME EngineInv, NEW e \in Engines, NextCase(e) PROVE EngineInv'
<1>0. /\ EngineType /\ TimeInv /\ LoopInv /\ DoneInv
      /\ UNCHANGED <<elapsed, cancelled, active, cases>> /\ pc[e] = "cases"
      /\ \/ /\ pc' = [pc EXCEPT ![e] = "done"]
            /\ status' = [status EXCEPT ![e] = "SYSERR"]
            /\ blame' = [blame EXCEPT ![e] = "service"]
            /\ limit' = limit
         \/ /\ remaining_ms(e) > 0
            /\ limit' = [limit EXCEPT ![e] = effective_time_limit_ms(ProblemLimit, remaining_ms(e))]
            /\ pc' = [pc EXCEPT ![e] = "running"]
            /\ UNCHANGED <<status, blame>>
  BY DEF EngineInv, NextCase, Abort, Return, Move
<1> DEFINE given == effective_time_limit_ms(ProblemLimit, remaining_ms(e))
<1>1. remaining_ms(e) > 0 => given \in Nat /\ given <= ProblemLimit /\ elapsed[e] + given <= Global
  BY <1>0, EffectiveLimit, EngineAssumption
<1> HIDE DEF given
<1>2. /\ \A d \in Engines : d # e => /\ pc'[d] = pc[d] /\ status'[d] = status[d]
                                    /\ blame'[d] = blame[d] /\ limit'[d] = limit[d]
      /\ \/ pc'[e] = "done" /\ status'[e] = "SYSERR" /\ limit'[e] = limit[e]
         \/ pc'[e] = "running" /\ remaining_ms(e) > 0 /\ limit'[e] = given
  BY <1>0 DEF EngineType, given
<1>3. EngineType'
  <2>1. pc' \in [Engines -> {"start", "gate", "permit", "compiling", "cases", "running", "done"}]
    <3>1. pc' = [pc EXCEPT ![e] = "done"] \/ pc' = [pc EXCEPT ![e] = "running"]
      BY <1>0
    <3> QED BY <1>0, <3>1 DEF EngineType
  <2>2. status' \in [Engines -> Statuses \cup {"none"}]
    <3>1. status' = status \/ status' = [status EXCEPT ![e] = "SYSERR"]
      BY <1>0
    <3> QED BY <1>0, <3>1 DEF EngineType, Statuses
  <2>3. blame' \in [Engines -> {"none", "service", "compiler"}]
    <3>1. blame' = blame \/ blame' = [blame EXCEPT ![e] = "service"]
      BY <1>0
    <3> QED BY <1>0, <3>1 DEF EngineType
  <2>4. limit' \in [Engines -> Nat]
    <3>1. limit' = limit \/ (limit' = [limit EXCEPT ![e] = given] /\ given \in Nat)
      BY <1>0, <1>1 DEF given
    <3> QED BY <1>0, <3>1 DEF EngineType
  <2> QED BY <1>0, <2>1, <2>2, <2>3, <2>4 DEF EngineType
<1>4. PermitInv'
  <2>1. Holders' = Holders
    BY <1>0, <1>2 DEF Holders
  <2> QED BY <1>0, <2>1 DEF EngineInv, PermitInv
<1>5. TimeInv'
  BY <1>0, <1>1, <1>2 DEF TimeInv
<1>6. LoopInv'
  BY <1>0, <1>2 DEF LoopInv, CaseInv
<1>7. DoneInv'
  BY <1>0, <1>2 DEF DoneInv, LoopInv
<1> QED BY <1>3, <1>4, <1>5, <1>6, <1>7 DEF EngineInv

\* A test case has ended: what it adds to the results decides how the loop goes on.
LEMMA RanStep == ASSUME EngineInv, NEW e \in Engines, Ran(e) PROVE EngineInv'
<1>0. /\ EngineType /\ TimeInv /\ LoopInv /\ DoneInv
      /\ pc[e] = "running"
      /\ limit' = [limit EXCEPT ![e] = 0]
      /\ UNCHANGED <<cancelled, active>>
  BY DEF EngineInv, Ran
<1>1. PICK evidence \in Evidence :
        /\ TimePasses(e, evidence.stop)
        /\ cases' = [cases EXCEPT ![e] = Append(cases[e], CaseResult(e, evidence))]
        /\ AfterCase(e, evidence, Append(cases[e], CaseResult(e, evidence)))
  BY DEF Ran
<1> DEFINE old == cases[e]
           case == CaseResult(e, evidence)
           results == Append(old, case)
<1>2. /\ case \in CaseResults /\ CaseInv(case)
      /\ evidence.stop = "launch_error" => case.status = "SYSERR"
      /\ evidence.stop \notin {"cancelled", "launch_error"} /\ ~CutOff(e, evidence) => case.left_alone
      /\ evidence.stop = "cancelled" \/ CutOff(e, evidence) => ~case.clean
  <2>1. limit[e] \in Nat /\ limit[e] <= ProblemLimit
    BY <1>0 DEF EngineType, TimeInv
  <2> QED BY <2>1, CaseResultFacts
<1> HIDE DEF case
<1>3. /\ old \in Seq(CaseResults) /\ Len(old) \in Nat /\ Len(old) < Tests /\ DOMAIN old = 1..Len(old)
      /\ \A i \in DOMAIN old : CaseInv(old[i]) /\ old[i].left_alone
  BY <1>0, LenProperties DEF EngineType, LoopInv
<1>4. /\ results \in Seq(CaseResults) /\ Len(results) = Len(old) + 1
      /\ DOMAIN results = 1..(Len(old) + 1)
      /\ \A i \in 1..Len(old) : results[i] = old[i]
      /\ results[Len(old) + 1] = case
  <2> HIDE DEF old
  <2> QED BY <1>2, <1>3, AppendProperties, LenProperties
<1>5. /\ results # <<>> /\ Len(old) + 1 \in DOMAIN results /\ Len(results) <= Tests
      /\ \A i \in DOMAIN results : CaseInv(results[i])
      /\ case.left_alone => \A i \in DOMAIN results : results[i].left_alone
  <2> HIDE DEF results
  <2>1. \A i \in DOMAIN results : i \in 1..Len(old) \/ i = Len(old) + 1
    BY <1>3, <1>4
  <2>2. results # <<>> /\ Len(old) + 1 \in DOMAIN results /\ Len(results) <= Tests
    BY <1>3, <1>4, EngineAssumption
  <2> QED BY <1>2, <1>3, <1>4, <2>1, <2>2
<1>6. \/ /\ evidence.stop = "cancelled" \/ CutOff(e, evidence)
         /\ pc' = [pc EXCEPT ![e] = "done"]
         /\ status' = [status EXCEPT ![e] = "SYSERR"]
         /\ blame' = [blame EXCEPT ![e] = "service"]
      \/ /\ evidence.stop # "cancelled" /\ ~CutOff(e, evidence)
         /\ evidence.stop = "launch_error" \/ Len(results) = Tests
         /\ pc' = [pc EXCEPT ![e] = "done"]
         /\ status' = [status EXCEPT ![e] = summarize_cases(results)]
         /\ blame' = [blame EXCEPT ![e] = "none"]
      \/ /\ evidence.stop \notin {"cancelled", "launch_error"} /\ ~CutOff(e, evidence)
         /\ Len(results) < Tests
         /\ pc' = [pc EXCEPT ![e] = "cases"]
         /\ UNCHANGED <<status, blame>>
  BY <1>1 DEF AfterCase, Abort, Finished, Return, Move, case
<1>7. summarize_cases(results) \in Statuses
  <2> HIDE DEF results
  <2>1. PICK i \in DOMAIN results : summarize_cases(results) = results[i].status
    BY <1>4, <1>5, SummarizeIsWorst
  <2>2. results[i] \in CaseResults
    BY <1>4, <1>3, ElementOfSeq
  <2> QED BY <2>1, <2>2 DEF CaseResults
<1>8. cases' = [cases EXCEPT ![e] = results]
  BY <1>1 DEF case
<1> HIDE DEF results, old
<1>9. /\ elapsed' \in [Engines -> Nat]
      /\ limit' \in [Engines -> Nat]
      /\ \A d \in Engines : elapsed'[d] + limit'[d] <= Global
      /\ limit'[e] = 0 /\ \A d \in Engines : d # e => limit'[d] = limit[d]
  BY <1>0, <1>1, TimeOfProcess
<1>10. /\ \A d \in Engines : d # e => /\ pc'[d] = pc[d] /\ status'[d] = status[d]
                                     /\ blame'[d] = blame[d] /\ cases'[d] = cases[d]
       /\ cases'[e] = results
       /\ \/ /\ pc'[e] = "done" /\ status'[e] = "SYSERR"
             /\ evidence.stop = "cancelled" \/ CutOff(e, evidence)
          \/ /\ evidence.stop # "cancelled" /\ ~CutOff(e, evidence)
             /\ evidence.stop = "launch_error" \/ Len(results) = Tests
             /\ pc'[e] = "done" /\ status'[e] = summarize_cases(results) /\ blame'[e] = "none"
          \/ /\ evidence.stop \notin {"cancelled", "launch_error"} /\ ~CutOff(e, evidence)
             /\ Len(results) < Tests /\ pc'[e] = "cases"
  BY <1>0, <1>6, <1>8 DEF EngineType
<1>11. EngineType'
  <2>1. pc' \in [Engines -> {"start", "gate", "permit", "compiling", "cases", "running", "done"}]
    <3>1. pc' = [pc EXCEPT ![e] = "done"] \/ pc' = [pc EXCEPT ![e] = "cases"]
      BY <1>6
    <3> QED BY <1>0, <3>1 DEF EngineType
  <2>2. status' \in [Engines -> Statuses \cup {"none"}]
    BY <1>0, <1>6, <1>7 DEF EngineType, Statuses
  <2>3. blame' \in [Engines -> {"none", "service", "compiler"}]
    BY <1>0, <1>6 DEF EngineType
  <2>4. cases' \in [Engines -> Seq(CaseResults)]
    BY <1>0, <1>4, <1>8 DEF EngineType
  <2> QED BY <1>0, <1>9, <2>1, <2>2, <2>3, <2>4 DEF EngineType
<1>12. PermitInv'
  <2>1. Holders' = Holders
    BY <1>0, <1>10 DEF Holders
  <2> QED BY <1>0, <2>1 DEF EngineInv, PermitInv
<1>13. TimeInv'
  BY <1>0, <1>9, <1>10 DEF TimeInv
<1>14. LoopInv'
  BY <1>0, <1>2, <1>5, <1>10 DEF LoopInv
<1>15. DoneInv'
  <2>1. CASE pc'[e] = "done" /\ status'[e] = "SYSERR" /\ (evidence.stop = "cancelled" \/ CutOff(e, evidence))
    <3>1. \E i \in DOMAIN results : ~results[i].clean
      BY <2>1, <1>2, <1>4, <1>5
    <3> QED BY <1>0, <1>5, <1>10, <2>1, <3>1 DEF DoneInv
  <2>2. CASE /\ evidence.stop # "cancelled" /\ ~CutOff(e, evidence)
             /\ evidence.stop = "launch_error" \/ Len(results) = Tests
             /\ pc'[e] = "done" /\ status'[e] = summarize_cases(results) /\ blame'[e] = "none"
    <3>1. \/ Len(results) = Tests /\ \A i \in DOMAIN results : results[i].left_alone
          \/ \E i \in DOMAIN results : results[i].status = "SYSERR"
      BY <2>2, <1>2, <1>4, <1>5
    <3>2. status'[e] = summarize_cases(cases'[e])
      BY <1>10, <2>2
    <3> QED BY <1>0, <1>5, <1>10, <2>2, <3>1, <3>2 DEF DoneInv
  <2>3. CASE pc'[e] = "cases"
    BY <1>0, <1>5, <1>10, <2>3 DEF DoneInv
  <2> QED BY <1>10, <2>1, <2>2, <2>3
<1> QED BY <1>11, <1>12, <1>13, <1>14, <1>15 DEF EngineInv

-----------------------------------------------------------------------------
\* Every step of every engine, a cancellation and the clock keep EngineInv.
LEMMA EngineNextInv == EngineInv /\ [EngineNext]_engineVars => EngineInv'
<1> SUFFICES ASSUME EngineInv, [EngineNext]_engineVars PROVE EngineInv'
  OBVIOUS
<1>1. CASE UNCHANGED engineVars
  BY <1>1 DEF engineVars, EngineInv, EngineType, PermitInv, Holders, TimeInv, LoopInv, CaseInv, DoneInv
<1>2. ASSUME NEW e \in Engines, Step(e) \/ Cancel(e) PROVE EngineInv'
  BY <1>2, BeginStep, AcquireStep, WaitStep, LaunchStep, CompiledStep, NextCaseStep, RanStep DEF Step
<1> QED BY <1>1, <1>2 DEF EngineNext

\* The invariant of the judges: the permits that are out, the time that is left, what
\* has run so far and how it came that a judge is done (judge.cpp, compile_gate.cpp).
THEOREM EngineInvariant == EngineSpec => []EngineInv
  BY EngineInitInv, EngineNextInv, PTL DEF EngineSpec

\* No way out of judge() loses a permit of the gate or gives one back twice.
THEOREM PermitsAreAccounted == EngineSpec => []PermitsAccounted
<1>1. EngineInv => PermitsAccounted
  <2> SUFFICES ASSUME EngineInv PROVE PermitsAccounted
    OBVIOUS
  <2>1. EngineTypeOK
    BY DEF EngineInv, EngineType, DoneInv, EngineTypeOK
  <2> QED BY <2>1 DEF EngineInv, PermitInv, Holders, PermitsAccounted
<1> QED BY <1>1, EngineInvariant, PTL

\* However waiting, compiling and the test cases add up, the global limit is kept.
THEOREM GlobalLimitIsKept == EngineSpec => []WithinGlobalLimit
<1>1. EngineInv => WithinGlobalLimit
  BY EngineAssumption DEF EngineInv, EngineType, TimeInv, WithinGlobalLimit
<1> QED BY <1>1, EngineInvariant, PTL

\* What the service does is never blamed on the program, for any number of test
\* cases and any relation of the limits.
THEOREM BlameIsAlwaysDue == EngineSpec => []BlameIsDue
<1>1. EngineInv => BlameIsDue
  <2> SUFFICES ASSUME EngineInv, NEW e \in Engines, Judged(e)
               PROVE  /\ status[e] \notin {"SYSERR", "CE"} =>
                            Len(cases[e]) = Tests /\ \A i \in DOMAIN cases[e] : cases[e][i].left_alone
                      /\ status[e] = "TLE" => \E i \in DOMAIN cases[e] : cases[e][i].full
                      /\ status[e] = "CE" => blame[e] = "compiler"
    BY DEF BlameIsDue
  <2>1. CASE status[e] \in {"SYSERR", "CE"} /\ (status[e] = "CE" => blame[e] = "compiler")
    BY <2>1
  <2>2. CASE /\ cases[e] # <<>> /\ status[e] = summarize_cases(cases[e])
             /\ \/ Len(cases[e]) = Tests /\ \A i \in DOMAIN cases[e] : cases[e][i].left_alone
                \/ \E i \in DOMAIN cases[e] : cases[e][i].status = "SYSERR"
    <3>1. cases[e] \in Seq(CaseResults)
      BY DEF EngineInv, EngineType
    <3>2. PICK i \in DOMAIN cases[e] : status[e] = cases[e][i].status
      BY <2>2, <3>1, SummarizeIsWorst
    <3>3. CaseInv(cases[e][i]) /\ cases[e][i].status \in Statuses
      <4>1. cases[e][i] \in CaseResults
        BY <3>1, ElementOfSeq, LenProperties
      <4> QED BY <4>1 DEF EngineInv, LoopInv, CaseResults
    <3>4. (\E j \in DOMAIN cases[e] : cases[e][j].status = "SYSERR") => status[e] = "SYSERR"
      <4> SUFFICES ASSUME NEW j \in DOMAIN cases[e], cases[e][j].status = "SYSERR"
                   PROVE  status[e] = "SYSERR"
        OBVIOUS
      <4>1. severity["SYSERR"] <= severity[status[e]]
        BY <2>2, <3>1, SummarizeIsWorst
      <4> QED BY <3>2, <3>3, <4>1, SeverityValues DEF Statuses, CaseInv
    <3> QED BY <2>2, <3>2, <3>3, <3>4 DEF CaseInv
  <2> QED BY <2>1, <2>2 DEF EngineInv, DoneInv, Judged
<1> QED BY <1>1, EngineInvariant, PTL

-----------------------------------------------------------------------------
(* The comparator: what normalize_output keeps.                            *)

\* r is s without the unwanted elements at its end.
IsStripped(r, s, U, S) ==
    /\ r \in Seq(S) /\ Len(r) \in Nat /\ Len(s) \in Nat /\ Len(r) <= Len(s)
    /\ \A i \in 1..Len(r) : r[i] = s[i]
    /\ Len(r) # 0 => s[Len(r)] \notin U
    /\ \A i \in 1..Len(s) : s[i] \notin U => i <= Len(r)

\* The pop_back loops of normalize_output leave such an r.
LEMMA StrippedIs ==
    ASSUME NEW S, NEW s, Chars(s, S), NEW U
    PROVE  IsStripped(Stripped(s, U), s, U, S)
  <1>. DEFINE n == Len(s)
              K == {i \in 1..n : s[i] \notin U}
              m == Max(K)
              r == SubSeq(s, 1, m)
  <1>1. n \in Nat /\ DOMAIN s = 1..n  BY LenProperties DEF Chars
  <1>2. Stripped(s, U) = IF K = {} THEN <<>> ELSE r  BY <1>1 DEF Stripped
  <1>3. CASE K = {}
    <2>1. Stripped(s, U) = <<>>  BY <1>2, <1>3
    <2>2. \A i \in 1..n : s[i] \in U  BY <1>3
    <2>3. <<>> \in Seq(S) /\ Len(<<>>) = 0  BY EmptySeq
    <2>4. IsStripped(<<>>, s, U, S)
      <3>. DEFINE none == <<>>
      <3>1. none \in Seq(S) /\ Len(none) = 0  BY <2>3
      <3>. HIDE DEF none
      <3>2. IsStripped(none, s, U, S)
        <4>. HIDE DEF K, m
        <4>1. 1..Len(none) = {} /\ 0 <= Len(s)  BY <1>1, <3>1
        <4>. QED  BY <1>1, <2>2, <3>1, <4>1 DEF IsStripped
      <3>. QED  BY <3>2 DEF none
    <2>. QED  BY <2>1, <2>4
  <1>4. CASE K # {}
    <2>1. m \in K /\ \A i \in K : i <= m
      <3>1. K \in SUBSET Int /\ n \in Int /\ \A i \in K : i <= n
        <4>. HIDE DEF n
        <4>. QED  BY <1>1
      <3>. HIDE DEF K, n
      <3>. QED  BY <1>4, <3>1, MaxIs
    <2>2. \A i \in K : i \in 1..n /\ s[i] \notin U  OBVIOUS
    <2>3. \A i \in 1..n : s[i] \notin U => i \in K  OBVIOUS
    <2>. HIDE DEF K, m, n
    <2>4. m \in 1..n /\ s[m] \notin U  BY <2>1, <2>2
    <2>5. m \in Nat /\ m <= n /\ m # 0 /\ 1 \in Int /\ m \in Int  BY <1>1, <2>4
    <2>6. \A i \in 1..m : s[i] \in S
      <3>1. \A i \in 1..m : i \in 1..n  BY <1>1, <2>5
      <3>. QED  BY <3>1, ElementOfSeq DEF Chars, n
    <2>7. r \in Seq(S) /\ Len(r) = m /\ \A i \in 1..m : r[i] = s[i]
      <3>1. /\ r \in Seq(S)
            /\ Len(r) = IF 1 <= m THEN m - 1 + 1 ELSE 0
            /\ \A i \in 1..(m - 1 + 1) : r[i] = s[1 + i - 1]
        BY <2>5, <2>6, SubSeqProperties
      <3>2. 1 <= m /\ m - 1 + 1 = m  BY <2>5
      <3>3. \A i \in 1..m : 1 + i - 1 = i  BY <2>5
      <3>. HIDE DEF r
      <3>. QED  BY <3>1, <3>2, <3>3
    <2>. HIDE DEF r
    <2>8. \A i \in 1..n : s[i] \notin U => i <= m  BY <2>1, <2>3
    <2>9. IsStripped(r, s, U, S)  BY <1>1, <2>4, <2>5, <2>7, <2>8 DEF IsStripped, n
    <2>. QED  BY <1>2, <1>4, <2>9
  <1>. QED  BY <1>3, <1>4

\* The lines up to the last that is not empty.
Kept(t) == Stripped(Lines(t), {<<>>})

\* The last line, if there is one, is not empty.
EndsWithInk(K) == Len(K) # 0 => Len(K[Len(K)]) # 0

\* What is kept of line k of a text.
KeptRow(t, K, k) ==
    /\ k \in DOMAIN Pieces(t, "\n")
    /\ Len(K[k]) \in Nat /\ Len(Pieces(t, "\n")[k]) \in Nat /\ Len(K[k]) <= Len(Pieces(t, "\n")[k])
    /\ \A c \in 1..Len(K[k]) : K[k][c] = Pieces(t, "\n")[k][c]
    /\ Len(K[k]) # 0 => Pieces(t, "\n")[k][Len(K[k])] # " "

\* No kept line has a newline or ends with a blank, the last one is not empty, and no
\* character other than a blank is lost.
LEMMA KeptIs ==
    ASSUME NEW C, NEW t, Chars(t, C)
    PROVE  /\ Text(Kept(t), C \ {"\n"})
           /\ EndsWithInk(Kept(t))
           /\ \A k \in 1..Len(Kept(t)) : KeptRow(t, Kept(t), k)
           /\ \A k \in DOMAIN Pieces(t, "\n") : \A c \in 1..Len(Pieces(t, "\n")[k]) :
                  Pieces(t, "\n")[k][c] # " " => k \in 1..Len(Kept(t)) /\ c <= Len(Kept(t)[k])
  <1>. DEFINE D == C \ {"\n"}
              m == Cardinality(Cuts(t, "\n")) - 1
              K == Kept(t)
              line(k) == Pieces(t, "\n")[k]
              row(k) == Stripped(line(k), {" "})
              S == Seq(D)
  <1>1. m \in Nat \ {0} /\ DOMAIN Pieces(t, "\n") = 1..m /\ \A k \in 1..m : line(k) \in Seq(C)
    <2>1. PiecesOf(t, "\n", C)  BY PiecesAre
    <2>. QED  BY <2>1 DEF PiecesOf
  <1>2. Lines(t) = [k \in 1..m |-> row(k)]  BY <1>1 DEF Lines, is_trailing_whitespace
  <1>4. \A k \in 1..m : line(k) \in Seq(D)
    <2>1. Pieces(t, "\n") \in Seq(Seq(D))  BY PiecesUnmarked DEF Text
    <2>. DEFINE P == Pieces(t, "\n")
    <2>2. P \in Seq(Seq(D)) /\ DOMAIN P = 1..m  BY <1>1, <2>1
    <2>. HIDE DEF P, D, m
    <2>3. \A k \in 1..m : P[k] \in Seq(D)  BY <2>2, ElementOfSeq, LenProperties
    <2>. QED  BY <2>3 DEF P
  <1>5. \A k \in 1..m : IsStripped(row(k), line(k), {" "}, D)
    <2>1. SUFFICES ASSUME NEW k \in 1..m PROVE IsStripped(row(k), line(k), {" "}, D)  OBVIOUS
    <2>2. Chars(line(k), D)  BY <1>4 DEF Chars
    <2>. HIDE DEF D
    <2>. QED  BY <2>2, StrippedIs
  <1>. HIDE DEF D, row, m
  <1>6. \A k \in 1..m : row(k) \in S  BY <1>5 DEF IsStripped
  <1>7. Lines(t) \in Seq(S) /\ Len(Lines(t)) = m /\ \A k \in 1..m : Lines(t)[k] = row(k)
    <2>1. Lines(t) \in [1..m -> S] /\ \A k \in 1..m : Lines(t)[k] = row(k)  BY <1>2, <1>6
    <2>. HIDE DEF S
    <2>2. m \in Nat  BY <1>1
    <2>3. Lines(t) \in Seq(S)  BY <2>1, <2>2, SeqDef
    <2>. QED  BY <2>1, <2>2, <2>3, LenProperties
  <1>8. IsStripped(K, Lines(t), {<<>>}, S)
    <2>1. Chars(Lines(t), S)  BY <1>7 DEF Chars
    <2>. HIDE DEF S
    <2>. QED  BY <2>1, StrippedIs DEF Kept
  <1>9. Text(K, D)  BY <1>8 DEF IsStripped, Text
  <1>. DEFINE n == Len(K)
  <1>. HIDE DEF K
  <1>10. /\ n \in Nat /\ n <= m
         /\ \A k \in 1..n : k \in 1..m /\ K[k] = row(k)
         /\ n # 0 => row(n) # <<>>
         /\ \A k \in 1..m : row(k) # <<>> => k \in 1..n
    <2>1. /\ n \in Nat /\ n <= m
          /\ \A k \in 1..n : K[k] = Lines(t)[k]
          /\ n # 0 => Lines(t)[n] \notin {<<>>}
          /\ \A k \in 1..m : Lines(t)[k] \notin {<<>>} => k <= n
      BY <1>7, <1>8 DEF IsStripped
    <2>. HIDE DEF n
    <2>2. \A k \in 1..n : k \in 1..m  BY <1>1, <2>1
    <2>3. n # 0 => n \in 1..m  BY <1>1, <2>1
    <2>4. \A k \in 1..m : k <= n => k \in 1..n  BY <1>1, <2>1
    <2>. QED  BY <1>7, <2>1, <2>2, <2>3, <2>4
  <1>11. EndsWithInk(K)
    <2>1. SUFFICES ASSUME n # 0 PROVE Len(K[n]) # 0  BY DEF EndsWithInk
    <2>2. n \in 1..n
      <3>. HIDE DEF n
      <3>. QED  BY <1>10, <2>1
    <2>3. K[n] = row(n) /\ row(n) # <<>> /\ row(n) \in S
      <3>. HIDE DEF n, S
      <3>. QED  BY <1>6, <1>10, <2>1, <2>2
    <2>. QED  BY <2>3, EmptySeq
  <1>12. ASSUME NEW k \in 1..n PROVE KeptRow(t, K, k)
    <2>1. k \in 1..m /\ K[k] = row(k)  BY <1>10
    <2>2. IsStripped(K[k], Pieces(t, "\n")[k], {" "}, D)  BY <1>5, <2>1
    <2>. QED  BY <1>1, <2>1, <2>2 DEF IsStripped, KeptRow
  <1>13. ASSUME NEW k \in 1..m, NEW c \in 1..Len(Pieces(t, "\n")[k]), Pieces(t, "\n")[k][c] # " "
         PROVE  k \in 1..n /\ c <= Len(K[k])
    <2>1. IsStripped(row(k), Pieces(t, "\n")[k], {" "}, D)  BY <1>5
    <2>2. c <= Len(row(k)) /\ Len(row(k)) \in Nat  BY <1>13, <2>1 DEF IsStripped
    <2>3. row(k) # <<>>
      <3>1. SUFFICES ASSUME row(k) = <<>> PROVE FALSE  OBVIOUS
      <3>2. Len(row(k)) = 0  BY <3>1
      <3>3. c \in Nat /\ c # 0
        <4>. DEFINE z == Len(Pieces(t, "\n")[k])
        <4>1. z \in Nat /\ c \in 1..z  BY <2>1 DEF IsStripped
        <4>. HIDE DEF z
        <4>. QED  BY <4>1
      <3>. QED  BY <2>2, <3>2, <3>3
    <2>4. k \in 1..n /\ K[k] = row(k)  BY <1>10, <2>3
    <2>. QED  BY <2>2, <2>4
  <1>. QED  BY <1>1, <1>9, <1>11, <1>12, <1>13 DEF K, D

-----------------------------------------------------------------------------
(* What a reader sees.                                                     *)

\* A reader sees the kept lines: character x in column c of line k.
Sees(K, k, c, x) == k \in 1..Len(K) /\ c \in 1..Len(K[k]) /\ x = K[k][c]

\* What a reader sees of the text is seen of the kept lines.
LEMMA SeenIsKept ==
    ASSUME NEW C, NEW t, Chars(t, C), NEW v, v \in Visible(t)
    PROVE  \E k \in Nat : \E c \in Nat : \E x : v = <<k - 1, c, x>> /\ Sees(Kept(t), k, c, x)
  <1>. DEFINE K == Kept(t)
  <1>1. PICK i \in DOMAIN t :
          /\ v = <<PieceAt(t, "\n", i), PlaceAt(t, "\n", i), t[i]>>
          /\ t[i] # "\n"
          /\ \E j \in i..Len(t) : t[j] \notin {" ", "\n"} /\ PieceAt(t, "\n", j) = PieceAt(t, "\n", i)
    BY DEF Visible, PieceAt, PlaceAt
  <1>2. PICK j \in i..Len(t) : t[j] \notin {" ", "\n"} /\ PieceAt(t, "\n", j) = PieceAt(t, "\n", i)  BY <1>1
  <1>. DEFINE z == Len(t)
              k == PieceAt(t, "\n", i) + 1
              c == PlaceAt(t, "\n", i)
              d == PlaceAt(t, "\n", j)
  <1>3. z \in Nat /\ DOMAIN t = 1..z  BY LenProperties DEF Chars
  <1>4. i \in 1..z /\ j \in 1..z /\ i <= j /\ i \in Int /\ j \in Int
    <2>. HIDE DEF z
    <2>1. i \in 1..z /\ j \in i..z  BY <1>3 DEF z
    <2>. QED  BY <1>3, <2>1
  <1>5. Cell(t, "\n", i, k, c)  BY <1>1, <1>4, CellOfCharacter
  <1>6. Cell(t, "\n", j, k, d)
    <2>1. Cell(t, "\n", j, PieceAt(t, "\n", j) + 1, d)  BY <1>2, <1>4, CellOfCharacter
    <2>. QED  BY <1>2, <2>1
  <1>7. PieceAt(t, "\n", i) \in Nat  BY <1>4, CutsBefore
  <1>8. k \in Nat /\ k - 1 = PieceAt(t, "\n", i)  BY <1>7
  <1>. HIDE DEF k, c, d, K
  <1>9. k \in DOMAIN Pieces(t, "\n") /\ d \in 1..Len(Pieces(t, "\n")[k]) /\ Pieces(t, "\n")[k][d] # " "  BY <1>2, <1>6 DEF Cell
  <1>10. k \in 1..Len(K) /\ d <= Len(K[k])  BY <1>9, KeptIs DEF K
  <1>11. KeptRow(t, K, k)  BY <1>10, KeptIs DEF K
  <1>. DEFINE a == Nth(Cuts(t, "\n"), k - 1)
              n == Len(Pieces(t, "\n")[k])
              m == Len(K[k])
  <1>12. i = a + c /\ j = a + d /\ c \in 1..n /\ d \in 1..n  BY <1>5, <1>6 DEF Cell
  <1>13. n \in Nat /\ m \in Nat /\ d <= m /\ \A x \in 1..m : K[k][x] = Pieces(t, "\n")[k][x]  BY <1>10, <1>11 DEF KeptRow
  <1>14. a \in Int
    <2>1. PiecesOf(t, "\n", C)  BY PiecesAre
    <2>2. k \in 1..(Cardinality(Cuts(t, "\n")) - 1)  BY <1>9, <2>1 DEF PiecesOf
    <2>. QED  BY <2>1, <2>2 DEF PiecesOf
  <1>. HIDE DEF a, n, m
  <1>15. c \in 1..m /\ c \in Nat  BY <1>4, <1>12, <1>13, <1>14
  <1>16. K[k][c] = t[i]  BY <1>5, <1>13, <1>15 DEF Cell
  <1>17. Sees(K, k, c, t[i])  BY <1>10, <1>15, <1>16 DEF Sees, m
  <1>18. v = <<k - 1, c, t[i]>>  BY <1>1, <1>8 DEF c
  <1>. QED  BY <1>8, <1>15, <1>17, <1>18 DEF K

\* What is seen of the kept lines, a reader sees of the text.
LEMMA KeptIsSeen ==
    ASSUME NEW C, NEW t, Chars(t, C), NEW k, NEW c, NEW x, Sees(Kept(t), k, c, x)
    PROVE  k \in Nat /\ c \in Nat /\ <<k - 1, c, x>> \in Visible(t)
  <1>. DEFINE K == Kept(t)
              n == Len(Pieces(t, "\n")[k])
              m == Len(K[k])
              z == Len(t)
              w == Len(K)
  <1>1. k \in 1..w /\ c \in 1..m /\ x = K[k][c]  BY DEF Sees
  <1>2. KeptRow(t, K, k)  BY <1>1, KeptIs
  <1>3. k \in DOMAIN Pieces(t, "\n") /\ n \in Nat /\ m \in Nat /\ m <= n
        /\ (\A y \in 1..m : K[k][y] = Pieces(t, "\n")[k][y]) /\ (m # 0 => Pieces(t, "\n")[k][m] # " ")
    BY <1>2 DEF KeptRow
  <1>. HIDE DEF K, n, m, w, z
  <1>4. c \in 1..n /\ m \in 1..n /\ m # 0 /\ c \in Nat /\ c <= m
    <2>1. c \in 1..m /\ m \in Nat /\ n \in Nat /\ m <= n  BY <1>1, <1>3
    <2>2. c \in Nat /\ 1 <= c /\ c <= m  BY <2>1
    <2>. QED  BY <2>1, <2>2
  <1>5. PICK i \in 1..z : Cell(t, "\n", i, k, c)  BY <1>3, <1>4, CharacterOfCell DEF n, z
  <1>6. PICK j \in 1..z : Cell(t, "\n", j, k, m)  BY <1>3, <1>4, CharacterOfCell DEF n, z
  <1>. DEFINE a == Nth(Cuts(t, "\n"), k - 1)
  <1>7. i = a + c /\ j = a + m /\ PieceAt(t, "\n", i) = k - 1 /\ PieceAt(t, "\n", j) = k - 1 /\ PlaceAt(t, "\n", i) = c
        /\ t[i] = Pieces(t, "\n")[k][c] /\ t[j] = Pieces(t, "\n")[k][m] /\ t[i] # "\n" /\ t[j] # "\n"
    BY <1>5, <1>6 DEF Cell
  <1>8. k \in 1..(Cardinality(Cuts(t, "\n")) - 1) /\ Cardinality(Cuts(t, "\n")) - 1 \in Nat /\ a \in Int
    <2>1. PiecesOf(t, "\n", C)  BY PiecesAre
    <2>2. k \in 1..(Cardinality(Cuts(t, "\n")) - 1) /\ Cardinality(Cuts(t, "\n")) - 1 \in Nat  BY <1>3, <2>1 DEF PiecesOf
    <2>3. a \in Nat  BY <2>1, <2>2 DEF PiecesOf
    <2>. QED  BY <2>2, <2>3
  <1>9. k \in Nat  BY <1>8
  <1>. HIDE DEF a
  <1>10. z \in Nat /\ DOMAIN t = 1..z  BY LenProperties DEF Chars, z
  <1>11. j \in i..z
    <2>0. z \in Nat  BY <1>10
    <2>1. i \in Int /\ j \in Int /\ j <= z  BY <2>0
    <2>2. i <= j
      <3>1. a \in Int  BY <1>8
      <3>2. i = a + c /\ j = a + m  BY <1>7
      <3>0. m \in Nat  BY <1>3
      <3>3. m \in Int  BY <3>0
      <3>4. c \in Int /\ c <= m  BY <1>4
      <3>. QED  BY <3>1, <3>2, <3>3, <3>4
    <2>. QED  BY <1>10, <2>1, <2>2
  <1>12. t[j] \notin {" ", "\n"}  BY <1>3, <1>4, <1>7
  <1>13. x = t[i]  BY <1>1, <1>3, <1>7
  <1>14. <<PieceAt(t, "\n", i), PlaceAt(t, "\n", i), t[i]>> \in Visible(t)
    <2>1. i \in DOMAIN t /\ t[i] # "\n" /\ \E y \in i..Len(t) : t[y] \notin {" ", "\n"} /\ PieceAt(t, "\n", y) = PieceAt(t, "\n", i)
      BY <1>7, <1>10, <1>11, <1>12 DEF z
    <2>. QED  BY <2>1 DEF Visible, PieceAt, PlaceAt
  <1>. QED  BY <1>4, <1>7, <1>9, <1>13, <1>14

\* If all that is seen of K is seen of M, then K has no more lines than M and no longer ones.
LEMMA SeenWithin ==
    ASSUME NEW C, NEW K, NEW M, Text(K, C), Text(M, C), EndsWithInk(K),
           \A k, c, x : Sees(K, k, c, x) => Sees(M, k, c, x)
    PROVE  /\ Len(K) <= Len(M)
           /\ \A k \in 1..Len(K) : /\ Len(K[k]) \in Nat /\ Len(K[k]) <= Len(M[k])
                                   /\ \A c \in 1..Len(K[k]) : K[k][c] = M[k][c]
  <1>. DEFINE n == Len(K)
              m == Len(M)
              LenK(k) == Len(K[k])
              LenM(k) == Len(M[k])
  <1>1. n \in Nat /\ m \in Nat  BY LenProperties DEF Text
  <1>2. \A k \in 1..n : LenK(k) \in Nat  BY LenProperties, ElementOfSeq DEF Text
  <1>3. \A k \in 1..m : LenM(k) \in Nat  BY LenProperties, ElementOfSeq DEF Text
  <1>4. n # 0 => LenK(n) # 0  BY DEF EndsWithInk
  <1>5. \A k \in 1..n : \A c \in 1..LenK(k) : k \in 1..m /\ c \in 1..LenM(k) /\ K[k][c] = M[k][c]
    <2>1. SUFFICES ASSUME NEW k \in 1..n, NEW c \in 1..LenK(k)
          PROVE k \in 1..m /\ c \in 1..LenM(k) /\ K[k][c] = M[k][c]
      OBVIOUS
    <2>2. Sees(K, k, c, K[k][c])  BY DEF Sees
    <2>3. Sees(M, k, c, K[k][c])  BY <2>2
    <2>. QED  BY <2>3 DEF Sees
  <1>. HIDE DEF n, m, LenK, LenM
  <1>6. n <= m
    <2>1. CASE n = 0  BY <1>1, <2>1
    <2>2. CASE n # 0
      <3>1. n \in 1..n  BY <1>1, <2>2
      <3>2. LenK(n) \in 1..LenK(n)  BY <1>2, <1>4, <2>2, <3>1
      <3>3. n \in 1..m  BY <1>5, <3>1, <3>2
      <3>. QED  BY <1>1, <3>3
    <2>. QED  BY <2>1, <2>2
  <1>7. ASSUME NEW k \in 1..n PROVE LenK(k) <= LenM(k)
    <2>1. k \in 1..m  BY <1>1, <1>6
    <2>2. LenK(k) \in Nat /\ LenM(k) \in Nat  BY <1>2, <1>3, <2>1
    <2>3. CASE LenK(k) = 0  BY <2>2, <2>3
    <2>4. CASE LenK(k) # 0
      <3>1. LenK(k) \in 1..LenK(k)  BY <2>2, <2>4
      <3>2. LenK(k) \in 1..LenM(k)  BY <1>5, <3>1
      <3>. QED  BY <2>2, <3>2
    <2>. QED  BY <2>3, <2>4
  <1>. QED  BY <1>2, <1>5, <1>6, <1>7 DEF n, m, LenK, LenM

\* Texts that look the same have the same kept lines.
LEMMA SeenOnce ==
    ASSUME NEW C, NEW K, NEW M, Text(K, C), Text(M, C), EndsWithInk(K), EndsWithInk(M),
           \A k, c, x : Sees(K, k, c, x) <=> Sees(M, k, c, x)
    PROVE  K = M
  <1>. DEFINE n == Len(K)
              m == Len(M)
  <1>1. n \in Nat /\ m \in Nat  BY LenProperties DEF Text
  <1>2. n <= m /\ \A k \in 1..n : /\ Len(K[k]) \in Nat /\ Len(K[k]) <= Len(M[k])
                                  /\ \A c \in 1..Len(K[k]) : K[k][c] = M[k][c]
    BY SeenWithin
  <1>3. m <= n /\ \A k \in 1..m : Len(M[k]) \in Nat /\ Len(M[k]) <= Len(K[k])
    BY SeenWithin
  <1>4. n = m
    <2>. HIDE DEF n, m
    <2>. QED  BY <1>1, <1>2, <1>3
  <1>5. ASSUME NEW k \in 1..n PROVE K[k] = M[k]
    <2>1. K[k] \in Seq(C) /\ M[k] \in Seq(C)  BY <1>4, ElementOfSeq DEF Text
    <2>. DEFINE a == Len(K[k])
                b == Len(M[k])
    <2>2. a \in Nat /\ b \in Nat /\ a <= b /\ b <= a /\ \A c \in 1..a : K[k][c] = M[k][c]
      <3>. HIDE DEF n, m
      <3>. QED  BY <1>2, <1>3, <1>4
    <2>3. a = b
      <3>. HIDE DEF a, b
      <3>. QED  BY <2>2
    <2>. QED  BY <2>1, <2>2, <2>3, SeqEqual
  <1>. QED  BY <1>4, <1>5, SeqEqual DEF Text

-----------------------------------------------------------------------------
(* normalize_output and outputs_match.                                     *)

\* Joined lines can be told apart: no two lists of kept lines give the same output.
LEMMA JoinedOnce ==
    ASSUME NEW C, "\n" \notin C, NEW K, NEW M, Text(K, C), Text(M, C), EndsWithInk(K), EndsWithInk(M),
           Joined(K, "\n") = Joined(M, "\n")
    PROVE  K = M
  <1>1. ASSUME NEW L, Text(L, C), L # <<>> PROVE Pieces(Joined(L, "\n"), "\n") = L
    BY <1>1, PiecesOfJoined DEF Text
  <1>2. ASSUME NEW L, Text(L, C), EndsWithInk(L), L # <<>> PROVE Joined(L, "\n") # <<>>
    <2>1. SUFFICES ASSUME Joined(L, "\n") = <<>> PROVE FALSE  OBVIOUS
    <2>2. L = <<<<>>>>  BY <1>1, <1>2, <2>1, PiecesOfEmpty
    <2>3. Len(L) = 1 /\ Len(L[1]) = 0  BY <2>2
    <2>. QED  BY <1>2, <2>3 DEF EndsWithInk
  <1>3. Joined(<<>>, "\n") = <<>>  BY DEF Joined
  <1>4. CASE K = <<>>  BY <1>2, <1>3, <1>4
  <1>5. CASE M = <<>>  BY <1>2, <1>3, <1>5
  <1>6. CASE K # <<>> /\ M # <<>>  BY <1>1, <1>6
  <1>. QED  BY <1>4, <1>5, <1>6

\* normalize_output joins what is kept.
LEMMA NormalizedIs ==
    ASSUME NEW t
    PROVE  normalize_output(t) = Joined(Kept(t), "\n")
  BY DEF normalize_output, Kept

\* outputs_match says "equal" exactly when a reader cannot tell the two outputs apart,
\* whatever their length and their characters: blanks at the ends of lines and empty lines
\* at the end are all that normalize_output forgets (judge/comparator.cpp).
THEOREM OutputsMatchAsSeen ==
    ASSUME NEW C, NEW expected \in Seq(C), NEW actual \in Seq(C)
    PROVE  outputs_match(expected, actual) <=> Visible(expected) = Visible(actual)
  <1>. DEFINE K == Kept(expected)
              M == Kept(actual)
              D == C \ {"\n"}
  <1>1. Chars(expected, C) /\ Chars(actual, C)  BY DEF Chars
  <1>2. Text(K, D) /\ EndsWithInk(K) /\ Text(M, D) /\ EndsWithInk(M)
    <2>1. Text(K, D) /\ EndsWithInk(K)  BY <1>1, KeptIs
    <2>2. Text(M, D) /\ EndsWithInk(M)  BY <1>1, KeptIs
    <2>. QED  BY <2>1, <2>2
  <1>3. outputs_match(expected, actual) <=> Joined(K, "\n") = Joined(M, "\n")
    <2>1. normalize_output(expected) = Joined(K, "\n")  BY NormalizedIs
    <2>2. normalize_output(actual) = Joined(M, "\n")  BY NormalizedIs
    <2>. QED  BY <2>1, <2>2 DEF outputs_match
  <1>4. ASSUME Joined(K, "\n") = Joined(M, "\n") PROVE K = M
    <2>1. "\n" \notin D  OBVIOUS
    <2>. HIDE DEF K, M, D
    <2>. QED  BY <1>2, <1>4, <2>1, JoinedOnce
  <1>5. ASSUME K = M PROVE Visible(expected) = Visible(actual)
    <2>1. ASSUME NEW v, v \in Visible(expected) PROVE v \in Visible(actual)
      <3>1. PICK k \in Nat : \E c \in Nat : \E x : v = <<k - 1, c, x>> /\ Sees(K, k, c, x)
        BY <1>1, <2>1, SeenIsKept
      <3>2. PICK c \in Nat : \E x : v = <<k - 1, c, x>> /\ Sees(K, k, c, x)  BY <3>1
      <3>3. PICK x : v = <<k - 1, c, x>> /\ Sees(K, k, c, x)  BY <3>2
      <3>4. Sees(M, k, c, x)
        <4>. HIDE DEF K, M
        <4>. QED  BY <1>5, <3>3
      <3>5. <<k - 1, c, x>> \in Visible(actual)  BY <1>1, <3>4, KeptIsSeen
      <3>. QED  BY <3>3, <3>5
    <2>2. ASSUME NEW v, v \in Visible(actual) PROVE v \in Visible(expected)
      <3>1. PICK k \in Nat : \E c \in Nat : \E x : v = <<k - 1, c, x>> /\ Sees(M, k, c, x)
        BY <1>1, <2>2, SeenIsKept
      <3>2. PICK c \in Nat : \E x : v = <<k - 1, c, x>> /\ Sees(M, k, c, x)  BY <3>1
      <3>3. PICK x : v = <<k - 1, c, x>> /\ Sees(M, k, c, x)  BY <3>2
      <3>4. Sees(K, k, c, x)
        <4>. HIDE DEF K, M
        <4>. QED  BY <1>5, <3>3
      <3>5. <<k - 1, c, x>> \in Visible(expected)  BY <1>1, <3>4, KeptIsSeen
      <3>. QED  BY <3>3, <3>5
    <2>. QED  BY <2>1, <2>2
  <1>6. ASSUME Visible(expected) = Visible(actual) PROVE K = M
    <2>1. ASSUME NEW k, NEW c, NEW x, Sees(K, k, c, x) PROVE Sees(M, k, c, x)
      <3>1. k \in Nat /\ c \in Nat /\ <<k - 1, c, x>> \in Visible(actual)  BY <1>1, <1>6, <2>1, KeptIsSeen
      <3>2. PICK k1 \in Nat : \E c1 \in Nat : \E x1 : <<k - 1, c, x>> = <<k1 - 1, c1, x1>> /\ Sees(M, k1, c1, x1)
        BY <1>1, <3>1, SeenIsKept
      <3>3. PICK c1 \in Nat : \E x1 : <<k - 1, c, x>> = <<k1 - 1, c1, x1>> /\ Sees(M, k1, c1, x1)  BY <3>2
      <3>4. PICK x1 : <<k - 1, c, x>> = <<k1 - 1, c1, x1>> /\ Sees(M, k1, c1, x1)  BY <3>3
      <3>5. k = k1 /\ c = c1 /\ x = x1
        <4>1. k - 1 = k1 - 1 /\ c = c1 /\ x = x1  BY <3>4
        <4>. QED  BY <3>1, <4>1
      <3>. HIDE DEF M
      <3>. QED  BY <3>4, <3>5
    <2>2. ASSUME NEW k, NEW c, NEW x, Sees(M, k, c, x) PROVE Sees(K, k, c, x)
      <3>1. k \in Nat /\ c \in Nat /\ <<k - 1, c, x>> \in Visible(expected)  BY <1>1, <1>6, <2>2, KeptIsSeen
      <3>2. PICK k1 \in Nat : \E c1 \in Nat : \E x1 : <<k - 1, c, x>> = <<k1 - 1, c1, x1>> /\ Sees(K, k1, c1, x1)
        BY <1>1, <3>1, SeenIsKept
      <3>3. PICK c1 \in Nat : \E x1 : <<k - 1, c, x>> = <<k1 - 1, c1, x1>> /\ Sees(K, k1, c1, x1)  BY <3>2
      <3>4. PICK x1 : <<k - 1, c, x>> = <<k1 - 1, c1, x1>> /\ Sees(K, k1, c1, x1)  BY <3>3
      <3>5. k = k1 /\ c = c1 /\ x = x1
        <4>1. k - 1 = k1 - 1 /\ c = c1 /\ x = x1  BY <3>4
        <4>. QED  BY <3>1, <4>1
      <3>. HIDE DEF K
      <3>. QED  BY <3>4, <3>5
    <2>3. \A k, c, x : Sees(K, k, c, x) <=> Sees(M, k, c, x)  BY <2>1, <2>2
    <2>. HIDE DEF K, M, D
    <2>. QED  BY <1>2, <2>3, SeenOnce
  <1>7. K = M => Joined(K, "\n") = Joined(M, "\n")
    <2>. HIDE DEF K, M
    <2>. QED  OBVIOUS
  <1>. QED  BY <1>3, <1>4, <1>5, <1>6, <1>7

\* In particular for the outputs a judge is given.
LEMMA ComparatorCorrect ==
    ASSUME NEW c \in Comparisons
    PROVE  c.matches = c.same
  <1>. DEFINE seen == [o \in Outputs |-> Visible(o)]
              C == {"a", " ", "\n"}
  <1>1. PICK a \in Outputs, b \in Outputs : c = [matches |-> outputs_match(a, b), same |-> seen[a] = seen[b]]
    BY DEF Comparisons
  <1>2. a \in Seq(C) /\ b \in Seq(C)
    <2>1. \A o \in Outputs : o \in Seq(C)
      <3>1. SUFFICES ASSUME NEW o \in Outputs PROVE o \in Seq(C)  OBVIOUS
      <3>2. PICK n \in 0..MaxLength : o \in [1..n -> C]  BY DEF Outputs
      <3>3. n \in Nat  BY OutputAssumption
      <3>. HIDE DEF C
      <3>. QED  BY <3>2, <3>3, SeqDef
    <2>. QED  BY <2>1
  <1>3. seen[a] = Visible(a) /\ seen[b] = Visible(b)  OBVIOUS
  <1>4. outputs_match(a, b) <=> Visible(a) = Visible(b)
    <2>. HIDE DEF C
    <2>. QED  BY <1>2, OutputsMatchAsSeen
  <1>. HIDE DEF seen
  <1>5. c.matches = outputs_match(a, b) /\ c.same = (seen[a] = seen[b])  BY <1>1
  <1>6. outputs_match(a, b) \in BOOLEAN  BY DEF outputs_match
  <1>. QED  BY <1>3, <1>4, <1>5, <1>6

-----------------------------------------------------------------------------
(* What rests on the comparator.                                           *)

\* classify_case of one test case: AC and WA are for runs that ended normally, and
\* AC for those whose output a reader takes for the expected one.
LEMMA CaseMatches ==
    ASSUME NEW e \in Engines, NEW evidence \in Evidence
    PROVE  /\ CaseResult(e, evidence).status = "AC" <=> CaseResult(e, evidence).clean
           /\ CaseResult(e, evidence).status = "WA" <=>
                  CaseResult(e, evidence).normal /\ ~CaseResult(e, evidence).clean
<1>1. /\ evidence.stop \in {"no", "cancelled", "launch_error", "timed_out", "memory_exceeded"}
      /\ evidence.output \in Comparisons
  BY DEF Evidence
<1>2. evidence.output.matches = evidence.output.same
  BY <1>1, ComparatorCorrect
<1>3. /\ classify_case(evidence) = "AC" <=> Normal(evidence) /\ evidence.output.matches
      /\ classify_case(evidence) = "WA" <=> Normal(evidence) /\ ~evidence.output.matches
  BY <1>1 DEF classify_case, Normal
<1>4. /\ CaseResult(e, evidence).status = classify_case(evidence)
      /\ CaseResult(e, evidence).clean <=> Normal(evidence) /\ evidence.output.same
      /\ CaseResult(e, evidence).normal <=> Normal(evidence)
  BY DEF CaseResult, Clean
<1> QED BY <1>2, <1>3, <1>4

\* The results only grow, by what classify_case made of the evidence.
LEMMA MatchStep ==
    ASSUME EngineInv, MatchIsVisible, [EngineNext]_engineVars
    PROVE  MatchIsVisible'
<1> DEFINE Matches(r) == (r.status = "AC" <=> r.clean) /\ (r.status = "WA" <=> r.normal /\ ~r.clean)
<1>1. ASSUME NEW e \in Engines, Ran(e) PROVE MatchIsVisible'
  <2>1. PICK evidence \in Evidence : cases' = [cases EXCEPT ![e] = Append(cases[e], CaseResult(e, evidence))]
    BY <1>1 DEF Ran
  <2> DEFINE case == CaseResult(e, evidence)
  <2>2. Matches(case)
    BY CaseMatches
  <2>3. cases[e] \in Seq(CaseResults) /\ case \in CaseResults
    <3>1. limit[e] \in Nat /\ limit[e] <= ProblemLimit
      BY <1>1 DEF EngineInv, EngineType, TimeInv, Ran
    <3> QED BY <3>1, CaseResultFacts DEF EngineInv, EngineType
  <2>4. cases'[e] = Append(cases[e], case) /\ \A d \in Engines : d # e => cases'[d] = cases[d]
    BY <2>1 DEF EngineInv, EngineType
  <2> HIDE DEF case
  <2>5. \A i \in DOMAIN cases'[e] : cases'[e][i] = case \/ (i \in DOMAIN cases[e] /\ cases'[e][i] = cases[e][i])
    <3>1. /\ Len(Append(cases[e], case)) = Len(cases[e]) + 1
          /\ \A i \in 1..Len(cases[e]) : Append(cases[e], case)[i] = cases[e][i]
          /\ Append(cases[e], case)[Len(cases[e]) + 1] = case
          /\ Append(cases[e], case) \in Seq(CaseResults)
      BY <2>3, AppendProperties
    <3>2. Len(cases[e]) \in Nat /\ DOMAIN cases[e] = 1..Len(cases[e])
      BY <2>3, LenProperties
    <3>3. DOMAIN cases'[e] = 1..(Len(cases[e]) + 1)
      BY <2>4, <3>1, LenProperties
    <3>4. \A i \in 1..(Len(cases[e]) + 1) : i \in 1..Len(cases[e]) \/ i = Len(cases[e]) + 1
      BY <3>2
    <3> QED BY <2>4, <3>1, <3>2, <3>3, <3>4
  <2>6. \A d \in Engines : \A i \in DOMAIN cases[d] : Matches(cases[d][i])
    BY DEF MatchIsVisible
  <2> HIDE DEF Matches
  <2>7. \A d \in Engines : \A i \in DOMAIN cases'[d] : Matches(cases'[d][i])
    BY <2>2, <2>4, <2>5, <2>6
  <2> QED BY <2>7 DEF MatchIsVisible, Matches
<1>2. ASSUME NEW e \in Engines, Step(e) \/ Cancel(e), ~Ran(e) PROVE cases' = cases
  BY <1>2 DEF Step, Begin, Acquire, Wait, GiveUp, Launch, Compiled, NextCase, Cancel
<1>3. CASE cases' = cases
  BY <1>3 DEF MatchIsVisible
<1> QED BY <1>1, <1>2, <1>3 DEF EngineNext, engineVars

\* Every test case is AC or WA by what a reader sees of its output, and no case that did not end normally is either.
THEOREM MatchIsAlwaysVisible == EngineSpec => []MatchIsVisible
<1>1. EngineInit => MatchIsVisible
  BY DEF EngineInit, MatchIsVisible
<1>2. EngineInv /\ MatchIsVisible /\ [EngineNext]_engineVars => MatchIsVisible'
  BY MatchStep
<1> QED BY <1>1, <1>2, EngineInvariant, PTL DEF EngineSpec

\* A submission is AC exactly when every test case was run and was right, whatever else happened to the judge.
THEOREM AcceptedExactlyIfCorrect == EngineSpec => []AcceptedIffCorrect
<1>1. EngineInv /\ MatchIsVisible => AcceptedIffCorrect
  <2> SUFFICES ASSUME EngineInv, MatchIsVisible, NEW e \in Engines, Judged(e)
               PROVE  status[e] = "AC" <=>
                        Len(cases[e]) = Tests /\ Tests > 0 /\ \A i \in DOMAIN cases[e] : cases[e][i].clean
    BY DEF AcceptedIffCorrect
  <2>0. \A i \in DOMAIN cases[e] : (cases[e][i].status = "AC" <=> cases[e][i].clean) /\ CaseInv(cases[e][i])
    BY DEF MatchIsVisible, EngineInv, LoopInv
  <2>1. CASE /\ status[e] \in {"SYSERR", "CE"}
             /\ \/ Len(cases[e]) < Tests
                \/ Tests = 0
                \/ \E i \in DOMAIN cases[e] : ~cases[e][i].clean
    <3>1. Len(cases[e]) \in Nat
      BY LenProperties DEF EngineInv, EngineType
    <3> QED BY <2>1, <3>1, EngineAssumption
  <2>2. CASE /\ cases[e] # <<>> /\ status[e] = summarize_cases(cases[e])
             /\ \/ Len(cases[e]) = Tests /\ \A i \in DOMAIN cases[e] : cases[e][i].left_alone
                \/ \E i \in DOMAIN cases[e] : cases[e][i].status = "SYSERR"
    <3>1. cases[e] \in Seq(CaseResults)
      BY DEF EngineInv, EngineType
    <3>2. PICK i \in DOMAIN cases[e] : status[e] = cases[e][i].status
      BY <2>2, <3>1, SummarizeIsWorst
    <3>3. \A j \in DOMAIN cases[e] : cases[e][j].status \in Statuses
      <4>1. \A j \in DOMAIN cases[e] : cases[e][j] \in CaseResults
        BY <3>1, ElementOfSeq, LenProperties
      <4> QED BY <4>1 DEF CaseResults
    <3>4. \A j \in DOMAIN cases[e] : severity[cases[e][j].status] <= severity[status[e]]
      BY <2>2, <3>1, SummarizeIsWorst
    <3>5. Tests > 0
      <4>1. Len(cases[e]) \in Nat /\ Len(cases[e]) # 0 /\ Len(cases[e]) <= Tests
        BY <2>2, <3>1, EmptySeq, LenProperties DEF EngineInv, DoneInv
      <4> QED BY <4>1, EngineAssumption
    <3>6. ASSUME status[e] = "AC"
          PROVE  Len(cases[e]) = Tests /\ \A j \in DOMAIN cases[e] : cases[e][j].clean
      <4>1. \A j \in DOMAIN cases[e] : cases[e][j].status = "AC"
        BY <3>3, <3>4, <3>6, SeverityValues DEF Statuses
      <4> QED BY <2>0, <2>2, <4>1
    <3> QED BY <2>0, <3>2, <3>5, <3>6
  <2> QED BY <2>1, <2>2 DEF EngineInv, DoneInv, Judged
<1> QED BY <1>1, EngineInvariant, MatchIsAlwaysVisible, PTL

-----------------------------------------------------------------------------
(* The executor: the inductive invariant.                                  *)

P(j) == <<j, "P">>
G(j) == <<j, "G">>
H(j) == <<j, "H">>

\* ExecutorTypeOK and what it leaves open.
TypeInv ==
    /\ sup \in [Jobs -> {"idle", "piped", "forked", "sync", "exec", "failed", "check", "poll", "end", "done"}]
    /\ life \in [Processes -> {"none", "start", "unshared", "waiting", "reaping",
                               "setup", "running", "zombie", "reaped"}]
    /\ exit \in [Processes -> {"none", "zero", "nonzero", "signal", "killed"}]
    /\ holds \in [Processes \cup {Server} -> SUBSET (Jobs \X Ends)]
    /\ sent \subseteq Jobs \X {"sync1", "sync2", "pid", "failure"}
    /\ written \in [Jobs -> Nat]
    /\ got \in [Jobs -> Nat]
    /\ \A j \in Jobs : got[j] <= written[j] /\ written[j] <= MaxOutput
    /\ childReaped \subseteq Jobs
    /\ \A j \in childReaped : life[P(j)] = "zombie"
    /\ outOpen \subseteq Jobs
    /\ cause \in [Jobs -> {"none", "Cancelled", "TimedOut", "MemoryExceeded", "poll_failed"}]
    /\ report \in [Jobs -> {"none", "launch_error", "Cancelled", "TimedOut", "MemoryExceeded",
                            "Completed", "NonZeroExit", "Signaled"}]

Failed(j) == <<j, "failure">> \in sent

\* G and H live between the fork of both by P and the end of P.
FamilyInv(j) ==
    /\ life[P(j)] \in {"none", "start", "unshared", "waiting", "zombie"}
    /\ life[P(j)] \in {"none", "start", "unshared"} => life[G(j)] = "none" /\ life[H(j)] = "none"
    /\ life[P(j)] = "waiting" => life[G(j)] = "reaping" /\ life[H(j)] \in {"setup", "running", "zombie"}
    /\ life[P(j)] = "zombie" => life[G(j)] \in Gone /\ life[H(j)] \in Gone

Launching == {"forked", "sync", "exec", "failed"}
Supervised == {"check", "poll", "end"}

\* How far the supervisor is tells how far the processes are.
PlaceInv(j) ==
    /\ sup[j] \in {"idle", "piped"} => life[P(j)] = "none"
    /\ sup[j] \in Launching \cup Supervised => life[P(j)] # "none"
    /\ sup[j] = "done" => life[P(j)] \in {"none", "zombie"}
    /\ sup[j] = "failed" => Failed(j)
    /\ sup[j] \in {"idle", "piped"} \cup Launching => cause[j] = "none" /\ j \notin childReaped
    /\ sup[j] \in Launching /\ life[P(j)] = "zombie" /\ ~Failed(j) => life[H(j)] = "reaped"
    /\ sup[j] \in Supervised => ~Failed(j) /\ life[H(j)] \in {"running", "zombie", "reaped"}

\* A process that is being launched has the pipe of its failure open, and a
\* program its output.
PipeInv(j) ==
    /\ sup[j] = "piped" => Of(j, Ends) \subseteq holds[Server]
    /\ life[P(j)] = "start" => Of(j, Ends) \subseteq holds[P(j)]
    /\ life[P(j)] = "unshared" => Of(j, Ends \ {"in"}) \subseteq holds[P(j)]
    /\ life[H(j)] = "setup" => Of(j, Ends \ {"in"}) \subseteq holds[H(j)]
    /\ life[H(j)] = "running" => <<j, "out">> \in holds[H(j)]

\* P ends as its program did, unless it was killed or the launch had failed.
ExitInv(j) ==
    /\ life[P(j)] # "zombie" => exit[P(j)] = "none"
    /\ life[P(j)] = "zombie" =>
           /\ exit[P(j)] # "none"
           /\ exit[P(j)] = exit[H(j)] \/ exit[P(j)] = "killed" \/ Failed(j)
    /\ life[H(j)] \notin Gone \ {"none"} => exit[H(j)] = "none"
    /\ life[H(j)] = "zombie" => exit[H(j)] # "none"
    /\ exit[H(j)] = "killed" => exit[P(j)] = "killed"
    /\ exit[P(j)] = "killed" => cause[j] # "none"

\* Output is given up only when it is all read, and the program is over.
OutputInv(j) ==
    /\ sup[j] \in {"check", "poll"} /\ j \notin outOpen => got[j] = written[j] /\ life[H(j)] # "running"
    /\ sup[j] = "check" /\ j \in childReaped => got[j] = written[j]
    /\ sup[j] = "end" /\ cause[j] = "none" => life[P(j)] = "zombie" /\ got[j] = written[j]

ReportInv(j) ==
    sup[j] = "done" =>
        /\ report[j] = "launch_error" => ~Started(j)
        /\ report[j] \in {"TimedOut", "MemoryExceeded", "Completed", "NonZeroExit", "Signaled"} => Started(j)
        /\ report[j] = "Completed" => exit[H(j)] = "zero"
        /\ report[j] = "NonZeroExit" => exit[H(j)] = "nonzero"
        /\ report[j] = "Signaled" => exit[H(j)] = "signal" \/ cause[j] = "poll_failed"
        /\ report[j] = "Completed" /\ cause[j] # "poll_failed" => got[j] = written[j]

JobInv(j) ==
    FamilyInv(j) /\ PlaceInv(j) /\ PipeInv(j) /\ ExitInv(j) /\ OutputInv(j) /\ ReportInv(j)

ExecutorInv == TypeInv /\ \A j \in Jobs : JobInv(j)

-----------------------------------------------------------------------------
(* The steps.                                                              *)

\* The parts of JobInv only look at the job: a step of another job that leaves
\* these alone leaves them true.
Same(j) ==
    /\ sup'[j] = sup[j] /\ written'[j] = written[j] /\ got'[j] = got[j]
    /\ cause'[j] = cause[j] /\ report'[j] = report[j]
    /\ j \in childReaped' <=> j \in childReaped
    /\ j \in outOpen' <=> j \in outOpen
    /\ Failed(j)' <=> Failed(j)
    /\ life'[P(j)] = life[P(j)] /\ life'[G(j)] = life[G(j)] /\ life'[H(j)] = life[H(j)]
    /\ exit'[P(j)] = exit[P(j)] /\ exit'[H(j)] = exit[H(j)]
    /\ holds'[P(j)] = holds[P(j)] /\ holds'[H(j)] = holds[H(j)]
    /\ Of(j, Ends) \subseteq holds[Server] => Of(j, Ends) \subseteq holds'[Server]

\* Other jobs keep their part of the invariant.
LEMMA SameKeeps ==
    ASSUME NEW j \in Jobs, JobInv(j), Same(j)
    PROVE  JobInv(j)'
<1>1. FamilyInv(j)'
  BY DEF JobInv, Same, FamilyInv
<1>2. PlaceInv(j)'
  BY DEF JobInv, Same, PlaceInv
<1>3. PipeInv(j)'
  BY DEF JobInv, Same, PipeInv
<1>4. ExitInv(j)'
  BY DEF JobInv, Same, ExitInv
<1>5. OutputInv(j)'
  BY DEF JobInv, Same, OutputInv
<1>6. ReportInv(j)'
  BY DEF JobInv, Same, ReportInv, Started, Failed, H
<1> QED BY <1>1, <1>2, <1>3, <1>4, <1>5, <1>6 DEF JobInv

\* Processes are named by their job and their part in it.
LEMMA ProcessFacts ==
    ASSUME NEW j \in Jobs
    PROVE  /\ P(j) \in Processes /\ G(j) \in Processes /\ H(j) \in Processes
           /\ P(j) # G(j) /\ P(j) # H(j) /\ G(j) # H(j)
           /\ Server \notin Processes
           /\ \A k \in Jobs \ {j} : \A a \in {P(j), G(j), H(j)} : a \notin {P(k), G(k), H(k)}
  BY DEF P, G, H, Processes, Kinds, Server

\* The members of Of.
LEMMA OfFacts ==
    ASSUME NEW j, NEW S, NEW k, NEW x
    PROVE  <<k, x>> \in Of(j, S) <=> k = j /\ x \in S
  BY DEF Of

\* The pipe ends of one job, and the ends in general.
LEMMA EndFacts ==
    ASSUME NEW j \in Jobs, NEW S \in SUBSET Ends
    PROVE  /\ Of(j, S) \in SUBSET (Jobs \X Ends)
           /\ \A k \in Jobs \ {j}, T \in SUBSET Ends : Of(k, T) \cap Of(j, S) = {}
  BY DEF Of

\* The types are those that the run checks.
LEMMA TypesAreOK == TypeInv => ExecutorTypeOK
<1> SUFFICES ASSUME TypeInv PROVE ExecutorTypeOK
  OBVIOUS
<1>1. \A p \in DOMAIN holds : holds[p] \subseteq Jobs \X Ends
  BY DEF TypeInv
<1>2. \A j \in Jobs : got[j] \in 0..written[j] /\ written[j] \in 0..MaxOutput
  BY ExecutorAssumption DEF TypeInv
<1>3. childReaped \subseteq {j \in Jobs : life[<<j, "P">>] = "zombie"}
  BY DEF TypeInv, P
<1> QED BY <1>1, <1>2, <1>3 DEF TypeInv, ExecutorTypeOK

-----------------------------------------------------------------------------
(* The processes.                                                          *)

\* p ends, and the kernel closes what it holds.
LEMMA ExitFacts ==
    ASSUME TypeInv, NEW p \in Processes, NEW how \in {"zero", "nonzero", "signal"}, Exit(p, how)
    PROVE  /\ life' \in [Processes -> {"none", "start", "unshared", "waiting", "reaping",
                                       "setup", "running", "zombie", "reaped"}]
           /\ exit' \in [Processes -> {"none", "zero", "nonzero", "signal", "killed"}]
           /\ holds' \in [Processes \cup {Server} -> SUBSET (Jobs \X Ends)]
           /\ life'[p] = "zombie" /\ exit'[p] = how /\ holds'[p] = {}
           /\ \A q \in Processes \ {p} : life'[q] = life[q] /\ exit'[q] = exit[q] /\ holds'[q] = holds[q]
           /\ holds'[Server] = holds[Server]
<1>1. p # Server
  BY DEF Processes, Kinds, Server
<1> QED BY <1>1 DEF TypeInv, Exit, Become

\* A message is about one job.
LEMMA SendFacts ==
    ASSUME TypeInv, NEW j \in Jobs, NEW m \in {"sync1", "sync2", "pid", "failure"}, Send(j, m)
    PROVE  /\ sent' \subseteq Jobs \X {"sync1", "sync2", "pid", "failure"}
           /\ \A k \in Jobs \ {j} : Failed(k)' <=> Failed(k)
           /\ m # "failure" => (Failed(j)' <=> Failed(j))
           /\ m = "failure" => Failed(j)'
  BY DEF TypeInv, Send, Failed

\* A step that changes, of the processes, only those of job j.
Only(j) ==
    /\ UNCHANGED <<written, supVars>>
    /\ \A q \in Processes \ {P(j), G(j), H(j)} : life'[q] = life[q] /\ exit'[q] = exit[q] /\ holds'[q] = holds[q]
    /\ holds'[Server] = holds[Server]
    /\ \A k \in Jobs \ {j} : Failed(k)' <=> Failed(k)

\* Such a step leaves the other jobs alone.
LEMMA OnlyLeavesOthers ==
    ASSUME NEW j \in Jobs, Only(j), NEW k \in Jobs, k # j
    PROVE  Same(k)
<1>1. {P(k), G(k), H(k)} \subseteq Processes \ {P(j), G(j), H(j)}
  BY ProcessFacts
<1> QED BY <1>1 DEF Only, Same, supVars

\* A failed step of the launch.
LEMMA FailFacts ==
    ASSUME TypeInv, NEW j \in Jobs, NEW p \in {P(j), G(j), H(j)}, Fail(p)
    PROVE  /\ Send(j, "failure") /\ Exit(p, "nonzero")
           /\ Failed(j)'
  BY DEF Fail, Send, Failed, P, G, H

\* A step keeps the invariant if it does so for its job and leaves the others.
LEMMA StepKeeps ==
    ASSUME ExecutorInv, NEW j \in Jobs, TypeInv', JobInv(j)', \A k \in Jobs \ {j} : Same(k)
    PROVE  ExecutorInv'
<1>1. ASSUME NEW k \in Jobs, k # j PROVE JobInv(k)'
  BY <1>1, SameKeeps DEF ExecutorInv
<1> QED BY <1>1 DEF ExecutorInv

\* What a step of the processes leaves of the job itself.
LEMMA SameSupervisor ==
    ASSUME NEW j \in Jobs, UNCHANGED <<written, supVars>>
    PROVE  /\ sup' = sup /\ got' = got /\ childReaped' = childReaped /\ outOpen' = outOpen
           /\ cause' = cause /\ report' = report /\ written' = written
  BY DEF supVars

\* A step of P before it has forked fails.
LEMMA ParentFailKeeps ==
    ASSUME ExecutorInv, NEW j \in Jobs, life[P(j)] \in {"start", "unshared"}, Fail(P(j)),
           UNCHANGED <<written, supVars>>
    PROVE  ExecutorInv'
<1>0. /\ TypeInv /\ FamilyInv(j) /\ PlaceInv(j) /\ PipeInv(j) /\ ExitInv(j) /\ OutputInv(j) /\ ReportInv(j)
      /\ life[G(j)] = "none" /\ life[H(j)] = "none"
  BY DEF ExecutorInv, JobInv, FamilyInv
<1>1. /\ sup' = sup /\ got' = got /\ childReaped' = childReaped /\ outOpen' = outOpen
      /\ cause' = cause /\ report' = report /\ written' = written
  BY SameSupervisor
<1>2. sup[j] \notin {"idle", "piped", "done"} \cup Supervised
  BY <1>0 DEF PlaceInv, Supervised
<1>3. Send(j, "failure") /\ Exit(P(j), "nonzero") /\ Failed(j)'
  BY <1>0, FailFacts
<1>4. /\ life' \in [Processes -> {"none", "start", "unshared", "waiting", "reaping",
                                  "setup", "running", "zombie", "reaped"}]
      /\ exit' \in [Processes -> {"none", "zero", "nonzero", "signal", "killed"}]
      /\ holds' \in [Processes \cup {Server} -> SUBSET (Jobs \X Ends)]
      /\ life'[P(j)] = "zombie" /\ exit'[P(j)] = "nonzero" /\ holds'[P(j)] = {}
      /\ \A q \in Processes \ {P(j)} : life'[q] = life[q] /\ exit'[q] = exit[q] /\ holds'[q] = holds[q]
      /\ holds'[Server] = holds[Server]
  BY <1>0, <1>3, ProcessFacts, ExitFacts
<1>5. /\ sent' \subseteq Jobs \X {"sync1", "sync2", "pid", "failure"}
      /\ \A k \in Jobs \ {j} : Failed(k)' <=> Failed(k)
  BY <1>0, <1>3, SendFacts
<1>6. Only(j)
  BY <1>4, <1>5 DEF Only
<1>7. TypeInv'
  BY <1>0, <1>1, <1>4, <1>5, ProcessFacts DEF TypeInv
<1>8. life'[G(j)] = "none" /\ life'[H(j)] = "none" /\ exit'[H(j)] = exit[H(j)] /\ holds'[H(j)] = holds[H(j)]
  BY <1>0, <1>4, ProcessFacts
<1>9. FamilyInv(j)' /\ PlaceInv(j)' /\ PipeInv(j)' /\ ExitInv(j)'
  BY <1>0, <1>1, <1>2, <1>3, <1>4, <1>8 DEF FamilyInv, PlaceInv, PipeInv, ExitInv, Launching, Supervised, Gone
<1>10. OutputInv(j)' /\ ReportInv(j)'
  BY <1>1, <1>2 DEF OutputInv, ReportInv, Supervised
<1> QED BY <1>6, <1>7, <1>9, <1>10, OnlyLeavesOthers, StepKeeps DEF JobInv

\* P makes its namespaces, or fails.
LEMMA UnshareKeeps ==
    ASSUME ExecutorInv, NEW j \in Jobs, UnshareStep(j)
    PROVE  ExecutorInv'
<1>0. /\ TypeInv /\ FamilyInv(j) /\ PlaceInv(j) /\ PipeInv(j) /\ ExitInv(j) /\ OutputInv(j) /\ ReportInv(j)
      /\ life[P(j)] = "start" /\ life[G(j)] = "none" /\ life[H(j)] = "none"
  BY DEF ExecutorInv, JobInv, UnshareStep, P, FamilyInv
<1>1. /\ sup' = sup /\ got' = got /\ childReaped' = childReaped /\ outOpen' = outOpen
      /\ cause' = cause /\ report' = report /\ written' = written
  BY SameSupervisor DEF UnshareStep
<1>2. sup[j] \notin {"idle", "piped", "done"} \cup Supervised
  BY <1>0 DEF PlaceInv, Supervised
<1>3. CASE Fail(P(j))
  BY <1>0, <1>3, ParentFailKeeps DEF UnshareStep
<1>4. CASE /\ Become(P(j), "unshared") /\ Close(P(j), Of(j, {"in"})) /\ Send(j, "sync1") /\ exit' = exit
  <2>1. /\ sent' \subseteq Jobs \X {"sync1", "sync2", "pid", "failure"}
        /\ \A k \in Jobs : Failed(k)' <=> Failed(k)
    BY <1>0, <1>4, SendFacts
  <2>2. P(j) \in Processes /\ P(j) # Server
    BY ProcessFacts
  <2>3. /\ life' \in [Processes -> {"none", "start", "unshared", "waiting", "reaping",
                                    "setup", "running", "zombie", "reaped"}]
        /\ holds' \in [Processes \cup {Server} -> SUBSET (Jobs \X Ends)]
        /\ life'[P(j)] = "unshared" /\ holds'[P(j)] = holds[P(j)] \ Of(j, {"in"})
        /\ \A q \in Processes \ {P(j)} : life'[q] = life[q] /\ exit'[q] = exit[q] /\ holds'[q] = holds[q]
        /\ holds'[Server] = holds[Server]
    BY <1>0, <1>4, <2>2 DEF TypeInv, Become, Close
  <2>4. Only(j)
    BY <2>1, <2>3 DEF Only, UnshareStep
  <2>5. TypeInv'
    BY <1>0, <1>1, <1>4, <2>1, <2>3, ProcessFacts DEF TypeInv
  <2>6. life'[G(j)] = "none" /\ life'[H(j)] = "none" /\ exit'[H(j)] = exit[H(j)] /\ holds'[H(j)] = holds[H(j)]
    BY <1>0, <2>3, ProcessFacts
  <2>7. Of(j, Ends \ {"in"}) \subseteq holds'[P(j)]
    BY <1>0, <2>3 DEF PipeInv, Of
  <2>8. FamilyInv(j)' /\ PlaceInv(j)' /\ PipeInv(j)' /\ ExitInv(j)'
    BY <1>0, <1>1, <1>2, <1>4, <2>1, <2>3, <2>6, <2>7
    DEF FamilyInv, PlaceInv, PipeInv, ExitInv, Launching, Supervised, Gone
  <2>9. OutputInv(j)' /\ ReportInv(j)'
    BY <1>1, <1>2 DEF OutputInv, ReportInv, Supervised
  <2> QED BY <2>4, <2>5, <2>8, <2>9, OnlyLeavesOthers, StepKeeps DEF JobInv
<1> QED BY <1>3, <1>4 DEF UnshareStep, P

\* P forks G and H, or fails.
LEMMA ForkPayloadKeeps ==
    ASSUME ExecutorInv, NEW j \in Jobs, ForkPayload(j)
    PROVE  ExecutorInv'
<1>0. /\ TypeInv /\ FamilyInv(j) /\ PlaceInv(j) /\ PipeInv(j) /\ ExitInv(j) /\ OutputInv(j) /\ ReportInv(j)
      /\ life[P(j)] = "unshared" /\ life[G(j)] = "none" /\ life[H(j)] = "none"
  BY DEF ExecutorInv, JobInv, ForkPayload, P, FamilyInv
<1>1. /\ sup' = sup /\ got' = got /\ childReaped' = childReaped /\ outOpen' = outOpen
      /\ cause' = cause /\ report' = report /\ written' = written
  BY SameSupervisor DEF ForkPayload
<1>2. sup[j] \notin {"idle", "piped", "done"} \cup Supervised
  BY <1>0 DEF PlaceInv, Supervised
<1>3. CASE Fail(P(j))
  BY <1>0, <1>3, ParentFailKeeps DEF ForkPayload
<1>4. CASE /\ life' = [p \in Processes |-> CASE p = P(j) -> "waiting"
                                             [] p = G(j) -> "reaping"
                                             [] p = H(j) -> "setup"
                                             [] OTHER -> life[p]]
           /\ LET others == holds[P(j)] \ Of(j, Ends)
              IN  holds' = [holds EXCEPT ![P(j)] = others, ![G(j)] = others, ![H(j)] = holds[P(j)]]
           /\ Send(j, "pid") /\ exit' = exit
  <2>1. /\ sent' \subseteq Jobs \X {"sync1", "sync2", "pid", "failure"}
        /\ \A k \in Jobs : Failed(k)' <=> Failed(k)
    BY <1>0, <1>4, SendFacts
  <2>2. /\ life' \in [Processes -> {"none", "start", "unshared", "waiting", "reaping",
                                    "setup", "running", "zombie", "reaped"}]
        /\ life'[P(j)] = "waiting" /\ life'[G(j)] = "reaping" /\ life'[H(j)] = "setup"
        /\ \A q \in Processes \ {P(j), G(j), H(j)} : life'[q] = life[q]
    BY <1>0, <1>4, ProcessFacts DEF TypeInv
  <2>3. /\ holds' \in [Processes \cup {Server} -> SUBSET (Jobs \X Ends)]
        /\ holds'[H(j)] = holds[P(j)]
        /\ \A q \in Processes \ {P(j), G(j), H(j)} : holds'[q] = holds[q]
        /\ holds'[Server] = holds[Server]
    <3> DEFINE others == holds[P(j)] \ Of(j, Ends)
               first == [holds EXCEPT ![P(j)] = others]
               second == [first EXCEPT ![G(j)] = others]
    <3>0. P(j) \in Processes /\ G(j) \in Processes /\ H(j) \in Processes /\ Server \notin Processes
      BY ProcessFacts
    <3>1. others \in SUBSET (Jobs \X Ends) /\ holds[P(j)] \in SUBSET (Jobs \X Ends)
      BY <1>0, <3>0 DEF TypeInv
    <3>2. holds' = [second EXCEPT ![H(j)] = holds[P(j)]]
      BY <1>4
    <3> HIDE DEF others
    <3>3. first \in [Processes \cup {Server} -> SUBSET (Jobs \X Ends)]
      BY <1>0, <3>0, <3>1 DEF TypeInv
    <3>4. second \in [Processes \cup {Server} -> SUBSET (Jobs \X Ends)]
      BY <3>0, <3>1, <3>3
    <3>5. holds' \in [Processes \cup {Server} -> SUBSET (Jobs \X Ends)] /\ holds'[H(j)] = holds[P(j)]
      BY <3>0, <3>1, <3>2, <3>4
    <3>6. ASSUME NEW q \in Processes \cup {Server}, q \notin {P(j), G(j), H(j)} PROVE holds'[q] = holds[q]
      BY <1>0, <3>0, <3>2, <3>3, <3>4, <3>6 DEF TypeInv
    <3> QED BY <3>0, <3>5, <3>6
  <2>4. Only(j)
    BY <1>4, <2>1, <2>2, <2>3 DEF Only, ForkPayload
  <2>5. TypeInv'
    <3>1. \A k \in childReaped : k # j /\ life'[P(k)] = life[P(k)]
      BY <1>0, <2>2, ProcessFacts DEF TypeInv
    <3> QED BY <1>0, <1>1, <1>4, <2>1, <2>2, <2>3, <3>1 DEF TypeInv
  <2>6. FamilyInv(j)' /\ PlaceInv(j)' /\ PipeInv(j)'
    BY <1>0, <1>1, <1>2, <2>1, <2>2, <2>3 DEF FamilyInv, PlaceInv, PipeInv, Launching, Supervised, Gone
  <2>7. ExitInv(j)'
    BY <1>0, <1>1, <1>4, <2>1, <2>2 DEF ExitInv, Gone
  <2>8. OutputInv(j)' /\ ReportInv(j)'
    BY <1>1, <1>2 DEF OutputInv, ReportInv, Supervised
  <2> QED BY <2>4, <2>5, <2>6, <2>7, <2>8, OnlyLeavesOthers, StepKeeps DEF JobInv
<1> QED BY <1>3, <1>4 DEF ForkPayload, P, G, H

\* P reaps H and G and ends.
LEMMA ReapKeeps ==
    ASSUME ExecutorInv, NEW j \in Jobs, Reap(j)
    PROVE  ExecutorInv'
<1>0. /\ TypeInv /\ FamilyInv(j) /\ PlaceInv(j) /\ PipeInv(j) /\ ExitInv(j) /\ OutputInv(j) /\ ReportInv(j)
      /\ life[P(j)] = "waiting" /\ life[H(j)] = "zombie"
  BY DEF ExecutorInv, JobInv, Reap, P, H
<1>1. /\ sup' = sup /\ got' = got /\ childReaped' = childReaped /\ outOpen' = outOpen
      /\ cause' = cause /\ report' = report /\ written' = written /\ sent' = sent
  BY SameSupervisor DEF Reap
<1>2. /\ life' = [p \in Processes |-> CASE p = P(j) -> "zombie"
                                        [] p \in {G(j), H(j)} -> "reaped"
                                        [] OTHER -> life[p]]
      /\ exit' = [exit EXCEPT ![P(j)] = exit[H(j)]]
      /\ holds' = [[holds EXCEPT ![P(j)] = {}] EXCEPT ![G(j)] = {}]
  <2>1. Of(j, {"G", "H"}) = {G(j), H(j)}
    BY DEF Of, G, H
  <2> QED BY <2>1 DEF Reap, P, G, H
<1>3. P(j) \in Processes /\ G(j) \in Processes /\ H(j) \in Processes /\ Server \notin Processes
  BY ProcessFacts
<1>4. /\ life' \in [Processes -> {"none", "start", "unshared", "waiting", "reaping",
                                  "setup", "running", "zombie", "reaped"}]
      /\ life'[P(j)] = "zombie" /\ life'[G(j)] = "reaped" /\ life'[H(j)] = "reaped"
      /\ \A q \in Processes \ {P(j), G(j), H(j)} : life'[q] = life[q]
  BY <1>0, <1>2, ProcessFacts DEF TypeInv
<1>5. /\ exit' \in [Processes -> {"none", "zero", "nonzero", "signal", "killed"}]
      /\ exit'[P(j)] = exit[H(j)] /\ exit'[H(j)] = exit[H(j)]
      /\ \A q \in Processes \ {P(j), G(j), H(j)} : exit'[q] = exit[q]
  BY <1>0, <1>2, <1>3, ProcessFacts DEF TypeInv
<1>6. /\ holds' \in [Processes \cup {Server} -> SUBSET (Jobs \X Ends)]
      /\ \A q \in Processes \ {P(j), G(j), H(j)} : holds'[q] = holds[q]
      /\ holds'[Server] = holds[Server]
  BY <1>0, <1>2, <1>3 DEF TypeInv
<1>7. Only(j)
  BY <1>1, <1>4, <1>5, <1>6 DEF Only, Reap, Failed
<1>8. TypeInv'
  <2>1. \A k \in childReaped : k # j /\ life'[P(k)] = life[P(k)]
    BY <1>0, <1>4, ProcessFacts DEF TypeInv
  <2> QED BY <1>0, <1>1, <1>4, <1>5, <1>6, <2>1 DEF TypeInv
<1>9. FamilyInv(j)' /\ PlaceInv(j)' /\ PipeInv(j)'
  BY <1>0, <1>1, <1>4 DEF FamilyInv, PlaceInv, PipeInv, Launching, Supervised, Gone, Failed
<1>10. ExitInv(j)'
  BY <1>0, <1>1, <1>4, <1>5 DEF ExitInv, Gone
<1>11. OutputInv(j)' /\ ReportInv(j)'
  BY <1>0, <1>1, <1>4 DEF OutputInv, ReportInv, PlaceInv
<1> QED BY <1>7, <1>8, <1>9, <1>10, <1>11, OnlyLeavesOthers, StepKeeps DEF JobInv

\* H becomes the program, or fails.
LEMMA ExecKeeps ==
    ASSUME ExecutorInv, NEW j \in Jobs, Exec(j)
    PROVE  ExecutorInv'
<1>0. /\ TypeInv /\ FamilyInv(j) /\ PlaceInv(j) /\ PipeInv(j) /\ ExitInv(j) /\ OutputInv(j) /\ ReportInv(j)
      /\ life[H(j)] = "setup" /\ life[P(j)] = "waiting" /\ life[G(j)] = "reaping"
  <2>1. /\ TypeInv /\ FamilyInv(j) /\ PlaceInv(j) /\ PipeInv(j) /\ ExitInv(j) /\ OutputInv(j) /\ ReportInv(j)
        /\ life[H(j)] = "setup"
    BY DEF ExecutorInv, JobInv, Exec, H
  <2> QED BY <2>1 DEF FamilyInv, Gone
<1>1. /\ sup' = sup /\ got' = got /\ childReaped' = childReaped /\ outOpen' = outOpen
      /\ cause' = cause /\ report' = report /\ written' = written
  BY SameSupervisor DEF Exec
<1>2. sup[j] \notin {"idle", "piped", "done"} \cup Supervised /\ j \notin childReaped
  BY <1>0 DEF PlaceInv, Supervised, TypeInv
<1>3. H(j) \in Processes /\ H(j) # Server /\ P(j) \in Processes \ {H(j)} /\ G(j) \in Processes \ {H(j)}
  BY ProcessFacts
<1>4. CASE Fail(H(j))
  <2>1. Send(j, "failure") /\ Exit(H(j), "nonzero") /\ Failed(j)'
    BY <1>0, <1>4, FailFacts
  <2>2. /\ life' \in [Processes -> {"none", "start", "unshared", "waiting", "reaping",
                                    "setup", "running", "zombie", "reaped"}]
        /\ exit' \in [Processes -> {"none", "zero", "nonzero", "signal", "killed"}]
        /\ holds' \in [Processes \cup {Server} -> SUBSET (Jobs \X Ends)]
        /\ life'[H(j)] = "zombie" /\ exit'[H(j)] = "nonzero" /\ holds'[H(j)] = {}
        /\ \A q \in Processes \ {H(j)} : life'[q] = life[q] /\ exit'[q] = exit[q] /\ holds'[q] = holds[q]
        /\ holds'[Server] = holds[Server]
    BY <1>0, <1>3, <2>1, ExitFacts
  <2>3. /\ sent' \subseteq Jobs \X {"sync1", "sync2", "pid", "failure"}
        /\ \A k \in Jobs \ {j} : Failed(k)' <=> Failed(k)
    BY <1>0, <2>1, SendFacts
  <2>4. Only(j)
    BY <2>2, <2>3 DEF Only, Exec
  <2>5. TypeInv'
    BY <1>0, <1>1, <2>2, <2>3, ProcessFacts DEF TypeInv
  <2>6. FamilyInv(j)' /\ PlaceInv(j)' /\ PipeInv(j)' /\ ExitInv(j)'
    BY <1>0, <1>1, <1>2, <1>3, <2>1, <2>2 DEF FamilyInv, PlaceInv, PipeInv, ExitInv, Launching, Supervised, Gone
  <2>7. OutputInv(j)' /\ ReportInv(j)'
    BY <1>1, <1>2 DEF OutputInv, ReportInv, Supervised
  <2> QED BY <2>4, <2>5, <2>6, <2>7, OnlyLeavesOthers, StepKeeps DEF JobInv
<1>5. CASE Become(H(j), "running") /\ Close(H(j), holds[H(j)] \ Of(j, {"out"})) /\ UNCHANGED <<exit, sent>>
  <2>1. /\ life' \in [Processes -> {"none", "start", "unshared", "waiting", "reaping",
                                    "setup", "running", "zombie", "reaped"}]
        /\ holds' \in [Processes \cup {Server} -> SUBSET (Jobs \X Ends)]
        /\ life'[H(j)] = "running" /\ holds'[H(j)] = holds[H(j)] \ (holds[H(j)] \ Of(j, {"out"}))
        /\ \A q \in Processes \ {H(j)} : life'[q] = life[q] /\ exit'[q] = exit[q] /\ holds'[q] = holds[q]
        /\ holds'[Server] = holds[Server]
    BY <1>0, <1>3, <1>5 DEF TypeInv, Become, Close
  <2>2. <<j, "out">> \in holds'[H(j)]
    <3>1. <<j, "out">> \in Of(j, Ends \ {"in"}) /\ <<j, "out">> \in Of(j, {"out"})
      BY OfFacts DEF Ends
    <3> QED BY <1>0, <2>1, <3>1 DEF PipeInv
  <2>3. Only(j)
    BY <1>5, <2>1 DEF Only, Exec, Failed
  <2>4. TypeInv'
    BY <1>0, <1>1, <1>5, <2>1, ProcessFacts DEF TypeInv
  <2>5. FamilyInv(j)' /\ PlaceInv(j)' /\ PipeInv(j)' /\ ExitInv(j)'
    BY <1>0, <1>1, <1>2, <1>3, <1>5, <2>1, <2>2
    DEF FamilyInv, PlaceInv, PipeInv, ExitInv, Launching, Supervised, Gone, Failed
  <2>6. OutputInv(j)' /\ ReportInv(j)'
    BY <1>1, <1>2 DEF OutputInv, ReportInv, Supervised
  <2> QED BY <2>3, <2>4, <2>5, <2>6, OnlyLeavesOthers, StepKeeps DEF JobInv
<1> QED BY <1>4, <1>5 DEF Exec, H

\* The program writes: its output is still open, and nobody has given it up.
LEMMA OutputKeeps ==
    ASSUME ExecutorInv, NEW j \in Jobs, Output(j)
    PROVE  ExecutorInv'
<1>0. /\ TypeInv /\ FamilyInv(j) /\ PlaceInv(j) /\ PipeInv(j) /\ ExitInv(j) /\ OutputInv(j) /\ ReportInv(j)
      /\ life[H(j)] = "running" /\ written[j] < MaxOutput /\ written' = [written EXCEPT ![j] = @ + 1]
      /\ UNCHANGED <<life, exit, holds, sent>>
  BY DEF ExecutorInv, JobInv, Output, H
<1>1. /\ sup' = sup /\ got' = got /\ childReaped' = childReaped /\ outOpen' = outOpen
      /\ cause' = cause /\ report' = report
  BY DEF Output, supVars
<1>2. life[P(j)] = "waiting"
  BY <1>0 DEF FamilyInv, Gone
<1>3. /\ sup[j] # "done" /\ j \notin childReaped
      /\ sup[j] \in {"check", "poll"} => j \in outOpen
      /\ sup[j] = "end" => cause[j] # "none"
  BY <1>0, <1>2 DEF PlaceInv, TypeInv, OutputInv
<1>4. TypeInv'
  <2>1. written' \in [Jobs -> Nat] /\ \A k \in Jobs : got[k] <= written'[k] /\ written'[k] <= MaxOutput
    BY <1>0, ExecutorAssumption DEF TypeInv
  <2> QED BY <1>0, <1>1, <2>1 DEF TypeInv
<1>5. FamilyInv(j)' /\ PlaceInv(j)' /\ PipeInv(j)' /\ ExitInv(j)'
  BY <1>0, <1>1 DEF FamilyInv, PlaceInv, PipeInv, ExitInv, Failed
<1>6. OutputInv(j)' /\ ReportInv(j)'
  BY <1>1, <1>3 DEF OutputInv, ReportInv
<1>7. ASSUME NEW k \in Jobs, k # j PROVE Same(k)
  BY <1>0, <1>1, <1>7 DEF Same, TypeInv, Failed
<1> QED BY <1>4, <1>5, <1>6, <1>7, StepKeeps DEF JobInv

\* The program ends.
LEMMA ProgramEndsKeeps ==
    ASSUME ExecutorInv, NEW j \in Jobs, ProgramEnds(j)
    PROVE  ExecutorInv'
<1>0. /\ TypeInv /\ FamilyInv(j) /\ PlaceInv(j) /\ PipeInv(j) /\ ExitInv(j) /\ OutputInv(j) /\ ReportInv(j)
      /\ life[H(j)] = "running" /\ sent' = sent
  BY DEF ExecutorInv, JobInv, ProgramEnds, H
<1>1. /\ sup' = sup /\ got' = got /\ childReaped' = childReaped /\ outOpen' = outOpen
      /\ cause' = cause /\ report' = report /\ written' = written
  BY SameSupervisor DEF ProgramEnds
<1>2. life[P(j)] = "waiting" /\ life[G(j)] = "reaping"
  BY <1>0 DEF FamilyInv, Gone
<1>3. sup[j] \notin {"idle", "piped", "done"}
  BY <1>0, <1>2 DEF PlaceInv
<1>4. PICK how \in {"zero", "nonzero", "signal"} : Exit(H(j), how)
  BY DEF ProgramEnds, H
<1>5. H(j) \in Processes /\ P(j) \in Processes \ {H(j)} /\ G(j) \in Processes \ {H(j)}
  BY ProcessFacts
<1>6. /\ life' \in [Processes -> {"none", "start", "unshared", "waiting", "reaping",
                                  "setup", "running", "zombie", "reaped"}]
      /\ exit' \in [Processes -> {"none", "zero", "nonzero", "signal", "killed"}]
      /\ holds' \in [Processes \cup {Server} -> SUBSET (Jobs \X Ends)]
      /\ life'[H(j)] = "zombie" /\ exit'[H(j)] = how /\ holds'[H(j)] = {}
      /\ \A q \in Processes \ {H(j)} : life'[q] = life[q] /\ exit'[q] = exit[q] /\ holds'[q] = holds[q]
      /\ holds'[Server] = holds[Server]
  BY <1>0, <1>4, <1>5, ExitFacts
<1>7. Only(j)
  BY <1>0, <1>6 DEF Only, ProgramEnds, Failed
<1>8. TypeInv'
  BY <1>0, <1>1, <1>6, ProcessFacts DEF TypeInv
<1>9. FamilyInv(j)' /\ PlaceInv(j)' /\ PipeInv(j)'
  BY <1>0, <1>1, <1>2, <1>3, <1>5, <1>6 DEF FamilyInv, PlaceInv, PipeInv, Launching, Supervised, Gone, Failed
<1>10. ExitInv(j)'
  BY <1>0, <1>1, <1>2, <1>5, <1>6 DEF ExitInv, Gone
<1>11. OutputInv(j)' /\ ReportInv(j)'
  BY <1>0, <1>1, <1>2, <1>3, <1>5, <1>6 DEF OutputInv, ReportInv
<1> QED BY <1>7, <1>8, <1>9, <1>10, <1>11, OnlyLeavesOthers, StepKeeps DEF JobInv

-----------------------------------------------------------------------------
(* spawn.                                                                  *)

\* A step of the supervisor of job j changes no variable of another one.
Alone(j) ==
    \A k \in Jobs \ {j} :
        /\ sup'[k] = sup[k] /\ written'[k] = written[k] /\ got'[k] = got[k]
        /\ cause'[k] = cause[k] /\ report'[k] = report[k]
        /\ k \in childReaped' <=> k \in childReaped
        /\ k \in outOpen' <=> k \in outOpen
        /\ Failed(k)' <=> Failed(k)

\* And no process of another one.
Apart(j) ==
    /\ \A q \in Processes \ {P(j), G(j), H(j)} : life'[q] = life[q] /\ exit'[q] = exit[q] /\ holds'[q] = holds[q]
    /\ \A k \in Jobs \ {j} : Of(k, Ends) \subseteq holds[Server] => Of(k, Ends) \subseteq holds'[Server]

\* Such a step leaves the other jobs alone.
LEMMA SupervisorLeavesOthers ==
    ASSUME NEW j \in Jobs, Alone(j), Apart(j), NEW k \in Jobs, k # j
    PROVE  Same(k)
<1>1. {P(k), G(k), H(k)} \subseteq Processes \ {P(j), G(j), H(j)}
  BY ProcessFacts
<1> QED BY <1>1 DEF Alone, Apart, Same

\* The server closes ends of one job: it keeps those of the others.
LEMMA CloseServerFacts ==
    ASSUME TypeInv, NEW j \in Jobs, NEW S \in SUBSET Ends, Close(Server, Of(j, S))
    PROVE  /\ holds' \in [Processes \cup {Server} -> SUBSET (Jobs \X Ends)]
           /\ \A q \in Processes : holds'[q] = holds[q]
           /\ \A k \in Jobs \ {j} : Of(k, Ends) \subseteq holds[Server] => Of(k, Ends) \subseteq holds'[Server]
<1>1. Server \notin Processes
  BY DEF Processes, Kinds, Server
<1>2. holds' = [holds EXCEPT ![Server] = holds[Server] \ Of(j, S)]
  BY DEF Close
<1>3. /\ holds' \in [Processes \cup {Server} -> SUBSET (Jobs \X Ends)]
      /\ \A q \in Processes : holds'[q] = holds[q]
      /\ holds'[Server] = holds[Server] \ Of(j, S)
  BY <1>1, <1>2 DEF TypeInv
<1>4. \A k \in Jobs \ {j} : Of(k, Ends) \cap Of(j, S) = {}
  BY DEF Of
<1> QED BY <1>3, <1>4

\* The token, the path and the pipes.
LEMMA EnterKeeps ==
    ASSUME ExecutorInv, NEW j \in Jobs, Enter(j)
    PROVE  ExecutorInv'
<1>0. /\ TypeInv /\ FamilyInv(j) /\ PlaceInv(j) /\ PipeInv(j) /\ ExitInv(j) /\ OutputInv(j) /\ ReportInv(j)
      /\ sup[j] = "idle" /\ UNCHANGED <<life, exit, sent, written, got, childReaped, outOpen, cause>>
  BY DEF ExecutorInv, JobInv, Enter
<1>1. life[P(j)] = "none" /\ life[H(j)] = "none" /\ life[G(j)] = "none"
  BY <1>0 DEF PlaceInv, FamilyInv
<1>2. CASE \E how \in {"Cancelled", "launch_error"} : Done(j, how) /\ UNCHANGED holds
  <2>1. PICK how \in {"Cancelled", "launch_error"} :
          sup' = [sup EXCEPT ![j] = "done"] /\ report' = [report EXCEPT ![j] = how] /\ holds' = holds
    BY <1>2 DEF Done, Goto
  <2>2. TypeInv'
    BY <1>0, <2>1 DEF TypeInv
  <2>3. sup'[j] = "done" /\ report'[j] = how
    BY <1>0, <2>1 DEF TypeInv
  <2>4. FamilyInv(j)' /\ PlaceInv(j)' /\ PipeInv(j)' /\ ExitInv(j)' /\ OutputInv(j)'
    BY <1>0, <1>1, <2>1, <2>3
    DEF FamilyInv, PlaceInv, PipeInv, ExitInv, OutputInv, Launching, Supervised, Failed, Gone
  <2>5. ReportInv(j)'
    BY <1>0, <1>1, <2>3 DEF ReportInv, Started, H
  <2>6. Alone(j) /\ Apart(j)
    BY <1>0, <2>1 DEF Alone, Apart, TypeInv, Failed
  <2> QED BY <2>2, <2>4, <2>5, <2>6, SupervisorLeavesOthers, StepKeeps DEF JobInv
<1>3. CASE /\ holds' = [holds EXCEPT ![Server] = @ \cup Of(j, Ends)] /\ Goto(j, "piped") /\ report' = report
  <2>1. sup' = [sup EXCEPT ![j] = "piped"]
    BY <1>3 DEF Goto
  <2>2. Of(j, Ends) \in SUBSET (Jobs \X Ends) /\ Server \notin Processes
    BY ProcessFacts DEF Of
  <2>3. /\ holds' \in [Processes \cup {Server} -> SUBSET (Jobs \X Ends)]
        /\ \A q \in Processes : holds'[q] = holds[q]
        /\ holds'[Server] = holds[Server] \cup Of(j, Ends)
    BY <1>0, <1>3, <2>2 DEF TypeInv
  <2>4. TypeInv'
    BY <1>0, <1>3, <2>1, <2>3 DEF TypeInv
  <2>5. sup'[j] = "piped" /\ holds'[P(j)] = holds[P(j)] /\ holds'[H(j)] = holds[H(j)]
    BY <1>0, <2>1, <2>3, ProcessFacts DEF TypeInv
  <2>6. FamilyInv(j)' /\ PlaceInv(j)' /\ PipeInv(j)' /\ ExitInv(j)' /\ OutputInv(j)' /\ ReportInv(j)'
    BY <1>0, <1>1, <2>3, <2>5
    DEF FamilyInv, PlaceInv, PipeInv, ExitInv, OutputInv, ReportInv, Launching, Supervised, Failed, Gone
  <2>7. Alone(j) /\ Apart(j)
    BY <1>0, <1>3, <2>1, <2>3 DEF Alone, Apart, TypeInv, Failed
  <2> QED BY <2>4, <2>6, <2>7, SupervisorLeavesOthers, StepKeeps DEF JobInv
<1> QED BY <1>2, <1>3 DEF Enter

\* fork: P has every end that the server has, so those of its own job.
LEMMA ForkKeeps ==
    ASSUME ExecutorInv, NEW j \in Jobs, Fork(j)
    PROVE  ExecutorInv'
<1>0. /\ TypeInv /\ FamilyInv(j) /\ PlaceInv(j) /\ PipeInv(j) /\ ExitInv(j) /\ OutputInv(j) /\ ReportInv(j)
      /\ sup[j] = "piped" /\ UNCHANGED <<exit, sent, written, got, childReaped, outOpen, cause>>
  BY DEF ExecutorInv, JobInv, Fork
<1>1. life[P(j)] = "none" /\ life[H(j)] = "none" /\ life[G(j)] = "none" /\ j \notin childReaped
  BY <1>0 DEF PlaceInv, FamilyInv
<1>2. P(j) \in Processes /\ G(j) \in Processes \ {P(j)} /\ H(j) \in Processes \ {P(j)} /\ Server \notin Processes
  BY ProcessFacts
<1>3. CASE /\ Become(P(j), "start") /\ holds' = [holds EXCEPT ![P(j)] = holds[Server]]
           /\ Goto(j, "forked") /\ report' = report
  <2>1. sup' = [sup EXCEPT ![j] = "forked"] /\ sup'[j] = "forked"
    BY <1>0, <1>3 DEF Goto, TypeInv
  <2>2. /\ life' \in [Processes -> {"none", "start", "unshared", "waiting", "reaping",
                                    "setup", "running", "zombie", "reaped"}]
        /\ life'[P(j)] = "start" /\ \A q \in Processes \ {P(j)} : life'[q] = life[q]
    BY <1>0, <1>2, <1>3 DEF TypeInv, Become
  <2>3. /\ holds' \in [Processes \cup {Server} -> SUBSET (Jobs \X Ends)]
        /\ \A q \in Processes \ {P(j)} : holds'[q] = holds[q]
        /\ holds'[P(j)] = holds[Server] /\ holds'[Server] = holds[Server]
    BY <1>0, <1>2, <1>3 DEF TypeInv
  <2>4. TypeInv'
    <3>1. \A k \in childReaped : life'[P(k)] = life[P(k)]
      BY <1>0, <1>1, <2>2, ProcessFacts DEF TypeInv
    <3> QED BY <1>0, <1>3, <2>1, <2>2, <2>3, <3>1 DEF TypeInv
  <2>5. FamilyInv(j)' /\ PlaceInv(j)' /\ PipeInv(j)'
    BY <1>0, <1>1, <1>2, <2>1, <2>2, <2>3 DEF FamilyInv, PlaceInv, PipeInv, Launching, Supervised, Failed
  <2>6. ExitInv(j)' /\ OutputInv(j)' /\ ReportInv(j)'
    BY <1>0, <1>1, <1>2, <2>1, <2>2 DEF ExitInv, OutputInv, ReportInv, Gone
  <2>7. Alone(j) /\ Apart(j)
    BY <1>0, <1>3, <2>1, <2>2, <2>3 DEF Alone, Apart, TypeInv, Failed
  <2> QED BY <2>4, <2>5, <2>6, <2>7, SupervisorLeavesOthers, StepKeeps DEF JobInv
<1>4. CASE Close(Server, Of(j, Ends)) /\ Done(j, "launch_error") /\ life' = life
  <2>1. /\ sup' = [sup EXCEPT ![j] = "done"] /\ report' = [report EXCEPT ![j] = "launch_error"]
        /\ sup'[j] = "done" /\ report'[j] = "launch_error"
    BY <1>0, <1>4 DEF Done, Goto, TypeInv
  <2>2. /\ holds' \in [Processes \cup {Server} -> SUBSET (Jobs \X Ends)]
        /\ \A q \in Processes : holds'[q] = holds[q]
        /\ \A k \in Jobs \ {j} : Of(k, Ends) \subseteq holds[Server] => Of(k, Ends) \subseteq holds'[Server]
    BY <1>0, <1>4, CloseServerFacts
  <2>3. TypeInv'
    BY <1>0, <1>4, <2>1, <2>2 DEF TypeInv
  <2>4. FamilyInv(j)' /\ PlaceInv(j)' /\ PipeInv(j)' /\ ExitInv(j)' /\ OutputInv(j)'
    BY <1>0, <1>1, <1>2, <1>4, <2>1, <2>2
    DEF FamilyInv, PlaceInv, PipeInv, ExitInv, OutputInv, Launching, Supervised, Failed, Gone
  <2>5. ReportInv(j)'
    BY <1>1, <1>4, <2>1 DEF ReportInv, Started, H
  <2>6. Alone(j) /\ Apart(j)
    BY <1>0, <1>4, <2>1, <2>2 DEF Alone, Apart, TypeInv, Failed
  <2> QED BY <2>3, <2>4, <2>5, <2>6, SupervisorLeavesOthers, StepKeeps DEF JobInv
<1> QED BY <1>3, <1>4 DEF Fork, P

\* The server closes its copies, then sends P on.
LEMMA LaunchKeeps ==
    ASSUME ExecutorInv, NEW j \in Jobs, CloseEnds(j) \/ ReadSync(j)
    PROVE  ExecutorInv'
<1>0. /\ TypeInv /\ FamilyInv(j) /\ PlaceInv(j) /\ PipeInv(j) /\ ExitInv(j) /\ OutputInv(j) /\ ReportInv(j)
      /\ sup[j] \in {"forked", "sync"} /\ UNCHANGED <<life, exit, written, got, childReaped, outOpen, cause, report>>
  BY DEF ExecutorInv, JobInv, CloseEnds, ReadSync
<1>1. PICK to \in {"sync", "exec"} : sup' = [sup EXCEPT ![j] = to]
  BY DEF CloseEnds, ReadSync, Goto
<1>2. sup'[j] = to
  BY <1>0, <1>1 DEF TypeInv
<1>3. /\ holds' \in [Processes \cup {Server} -> SUBSET (Jobs \X Ends)]
      /\ \A q \in Processes : holds'[q] = holds[q]
      /\ \A k \in Jobs \ {j} : Of(k, Ends) \subseteq holds[Server] => Of(k, Ends) \subseteq holds'[Server]
  <2>1. CASE CloseEnds(j)
    BY <1>0, <2>1, CloseServerFacts DEF CloseEnds
  <2>2. CASE ReadSync(j)
    BY <1>0, <2>2 DEF ReadSync, TypeInv
  <2> QED BY <2>1, <2>2
<1>4. /\ sent' \subseteq Jobs \X {"sync1", "sync2", "pid", "failure"}
      /\ \A k \in Jobs : Failed(k)' <=> Failed(k)
  <2>1. CASE CloseEnds(j)
    BY <1>0, <2>1 DEF CloseEnds, TypeInv, Failed
  <2>2. CASE ReadSync(j)
    BY <1>0, <2>2, SendFacts DEF ReadSync
  <2> QED BY <2>1, <2>2
<1>5. TypeInv'
  BY <1>0, <1>1, <1>3, <1>4 DEF TypeInv
<1>6. FamilyInv(j)' /\ PlaceInv(j)' /\ PipeInv(j)' /\ ExitInv(j)'
  BY <1>0, <1>2, <1>3, <1>4, ProcessFacts DEF FamilyInv, PlaceInv, PipeInv, ExitInv, Launching, Supervised
<1>7. OutputInv(j)' /\ ReportInv(j)'
  BY <1>0, <1>2 DEF OutputInv, ReportInv
<1>8. Alone(j) /\ Apart(j)
  BY <1>0, <1>1, <1>3, <1>4 DEF Alone, Apart, TypeInv
<1> QED BY <1>5, <1>6, <1>7, <1>8, SupervisorLeavesOthers, StepKeeps DEF JobInv

\* The end of the failure pipe: whoever could still fail has it open, so the
\* program has been started.
LEMMA ReadExecKeeps ==
    ASSUME ExecutorInv, NEW j \in Jobs, ReadExec(j)
    PROVE  ExecutorInv'
<1>0. /\ TypeInv /\ FamilyInv(j) /\ PlaceInv(j) /\ PipeInv(j) /\ ExitInv(j) /\ OutputInv(j) /\ ReportInv(j)
      /\ sup[j] = "exec" /\ UNCHANGED <<life, exit, holds, sent, written, got, childReaped, cause, report>>
  BY DEF ExecutorInv, JobInv, ReadExec, kernelVars
<1>1. Apart(j)
  BY <1>0 DEF Apart
<1>2. CASE Failed(j) /\ Goto(j, "failed") /\ outOpen' = outOpen
  <2>1. sup' = [sup EXCEPT ![j] = "failed"] /\ sup'[j] = "failed"
    BY <1>0, <1>2 DEF Goto, TypeInv
  <2>2. TypeInv'
    BY <1>0, <1>2, <2>1 DEF TypeInv
  <2>3. FamilyInv(j)' /\ PlaceInv(j)' /\ PipeInv(j)' /\ ExitInv(j)'
    BY <1>0, <1>2, <2>1 DEF FamilyInv, PlaceInv, PipeInv, ExitInv, Launching, Supervised, Failed
  <2>4. OutputInv(j)' /\ ReportInv(j)'
    BY <2>1 DEF OutputInv, ReportInv
  <2>5. Alone(j)
    BY <1>0, <1>2, <2>1 DEF Alone, TypeInv, Failed
  <2> QED BY <1>1, <2>2, <2>3, <2>4, <2>5, SupervisorLeavesOthers, StepKeeps DEF JobInv
<1>3. CASE ~Failed(j) /\ AtEof(j, "exec") /\ Goto(j, "check") /\ outOpen' = outOpen \cup {j}
  <2>1. sup' = [sup EXCEPT ![j] = "check"] /\ sup'[j] = "check"
    BY <1>0, <1>3 DEF Goto, TypeInv
  <2>2. TypeInv'
    BY <1>0, <1>3, <2>1 DEF TypeInv
  <2>3. life[P(j)] \notin {"start", "unshared"} /\ life[H(j)] # "setup"
    <3>1. <<j, "exec">> \notin holds[P(j)] /\ <<j, "exec">> \notin holds[H(j)]
      BY <1>0, <1>3, ProcessFacts DEF AtEof, TypeInv
    <3>2. <<j, "exec">> \in Of(j, Ends) /\ <<j, "exec">> \in Of(j, Ends \ {"in"})
      BY OfFacts DEF Ends
    <3> QED BY <1>0, <3>1, <3>2 DEF PipeInv
  <2>4. life[H(j)] \in {"running", "zombie", "reaped"}
    BY <1>0, <1>3, <2>3 DEF PlaceInv, FamilyInv, Launching
  <2>5. FamilyInv(j)' /\ PlaceInv(j)' /\ PipeInv(j)' /\ ExitInv(j)'
    BY <1>0, <1>3, <2>1, <2>4 DEF FamilyInv, PlaceInv, PipeInv, ExitInv, Launching, Supervised, Failed
  <2>6. OutputInv(j)' /\ ReportInv(j)'
    BY <1>0, <1>3, <2>1 DEF OutputInv, ReportInv, PlaceInv, Launching
  <2>7. Alone(j)
    BY <1>0, <1>3, <2>1 DEF Alone, TypeInv, Failed
  <2> QED BY <1>1, <2>2, <2>5, <2>6, <2>7, SupervisorLeavesOthers, StepKeeps DEF JobInv
<1> QED BY <1>2, <1>3 DEF ReadExec, Failed

\* A failed launch is reaped and reported.
LEMMA LaunchFailedKeeps ==
    ASSUME ExecutorInv, NEW j \in Jobs, LaunchFailed(j)
    PROVE  ExecutorInv'
<1>0. /\ TypeInv /\ FamilyInv(j) /\ PlaceInv(j) /\ PipeInv(j) /\ ExitInv(j) /\ OutputInv(j) /\ ReportInv(j)
      /\ sup[j] = "failed" /\ UNCHANGED <<life, exit, sent, written, got, outOpen, cause>>
      /\ life[P(j)] = "zombie" /\ childReaped' = childReaped \cup {j}
  BY DEF ExecutorInv, JobInv, LaunchFailed, P
<1>1. /\ sup' = [sup EXCEPT ![j] = "done"] /\ report' = [report EXCEPT ![j] = "launch_error"]
      /\ sup'[j] = "done" /\ report'[j] = "launch_error"
  BY <1>0 DEF LaunchFailed, Done, Goto, TypeInv
<1>2. /\ holds' \in [Processes \cup {Server} -> SUBSET (Jobs \X Ends)]
      /\ \A q \in Processes : holds'[q] = holds[q]
      /\ \A k \in Jobs \ {j} : Of(k, Ends) \subseteq holds[Server] => Of(k, Ends) \subseteq holds'[Server]
  BY <1>0, CloseServerFacts DEF LaunchFailed
<1>3. TypeInv'
  BY <1>0, <1>1, <1>2 DEF TypeInv
<1>4. FamilyInv(j)' /\ PlaceInv(j)' /\ PipeInv(j)' /\ ExitInv(j)' /\ OutputInv(j)'
  BY <1>0, <1>1, <1>2, ProcessFacts
  DEF FamilyInv, PlaceInv, PipeInv, ExitInv, OutputInv, Launching, Supervised, Failed
<1>5. ReportInv(j)'
  BY <1>0, <1>1 DEF ReportInv, Started, FamilyInv, PlaceInv, Failed, H, Gone
<1>6. Alone(j) /\ Apart(j)
  BY <1>0, <1>1, <1>2 DEF Alone, Apart, TypeInv, Failed
<1> QED BY <1>3, <1>4, <1>5, <1>6, SupervisorLeavesOthers, StepKeeps DEF JobInv

-----------------------------------------------------------------------------
(* The supervision loop.                                                   *)

\* SIGKILL to the group of a job ends those of its processes that are alive.
LEMMA KillFacts ==
    ASSUME TypeInv, NEW j \in Jobs, kill_process_group(j)
    PROVE  /\ life' \in [Processes -> {"none", "start", "unshared", "waiting", "reaping",
                                       "setup", "running", "zombie", "reaped"}]
           /\ exit' \in [Processes -> {"none", "zero", "nonzero", "signal", "killed"}]
           /\ holds' \in [Processes \cup {Server} -> SUBSET (Jobs \X Ends)]
           /\ \A p \in {P(j), G(j), H(j)} :
                  /\ life[p] \in Gone => life'[p] = life[p] /\ exit'[p] = exit[p]
                  /\ life[p] \notin Gone => life'[p] = "zombie" /\ exit'[p] = "killed"
           /\ \A q \in Processes \ {P(j), G(j), H(j)} : life'[q] = life[q] /\ exit'[q] = exit[q] /\ holds'[q] = holds[q]
           /\ holds'[Server] = holds[Server]
<1>1. Group(j) = {P(j), G(j), H(j)}
  BY DEF Group, Of, Kinds, P, G, H
<1>2. /\ life' = [p \in Processes |-> IF p \in {P(j), G(j), H(j)} /\ life[p] \notin Gone THEN "zombie" ELSE life[p]]
      /\ exit' = [p \in Processes |-> IF p \in {P(j), G(j), H(j)} /\ life[p] \notin Gone THEN "killed" ELSE exit[p]]
      /\ holds' = [p \in Processes \cup {Server} |-> IF p \in {P(j), G(j), H(j)} THEN {} ELSE holds[p]]
  BY <1>1 DEF kill_process_group, Kill, TypeInv
<1>3. /\ P(j) \in Processes /\ G(j) \in Processes /\ H(j) \in Processes
      /\ Server \notin Processes
  BY ProcessFacts
<1>4. \A p \in Processes : life[p] \in {"none", "start", "unshared", "waiting", "reaping",
                                        "setup", "running", "zombie", "reaped"}
  BY DEF TypeInv
<1>5. \A p \in Processes : exit[p] \in {"none", "zero", "nonzero", "signal", "killed"}
  BY DEF TypeInv
<1>6. \A p \in Processes \cup {Server} : holds[p] \in SUBSET (Jobs \X Ends)
  BY DEF TypeInv
<1>7. life' \in [Processes -> {"none", "start", "unshared", "waiting", "reaping",
                               "setup", "running", "zombie", "reaped"}]
  BY <1>2, <1>4
<1>8. exit' \in [Processes -> {"none", "zero", "nonzero", "signal", "killed"}]
  BY <1>2, <1>5
<1>9. holds' \in [Processes \cup {Server} -> SUBSET (Jobs \X Ends)]
  BY <1>2, <1>6
<1>10. \A p \in {P(j), G(j), H(j)} :
           /\ life[p] \in Gone => life'[p] = life[p] /\ exit'[p] = exit[p]
           /\ life[p] \notin Gone => life'[p] = "zombie" /\ exit'[p] = "killed"
  BY <1>2, <1>3
<1>11. \A q \in Processes \ {P(j), G(j), H(j)} : life'[q] = life[q] /\ exit'[q] = exit[q] /\ holds'[q] = holds[q]
  BY <1>2
<1>12. holds'[Server] = holds[Server]
  BY <1>2, <1>3
<1> QED BY <1>7, <1>8, <1>9, <1>10, <1>11, <1>12

\* While the loop runs, P waits or is dead, and with P the program.
LEMMA SupervisedFacts ==
    ASSUME NEW j \in Jobs, FamilyInv(j), PlaceInv(j), sup[j] \in Supervised
    PROVE  /\ life[P(j)] \in {"waiting", "zombie"} /\ ~Failed(j)
           /\ life[H(j)] \in {"running", "zombie", "reaped"}
           /\ life[P(j)] = "zombie" => life[H(j)] \in {"zombie", "reaped"} /\ life[G(j)] \in Gone
           /\ life[P(j)] = "waiting" => life[H(j)] \in {"running", "zombie"} /\ life[G(j)] = "reaping"
  BY DEF FamilyInv, PlaceInv, Gone

\* What the kill in the loop does to the parts of the invariant about processes.
LEMMA KillKeeps ==
    ASSUME TypeInv, NEW j \in Jobs, FamilyInv(j), PlaceInv(j), PipeInv(j), ExitInv(j), sup[j] \in Supervised,
           kill_process_group(j), sup'[j] \in {"poll", "end"}, sent' = sent,
           life[P(j)] = "waiting" => cause'[j] # "none",
           cause[j] # "none" => cause'[j] # "none"
    PROVE  FamilyInv(j)' /\ PlaceInv(j)' /\ PipeInv(j)' /\ ExitInv(j)' /\ life'[P(j)] = "zombie" /\ life'[H(j)] # "running"
<1>1. /\ life[P(j)] \in {"waiting", "zombie"} /\ ~Failed(j)
      /\ life[H(j)] \in {"running", "zombie", "reaped"}
      /\ life[P(j)] = "zombie" => life[H(j)] \in {"zombie", "reaped"} /\ life[G(j)] \in Gone
      /\ life[P(j)] = "waiting" => life[H(j)] \in {"running", "zombie"} /\ life[G(j)] = "reaping"
  BY SupervisedFacts
<1>2. /\ life[P(j)] \in Gone => life'[P(j)] = life[P(j)] /\ exit'[P(j)] = exit[P(j)]
      /\ life[P(j)] \notin Gone => life'[P(j)] = "zombie" /\ exit'[P(j)] = "killed"
      /\ life[G(j)] \in Gone => life'[G(j)] = life[G(j)]
      /\ life[G(j)] \notin Gone => life'[G(j)] = "zombie"
      /\ life[H(j)] \in Gone => life'[H(j)] = life[H(j)] /\ exit'[H(j)] = exit[H(j)]
      /\ life[H(j)] \notin Gone => life'[H(j)] = "zombie" /\ exit'[H(j)] = "killed"
  BY KillFacts
<1>3. Failed(j)' <=> Failed(j)
  BY DEF Failed
<1>4. life'[P(j)] = "zombie" /\ life'[G(j)] \in Gone /\ life'[H(j)] \in {"zombie", "reaped"}
  BY <1>1, <1>2 DEF Gone
<1>5. FamilyInv(j)' /\ PlaceInv(j)' /\ PipeInv(j)'
  BY <1>1, <1>3, <1>4 DEF FamilyInv, PlaceInv, PipeInv, Launching, Supervised, Gone
<1>6. ExitInv(j)'
  BY <1>1, <1>2, <1>3, <1>4 DEF ExitInv, Gone
<1> QED BY <1>4, <1>5, <1>6

\* The round up to poll.
LEMMA CheckKeeps ==
    ASSUME ExecutorInv, NEW j \in Jobs, NEW first \in {"none", "Cancelled", "TimedOut", "MemoryExceeded"},
           NEW overdue \in BOOLEAN, CheckSeeing(j, first, overdue)
    PROVE  ExecutorInv'
<1> DEFINE reaped == life[P(j)] = "zombie"
           expired == j \in childReaped /\ overdue
           why == StopCause(j, reaped, first)
<1>0. /\ TypeInv /\ FamilyInv(j) /\ PlaceInv(j) /\ PipeInv(j) /\ ExitInv(j) /\ OutputInv(j) /\ ReportInv(j)
      /\ sup[j] = "check" /\ UNCHANGED <<sent, written, got, report>>
      /\ childReaped' = IF reaped THEN childReaped \cup {j} ELSE childReaped
  BY DEF ExecutorInv, JobInv, CheckSeeing, P
<1>1. \A k \in Jobs : Failed(k)' <=> Failed(k)
  BY <1>0 DEF Failed
<1>2. CASE Complete(j, reaped) /\ Goto(j, "end") /\ UNCHANGED <<life, exit, holds, outOpen, cause>>
  <2>1. sup' = [sup EXCEPT ![j] = "end"] /\ sup'[j] = "end" /\ reaped /\ j \notin outOpen
    BY <1>0, <1>2 DEF Goto, TypeInv, Complete
  <2>2. TypeInv'
    BY <1>0, <1>2, <2>1 DEF TypeInv
  <2>3. FamilyInv(j)' /\ PlaceInv(j)' /\ PipeInv(j)' /\ ExitInv(j)'
    BY <1>0, <1>1, <1>2, <2>1 DEF FamilyInv, PlaceInv, PipeInv, ExitInv, Launching, Supervised
  <2>4. OutputInv(j)' /\ ReportInv(j)'
    BY <1>0, <1>2, <2>1 DEF OutputInv, ReportInv
  <2>5. Alone(j) /\ Apart(j)
    BY <1>0, <1>1, <1>2, <2>1 DEF Alone, Apart, TypeInv
  <2> QED BY <2>2, <2>3, <2>4, <2>5, SupervisorLeavesOthers, StepKeeps DEF JobInv
<1>3. CASE /\ cause' = [cause EXCEPT ![j] = IF why = "none" THEN @ ELSE why]
           /\ IF why # "none" \/ (expired /\ ~Killed(j))
              THEN kill_process_group(j)
              ELSE UNCHANGED <<life, exit, holds>>
           /\ outOpen' = IF expired THEN outOpen \ {j} ELSE outOpen
           /\ Goto(j, IF expired THEN "end" ELSE "poll")
  <2>1. why \in {"none", "Cancelled", "TimedOut", "MemoryExceeded"}
    BY DEF StopCause
  <2>2. /\ cause' \in [Jobs -> {"none", "Cancelled", "TimedOut", "MemoryExceeded", "poll_failed"}]
        /\ cause'[j] = IF why = "none" THEN cause[j] ELSE why
        /\ \A k \in Jobs \ {j} : cause'[k] = cause[k]
    BY <1>0, <1>3, <2>1 DEF TypeInv
  <2>3. /\ sup' = [sup EXCEPT ![j] = IF expired THEN "end" ELSE "poll"]
        /\ sup'[j] = IF expired THEN "end" ELSE "poll"
    BY <1>0, <1>3 DEF Goto, TypeInv
  <2>4. expired => reaped /\ got[j] = written[j]
    BY <1>0 DEF TypeInv, OutputInv
  <2> HIDE DEF why
  <2>5. CASE kill_process_group(j) /\ (why # "none" \/ expired)
    <3>1. FamilyInv(j)' /\ PlaceInv(j)' /\ PipeInv(j)' /\ ExitInv(j)' /\ life'[P(j)] = "zombie" /\ life'[H(j)] # "running"
      <4>1. sup[j] \in Supervised /\ sup'[j] \in {"poll", "end"} /\ sent' = sent
        BY <1>0, <2>3 DEF Supervised
      <4>2. life[P(j)] = "waiting" => cause'[j] # "none"
        BY <2>2, <2>4, <2>5
      <4>3. cause[j] # "none" => cause'[j] # "none"
        BY <2>2
      <4> QED BY <1>0, <2>5, <4>1, <4>2, <4>3, KillKeeps
    <3>2. /\ life' \in [Processes -> {"none", "start", "unshared", "waiting", "reaping",
                                      "setup", "running", "zombie", "reaped"}]
          /\ exit' \in [Processes -> {"none", "zero", "nonzero", "signal", "killed"}]
          /\ holds' \in [Processes \cup {Server} -> SUBSET (Jobs \X Ends)]
          /\ \A q \in Processes \ {P(j), G(j), H(j)} : life'[q] = life[q] /\ exit'[q] = exit[q] /\ holds'[q] = holds[q]
          /\ holds'[Server] = holds[Server]
      BY <1>0, <2>5, KillFacts
    <3>3. TypeInv'
      <4>1. \A k \in childReaped' : life'[P(k)] = "zombie"
        BY <1>0, <3>1, <3>2, ProcessFacts DEF TypeInv
      <4> QED BY <1>0, <1>3, <2>2, <2>3, <3>2, <4>1 DEF TypeInv
    <3>4. OutputInv(j)' /\ ReportInv(j)'
      BY <1>0, <1>3, <2>3, <2>4, <3>1 DEF OutputInv, ReportInv
    <3>5. Alone(j) /\ Apart(j)
      BY <1>0, <1>1, <1>3, <2>2, <2>3, <3>2 DEF Alone, Apart, TypeInv
    <3> QED BY <3>1, <3>3, <3>4, <3>5, SupervisorLeavesOthers, StepKeeps DEF JobInv
  <2>6. CASE UNCHANGED <<life, exit, holds>> /\ why = "none"
    <3>1. TypeInv'
      BY <1>0, <1>3, <2>2, <2>3, <2>6 DEF TypeInv
    <3>2. FamilyInv(j)' /\ PlaceInv(j)' /\ PipeInv(j)' /\ ExitInv(j)'
      BY <1>0, <1>1, <2>2, <2>3, <2>6 DEF FamilyInv, PlaceInv, PipeInv, ExitInv, Launching, Supervised
    <3>3. OutputInv(j)' /\ ReportInv(j)'
      BY <1>0, <1>3, <2>2, <2>3, <2>4, <2>6 DEF OutputInv, ReportInv
    <3>4. Alone(j) /\ Apart(j)
      BY <1>0, <1>1, <1>3, <2>2, <2>3, <2>6 DEF Alone, Apart, TypeInv
    <3> QED BY <3>1, <3>2, <3>3, <3>4, SupervisorLeavesOthers, StepKeeps DEF JobInv
  <2> QED BY <1>3, <2>5, <2>6
<1> QED BY <1>2, <1>3 DEF CheckSeeing, P

\* poll, the reads and the input.
LEMMA PollKeeps ==
    ASSUME ExecutorInv, NEW j \in Jobs, Poll(j)
    PROVE  ExecutorInv'
<1>0. /\ TypeInv /\ FamilyInv(j) /\ PlaceInv(j) /\ PipeInv(j) /\ ExitInv(j) /\ OutputInv(j) /\ ReportInv(j)
      /\ sup[j] = "poll" /\ UNCHANGED <<life, exit, sent, written, childReaped, cause, report>>
      /\ sup' = [sup EXCEPT ![j] = "check"]
  BY DEF ExecutorInv, JobInv, Poll, Goto
<1>1. sup'[j] = "check"
  BY <1>0 DEF TypeInv
<1>2. /\ holds' \in [Processes \cup {Server} -> SUBSET (Jobs \X Ends)]
      /\ \A q \in Processes : holds'[q] = holds[q]
      /\ \A k \in Jobs \ {j} : Of(k, Ends) \subseteq holds[Server] => Of(k, Ends) \subseteq holds'[Server]
  <2>1. CASE Close(Server, Of(j, {"in"}))
    BY <1>0, <2>1, CloseServerFacts DEF Ends
  <2>2. CASE UNCHANGED holds
    BY <1>0, <2>2 DEF TypeInv
  <2> QED BY <2>1, <2>2 DEF Poll
<1>3. /\ got' \in [Jobs -> Nat] /\ got'[j] = written[j] /\ \A k \in Jobs \ {j} : got'[k] = got[k]
  BY <1>0 DEF Poll, TypeInv, OutputInv
<1>4. /\ outOpen' \subseteq Jobs /\ \A k \in Jobs \ {j} : k \in outOpen' <=> k \in outOpen
      /\ j \notin outOpen' => life[H(j)] # "running"
  <2>1. AtEof(j, "out") => life[H(j)] # "running"
    BY <1>0, ProcessFacts DEF AtEof, PipeInv, TypeInv
  <2> QED BY <1>0, <2>1 DEF Poll, TypeInv, OutputInv
<1>5. TypeInv'
  <2>1. sup' \in [Jobs -> {"idle", "piped", "forked", "sync", "exec", "failed", "check", "poll", "end", "done"}]
    BY <1>0 DEF TypeInv
  <2>2. \A k \in Jobs : got'[k] <= written'[k] /\ written'[k] <= MaxOutput
    <3> SUFFICES ASSUME NEW k \in Jobs PROVE got'[k] <= written'[k] /\ written'[k] <= MaxOutput
      OBVIOUS
    <3>1. written'[k] = written[k] /\ written[k] \in Nat /\ got[k] <= written[k] /\ written[k] <= MaxOutput
      BY <1>0 DEF TypeInv
    <3>2. got'[k] = written[k] \/ got'[k] = got[k]
      BY <1>3
    <3> QED BY <3>1, <3>2
  <2> QED BY <1>0, <1>2, <1>3, <1>4, <2>1, <2>2, Zenon DEF TypeInv, P
<1>6. FamilyInv(j)' /\ PlaceInv(j)' /\ PipeInv(j)' /\ ExitInv(j)'
  BY <1>0, <1>1, <1>2, ProcessFacts DEF FamilyInv, PlaceInv, PipeInv, ExitInv, Launching, Supervised, Failed
<1>7. OutputInv(j)' /\ ReportInv(j)'
  BY <1>0, <1>1, <1>3, <1>4 DEF OutputInv, ReportInv
<1>8. Alone(j) /\ Apart(j)
  BY <1>0, <1>2, <1>3, <1>4 DEF Alone, Apart, TypeInv, Failed
<1> QED BY <1>5, <1>6, <1>7, <1>8, SupervisorLeavesOthers, StepKeeps DEF JobInv

\* poll fails.
LEMMA PollFailsKeeps ==
    ASSUME ExecutorInv, NEW j \in Jobs, PollFails(j)
    PROVE  ExecutorInv'
<1>0. /\ TypeInv /\ FamilyInv(j) /\ PlaceInv(j) /\ PipeInv(j) /\ ExitInv(j) /\ OutputInv(j) /\ ReportInv(j)
      /\ sup[j] = "poll" /\ UNCHANGED <<sent, written, got, childReaped, outOpen, report>>
      /\ sup' = [sup EXCEPT ![j] = "end"] /\ cause' = [cause EXCEPT ![j] = IF Killed(j) THEN @ ELSE "poll_failed"]
  BY DEF ExecutorInv, JobInv, PollFails, Goto
<1>1. /\ sup'[j] = "end" /\ cause'[j] # "none" /\ \A k \in Jobs \ {j} : cause'[k] = cause[k]
      /\ cause' \in [Jobs -> {"none", "Cancelled", "TimedOut", "MemoryExceeded", "poll_failed"}]
  BY <1>0 DEF TypeInv, Killed
<1>2. OutputInv(j)' /\ ReportInv(j)'
  BY <1>1 DEF OutputInv, ReportInv
<1>3. Alone(j)
  BY <1>0, <1>1 DEF Alone, TypeInv, Failed
<1>4. CASE kill_process_group(j)
  <2>1. FamilyInv(j)' /\ PlaceInv(j)' /\ PipeInv(j)' /\ ExitInv(j)' /\ life'[P(j)] = "zombie" /\ life'[H(j)] # "running"
    <3>1. sup[j] \in Supervised /\ sup'[j] \in {"poll", "end"} /\ sent' = sent
      BY <1>0, <1>1 DEF Supervised
    <3>2. life[P(j)] = "waiting" => cause'[j] # "none"
      BY <1>1
    <3>3. cause[j] # "none" => cause'[j] # "none"
      BY <1>1
    <3> QED BY <1>0, <1>4, <3>1, <3>2, <3>3, KillKeeps
  <2>2. /\ life' \in [Processes -> {"none", "start", "unshared", "waiting", "reaping",
                                    "setup", "running", "zombie", "reaped"}]
        /\ exit' \in [Processes -> {"none", "zero", "nonzero", "signal", "killed"}]
        /\ holds' \in [Processes \cup {Server} -> SUBSET (Jobs \X Ends)]
        /\ \A q \in Processes \ {P(j), G(j), H(j)} : life'[q] = life[q] /\ exit'[q] = exit[q] /\ holds'[q] = holds[q]
        /\ holds'[Server] = holds[Server]
    BY <1>0, <1>4, KillFacts
  <2>3. TypeInv'
    <3>1. \A k \in childReaped' : life'[P(k)] = "zombie"
      BY <1>0, <2>1, <2>2, ProcessFacts DEF TypeInv
    <3> QED BY <1>0, <1>1, <2>2, <3>1 DEF TypeInv
  <2>4. Apart(j)
    BY <2>2 DEF Apart
  <2> QED BY <1>2, <1>3, <2>1, <2>3, <2>4, SupervisorLeavesOthers, StepKeeps DEF JobInv
<1>5. CASE UNCHANGED <<life, exit, holds>>
  <2>1. TypeInv'
    BY <1>0, <1>1, <1>5 DEF TypeInv
  <2>2. FamilyInv(j)' /\ PlaceInv(j)' /\ PipeInv(j)' /\ ExitInv(j)'
    BY <1>0, <1>1, <1>5 DEF FamilyInv, PlaceInv, PipeInv, ExitInv, Launching, Supervised, Failed
  <2>3. Apart(j)
    BY <1>5 DEF Apart
  <2> QED BY <1>2, <1>3, <2>1, <2>2, <2>3, SupervisorLeavesOthers, StepKeeps DEF JobInv
<1> QED BY <1>4, <1>5 DEF PollFails

\* spawn returns with its report.
LEMMA FinishKeeps ==
    ASSUME ExecutorInv, NEW j \in Jobs, Finish(j)
    PROVE  ExecutorInv'
<1>0. /\ TypeInv /\ FamilyInv(j) /\ PlaceInv(j) /\ PipeInv(j) /\ ExitInv(j) /\ OutputInv(j) /\ ReportInv(j)
      /\ sup[j] = "end" /\ UNCHANGED <<life, exit, sent, written, got, cause>>
      /\ life[P(j)] = "zombie" /\ childReaped' = childReaped \cup {j} /\ outOpen' = outOpen \ {j}
  BY DEF ExecutorInv, JobInv, Finish, P
<1>1. Termination(j) \in {"Cancelled", "TimedOut", "MemoryExceeded", "Completed", "NonZeroExit", "Signaled"}
  BY <1>0 DEF Termination, TypeInv
<1>2. /\ sup' = [sup EXCEPT ![j] = "done"] /\ report' = [report EXCEPT ![j] = Termination(j)]
      /\ sup'[j] = "done" /\ report'[j] = Termination(j)
  BY <1>0 DEF Finish, Done, Goto, TypeInv
<1>3. /\ holds' \in [Processes \cup {Server} -> SUBSET (Jobs \X Ends)]
      /\ \A q \in Processes : holds'[q] = holds[q]
      /\ \A k \in Jobs \ {j} : Of(k, Ends) \subseteq holds[Server] => Of(k, Ends) \subseteq holds'[Server]
  BY <1>0, CloseServerFacts DEF Finish
<1>4. TypeInv'
  BY <1>0, <1>1, <1>2, <1>3 DEF TypeInv
<1>5. life[H(j)] \in {"zombie", "reaped"} /\ ~Failed(j)
  BY <1>0, SupervisedFacts DEF Supervised
<1>6. FamilyInv(j)' /\ PlaceInv(j)' /\ PipeInv(j)' /\ ExitInv(j)' /\ OutputInv(j)'
  BY <1>0, <1>2, <1>3, <1>5, ProcessFacts
  DEF FamilyInv, PlaceInv, PipeInv, ExitInv, OutputInv, Launching, Supervised, Failed
<1>7. ReportInv(j)'
  <2>1. Started(j)'
    BY <1>0, <1>5 DEF Started, Failed, H, Gone
  <2>2. exit[P(j)] \in {"zero", "nonzero", "signal", "killed"}
    BY <1>0, ProcessFacts DEF ExitInv, TypeInv
  <2>3. exit[P(j)] # "killed" => exit[P(j)] = exit[H(j)]
    BY <1>0, <1>5 DEF ExitInv
  <2>4. Termination(j) = "Completed" => exit[P(j)] = "zero" /\ cause[j] \in {"none", "poll_failed"}
    BY <1>0 DEF Termination, P, TypeInv
  <2>5. Termination(j) = "NonZeroExit" => exit[P(j)] = "nonzero"
    BY <1>0 DEF Termination, P, TypeInv
  <2>6. Termination(j) = "Signaled" => exit[P(j)] \in {"signal", "killed"} /\ cause[j] \in {"none", "poll_failed"}
    BY <1>0, <2>2 DEF Termination, P, TypeInv
  <2>7. cause[j] = "none" => exit[P(j)] # "killed" /\ got[j] = written[j]
    BY <1>0 DEF ExitInv, OutputInv
  <2> QED BY <1>0, <1>1, <1>2, <2>1, <2>3, <2>4, <2>5, <2>6, <2>7 DEF ReportInv
<1>8. Alone(j) /\ Apart(j)
  BY <1>0, <1>2, <1>3 DEF Alone, Apart, TypeInv, Failed
<1> QED BY <1>4, <1>6, <1>7, <1>8, SupervisorLeavesOthers, StepKeeps DEF JobInv

-----------------------------------------------------------------------------
(* Theorems.                                                               *)

\* Before the first spawn there is nothing.
LEMMA ExecutorInit == Init => ExecutorInv
<1> SUFFICES ASSUME Init PROVE ExecutorInv
  OBVIOUS
<1>1. TypeInv
  BY ExecutorAssumption DEF Init, TypeInv
<1>2. ASSUME NEW j \in Jobs PROVE JobInv(j)
  <2>1. /\ life[P(j)] = "none" /\ life[G(j)] = "none" /\ life[H(j)] = "none"
        /\ exit[P(j)] = "none" /\ exit[H(j)] = "none" /\ sup[j] = "idle" /\ cause[j] = "none"
        /\ j \notin childReaped
    BY ProcessFacts DEF Init
  <2> QED BY <2>1 DEF JobInv, FamilyInv, PlaceInv, PipeInv, ExitInv, OutputInv, ReportInv, Launching, Supervised, Gone
<1> QED BY <1>1, <1>2 DEF ExecutorInv

\* Every step of a supervisor and of a process keeps the invariant.
LEMMA ExecutorNext == ExecutorInv /\ [Next]_vars => ExecutorInv'
<1> SUFFICES ASSUME ExecutorInv, [Next]_vars PROVE ExecutorInv'
  OBVIOUS
<1>1. CASE UNCHANGED vars
  <2>1. TypeInv'
    BY <1>1 DEF vars, ExecutorInv, TypeInv
  <2>2. ASSUME NEW j \in Jobs PROVE JobInv(j)'
    <3>1. Same(j)
      BY <1>1 DEF vars, Same, Failed
    <3> QED BY <3>1, SameKeeps DEF ExecutorInv
  <2> QED BY <2>1, <2>2 DEF ExecutorInv
<1>2. ASSUME NEW j \in Jobs, LaunchNext(j) PROVE ExecutorInv'
  BY <1>2, UnshareKeeps, ForkPayloadKeeps, ReapKeeps, ExecKeeps DEF LaunchNext
<1>3. ASSUME NEW j \in Jobs, SupervisorNext(j) PROVE ExecutorInv'
  <2>1. CASE Check(j)
    BY <2>1, CheckKeeps DEF Check
  <2> QED BY <1>3, <2>1, EnterKeeps, ForkKeeps, LaunchKeeps, ReadExecKeeps, LaunchFailedKeeps,
             PollKeeps, PollFailsKeeps, FinishKeeps DEF SupervisorNext
<1> QED BY <1>1, <1>2, <1>3, OutputKeeps, ProgramEndsKeeps DEF Next

\* For each job: who of its processes lives, how far the launch is, who holds the
\* ends that matter, how the processes ended and what has been read fit together,
\* whatever the other jobs inherit and hold open.
THEOREM ExecutorInvariant == Spec => []ExecutorInv
  BY ExecutorInit, ExecutorNext, PTL DEF Spec

\* When spawn returns, every process it has started is dead: the end of P is the
\* end of its group, on every way out of the launch and of the loop.
THEOREM NoProcessOutlives == Spec => []NothingLeftBehind
<1>1. ExecutorInv => NothingLeftBehind
  <2> SUFFICES ASSUME ExecutorInv PROVE NothingLeftBehind
    OBVIOUS
  <2>1. ASSUME NEW j \in Jobs, sup[j] = "done", NEW p \in Group(j) PROVE life[p] \in Gone
    <3>1. Group(j) = {P(j), G(j), H(j)}
      BY DEF Group, Of, Kinds, P, G, H
    <3> QED BY <2>1, <3>1 DEF ExecutorInv, JobInv, FamilyInv, PlaceInv, Gone
  <2> QED BY <2>1, TypesAreOK DEF NothingLeftBehind, ExecutorInv
<1> QED BY <1>1, ExecutorInvariant, PTL

\* The report is about the program: an end is that of a program that was started
\* and that nobody had killed, a failed launch is never taken for one, and the
\* output of a completed program is complete.
THEOREM ReportsAreTrue == Spec => []ReportIsTrue
<1>1. ExecutorInv => ReportIsTrue
  BY DEF ExecutorInv, JobInv, ReportInv, ReportIsTrue, H
<1> QED BY <1>1, ExecutorInvariant, PTL

=============================================================================
