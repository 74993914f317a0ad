---------------------------- MODULE LocalExecutor ----------------------------
(***************************************************************************)
(* LocalExecutor::spawn (judge/local_executor.cpp): several worker threads *)
(* start and supervise sandboxed programs at the same time.  A spawn makes *)
(* its pipes and forks P; P makes new namespaces, forks G, which is their  *)
(* init process, and H, which becomes the program; the supervisor reads    *)
(* how the launch went, then polls, reads, kills and reaps.                *)
(*                                                                         *)
(* The state of interest is who holds the write end of a pipe: a reader    *)
(* sees the end of the data only when nobody does, and a fork copies all   *)
(* ends that the server holds at that moment, those of the spawns of other *)
(* threads included.  Processes, pipes and signals are the kernel's.  The  *)
(* pipe of stderr goes the way of stdout and is left out.                  *)
(***************************************************************************)
EXTENDS Integers, FiniteSets

CONSTANTS
    Jobs,      \* calls of spawn, each of a worker thread of its own
    Readers,   \* the jobs whose program reads its input to the end
    MaxOutput  \* bound: pieces of output of a program

ASSUME ExecutorAssumption == IsFiniteSet(Jobs) /\ Readers \subseteq Jobs /\ MaxOutput \in Nat

Kinds == {"P", "G", "H"}
Processes == Jobs \X Kinds
Server == <<"server", "server">>

\* Write ends: input of the program, its output, the record of a failed launch,
\* the token of P, the id of H.
Ends == {"in", "out", "exec", "sync1", "pid"}

VARIABLES
    sup,        \* per job, where spawn is
    life,       \* per process, where it is
    exit,       \* per process, how it ended
    holds,      \* per process, the write ends it has open
    sent,       \* messages in the pipes of a launch
    written,    \* per job, output of the program
    got,        \* per job, output that was read
    childReaped,\* child_reaped: jobs whose P was reaped
    outOpen,    \* out_open: jobs whose output is still read
    cause,      \* per job, why its supervisor has killed the group, or "poll_failed"
    report      \* per job, result.termination

vars == <<sup, life, exit, holds, sent, written, got, childReaped, outOpen,
          cause, report>>

kernelVars == <<life, exit, holds, sent, written>>
supVars == <<sup, got, childReaped, outOpen, cause, report>>

Init ==
    /\ sup = [j \in Jobs |-> "idle"]
    /\ life = [p \in Processes |-> "none"]
    /\ exit = [p \in Processes |-> "none"]
    /\ holds = [p \in Processes \cup {Server} |-> {}]
    /\ sent = {}
    /\ written = [j \in Jobs |-> 0]
    /\ got = [j \in Jobs |-> 0]
    /\ childReaped = {}
    /\ outOpen = {}
    /\ cause = [j \in Jobs |-> "none"]
    /\ report = [j \in Jobs |-> "none"]

Of(j, ends) == {j} \X ends
Group(j) == Of(j, Kinds)
Gone == {"none", "zombie", "reaped"}
AtEof(j, end) == \A p \in DOMAIN holds : <<j, end>> \notin holds[p]

Goto(j, to) == sup' = [sup EXCEPT ![j] = to]
Become(p, to) == life' = [life EXCEPT ![p] = to]
Close(p, ends) == holds' = [holds EXCEPT ![p] = @ \ ends]
Send(j, message) == sent' = sent \cup {<<j, message>>}

-----------------------------------------------------------------------------
(* The processes of job j.                                                 *)

\* p ends; the kernel closes what it holds.
Exit(p, how) ==
    /\ Become(p, "zombie")
    /\ exit' = [exit EXCEPT ![p] = how]
    /\ holds' = [holds EXCEPT ![p] = {}]

\* A failed step of the launch: the record is written, then _exit(127).
Fail(p) == Send(p[1], "failure") /\ Exit(p, "nonzero")

\* P drops the end of the input and makes its namespaces.
UnshareStep(j) ==
    /\ life[<<j, "P">>] = "start"
    /\ \/ /\ Become(<<j, "P">>, "unshared")
          /\ Close(<<j, "P">>, Of(j, {"in"}))
          /\ Send(j, "sync1")
          /\ UNCHANGED exit
       \/ Fail(<<j, "P">>)
    /\ UNCHANGED <<written, supVars>>

\* The server has written the user maps: P forks G, which closes the ends of its
\* own job and then reaps orphans; P forks H, sends its id, closes the ends of its
\* own job and waits.  If a fork fails, P kills and reaps G.  Until H is there
\* nobody else can tell these steps apart.
ForkPayload(j) ==
    /\ life[<<j, "P">>] = "unshared"
    /\ <<j, "sync2">> \in sent
    /\ \/ /\ life' = [p \in Processes |-> CASE p = <<j, "P">> -> "waiting"
                                            [] p = <<j, "G">> -> "reaping"
                                            [] p = <<j, "H">> -> "setup"
                                            [] OTHER -> life[p]]
          /\ LET others == holds[<<j, "P">>] \ Of(j, Ends)
             IN  holds' = [holds EXCEPT ![<<j, "P">>] = others, ![<<j, "G">>] = others,
                                        ![<<j, "H">>] = holds[<<j, "P">>]]
          /\ Send(j, "pid")
          /\ UNCHANGED exit
       \/ Fail(<<j, "P">>)
    /\ UNCHANGED <<written, supVars>>

\* P reaps H, kills and reaps G, and ends the way H did.
Reap(j) ==
    /\ life[<<j, "P">>] = "waiting"
    /\ life[<<j, "H">>] = "zombie"
    /\ life' = [p \in Processes |-> CASE p = <<j, "P">> -> "zombie"
                                      [] p \in Of(j, {"G", "H"}) -> "reaped"
                                      [] OTHER -> life[p]]
    /\ exit' = [exit EXCEPT ![<<j, "P">>] = exit[<<j, "H">>]]
    /\ holds' = [holds EXCEPT ![<<j, "P">>] = {}, ![<<j, "G">>] = {}]
    /\ UNCHANGED <<sent, written, supVars>>

\* H enters the sandbox and calls execve, which leaves it its output only.
Exec(j) ==
    /\ life[<<j, "H">>] = "setup"
    /\ \/ /\ Become(<<j, "H">>, "running")
          /\ Close(<<j, "H">>, holds[<<j, "H">>] \ Of(j, {"out"}))
          /\ UNCHANGED <<exit, sent>>
       \/ Fail(<<j, "H">>)
    /\ UNCHANGED <<written, supVars>>

\* The program writes, or ends.
Output(j) ==
    /\ life[<<j, "H">>] = "running"
    /\ written[j] < MaxOutput
    /\ written' = [written EXCEPT ![j] = @ + 1]
    /\ UNCHANGED <<life, exit, holds, sent, supVars>>

ProgramEnds(j) ==
    /\ life[<<j, "H">>] = "running"
    /\ j \in Readers => AtEof(j, "in")
    /\ \E how \in {"zero", "nonzero", "signal"} : Exit(<<j, "H">>, how)
    /\ UNCHANGED <<sent, written, supVars>>

-----------------------------------------------------------------------------
(* spawn: the launch.                                                      *)

Done(j, how) == Goto(j, "done") /\ report' = [report EXCEPT ![j] = how]

\* The token, the path, the filter and the pipes.
Enter(j) ==
    /\ sup[j] = "idle"
    /\ \/ \E how \in {"Cancelled", "launch_error"} : Done(j, how) /\ UNCHANGED holds
       \/ /\ holds' = [holds EXCEPT ![Server] = @ \cup Of(j, Ends)]
          /\ Goto(j, "piped")
          /\ UNCHANGED report
    /\ UNCHANGED <<life, exit, sent, written, got, childReaped, outOpen, cause>>

\* fork copies every end the server has open, whichever thread it belongs to.
Fork(j) ==
    /\ sup[j] = "piped"
    /\ \/ /\ Become(<<j, "P">>, "start")
          /\ holds' = [holds EXCEPT ![<<j, "P">>] = holds[Server]]
          /\ Goto(j, "forked")
          /\ UNCHANGED report
       \/ /\ Close(Server, Of(j, Ends))
          /\ Done(j, "launch_error")
          /\ UNCHANGED life
    /\ UNCHANGED <<exit, sent, written, got, childReaped, outOpen, cause>>

CloseEnds(j) ==
    /\ sup[j] = "forked"
    /\ Close(Server, Of(j, Ends \ {"in"}))
    /\ Goto(j, "sync")
    /\ UNCHANGED <<life, exit, sent, written, got, childReaped, outOpen, cause, report>>

\* Blocking reads: the data, or the end when nobody holds the write end.
ReadSync(j) ==
    /\ sup[j] = "sync"
    /\ <<j, "sync1">> \in sent \/ AtEof(j, "sync1")
    /\ Send(j, "sync2")
    /\ Goto(j, "exec")
    /\ UNCHANGED <<life, exit, holds, written, got, childReaped, outOpen, cause, report>>

\* The id of H, then the record of a failed launch, or the end of both pipes.
ReadExec(j) ==
    /\ sup[j] = "exec"
    /\ <<j, "pid">> \in sent \/ AtEof(j, "pid")
    /\ \/ /\ <<j, "failure">> \in sent
          /\ Goto(j, "failed")
          /\ UNCHANGED outOpen
       \/ /\ <<j, "failure">> \notin sent
          /\ AtEof(j, "exec")
          /\ Goto(j, "check")
          /\ outOpen' = outOpen \cup {j}
    /\ UNCHANGED <<kernelVars, got, childReaped, cause, report>>

\* waitpid; the child is reaped and spawn returns.
LaunchFailed(j) ==
    /\ sup[j] = "failed"
    /\ life[<<j, "P">>] = "zombie"
    /\ childReaped' = childReaped \cup {j}
    /\ Close(Server, Of(j, Ends))
    /\ Done(j, "launch_error")
    /\ UNCHANGED <<life, exit, sent, written, got, outOpen, cause>>

-----------------------------------------------------------------------------
(* spawn: the supervision loop.                                            *)

\* killed: the supervisor has killed the group.
Killed(j) == cause[j] # "none"

\* Mutant of StopCause: the deadline is not looked at.
StopCause_NoDeadline(j, reaped, first) ==
    IF Killed(j) \/ first = "TimedOut" \/ (reaped /\ first # "Cancelled") THEN "none" ELSE first

\* Why the group is killed in this round, if it is, when `first' is the first of
\* token, deadline and memory that calls for it; only the token counts once the
\* child is reaped.
StopCause(j, reaped, first) ==
    IF Killed(j) \/ (reaped /\ first # "Cancelled") THEN "none" ELSE first

\* Mutant of Complete: the loop is left with the child.
Complete_Early(j, reaped) == reaped

\* The child is reaped and the output is read to its end.
Complete(j, reaped) == reaped /\ j \notin outOpen

\* SIGKILL: the processes end where they are.
Kill(victims) ==
    /\ life' = [p \in Processes |-> IF p \in victims /\ life[p] \notin Gone THEN "zombie" ELSE life[p]]
    /\ exit' = [p \in Processes |-> IF p \in victims /\ life[p] \notin Gone THEN "killed" ELSE exit[p]]
    /\ holds' = [p \in DOMAIN holds |-> IF p \in victims THEN {} ELSE holds[p]]

\* Mutant of kill_process_group: only the child is killed.
kill_process_group_ChildOnly(j) == Kill(Of(j, {"P"}))

kill_process_group(j) == Kill(Group(j))

\* The round up to poll: waitpid, the way out, the reasons to kill, and 200 ms
\* after the child, if not in the round that reaps it, the end of waiting for the
\* output.  A reason to stop that was seen ends the supervision, so nothing has
\* to remember that the token is set or that a limit has passed.
CheckSeeing(j, first, overdue) ==
    LET reaped == life[<<j, "P">>] = "zombie"
        expired == j \in childReaped /\ overdue
        why == StopCause(j, reaped, first)
    IN  /\ sup[j] = "check"
        /\ childReaped' = IF reaped THEN childReaped \cup {j} ELSE childReaped
        /\ \/ /\ Complete(j, reaped)
              /\ Goto(j, "end")
              /\ UNCHANGED <<life, exit, holds, outOpen, cause>>
           \/ /\ ~Complete(j, reaped)
              /\ cause' = [cause EXCEPT ![j] = IF why = "none" THEN @ ELSE why]
              /\ IF why # "none" \/ (expired /\ ~Killed(j))
                 THEN kill_process_group(j)
                 ELSE UNCHANGED <<life, exit, holds>>
              /\ outOpen' = IF expired THEN outOpen \ {j} ELSE outOpen
              /\ Goto(j, IF expired THEN "end" ELSE "poll")
        /\ UNCHANGED <<sent, written, got, report>>

Check(j) ==
    \E first \in {"none", "Cancelled", "TimedOut", "MemoryExceeded"}, overdue \in BOOLEAN :
        CheckSeeing(j, first, overdue)

\* poll, and what is there is read; the input is written and then closed, at the
\* latest when the program has read it all.
Poll(j) ==
    /\ sup[j] = "poll"
    /\ IF j \in outOpen
       THEN /\ got' = [got EXCEPT ![j] = written[j]]
            /\ outOpen' = IF AtEof(j, "out") THEN outOpen \ {j} ELSE outOpen
       ELSE UNCHANGED <<got, outOpen>>
    /\ \/ ~Killed(j) /\ Close(Server, Of(j, {"in"}))
       \/ (j \notin Readers \/ Killed(j)) /\ UNCHANGED holds
    /\ Goto(j, "check")
    /\ UNCHANGED <<life, exit, sent, written, childReaped, cause, report>>

\* poll fails: the loop is left, the group is killed.
PollFails(j) ==
    /\ sup[j] = "poll"
    /\ cause' = [cause EXCEPT ![j] = IF Killed(j) THEN @ ELSE "poll_failed"]
    /\ IF j \notin childReaped THEN kill_process_group(j) ELSE UNCHANGED <<life, exit, holds>>
    /\ Goto(j, "end")
    /\ UNCHANGED <<sent, written, got, childReaped, outOpen, report>>

\* result.termination: what the supervisor did counts before the status.
Termination(j) ==
    IF cause[j] \in {"none", "poll_failed"}
    THEN CASE exit[<<j, "P">>] = "zero" -> "Completed"
           [] exit[<<j, "P">>] = "nonzero" -> "NonZeroExit"
           [] OTHER -> "Signaled"
    ELSE cause[j]

\* waitpid if still needed; the ends are closed and spawn returns.
Finish(j) ==
    /\ sup[j] = "end"
    /\ life[<<j, "P">>] = "zombie"
    /\ childReaped' = childReaped \cup {j}
    /\ Close(Server, Of(j, Ends))
    /\ outOpen' = outOpen \ {j}
    /\ Done(j, Termination(j))
    /\ UNCHANGED <<life, exit, sent, written, got, cause>>

-----------------------------------------------------------------------------
SupervisorNext(j) ==
    \/ Enter(j) \/ Fork(j) \/ CloseEnds(j) \/ ReadSync(j) \/ ReadExec(j)
    \/ LaunchFailed(j) \/ Check(j) \/ Poll(j) \/ PollFails(j) \/ Finish(j)

\* Steps of P, G and of H up to execve, which do not wait for anything else.
LaunchNext(j) ==
    UnshareStep(j) \/ ForkPayload(j) \/ Reap(j) \/ Exec(j)

Next ==
    \E j \in Jobs :
        SupervisorNext(j) \/ LaunchNext(j) \/ Output(j) \/ ProgramEnds(j)

Spec == Init /\ [][Next]_vars

\* Threads and processes that can run do, and time passes: a supervisor that goes
\* round and round sees both limits behind it.  Nothing makes a program end.
Fairness ==
    \A j \in Jobs :
        WF_vars(SupervisorNext(j)) /\ SF_vars(CheckSeeing(j, "TimedOut", TRUE)) /\ WF_vars(LaunchNext(j))

FairSpec == Spec /\ Fairness

\* In addition, every program ends once its input does (RLIMIT_CPU ends the
\* ones that compute for ever).
FairProgramsSpec == FairSpec /\ \A j \in Jobs : WF_vars(ProgramEnds(j))

-----------------------------------------------------------------------------
(* Properties.                                                             *)

ExecutorTypeOK ==
    /\ sup \in [Jobs -> {"idle", "piped", "forked", "sync", "exec", "failed", "check", "poll", "end", "done"}]
    /\ life \in [Processes -> {"none", "start", "unshared", "waiting", "reaping",
                               "setup", "running", "zombie", "reaped"}]
    /\ exit \in [Processes -> {"none", "zero", "nonzero", "signal", "killed"}]
    /\ childReaped \subseteq {j \in Jobs : life[<<j, "P">>] = "zombie"}
    /\ \A p \in DOMAIN holds : holds[p] \subseteq Jobs \X Ends
    /\ \A j \in Jobs : got[j] \in 0..written[j] /\ written[j] \in 0..MaxOutput
    /\ report \in [Jobs -> {"none", "launch_error", "Cancelled", "TimedOut", "MemoryExceeded",
                            "Completed", "NonZeroExit", "Signaled"}]

\* H has called execve.
Started(j) == life[<<j, "H">>] = "running" \/ (life[<<j, "H">>] \in Gone /\ <<j, "failure">> \notin sent /\ life[<<j, "H">>] # "none")

\* The state is well typed, and when spawn returns, every process it has started
\* is dead, whichever of the launch, the program, the token, the deadline or poll
\* ended it: none outlives its job (kill_process_group, and P that kills G).
NothingLeftBehind ==
    /\ ExecutorTypeOK
    /\ \A j \in Jobs : sup[j] = "done" => \A p \in Group(j) : life[p] \in Gone

\* The report is about the program that was asked for: a normal or abnormal end
\* is the one of a program that was really started and that nobody had killed,
\* and a failed launch is never reported as an end of the program.  A program that
\* is reported as completed has all its output compared, also when a process of
\* another job keeps the pipe open: what was written before the end is read before
\* the loop gives up on the pipe.
ReportIsTrue ==
    \A j \in Jobs : sup[j] = "done" =>
        /\ report[j] = "launch_error" => ~Started(j)
        /\ report[j] \in {"TimedOut", "MemoryExceeded", "Completed", "NonZeroExit", "Signaled"} => Started(j)
        /\ report[j] = "Completed" => exit[<<j, "H">>] = "zero"
        /\ report[j] = "NonZeroExit" => exit[<<j, "H">>] = "nonzero"
        /\ report[j] = "Signaled" => exit[<<j, "H">>] = "signal" \/ cause[j] = "poll_failed"
        /\ report[j] = "Completed" /\ cause[j] # "poll_failed" => got[j] = written[j]

\* Once the loop supervises a program, spawn returns, whatever the program does
\* and whoever holds its pipes.
SupervisionEnds == \A j \in Jobs : (sup[j] \in {"check", "poll"}) ~> (sup[j] = "done")

\* Every execution is ended by force at the latest at the hard limit (JUDGE-10 in
\* SPEC.md): a spawn that has begun returns.
EverySpawnEnds == \A j \in Jobs : (sup[j] = "piped") ~> (sup[j] = "done")
=============================================================================
