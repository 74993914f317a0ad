----------------------------- MODULE ServerStop -----------------------------
(***************************************************************************)
(* HttpServer::stop() of src/src/http/server.cpp on top of JudgeManager:   *)
(* first cancel_all(), then svr_.stop() and the join of the listening      *)
(* thread, which waits for the HTTP threads, and only then shutdown().     *)
(* The HTTP threads wait in future.get() for the workers, the stopping     *)
(* thread waits for the HTTP threads and then for the workers.             *)
(***************************************************************************)
EXTENDS JudgeManager

VARIABLE serverPc  \* the thread in stop(): "running", "cancelled", "joined"

serverVars == <<vars, serverPc>>

ServerInit == Init /\ serverPc = "running"

\* An HTTP thread takes a step.  A request that the listener has accepted is
\* still served while stop() waits for the HTTP threads, and none after that.
Request(c) ==
    /\ callerPc[c] = "idle" => serverPc # "joined"
    /\ CallerNext(c)
    /\ UNCHANGED serverPc

\* running_.exchange(false) and cancel_all().
StopCancel ==
    /\ serverPc = "running"
    /\ CancelAll
    /\ serverPc' = "cancelled"

\* Mutant of StopJoin: shutdown does not wait for the HTTP threads.
StopJoin_NoWait ==
    /\ serverPc = "cancelled"
    /\ serverPc' = "joined"
    /\ UNCHANGED vars

\* svr_.stop() and listen_thread_.join() return: no HTTP thread is left.
StopJoin ==
    /\ serverPc = "cancelled"
    /\ \A c \in Callers : callerPc[c] \in {"idle", "answered", "refused", "released"}
    /\ serverPc' = "joined"
    /\ UNCHANGED vars

\* judge_manager_->shutdown()
StopShutdown ==
    /\ serverPc = "joined"
    /\ ShutdownNext
    /\ UNCHANGED serverPc

ServerNext ==
    \/ \E c \in Callers : Request(c)
    \/ \E w \in Workers : (WorkerStep(w) \/ SpuriousWakeup(w)) /\ UNCHANGED serverPc
    \/ StopCancel
    \/ StopJoin
    \/ StopShutdown

ServerSpec == ServerInit /\ [][ServerNext]_serverVars

\* Threads that can run are scheduled, and a handler returns (the global judging
\* limit bounds it).  Nobody has to send a request, to ask the server to stop, or
\* to be woken for no reason.
ServerFairness ==
    /\ \A w \in Workers : WF_serverVars(WorkerStep(w) /\ UNCHANGED serverPc)
    /\ \A c \in Callers : WF_serverVars(callerPc[c] # "idle" /\ Request(c))
    /\ WF_serverVars(StopJoin)
    /\ WF_serverVars(StopShutdown)

FairServerSpec == ServerSpec /\ ServerFairness

-----------------------------------------------------------------------------
\* When shutdown() returns, accepted_ and completed_ agree although both are
\* counted outside the mutex, so the server reports that everything accepted
\* has been executed (manager.h, accepted_count); and so it has, since the
\* defensive branch of commit() is never taken: no accepted task is answered
\* without having been executed because the workers are gone.
DrainReported ==
    /\ shutdownPc = "joined" => drained
    /\ \A c \in Callers : promise[c] # "recycled"

\* A stop that has begun ends, although the stopping thread, the HTTP threads
\* and the workers wait for each other.
StopTerminates == (serverPc = "cancelled") ~> (shutdownPc = "joined")

=============================================================================
