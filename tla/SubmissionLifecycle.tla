------------------------ MODULE SubmissionLifecycle ------------------------
(***************************************************************************)
(* The life of an accepted submission across threads, database failures,   *)
(* crashes and restarts:                                                   *)
(*                                                                         *)
(*  - handle_submit (http/server.cpp): check, reserve a slot, write the    *)
(*    in-flight row, hand the task over, wait for the result;              *)
(*  - SubmitService (submit/submit.cpp): persist_in_flight, submit with    *)
(*    its settling transaction, settle_interrupted;                        *)
(*  - RecoveryService::run (submit/recovery.cpp) and InFlightStore         *)
(*    (db/in_flight.cpp): what a restart does with unsettled rows;         *)
(*  - ProblemAdminStore::remove (db/problem_admin.cpp), for one problem.   *)
(*                                                                         *)
(* All threads share one database connection.  `work' is what it sees and  *)
(* `disk' what is committed; a transaction is one step for its statements  *)
(* and one for COMMIT or ROLLBACK, and in between the other threads read   *)
(* uncommitted data and may write into the transaction.  The scheduler is  *)
(* taken by its contract (module Scheduler): slots, a queue, a pool.       *)
(***************************************************************************)
EXTENDS Integers, Sequences, FiniteSets

CONSTANTS
    Tasks,      \* one submission request each
    Workers,    \* the worker threads
    Capacity,   \* waiting slots of the scheduler
    BatchSize,  \* RecoveryService::Options::batch_size
    MaxFaults,  \* bound: database calls that fail
    None        \* no task, no owner

ASSUME LifecycleAssumption ==
    /\ IsFiniteSet(Tasks)
    /\ Tasks \cap Workers = {}
    /\ Capacity \in Nat \ {0}
    /\ BatchSize \in Nat \ {0}
    /\ MaxFaults \in Nat
    /\ None \notin Tasks \cup Workers
    /\ "admin" \notin Tasks \cup Workers \cup {None}

RowStates == {"none", "pending", "claimed", "interrupted"}

\* "aborting": the port could not be bound; "exited": stopped in good order.
ServerStates == {"starting", "running", "stopping", "aborting", "exited", "crashed"}

VARIABLES
    work,      \* the tables as the connection sees them
    disk,      \* the tables as committed
    owner,     \* thread inside a transaction (holds transaction_mutex), or None
    queue,     \* tasks waiting for a worker
    reserved,  \* slots reserved and not yet used
    reqPc,     \* per task, its HTTP request
    workPc,    \* per worker, where it is in SubmitService::submit
    held,      \* per worker, its task
    recPc,     \* RecoveryService::run
    batch,     \* tasks listed and not yet handled by run
    adminPc,   \* the request that deletes the problem
    server,    \* the process: see ServerStates
    accepted,  \* history: tasks whose in-flight row was committed
    givenUp,   \* history: tasks that a failure has left to the next start
    faults     \* failures so far

vars == <<work, disk, owner, queue, reserved, reqPc, workPc, held, recPc, batch,
          adminPc, server, accepted, givenUp, faults>>

dbVars    == <<work, disk, owner>>
poolVars  == <<queue, reserved>>
jobVars   == <<workPc, held>>
recVars   == <<recPc, batch>>
histVars  == <<accepted, givenUp, faults>>

Init ==
    /\ work = [row |-> [t \in Tasks |-> "none"], subs |-> [t \in Tasks |-> 0], problem |-> TRUE]
    /\ disk = work
    /\ owner = None
    /\ queue = <<>>
    /\ reserved = 0
    /\ reqPc = [t \in Tasks |-> "idle"]
    /\ workPc = [w \in Workers |-> "idle"]
    /\ held = [w \in Workers |-> None]
    /\ recPc = "reset"
    /\ batch = {}
    /\ adminPc = "idle"
    /\ server = "starting"
    /\ accepted = {}
    /\ givenUp = {}
    /\ faults = 0

Down == server \in {"exited", "crashed"}
Up == server \in {"running", "stopping"}

Full == Len(queue) + reserved >= Capacity
InPool(t) == (\E i \in 1..Len(queue) : queue[i] = t) \/ (\E w \in Workers : held[w] = t)
CanFail == faults < MaxFaults
Fault == CanFail /\ faults' = faults + 1

-----------------------------------------------------------------------------
(* Transactions on the shared connection.                                  *)

\* A claim that has been stepped and not finalized is a write in progress.
ClaimInProgress == recPc = "stepped"

\* lock_guard, BEGIN IMMEDIATE and the statements up to COMMIT or ROLLBACK.
Begin(o, tables) ==
    /\ owner = None
    /\ owner' = o
    /\ work' = tables
    /\ UNCHANGED disk

\* COMMIT takes everything the connection has written since BEGIN.
CommitTx ==
    /\ ~ClaimInProgress
    /\ disk' = work
    /\ owner' = None
    /\ UNCHANGED <<work, faults>>

RollbackTx ==
    /\ work' = disk
    /\ owner' = None
    /\ UNCHANGED disk

\* A statement or COMMIT fails: an error of the database, or SQLite refusing
\* COMMIT while the claim of the recovery thread is in progress.
FailTx == Fault /\ RollbackTx

-----------------------------------------------------------------------------
(* The HTTP request of a task.                                             *)

ReqGoto(t, to) == reqPc' = [reqPc EXCEPT ![t] = to]

\* Authentication, parameters and the unlocked look at the problem; any early
\* return answers 4xx or 500.
Check(t) ==
    /\ Up
    /\ reqPc[t] = "idle"
    /\ \/ work.problem /\ ReqGoto(t, "checked")
       \/ ReqGoto(t, "refused")
    /\ UNCHANGED <<dbVars, poolVars, jobVars, recVars, adminPc, server, histVars>>

\* JudgeManager::reserve(): 503 when stopped or full.
Reserve(t) ==
    /\ reqPc[t] = "checked"
    /\ IF server = "stopping" \/ Full
       THEN ReqGoto(t, "refused") /\ UNCHANGED reserved
       ELSE ReqGoto(t, "reserved") /\ reserved' = reserved + 1
    /\ UNCHANGED <<dbVars, queue, jobVars, recVars, adminPc, server, histVars>>

\* persist_in_flight: the problem is looked up again inside the transaction.
PersistBody(t) ==
    /\ reqPc[t] = "reserved"
    /\ IF work.problem
       THEN Begin(t, [work EXCEPT !.row[t] = "pending"]) /\ ReqGoto(t, "persisting")
       ELSE Begin(t, work) /\ ReqGoto(t, "rejecting")
    /\ UNCHANGED <<poolVars, jobVars, recVars, adminPc, server, histVars>>

PersistCommit(t) ==
    /\ reqPc[t] = "persisting"
    /\ CommitTx
    /\ ReqGoto(t, "persisted")
    /\ accepted' = accepted \cup {t}
    /\ UNCHANGED <<poolVars, jobVars, recVars, adminPc, server, givenUp>>

PersistRollback(t) ==
    /\ \/ reqPc[t] = "rejecting" /\ RollbackTx /\ UNCHANGED faults
       \/ reqPc[t] = "persisting" /\ FailTx
    /\ ReqGoto(t, "releasing")
    /\ UNCHANGED <<poolVars, jobVars, recVars, adminPc, server, accepted, givenUp>>

\* release(), then 404 or 500.
Release(t) ==
    /\ reqPc[t] = "releasing"
    /\ reserved' = reserved - 1
    /\ ReqGoto(t, "refused")
    /\ UNCHANGED <<dbVars, queue, jobVars, recVars, adminPc, server, histVars>>

\* commit() of the reserved slot; the handler then waits in future.get().
HandOver(t) ==
    /\ reqPc[t] = "persisted"
    /\ reserved' = reserved - 1
    /\ queue' = Append(queue, t)
    /\ ReqGoto(t, "waiting")
    /\ UNCHANGED <<dbVars, jobVars, recVars, adminPc, server, histVars>>

-----------------------------------------------------------------------------
(* SubmitService::submit in a worker thread.                               *)

JobGoto(w, to) == workPc' = [workPc EXCEPT ![w] = to]

Pop(w) ==
    /\ workPc[w] = "idle"
    /\ queue # <<>>
    /\ queue' = Tail(queue)
    /\ held' = [held EXCEPT ![w] = Head(queue)]
    /\ JobGoto(w, "popped")
    /\ UNCHANGED <<dbVars, reserved, reqPc, recVars, adminPc, server, histVars>>

\* The problem and its test cases are read without the mutex, then judged
\* (judging touches no table).  A failing read ends the handler.
Read(w) ==
    /\ workPc[w] = "popped"
    /\ \/ JobGoto(w, IF work.problem THEN "judged" ELSE "missing") /\ UNCHANGED <<faults, givenUp>>
       \/ JobGoto(w, "error") /\ Fault /\ givenUp' = givenUp \cup {held[w]}
    /\ UNCHANGED <<dbVars, poolVars, held, reqPc, recVars, adminPc, server, accepted>>

\* mark_interrupted: WHERE task_id = ? AND state != 'interrupted'.
Interrupted(t) ==
    IF work.row[t] \in {"pending", "claimed"} THEN [work EXCEPT !.row[t] = "interrupted"] ELSE work

\* Mutant of SettleBody: whether the DELETE hit a row is not looked at.
SettleBody_NoRowCheck(w) ==
    LET t == held[w] IN
    /\ workPc[w] \in {"judged", "missing"}
    /\ IF workPc[w] = "missing" \/ ~work.problem
       THEN Begin(w, Interrupted(t)) /\ JobGoto(w, "marking")
       ELSE /\ Begin(w, [work EXCEPT !.row[t] = "none", !.subs[t] = @ + 1])
            /\ JobGoto(w, "settling")
    /\ UNCHANGED <<poolVars, held, reqPc, recVars, adminPc, server, histVars>>

\* settle_interrupted when the problem was gone before judging; otherwise the
\* settling transaction: the problem is looked up again, the in-flight row is
\* deleted, whatever its state, and only then the submission is inserted.
SettleBody(w) ==
    LET t == held[w] IN
    /\ workPc[w] \in {"judged", "missing"}
    /\ CASE workPc[w] = "missing" \/ ~work.problem ->
                Begin(w, Interrupted(t)) /\ JobGoto(w, "marking")
         [] workPc[w] = "judged" /\ work.problem /\ work.row[t] = "none" ->
                Begin(w, work) /\ JobGoto(w, "duplicate")
         [] OTHER -> /\ Begin(w, [work EXCEPT !.row[t] = "none", !.subs[t] = @ + 1])
                     /\ JobGoto(w, "settling")
    /\ UNCHANGED <<poolVars, held, reqPc, recVars, adminPc, server, histVars>>

SettleCommit(w) ==
    /\ workPc[w] \in {"settling", "marking"}
    /\ CommitTx
    /\ JobGoto(w, IF workPc[w] = "settling" THEN "ok" ELSE "error")
    /\ UNCHANGED <<poolVars, held, reqPc, recVars, adminPc, server, accepted, givenUp>>

\* Mutant of SettleRollback: a failed COMMIT is reported as success.
SettleRollback_ReportsOk(w) ==
    /\ workPc[w] \in {"settling", "marking"}
    /\ FailTx
    /\ JobGoto(w, "ok")
    /\ UNCHANGED <<poolVars, held, reqPc, recVars, adminPc, server, accepted, givenUp>>

\* AlreadySettled, or a failure on the way.
SettleRollback(w) ==
    /\ \/ /\ workPc[w] = "duplicate"
          /\ RollbackTx
          /\ UNCHANGED <<faults, givenUp>>
       \/ /\ workPc[w] \in {"settling", "marking"}
          /\ FailTx
          /\ givenUp' = givenUp \cup {held[w]}
    /\ JobGoto(w, "error")
    /\ UNCHANGED <<poolVars, held, reqPc, recVars, adminPc, server, accepted>>

\* The promise is resolved: 200, or 404 or 500.  Nobody waits for the result
\* of a recovered task.
Deliver(w) ==
    /\ workPc[w] \in {"ok", "error"}
    /\ IF reqPc[held[w]] = "waiting" THEN ReqGoto(held[w], workPc[w]) ELSE UNCHANGED reqPc
    /\ held' = [held EXCEPT ![w] = None]
    /\ JobGoto(w, "idle")
    /\ UNCHANGED <<dbVars, poolVars, recVars, adminPc, server, histVars>>

-----------------------------------------------------------------------------
(* RecoveryService::run, before the server listens.                        *)

Pending == {t \in Tasks : work.row[t] = "pending"}
Unsettled(tables, t) == tables.row[t] \in {"pending", "claimed"}

\* A failing call ends the recovery: what it has not taken up waits for the
\* next start.
GiveUp ==
    /\ Fault
    /\ givenUp' = givenUp \cup {t \in Tasks : Unsettled(work, t) /\ ~InPool(t)}

\* Mutant of ResetClaims: stale claims are left as they are.
ResetClaims_Skipped ==
    /\ server = "starting"
    /\ recPc = "reset"
    /\ recPc' = "list"
    /\ UNCHANGED <<dbVars, poolVars, reqPc, jobVars, batch, adminPc, server, histVars>>

\* reset_stale_claims: one UPDATE; a failure ends the recovery.
ResetClaims ==
    /\ server = "starting"
    /\ recPc = "reset"
    /\ \/ /\ work' = [work EXCEPT !.row = [t \in Tasks |-> IF @[t] = "claimed" THEN "pending" ELSE @[t]]]
          /\ disk' = work'
          /\ recPc' = "list"
          /\ UNCHANGED <<givenUp, faults>>
       \/ recPc' = "done" /\ GiveUp /\ UNCHANGED <<work, disk>>
    /\ UNCHANGED <<owner, poolVars, reqPc, jobVars, batch, adminPc, server, accepted>>

\* list_pending: at most BatchSize rows, uncommitted changes of the workers
\* included; an empty batch or a failure ends the loop.
ListPending ==
    /\ recPc = "list"
    /\ \/ /\ \E b \in SUBSET Pending :
              /\ Cardinality(b) <= BatchSize
              /\ \A c \in SUBSET Pending : Cardinality(c) <= BatchSize => Cardinality(c) <= Cardinality(b)
              /\ batch' = b
          /\ recPc' = IF Pending = {} THEN "done" ELSE "next"
          /\ UNCHANGED <<givenUp, faults>>
       \/ recPc' = "done" /\ GiveUp /\ UNCHANGED batch
    /\ UNCHANGED <<dbVars, poolVars, reqPc, jobVars, adminPc, server, accepted>>

\* reserve(), tried again while the queue is full; a batch at its end is
\* followed by the next one.
ReserveSlot ==
    /\ recPc = "next"
    /\ IF batch = {}
       THEN recPc' = "list" /\ UNCHANGED reserved
       ELSE ~Full /\ recPc' = "claim" /\ reserved' = reserved + 1
    /\ UNCHANGED <<dbVars, queue, reqPc, jobVars, batch, adminPc, server, histVars>>

\* The task the loop is at: the listed rows come in the order of their ids.
Current == CHOOSE t \in batch : TRUE

\* claim(): UPDATE ... WHERE state = 'pending' RETURNING, without the mutex.
ClaimStep ==
    /\ recPc = "claim"
    /\ \/ /\ work.row[Current] = "pending"
          /\ work' = [work EXCEPT !.row[Current] = "claimed"]
          /\ recPc' = "stepped"
          /\ UNCHANGED <<givenUp, faults>>
       \/ /\ work.row[Current] # "pending"
          /\ recPc' = "unclaimed"
          /\ UNCHANGED <<work, givenUp, faults>>
       \/ recPc' = "abandon" /\ GiveUp /\ UNCHANGED work
    /\ UNCHANGED <<disk, owner, poolVars, reqPc, jobVars, batch, adminPc, server, accepted>>

\* The statement is finalized: it commits, unless a transaction is open.
ClaimFinalize ==
    /\ recPc = "stepped"
    /\ disk' = IF owner = None THEN work ELSE disk
    /\ recPc' = "claimed"
    /\ UNCHANGED <<work, owner, poolVars, reqPc, jobVars, batch, adminPc, server, histVars>>

\* commit() of the reserved slot.
Enqueue ==
    /\ recPc = "claimed"
    /\ reserved' = reserved - 1
    /\ queue' = Append(queue, Current)
    /\ batch' = batch \ {Current}
    /\ recPc' = "next"
    /\ UNCHANGED <<dbVars, reqPc, jobVars, adminPc, server, histVars>>

\* release() when somebody else has the task, or when claim givenUp.
ReleaseSlot ==
    /\ recPc \in {"unclaimed", "abandon"}
    /\ reserved' = reserved - 1
    /\ batch' = batch \ {Current}
    /\ recPc' = IF recPc = "unclaimed" THEN "next" ELSE "done"
    /\ UNCHANGED <<dbVars, queue, reqPc, jobVars, adminPc, server, histVars>>

-----------------------------------------------------------------------------
(* ProblemAdminStore::remove.                                              *)

DeleteBody ==
    /\ Up
    /\ adminPc = "idle"
    /\ work.problem
    /\ IF \A t \in Tasks : work.subs[t] = 0 /\ ~Unsettled(work, t)
       THEN /\ Begin("admin", [work EXCEPT !.problem = FALSE, !.row = [t \in Tasks |-> "none"]])
            /\ adminPc' = "deleting"
       ELSE Begin("admin", work) /\ adminPc' = "refusing"
    /\ UNCHANGED <<poolVars, reqPc, jobVars, recVars, server, histVars>>

DeleteEnd ==
    /\ \/ adminPc = "deleting" /\ CommitTx
       \/ adminPc = "deleting" /\ FailTx
       \/ adminPc = "refusing" /\ RollbackTx /\ UNCHANGED faults
    /\ adminPc' = "idle"
    /\ UNCHANGED <<poolVars, reqPc, jobVars, recVars, server, accepted, givenUp>>

-----------------------------------------------------------------------------
(* The process.                                                            *)

\* start() after recovery; when the port cannot be bound main() leaves and the
\* destructor stops the scheduler.
Start ==
    /\ server = "starting"
    /\ recPc = "done"
    /\ server' \in {"running", "aborting"}
    /\ UNCHANGED <<dbVars, poolVars, reqPc, jobVars, recVars, adminPc, histVars>>

\* SIGTERM: cancel_all(), no new slots, running tasks end as SYSERR.
Stop ==
    /\ server = "running"
    /\ server' = "stopping"
    /\ UNCHANGED <<dbVars, poolVars, reqPc, jobVars, recVars, adminPc, histVars>>

\* Mutant of Exit: the database is closed with tasks still queued.
Exit_NoDrain ==
    /\ server \in {"stopping", "aborting"}
    /\ \A w \in Workers : workPc[w] = "idle"
    /\ adminPc = "idle"
    /\ server' = "exited"
    /\ UNCHANGED <<dbVars, poolVars, reqPc, jobVars, recVars, adminPc, histVars>>

\* stop() has joined the HTTP threads and the workers, the database is closed.
Exit ==
    /\ server \in {"stopping", "aborting"}
    /\ queue = <<>>
    /\ \A w \in Workers : workPc[w] = "idle"
    /\ \A t \in Tasks : reqPc[t] \in {"idle", "refused", "ok", "error", "lost"}
    /\ adminPc = "idle"
    /\ server' = "exited"
    /\ UNCHANGED <<dbVars, poolVars, reqPc, jobVars, recVars, adminPc, histVars>>

\* SIGKILL: what is in memory or uncommitted is gone, replies are not sent.
Crash ==
    /\ ~Down
    /\ server' = "crashed"
    /\ work' = disk
    /\ owner' = None
    /\ queue' = <<>>
    /\ reserved' = 0
    /\ reqPc' = [t \in Tasks |-> IF reqPc[t] \in {"idle", "refused", "ok", "error"} THEN reqPc[t] ELSE "lost"]
    /\ workPc' = [w \in Workers |-> "idle"]
    /\ held' = [w \in Workers |-> None]
    /\ recPc' = "done"
    /\ batch' = {}
    /\ adminPc' = "idle"
    /\ UNCHANGED <<disk, accepted, givenUp, faults>>

\* The process is started again.
Restart ==
    /\ Down
    /\ server' = "starting"
    /\ recPc' = "reset"
    /\ batch' = {}
    /\ givenUp' = {}
    /\ UNCHANGED <<dbVars, poolVars, reqPc, jobVars, adminPc, accepted, faults>>

-----------------------------------------------------------------------------
RequestNext(t) ==
    \/ Reserve(t) \/ PersistBody(t) \/ PersistCommit(t)
    \/ PersistRollback(t) \/ Release(t) \/ HandOver(t)

WorkerNext(w) ==
    \/ Pop(w) \/ Read(w) \/ SettleBody(w)
    \/ SettleCommit(w) \/ SettleRollback(w) \/ Deliver(w)

RecoveryNext ==
    \/ ResetClaims \/ ListPending \/ ReserveSlot \/ ClaimStep
    \/ ClaimFinalize \/ Enqueue \/ ReleaseSlot

Next ==
    \/ \E t \in Tasks : Check(t) \/ RequestNext(t)
    \/ \E w \in Workers : WorkerNext(w)
    \/ RecoveryNext
    \/ DeleteBody \/ DeleteEnd
    \/ Start \/ Stop \/ Exit \/ Crash \/ Restart

Spec == Init /\ [][Next]_vars

(***************************************************************************)
(* Fairness: every thread of a running process is scheduled, and a stopped *)
(* process is started again.  A thread that waits for transaction_mutex()  *)
(* gets it although others may come back for it for ever (SF).  Nobody has *)
(* to submit, delete or stop, and a crash may always happen.               *)
(***************************************************************************)
Fairness ==
    /\ \A t \in Tasks : WF_vars(RequestNext(t)) /\ SF_vars(PersistBody(t))
    /\ \A w \in Workers : WF_vars(WorkerNext(w)) /\ SF_vars(SettleBody(w))
    /\ WF_vars(RecoveryNext)
    /\ WF_vars(DeleteEnd)
    /\ WF_vars(Start)
    /\ WF_vars(Exit)
    /\ WF_vars(Restart)

FairSpec == Spec /\ Fairness

-----------------------------------------------------------------------------
(* Properties.                                                             *)

Tables == [row : [Tasks -> RowStates], subs : [Tasks -> 0..1], problem : BOOLEAN]

LifecycleTypeOK ==
    /\ work \in Tables
    /\ disk \in Tables
    /\ owner \in Tasks \cup Workers \cup {"admin", None}
    /\ queue \in Seq(Tasks)
    /\ reserved \in 0..Capacity
    /\ reqPc \in [Tasks -> {"idle", "checked", "reserved", "persisting", "rejecting", "persisted",
                            "releasing", "waiting", "refused", "ok", "error", "lost"}]
    /\ workPc \in [Workers -> {"idle", "popped", "judged", "missing", "marking", "settling",
                               "duplicate", "ok", "error"}]
    /\ held \in [Workers -> Tasks \cup {None}]
    /\ recPc \in {"reset", "list", "next", "claim", "stepped", "claimed", "unclaimed", "abandon", "done"}
    /\ batch \subseteq Tasks
    /\ adminPc \in {"idle", "deleting", "refusing"}
    /\ server \in ServerStates
    /\ accepted \subseteq Tasks
    /\ givenUp \subseteq Tasks
    /\ faults \in 0..MaxFaults

ProblemKept ==
    /\ accepted # {} => disk.problem
    /\ \A w \in Workers : workPc[w] \notin {"missing", "marking"}

\* The state is well typed, reserved slots within the capacity included.  A
\* committed task is recoverable or settled, never both, never neither and
\* never settled twice, whatever fails and whenever the process dies; a task
\* that was not committed has left no trace (submit.cpp: the row is deleted
\* and the submission inserted in one transaction).  Its problem is never
\* deleted, also not by a deletion that began before the task was accepted; so no
\* handler finds its problem gone and no accepted task ends as interrupted.
SettledOnce ==
    /\ LifecycleTypeOK
    /\ ProblemKept
    /\ \A t \in Tasks :
        IF t \in accepted
        THEN \/ disk.row[t] \in {"pending", "claimed"} /\ disk.subs[t] = 0
             \/ disk.row[t] = "none" /\ disk.subs[t] = 1
        ELSE disk.row[t] = "none" /\ disk.subs[t] = 0

\* A 200 answer means that the submission is committed, for good; an answer
\* that refuses the request means that nothing of it will ever be executed.
AnswersAreTrue ==
    \A t \in Tasks :
        /\ reqPc[t] = "ok" => disk.subs[t] = 1
        /\ reqPc[t] = "refused" =>
               /\ t \notin accepted
               /\ \A i \in 1..Len(queue) : queue[i] # t
               /\ \A w \in Workers : held[w] # t

\* A stop in good order leaves nothing unsettled but what a failure has left
\* to the next start (server.cpp: the results of all accepted tasks are written
\* before the database is closed).
StopSettles ==
    server = "exited" => \A t \in Tasks : Unsettled(disk, t) => t \in givenUp

\* While the process lives, start-up ends and every accepted task is settled or
\* has met a failure: recovery does not wait for ever on a full queue and no task
\* is forgotten in a batch, behind a full queue, under a stale claim or under one
\* that was rolled back (recovery.cpp, submit.cpp).
EventuallySettled ==
    []<>(\/ Down
         \/ /\ server # "starting"
            /\ \A t \in accepted : disk.subs[t] = 1 \/ t \in givenUp)

=============================================================================
