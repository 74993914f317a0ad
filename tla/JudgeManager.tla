---------------------------- MODULE JudgeManager ----------------------------
(***************************************************************************)
(* The judging scheduler of src/src/judge/manager.cpp: a bounded waiting   *)
(* queue with slot reservations, a fixed pool of worker threads parked on  *)
(* one condition variable, one promise per accepted task, cooperative      *)
(* cancellation and an orderly shutdown.                                   *)
(*                                                                         *)
(* A caller is one call sequence of an HTTP handler thread: either submit  *)
(* (the rejudge path) or reserve followed by exactly one commit or release *)
(* (the submission path).  A caller hands over at most one task, so a task *)
(* (an Item of the code) is named by its caller.  Each critical section of *)
(* mutex_ is one action; what the code does after it unlocks is another.   *)
(***************************************************************************)
EXTENDS Integers, Sequences, FiniteSets

CONSTANTS
    Callers,            \* calls to submit or reserve, one task each
    Workers,            \* the worker threads
    CpuCount,           \* what detect_cpu_count returns, 0 when unknown
    ConfiguredCapacity, \* Options::queue_capacity
    None                \* the item of a worker that holds no task

\* min(CPU count, 8), and at least one worker when the count is unknown.
compute_worker_count(cpus) ==
    CASE cpus <= 0 -> 1
      [] cpus > 8  -> 8
      [] OTHER     -> cpus

\* The constructor turns a configured capacity of 0 into 1.
queue_capacity == IF ConfiguredCapacity = 0 THEN 1 ELSE ConfiguredCapacity

ASSUME CallersAssumption == IsFiniteSet(Callers)

ASSUME WorkersAssumption ==
    /\ CpuCount \in Int
    /\ IsFiniteSet(Workers)
    /\ Cardinality(Workers) = compute_worker_count(CpuCount)

ASSUME CapacityAssumption == ConfiguredCapacity \in Nat

ASSUME NoneAssumption == None \notin Callers

(***************************************************************************)
(* What a promise delivers: "judged" (the handler ran the program),        *)
(* "cancelled" (the handler saw the cancellation token, SYSERR), "error"   *)
(* (internal error or an exception the worker caught), "recycled" (the     *)
(* scheduler had already let its workers go).                              *)
(***************************************************************************)
Outcomes == {"judged", "cancelled", "error", "recycled"}

CallerStates ==
    {"idle", "reserved", "counting", "waiting", "answered", "refused", "released"}

WorkerStates ==
    {"check", "wait", "popped", "running", "shortcut", "finished", "erased", "exit"}

ShutdownStates == {"none", "cancelled", "released", "joining", "joined"}

VARIABLES
    queue,        \* queue_: waiting tasks, in order
    reserved,     \* reserved_: slots taken by reserve and not yet used
    activeItems,  \* active_items_: tasks that cancel_all can still reach
    tokens,       \* tasks whose cancellation token is set
    stopped,      \* stopped_: no new task is accepted
    workersStop,  \* workers_stop_: workers may exit once the queue is empty
    accepted,     \* accepted_
    completed,    \* completed_
    promise,      \* per task, "none" or the delivered outcome
    callerPc,     \* where each caller is
    workerPc,     \* where each worker is in worker_loop
    item,         \* the task each worker holds
    result,       \* the outcome a worker is about to deliver
    shutdownPc,   \* the thread that runs shutdown()
    drained       \* shutdown's verdict: TRUE when accepted = completed

vars == <<queue, reserved, activeItems, tokens, stopped, workersStop, accepted,
          completed, promise, callerPc, workerPc, item, result, shutdownPc, drained>>

callerVars == <<reserved, accepted, callerPc>>
workerVars == <<activeItems, completed, item, result>>
stopVars   == <<stopped, workersStop, shutdownPc, drained>>

Init ==
    /\ queue = <<>>
    /\ reserved = 0
    /\ activeItems = {}
    /\ tokens = {}
    /\ stopped = FALSE
    /\ workersStop = FALSE
    /\ accepted = 0
    /\ completed = 0
    /\ promise = [c \in Callers |-> "none"]
    /\ callerPc = [c \in Callers |-> "idle"]
    /\ workerPc = [w \in Workers |-> "check"]
    /\ item = [w \in Workers |-> None]
    /\ result = [w \in Workers |-> "none"]
    /\ shutdownPc = "none"
    /\ drained = FALSE

QueueItems == {queue[i] : i \in 1..Len(queue)}
Waiting == {w \in Workers : workerPc[w] = "wait"}
\* Mutant of Full: the reserved slots are not counted.
Full_IgnoresReserved == Len(queue) >= queue_capacity

Full == Len(queue) + reserved >= queue_capacity

-----------------------------------------------------------------------------
(* The condition variable not_empty_.                                      *)

\* Mutant of NotifyOne: the notification is forgotten.
NotifyOne_Forgotten == workerPc' = workerPc

\* notify_one: one parked worker, if any, goes back to test the predicate.
NotifyOne ==
    IF Waiting = {}
    THEN workerPc' = workerPc
    ELSE \E w \in Waiting : workerPc' = [workerPc EXCEPT ![w] = "check"]

\* notify_all
NotifyAll ==
    workerPc' = [w \in Workers |-> IF workerPc[w] = "wait" THEN "check" ELSE workerPc[w]]

-----------------------------------------------------------------------------
(* Callers.                                                                *)

\* submit() or reserve() while stopped, or when no waiting slot is free.
Refuse(c) ==
    /\ callerPc[c] = "idle"
    /\ stopped \/ Full
    /\ callerPc' = [callerPc EXCEPT ![c] = "refused"]
    /\ UNCHANGED <<queue, reserved, accepted, tokens, promise, workerPc, workerVars, stopVars>>

\* submit(): the capacity test and the push are one critical section.
Submit(c) ==
    /\ callerPc[c] = "idle"
    /\ ~stopped
    /\ ~Full
    /\ queue' = Append(queue, c)
    /\ NotifyOne
    /\ callerPc' = [callerPc EXCEPT ![c] = "counting"]
    /\ UNCHANGED <<reserved, accepted, tokens, promise, workerVars, stopVars>>

\* Mutant of Reserve: stopped_ is not tested.
Reserve_WhileStopped(c) ==
    /\ callerPc[c] = "idle"
    /\ ~Full
    /\ reserved' = reserved + 1
    /\ callerPc' = [callerPc EXCEPT ![c] = "reserved"]
    /\ UNCHANGED <<queue, accepted, tokens, promise, workerPc, workerVars, stopVars>>

\* reserve(): takes a waiting slot before the caller writes to the database.
Reserve(c) ==
    /\ callerPc[c] = "idle"
    /\ ~stopped
    /\ ~Full
    /\ reserved' = reserved + 1
    /\ callerPc' = [callerPc EXCEPT ![c] = "reserved"]
    /\ UNCHANGED <<queue, accepted, tokens, promise, workerPc, workerVars, stopVars>>

\* The slot is given back under the guard "if (reserved_ > 0)".
TakeBackSlot == reserved' = IF reserved > 0 THEN reserved - 1 ELSE reserved

\* Mutant of CommitRecycled: the task is queued although workers may be gone.
CommitRecycled_Queued(c) ==
    /\ callerPc[c] = "reserved"
    /\ workersStop
    /\ TakeBackSlot
    /\ tokens' = tokens \cup {c}
    /\ queue' = Append(queue, c)
    /\ NotifyOne
    /\ callerPc' = [callerPc EXCEPT ![c] = "counting"]
    /\ UNCHANGED <<accepted, promise, workerVars, stopVars>>

\* commit() once the workers may be gone: the promise is resolved on the spot.
CommitRecycled(c) ==
    /\ callerPc[c] = "reserved"
    /\ workersStop
    /\ TakeBackSlot
    /\ tokens' = tokens \cup {c}
    /\ promise' = [promise EXCEPT ![c] = "recycled"]
    /\ callerPc' = [callerPc EXCEPT ![c] = "waiting"]
    /\ UNCHANGED <<queue, accepted, workerPc, workerVars, stopVars>>

\* Mutant of Commit: a task committed after the stop gets no token.
Commit_NoToken(c) ==
    /\ callerPc[c] = "reserved"
    /\ ~workersStop
    /\ TakeBackSlot
    /\ queue' = Append(queue, c)
    /\ NotifyOne
    /\ callerPc' = [callerPc EXCEPT ![c] = "counting"]
    /\ UNCHANGED <<accepted, tokens, promise, workerVars, stopVars>>

\* commit(): the task is queued, with its token already set when stopped.
Commit(c) ==
    /\ callerPc[c] = "reserved"
    /\ ~workersStop
    /\ TakeBackSlot
    /\ tokens' = IF stopped THEN tokens \cup {c} ELSE tokens
    /\ queue' = Append(queue, c)
    /\ NotifyOne
    /\ callerPc' = [callerPc EXCEPT ![c] = "counting"]
    /\ UNCHANGED <<accepted, promise, workerVars, stopVars>>

\* release(): the database write failed, no task comes of it.
Release(c) ==
    /\ callerPc[c] = "reserved"
    /\ TakeBackSlot
    /\ callerPc' = [callerPc EXCEPT ![c] = "released"]
    /\ UNCHANGED <<queue, accepted, tokens, promise, workerPc, workerVars, stopVars>>

\* accepted_ is incremented after submit and commit have released the mutex.
CountAccepted(c) ==
    /\ callerPc[c] = "counting"
    /\ accepted' = accepted + 1
    /\ callerPc' = [callerPc EXCEPT ![c] = "waiting"]
    /\ UNCHANGED <<queue, reserved, tokens, promise, workerPc, workerVars, stopVars>>

\* future.get() returns.
Answer(c) ==
    /\ callerPc[c] = "waiting"
    /\ promise[c] # "none"
    /\ callerPc' = [callerPc EXCEPT ![c] = "answered"]
    /\ UNCHANGED <<queue, reserved, accepted, tokens, promise, workerPc, workerVars, stopVars>>

-----------------------------------------------------------------------------
(* worker_loop.                                                            *)

Step(w, from, to) ==
    /\ workerPc[w] = from
    /\ workerPc' = [workerPc EXCEPT ![w] = to]

\* The predicate of wait() is false: the worker parks.
WorkerWait(w) ==
    /\ Step(w, "check", "wait")
    /\ queue = <<>>
    /\ ~workersStop
    /\ UNCHANGED <<queue, tokens, promise, callerVars, workerVars, stopVars>>

\* A condition variable may wake up for no reason; wait() tests again.
SpuriousWakeup(w) ==
    /\ Step(w, "wait", "check")
    /\ UNCHANGED <<queue, tokens, promise, callerVars, workerVars, stopVars>>

\* The queue is empty and shutdown allows the thread to return.
WorkerExit(w) ==
    /\ Step(w, "check", "exit")
    /\ queue = <<>>
    /\ workersStop
    /\ UNCHANGED <<queue, tokens, promise, callerVars, workerVars, stopVars>>

\* Mutant of WorkerPop: the front of the queue is read and not removed.
WorkerPop_Peeks(w) ==
    /\ Step(w, "check", "popped")
    /\ queue # <<>>
    /\ item' = [item EXCEPT ![w] = Head(queue)]
    /\ activeItems' = activeItems \cup {Head(queue)}
    /\ UNCHANGED <<queue, tokens, promise, completed, result, callerVars, stopVars>>

\* Pop and entry into active_items_ are one critical section.
WorkerPop(w) ==
    /\ Step(w, "check", "popped")
    /\ queue # <<>>
    /\ queue' = Tail(queue)
    /\ item' = [item EXCEPT ![w] = Head(queue)]
    /\ activeItems' = activeItems \cup {Head(queue)}
    /\ UNCHANGED <<tokens, promise, completed, result, callerVars, stopVars>>

\* handler_ starts.  The judge tests the token before it starts any process:
\* a token that is already set makes the handler take the short way.
WorkerBegin(w) ==
    /\ Step(w, "popped", IF item[w] \in tokens THEN "shortcut" ELSE "running")
    /\ UNCHANGED <<queue, tokens, promise, callerVars, workerVars, stopVars>>

\* What handler_ can return, by what it has seen of the token.
HandlerOutcomes(w) ==
    CASE workerPc[w] = "shortcut" -> {"cancelled", "error"}
      [] item[w] \in tokens       -> {"judged", "cancelled", "error"}
      [] OTHER                    -> {"judged", "error"}

\* handler_ returns, or throws and is turned into an internal error.
WorkerFinish(w) ==
    /\ workerPc[w] \in {"running", "shortcut"}
    /\ workerPc' = [workerPc EXCEPT ![w] = "finished"]
    /\ \E o \in HandlerOutcomes(w) : result' = [result EXCEPT ![w] = o]
    /\ completed' = completed + 1
    /\ UNCHANGED <<queue, tokens, promise, activeItems, item, callerVars, stopVars>>

\* The task leaves active_items_ in a critical section of its own.
WorkerErase(w) ==
    /\ Step(w, "finished", "erased")
    /\ activeItems' = activeItems \ {item[w]}
    /\ UNCHANGED <<queue, tokens, promise, completed, item, result, callerVars, stopVars>>

\* promise.set_value: a second value would throw and be dropped.
WorkerDeliver(w) ==
    /\ Step(w, "erased", "check")
    /\ promise' = [promise EXCEPT ![item[w]] = IF @ = "none" THEN result[w] ELSE @]
    /\ item' = [item EXCEPT ![w] = None]
    /\ result' = [result EXCEPT ![w] = "none"]
    /\ UNCHANGED <<queue, tokens, activeItems, completed, callerVars, stopVars>>

-----------------------------------------------------------------------------
(* Stopping.                                                               *)

\* The critical section of cancel_all: stop accepting, set every reachable
\* token, wake everybody.
cancel_all ==
    /\ stopped' = TRUE
    /\ tokens' = tokens \cup QueueItems \cup activeItems
    /\ NotifyAll

\* cancel_all() called on its own, by the server's stop sequence.
CancelAll ==
    /\ ~stopped
    /\ cancel_all
    /\ UNCHANGED <<queue, promise, callerVars, workerVars, workersStop, shutdownPc, drained>>

\* shutdown() calls cancel_all() first.
ShutdownCancel ==
    /\ shutdownPc = "none"
    /\ cancel_all
    /\ shutdownPc' = "cancelled"
    /\ UNCHANGED <<queue, promise, callerVars, workerVars, workersStop, drained>>

\* workers_stop_ = true, in a critical section of its own ...
ShutdownRelease ==
    /\ shutdownPc = "cancelled"
    /\ workersStop' = TRUE
    /\ shutdownPc' = "released"
    /\ UNCHANGED <<queue, tokens, promise, workerPc, callerVars, workerVars, stopped, drained>>

\* Mutant of ShutdownNotify: the workers are not woken after workers_stop_.
ShutdownNotify_Silent ==
    /\ shutdownPc = "released"
    /\ shutdownPc' = "joining"
    /\ UNCHANGED <<queue, tokens, promise, workerPc, callerVars, workerVars, stopped, workersStop, drained>>

\* ... and notify_all after it.
ShutdownNotify ==
    /\ shutdownPc = "released"
    /\ NotifyAll
    /\ shutdownPc' = "joining"
    /\ UNCHANGED <<queue, tokens, promise, callerVars, workerVars, stopped, workersStop, drained>>

\* Every worker has been joined; the two counters are compared.
ShutdownJoin ==
    /\ shutdownPc = "joining"
    /\ \A w \in Workers : workerPc[w] = "exit"
    /\ shutdownPc' = "joined"
    /\ drained' = (accepted = completed)
    /\ UNCHANGED <<queue, tokens, promise, workerPc, callerVars, workerVars, stopped, workersStop>>

-----------------------------------------------------------------------------
CallerNext(c) ==
    \/ Refuse(c) \/ Submit(c) \/ Reserve(c) \/ Commit(c) \/ CommitRecycled(c)
    \/ Release(c) \/ CountAccepted(c) \/ Answer(c)

\* The steps a worker thread takes by itself.
WorkerStep(w) ==
    \/ WorkerWait(w) \/ WorkerExit(w) \/ WorkerPop(w) \/ WorkerBegin(w)
    \/ WorkerFinish(w) \/ WorkerErase(w) \/ WorkerDeliver(w)

ShutdownNext == ShutdownCancel \/ ShutdownRelease \/ ShutdownNotify \/ ShutdownJoin

Next ==
    \/ \E c \in Callers : CallerNext(c)
    \/ \E w \in Workers : WorkerStep(w) \/ SpuriousWakeup(w)
    \/ CancelAll
    \/ ShutdownNext

Spec == Init /\ [][Next]_vars

-----------------------------------------------------------------------------
(***************************************************************************)
(* The abstract scheduler this module implements.  A task is running from  *)
(* the moment a worker pops it until its promise is resolved.              *)
(***************************************************************************)
Held == {item[w] : w \in Workers}

PhaseOf(c) ==
    CASE promise[c] # "none" -> "resolved"
      [] promise[c] = "none" /\ c \in Held -> "running"
      [] promise[c] = "none" /\ c \notin Held /\ c \in QueueItems -> "queued"
      [] OTHER -> callerPc[c]

Abstract == INSTANCE Scheduler WITH
    PoolSize <- Cardinality(Workers),
    Capacity <- queue_capacity,
    phase <- [c \in Callers |-> PhaseOf(c)],
    open <- ~stopped

(* Properties.                                                             *)

TypeOK ==
    /\ queue \in Seq(Callers)
    /\ reserved \in Nat
    /\ activeItems \subseteq Callers
    /\ tokens \subseteq Callers
    /\ stopped \in BOOLEAN
    /\ workersStop \in BOOLEAN
    /\ accepted \in Nat
    /\ completed \in Nat
    /\ promise \in [Callers -> Outcomes \cup {"none"}]
    /\ callerPc \in [Callers -> CallerStates]
    /\ workerPc \in [Workers -> WorkerStates]
    /\ item \in [Workers -> Callers \cup {None}]
    /\ result \in [Workers -> Outcomes \cup {"none"}]
    /\ shutdownPc \in ShutdownStates
    /\ drained \in BOOLEAN

Handed(c) == callerPc[c] \in {"counting", "waiting", "answered"}
Busy(w) == workerPc[w] \in {"popped", "running", "shortcut", "finished", "erased"}

\* Concurrent acceptance never takes more waiting slots than the capacity,
\* counting the slots that are reserved while their caller writes to the
\* database (manager.cpp: submit, reserve and commit share one bound).
CapacityRespected == Len(queue) + reserved <= queue_capacity

\* Every handed-over task whose promise is still open is either held by a
\* worker, or queued while some worker has not returned from worker_loop: no
\* future is left waiting for ever, whenever shutdown() comes.
NoOrphanedFuture ==
    \A c \in Callers : Handed(c) /\ promise[c] = "none" =>
        \/ \E w \in Workers : item[w] = c
        \/ c \in QueueItems /\ \E w \in Workers : workerPc[w] # "exit"

\* Once the scheduler is stopped, every task still queued or still running has
\* its token set, whichever way it came in (a reserved slot may be committed
\* after the stop) and however far its worker is from active_items_.
StopReachesEveryTask ==
    stopped => /\ QueueItems \subseteq tokens
               /\ \A w \in Workers :
                      workerPc[w] \in {"popped", "running"} => item[w] \in tokens

\* The pool never sleeps on work: while a task is queued some worker is not
\* parked on the condition variable (no lost wake-up between the push, the
\* notify_one and a worker that is about to wait).
NoLostWakeup == queue # <<>> => \E w \in Workers : workerPc[w] # "wait"

\* A caller is occupied from its reservation until its promise is resolved.
Occupied ==
    {c \in Callers : /\ callerPc[c] \in {"reserved", "counting", "waiting"}
                     /\ promise[c] = "none"}

\* HTTP threads blocked on judging never exceed the workers plus the waiting
\* slots, which is what HttpServer sizes its thread pool by.
HttpThreadBound == Cardinality(Occupied) <= Cardinality(Workers) + queue_capacity

\* A task is in one place only: at most once in the queue, or in the hands of
\* one worker; and nowhere once its promise is resolved.  No task is executed
\* twice and no result is delivered to another request.
OneHolder ==
    /\ \A i, j \in 1..Len(queue) : queue[i] = queue[j] => i = j
    /\ \A w \in Workers : Busy(w) =>
           /\ item[w] \notin QueueItems
           /\ promise[item[w]] = "none"
           /\ \A v \in Workers : Busy(v) /\ item[v] = item[w] => v = w
    /\ \A c \in QueueItems : promise[c] = "none"

\* The scheduler with its mutex, queue, workers and condition variable does
\* nothing its contract in manager.h does not allow.
ImplementsScheduler == Abstract!SchedSpec

\* Every handed-over task is answered, shutdown or not.
EveryTaskAnswered ==
    \A c \in Callers : (callerPc[c] \in {"counting", "waiting"}) ~> (callerPc[c] = "answered")

-----------------------------------------------------------------------------
(***************************************************************************)
(* The inductive invariant behind the safety properties.  A handed-over    *)
(* task has one holder until it is resolved; a slot is a reserved caller;  *)
(* a worker that has returned has left an empty queue that nobody fills    *)
(* any more; what cancel_all cannot reach has been cancelled on the way.   *)
(***************************************************************************)
Reserving == {c \in Callers : callerPc[c] = "reserved"}

SlotInv ==
    /\ reserved = Cardinality(Reserving)
    /\ CapacityRespected

ResultInv == \A w \in Workers : workerPc[w] \in {"finished", "erased"} => result[w] # "none"

OwnerInv ==
    /\ OneHolder
    /\ \A w \in Workers : Busy(w) <=> item[w] # None
    /\ \A w \in Workers : Busy(w) => callerPc[item[w]] \in {"counting", "waiting"}
    /\ \A c \in QueueItems : callerPc[c] \in {"counting", "waiting"}
    /\ \A c \in Callers : promise[c] # "none" => Handed(c)
    /\ \A c \in Callers : callerPc[c] = "answered" => promise[c] # "none"
    /\ \A c \in Callers : Handed(c) /\ promise[c] = "none" =>
           c \in QueueItems \/ \E w \in Workers : item[w] = c

StopInv ==
    /\ workersStop <=> shutdownPc \in {"released", "joining", "joined"}
    /\ shutdownPc # "none" => stopped
    /\ \A w \in Workers : workerPc[w] = "exit" => workersStop /\ queue = <<>>
    /\ \A w \in Workers :
           workerPc[w] \in {"popped", "running", "shortcut", "finished"} => item[w] \in activeItems
    /\ StopReachesEveryTask

\* What every critical section of manager.cpp keeps for the next one: the state is
\* well typed, reserved_ and the queue never exceed the capacity together, every
\* task handed over is queued or with one worker until it has its result, workers
\* leave only a queue that stays empty, a stopped scheduler has cancelled all it
\* holds, and no task is queued while every worker sleeps.
IInv == TypeOK /\ SlotInv /\ ResultInv /\ OwnerInv /\ StopInv /\ NoLostWakeup

=============================================================================
