------------------------------ MODULE Scheduler ------------------------------
(***************************************************************************)
(* What the judging scheduler promises to the code that uses it (the       *)
(* contract in the comments of src/src/judge/manager.h): a caller either   *)
(* is refused, or gets a waiting slot; a task that is handed over is run   *)
(* once and resolved once; at most Capacity callers hold a waiting slot    *)
(* and at most PoolSize tasks run; after the scheduler is closed nobody    *)
(* gets a slot any more, but a slot already given can still be used.       *)
(* There are no locks, threads, queues or condition variables here.        *)
(***************************************************************************)
EXTENDS Integers, FiniteSets

CONSTANTS Callers, PoolSize, Capacity

VARIABLES
    phase,  \* per caller: the life of its task
    open    \* new slots are given

schedVars == <<phase, open>>

Phases == {"idle", "reserved", "queued", "running", "resolved", "refused", "released"}

InPhase(p) == {c \in Callers : phase[c] = p}
Slots == InPhase("reserved") \cup InPhase("queued")

Move(c, from, to) ==
    /\ phase[c] = from
    /\ phase' = [phase EXCEPT ![c] = to]

SchedInit ==
    /\ phase = [c \in Callers |-> "idle"]
    /\ open = TRUE

\* A waiting slot is taken, for a task that comes later or at once.
TakeSlot(c) ==
    /\ open
    /\ Cardinality(Slots) < Capacity
    /\ Move(c, "idle", "reserved") \/ Move(c, "idle", "queued")
    /\ UNCHANGED open

\* No slot is free, or none is given any more.
Reject(c) ==
    /\ ~open \/ Cardinality(Slots) >= Capacity
    /\ Move(c, "idle", "refused")
    /\ UNCHANGED open

\* A slot is used, even after closing; then the task may be resolved unrun.
UseSlot(c) ==
    /\ Move(c, "reserved", "queued") \/ (~open /\ Move(c, "reserved", "resolved"))
    /\ UNCHANGED open

DropSlot(c) == Move(c, "reserved", "released") /\ UNCHANGED open

Start(c) ==
    /\ Cardinality(InPhase("running")) < PoolSize
    /\ Move(c, "queued", "running")
    /\ UNCHANGED open

Resolve(c) == Move(c, "running", "resolved") /\ UNCHANGED open

Close == open /\ open' = FALSE /\ UNCHANGED phase

SchedNext ==
    \/ Close
    \/ \E c \in Callers :
           TakeSlot(c) \/ Reject(c) \/ UseSlot(c) \/ DropSlot(c) \/ Start(c) \/ Resolve(c)

SchedSpec == SchedInit /\ [][SchedNext]_schedVars

=============================================================================
