------------------------- MODULE JudgeManagerProofs -------------------------
(***************************************************************************)
(* Proofs about JudgeManager, for every number of callers, every capacity  *)
(* and every number of CPUs: its safety properties, and that it implements *)
(* Scheduler.  At the end, about ServerStop, which extends JudgeManager by *)
(* HttpServer::stop: a stop drains everything that was accepted.           *)
(***************************************************************************)
EXTENDS ServerStop, FiniteSetTheorems, TLAPS

\* The actions, split by what they do to the queue, the workers and the tasks.
QuietCaller(c) == Refuse(c) \/ CountAccepted(c) \/ Answer(c)
QuietStop == ShutdownRelease \/ ShutdownNotify \/ ShutdownJoin

-----------------------------------------------------------------------------
(* Facts about the constants and the helpers.                              *)

\* The pool has at least one worker and the capacity is at least one
\* (compute_worker_count and the constructor).
LEMMA PoolFacts ==
    /\ Workers # {}
    /\ queue_capacity \in Nat \ {0}
    /\ Cardinality(Workers) \in Nat
<1>1. Cardinality(Workers) >= 1
  BY WorkersAssumption DEF compute_worker_count
<1>2. Cardinality(Workers) \in Nat
  BY WorkersAssumption, FS_CardinalityType
<1>3. Workers # {}
  BY <1>1, FS_EmptySet
<1>4. queue_capacity \in Nat \ {0}
  BY CapacityAssumption DEF queue_capacity
<1> QED BY <1>2, <1>3, <1>4

\* Waking workers only ever turns "wait" into "check".
WokenOnly ==
    /\ workerPc' \in [Workers -> WorkerStates]
    /\ \A w \in Workers : \/ workerPc'[w] = workerPc[w]
                          \/ workerPc[w] = "wait" /\ workerPc'[w] = "check"

\* notify_one and notify_all only wake (manager.cpp: not_empty_).
LEMMA NotifyWakes ==
    ASSUME workerPc \in [Workers -> WorkerStates], NotifyOne \/ NotifyAll
    PROVE  WokenOnly
<1>1. CASE NotifyAll
  BY <1>1 DEF NotifyAll, WokenOnly, WorkerStates
<1>2. CASE NotifyOne
  BY <1>2 DEF NotifyOne, WokenOnly, WorkerStates, Waiting
<1> QED BY <1>1, <1>2

\* After notify_one some worker is not parked.
LEMMA NotifyOneWakes ==
    ASSUME workerPc \in [Workers -> WorkerStates], NotifyOne
    PROVE  \E w \in Workers : workerPc'[w] # "wait"
  BY PoolFacts DEF NotifyOne, WorkerStates, Waiting

\* What push_back does to the queue.
LEMMA PushFacts ==
    ASSUME NEW c \in Callers, queue \in Seq(Callers), queue' = Append(queue, c)
    PROVE  /\ queue' \in Seq(Callers)
           /\ Len(queue') = Len(queue) + 1
           /\ QueueItems' = QueueItems \cup {c}
           /\ queue' # <<>>
           /\ \A i \in 1..Len(queue) : queue'[i] = queue[i]
           /\ queue'[Len(queue) + 1] = c
<1>1. /\ queue' \in Seq(Callers)
      /\ Len(queue') = Len(queue) + 1
      /\ \A i \in 1..Len(queue) : queue'[i] = queue[i]
      /\ queue'[Len(queue) + 1] = c
  OBVIOUS
<1>2. QueueItems' = QueueItems \cup {c}
  BY <1>1 DEF QueueItems
<1> QED BY <1>1, <1>2

\* What front() and pop_front() do to the queue.
LEMMA PopFacts ==
    ASSUME queue \in Seq(Callers), queue # <<>>, queue' = Tail(queue)
    PROVE  /\ queue' \in Seq(Callers)
           /\ Len(queue') = Len(queue) - 1
           /\ Head(queue) = queue[1]
           /\ Head(queue) \in Callers
           /\ Head(queue) \in QueueItems
           /\ QueueItems = QueueItems' \cup {Head(queue)}
           /\ \A i \in 1..Len(queue') : queue'[i] = queue[i + 1]
<1>1. /\ queue' \in Seq(Callers)
      /\ Len(queue') = Len(queue) - 1
      /\ Len(queue) >= 1
      /\ Head(queue) = queue[1]
      /\ Head(queue) \in Callers
      /\ \A i \in 1..Len(queue') : queue'[i] = queue[i + 1]
  OBVIOUS
<1>2. Head(queue) \in QueueItems
  BY <1>1 DEF QueueItems
<1>3. \A i \in 2..Len(queue) : i - 1 \in 1..Len(queue') /\ queue[i] = queue'[i - 1]
  BY <1>1
<1>4. QueueItems = QueueItems' \cup {Head(queue)}
  BY <1>1, <1>2, <1>3 DEF QueueItems
<1> QED BY <1>1, <1>2, <1>4

-----------------------------------------------------------------------------
(* Type correctness.                                                       *)

\* One step keeps every variable in its type.
LEMMA TypeStep == TypeOK /\ [Next]_vars => TypeOK'
<1> SUFFICES ASSUME TypeOK, [Next]_vars PROVE TypeOK'
  OBVIOUS
<1> USE DEF callerVars, workerVars, stopVars, CallerStates, WorkerStates,
            ShutdownStates, Outcomes
<1>1. ASSUME NEW c \in Callers, QuietCaller(c) PROVE TypeOK'
  BY <1>1 DEF QuietCaller, Refuse, CountAccepted, Answer, TypeOK
<1>2. ASSUME NEW c \in Callers, Submit(c) PROVE TypeOK'
  <2>1. WokenOnly
    BY <1>2, NotifyWakes DEF Submit, TypeOK
  <2>2. queue' \in Seq(Callers)
    BY <1>2, PushFacts DEF Submit, TypeOK
  <2> QED BY <1>2, <2>1, <2>2 DEF Submit, TypeOK, WokenOnly
<1>3. ASSUME NEW c \in Callers, Reserve(c) \/ Release(c) \/ CommitRecycled(c) PROVE TypeOK'
  BY <1>3 DEF Reserve, Release, CommitRecycled, TakeBackSlot, TypeOK
<1>4. ASSUME NEW c \in Callers, Commit(c) PROVE TypeOK'
  <2>1. WokenOnly
    BY <1>4, NotifyWakes DEF Commit, TypeOK
  <2>2. queue' \in Seq(Callers)
    BY <1>4, PushFacts DEF Commit, TypeOK
  <2>3. reserved' \in Nat
    BY <1>4 DEF Commit, TakeBackSlot, TypeOK
  <2> QED BY <1>4, <2>1, <2>2, <2>3 DEF Commit, TypeOK, WokenOnly
<1>5. ASSUME NEW w \in Workers,
             WorkerWait(w) \/ SpuriousWakeup(w) \/ WorkerExit(w) \/ WorkerBegin(w) \/ WorkerErase(w)
      PROVE  TypeOK'
  BY <1>5 DEF WorkerWait, SpuriousWakeup, WorkerExit, WorkerBegin, WorkerErase, Step, TypeOK
<1>6. ASSUME NEW w \in Workers, WorkerPop(w) PROVE TypeOK'
  <2>1. queue' \in Seq(Callers) /\ Head(queue) \in Callers
    BY <1>6, PopFacts DEF WorkerPop, TypeOK
  <2> QED BY <1>6, <2>1 DEF WorkerPop, Step, TypeOK
<1>7. ASSUME NEW w \in Workers, WorkerFinish(w) PROVE TypeOK'
  BY <1>7 DEF WorkerFinish, HandlerOutcomes, TypeOK
<1>8. ASSUME NEW w \in Workers, WorkerDeliver(w) PROVE TypeOK'
  BY <1>8 DEF WorkerDeliver, Step, TypeOK
<1>9. ASSUME CancelAll \/ ShutdownCancel PROVE TypeOK'
  <2>1. WokenOnly
    BY <1>9, NotifyWakes DEF CancelAll, ShutdownCancel, cancel_all, TypeOK
  <2>2. QueueItems \subseteq Callers
    BY DEF QueueItems, TypeOK
  <2> QED BY <1>9, <2>1, <2>2 DEF CancelAll, ShutdownCancel, cancel_all, TypeOK, WokenOnly
<1>10. ASSUME QuietStop PROVE TypeOK'
  <2>1. ShutdownNotify => WokenOnly
    BY NotifyWakes DEF ShutdownNotify, TypeOK
  <2> QED BY <1>10, <2>1 DEF QuietStop, ShutdownRelease, ShutdownNotify, ShutdownJoin, TypeOK, WokenOnly
<1>11. CASE UNCHANGED vars
  BY <1>11 DEF vars, TypeOK
<1> QED
  BY <1>1, <1>2, <1>3, <1>4, <1>5, <1>6, <1>7, <1>8, <1>9, <1>10, <1>11
     DEF Next, CallerNext, WorkerStep, ShutdownNext, QuietCaller, QuietStop

\* The constructor leaves every variable in its type.
LEMMA TypeInit == Init => TypeOK
<1> SUFFICES ASSUME Init PROVE TypeOK
  OBVIOUS
<1>1. queue \in Seq(Callers) /\ reserved \in Nat /\ accepted \in Nat /\ completed \in Nat
  BY DEF Init
<1>2. activeItems \subseteq Callers /\ tokens \subseteq Callers
  BY DEF Init
<1>3. stopped \in BOOLEAN /\ workersStop \in BOOLEAN /\ drained \in BOOLEAN
  BY Zenon DEF Init
<1>4. /\ promise \in [Callers -> Outcomes \cup {"none"}]
      /\ callerPc \in [Callers -> CallerStates]
      /\ workerPc \in [Workers -> WorkerStates]
      /\ item \in [Workers -> Callers \cup {None}]
      /\ result \in [Workers -> Outcomes \cup {"none"}]
      /\ shutdownPc \in ShutdownStates
  BY DEF Init, CallerStates, WorkerStates, ShutdownStates, Outcomes
<1> QED BY <1>1, <1>2, <1>3, <1>4, Zenon DEF TypeOK

\* Every variable of the scheduler keeps its type; in particular reserved_, an
\* unsigned counter, never goes below zero.
THEOREM TypeCorrect == Spec => []TypeOK
  BY TypeInit, TypeStep, PTL DEF Spec

-----------------------------------------------------------------------------
(* Slots.                                                                  *)

\* Entering and leaving the set of reserving callers moves its size by one.
LEMMA ReservingFacts ==
    ASSUME TypeOK, NEW c \in Callers, NEW to \in CallerStates,
           callerPc' = [callerPc EXCEPT ![c] = to]
    PROVE  /\ Cardinality(Reserving) \in Nat
           /\ callerPc[c] # "reserved" /\ to = "reserved"
                => Cardinality(Reserving') = Cardinality(Reserving) + 1
           /\ callerPc[c] = "reserved" /\ to # "reserved"
                => /\ Cardinality(Reserving') = Cardinality(Reserving) - 1
                   /\ Cardinality(Reserving) > 0
           /\ callerPc[c] # "reserved" /\ to # "reserved"
                => Cardinality(Reserving') = Cardinality(Reserving)
<1>1. IsFiniteSet(Reserving) /\ Cardinality(Reserving) \in Nat
  BY CallersAssumption, FS_Subset, FS_CardinalityType DEF Reserving
<1>2. callerPc[c] # "reserved" /\ to = "reserved" => Reserving' = Reserving \cup {c} /\ c \notin Reserving
  BY DEF Reserving, TypeOK
<1>3. callerPc[c] = "reserved" /\ to # "reserved" => Reserving' = Reserving \ {c} /\ c \in Reserving
  BY DEF Reserving, TypeOK
<1>4. callerPc[c] # "reserved" /\ to # "reserved" => Reserving' = Reserving
  BY DEF Reserving, TypeOK
<1>5. Cardinality(Reserving \cup {c}) = IF c \in Reserving THEN Cardinality(Reserving) ELSE Cardinality(Reserving) + 1
  BY <1>1, FS_AddElement
<1>6. Cardinality(Reserving \ {c}) = IF c \in Reserving THEN Cardinality(Reserving) - 1 ELSE Cardinality(Reserving)
  BY <1>1, FS_RemoveElement
<1>7. c \in Reserving => Cardinality(Reserving) > 0
  BY <1>1, FS_EmptySet
<1> QED BY <1>1, <1>2, <1>3, <1>4, <1>5, <1>6, <1>7

\* The bound on waiting slots is kept by every step: a slot is taken only when
\* one is free, and commit() gives its slot back as it pushes.
LEMMA SlotStep == TypeOK /\ SlotInv /\ [Next]_vars => SlotInv'
<1> SUFFICES ASSUME TypeOK, SlotInv, [Next]_vars PROVE SlotInv'
  OBVIOUS
<1> USE PoolFacts DEF SlotInv, CapacityRespected, callerVars, workerVars, stopVars
<1>1. ASSUME NEW c \in Callers, QuietCaller(c) PROVE SlotInv'
  <2>1. PICK to \in CallerStates \ {"reserved"} :
            callerPc[c] # "reserved" /\ callerPc' = [callerPc EXCEPT ![c] = to]
    BY <1>1 DEF QuietCaller, Refuse, CountAccepted, Answer, CallerStates
  <2>2. Cardinality(Reserving') = Cardinality(Reserving)
    BY <2>1, ReservingFacts
  <2> QED BY <1>1, <2>2 DEF QuietCaller, Refuse, CountAccepted, Answer
<1>2. ASSUME NEW c \in Callers, Submit(c) PROVE SlotInv'
  <2>1. Len(queue') = Len(queue) + 1
    BY <1>2, PushFacts DEF Submit, TypeOK
  <2>2. "counting" \in CallerStates /\ "counting" # "reserved"
    BY DEF CallerStates
  <2>3. Cardinality(Reserving') = Cardinality(Reserving)
    BY <1>2, <2>2, ReservingFacts DEF Submit
  <2> QED BY <1>2, <2>1, <2>3 DEF Submit, Full, TypeOK
<1>3. ASSUME NEW c \in Callers, Reserve(c) PROVE SlotInv'
  <2>1. "reserved" \in CallerStates
    BY DEF CallerStates
  <2>2. Cardinality(Reserving') = Cardinality(Reserving) + 1
    BY <1>3, <2>1, ReservingFacts DEF Reserve
  <2> QED BY <1>3, <2>2 DEF Reserve, Full, TypeOK
<1>4. ASSUME NEW c \in Callers, Release(c) \/ CommitRecycled(c) PROVE SlotInv'
  <2>1. PICK to \in CallerStates \ {"reserved"} :
            callerPc[c] = "reserved" /\ callerPc' = [callerPc EXCEPT ![c] = to]
    BY <1>4 DEF Release, CommitRecycled, CallerStates
  <2>2. /\ Cardinality(Reserving') = Cardinality(Reserving) - 1
        /\ Cardinality(Reserving) > 0
    BY <2>1, ReservingFacts
  <2> QED BY <1>4, <2>2 DEF Release, CommitRecycled, TakeBackSlot, TypeOK
<1>5. ASSUME NEW c \in Callers, Commit(c) PROVE SlotInv'
  <2>1. Len(queue') = Len(queue) + 1
    BY <1>5, PushFacts DEF Commit, TypeOK
  <2>2. "counting" \in CallerStates /\ "counting" # "reserved"
    BY DEF CallerStates
  <2>3. /\ Cardinality(Reserving') = Cardinality(Reserving) - 1
        /\ Cardinality(Reserving) > 0
    BY <1>5, <2>2, ReservingFacts DEF Commit
  <2> QED BY <1>5, <2>1, <2>3 DEF Commit, TakeBackSlot, TypeOK
<1>6. ASSUME NEW w \in Workers, WorkerPop(w) PROVE SlotInv'
  <2>1. Len(queue') = Len(queue) - 1
    BY <1>6, PopFacts DEF WorkerPop, TypeOK
  <2> QED BY <1>6, <2>1 DEF WorkerPop, Reserving, TypeOK
<1>7. CASE UNCHANGED <<queue, reserved, callerPc>>
  BY <1>7 DEF Reserving
<1> QED
  BY <1>1, <1>2, <1>3, <1>4, <1>5, <1>6, <1>7
     DEF Next, CallerNext, WorkerStep, ShutdownNext, QuietCaller, vars,
         WorkerWait, SpuriousWakeup, WorkerExit, WorkerBegin, WorkerFinish, WorkerErase,
         WorkerDeliver, CancelAll, ShutdownCancel, ShutdownRelease, ShutdownNotify, ShutdownJoin

\* No slot is taken at the start.
LEMMA SlotInit == Init => SlotInv
<1> SUFFICES ASSUME Init PROVE SlotInv
  OBVIOUS
<1>1. Reserving = {}
  BY DEF Init, Reserving
<1>2. Cardinality(Reserving) = 0
  BY <1>1, FS_EmptySet
<1> QED BY <1>2, PoolFacts DEF Init, SlotInv, CapacityRespected

\* Concurrent acceptance never exceeds the waiting capacity, reserved slots
\* included, whatever the interleaving of submit, reserve, commit and release.
THEOREM CapacityNeverExceeded == Spec => []CapacityRespected
<1>1. SlotInv => CapacityRespected
  BY DEF SlotInv
<1> QED BY <1>1, SlotInit, SlotStep, TypeCorrect, PTL DEF Spec

-----------------------------------------------------------------------------
(* Ownership of tasks.                                                     *)

\* Waking workers up does not touch the tasks they hold.
LEMMA WokenKeepsBusy ==
    ASSUME WokenOnly PROVE \A w \in Workers : Busy(w)' <=> Busy(w)
  BY DEF WokenOnly, Busy

\* A push gives the task of c, which nobody holds yet, to the queue.
LEMMA PushOwner ==
    ASSUME TypeOK, OwnerInv, NEW c \in Callers,
           callerPc[c] \in {"idle", "reserved"},
           queue' = Append(queue, c), WokenOnly,
           callerPc' = [callerPc EXCEPT ![c] = "counting"],
           UNCHANGED <<promise, item>>
    PROVE  OwnerInv'
<1> USE DEF OwnerInv, TypeOK, Handed
<1>1. \A w \in Workers : Busy(w)' <=> Busy(w)
  BY WokenKeepsBusy
<1>2. /\ Len(queue') = Len(queue) + 1
      /\ QueueItems' = QueueItems \cup {c}
      /\ \A i \in 1..Len(queue) : queue'[i] = queue[i]
      /\ queue'[Len(queue) + 1] = c
  BY PushFacts
<1>3. c \notin QueueItems /\ promise[c] = "none" /\ \A w \in Workers : Busy(w) => item[w] # c
  OBVIOUS
<1>4. \A i \in 1..Len(queue) : queue[i] # c
  BY <1>3 DEF QueueItems
<1>5. \A i, j \in 1..Len(queue') : queue'[i] = queue'[j] => i = j
  <2> SUFFICES ASSUME NEW i \in 1..Len(queue'), NEW j \in 1..Len(queue'), queue'[i] = queue'[j]
               PROVE  i = j
    OBVIOUS
  <2> QED BY <1>2, <1>4 DEF OneHolder
<1>6. OneHolder'
  BY <1>1, <1>2, <1>3, <1>5 DEF OneHolder
<1> QED BY <1>1, <1>2, <1>3, <1>6

\* A worker that has left its handler has a result to deliver.
LEMMA ResultStep == TypeOK /\ ResultInv /\ [Next]_vars => ResultInv'
<1> SUFFICES ASSUME TypeOK, ResultInv, [Next]_vars PROVE ResultInv'
  OBVIOUS
<1> USE DEF callerVars, workerVars, stopVars
<1>1. ASSUME NEW w \in Workers, WorkerStep(w) \/ SpuriousWakeup(w) PROVE ResultInv'
  BY <1>1 DEF WorkerStep, WorkerWait, SpuriousWakeup, WorkerExit, WorkerPop, WorkerBegin,
              WorkerFinish, HandlerOutcomes, WorkerErase, WorkerDeliver, Step, ResultInv, TypeOK
<1>2. CASE UNCHANGED result /\ (WokenOnly \/ UNCHANGED workerPc)
  BY <1>2 DEF ResultInv, WokenOnly
<1>3. ASSUME NEW c \in Callers, CallerNext(c) PROVE ResultInv'
  <2>1. UNCHANGED result /\ (NotifyOne \/ UNCHANGED workerPc)
    BY <1>3 DEF CallerNext, Refuse, Submit, Reserve, Commit, CommitRecycled, Release, CountAccepted, Answer
  <2> QED BY <1>2, <2>1, NotifyWakes DEF TypeOK
<1>4. ASSUME CancelAll \/ ShutdownNext PROVE ResultInv'
  <2>1. UNCHANGED result /\ (NotifyAll \/ UNCHANGED workerPc)
    BY <1>4 DEF CancelAll, cancel_all, ShutdownNext, ShutdownCancel, ShutdownRelease, ShutdownNotify, ShutdownJoin
  <2> QED BY <1>2, <2>1, NotifyWakes DEF TypeOK
<1> QED BY <1>1, <1>2, <1>3, <1>4 DEF Next, vars

\* Every step keeps each open task with one holder.
LEMMA OwnerStep == TypeOK /\ ResultInv /\ OwnerInv /\ [Next]_vars => OwnerInv'
<1> SUFFICES ASSUME TypeOK, ResultInv, OwnerInv, [Next]_vars PROVE OwnerInv'
  OBVIOUS
<1> USE DEF callerVars, workerVars, stopVars
<1>1. ASSUME NEW c \in Callers, QuietCaller(c) \/ Reserve(c) \/ Release(c) PROVE OwnerInv'
  <2>1. UNCHANGED <<queue, promise, item, workerPc>>
    BY <1>1 DEF QuietCaller, Refuse, CountAccepted, Answer, Reserve, Release
  <2>2. QueueItems' = QueueItems /\ OneHolder' /\ \A w \in Workers : Busy(w)' <=> Busy(w)
    BY <2>1 DEF QueueItems, OneHolder, Busy, OwnerInv
  <2>3. \A w \in Workers : Busy(w) => item[w] \in Callers
    BY NoneAssumption DEF OwnerInv, TypeOK
  <2>4. callerPc[c] # "answered" /\ \A d \in Callers \ {c} : callerPc'[d] = callerPc[d]
    BY <1>1 DEF QuietCaller, Refuse, CountAccepted, Answer, Reserve, Release, TypeOK
  <2>5. \/ /\ callerPc[c] \in {"idle", "reserved"}
           /\ callerPc'[c] \in {"refused", "reserved", "released"}
        \/ callerPc[c] = "counting" /\ callerPc'[c] = "waiting"
        \/ callerPc[c] = "waiting" /\ callerPc'[c] = "answered" /\ promise[c] # "none"
    BY <1>1 DEF QuietCaller, Refuse, CountAccepted, Answer, Reserve, Release, TypeOK
  <2>6. QueueItems \subseteq Callers /\ \A d \in QueueItems : promise[d] = "none"
    BY DEF QueueItems, TypeOK, OwnerInv, OneHolder
  <2>7. \A w \in Workers : Busy(w) => promise[item[w]] = "none"
    BY DEF OwnerInv, OneHolder
  <2> QED BY <2>1, <2>2, <2>3, <2>4, <2>5, <2>6, <2>7 DEF OwnerInv, Handed
<1>2. ASSUME NEW c \in Callers, Submit(c) \/ Commit(c) PROVE OwnerInv'
  <2>1. WokenOnly
    BY <1>2, NotifyWakes DEF Submit, Commit, TypeOK
  <2> QED BY <1>2, <2>1, PushOwner DEF Submit, Commit
<1>3. ASSUME NEW c \in Callers, CommitRecycled(c) PROVE OwnerInv'
  <2>1. QueueItems' = QueueItems /\ \A w \in Workers : Busy(w)' <=> Busy(w)
    BY <1>3 DEF CommitRecycled, QueueItems, Busy
  <2>2. c \notin QueueItems /\ \A w \in Workers : Busy(w) => item[w] # c /\ item[w] \in Callers
    BY <1>3, NoneAssumption DEF CommitRecycled, OwnerInv, TypeOK
  <2>3. QueueItems \subseteq Callers
    BY DEF QueueItems, TypeOK
  <2>4. OneHolder'
    BY <1>3, <2>1, <2>2, <2>3 DEF CommitRecycled, OneHolder, OwnerInv, TypeOK
  <2> QED BY <1>3, <2>1, <2>2, <2>3, <2>4 DEF CommitRecycled, OwnerInv, Handed, TypeOK
<1>4. ASSUME NEW w \in Workers,
             \/ WorkerWait(w) \/ SpuriousWakeup(w) \/ WorkerExit(w) \/ WorkerBegin(w)
             \/ WorkerFinish(w) \/ WorkerErase(w)
      PROVE  OwnerInv'
  <2>1. UNCHANGED <<queue, promise, item, callerPc>> /\ \A v \in Workers : Busy(v)' <=> Busy(v)
    BY <1>4 DEF WorkerWait, SpuriousWakeup, WorkerExit, WorkerBegin, WorkerFinish, WorkerErase,
                Step, Busy, TypeOK
  <2>2. QueueItems' = QueueItems /\ OneHolder'
    BY <2>1 DEF QueueItems, OneHolder, OwnerInv
  <2> QED BY <2>1, <2>2 DEF OwnerInv, Handed
<1>5. ASSUME NEW w \in Workers, WorkerPop(w) PROVE OwnerInv'
  <2> DEFINE h == Head(queue)
  <2>1. /\ Len(queue') = Len(queue) - 1
        /\ Len(queue') \in Nat
        /\ h = queue[1]
        /\ h \in Callers
        /\ h \in QueueItems
        /\ QueueItems = QueueItems' \cup {h}
        /\ \A i \in 1..Len(queue') : queue'[i] = queue[i + 1]
    BY <1>5, PopFacts DEF WorkerPop, TypeOK
  <2>2. ~Busy(w) /\ Busy(w)' /\ item'[w] = h
    BY <1>5 DEF WorkerPop, Step, Busy, TypeOK
  <2>3. \A v \in Workers \ {w} : (Busy(v)' <=> Busy(v)) /\ item'[v] = item[v]
    BY <1>5 DEF WorkerPop, Step, Busy, TypeOK
  <2>4. \A i, j \in 1..Len(queue') : queue'[i] = queue'[j] => i = j
    <3> SUFFICES ASSUME NEW i \in 1..Len(queue'), NEW j \in 1..Len(queue'), queue'[i] = queue'[j]
                 PROVE  i = j
      OBVIOUS
    <3>1. i + 1 \in 1..Len(queue) /\ j + 1 \in 1..Len(queue) /\ queue[i + 1] = queue[j + 1]
      BY <2>1
    <3> QED BY <3>1 DEF OwnerInv, OneHolder
  <2>5. h \notin QueueItems'
    <3> SUFFICES ASSUME NEW i \in 1..Len(queue'), queue'[i] = h PROVE FALSE
      BY DEF QueueItems
    <3>1. i + 1 \in 1..Len(queue) /\ 1 \in 1..Len(queue) /\ queue[i + 1] = queue[1]
      BY <2>1
    <3>2. i + 1 = 1
      BY <3>1 DEF OwnerInv, OneHolder
    <3> QED BY <3>2
  <2>6. \A v \in Workers : Busy(v) => item[v] # h /\ item[v] \notin QueueItems'
    BY <2>1 DEF OwnerInv, OneHolder
  <2>7. UNCHANGED <<promise, callerPc>>
    BY <1>5 DEF WorkerPop
  <2>8. OneHolder'
    BY <2>1, <2>2, <2>3, <2>4, <2>5, <2>6, <2>7 DEF OwnerInv, OneHolder
  <2>9. h # None
    BY <2>1, NoneAssumption
  <2>10. \A v \in Workers : Busy(v)' <=> item'[v] # None
    BY <2>2, <2>3, <2>9 DEF OwnerInv
  <2>11. \A v \in Workers : Busy(v)' => callerPc'[item'[v]] \in {"counting", "waiting"}
    BY <2>1, <2>2, <2>3, <2>7 DEF OwnerInv
  <2>12. item[w] = None
    BY <2>2 DEF OwnerInv
  <2>13. ASSUME NEW c \in Callers, Handed(c)', promise'[c] = "none"
         PROVE  c \in QueueItems' \/ \E v \in Workers : item'[v] = c
    <3>1. c \in QueueItems \/ \E v \in Workers : item[v] = c
      BY <2>7, <2>13 DEF OwnerInv, Handed
    <3>2. ASSUME NEW v \in Workers, item[v] = c PROVE item'[v] = c
      BY <2>3, <2>12, <3>2, NoneAssumption
    <3> QED BY <2>1, <2>2, <3>1, <3>2
  <2> QED BY <2>1, <2>7, <2>8, <2>10, <2>11, <2>13 DEF OwnerInv, Handed
<1>6. ASSUME NEW w \in Workers, WorkerDeliver(w) PROVE OwnerInv'
  <2>1. /\ Busy(w) /\ ~Busy(w)' /\ item'[w] = None /\ item[w] \in Callers
        /\ promise' = [promise EXCEPT ![item[w]] = IF @ = "none" THEN result[w] ELSE @]
    BY <1>6, NoneAssumption DEF WorkerDeliver, Step, Busy, TypeOK, OwnerInv
  <2>2. \A v \in Workers \ {w} : (Busy(v)' <=> Busy(v)) /\ item'[v] = item[v]
    BY <1>6 DEF WorkerDeliver, Step, Busy, TypeOK
  <2>3. UNCHANGED <<queue, callerPc>> /\ QueueItems' = QueueItems
    BY <1>6 DEF WorkerDeliver, QueueItems
  <2>4. item[w] \notin QueueItems /\ \A v \in Workers \ {w} : Busy(v) => item[v] # item[w]
    BY <2>1 DEF OwnerInv, OneHolder
  <2>5. \A c \in Callers : c # item[w] => promise'[c] = promise[c]
    BY <2>1 DEF TypeOK
  <2>6. QueueItems \subseteq Callers /\ \A v \in Workers : Busy(v) => item[v] \in Callers
    BY NoneAssumption DEF QueueItems, TypeOK, OwnerInv
  <2>7. OneHolder'
    BY <2>1, <2>2, <2>3, <2>4, <2>5, <2>6 DEF OwnerInv, OneHolder
  <2>8. callerPc[item[w]] \in {"counting", "waiting"}
    BY <2>1 DEF OwnerInv
  <2>9. promise'[item[w]] # "none"
    BY <1>6, <2>1 DEF WorkerDeliver, Step, ResultInv, TypeOK
  <2>10. \A v \in Workers : Busy(v)' <=> item'[v] # None
    BY <2>1, <2>2 DEF OwnerInv
  <2>11. \A c \in Callers : Handed(c)' /\ promise'[c] = "none" =>
             c \in QueueItems' \/ \E v \in Workers : item'[v] = c
    BY <2>2, <2>3, <2>5, <2>9 DEF OwnerInv, Handed
  <2> QED BY <2>1, <2>2, <2>3, <2>5, <2>6, <2>7, <2>8, <2>9, <2>10, <2>11 DEF OwnerInv, Handed
<1>7. ASSUME CancelAll \/ ShutdownNext PROVE OwnerInv'
  <2>1. UNCHANGED <<queue, promise, item, callerPc>>
    BY <1>7 DEF CancelAll, ShutdownNext, ShutdownCancel, ShutdownRelease, ShutdownNotify, ShutdownJoin
  <2>2. \A w \in Workers : Busy(w)' <=> Busy(w)
    <3>1. CASE UNCHANGED workerPc
      BY <3>1 DEF Busy
    <3>2. CASE NotifyAll
      BY <3>2, NotifyWakes, WokenKeepsBusy DEF TypeOK
    <3> QED BY <1>7, <3>1, <3>2
         DEF CancelAll, cancel_all, ShutdownNext, ShutdownCancel, ShutdownRelease, ShutdownNotify, ShutdownJoin
  <2>3. QueueItems' = QueueItems /\ OneHolder'
    BY <2>1, <2>2 DEF QueueItems, OneHolder, OwnerInv
  <2> QED BY <2>1, <2>2, <2>3 DEF OwnerInv, Handed
<1>8. CASE UNCHANGED vars
  <2>1. QueueItems' = QueueItems /\ OneHolder' /\ \A w \in Workers : Busy(w)' <=> Busy(w)
    BY <1>8 DEF vars, QueueItems, OneHolder, Busy, OwnerInv
  <2> QED BY <1>8, <2>1 DEF vars, OwnerInv, Handed
<1> QED
  BY <1>1, <1>2, <1>3, <1>4, <1>5, <1>6, <1>7, <1>8
     DEF Next, CallerNext, WorkerStep, QuietCaller

-----------------------------------------------------------------------------
(* Stopping, and waking up.                                                *)

\* Every step keeps stopped_, workers_stop_, the tokens and the exits together.
LEMMA StopStep == TypeOK /\ OwnerInv /\ StopInv /\ [Next]_vars => StopInv'
<1> SUFFICES ASSUME TypeOK, OwnerInv, StopInv, [Next]_vars PROVE StopInv'
  OBVIOUS
<1> USE DEF callerVars, workerVars, stopVars
<1>1. ASSUME NEW c \in Callers, QuietCaller(c) \/ Reserve(c) \/ Release(c) PROVE StopInv'
  <2>1. UNCHANGED <<queue, tokens, activeItems, item, workerPc, stopped, workersStop, shutdownPc>>
    BY <1>1 DEF QuietCaller, Refuse, CountAccepted, Answer, Reserve, Release
  <2> QED BY <2>1 DEF StopInv, StopReachesEveryTask, QueueItems
<1>2. ASSUME NEW c \in Callers, CommitRecycled(c) PROVE StopInv'
  BY <1>2 DEF CommitRecycled, StopInv, StopReachesEveryTask, QueueItems
<1>3. ASSUME NEW c \in Callers, Submit(c) \/ Commit(c) PROVE StopInv'
  <2>1. WokenOnly
    BY <1>3, NotifyWakes DEF Submit, Commit, TypeOK
  <2>2. QueueItems' = QueueItems \cup {c}
    BY <1>3, PushFacts DEF Submit, Commit, TypeOK
  <2>3. ~workersStop
    BY <1>3 DEF Submit, Commit, StopInv, TypeOK, ShutdownStates
  <2>4. /\ UNCHANGED <<activeItems, item, stopped, workersStop, shutdownPc>>
        /\ stopped => tokens' = tokens \cup {c}
        /\ tokens \subseteq tokens'
    BY <1>3 DEF Submit, Commit
  <2> QED BY <2>1, <2>2, <2>3, <2>4 DEF StopInv, StopReachesEveryTask, WokenOnly
<1>4. ASSUME NEW w \in Workers,
             WorkerWait(w) \/ SpuriousWakeup(w) \/ WorkerExit(w) \/ WorkerBegin(w) \/ WorkerFinish(w)
      PROVE  StopInv'
  BY <1>4 DEF WorkerWait, SpuriousWakeup, WorkerExit, WorkerBegin, WorkerFinish, Step,
              StopInv, StopReachesEveryTask, QueueItems, TypeOK
<1>5. ASSUME NEW w \in Workers, WorkerPop(w) PROVE StopInv'
  <2>1. Head(queue) \in QueueItems /\ QueueItems' \subseteq QueueItems
    BY <1>5, PopFacts DEF WorkerPop, TypeOK
  <2>2. \A v \in Workers : workerPc[v] # "exit"
    BY <1>5 DEF WorkerPop, StopInv
  <2> QED BY <1>5, <2>1, <2>2 DEF WorkerPop, Step, StopInv, StopReachesEveryTask, TypeOK
<1>6. ASSUME NEW w \in Workers, WorkerErase(w) PROVE StopInv'
  <2>1. \A v \in Workers \ {w} :
            workerPc[v] \in {"popped", "running", "shortcut", "finished"} => item[v] # item[w]
    BY <1>6 DEF WorkerErase, Step, OwnerInv, OneHolder, Busy
  <2> QED BY <1>6, <2>1 DEF WorkerErase, Step, StopInv, StopReachesEveryTask, QueueItems, TypeOK
<1>7. ASSUME NEW w \in Workers, WorkerDeliver(w) PROVE StopInv'
  BY <1>7 DEF WorkerDeliver, Step, StopInv, StopReachesEveryTask, QueueItems, TypeOK
<1>8. ASSUME CancelAll \/ ShutdownCancel PROVE StopInv'
  <2>1. WokenOnly
    BY <1>8, NotifyWakes DEF CancelAll, ShutdownCancel, cancel_all, TypeOK
  <2>2. /\ UNCHANGED <<queue, activeItems, item, workersStop>> /\ stopped'
        /\ QueueItems' = QueueItems
        /\ tokens' = tokens \cup QueueItems \cup activeItems
        /\ shutdownPc' = shutdownPc \/ (shutdownPc = "none" /\ shutdownPc' = "cancelled")
    BY <1>8 DEF CancelAll, ShutdownCancel, cancel_all, QueueItems
  <2> QED BY <2>1, <2>2 DEF StopInv, StopReachesEveryTask, WokenOnly
<1>9. ASSUME QuietStop PROVE StopInv'
  <2>1. ShutdownNotify => WokenOnly
    BY NotifyWakes DEF ShutdownNotify, TypeOK
  <2> QED BY <1>9, <2>1 DEF QuietStop, ShutdownRelease, ShutdownNotify, ShutdownJoin,
                 StopInv, StopReachesEveryTask, QueueItems, WokenOnly
<1>10. CASE UNCHANGED vars
  BY <1>10 DEF vars, StopInv, StopReachesEveryTask, QueueItems
<1> QED
  BY <1>1, <1>2, <1>3, <1>4, <1>5, <1>6, <1>7, <1>8, <1>9, <1>10
     DEF Next, CallerNext, WorkerStep, ShutdownNext, QuietCaller, QuietStop

\* No step parks the last awake worker while a task is queued.
LEMMA WakeupStep == TypeOK /\ NoLostWakeup /\ [Next]_vars => NoLostWakeup'
<1> SUFFICES ASSUME TypeOK, NoLostWakeup, [Next]_vars, queue' # <<>>
             PROVE  \E w \in Workers : workerPc'[w] # "wait"
  BY DEF NoLostWakeup
<1> USE DEF callerVars, workerVars, stopVars
<1>1. ASSUME NEW c \in Callers, Submit(c) \/ Commit(c)
      PROVE  \E w \in Workers : workerPc'[w] # "wait"
  BY <1>1, NotifyOneWakes DEF Submit, Commit, TypeOK
<1>2. CASE queue' = queue /\ (workerPc' = workerPc \/ WokenOnly)
  BY <1>2 DEF NoLostWakeup, WokenOnly
<1>3. ASSUME NEW c \in Callers, CallerNext(c), ~Submit(c), ~Commit(c)
      PROVE  queue' = queue /\ workerPc' = workerPc
  BY <1>3 DEF CallerNext, Refuse, Reserve, CommitRecycled, Release, CountAccepted, Answer
<1>4. ASSUME NEW w \in Workers, WorkerStep(w) \/ SpuriousWakeup(w)
      PROVE  \E v \in Workers : workerPc'[v] # "wait"
  BY <1>4 DEF WorkerStep, WorkerWait, SpuriousWakeup, WorkerExit, WorkerPop, WorkerBegin,
              WorkerFinish, WorkerErase, WorkerDeliver, Step, TypeOK
<1>5. ASSUME CancelAll \/ ShutdownNext
      PROVE  queue' = queue /\ (workerPc' = workerPc \/ WokenOnly)
  BY <1>5, NotifyWakes DEF CancelAll, cancel_all, ShutdownNext, ShutdownCancel,
                           ShutdownRelease, ShutdownNotify, ShutdownJoin, TypeOK
<1> QED BY <1>1, <1>2, <1>3, <1>4, <1>5 DEF Next, vars

-----------------------------------------------------------------------------
(* The theorems.                                                           *)

\* The whole inductive invariant holds in every reachable state.
THEOREM InductiveInvariant == Spec => []IInv
<1>1. Init => TypeOK
  BY TypeInit
<1>2. Init => SlotInv
  BY SlotInit
<1>3. Init => ResultInv /\ OwnerInv /\ StopInv /\ NoLostWakeup
  <2> SUFFICES ASSUME Init PROVE ResultInv /\ OwnerInv /\ StopInv /\ NoLostWakeup
    OBVIOUS
  <2>1. QueueItems = {} /\ queue = <<>> /\ Len(queue) = 0
    BY DEF Init, QueueItems
  <2>2. ResultInv /\ NoLostWakeup
    BY <2>1 DEF Init, ResultInv, NoLostWakeup
  <2>3. OwnerInv
    BY <2>1 DEF Init, OwnerInv, OneHolder, Busy, Handed
  <2>4. StopInv
    BY <2>1 DEF Init, StopInv, StopReachesEveryTask
  <2> QED BY <2>2, <2>3, <2>4
<1>4. IInv /\ [Next]_vars => IInv'
  BY TypeStep, SlotStep, ResultStep, OwnerStep, StopStep, WakeupStep DEF IInv
<1>5. Init => IInv
  BY <1>1, <1>2, <1>3 DEF IInv
<1> QED BY <1>4, <1>5, PTL DEF Spec

\* A task is never in two places: queued twice, held by two workers, or still
\* somewhere after its promise was resolved.
THEOREM TasksHaveOneHolder == Spec => []OneHolder
<1>1. IInv => OneHolder
  BY DEF IInv, OwnerInv
<1> QED BY <1>1, InductiveInvariant, PTL

\* An open future always has a worker that holds its task, or a worker left to
\* take it from the queue, also when shutdown() overtakes a reservation.
THEOREM FuturesAreNotOrphaned == Spec => []NoOrphanedFuture
<1>1. IInv => NoOrphanedFuture
  <2> SUFFICES ASSUME IInv, NEW c \in Callers, Handed(c), promise[c] = "none",
                      ~ \E w \in Workers : item[w] = c
               PROVE  c \in QueueItems /\ \E w \in Workers : workerPc[w] # "exit"
    BY DEF NoOrphanedFuture
  <2>1. c \in QueueItems
    BY DEF IInv, OwnerInv
  <2>2. queue # <<>>
    BY <2>1 DEF QueueItems, IInv, TypeOK
  <2>3. \A w \in Workers : workerPc[w] # "exit"
    BY <2>2 DEF IInv, StopInv
  <2> QED BY <2>1, <2>3, PoolFacts
<1> QED BY <1>1, InductiveInvariant, PTL

\* After cancel_all() or shutdown() every waiting or running task is cancelled,
\* the ones that were committed from an older reservation included.
THEOREM StopCancelsEverything == Spec => []StopReachesEveryTask
<1>1. IInv => StopReachesEveryTask
  BY DEF IInv, StopInv
<1> QED BY <1>1, InductiveInvariant, PTL

\* The worker pool never sleeps while a task is waiting.
THEOREM WakeupsAreNotLost == Spec => []NoLostWakeup
<1>1. IInv => NoLostWakeup
  BY DEF IInv
<1> QED BY <1>1, InductiveInvariant, PTL

\* A queue holds at most as many tasks as it is long.
LEMMA QueueSize ==
    ASSUME queue \in Seq(Callers)
    PROVE  IsFiniteSet(QueueItems) /\ Cardinality(QueueItems) <= Len(queue)
<1>1. queue \in Surjection(1..Len(queue), QueueItems)
  BY DEF Surjection, QueueItems
<1>2. IsFiniteSet(1..Len(queue)) /\ Cardinality(1..Len(queue)) = Len(queue)
  <2>1. 1 \in Int /\ Len(queue) \in Int /\ Len(queue) \in Nat
    OBVIOUS
  <2>2. IsFiniteSet(1..Len(queue)) /\ Cardinality(1..Len(queue)) = IF 1 > Len(queue) THEN 0 ELSE Len(queue) - 1 + 1
    BY <2>1, FS_Interval
  <2> QED BY <2>1, <2>2
<1> QED BY <1>1, <1>2, FS_Surjection

\* The workers hold at most one task each.
LEMMA HeldSize ==
    ASSUME item \in [Workers -> Callers \cup {None}]
    PROVE  IsFiniteSet(Held) /\ Cardinality(Held) <= Cardinality(Workers)
<1>1. item \in Surjection(Workers, Held)
  BY DEF Surjection, Held
<1> QED BY <1>1, WorkersAssumption, FS_Surjection

\* The size of a union is at most the sum of the sizes.
LEMMA UnionSize ==
    ASSUME NEW S, NEW T, IsFiniteSet(S), IsFiniteSet(T)
    PROVE  /\ IsFiniteSet(S \cup T)
           /\ Cardinality(S \cup T) \in Nat
           /\ Cardinality(S \cup T) <= Cardinality(S) + Cardinality(T)
<1>1. /\ IsFiniteSet(S \cup T)
      /\ Cardinality(S \cup T) = Cardinality(S) + Cardinality(T) - Cardinality(S \cap T)
  BY FS_Union
<1>2. Cardinality(S) \in Nat /\ Cardinality(T) \in Nat
  BY FS_CardinalityType
<1>3. Cardinality(S \cap T) \in Nat
  BY FS_Intersection, FS_CardinalityType
<1>4. Cardinality(S \cup T) \in Nat
  BY <1>1, FS_CardinalityType
<1> QED BY <1>1, <1>2, <1>3, <1>4

\* HTTP threads that wait for judging are never more than the workers and the
\* waiting slots together, the bound HttpServer takes for its thread pool.
THEOREM HttpThreadsBounded == Spec => []HttpThreadBound
<1>1. IInv => HttpThreadBound
  <2> SUFFICES ASSUME IInv PROVE HttpThreadBound
    OBVIOUS
  <2>1. Occupied \subseteq (Reserving \cup QueueItems) \cup Held
    BY DEF IInv, OwnerInv, Occupied, Reserving, Held, Handed
  <2>2. IsFiniteSet(Reserving) /\ Cardinality(Reserving) = reserved
    BY CallersAssumption, FS_Subset DEF Reserving, IInv, SlotInv
  <2>3. IsFiniteSet(QueueItems) /\ Cardinality(QueueItems) <= Len(queue)
    BY QueueSize DEF IInv, TypeOK
  <2>4. IsFiniteSet(Held) /\ Cardinality(Held) <= Cardinality(Workers)
    BY HeldSize DEF IInv, TypeOK
  <2>5. /\ IsFiniteSet(Reserving \cup QueueItems)
        /\ Cardinality(Reserving \cup QueueItems) \in Nat
        /\ Cardinality(Reserving \cup QueueItems) <= Cardinality(Reserving) + Cardinality(QueueItems)
    BY <2>2, <2>3, UnionSize
  <2>6. /\ IsFiniteSet((Reserving \cup QueueItems) \cup Held)
        /\ Cardinality((Reserving \cup QueueItems) \cup Held) \in Nat
        /\ Cardinality((Reserving \cup QueueItems) \cup Held)
             <= Cardinality(Reserving \cup QueueItems) + Cardinality(Held)
    BY <2>4, <2>5, UnionSize
  <2>7. /\ Cardinality(Occupied) \in Nat
        /\ Cardinality(Occupied) <= Cardinality((Reserving \cup QueueItems) \cup Held)
    BY <2>1, <2>6, FS_Subset, FS_CardinalityType
  <2>8. Cardinality(QueueItems) \in Nat /\ Cardinality(Held) \in Nat
    BY <2>3, <2>4, FS_CardinalityType
  <2>9. Len(queue) + reserved <= queue_capacity /\ Len(queue) \in Nat /\ reserved \in Nat
    BY DEF IInv, TypeOK, SlotInv, CapacityRespected
  <2> QED BY <2>2, <2>3, <2>4, <2>5, <2>6, <2>7, <2>8, <2>9, PoolFacts DEF HttpThreadBound
<1> QED BY <1>1, InductiveInvariant, PTL

-----------------------------------------------------------------------------
(***************************************************************************)
(* The refinement: every critical section of manager.cpp is a step that    *)
(* the contract of manager.h allows, or is invisible to it.                *)
(***************************************************************************)
Life == [c \in Callers |-> PhaseOf(c)]

\* The life of a task, read off the caller, its promise and the queue.
LifeShape ==
    \A c \in Callers :
        /\ callerPc[c] \in {"idle", "reserved", "refused", "released"} =>
               Life[c] = callerPc[c] /\ promise[c] = "none" /\ c \notin QueueItems
        /\ Handed(c) /\ promise[c] # "none" => Life[c] = "resolved" /\ c \notin QueueItems
        /\ Handed(c) /\ promise[c] = "none" => Life[c] = IF c \in QueueItems THEN "queued" ELSE "running"

\* The operator Scheduler has from its own FiniteSets is the same one.
LEMMA SameCardinality == ASSUME NEW S PROVE Abstract!Cardinality(S) = Cardinality(S)
  BY DEF Abstract!Cardinality, Cardinality

\* The invariant fixes the life of every task.
LEMMA InvShapesLife == IInv => LifeShape
<1> SUFFICES ASSUME IInv, NEW c \in Callers
             PROVE /\ callerPc[c] \in {"idle", "reserved", "refused", "released"} =>
                        Life[c] = callerPc[c] /\ promise[c] = "none" /\ c \notin QueueItems
                   /\ Handed(c) /\ promise[c] # "none" => Life[c] = "resolved" /\ c \notin QueueItems
                   /\ Handed(c) /\ promise[c] = "none" =>
                        Life[c] = IF c \in QueueItems THEN "queued" ELSE "running"
  BY DEF LifeShape
<1>0. Life[c] = PhaseOf(c)
  BY DEF Life
<1>1. c \in Held => \E w \in Workers : Busy(w) /\ item[w] = c
  BY NoneAssumption DEF Held, IInv, OwnerInv, TypeOK
<1>2. c \in Held => c \notin QueueItems /\ promise[c] = "none" /\ callerPc[c] \in {"counting", "waiting"}
  BY <1>1 DEF IInv, OwnerInv, OneHolder
<1>3. c \in QueueItems => callerPc[c] \in {"counting", "waiting"} /\ promise[c] = "none"
  BY DEF IInv, OwnerInv, OneHolder
<1>4. promise[c] # "none" => Handed(c)
  BY DEF IInv, OwnerInv
<1>5. Handed(c) /\ promise[c] = "none" => c \in QueueItems \/ c \in Held
  BY DEF IInv, OwnerInv, Held
<1> QED BY <1>0, <1>2, <1>3, <1>4, <1>5 DEF PhaseOf, Handed

\* The slots of the contract are the reserved ones and the places of the queue.
LEMMA SlotCount ==
    ASSUME IInv
    PROVE  Cardinality(Abstract!Slots) = Len(queue) + reserved
<1>1. Abstract!Slots = Reserving \cup QueueItems
  <2>1. ASSUME NEW c \in Callers PROVE Life[c] = "reserved" <=> c \in Reserving
    BY InvShapesLife DEF LifeShape, Handed, Reserving, IInv, TypeOK, CallerStates
  <2>2. ASSUME NEW c \in Callers PROVE Life[c] = "queued" <=> c \in QueueItems
    BY InvShapesLife DEF LifeShape, Handed, IInv, TypeOK, CallerStates
  <2>3. Reserving \subseteq Callers /\ QueueItems \subseteq Callers
    BY DEF Reserving, QueueItems, IInv, TypeOK
  <2>4. Abstract!Slots = {c \in Callers : Life[c] = "reserved"} \cup {c \in Callers : Life[c] = "queued"}
    BY DEF Abstract!Slots, Abstract!InPhase, Life
  <2> QED BY <2>1, <2>2, <2>3, <2>4
<1>2. IsFiniteSet(Reserving) /\ Cardinality(Reserving) = reserved /\ reserved \in Nat
  BY CallersAssumption, FS_Subset DEF Reserving, IInv, SlotInv, TypeOK
<1>3. IsFiniteSet(QueueItems) /\ Cardinality(QueueItems) = Len(queue) /\ Len(queue) \in Nat
  <2>1. ExistsBijection(1..Len(queue), QueueItems)
    <3>1. queue \in [1..Len(queue) -> QueueItems]
      BY DEF QueueItems, IInv, TypeOK
    <3>2. \A i, j \in 1..Len(queue) : queue[i] = queue[j] => i = j
      BY DEF IInv, OwnerInv, OneHolder
    <3>3. \A c \in QueueItems : \E i \in 1..Len(queue) : queue[i] = c
      BY DEF QueueItems
    <3>4. queue \in Injection(1..Len(queue), QueueItems) /\ queue \in Surjection(1..Len(queue), QueueItems)
      BY <3>1, <3>2, <3>3 DEF Injection, Surjection, IsInjective
    <3> QED BY <3>4 DEF ExistsBijection, Bijection
  <2>2. Len(queue) \in Nat /\ 1 \in Int /\ Len(queue) \in Int
    BY DEF IInv, TypeOK
  <2>3. IsFiniteSet(1..Len(queue)) /\ Cardinality(1..Len(queue)) = IF 1 > Len(queue) THEN 0 ELSE Len(queue) - 1 + 1
    BY <2>2, FS_Interval
  <2>4. Cardinality(1..Len(queue)) = Len(queue)
    BY <2>2, <2>3
  <2> QED BY <2>1, <2>2, <2>3, <2>4, FS_Bijection
<1>4. Reserving \cap QueueItems = {}
  BY DEF Reserving, IInv, OwnerInv
<1>5. Cardinality(Reserving \cup QueueItems) = reserved + Len(queue) - Cardinality(Reserving \cap QueueItems)
  BY <1>2, <1>3, FS_Union
<1> QED BY <1>1, <1>2, <1>3, <1>4, <1>5, FS_EmptySet

\* A worker that is about to take a task is one that runs none.
LEMMA RunningCount ==
    ASSUME IInv, NEW w \in Workers, ~Busy(w)
    PROVE  Cardinality(Abstract!InPhase("running")) < Cardinality(Workers)
<1> DEFINE Others == Workers \ {w}
           Image == {item[v] : v \in Others}
<1>1. Abstract!InPhase("running") \subseteq Image
  <2>1. Abstract!InPhase("running") = {c \in Callers : Life[c] = "running"}
    BY DEF Abstract!InPhase, Life
  <2>2. ASSUME NEW c \in Callers, Life[c] = "running" PROVE c \in Image
    <3>1. c \in Held
      BY <2>2 DEF Life, PhaseOf, IInv, TypeOK, CallerStates
    <3> QED BY <3>1, NoneAssumption DEF Held, IInv, OwnerInv
  <2> QED BY <2>1, <2>2
<1>2. IsFiniteSet(Others) /\ Cardinality(Others) = Cardinality(Workers) - 1
  BY WorkersAssumption, FS_RemoveElement
<1>3. IsFiniteSet(Image) /\ Cardinality(Image) <= Cardinality(Others)
  <2>1. [v \in Others |-> item[v]] \in Surjection(Others, Image)
    BY DEF Surjection
  <2> HIDE DEF Image, Others
  <2> QED BY <2>1, <1>2, FS_Surjection
<1>4. /\ Cardinality(Abstract!InPhase("running")) \in Nat
      /\ Cardinality(Abstract!InPhase("running")) <= Cardinality(Image)
  BY <1>1, <1>3, FS_Subset, FS_CardinalityType
<1>5. Cardinality(Image) \in Nat
  BY <1>3, FS_CardinalityType
<1> QED BY <1>2, <1>3, <1>4, <1>5, PoolFacts

\* One task moves on.
Moves(c, from, to) == Life[c] = from /\ Life' = [Life EXCEPT ![c] = to]

\* It does when what it depends on changes for no other task.
LEMMA OneMoves ==
    ASSUME LifeShape, LifeShape', IInv, IInv', NEW c \in Callers, Life'[c] # Life[c],
           \A d \in Callers \ {c} : /\ callerPc'[d] = callerPc[d] /\ promise'[d] = promise[d]
                                    /\ d \in QueueItems' <=> d \in QueueItems
    PROVE  Moves(c, Life[c], Life'[c])
<1>1. ASSUME NEW d \in Callers \ {c} PROVE Life'[d] = Life[d]
  <2>1. callerPc'[d] = callerPc[d] /\ promise'[d] = promise[d] /\ (d \in QueueItems' <=> d \in QueueItems)
    OBVIOUS
  <2>2. callerPc[d] \in {"idle", "reserved", "refused", "released"} \/ Handed(d)
    BY DEF IInv, TypeOK, CallerStates, Handed
  <2>3. Handed(d)' <=> Handed(d)
    BY <2>1 DEF Handed
  <2> QED BY <2>1, <2>2, <2>3 DEF LifeShape
<1>2. Life = [d \in Callers |-> Life[d]] /\ Life' = [d \in Callers |-> Life'[d]]
  BY DEF Life
<1> QED BY <1>1, <1>2 DEF Moves

\* Nobody does when what they depend on changes for no task.
LEMMA NobodyMoves ==
    ASSUME LifeShape, LifeShape', IInv, IInv', promise' = promise, QueueItems' = QueueItems,
           \A d \in Callers : \/ callerPc'[d] = callerPc[d]
                              \/ Handed(d) /\ Handed(d)'
    PROVE  Life' = Life
<1>1. ASSUME NEW d \in Callers PROVE Life'[d] = Life[d]
  <2>1. callerPc[d] \in {"idle", "reserved", "refused", "released"} \/ Handed(d)
    BY DEF IInv, TypeOK, CallerStates, Handed
  <2>2. callerPc'[d] = callerPc[d] => (Handed(d)' <=> Handed(d))
    BY DEF Handed
  <2> QED BY <2>1, <2>2 DEF LifeShape
<1>2. Life = [d \in Callers |-> Life[d]] /\ Life' = [d \in Callers |-> Life'[d]]
  BY DEF Life
<1> QED BY <1>1, <1>2

-----------------------------------------------------------------------------
\* Steps of the callers.
LEMMA CallerRefines ==
    ASSUME IInv, IInv', NEW c \in Callers, CallerNext(c)
    PROVE  [Abstract!SchedNext]_(Abstract!schedVars)
<1>0. LifeShape /\ LifeShape'
  <2>1. IInv' => LifeShape'
    BY InvShapesLife, PTL
  <2> QED BY <2>1, InvShapesLife
<1>1. callerPc \in [Callers -> CallerStates] /\ queue \in Seq(Callers) /\ Life \in [Callers -> Abstract!Phases]
  <2>1. ASSUME NEW d \in Callers PROVE Life[d] \in Abstract!Phases
    BY <1>0 DEF LifeShape, Handed, IInv, TypeOK, CallerStates, Abstract!Phases
  <2>2. Life = [d \in Callers |-> Life[d]]
    BY DEF Life
  <2> QED BY <2>1, <2>2 DEF IInv, TypeOK
<1>2. Cardinality(Abstract!Slots) = Len(queue) + reserved
  BY SlotCount
<1>3. CASE Refuse(c)
  <2>1. QueueItems' = QueueItems
    BY <1>3 DEF Refuse, QueueItems
  <2>2. Life[c] = "idle" /\ Life'[c] = "refused"
    BY <1>0, <1>1, <1>3 DEF Refuse, LifeShape
  <2>3. Moves(c, "idle", "refused")
    BY <1>0, <1>1, <1>3, <2>1, <2>2, OneMoves DEF Refuse
  <2>4. Abstract!Reject(c)
    <3>1. Abstract!Move(c, "idle", "refused")
      BY <2>3 DEF Abstract!Move, Moves, Life
    <3>2. stopped' = stopped /\ (stopped \/ Cardinality(Abstract!Slots) >= queue_capacity)
      BY <1>2, <1>3 DEF Refuse, Full, stopVars
    <3> QED BY <3>1, <3>2, SameCardinality DEF Abstract!Reject
  <2> QED BY <2>4 DEF Abstract!SchedNext
<1>4. CASE Submit(c)
  <2>1. QueueItems' = QueueItems \cup {c}
    BY <1>1, <1>4, PushFacts DEF Submit
  <2>2. Life[c] = "idle" /\ Life'[c] = "queued"
    BY <1>0, <1>1, <1>4, <2>1 DEF Submit, LifeShape, Handed
  <2>3. Moves(c, "idle", "queued")
    BY <1>0, <1>1, <1>4, <2>1, <2>2, OneMoves DEF Submit
  <2>4. Abstract!TakeSlot(c)
    <3>1. Abstract!Move(c, "idle", "queued")
      BY <2>3 DEF Abstract!Move, Moves, Life
    <3>2. ~stopped /\ stopped' = stopped /\ Cardinality(Abstract!Slots) < queue_capacity
      BY <1>2, <1>4, PoolFacts DEF Submit, Full, stopVars, IInv, TypeOK
    <3> QED BY <3>1, <3>2, SameCardinality DEF Abstract!TakeSlot
  <2> QED BY <2>4 DEF Abstract!SchedNext
<1>5. CASE Reserve(c)
  <2>1. QueueItems' = QueueItems
    BY <1>5 DEF Reserve, QueueItems
  <2>2. Life[c] = "idle" /\ Life'[c] = "reserved"
    BY <1>0, <1>1, <1>5 DEF Reserve, LifeShape
  <2>3. Moves(c, "idle", "reserved")
    BY <1>0, <1>1, <1>5, <2>1, <2>2, OneMoves DEF Reserve
  <2>4. Abstract!TakeSlot(c)
    <3>1. Abstract!Move(c, "idle", "reserved")
      BY <2>3 DEF Abstract!Move, Moves, Life
    <3>2. ~stopped /\ stopped' = stopped /\ Cardinality(Abstract!Slots) < queue_capacity
      BY <1>2, <1>5, PoolFacts DEF Reserve, Full, stopVars, IInv, TypeOK
    <3> QED BY <3>1, <3>2, SameCardinality DEF Abstract!TakeSlot
  <2> QED BY <2>4 DEF Abstract!SchedNext
<1>6. CASE Commit(c)
  <2>1. QueueItems' = QueueItems \cup {c}
    BY <1>1, <1>6, PushFacts DEF Commit
  <2>2. Life[c] = "reserved" /\ Life'[c] = "queued"
    BY <1>0, <1>1, <1>6, <2>1 DEF Commit, LifeShape, Handed
  <2>3. Moves(c, "reserved", "queued")
    BY <1>0, <1>1, <1>6, <2>1, <2>2, OneMoves DEF Commit
  <2>4. Abstract!UseSlot(c)
    BY <1>6, <2>3 DEF Abstract!UseSlot, Abstract!Move, Moves, Life, Commit, stopVars
  <2> QED BY <2>4 DEF Abstract!SchedNext
<1>7. CASE CommitRecycled(c)
  <2>1. QueueItems' = QueueItems
    BY <1>7 DEF CommitRecycled, QueueItems
  <2>2. promise'[c] = "recycled" /\ \A d \in Callers \ {c} : promise'[d] = promise[d]
    BY <1>7 DEF CommitRecycled, IInv, TypeOK
  <2>3. Life[c] = "reserved" /\ Life'[c] = "resolved"
    BY <1>0, <1>1, <1>7, <2>1, <2>2 DEF CommitRecycled, LifeShape, Handed
  <2>4. Moves(c, "reserved", "resolved")
    BY <1>0, <1>1, <1>7, <2>1, <2>2, <2>3, OneMoves DEF CommitRecycled
  <2>5. Abstract!UseSlot(c)
    BY <1>7, <2>4 DEF Abstract!UseSlot, Abstract!Move, Moves, Life, CommitRecycled, stopVars, IInv, StopInv
  <2> QED BY <2>5 DEF Abstract!SchedNext
<1>8. CASE Release(c)
  <2>1. QueueItems' = QueueItems
    BY <1>8 DEF Release, QueueItems
  <2>2. Life[c] = "reserved" /\ Life'[c] = "released"
    BY <1>0, <1>1, <1>8 DEF Release, LifeShape
  <2>3. Moves(c, "reserved", "released")
    BY <1>0, <1>1, <1>8, <2>1, <2>2, OneMoves DEF Release
  <2>4. Abstract!DropSlot(c)
    BY <1>8, <2>3 DEF Abstract!DropSlot, Abstract!Move, Moves, Life, Release, stopVars
  <2> QED BY <2>4 DEF Abstract!SchedNext
<1>9. CASE CountAccepted(c) \/ Answer(c)
  <2>1. QueueItems' = QueueItems /\ promise' = promise /\ stopped' = stopped
    BY <1>9 DEF CountAccepted, Answer, QueueItems, stopVars
  <2>2. ASSUME NEW d \in Callers PROVE callerPc'[d] = callerPc[d] \/ (Handed(d) /\ Handed(d)')
    BY <1>1, <1>9 DEF CountAccepted, Answer, Handed
  <2>3. Life' = Life
    BY <1>0, <2>1, <2>2, NobodyMoves
  <2> QED BY <2>1, <2>3 DEF Abstract!schedVars, Life
<1> QED BY <1>3, <1>4, <1>5, <1>6, <1>7, <1>8, <1>9 DEF CallerNext

\* Steps of the workers: a task starts when it is popped and is resolved when its
\* promise is; what is between belongs to the run.
LEMMA WorkerRefines ==
    ASSUME IInv, IInv', NEW w \in Workers, WorkerStep(w) \/ SpuriousWakeup(w)
    PROVE  [Abstract!SchedNext]_(Abstract!schedVars)
<1>0. LifeShape /\ LifeShape'
  <2>1. IInv' => LifeShape'
    BY InvShapesLife, PTL
  <2> QED BY <2>1, InvShapesLife
<1>1. CASE WorkerPop(w)
  <2> DEFINE c == Head(queue)
  <2>1. queue \in Seq(Callers) /\ queue # <<>>
    BY <1>1 DEF WorkerPop, IInv, TypeOK
  <2>2. c \in Callers /\ c \in QueueItems /\ QueueItems \subseteq Callers
    BY <2>1 DEF QueueItems
  <2>3. c \notin QueueItems' /\ QueueItems = QueueItems' \cup {c}
    <3>1. queue' = Tail(queue)
      BY <1>1 DEF WorkerPop
    <3>2. /\ queue' \in Seq(Callers) /\ Len(queue') = Len(queue) - 1 /\ Len(queue) \in Nat
          /\ queue[1] = c /\ \A i \in 1..Len(queue') : queue'[i] = queue[i + 1]
      BY <2>1, <3>1
    <3>3. \A i, j \in 1..Len(queue) : queue[i] = queue[j] => i = j
      BY DEF IInv, OwnerInv, OneHolder
    <3> HIDE DEF c
    <3>4. c \notin QueueItems'
      BY <3>2, <3>3 DEF QueueItems
    <3>5. ASSUME NEW i \in 1..Len(queue) PROVE queue[i] \in QueueItems' \cup {c}
      <4>1. CASE i = 1
        BY <4>1, <3>2
      <4>2. CASE i # 1
        <5>1. i - 1 \in 1..Len(queue') /\ queue'[i - 1] = queue[i]
          BY <4>2, <3>2
        <5> QED BY <5>1 DEF QueueItems
      <4> QED BY <4>1, <4>2
    <3>6. ASSUME NEW i \in 1..Len(queue') PROVE queue'[i] \in QueueItems
      BY <3>2 DEF QueueItems
    <3> QED BY <2>2, <3>4, <3>5, <3>6 DEF QueueItems
  <2>4. callerPc' = callerPc /\ promise' = promise /\ stopped' = stopped /\ ~Busy(w)
    BY <1>1 DEF WorkerPop, Step, callerVars, stopVars, Busy
  <2>5. Life[c] = "queued" /\ Life'[c] = "running"
    <3>1. callerPc[c] \in {"counting", "waiting"} /\ promise[c] = "none"
      BY <2>2 DEF IInv, OwnerInv, OneHolder
    <3> HIDE DEF c
    <3> QED BY <1>0, <2>2, <2>3, <2>4, <3>1 DEF LifeShape, Handed
  <2> HIDE DEF c
  <2>6. Moves(c, "queued", "running")
    BY <1>0, <2>2, <2>3, <2>4, <2>5, OneMoves
  <2>7. Abstract!Start(c)
    <3>1. Abstract!Move(c, "queued", "running")
      BY <2>6 DEF Abstract!Move, Moves, Life
    <3>2. Cardinality(Abstract!InPhase("running")) < Cardinality(Workers)
      BY <2>4, RunningCount
    <3> QED BY <2>4, <3>1, <3>2, SameCardinality DEF Abstract!Start
  <2> QED BY <2>2, <2>7 DEF Abstract!SchedNext
<1>2. CASE WorkerDeliver(w)
  <2> DEFINE c == item[w]
  <2>1. Busy(w) /\ workerPc[w] = "erased" /\ result[w] # "none"
    BY <1>2 DEF WorkerDeliver, Step, Busy, IInv, ResultInv
  <2>2. c \in Callers
    BY <2>1 DEF IInv, OwnerInv, TypeOK
  <2>3. promise[c] = "none" /\ callerPc[c] \in {"counting", "waiting"} /\ c \notin QueueItems
    BY <2>1 DEF IInv, OwnerInv, OneHolder
  <2>4. callerPc' = callerPc /\ stopped' = stopped /\ QueueItems' = QueueItems
    BY <1>2 DEF WorkerDeliver, callerVars, stopVars, QueueItems
  <2>5. promise'[c] # "none" /\ \A d \in Callers \ {c} : promise'[d] = promise[d]
    BY <1>2, <2>1, <2>2, <2>3 DEF WorkerDeliver, IInv, TypeOK
  <2> HIDE DEF c
  <2>6. Life[c] = "running" /\ Life'[c] = "resolved"
    BY <1>0, <2>2, <2>3, <2>4, <2>5 DEF LifeShape, Handed
  <2>7. Moves(c, "running", "resolved")
    BY <1>0, <2>2, <2>4, <2>5, <2>6, OneMoves
  <2>8. Abstract!Resolve(c)
    BY <2>4, <2>7 DEF Abstract!Resolve, Abstract!Move, Moves, Life
  <2> QED BY <2>2, <2>8 DEF Abstract!SchedNext
<1>3. CASE \/ WorkerWait(w) \/ WorkerExit(w) \/ WorkerBegin(w) \/ WorkerFinish(w) \/ WorkerErase(w)
           \/ SpuriousWakeup(w)
  <2>1. queue' = queue /\ promise' = promise /\ stopped' = stopped /\ callerPc' = callerPc
    BY <1>3 DEF WorkerWait, WorkerExit, WorkerBegin, WorkerFinish, WorkerErase, SpuriousWakeup,
                callerVars, stopVars
  <2>2. Life' = Life
    BY <1>0, <2>1, NobodyMoves DEF QueueItems
  <2> QED BY <2>1, <2>2 DEF Abstract!schedVars, Life
<1> QED BY <1>1, <1>2, <1>3 DEF WorkerStep

\* Stopping closes the scheduler and moves no task.
LEMMA StopRefines ==
    ASSUME IInv, IInv', CancelAll \/ ShutdownNext
    PROVE  [Abstract!SchedNext]_(Abstract!schedVars)
<1>0. LifeShape /\ LifeShape'
  <2>1. IInv' => LifeShape'
    BY InvShapesLife, PTL
  <2> QED BY <2>1, InvShapesLife
<1>1. queue' = queue /\ promise' = promise /\ callerPc' = callerPc
  BY DEF CancelAll, ShutdownNext, ShutdownCancel, ShutdownRelease, ShutdownNotify, ShutdownJoin, callerVars
<1>2. Life' = Life
  BY <1>0, <1>1, NobodyMoves DEF QueueItems
<1>3. stopped' = stopped \/ (~stopped /\ stopped')
  BY DEF CancelAll, ShutdownNext, ShutdownCancel, ShutdownRelease, ShutdownNotify, ShutdownJoin, cancel_all,
         IInv, TypeOK
<1>4. CASE stopped' = stopped
  BY <1>2, <1>4 DEF Abstract!schedVars, Life
<1>5. CASE ~stopped /\ stopped'
  BY <1>2, <1>5 DEF Abstract!SchedNext, Abstract!Close, Life, IInv, TypeOK
<1> QED BY <1>3, <1>4, <1>5

\* JudgeManager implements Scheduler: with its mutex, queue, worker threads and
\* condition variable it does nothing that the contract in manager.h does not
\* allow, so a caller is refused only when no slot is free or the scheduler is
\* closed, and a task that is handed over is run once and resolved once.
THEOREM ContractIsImplemented == Spec => ImplementsScheduler
<1>1. Init => Abstract!SchedInit
  <2> SUFFICES ASSUME Init PROVE Abstract!SchedInit
    OBVIOUS
  <2>1. QueueItems = {} /\ stopped = FALSE
    BY DEF Init, QueueItems
  <2>2. ASSUME NEW c \in Callers PROVE PhaseOf(c) = "idle"
    BY <2>1, NoneAssumption DEF Init, PhaseOf, Held
  <2> QED BY <2>1, <2>2 DEF Abstract!SchedInit
<1>2. IInv /\ IInv' /\ [Next]_vars => [Abstract!SchedNext]_(Abstract!schedVars)
  <2> SUFFICES ASSUME IInv, IInv', [Next]_vars PROVE [Abstract!SchedNext]_(Abstract!schedVars)
    OBVIOUS
  <2>1. CASE UNCHANGED vars
    BY <2>1 DEF vars, Abstract!schedVars, PhaseOf, Held, QueueItems
  <2>2. CASE Next
    BY <2>2, CallerRefines, WorkerRefines, StopRefines DEF Next
  <2> QED BY <2>1, <2>2
<1> QED BY <1>1, <1>2, InductiveInvariant, PTL DEF Spec, ImplementsScheduler, Abstract!SchedSpec

-----------------------------------------------------------------------------
(***************************************************************************)
(* HttpServer::stop: whatever the number of requests, workers and slots,   *)
(* a stop of the server drains everything that was accepted.               *)
(***************************************************************************)

\* The callers that accepted_ has counted, and the tasks that completed_ has.
Counted == {c \in Callers : callerPc[c] \in {"waiting", "answered"}}
Executed ==
    {c \in Callers : \/ promise[c] # "none"
                     \/ \E w \in Workers : workerPc[w] \in {"finished", "erased"} /\ item[w] = c}

\* shutdown() runs only after the HTTP threads are gone.
OrderInv ==
    /\ serverPc \in {"running", "cancelled", "joined"}
    /\ shutdownPc # "none" => serverPc = "joined"
    /\ serverPc = "joined" =>
           \A c \in Callers : callerPc[c] \in {"idle", "answered", "refused", "released"}

\* So no promise is resolved by the defensive branch of commit() ...
NoRecycling ==
    /\ \A c \in Callers : promise[c] # "recycled"
    /\ \A w \in Workers : result[w] # "recycled"

\* ... and the counters, which change outside of the mutex, count what they should.
CountInv ==
    /\ accepted = Cardinality(Counted)
    /\ completed = Cardinality(Executed)

JoinInv == shutdownPc = "joined" => drained

ServerInv == OrderInv /\ NoRecycling /\ CountInv /\ JoinInv

-----------------------------------------------------------------------------
\* A step of the server is a step of the scheduler, or leaves it alone.
LEMMA ServerStepRefines == [ServerNext]_serverVars => [Next]_vars
  BY DEF ServerNext, serverVars, Request, StopCancel, StopJoin, StopShutdown, Next

\* What is proved of the scheduler holds in the composed server too.
LEMMA SchedulerInvariant == ServerSpec => []IInv
<1>1. ServerSpec => Spec
  BY ServerStepRefines, PTL DEF ServerSpec, ServerInit, Spec
<1> QED BY <1>1, InductiveInvariant, PTL

\* The order of the stop is kept, and with it nobody has a slot to commit.
LEMMA OrderStep == IInv /\ OrderInv /\ [ServerNext]_serverVars => OrderInv'
<1> SUFFICES ASSUME IInv, OrderInv, [ServerNext]_serverVars PROVE OrderInv'
  OBVIOUS
<1>0. TypeOK /\ StopInv
  BY DEF IInv
<1> USE DEF callerVars, workerVars, stopVars, OrderInv
<1>1. ASSUME NEW c \in Callers, Request(c) PROVE OrderInv'
  <2>1. shutdownPc' = shutdownPc /\ serverPc' = serverPc
    BY <1>1 DEF Request, CallerNext, Refuse, Submit, Reserve, Commit, CommitRecycled, Release,
                CountAccepted, Answer
  <2>2. \A d \in Callers : d # c => callerPc'[d] = callerPc[d]
    BY <1>0, <1>1 DEF TypeOK, Request, CallerNext, Refuse, Submit, Reserve, Commit, CommitRecycled,
                      Release, CountAccepted, Answer
  <2>3. callerPc[c] \in {"idle", "reserved", "counting", "waiting"}
    BY <1>1 DEF Request, CallerNext, Refuse, Submit, Reserve, Commit, CommitRecycled, Release,
                CountAccepted, Answer
  <2>4. serverPc # "joined"
    BY <1>1, <2>3 DEF Request
  <2> QED BY <2>1, <2>4
<1>2. ASSUME NEW w \in Workers, WorkerStep(w) \/ SpuriousWakeup(w), UNCHANGED serverPc PROVE OrderInv'
  BY <1>2 DEF WorkerStep, WorkerWait, WorkerExit, WorkerPop, WorkerBegin, WorkerFinish, WorkerErase,
              WorkerDeliver, SpuriousWakeup
<1>3. CASE StopCancel
  BY <1>3 DEF StopCancel, CancelAll
<1>4. CASE StopJoin
  BY <1>4 DEF StopJoin, vars
<1>5. CASE StopShutdown
  BY <1>5 DEF StopShutdown, ShutdownNext, ShutdownCancel, ShutdownRelease, ShutdownNotify, ShutdownJoin
<1>6. CASE UNCHANGED serverVars
  BY <1>6 DEF serverVars, vars
<1> QED BY <1>1, <1>2, <1>3, <1>4, <1>5, <1>6 DEF ServerNext

\* Only a caller with a reserved slot can be recycled, and only after shutdown() has begun.
LEMMA RecyclingStep ==
    IInv /\ OrderInv /\ NoRecycling /\ [ServerNext]_serverVars => NoRecycling'
<1> SUFFICES ASSUME IInv, OrderInv, NoRecycling, [ServerNext]_serverVars PROVE NoRecycling'
  OBVIOUS
<1>0. TypeOK /\ StopInv /\ OwnerInv
  BY DEF IInv
<1> USE DEF callerVars, workerVars, stopVars, NoRecycling
<1>1. ASSUME NEW c \in Callers, Request(c) PROVE NoRecycling'
  <2>1. CASE CommitRecycled(c)
    <3>1. workersStop /\ callerPc[c] = "reserved"
      BY <2>1 DEF CommitRecycled
    <3>2. serverPc = "joined"
      BY <1>0, <3>1 DEF StopInv, OrderInv
    <3> QED BY <3>1, <3>2 DEF OrderInv
  <2>2. CASE ~CommitRecycled(c)
    BY <1>1, <2>2 DEF Request, CallerNext, Refuse, Submit, Reserve, Commit, Release, CountAccepted, Answer
  <2> QED BY <2>1, <2>2
<1>2. ASSUME NEW w \in Workers, WorkerStep(w) \/ SpuriousWakeup(w), UNCHANGED serverPc PROVE NoRecycling'
  <2>1. CASE WorkerFinish(w)
    BY <1>0, <2>1 DEF WorkerFinish, HandlerOutcomes, TypeOK
  <2>2. CASE WorkerDeliver(w)
    BY <1>0, <2>2 DEF WorkerDeliver, TypeOK
  <2>3. CASE ~WorkerFinish(w) /\ ~WorkerDeliver(w)
    BY <1>2, <2>3 DEF WorkerStep, WorkerWait, WorkerExit, WorkerPop, WorkerBegin, WorkerErase, SpuriousWakeup
  <2> QED BY <2>1, <2>2, <2>3
<1>3. CASE StopCancel
  BY <1>3 DEF StopCancel, CancelAll
<1>4. CASE StopJoin \/ UNCHANGED serverVars
  BY <1>4 DEF StopJoin, vars, serverVars
<1>5. CASE StopShutdown
  BY <1>5 DEF StopShutdown, ShutdownNext, ShutdownCancel, ShutdownRelease, ShutdownNotify, ShutdownJoin
<1> QED BY <1>1, <1>2, <1>3, <1>4, <1>5 DEF ServerNext

-----------------------------------------------------------------------------
(* Counting.                                                               *)

\* The callers are finitely many, so the counters count.
LEMMA CountedFinite ==
    /\ IsFiniteSet(Counted) /\ Cardinality(Counted) \in Nat
    /\ IsFiniteSet(Executed) /\ Cardinality(Executed) \in Nat
<1>1. Counted \in SUBSET Callers /\ Executed \in SUBSET Callers
  BY DEF Counted, Executed
<1> QED BY <1>1, CallersAssumption, FS_Subset, FS_CardinalityType

\* accepted_ is counted once per task, after it was handed over.
LEMMA AcceptedStep ==
    IInv /\ OrderInv /\ NoRecycling /\ NoRecycling' /\ CountInv /\ [ServerNext]_serverVars
        => accepted' = Cardinality(Counted')
<1> SUFFICES ASSUME IInv, OrderInv, NoRecycling', CountInv, [ServerNext]_serverVars
             PROVE  accepted' = Cardinality(Counted')
  OBVIOUS
<1>0. TypeOK
  BY DEF IInv
<1> USE DEF callerVars, workerVars, stopVars
<1>1. ASSUME NEW c \in Callers, CountAccepted(c) PROVE accepted' = Cardinality(Counted')
  <2>1. Counted' = Counted \cup {c} /\ c \notin Counted
    BY <1>0, <1>1 DEF CountAccepted, Counted, TypeOK
  <2>2. accepted' = accepted + 1
    BY <1>1 DEF CountAccepted
  <2> QED BY <2>1, <2>2, CountedFinite, FS_AddElement DEF CountInv
<1>2. ASSUME NEW c \in Callers, Request(c), ~CountAccepted(c) PROVE UNCHANGED <<accepted, Counted>>
  <2>1. ~CommitRecycled(c)
    BY <1>0 DEF CommitRecycled, NoRecycling, TypeOK
  <2>2. accepted' = accepted
    BY <1>2, <2>1 DEF Request, CallerNext, Refuse, Submit, Reserve, Commit, Release, Answer
  <2>3. Counted' = Counted
    BY <1>0, <1>2, <2>1 DEF Request, CallerNext, Refuse, Submit, Reserve, Commit, Release, Answer, Counted, TypeOK
  <2> QED BY <2>2, <2>3
<1>3. ASSUME NEW w \in Workers, WorkerStep(w) \/ SpuriousWakeup(w) PROVE UNCHANGED <<accepted, Counted>>
  BY <1>3 DEF WorkerStep, WorkerWait, WorkerExit, WorkerPop, WorkerBegin, WorkerFinish, WorkerErase,
              WorkerDeliver, SpuriousWakeup, Counted
<1>4. ASSUME StopCancel \/ StopJoin \/ UNCHANGED serverVars PROVE UNCHANGED <<accepted, Counted>>
  BY <1>4 DEF StopCancel, CancelAll, StopJoin, serverVars, vars, Counted
<1>5. ASSUME StopShutdown PROVE UNCHANGED <<accepted, Counted>>
  BY <1>5 DEF StopShutdown, ShutdownNext, ShutdownCancel, ShutdownRelease, ShutdownNotify, ShutdownJoin, Counted
<1>6. UNCHANGED <<accepted, Counted>> => accepted' = Cardinality(Counted')
  BY DEF CountInv
<1> QED BY <1>1, <1>2, <1>3, <1>4, <1>5, <1>6 DEF ServerNext

\* A step that neither changes what a worker holds nor finishes anything.
LEMMA SameExecuted ==
    ASSUME TypeOK, promise' = promise, item' = item, completed' = completed,
           \A w \in Workers : workerPc[w] \in {"finished", "erased"} <=> workerPc'[w] \in {"finished", "erased"}
    PROVE  UNCHANGED <<completed, Executed>>
  BY DEF Executed

\* completed_ is counted once per task, by the worker that ran it, before the
\* promise is resolved.
LEMMA CompletedStep ==
    IInv /\ NoRecycling /\ NoRecycling' /\ CountInv /\ [ServerNext]_serverVars
        => completed' = Cardinality(Executed')
<1> SUFFICES ASSUME IInv, NoRecycling', CountInv, [ServerNext]_serverVars
             PROVE  completed' = Cardinality(Executed')
  OBVIOUS
<1>0. TypeOK /\ OwnerInv /\ ResultInv
  BY DEF IInv
<1> USE DEF callerVars, workerVars, stopVars
<1>1. ASSUME NEW c \in Callers, Request(c) PROVE UNCHANGED <<completed, Executed>>
  <2>1. ~CommitRecycled(c)
    BY <1>0 DEF CommitRecycled, NoRecycling, TypeOK
  <2>2. promise' = promise /\ item' = item /\ completed' = completed
    BY <1>1, <2>1 DEF Request, CallerNext, Refuse, Submit, Reserve, Commit, Release, CountAccepted, Answer
  <2>3. workerPc' = workerPc \/ NotifyOne
    BY <1>1, <2>1 DEF Request, CallerNext, Refuse, Submit, Reserve, Commit, Release, CountAccepted, Answer
  <2>4. workerPc' = workerPc \/ WokenOnly
    BY <1>0, <2>3, NotifyWakes DEF TypeOK
  <2> QED BY <1>0, <2>2, <2>4, SameExecuted DEF WokenOnly
<1>2. ASSUME NEW w \in Workers, WorkerFinish(w) PROVE completed' = Cardinality(Executed')
  <2>1. item[w] \in Callers /\ Busy(w) /\ promise[item[w]] = "none"
    BY <1>0, <1>2 DEF WorkerFinish, TypeOK, OwnerInv, OneHolder, Busy
  <2>2. item[w] \notin Executed
    BY <1>0, <1>2, <2>1 DEF WorkerFinish, TypeOK, OwnerInv, OneHolder, Busy, Executed
  <2>3. Executed' = Executed \cup {item[w]}
    BY <1>0, <1>2, <2>1 DEF WorkerFinish, TypeOK, Executed
  <2>4. completed' = completed + 1
    BY <1>2 DEF WorkerFinish
  <2> QED BY <2>2, <2>3, <2>4, CountedFinite, FS_AddElement DEF CountInv
<1>3. ASSUME NEW w \in Workers, WorkerDeliver(w) PROVE UNCHANGED <<completed, Executed>>
  <2>1. item[w] \in Callers /\ Busy(w) /\ workerPc[w] = "erased" /\ result[w] # "none"
    BY <1>0, <1>3 DEF WorkerDeliver, Step, TypeOK, OwnerInv, Busy, ResultInv
  <2>2. /\ promise'[item[w]] # "none"
        /\ \A c \in Callers : c # item[w] => promise'[c] = promise[c]
        /\ \A v \in Workers : v # w => workerPc'[v] = workerPc[v] /\ item'[v] = item[v]
        /\ workerPc'[w] = "check"
    BY <1>0, <1>3, <2>1 DEF WorkerDeliver, Step, TypeOK
  <2>3. Executed' = Executed
    BY <2>1, <2>2 DEF Executed
  <2>4. completed' = completed
    BY <1>3 DEF WorkerDeliver
  <2> QED BY <2>3, <2>4
<1>4. ASSUME NEW w \in Workers, WorkerStep(w) \/ SpuriousWakeup(w), ~WorkerFinish(w), ~WorkerDeliver(w)
      PROVE  UNCHANGED <<completed, Executed>>
  <2>1. CASE WorkerPop(w)
    <3>1. /\ promise' = promise /\ completed' = completed
          /\ \A v \in Workers : v # w => workerPc'[v] = workerPc[v] /\ item'[v] = item[v]
          /\ workerPc[w] = "check" /\ workerPc'[w] = "popped"
      BY <1>0, <2>1 DEF WorkerPop, Step, TypeOK
    <3> QED BY <3>1 DEF Executed
  <2>2. CASE ~WorkerPop(w)
    <3>1. promise' = promise /\ item' = item /\ completed' = completed
      BY <1>4, <2>2 DEF WorkerStep, WorkerWait, WorkerExit, WorkerBegin, WorkerErase, SpuriousWakeup
    <3>2. \A v \in Workers : workerPc[v] \in {"finished", "erased"} <=> workerPc'[v] \in {"finished", "erased"}
      BY <1>0, <1>4, <2>2 DEF WorkerStep, WorkerWait, WorkerExit, WorkerBegin, WorkerErase, SpuriousWakeup, Step, TypeOK
    <3> QED BY <1>0, <3>1, <3>2, SameExecuted
  <2> QED BY <2>1, <2>2
<1>5. ASSUME StopCancel \/ StopJoin \/ StopShutdown \/ UNCHANGED serverVars PROVE UNCHANGED <<completed, Executed>>
  <2>1. promise' = promise /\ item' = item /\ completed' = completed
    BY <1>5 DEF StopCancel, CancelAll, StopJoin, serverVars, vars, StopShutdown, ShutdownNext, ShutdownCancel,
                ShutdownRelease, ShutdownNotify, ShutdownJoin
  <2>2. workerPc' = workerPc \/ NotifyAll
    BY <1>5 DEF StopCancel, CancelAll, cancel_all, StopJoin, serverVars, vars, StopShutdown, ShutdownNext,
                ShutdownCancel, ShutdownRelease, ShutdownNotify, ShutdownJoin
  <2>3. workerPc' = workerPc \/ WokenOnly
    BY <1>0, <2>2, NotifyWakes DEF TypeOK
  <2> QED BY <1>0, <2>1, <2>3, SameExecuted DEF WokenOnly
<1>6. UNCHANGED <<completed, Executed>> => completed' = Cardinality(Executed')
  BY DEF CountInv
<1> QED BY <1>1, <1>2, <1>3, <1>4, <1>5, <1>6 DEF ServerNext

\* When shutdown() has joined every worker, the two counters are the same.
LEMMA JoinStep ==
    IInv /\ OrderInv /\ CountInv /\ JoinInv /\ [ServerNext]_serverVars => JoinInv'
<1> SUFFICES ASSUME IInv, OrderInv, CountInv, JoinInv, [ServerNext]_serverVars PROVE JoinInv'
  OBVIOUS
<1>0. TypeOK /\ OwnerInv
  BY DEF IInv
<1> USE DEF callerVars, workerVars, stopVars
<1>1. CASE StopShutdown /\ ShutdownJoin
  <2>1. \A w \in Workers : workerPc[w] = "exit"
    BY <1>1 DEF ShutdownJoin
  <2>2. \A c \in Callers : callerPc[c] \in {"idle", "answered", "refused", "released"}
    BY <1>1 DEF StopShutdown, OrderInv
  <2>3. Counted = Executed
    BY <1>0, <2>1, <2>2 DEF Counted, Executed, OwnerInv, Handed
  <2> QED BY <1>1, <2>3 DEF ShutdownJoin, CountInv, JoinInv
<1>2. CASE ~(StopShutdown /\ ShutdownJoin)
  <2>1. UNCHANGED drained /\ (shutdownPc' = "joined" => shutdownPc = "joined")
    <3>1. ASSUME NEW c \in Callers, Request(c) PROVE UNCHANGED <<drained, shutdownPc>>
      BY <3>1 DEF Request, CallerNext, Refuse, Submit, Reserve, Commit, CommitRecycled, Release, CountAccepted, Answer
    <3>2. ASSUME NEW w \in Workers, WorkerStep(w) \/ SpuriousWakeup(w) PROVE UNCHANGED <<drained, shutdownPc>>
      BY <3>2 DEF WorkerStep, WorkerWait, WorkerExit, WorkerPop, WorkerBegin, WorkerFinish, WorkerErase,
                  WorkerDeliver, SpuriousWakeup
    <3>3. ASSUME StopCancel \/ StopJoin \/ UNCHANGED serverVars PROVE UNCHANGED <<drained, shutdownPc>>
      BY <3>3 DEF StopCancel, CancelAll, StopJoin, serverVars, vars
    <3>4. ASSUME StopShutdown PROVE UNCHANGED drained /\ shutdownPc' # "joined"
      BY <1>2, <3>4 DEF StopShutdown, ShutdownNext, ShutdownCancel, ShutdownRelease, ShutdownNotify
    <3> QED BY <3>1, <3>2, <3>3, <3>4 DEF ServerNext
  <2> QED BY <2>1 DEF JoinInv
<1> QED BY <1>1, <1>2

\* A server that has just started counts nothing and joins nobody.
LEMMA ServerInitInv == ServerInit => ServerInv
<1> SUFFICES ASSUME ServerInit PROVE ServerInv
  OBVIOUS
<1>1. Counted = {} /\ Executed = {}
  BY DEF ServerInit, Init, Counted, Executed
<1> QED BY <1>1, FS_EmptySet DEF ServerInit, Init, ServerInv, OrderInv, NoRecycling, CountInv, JoinInv

\* The order of the stop, what the counters count and what shutdown() reports are
\* invariants of the server (HttpServer::stop around JudgeManager).
THEOREM ServerInvariant == ServerSpec => []ServerInv
<1>1. IInv /\ ServerInv /\ [ServerNext]_serverVars => ServerInv'
  BY OrderStep, RecyclingStep, AcceptedStep, CompletedStep, JoinStep DEF ServerInv, CountInv
<1> QED BY <1>1, ServerInitInv, SchedulerInvariant, PTL DEF ServerSpec

\* When shutdown() returns, everything that was accepted has been executed and is
\* reported so; no accepted task was answered only because the workers were gone.
THEOREM EverythingDrains == ServerSpec => []DrainReported
<1>1. ServerInv => DrainReported
  BY DEF ServerInv, JoinInv, NoRecycling, DrainReported
<1> QED BY <1>1, ServerInvariant, PTL

=============================================================================
