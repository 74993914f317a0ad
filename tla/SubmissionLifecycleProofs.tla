--------------------- MODULE SubmissionLifecycleProofs ---------------------
(***************************************************************************)
(* Proofs about SubmissionLifecycle, for any number of tasks and workers,  *)
(* any capacity and batch size and any number of failing database calls:   *)
(* the three safety properties follow from one inductive invariant,        *)
(* LifecycleInv, whose parts say                                           *)
(*                                                                         *)
(*  - ModeInv: which threads may be busy in which state of the process;    *)
(*  - OwnerInv: the owner is the thread inside a transaction;              *)
(*  - SlotInv: the reserved slots are those some thread still has to use;  *)
(*  - KnownInv: only accepted tasks are listed, queued or held, and no     *)
(*    request is accepted before its row is committed;                     *)
(*  - TableInv: how far what the connection sees may differ from what is   *)
(*    committed;                                                           *)
(*  - DiskInv: SettledOnce for the committed tables;                       *)
(*  - ResultInv: what the result of a handler says of the tables;          *)
(*  - CareInv: an unsettled task is in somebody's care.                    *)
(***************************************************************************)
EXTENDS SubmissionLifecycle, FiniteSetTheorems, SequenceTheorems, TLAPS

-----------------------------------------------------------------------------
(* The inductive invariant.                                                *)

TypeInv ==
    /\ LifecycleTypeOK
    /\ reserved \in Nat

Quiet == {"idle", "refused", "ok", "error", "lost"}

\* Recovery runs before the server listens; requests and deletions only while
\* it listens; a process that is down, or has not begun its recovery, is idle.
ModeInv ==
    /\ recPc # "done" => server = "starting"
    /\ ~Up => adminPc = "idle" /\ \A t \in Tasks : reqPc[t] \in Quiet
    /\ Down \/ recPc = "reset" =>
           queue = <<>> /\ owner = None /\ \A w \in Workers : workPc[w] = "idle"

InTx(w) == workPc[w] \in {"settling", "marking", "duplicate"}

\* The owner of the mutex is the thread between BEGIN and COMMIT or ROLLBACK.
OwnerInv ==
    /\ \A t \in Tasks : reqPc[t] \in {"persisting", "rejecting"} <=> owner = t
    /\ \A w \in Workers : InTx(w) <=> owner = w
    /\ adminPc # "idle" <=> owner = "admin"

HasSlot == {"reserved", "persisting", "rejecting", "persisted", "releasing"}
Holders == {t \in Tasks : reqPc[t] \in HasSlot}
RecoverySlot == IF recPc \in {"claim", "stepped", "claimed", "unclaimed", "abandon"} THEN 1 ELSE 0

\* Every reserved slot is one that a request or the recovery will use or give
\* back, and with the waiting tasks they are within the capacity.
SlotInv ==
    /\ reserved = Cardinality(Holders) + RecoverySlot
    /\ Len(queue) + reserved <= Capacity

Unanswered == {"idle", "checked", "reserved", "persisting", "rejecting", "releasing", "refused"}

\* Whatever is listed, queued or held was accepted; a request is accepted by
\* the commit of its row.
KnownInv ==
    /\ \A t \in Tasks : reqPc[t] \in Unanswered => t \notin accepted
    /\ \A t \in Tasks : reqPc[t] = "persisted" => t \in accepted
    /\ \A i \in 1..Len(queue) : queue[i] \in accepted
    /\ \A w \in Workers : IF workPc[w] = "idle" THEN held[w] = None ELSE held[w] \in accepted
    /\ batch \subseteq accepted
    /\ recPc \in {"claim", "stepped", "claimed", "unclaimed", "abandon"} => batch # {}

SettledBy(w, t) == workPc[w] = "settling" /\ held[w] = t

\* The connection sees what is committed, but for the row a request inserts, the
\* row and submission a worker replaces, the problem a deletion removes, and
\* claims of the recovery that are not committed, or not yet.
TableInv ==
    /\ adminPc # "deleting" => work.problem = disk.problem
    /\ adminPc = "deleting" => accepted = {}
    /\ \A t \in Tasks :
        /\ reqPc[t] = "persisting" =>
               work.row[t] = "pending" /\ work.subs[t] = disk.subs[t] /\ work.problem
        /\ \A w \in Workers : SettledBy(w, t) =>
               work.row[t] = "none" /\ work.subs[t] = 1
        /\ \/ reqPc[t] = "persisting"
           \/ \E w \in Workers : SettledBy(w, t)
           \/ /\ work.subs[t] = disk.subs[t]
              /\ \/ work.row[t] = disk.row[t]
                 \/ work.row[t] = "claimed" /\ disk.row[t] = "pending"

\* The committed tables: SettledOnce without its types.
DiskInv ==
    /\ ProblemKept
    /\ \A t \in Tasks :
        IF t \in accepted
        THEN \/ disk.row[t] \in {"pending", "claimed"} /\ disk.subs[t] = 0
             \/ disk.row[t] = "none" /\ disk.subs[t] = 1
        ELSE disk.row[t] = "none" /\ disk.subs[t] = 0

\* A success is committed; a handler that failed has settled its task or has
\* left it to the next start.
ResultInv ==
    /\ \A t \in Tasks : reqPc[t] = "ok" => disk.subs[t] = 1
    /\ \A w \in Workers :
        /\ workPc[w] \in {"ok", "duplicate"} => disk.subs[held[w]] = 1
        /\ workPc[w] = "error" => disk.subs[held[w]] = 1 \/ held[w] \in givenUp

Listing == {"list", "next", "claim", "stepped", "claimed", "unclaimed"}

\* Somebody will see to the task: the recovery will list it or is handing it
\* over, it is in the pool or about to be, or the next start takes it up.
InCare(t) ==
    \/ work.row[t] = "pending" /\ recPc \in Listing
    \/ recPc \in {"stepped", "claimed"} /\ t = Current
    \/ InPool(t)
    \/ reqPc[t] = "persisted"
    \/ t \in givenUp

\* Once its claims are reset, a living process forgets no unsettled task.
CareInv ==
    server # "crashed" /\ recPc # "reset" =>
        \A t \in Tasks : Unsettled(disk, t) => InCare(t)

LifecycleInv ==
    /\ TypeInv
    /\ ModeInv
    /\ OwnerInv
    /\ SlotInv
    /\ KnownInv
    /\ TableInv
    /\ DiskInv
    /\ ResultInv
    /\ CareInv

-----------------------------------------------------------------------------
(* Facts about the tables, the slots and the batch.                        *)

\* An UPDATE or INSERT of one row leaves the rest of the tables alone.
LEMMA WrittenRow ==
    ASSUME NEW tables \in Tables, NEW t \in Tasks, NEW state \in RowStates
    PROVE  LET new == [tables EXCEPT !.row[t] = state]
           IN  /\ new \in Tables
               /\ new.row = [tables.row EXCEPT ![t] = state]
               /\ new.subs = tables.subs
               /\ new.problem = tables.problem
  BY DEF Tables

\* The settling transaction replaces the row of a task by its submission.
LEMMA SettledRow ==
    ASSUME NEW tables \in Tables, NEW t \in Tasks, tables.subs[t] = 0
    PROVE  LET new == [tables EXCEPT !.row[t] = "none", !.subs[t] = @ + 1]
           IN  /\ new \in Tables
               /\ new.row = [tables.row EXCEPT ![t] = "none"]
               /\ new.subs = [tables.subs EXCEPT ![t] = 1]
               /\ new.problem = tables.problem
  <1>. DEFINE first == [tables EXCEPT !.row[t] = "none"]
              new == [first EXCEPT !.subs[t] = @ + 1]
  <1>1. first \in Tables /\ first.subs[t] = 0 /\ first.row = [tables.row EXCEPT ![t] = "none"]
        /\ first.subs = tables.subs /\ first.problem = tables.problem
    BY WrittenRow DEF Tables, RowStates
  <1>. HIDE DEF first
  <1>2. /\ new \in Tables /\ new.row = first.row /\ new.problem = first.problem
        /\ new.subs = [first.subs EXCEPT ![t] = 1]
    BY <1>1 DEF Tables
  <1>3. new = [tables EXCEPT !.row[t] = "none", !.subs[t] = @ + 1]  BY DEF first
  <1>. QED  BY <1>1, <1>2, <1>3

\* reset_stale_claims turns every claim back and changes nothing else.
LEMMA ClaimsReset ==
    ASSUME NEW tables \in Tables
    PROVE  LET new == [tables EXCEPT !.row =
                          [t \in Tasks |-> IF @[t] = "claimed" THEN "pending" ELSE @[t]]]
           IN  /\ new \in Tables /\ new.subs = tables.subs /\ new.problem = tables.problem
               /\ \A t \in Tasks : new.row[t] =
                      IF tables.row[t] = "claimed" THEN "pending" ELSE tables.row[t]
  BY DEF Tables, RowStates

\* Removing the problem takes the rows with it.
LEMMA ProblemRemoved ==
    ASSUME NEW tables \in Tables
    PROVE  LET new == [tables EXCEPT !.problem = FALSE, !.row = [t \in Tasks |-> "none"]]
           IN  /\ new \in Tables /\ new.subs = tables.subs /\ ~new.problem
               /\ \A t \in Tasks : new.row[t] = "none"
  <1>. DEFINE first == [tables EXCEPT !.problem = FALSE]
              new == [first EXCEPT !.row = [t \in Tasks |-> "none"]]
  <1>1. first \in Tables /\ first.subs = tables.subs /\ ~first.problem  BY DEF Tables
  <1>. HIDE DEF first
  <1>2. /\ new \in Tables /\ new.subs = first.subs /\ new.problem = first.problem
        /\ new.row = [t \in Tasks |-> "none"]
    BY <1>1 DEF Tables, RowStates
  <1>3. new = [tables EXCEPT !.problem = FALSE, !.row = [t \in Tasks |-> "none"]]  BY DEF first
  <1>. QED  BY <1>1, <1>2, <1>3

\* What any thread sees of the tables: an accepted task is unsettled or settled
\* here too, another has at most the row its request is inserting.
LEMMA Seen ==
    ASSUME LifecycleInv
    PROVE  /\ \A t \in accepted :
                \/ work.row[t] \in {"pending", "claimed"} /\ work.subs[t] = 0
                \/ work.row[t] = "none" /\ work.subs[t] = 1
           /\ \A t \in Tasks \ accepted :
                /\ work.subs[t] = 0
                /\ work.row[t] = "none" \/ (work.row[t] = "pending" /\ reqPc[t] = "persisting")
           /\ accepted # {} => work.problem
  <1>. USE DEF LifecycleInv, TypeInv, LifecycleTypeOK, TableInv, DiskInv, ProblemKept, KnownInv
  <1>1. ASSUME NEW t \in accepted
        PROVE  \/ work.row[t] \in {"pending", "claimed"} /\ work.subs[t] = 0
               \/ work.row[t] = "none" /\ work.subs[t] = 1
    <2>1. t \in Tasks /\ reqPc[t] # "persisting"  BY DEF Unanswered
    <2>. QED  BY <2>1
  <1>2. ASSUME NEW t \in Tasks \ accepted
        PROVE  /\ work.subs[t] = 0
               /\ work.row[t] = "none" \/ (work.row[t] = "pending" /\ reqPc[t] = "persisting")
    <2>1. \A w \in Workers : ~SettledBy(w, t)  BY DEF SettledBy
    <2>2. disk.row[t] = "none" /\ disk.subs[t] = 0  OBVIOUS
    <2>3. \/ reqPc[t] = "persisting" /\ work.row[t] = "pending" /\ work.subs[t] = disk.subs[t]
          \/ work.subs[t] = disk.subs[t] /\ work.row[t] = disk.row[t]
      BY <2>1, <2>2
    <2>. QED  BY <2>2, <2>3
  <1>3. accepted # {} => work.problem  OBVIOUS
  <1>. QED  BY <1>1, <1>2, <1>3

\* How what a thread sees differs from what is committed.
LEMMA Difference ==
    ASSUME LifecycleInv, NEW t \in Tasks
    PROVE  /\ disk.subs[t] = 1 => work.subs[t] = 1
           /\ Unsettled(work, t) => reqPc[t] = "persisting" \/ Unsettled(disk, t)
           /\ Unsettled(disk, t) /\ work.row[t] = "pending" => disk.row[t] = "pending"
           /\ Unsettled(disk, t) /\ ~Unsettled(work, t) =>
                  \E w \in Workers : SettledBy(w, t)
  <1>. USE DEF LifecycleInv, TypeInv, LifecycleTypeOK, TableInv, DiskInv, KnownInv
  <1>1. CASE reqPc[t] = "persisting"
    <2>1. disk.row[t] = "none" /\ disk.subs[t] = 0  BY <1>1 DEF Unanswered
    <2>. QED  BY <1>1, <2>1 DEF Unsettled
  <1>2. CASE \E w \in Workers : SettledBy(w, t)
    BY <1>2 DEF Unsettled
  <1>3. CASE /\ work.subs[t] = disk.subs[t]
             /\ \/ work.row[t] = disk.row[t]
                \/ work.row[t] = "claimed" /\ disk.row[t] = "pending"
    BY <1>3 DEF Unsettled
  <1>. QED  BY <1>1, <1>2, <1>3

\* A request under way, and a deletion, mean that the recovery is over.
LEMMA Serving ==
    ASSUME LifecycleInv
    PROVE  /\ \A t \in Tasks : reqPc[t] \notin Quiet => recPc = "done" /\ Up
           /\ adminPc # "idle" => recPc = "done" /\ Up
  BY DEF LifecycleInv, ModeInv, Up

\* Without an owner no transaction is open.
LEMMA NoTransaction ==
    ASSUME LifecycleInv, owner = None
    PROVE  /\ adminPc = "idle"
           /\ \A t \in Tasks : reqPc[t] \notin {"persisting", "rejecting"}
           /\ \A w \in Workers : workPc[w] \notin {"settling", "marking", "duplicate"}
  BY LifecycleAssumption DEF LifecycleInv, OwnerInv, InTx, TypeInv, LifecycleTypeOK

\* The number of requests with a slot.
LEMMA HoldersCount ==
    ASSUME LifecycleInv
    PROVE  IsFiniteSet(Holders) /\ Cardinality(Holders) \in Nat
  <1>1. Holders \subseteq Tasks  BY DEF Holders
  <1>. QED  BY <1>1, LifecycleAssumption, FS_Subset, FS_CardinalityType

\* A request that gets a slot is one more.
LEMMA SlotTaken ==
    ASSUME LifecycleInv, NEW t \in Tasks, reqPc[t] \notin HasSlot, ReqGoto(t, "reserved")
    PROVE  Cardinality(Holders') = Cardinality(Holders) + 1
  <1>1. Holders' = Holders \cup {t} /\ t \notin Holders
    BY DEF Holders, HasSlot, ReqGoto, LifecycleInv, TypeInv, LifecycleTypeOK
  <1>. QED  BY <1>1, HoldersCount, FS_AddElement

\* A request that gives its slot up is one less, and there was one.
LEMMA SlotGiven ==
    ASSUME LifecycleInv, NEW t \in Tasks, reqPc[t] \in HasSlot,
           NEW to \in {"refused", "waiting"}, ReqGoto(t, to)
    PROVE  Cardinality(Holders') = Cardinality(Holders) - 1 /\ Cardinality(Holders) > 0
  <1>1. Holders' = Holders \ {t} /\ t \in Holders
    BY DEF Holders, HasSlot, ReqGoto, LifecycleInv, TypeInv, LifecycleTypeOK
  <1>2. Cardinality(Holders') = Cardinality(Holders) - 1
    BY <1>1, HoldersCount, FS_RemoveElement
  <1>3. Cardinality(Holders') \in Nat  BY <1>1, HoldersCount, FS_RemoveElement, FS_CardinalityType
  <1>. QED  BY <1>2, <1>3, HoldersCount

\* The task the recovery is at is one of its batch.
LEMMA CurrentListed == batch # {} => Current \in batch
  BY DEF Current

-----------------------------------------------------------------------------

(* The steps of a request.                                                 *)

\* The checks before a slot is asked for write nothing.
LEMMA CheckInv == ASSUME LifecycleInv, NEW t \in Tasks, Check(t) PROVE LifecycleInv'
  <1>. USE LifecycleAssumption DEF Check, ReqGoto, LifecycleInv, TypeInv, LifecycleTypeOK,
              dbVars, poolVars, jobVars, recVars, histVars
  <1>1. TypeInv'  BY DEF ServerStates
  <1>2. ModeInv'  BY DEF ModeInv, Up, Down, Quiet, ServerStates
  <1>3. OwnerInv'  BY DEF OwnerInv, InTx
  <1>4. SlotInv'  BY DEF SlotInv, RecoverySlot, Holders, HasSlot
  <1>5. KnownInv'  BY DEF KnownInv, Unanswered
  <1>6. TableInv'  BY DEF TableInv, SettledBy
  <1>7. DiskInv'  BY DEF DiskInv, ProblemKept
  <1>8. ResultInv'  BY DEF ResultInv
  <1>9. CareInv'
    <2>1. Current' = Current  BY DEF Current
    <2>2. \A u \in Tasks : InPool(u) <=> InPool(u)'  BY DEF InPool
    <2>. QED  BY <2>1, <2>2 DEF CareInv, InCare, Unsettled, Listing
  <1>. QED  BY <1>1, <1>2, <1>3, <1>4, <1>5, <1>6, <1>7, <1>8, <1>9

\* A slot is reserved only below the capacity.
LEMMA ReserveInv == ASSUME LifecycleInv, NEW t \in Tasks, Reserve(t) PROVE LifecycleInv'
  <1>. USE LifecycleAssumption DEF Reserve, ReqGoto, Full, LifecycleInv, TypeInv, LifecycleTypeOK,
              dbVars, poolVars, jobVars, recVars, histVars
  <1>1. TypeInv'  BY DEF ServerStates
  <1>2. ModeInv'  BY DEF ModeInv, Up, Down, Quiet, ServerStates
  <1>3. OwnerInv'  BY DEF OwnerInv, InTx
  <1>4. SlotInv'
    <2>1. CASE server = "stopping" \/ Full
      BY <2>1 DEF SlotInv, RecoverySlot, Holders, HasSlot
    <2>2. CASE ~(server = "stopping" \/ Full)
      <3>1. Cardinality(Holders') = Cardinality(Holders) + 1  BY <2>2, SlotTaken DEF HasSlot
      <3>. QED  BY <2>2, <3>1, HoldersCount DEF SlotInv, RecoverySlot
    <2>. QED  BY <2>1, <2>2
  <1>5. KnownInv'  BY DEF KnownInv, Unanswered
  <1>6. TableInv'  BY DEF TableInv, SettledBy
  <1>7. DiskInv'  BY DEF DiskInv, ProblemKept
  <1>8. ResultInv'  BY DEF ResultInv
  <1>9. CareInv'
    <2>1. Current' = Current  BY DEF Current
    <2>2. \A u \in Tasks : InPool(u) <=> InPool(u)'  BY DEF InPool
    <2>. QED  BY <2>1, <2>2 DEF CareInv, InCare, Unsettled, Listing
  <1>. QED  BY <1>1, <1>2, <1>3, <1>4, <1>5, <1>6, <1>7, <1>8, <1>9

\* The row of a new task is inserted by the owner of the transaction, and for a
\* problem that cannot vanish before COMMIT.
LEMMA PersistBodyInv == ASSUME LifecycleInv, NEW t \in Tasks, PersistBody(t) PROVE LifecycleInv'
  <1>. USE LifecycleAssumption DEF PersistBody, ReqGoto, Begin, LifecycleInv, TypeInv, LifecycleTypeOK,
              dbVars, poolVars, jobVars, recVars, histVars
  <1>a. recPc = "done"  BY Serving DEF Quiet
  <1>b. /\ \A u \in Tasks : u # t => reqPc'[u] = reqPc[u]
        /\ \A u \in Tasks : reqPc[u] # "persisting"
        /\ \A w \in Workers : workPc[w] # "settling"
    BY NoTransaction
  <1>c. /\ work' \in Tables
        /\ work'.subs = work.subs /\ work'.problem = work.problem
        /\ \A u \in Tasks : u # t => work'.row[u] = work.row[u]
        /\ reqPc'[t] = "persisting" => work'.row[t] = "pending" /\ work'.problem
        /\ reqPc'[t] # "persisting" => work'.row[t] = work.row[t]
    <2>1. CASE work.problem
      <3>1. work' = [work EXCEPT !.row[t] = "pending"] /\ reqPc'[t] = "persisting"  BY <2>1
      <3>2. /\ work' \in Tables /\ work'.row = [work.row EXCEPT ![t] = "pending"]
            /\ work'.subs = work.subs /\ work'.problem = work.problem
        BY <3>1, WrittenRow DEF RowStates
      <3>3. work.row \in [Tasks -> RowStates]  BY DEF Tables
      <3>4. \A u \in Tasks : work'.row[u] = IF u = t THEN "pending" ELSE work.row[u]
        BY <3>2, <3>3
      <3>. QED  BY <2>1, <3>1, <3>2, <3>4
    <2>2. CASE ~work.problem
      BY <2>2
    <2>. QED  BY <2>1, <2>2
  <1>1. TypeInv'  BY <1>c DEF ServerStates
  <1>2. ModeInv'  BY DEF ModeInv, Up, Down, Quiet, ServerStates
  <1>3. OwnerInv'  BY DEF OwnerInv, InTx
  <1>4. SlotInv'  BY DEF SlotInv, RecoverySlot, Holders, HasSlot
  <1>5. KnownInv'  BY DEF KnownInv, Unanswered
  <1>6. TableInv'
    <2>1. adminPc = "idle"  BY NoTransaction
    <2>2. ASSUME NEW u \in Tasks
          PROVE  /\ reqPc'[u] = "persisting" =>
                        work'.row[u] = "pending" /\ work'.subs[u] = disk'.subs[u] /\ work'.problem
                 /\ \/ reqPc'[u] = "persisting"
                    \/ /\ work'.subs[u] = disk'.subs[u]
                       /\ \/ work'.row[u] = disk'.row[u]
                          \/ work'.row[u] = "claimed" /\ disk'.row[u] = "pending"
      <3>1. work.subs[u] = disk.subs[u]
            /\ (work.row[u] = disk.row[u] \/ (work.row[u] = "claimed" /\ disk.row[u] = "pending"))
        <4>1. reqPc[u] # "persisting" /\ ~\E w \in Workers : SettledBy(w, u)  BY <1>b DEF SettledBy
        <4>. QED  BY <4>1 DEF TableInv
      <3>. QED  BY <1>b, <1>c, <3>1
    <2>. QED  BY <2>1, <2>2, <1>b, <1>c DEF TableInv, SettledBy
  <1>7. DiskInv'  BY DEF DiskInv, ProblemKept
  <1>8. ResultInv'  BY DEF ResultInv
  <1>9. CareInv'
    <2>1. Current' = Current  BY DEF Current
    <2>2. \A u \in Tasks : InPool(u) <=> InPool(u)'  BY DEF InPool
    <2>. QED  BY <1>a, <1>b, <2>1, <2>2 DEF CareInv, InCare, Unsettled, Listing
  <1>. QED  BY <1>1, <1>2, <1>3, <1>4, <1>5, <1>6, <1>7, <1>8, <1>9

\* COMMIT makes the task an accepted one whose slot is still reserved.
LEMMA PersistCommitInv ==
    ASSUME LifecycleInv, NEW t \in Tasks, PersistCommit(t)
    PROVE  LifecycleInv'
  <1>. USE LifecycleAssumption DEF PersistCommit, ReqGoto, CommitTx, LifecycleInv, TypeInv, LifecycleTypeOK,
              dbVars, poolVars, jobVars, recVars, histVars
  <1>a. recPc = "done"  BY Serving DEF Quiet
  <1>b. /\ owner = t /\ adminPc = "idle"
        /\ \A u \in Tasks : u # t => reqPc'[u] = reqPc[u] /\ reqPc[u] # "persisting"
        /\ \A w \in Workers : workPc[w] # "settling"
        /\ reqPc'[t] = "persisted"
    BY DEF OwnerInv, InTx
  <1>1. TypeInv'  BY DEF ServerStates
  <1>2. ModeInv'  BY DEF ModeInv, Up, Down, Quiet, ServerStates
  <1>3. OwnerInv'  BY DEF OwnerInv, InTx
  <1>4. SlotInv'  BY DEF SlotInv, RecoverySlot, Holders, HasSlot
  <1>5. KnownInv'  BY DEF KnownInv, Unanswered
  <1>6. TableInv'  BY <1>b DEF TableInv, SettledBy
  <1>7. DiskInv'
    <2>1. work.problem  BY DEF TableInv
    <2>2. work.row[t] = "pending" /\ work.subs[t] = 0  BY Seen DEF TableInv, KnownInv, Unanswered
    <2>. QED  BY <1>b, <2>1, <2>2, Seen DEF DiskInv, ProblemKept
  <1>8. ResultInv'
    <2>1. \A w \in Workers : workPc[w] # "idle" => held[w] \in Tasks  BY DEF KnownInv
    <2>. QED  BY <1>b, <2>1, Difference DEF ResultInv
  <1>9. CareInv'
    <2>1. Current' = Current  BY DEF Current
    <2>2. \A u \in Tasks : InPool(u) <=> InPool(u)'  BY DEF InPool
    <2>. QED  BY <1>a, <1>b, Difference, <2>1, <2>2 DEF CareInv, InCare, Unsettled, Listing
  <1>. QED  BY <1>1, <1>2, <1>3, <1>4, <1>5, <1>6, <1>7, <1>8, <1>9

\* A ROLLBACK takes back the one row that was not committed.
LEMMA PersistRollbackInv ==
    ASSUME LifecycleInv, NEW t \in Tasks, PersistRollback(t)
    PROVE  LifecycleInv'
  <1>. USE LifecycleAssumption DEF PersistRollback, ReqGoto, RollbackTx, FailTx, Fault, CanFail,
              LifecycleInv, TypeInv, LifecycleTypeOK, dbVars, poolVars, jobVars, recVars, histVars
  <1>a. recPc = "done"  BY Serving DEF Quiet
  <1>b. /\ owner = t /\ adminPc = "idle"
        /\ \A u \in Tasks : u # t => reqPc'[u] = reqPc[u] /\ reqPc[u] # "persisting"
        /\ \A w \in Workers : workPc[w] # "settling"
        /\ reqPc'[t] = "releasing"
    BY DEF OwnerInv, InTx
  <1>1. TypeInv'  BY DEF ServerStates
  <1>2. ModeInv'  BY DEF ModeInv, Up, Down, Quiet, ServerStates
  <1>3. OwnerInv'  BY DEF OwnerInv, InTx
  <1>4. SlotInv'  BY DEF SlotInv, RecoverySlot, Holders, HasSlot
  <1>5. KnownInv'  BY DEF KnownInv, Unanswered
  <1>6. TableInv'  BY <1>b DEF TableInv, SettledBy
  <1>7. DiskInv'  BY DEF DiskInv, ProblemKept
  <1>8. ResultInv'  BY DEF ResultInv
  <1>9. CareInv'
    <2>1. Current' = Current  BY DEF Current
    <2>2. \A u \in Tasks : InPool(u) <=> InPool(u)'  BY DEF InPool
    <2>. QED  BY <1>a, <1>b, <2>1, <2>2 DEF CareInv, InCare, Unsettled, Listing
  <1>. QED  BY <1>1, <1>2, <1>3, <1>4, <1>5, <1>6, <1>7, <1>8, <1>9

\* A request that is refused had a slot to give back.
LEMMA ReleaseInv == ASSUME LifecycleInv, NEW t \in Tasks, Release(t) PROVE LifecycleInv'
  <1>. USE LifecycleAssumption DEF Release, ReqGoto, LifecycleInv, TypeInv, LifecycleTypeOK,
              dbVars, poolVars, jobVars, recVars, histVars
  <1>a. Cardinality(Holders') = Cardinality(Holders) - 1 /\ Cardinality(Holders) > 0
    BY SlotGiven DEF HasSlot
  <1>b. reserved >= 1 /\ recPc = recPc'  BY <1>a, HoldersCount DEF SlotInv, RecoverySlot
  <1>1. TypeInv'  BY <1>b DEF ServerStates
  <1>2. ModeInv'  BY DEF ModeInv, Up, Down, Quiet, ServerStates
  <1>3. OwnerInv'  BY DEF OwnerInv, InTx
  <1>4. SlotInv'
    BY <1>a, <1>b, HoldersCount DEF SlotInv, RecoverySlot
  <1>5. KnownInv'  BY DEF KnownInv, Unanswered
  <1>6. TableInv'  BY DEF TableInv, SettledBy
  <1>7. DiskInv'  BY DEF DiskInv, ProblemKept
  <1>8. ResultInv'  BY DEF ResultInv
  <1>9. CareInv'
    <2>1. Current' = Current  BY DEF Current
    <2>2. \A u \in Tasks : InPool(u) <=> InPool(u)'  BY DEF InPool
    <2>. QED  BY <2>1, <2>2 DEF CareInv, InCare, Unsettled, Listing
  <1>. QED  BY <1>1, <1>2, <1>3, <1>4, <1>5, <1>6, <1>7, <1>8, <1>9

\* The slot becomes a place in the queue, and the task passes into the pool.
LEMMA HandOverInv == ASSUME LifecycleInv, NEW t \in Tasks, HandOver(t) PROVE LifecycleInv'
  <1>. USE LifecycleAssumption DEF HandOver, ReqGoto, LifecycleInv, TypeInv, LifecycleTypeOK,
              dbVars, poolVars, jobVars, recVars, histVars
  <1>a. Cardinality(Holders') = Cardinality(Holders) - 1 /\ Cardinality(Holders) > 0
    BY SlotGiven DEF HasSlot
  <1>b. reserved >= 1 /\ recPc = recPc'  BY <1>a, HoldersCount DEF SlotInv, RecoverySlot
  <1>1. TypeInv'
    <2>1. queue' \in Seq(Tasks)  OBVIOUS
    <2>. QED  BY <1>b, <2>1
  <1>2. ModeInv'  BY DEF ModeInv, Up, Down, Quiet, ServerStates
  <1>3. OwnerInv'  BY DEF OwnerInv, InTx
  <1>4. SlotInv'
    <2>1. Len(queue') = Len(queue) + 1  OBVIOUS
    <2>. QED  BY <1>a, <1>b, <2>1, HoldersCount DEF SlotInv, RecoverySlot
  <1>5. KnownInv'  BY DEF KnownInv, Unanswered
  <1>6. TableInv'  BY DEF TableInv, SettledBy
  <1>7. DiskInv'  BY DEF DiskInv, ProblemKept
  <1>8. ResultInv'  BY DEF ResultInv
  <1>9. CareInv'
    <2>1. Current' = Current  BY DEF Current
    <2>2. \A u \in Tasks : InPool(u) \/ u = t => InPool(u)'  BY DEF InPool
    <2>. QED  BY <2>1, <2>2 DEF CareInv, InCare, Unsettled, Listing
  <1>. QED  BY <1>1, <1>2, <1>3, <1>4, <1>5, <1>6, <1>7, <1>8, <1>9

-----------------------------------------------------------------------------
(* The steps of a worker.                                                  *)

\* A task that leaves the queue is held by the worker.
LEMMA PopInv == ASSUME LifecycleInv, NEW w \in Workers, Pop(w) PROVE LifecycleInv'
  <1>. USE LifecycleAssumption DEF Pop, JobGoto, LifecycleInv, TypeInv, LifecycleTypeOK,
              dbVars, poolVars, jobVars, recVars, histVars
  <1>1. TypeInv'  BY DEF ServerStates
  <1>2. ModeInv'  BY DEF ModeInv, Up, Down, Quiet, ServerStates
  <1>3. OwnerInv'  BY DEF OwnerInv, InTx
  <1>4. SlotInv'  BY DEF SlotInv, RecoverySlot, Holders, HasSlot
  <1>5. KnownInv'  BY DEF KnownInv, Unanswered
  <1>6. TableInv'  BY DEF TableInv, SettledBy
  <1>7. DiskInv'  BY DEF DiskInv, ProblemKept
  <1>8. ResultInv'  BY DEF ResultInv
  <1>9. CareInv'
    <2>1. Current' = Current  BY DEF Current
    <2>2. ASSUME NEW u \in Tasks, InPool(u)
          PROVE  InPool(u)'
      <3>1. CASE u = Head(queue)
        BY <3>1 DEF InPool
      <3>2. CASE \E x \in Workers : held[x] = u
        <4>1. PICK x \in Workers : held[x] = u  BY <3>2
        <4>2. x # w  BY <4>1 DEF KnownInv
        <4>. QED  BY <4>1, <4>2 DEF InPool
      <3>3. CASE u # Head(queue) /\ \E i \in 1..Len(queue) : queue[i] = u
        <4>1. PICK i \in 1..Len(queue) : queue[i] = u  BY <3>3
        <4>2. i # 1 /\ i - 1 \in 1..Len(queue') /\ queue'[i - 1] = u  BY <3>3, <4>1
        <4>. QED  BY <4>2 DEF InPool
      <3>. QED  BY <2>2, <3>1, <3>2, <3>3 DEF InPool
    <2>. QED  BY <2>1, <2>2 DEF CareInv, InCare, Unsettled, Listing
  <1>. QED  BY <1>1, <1>2, <1>3, <1>4, <1>5, <1>6, <1>7, <1>8, <1>9

\* The problem of an accepted task is there.
LEMMA ReadInv == ASSUME LifecycleInv, NEW w \in Workers, Read(w) PROVE LifecycleInv'
  <1>. USE LifecycleAssumption DEF Read, JobGoto, Fault, CanFail, LifecycleInv, TypeInv, LifecycleTypeOK,
              dbVars, poolVars, jobVars, recVars, histVars
  <1>a. held[w] \in accepted /\ work.problem  BY Seen DEF KnownInv
  <1>b. workPc'[w] \in {"judged", "error"} /\ \A x \in Workers : x # w => workPc'[x] = workPc[x]
    BY <1>a
  <1>1. TypeInv'  BY <1>a DEF ServerStates
  <1>2. ModeInv'  BY DEF ModeInv, Up, Down, Quiet, ServerStates
  <1>3. OwnerInv'  BY DEF OwnerInv, InTx
  <1>4. SlotInv'  BY DEF SlotInv, RecoverySlot, Holders, HasSlot
  <1>5. KnownInv'  BY DEF KnownInv, Unanswered
  <1>6. TableInv'  BY DEF TableInv, SettledBy
  <1>7. DiskInv'  BY <1>b DEF DiskInv, ProblemKept
  <1>8. ResultInv'  BY DEF ResultInv
  <1>9. CareInv'
    <2>1. Current' = Current  BY DEF Current
    <2>2. \A u \in Tasks : InPool(u) <=> InPool(u)'  BY DEF InPool
    <2>. QED  BY <2>1, <2>2 DEF CareInv, InCare, Unsettled, Listing
  <1>. QED  BY <1>1, <1>2, <1>3, <1>4, <1>5, <1>6, <1>7, <1>8, <1>9

\* The settling transaction finds the task unsettled, or settled by another copy.
LEMMA SettleBodyInv == ASSUME LifecycleInv, NEW w \in Workers, SettleBody(w) PROVE LifecycleInv'
  <1>. USE LifecycleAssumption DEF SettleBody, JobGoto, Begin, LifecycleInv, TypeInv, LifecycleTypeOK,
              dbVars, poolVars, jobVars, recVars, histVars
  <1>. DEFINE t == held[w]
  <1>a. t \in accepted /\ t \in Tasks /\ work.problem /\ owner = None /\ workPc[w] = "judged"
    BY Seen DEF KnownInv, DiskInv, ProblemKept
  <1>b. /\ adminPc = "idle" /\ \A u \in Tasks : reqPc[u] # "persisting"
        /\ \A x \in Workers : workPc[x] # "settling"
        /\ \A x \in Workers : x # w => workPc'[x] = workPc[x]
    BY <1>a, NoTransaction
  <1>c. \A u \in Tasks : /\ work.subs[u] = disk.subs[u]
                         /\ \/ work.row[u] = disk.row[u]
                            \/ work.row[u] = "claimed" /\ disk.row[u] = "pending"
    <2>1. \A u \in Tasks : ~\E x \in Workers : SettledBy(x, u)  BY <1>b DEF SettledBy
    <2>. QED  BY <1>b, <2>1 DEF TableInv
  <1>d. \/ work' = work /\ workPc'[w] = "duplicate" /\ work.row[t] = "none"
        \/ /\ work.row[t] # "none" /\ workPc'[w] = "settling"
           /\ work' = [work EXCEPT !.row[t] = "none", !.subs[t] = @ + 1]
    BY <1>a
  <1>e. ASSUME workPc'[w] = "settling"
        PROVE  /\ work' \in Tables /\ work'.problem
               /\ work'.row[t] = "none" /\ work'.subs[t] = 1
               /\ \A u \in Tasks : u # t => work'.row[u] = work.row[u] /\ work'.subs[u] = work.subs[u]
    <2>1. work.subs[t] = 0  BY <1>a, <1>d, <1>e, Seen
    <2>2. /\ work' \in Tables /\ work'.row = [work.row EXCEPT ![t] = "none"]
          /\ work'.subs = [work.subs EXCEPT ![t] = 1] /\ work'.problem = work.problem
      <3>1. work' = [work EXCEPT !.row[t] = "none", !.subs[t] = @ + 1]  BY <1>d, <1>e
      <3>2. work \in Tables  OBVIOUS
      <3>. HIDE DEF t
      <3>. QED  BY ONLY <1>a, <2>1, <3>1, <3>2, SettledRow
    <2>3. work.row \in [Tasks -> RowStates] /\ work.subs \in [Tasks -> 0..1]  BY DEF Tables
    <2>. HIDE DEF t
    <2>. QED  BY <1>a, <2>2, <2>3
  <1>f. workPc'[w] \in {"duplicate", "settling"} /\ work' \in Tables /\ work'.problem
    BY <1>a, <1>d, <1>e
  <1>1. TypeInv'  BY <1>f DEF ServerStates
  <1>2. ModeInv'  BY DEF ModeInv, Up, Down, Quiet, ServerStates
  <1>3. OwnerInv'  BY DEF OwnerInv, InTx
  <1>4. SlotInv'  BY DEF SlotInv, RecoverySlot, Holders, HasSlot
  <1>5. KnownInv'  BY DEF KnownInv, Unanswered
  <1>6. TableInv'
    <2>1. CASE workPc'[w] = "duplicate"
      BY <1>b, <1>c, <1>d, <2>1 DEF TableInv, SettledBy
    <2>2. CASE workPc'[w] = "settling"
      <3>1. \A u \in Tasks : u = t <=> SettledBy(w, u)'  BY <2>2 DEF SettledBy
      <3>2. \A u \in Tasks, x \in Workers : SettledBy(x, u)' => x = w  BY <1>b DEF SettledBy
      <3>3. \A u \in Tasks : (\E x \in Workers : SettledBy(x, u)') \/ u # t  BY <3>1
      <3>4. work'.problem = work.problem /\ accepted' = accepted /\ adminPc' = "idle"
            /\ \A u \in Tasks : reqPc'[u] # "persisting"
        BY <1>a, <1>b, <1>e, <2>2
      <3>5. work.problem = disk.problem /\ disk' = disk  BY <1>b DEF TableInv
      <3>. HIDE DEF t
      <3>. QED  BY ONLY <1>a, <1>c, <1>e, <2>2, <3>1, <3>2, <3>3, <3>4, <3>5 DEF TableInv
    <2>. QED  BY <1>f, <2>1, <2>2
  <1>7. DiskInv'  BY <1>b, <1>f DEF DiskInv, ProblemKept
  <1>8. ResultInv'
    <2>1. workPc'[w] = "duplicate" => disk.subs[t] = 1  BY <1>a, <1>c, <1>d, Seen
    <2>. QED  BY <1>b, <1>f, <2>1 DEF ResultInv
  <1>9. CareInv'
    <2>1. Current' = Current  BY DEF Current
    <2>2. \A u \in Tasks : InPool(u) <=> InPool(u)'  BY DEF InPool
    <2>3. InPool(t)  BY <1>a DEF InPool
    <2>4. \A u \in Tasks : u # t => work'.row[u] = work.row[u]  BY <1>d, <1>e
    <2>. HIDE DEF t
    <2>. QED  BY <2>1, <2>2, <2>3, <2>4 DEF CareInv, InCare, Unsettled, Listing
  <1>. QED  BY <1>1, <1>2, <1>3, <1>4, <1>5, <1>6, <1>7, <1>8, <1>9

\* COMMIT turns the row into a submission, and all that the others wrote with it.
LEMMA SettleCommitInv ==
    ASSUME LifecycleInv, NEW w \in Workers, SettleCommit(w)
    PROVE  LifecycleInv'
  <1>. USE LifecycleAssumption DEF SettleCommit, JobGoto, CommitTx, LifecycleInv, TypeInv, LifecycleTypeOK,
              dbVars, poolVars, jobVars, recVars, histVars
  <1>. DEFINE t == held[w]
  <1>a. t \in accepted /\ t \in Tasks /\ owner = w /\ workPc[w] = "settling"
    BY DEF KnownInv, DiskInv, ProblemKept, OwnerInv, InTx
  <1>b. /\ adminPc = "idle" /\ \A u \in Tasks : reqPc[u] # "persisting"
        /\ workPc'[w] = "ok"
        /\ \A x \in Workers : x # w => workPc'[x] = workPc[x] /\ workPc[x] # "settling"
    BY <1>a DEF OwnerInv, InTx
  <1>c. work.row[t] = "none" /\ work.subs[t] = 1  BY <1>a DEF TableInv, SettledBy
  <1>1. TypeInv'  BY DEF ServerStates
  <1>2. ModeInv'  BY DEF ModeInv, Up, Down, Quiet, ServerStates
  <1>3. OwnerInv'  BY DEF OwnerInv, InTx
  <1>4. SlotInv'  BY DEF SlotInv, RecoverySlot, Holders, HasSlot
  <1>5. KnownInv'  BY DEF KnownInv, Unanswered
  <1>6. TableInv'  BY <1>b DEF TableInv, SettledBy
  <1>7. DiskInv'  BY <1>b, Seen DEF DiskInv, ProblemKept
  <1>8. ResultInv'
    <2>1. \A x \in Workers : workPc[x] # "idle" => held[x] \in Tasks  BY DEF KnownInv
    <2>. QED  BY <1>b, <1>c, <2>1, Difference DEF ResultInv
  <1>9. CareInv'
    <2>1. Current' = Current  BY DEF Current
    <2>2. \A u \in Tasks : InPool(u) <=> InPool(u)'  BY DEF InPool
    <2>. QED  BY <1>b, Difference, <2>1, <2>2 DEF CareInv, InCare, Unsettled, Listing
  <1>. QED  BY <1>1, <1>2, <1>3, <1>4, <1>5, <1>6, <1>7, <1>8, <1>9

\* A settling transaction that fails leaves its task to the next start.
LEMMA SettleRollbackInv ==
    ASSUME LifecycleInv, NEW w \in Workers, SettleRollback(w)
    PROVE  LifecycleInv'
  <1>. USE LifecycleAssumption DEF SettleRollback, JobGoto, RollbackTx, FailTx, Fault, CanFail,
              LifecycleInv, TypeInv, LifecycleTypeOK, dbVars, poolVars, jobVars, recVars, histVars
  <1>. DEFINE t == held[w]
  <1>a. t \in accepted /\ t \in Tasks /\ owner = w /\ workPc[w] \in {"settling", "duplicate"}
    BY DEF KnownInv, DiskInv, ProblemKept, OwnerInv, InTx
  <1>b. /\ adminPc = "idle" /\ \A u \in Tasks : reqPc[u] # "persisting"
        /\ workPc'[w] = "error"
        /\ \A x \in Workers : x # w => workPc'[x] = workPc[x] /\ workPc[x] # "settling"
    BY <1>a DEF OwnerInv, InTx
  <1>1. TypeInv'  BY <1>a DEF ServerStates
  <1>2. ModeInv'  BY DEF ModeInv, Up, Down, Quiet, ServerStates
  <1>3. OwnerInv'  BY DEF OwnerInv, InTx
  <1>4. SlotInv'  BY DEF SlotInv, RecoverySlot, Holders, HasSlot
  <1>5. KnownInv'  BY DEF KnownInv, Unanswered
  <1>6. TableInv'  BY <1>b DEF TableInv, SettledBy
  <1>7. DiskInv'  BY DEF DiskInv, ProblemKept
  <1>8. ResultInv'  BY DEF ResultInv
  <1>9. CareInv'
    <2>1. Current' = Current  BY DEF Current
    <2>2. \A u \in Tasks : InPool(u) <=> InPool(u)'  BY DEF InPool
    <2>. QED  BY <1>b, Difference, <2>1, <2>2 DEF CareInv, InCare, Unsettled, Listing
  <1>. QED  BY <1>1, <1>2, <1>3, <1>4, <1>5, <1>6, <1>7, <1>8, <1>9

\* A handler that ends leaves no unsettled task but one it has given up.
LEMMA DeliverInv == ASSUME LifecycleInv, NEW w \in Workers, Deliver(w) PROVE LifecycleInv'
  <1>. USE LifecycleAssumption DEF Deliver, JobGoto, ReqGoto, LifecycleInv, TypeInv, LifecycleTypeOK,
              dbVars, poolVars, jobVars, recVars, histVars
  <1>1. TypeInv'  BY DEF ServerStates
  <1>2. ModeInv'  BY DEF ModeInv, Up, Down, Quiet, ServerStates
  <1>3. OwnerInv'  BY DEF OwnerInv, InTx
  <1>4. SlotInv'  BY DEF SlotInv, RecoverySlot, Holders, HasSlot
  <1>5. KnownInv'  BY DEF KnownInv, Unanswered
  <1>6. TableInv'  BY DEF TableInv, SettledBy
  <1>7. DiskInv'  BY DEF DiskInv, ProblemKept
  <1>8. ResultInv'  BY DEF ResultInv
  <1>9. CareInv'
    <2>1. Current' = Current  BY DEF Current
    <2>2. \A u \in Tasks : InPool(u) /\ u # held[w] => InPool(u)'  BY DEF InPool
    <2>3. held[w] \in accepted /\ (Unsettled(disk, held[w]) => held[w] \in givenUp)
      BY DEF KnownInv, ResultInv, DiskInv, Unsettled
    <2>. QED  BY <2>1, <2>2, <2>3 DEF CareInv, InCare, Unsettled, Listing
  <1>. QED  BY <1>1, <1>2, <1>3, <1>4, <1>5, <1>6, <1>7, <1>8, <1>9

-----------------------------------------------------------------------------
(* The steps of the recovery.                                              *)

\* When the claims are reset nobody else is at work.
LEMMA ResetClaimsInv == ASSUME LifecycleInv, ResetClaims PROVE LifecycleInv'
  <1>. USE LifecycleAssumption DEF ResetClaims, GiveUp, Fault, CanFail, LifecycleInv, TypeInv, LifecycleTypeOK,
              dbVars, poolVars, jobVars, recVars, histVars
  <1>a. /\ adminPc = "idle" /\ \A u \in Tasks : reqPc[u] \in Quiet
        /\ queue = <<>> /\ owner = None /\ \A w \in Workers : workPc[w] = "idle"
    BY DEF ModeInv, Up
  <1>b. \A u \in Tasks : (work.subs[u] = disk.subs[u])
            /\ (work.row[u] = disk.row[u] \/ (work.row[u] = "claimed" /\ disk.row[u] = "pending"))
    <2>1. \A u \in Tasks : ~\E w \in Workers : SettledBy(w, u)  BY <1>a DEF SettledBy
    <2>. QED  BY <1>a, <2>1 DEF TableInv, Quiet
  <1>c. ASSUME recPc' = "list"
        PROVE  /\ work' \in Tables /\ disk' = work'
               /\ work'.subs = work.subs /\ work'.problem = work.problem
               /\ \A u \in Tasks : work'.row[u] =
                      IF work.row[u] = "claimed" THEN "pending" ELSE work.row[u]
    <2>1. /\ work' = [work EXCEPT !.row = [u \in Tasks |-> IF @[u] = "claimed" THEN "pending" ELSE @[u]]]
          /\ disk' = work' /\ work \in Tables
      BY <1>c
    <2>. QED  BY ONLY <2>1, ClaimsReset
  <1>d. CASE recPc' = "done" /\ GiveUp /\ work' = work /\ disk' = disk
    <2>1. TypeInv'  BY <1>d
    <2>2. ModeInv'  BY <1>d DEF ModeInv, Up, Down, Quiet
    <2>3. OwnerInv' BY <1>d DEF OwnerInv, InTx
    <2>4. SlotInv'  BY <1>d DEF SlotInv, RecoverySlot, Holders
    <2>5. KnownInv' /\ TableInv' /\ DiskInv'
      BY <1>d DEF KnownInv, TableInv, SettledBy, DiskInv, ProblemKept
    <2>6. ResultInv'  BY <1>d DEF ResultInv
    <2>7. CareInv'
      <3>1. \A u \in Tasks : InPool(u) <=> InPool(u)'  BY DEF InPool
      <3>2. \A u \in Tasks : Unsettled(disk, u) => Unsettled(work, u)  BY <1>b DEF Unsettled
      <3>. QED  BY <1>d, <3>1, <3>2 DEF CareInv, InCare, Unsettled
    <2>. QED  BY <2>1, <2>2, <2>3, <2>4, <2>5, <2>6, <2>7
  <1>e. ASSUME recPc' = "list", UNCHANGED <<givenUp, faults>>, work' \in Tables, disk' = work',
               work'.subs = work.subs, work'.problem = work.problem,
               \A u \in Tasks : work'.row[u] = IF work.row[u] = "claimed" THEN "pending" ELSE work.row[u]
        PROVE  LifecycleInv'
    <2>1. TypeInv'  BY <1>e
    <2>2. ModeInv'  BY <1>e DEF ModeInv, Up, Down, Quiet
    <2>3. OwnerInv' BY <1>e DEF OwnerInv, InTx
    <2>4. SlotInv'  BY <1>e DEF SlotInv, RecoverySlot, Holders
    <2>5. KnownInv' BY <1>e DEF KnownInv
    <2>6. TableInv' BY <1>a, <1>e DEF TableInv, SettledBy, Quiet
    <2>7. DiskInv'  BY <1>a, <1>e, Seen DEF DiskInv, ProblemKept, Quiet
    <2>8. ResultInv'  BY <1>a, <1>b, <1>e DEF ResultInv
    <2>9. CareInv'  BY <1>e DEF CareInv, InCare, Unsettled, Listing
    <2>. QED  BY <2>1, <2>2, <2>3, <2>4, <2>5, <2>6, <2>7, <2>8, <2>9
  <1>. QED  BY <1>c, <1>d, <1>e

\* An empty listing means that every unsettled task is in the pool or given up.
LEMMA ListPendingInv == ASSUME LifecycleInv, ListPending PROVE LifecycleInv'
  <1>. USE LifecycleAssumption DEF ListPending, GiveUp, Fault, CanFail, Pending, LifecycleInv, TypeInv, LifecycleTypeOK,
              dbVars, poolVars, jobVars, recVars, histVars
  <1>a. Pending \subseteq accepted
    BY Seen DEF ModeInv, Up, Quiet
  <1>1. TypeInv'  BY DEF ServerStates
  <1>2. ModeInv'  BY DEF ModeInv, Up, Down, Quiet, ServerStates
  <1>3. OwnerInv'  BY DEF OwnerInv, InTx
  <1>4. SlotInv'  BY DEF SlotInv, RecoverySlot, Holders, HasSlot
  <1>5. KnownInv'  BY <1>a DEF KnownInv, Unanswered
  <1>6. TableInv'  BY DEF TableInv, SettledBy
  <1>7. DiskInv'  BY DEF DiskInv, ProblemKept
  <1>8. ResultInv'  BY DEF ResultInv
  <1>9. CareInv'
    <2>1. \A u \in Tasks : InPool(u) <=> InPool(u)'  BY DEF InPool
    <2>2. CASE recPc' = "done" /\ GiveUp
      <3>1. \A u \in Tasks : Unsettled(disk, u) => Unsettled(work, u) \/ InPool(u)
        BY Difference DEF SettledBy, InPool
      <3>. QED  BY <2>1, <2>2, <3>1 DEF CareInv, InCare, Unsettled
    <2>3. CASE recPc' = (IF Pending = {} THEN "done" ELSE "next") /\ givenUp' = givenUp
      BY <2>1, <2>3 DEF CareInv, InCare, Unsettled, Listing
    <2>. QED  BY <2>2, <2>3
  <1>. QED  BY <1>1, <1>2, <1>3, <1>4, <1>5, <1>6, <1>7, <1>8, <1>9

\* The recovery takes a slot only below the capacity.
LEMMA ReserveSlotInv == ASSUME LifecycleInv, ReserveSlot PROVE LifecycleInv'
  <1>. USE LifecycleAssumption DEF ReserveSlot, Full, LifecycleInv, TypeInv, LifecycleTypeOK,
              dbVars, poolVars, jobVars, recVars, histVars
  <1>1. TypeInv'  BY DEF ServerStates
  <1>2. ModeInv'  BY DEF ModeInv, Up, Down, Quiet, ServerStates
  <1>3. OwnerInv'  BY DEF OwnerInv, InTx
  <1>4. SlotInv'
    <2>1. Cardinality(Holders') = Cardinality(Holders)  BY DEF Holders
    <2>. QED  BY <2>1, HoldersCount DEF SlotInv, RecoverySlot
  <1>5. KnownInv'  BY DEF KnownInv, Unanswered
  <1>6. TableInv'  BY DEF TableInv, SettledBy
  <1>7. DiskInv'  BY DEF DiskInv, ProblemKept
  <1>8. ResultInv'  BY DEF ResultInv
  <1>9. CareInv'
    <2>1. Current' = Current  BY DEF Current
    <2>2. \A u \in Tasks : InPool(u) <=> InPool(u)'  BY DEF InPool
    <2>. QED  BY <2>1, <2>2 DEF CareInv, InCare, Unsettled, Listing
  <1>. QED  BY <1>1, <1>2, <1>3, <1>4, <1>5, <1>6, <1>7, <1>8, <1>9

\* A claim may fall into the transaction of a worker, never onto its row.
LEMMA ClaimStepInv == ASSUME LifecycleInv, ClaimStep PROVE LifecycleInv'
  <1>. USE LifecycleAssumption DEF ClaimStep, GiveUp, Fault, CanFail, LifecycleInv, TypeInv, LifecycleTypeOK,
              dbVars, poolVars, jobVars, recVars, histVars
  <1>a. Current \in accepted /\ Current \in Tasks /\ batch # {}  BY CurrentListed DEF KnownInv
  <1>b. server = "starting" /\ \A u \in Tasks : reqPc[u] # "persisting"  BY DEF ModeInv, Up, Quiet
  <1>c. \/ /\ recPc' = "stepped" /\ work.row[Current] = "pending"
           /\ work' = [work EXCEPT !.row[Current] = "claimed"]
           /\ UNCHANGED <<givenUp, faults>>
        \/ recPc' = "unclaimed" /\ work' = work /\ UNCHANGED <<givenUp, faults>>
        \/ recPc' = "abandon" /\ work' = work /\ GiveUp
    OBVIOUS
  <1>d. ASSUME recPc' = "stepped"
        PROVE  /\ work' \in Tables /\ work'.subs = work.subs /\ work'.problem = work.problem
               /\ work'.row[Current] = "claimed" /\ work.row[Current] = "pending"
               /\ \A u \in Tasks : u # Current => work'.row[u] = work.row[u]
    <2>1. work' = [work EXCEPT !.row[Current] = "claimed"] /\ work.row[Current] = "pending"
      BY <1>c, <1>d
    <2>2. work \in Tables /\ "claimed" \in RowStates  BY DEF RowStates
    <2>3. /\ work' \in Tables /\ work'.row = [work.row EXCEPT ![Current] = "claimed"]
          /\ work'.subs = work.subs /\ work'.problem = work.problem
      BY ONLY <1>a, <2>1, <2>2, WrittenRow
    <2>4. work.row \in [Tasks -> RowStates]  BY DEF Tables
    <2>. QED  BY <1>a, <2>1, <2>3, <2>4
  <1>1. TypeInv'  BY <1>d DEF ServerStates
  <1>2. ModeInv'  BY DEF ModeInv, Up, Down, Quiet, ServerStates
  <1>3. OwnerInv'  BY DEF OwnerInv, InTx
  <1>4. SlotInv'  BY DEF SlotInv, RecoverySlot, Holders, HasSlot
  <1>5. KnownInv'  BY DEF KnownInv, Unanswered
  <1>6. TableInv'
    <2>1. CASE work' = work
      BY <2>1 DEF TableInv, SettledBy
    <2>2. CASE recPc' = "stepped"
      <3>1. disk.row[Current] = "pending" /\ ~\E w \in Workers : SettledBy(w, Current)
        BY <1>a, <1>b, <1>d, <2>2 DEF TableInv
      <3>2. \A w \in Workers, u \in Tasks : SettledBy(w, u)' <=> SettledBy(w, u)  BY DEF SettledBy
      <3>3. work.subs[Current] = disk.subs[Current]  BY <1>a, <1>b, <3>1 DEF TableInv
      <3>. QED  BY <1>a, <1>b, <1>d, <2>2, <3>1, <3>2, <3>3 DEF TableInv
    <2>. QED  BY <1>c, <2>1, <2>2
  <1>7. DiskInv'  BY DEF DiskInv, ProblemKept
  <1>8. ResultInv'  BY DEF ResultInv
  <1>9. CareInv'
    <2>1. Current' = Current  BY DEF Current
    <2>2. \A u \in Tasks : InPool(u) <=> InPool(u)'  BY DEF InPool
    <2>3. CASE recPc' = "stepped"
      BY <1>d, <2>1, <2>2, <2>3 DEF CareInv, InCare, Unsettled, Listing
    <2>4. CASE recPc' = "unclaimed" /\ work' = work /\ UNCHANGED <<givenUp, faults>>
      BY <2>1, <2>2, <2>4 DEF CareInv, InCare, Unsettled, Listing
    <2>5. CASE recPc' = "abandon" /\ work' = work /\ GiveUp
      <3>1. \A u \in Tasks : Unsettled(disk, u) => Unsettled(work, u) \/ InPool(u)
        BY Difference DEF SettledBy, InPool
      <3>. QED  BY <2>2, <2>5, <3>1 DEF CareInv, InCare, Unsettled
    <2>. QED  BY <1>c, <2>3, <2>4, <2>5
  <1>. QED  BY <1>1, <1>2, <1>3, <1>4, <1>5, <1>6, <1>7, <1>8, <1>9

\* A claim that commits by itself commits nothing but claims.
LEMMA ClaimFinalizeInv == ASSUME LifecycleInv, ClaimFinalize PROVE LifecycleInv'
  <1>. USE LifecycleAssumption DEF ClaimFinalize, LifecycleInv, TypeInv, LifecycleTypeOK,
              dbVars, poolVars, jobVars, recVars, histVars
  <1>a. \A u \in Tasks : reqPc[u] # "persisting"  BY DEF ModeInv, Up, Quiet
  <1>1. TypeInv'  BY DEF ServerStates
  <1>2. ModeInv'  BY DEF ModeInv, Up, Down, Quiet, ServerStates
  <1>3. OwnerInv'  BY DEF OwnerInv, InTx
  <1>4. SlotInv'  BY DEF SlotInv, RecoverySlot, Holders, HasSlot
  <1>5. KnownInv'  BY DEF KnownInv, Unanswered
  <1>6. TableInv'  BY DEF TableInv, SettledBy
  <1>7. DiskInv'  BY <1>a, Seen DEF DiskInv, ProblemKept
  <1>8. ResultInv'
    <2>1. \A x \in Workers : workPc[x] # "idle" => held[x] \in Tasks  BY DEF KnownInv
    <2>. QED  BY <2>1, Difference DEF ResultInv
  <1>9. CareInv'
    <2>1. Current' = Current  BY DEF Current
    <2>2. \A u \in Tasks : InPool(u) <=> InPool(u)'  BY DEF InPool
    <2>. QED  BY <1>a, Difference, <2>1, <2>2 DEF CareInv, InCare, Unsettled, Listing
  <1>. QED  BY <1>1, <1>2, <1>3, <1>4, <1>5, <1>6, <1>7, <1>8, <1>9

\* The claimed task passes into the pool.
LEMMA EnqueueInv == ASSUME LifecycleInv, Enqueue PROVE LifecycleInv'
  <1>. USE LifecycleAssumption DEF Enqueue, LifecycleInv, TypeInv, LifecycleTypeOK,
              dbVars, poolVars, jobVars, recVars, histVars
  <1>a. Current \in batch /\ Current \in accepted /\ Current \in Tasks  BY CurrentListed DEF KnownInv
  <1>b. Cardinality(Holders') = Cardinality(Holders)  BY DEF Holders
  <1>c. reserved >= 1  BY HoldersCount DEF SlotInv, RecoverySlot
  <1>1. TypeInv'  BY <1>a, <1>c DEF ServerStates
  <1>2. ModeInv'  BY DEF ModeInv, Up, Down, Quiet, ServerStates
  <1>3. OwnerInv'  BY DEF OwnerInv, InTx
  <1>4. SlotInv'
    BY <1>b, <1>c, HoldersCount DEF SlotInv, RecoverySlot
  <1>5. KnownInv'  BY <1>a DEF KnownInv, Unanswered
  <1>6. TableInv'  BY DEF TableInv, SettledBy
  <1>7. DiskInv'  BY DEF DiskInv, ProblemKept
  <1>8. ResultInv'  BY DEF ResultInv
  <1>9. CareInv'
    <2>1. \A u \in Tasks : InPool(u) \/ u = Current => InPool(u)'  BY <1>a DEF InPool
    <2>. QED  BY <2>1 DEF CareInv, InCare, Unsettled, Listing
  <1>. QED  BY <1>1, <1>2, <1>3, <1>4, <1>5, <1>6, <1>7, <1>8, <1>9

\* A task that was not claimed is somebody else's, or was given up.
LEMMA ReleaseSlotInv == ASSUME LifecycleInv, ReleaseSlot PROVE LifecycleInv'
  <1>. USE LifecycleAssumption DEF ReleaseSlot, LifecycleInv, TypeInv, LifecycleTypeOK,
              dbVars, poolVars, jobVars, recVars, histVars
  <1>a. Current \in batch /\ Current \in accepted /\ Current \in Tasks  BY CurrentListed DEF KnownInv
  <1>b. Cardinality(Holders') = Cardinality(Holders)  BY DEF Holders
  <1>c. reserved >= 1  BY HoldersCount DEF SlotInv, RecoverySlot
  <1>1. TypeInv'  BY <1>a, <1>c DEF ServerStates
  <1>2. ModeInv'  BY DEF ModeInv, Up, Down, Quiet, ServerStates
  <1>3. OwnerInv'  BY DEF OwnerInv, InTx
  <1>4. SlotInv'
    BY <1>b, <1>c, HoldersCount DEF SlotInv, RecoverySlot
  <1>5. KnownInv'  BY DEF KnownInv, Unanswered
  <1>6. TableInv'  BY DEF TableInv, SettledBy
  <1>7. DiskInv'  BY DEF DiskInv, ProblemKept
  <1>8. ResultInv'  BY DEF ResultInv
  <1>9. CareInv'
    <2>1. \A u \in Tasks : InPool(u) <=> InPool(u)'  BY DEF InPool
    <2>. QED  BY <2>1 DEF CareInv, InCare, Unsettled, Listing
  <1>. QED  BY <1>1, <1>2, <1>3, <1>4, <1>5, <1>6, <1>7, <1>8, <1>9

-----------------------------------------------------------------------------
(* The deletion of the problem, and the process.                           *)

\* A deletion that is not refused has seen that no task was accepted.
LEMMA DeleteBodyInv == ASSUME LifecycleInv, DeleteBody PROVE LifecycleInv'
  <1>. USE LifecycleAssumption DEF DeleteBody, Begin, LifecycleInv, TypeInv, LifecycleTypeOK,
              dbVars, poolVars, jobVars, recVars, histVars
  <1>a. recPc = "done" /\ owner = None  BY DEF ModeInv, Up
  <1>b. /\ adminPc = "idle" /\ \A u \in Tasks : reqPc[u] # "persisting"
        /\ \A x \in Workers : workPc[x] # "settling"
    BY <1>a, NoTransaction
  <1>c. \A u \in Tasks : (work.subs[u] = disk.subs[u])
            /\ (work.row[u] = disk.row[u] \/ (work.row[u] = "claimed" /\ disk.row[u] = "pending"))
    <2>1. \A u \in Tasks : ~\E x \in Workers : SettledBy(x, u)  BY <1>b DEF SettledBy
    <2>. QED  BY <1>b, <2>1 DEF TableInv
  <1>d. ASSUME adminPc' = "deleting"
        PROVE  /\ work' \in Tables /\ work'.subs = work.subs
               /\ \A u \in Tasks : work'.row[u] = "none"
               /\ accepted = {}
    <2>1. /\ work' = [work EXCEPT !.problem = FALSE, !.row = [u \in Tasks |-> "none"]]
          /\ work \in Tables
          /\ \A u \in Tasks : work.subs[u] = 0 /\ ~Unsettled(work, u)
      BY <1>d
    <2>2. accepted = {}  BY <2>1, Seen DEF Unsettled
    <2>. QED  BY ONLY <2>1, <2>2, ProblemRemoved
  <1>e. adminPc' = "deleting" \/ (adminPc' = "refusing" /\ work' = work)  OBVIOUS
  <1>1. TypeInv'  BY <1>d, <1>e DEF ServerStates
  <1>2. ModeInv'  BY DEF ModeInv, Up, Down, Quiet, ServerStates
  <1>3. OwnerInv'  BY DEF OwnerInv, InTx
  <1>4. SlotInv'  BY DEF SlotInv, RecoverySlot, Holders, HasSlot
  <1>5. KnownInv'  BY DEF KnownInv, Unanswered
  <1>6. TableInv'
    <2>1. CASE adminPc' = "refusing" /\ work' = work
      BY <1>b, <2>1 DEF TableInv, SettledBy
    <2>2. CASE adminPc' = "deleting"
      <3>1. \A u \in Tasks : disk.row[u] = "none"  BY <1>d, <2>2 DEF DiskInv
      <3>. QED  BY <1>b, <1>c, <1>d, <2>2, <3>1 DEF TableInv, SettledBy
    <2>. QED  BY <1>e, <2>1, <2>2
  <1>7. DiskInv'  BY DEF DiskInv, ProblemKept
  <1>8. ResultInv'  BY DEF ResultInv
  <1>9. CareInv'
    <2>1. Current' = Current  BY DEF Current
    <2>2. \A u \in Tasks : InPool(u) <=> InPool(u)'  BY DEF InPool
    <2>. QED  BY <1>a, <2>1, <2>2 DEF CareInv, InCare, Unsettled, Listing
  <1>. QED  BY <1>1, <1>2, <1>3, <1>4, <1>5, <1>6, <1>7, <1>8, <1>9

\* The deletion commits the loss of a problem without accepted tasks, or nothing.
LEMMA DeleteEndInv == ASSUME LifecycleInv, DeleteEnd PROVE LifecycleInv'
  <1>. USE LifecycleAssumption DEF DeleteEnd, CommitTx, RollbackTx, FailTx, Fault, CanFail,
              LifecycleInv, TypeInv, LifecycleTypeOK, dbVars, poolVars, jobVars, recVars, histVars
  <1>a. owner = "admin" /\ recPc = "done"  BY Serving DEF OwnerInv
  <1>b. /\ \A u \in Tasks : reqPc[u] # "persisting"
        /\ \A w \in Workers : workPc[w] # "settling"
    BY <1>a DEF OwnerInv, InTx
  <1>c. (adminPc = "deleting" /\ disk' = work /\ work' = work) \/ (disk' = disk /\ work' = disk)
    OBVIOUS
  <1>1. TypeInv'  BY DEF ServerStates
  <1>2. ModeInv'  BY DEF ModeInv, Up, Down, Quiet, ServerStates
  <1>3. OwnerInv'  BY DEF OwnerInv, InTx
  <1>4. SlotInv'  BY DEF SlotInv, RecoverySlot, Holders, HasSlot
  <1>5. KnownInv'  BY DEF KnownInv, Unanswered
  <1>6. TableInv'  BY <1>b, <1>c DEF TableInv, SettledBy
  <1>7. DiskInv'
    <2>1. CASE disk' = disk
      BY <2>1 DEF DiskInv, ProblemKept
    <2>2. CASE adminPc = "deleting" /\ disk' = work
      BY <1>b, <2>2, Seen DEF DiskInv, ProblemKept, TableInv
    <2>. QED  BY <1>c, <2>1, <2>2
  <1>8. ResultInv'
    <2>1. \A x \in Workers : workPc[x] # "idle" => held[x] \in Tasks  BY DEF KnownInv
    <2>. QED  BY <1>c, <2>1, Difference DEF ResultInv
  <1>9. CareInv'
    <2>1. Current' = Current  BY DEF Current
    <2>2. \A u \in Tasks : InPool(u) <=> InPool(u)'  BY DEF InPool
    <2>. QED  BY <1>a, <1>b, <1>c, Difference, <2>1, <2>2 DEF CareInv, InCare, Unsettled, Listing
  <1>. QED  BY <1>1, <1>2, <1>3, <1>4, <1>5, <1>6, <1>7, <1>8, <1>9

\* The server listens, or not, after the recovery.
LEMMA StartInv == ASSUME LifecycleInv, Start PROVE LifecycleInv'
  <1>. USE LifecycleAssumption DEF Start, LifecycleInv, TypeInv, LifecycleTypeOK,
              dbVars, poolVars, jobVars, recVars, histVars
  <1>1. TypeInv'  BY DEF ServerStates
  <1>2. ModeInv'  BY DEF ModeInv, Up, Down, Quiet, ServerStates
  <1>3. OwnerInv'  BY DEF OwnerInv, InTx
  <1>4. SlotInv'  BY DEF SlotInv, RecoverySlot, Holders, HasSlot
  <1>5. KnownInv'  BY DEF KnownInv, Unanswered
  <1>6. TableInv'  BY DEF TableInv, SettledBy
  <1>7. DiskInv'  BY DEF DiskInv, ProblemKept
  <1>8. ResultInv'  BY DEF ResultInv
  <1>9. CareInv'
    <2>1. Current' = Current  BY DEF Current
    <2>2. \A u \in Tasks : InPool(u) <=> InPool(u)'  BY DEF InPool
    <2>. QED  BY <2>1, <2>2 DEF CareInv, InCare, Unsettled, Listing
  <1>. QED  BY <1>1, <1>2, <1>3, <1>4, <1>5, <1>6, <1>7, <1>8, <1>9

\* A stop changes no table.
LEMMA StopInv == ASSUME LifecycleInv, Stop PROVE LifecycleInv'
  <1>. USE LifecycleAssumption DEF Stop, LifecycleInv, TypeInv, LifecycleTypeOK,
              dbVars, poolVars, jobVars, recVars, histVars
  <1>1. TypeInv'  BY DEF ServerStates
  <1>2. ModeInv'  BY DEF ModeInv, Up, Down, Quiet, ServerStates
  <1>3. OwnerInv'  BY DEF OwnerInv, InTx
  <1>4. SlotInv'  BY DEF SlotInv, RecoverySlot, Holders, HasSlot
  <1>5. KnownInv'  BY DEF KnownInv, Unanswered
  <1>6. TableInv'  BY DEF TableInv, SettledBy
  <1>7. DiskInv'  BY DEF DiskInv, ProblemKept
  <1>8. ResultInv'  BY DEF ResultInv
  <1>9. CareInv'
    <2>1. Current' = Current  BY DEF Current
    <2>2. \A u \in Tasks : InPool(u) <=> InPool(u)'  BY DEF InPool
    <2>. QED  BY <2>1, <2>2 DEF CareInv, InCare, Unsettled, Listing
  <1>. QED  BY <1>1, <1>2, <1>3, <1>4, <1>5, <1>6, <1>7, <1>8, <1>9

\* At the exit nobody owns a transaction.
LEMMA ExitInv == ASSUME LifecycleInv, Exit PROVE LifecycleInv'
  <1>. USE LifecycleAssumption DEF Exit, LifecycleInv, TypeInv, LifecycleTypeOK,
              dbVars, poolVars, jobVars, recVars, histVars
  <1>1. TypeInv'  BY DEF ServerStates
  <1>2. ModeInv'
    <2>1. owner = None  BY DEF OwnerInv, InTx
    <2>. QED  BY <2>1 DEF ModeInv, Up, Down, Quiet
  <1>3. OwnerInv'  BY DEF OwnerInv, InTx
  <1>4. SlotInv'  BY DEF SlotInv, RecoverySlot, Holders, HasSlot
  <1>5. KnownInv'  BY DEF KnownInv, Unanswered
  <1>6. TableInv'  BY DEF TableInv, SettledBy
  <1>7. DiskInv'  BY DEF DiskInv, ProblemKept
  <1>8. ResultInv'  BY DEF ResultInv
  <1>9. CareInv'
    <2>1. Current' = Current  BY DEF Current
    <2>2. \A u \in Tasks : InPool(u) <=> InPool(u)'  BY DEF InPool
    <2>. QED  BY <2>1, <2>2 DEF CareInv, InCare, Unsettled, Listing
  <1>. QED  BY <1>1, <1>2, <1>3, <1>4, <1>5, <1>6, <1>7, <1>8, <1>9

\* A crash keeps what is committed.
LEMMA CrashInv == ASSUME LifecycleInv, Crash PROVE LifecycleInv'
  <1>. USE LifecycleAssumption DEF Crash, LifecycleInv, TypeInv, LifecycleTypeOK,
              dbVars, poolVars, jobVars, recVars, histVars
  <1>1. TypeInv'  BY DEF ServerStates
  <1>2. ModeInv'  BY DEF ModeInv, Up, Down, Quiet, ServerStates
  <1>3. OwnerInv'  BY DEF OwnerInv, InTx
  <1>4. SlotInv'
    <2>1. Holders' = {}  BY DEF Holders, HasSlot
    <2>2. Cardinality(Holders') = 0  BY <2>1, FS_EmptySet
    <2>. QED  BY <2>2 DEF SlotInv, RecoverySlot
  <1>5. KnownInv'  BY DEF KnownInv, Unanswered
  <1>6. TableInv'  BY DEF TableInv, SettledBy
  <1>7. DiskInv'  BY DEF DiskInv, ProblemKept
  <1>8. ResultInv'  BY DEF ResultInv
  <1>9. CareInv'  BY DEF CareInv, InCare, Unsettled, Listing
  <1>. QED  BY <1>1, <1>2, <1>3, <1>4, <1>5, <1>6, <1>7, <1>8, <1>9

\* A restart takes over what the last process has left.
LEMMA RestartInv == ASSUME LifecycleInv, Restart PROVE LifecycleInv'
  <1>. USE LifecycleAssumption DEF Restart, LifecycleInv, TypeInv, LifecycleTypeOK,
              dbVars, poolVars, jobVars, recVars, histVars
  <1>1. TypeInv'  BY DEF ServerStates
  <1>2. ModeInv'  BY DEF ModeInv, Up, Down, Quiet, ServerStates
  <1>3. OwnerInv'  BY DEF OwnerInv, InTx
  <1>4. SlotInv'
    <2>1. recPc = "done"  BY DEF ModeInv, Down
    <2>. QED  BY <2>1 DEF SlotInv, RecoverySlot, Holders
  <1>5. KnownInv'  BY DEF KnownInv, Unanswered
  <1>6. TableInv'  BY DEF TableInv, SettledBy
  <1>7. DiskInv'  BY DEF DiskInv, ProblemKept
  <1>8. ResultInv'
    BY DEF ResultInv, ModeInv
  <1>9. CareInv'  BY DEF CareInv, InCare, Unsettled, Listing
  <1>. QED  BY <1>1, <1>2, <1>3, <1>4, <1>5, <1>6, <1>7, <1>8, <1>9

-----------------------------------------------------------------------------
(* The invariant and the properties.                                       *)

\* An empty database and an idle process.
LEMMA LifecycleInit == Init => LifecycleInv
  <1>. SUFFICES ASSUME Init PROVE LifecycleInv  OBVIOUS
  <1>. USE LifecycleAssumption DEF Init
  <1>1. TypeInv
    BY DEF TypeInv, LifecycleTypeOK, Tables, RowStates, ServerStates
  <1>2. SlotInv
    <2>1. Holders = {}  BY DEF Holders, HasSlot
    <2>2. Cardinality(Holders) = 0  BY <2>1, FS_EmptySet
    <2>. QED  BY <2>2 DEF SlotInv, RecoverySlot
  <1>3. ModeInv /\ OwnerInv
    BY DEF ModeInv, OwnerInv, InTx, Up, Down, Quiet
  <1>4. KnownInv /\ TableInv /\ DiskInv
    BY DEF KnownInv, Unanswered, TableInv, SettledBy, DiskInv, ProblemKept
  <1>5. ResultInv /\ CareInv
    BY DEF ResultInv, CareInv
  <1>. QED  BY <1>1, <1>2, <1>3, <1>4, <1>5 DEF LifecycleInv

\* Every step keeps the invariant.
LEMMA LifecycleNext == LifecycleInv /\ [Next]_vars => LifecycleInv'
  <1>. SUFFICES ASSUME LifecycleInv, [Next]_vars PROVE LifecycleInv'  OBVIOUS
  <1>1. ASSUME NEW t \in Tasks, Check(t) \/ RequestNext(t) PROVE LifecycleInv'
    BY <1>1, CheckInv, ReserveInv, PersistBodyInv, PersistCommitInv, PersistRollbackInv,
       ReleaseInv, HandOverInv DEF RequestNext
  <1>2. ASSUME NEW w \in Workers, WorkerNext(w) PROVE LifecycleInv'
    BY <1>2, PopInv, ReadInv, SettleBodyInv, SettleCommitInv, SettleRollbackInv, DeliverInv
       DEF WorkerNext
  <1>3. CASE RecoveryNext
    BY <1>3, ResetClaimsInv, ListPendingInv, ReserveSlotInv, ClaimStepInv, ClaimFinalizeInv,
       EnqueueInv, ReleaseSlotInv DEF RecoveryNext
  <1>4. CASE DeleteBody \/ DeleteEnd
    BY <1>4, DeleteBodyInv, DeleteEndInv
  <1>5. CASE Start \/ Stop \/ Exit \/ Crash \/ Restart
    BY <1>5, StartInv, StopInv, ExitInv, CrashInv, RestartInv
  <1>6. CASE UNCHANGED vars
    BY <1>6 DEF vars, LifecycleInv, TypeInv, LifecycleTypeOK, ModeInv, Up, Down, OwnerInv, InTx,
       SlotInv, Holders, RecoverySlot, KnownInv, TableInv, SettledBy, DiskInv, ProblemKept,
       ResultInv, CareInv, InCare, InPool, Current, Unsettled
  <1>. QED  BY <1>1, <1>2, <1>3, <1>4, <1>5, <1>6 DEF Next

\* The inductive invariant holds, whatever the scheduling, however many database
\* calls fail and whenever the process dies and is started again.
THEOREM LifecycleInvariant == Spec => []LifecycleInv
  BY LifecycleInit, LifecycleNext, PTL DEF Spec

\* An accepted submission is settled exactly once or still recoverable, also when
\* the claim of the recovery falls into the settling transaction of a worker or is
\* rolled back with it, and its problem is never deleted.
THEOREM TasksAreSettledOnce == Spec => []SettledOnce
  <1>1. LifecycleInv => SettledOnce
    BY DEF LifecycleInv, TypeInv, DiskInv, SettledOnce
  <1>. QED  BY <1>1, LifecycleInvariant, PTL

\* 200 is answered only for a committed submission, and a refused request is never
\* executed.
THEOREM AnswersAreAlwaysTrue == Spec => []AnswersAreTrue
  <1>1. LifecycleInv => AnswersAreTrue
    BY LifecycleAssumption DEF LifecycleInv, TypeInv, LifecycleTypeOK, KnownInv, Unanswered,
       ResultInv, AnswersAreTrue
  <1>. QED  BY <1>1, LifecycleInvariant, PTL

\* A stop in good order leaves unsettled only what a failure has left to the next
\* start: nothing is lost between the listing of the recovery, its claims, the
\* queue and the workers.
THEOREM StopAlwaysSettles == Spec => []StopSettles
  <1>1. ASSUME LifecycleInv PROVE StopSettles
    <2>. SUFFICES ASSUME server = "exited", NEW t \in Tasks, Unsettled(disk, t) PROVE t \in givenUp
      BY DEF StopSettles
    <2>1. /\ recPc = "done" /\ queue = <<>> /\ reqPc[t] \in Quiet
          /\ \A w \in Workers : workPc[w] = "idle"
      BY <1>1 DEF LifecycleInv, ModeInv, Up, Down
    <2>2. ~InPool(t)
      BY <1>1, <2>1, LifecycleAssumption DEF LifecycleInv, KnownInv, InPool
    <2>. QED  BY <1>1, <2>1, <2>2 DEF LifecycleInv, CareInv, InCare, Quiet, Listing
  <1>. QED  BY <1>1, LifecycleInvariant, PTL

=============================================================================
