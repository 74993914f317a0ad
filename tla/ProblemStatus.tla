---------------------------- MODULE ProblemStatus ----------------------------
(***************************************************************************)
(* The row of user_problem_status (solved or not, time of the first AC,    *)
(* number of submissions) for one user and one problem, kept next to the   *)
(* rows of submissions that it summarises.                                 *)
(*                                                                         *)
(* Settling a submission (submit/submit.cpp) inserts its row and updates   *)
(* the summary incrementally; tasks end in any order, not in the order of  *)
(* their submission times.  A rejudge (submit/rejudge.cpp, started by      *)
(* handle_admin_rejudge) rewrites a verdict and recomputes the summary     *)
(* from the table.  Both judge outside of the transaction, with the test   *)
(* cases they read before.  Each transaction is one step per write and one *)
(* for COMMIT or ROLLBACK; the other threads see what is not committed.    *)
(*                                                                         *)
(* Rows are never deleted and AUTOINCREMENT takes back the ids of a        *)
(* transaction that is rolled back: the table is a sequence, the id of a   *)
(* row its index.                                                          *)
(***************************************************************************)
EXTENDS Integers, Sequences, FiniteSets

CONSTANTS
    Submissions,  \* accepted submissions of one user for one problem
    Rejudgers,    \* threads that serve rejudge requests
    MaxTime,      \* bound: submission times are 1..MaxTime
    MaxEdits,     \* bound: how often the test cases change
    None          \* no owner, no target, no time

ASSUME StatusAssumption ==
    /\ IsFiniteSet(Submissions)
    /\ Submissions \cap Rejudgers = {}
    /\ MaxTime \in Nat \ {0}
    /\ MaxEdits \in Nat
    /\ None \notin Submissions \cup Rejudgers
    /\ None \notin Nat

Times == 1..MaxTime

\* A verdict of the judge: solved, failed, or an internal error.
Verdicts == {"AC", "failed", "SYSERR"}

VARIABLES
    created,   \* created_at of each submission: the time it was accepted
    work,      \* the tables as the connection sees them
    disk,      \* the tables as committed
    owner,     \* the thread inside a transaction (transaction_mutex), or None
    pc,        \* per thread: a worker settling a submission, or a rejudge
    target,    \* per rejudge, the id it was asked for
    result,    \* per thread, what was judged, the verdict and the test cases
    inFlight,  \* rejudge_in_flight_: ids being rejudged
    tests      \* version of the test cases

vars == <<created, work, disk, owner, pc, target, result, inFlight, tests>>

Threads == Submissions \cup Rejudgers
Rows == [submission : Submissions, created_at : Times, verdict : Verdicts, tests : 0..MaxEdits]
NoRow == [submission |-> None]

\* A summary without a row reads as: not solved, no time, no submission.
NoStatus == [accepted |-> FALSE, first |-> None, count |-> 0]

Init ==
    /\ created \in [Submissions -> Times]
    /\ work = [rows |-> <<>>, has |-> FALSE, status |-> NoStatus]
    /\ disk = work
    /\ owner = None
    /\ pc = [t \in Threads |-> "idle"]
    /\ target = [r \in Rejudgers |-> None]
    /\ result = [t \in Threads |-> NoRow]
    /\ inFlight = {}
    /\ tests = 0

Goto(t, to) == pc' = [pc EXCEPT ![t] = to]

\* The times of the AC rows.
SolvedTimes(tables) ==
    {tables.rows[i].created_at : i \in {j \in DOMAIN tables.rows : tables.rows[j].verdict = "AC"}}

-----------------------------------------------------------------------------
(* The two ways to a summary.                                              *)

\* Mutant of compute_status_update: the first AC that is settled fixes the time.
compute_status_update_FirstSettled(current, submission_accepted, submission_time) ==
    [accepted |-> current.accepted \/ submission_accepted,
     first    |-> IF ~current.accepted /\ submission_accepted THEN submission_time ELSE current.first,
     count    |-> current.count + 1]

\* Mutant of compute_status_update: the last submission decides.
compute_status_update_LastWins(current, submission_accepted, submission_time) ==
    [accepted |-> submission_accepted,
     first    |-> IF submission_accepted THEN submission_time ELSE None,
     count    |-> current.count + 1]

\* Once solved stays solved; the time is the earliest one of an AC.
compute_status_update(current, submission_accepted, submission_time) ==
    [accepted |-> current.accepted \/ submission_accepted,
     first    |-> IF submission_accepted /\ (~current.accepted \/ submission_time < current.first)
                  THEN submission_time
                  ELSE current.first,
     count    |-> current.count + 1]

\* recompute: SELECT MIN(created_at) over the AC rows; the count is kept, or
\* taken from the table when there is no summary yet.
recompute(tables, status) ==
    /\ status.accepted = (SolvedTimes(tables) # {})
    /\ IF SolvedTimes(tables) = {}
       THEN status.first = None
       ELSE /\ status.first \in SolvedTimes(tables)
            /\ \A time \in SolvedTimes(tables) : status.first <= time
    /\ status.count = IF tables.has THEN tables.status.count ELSE Len(tables.rows)

\* upsert of the summary, and a write to the submissions.
WithStatus(tables, status) == [rows |-> tables.rows, has |-> TRUE, status |-> status]
WithRows(tables, rows) == [rows |-> rows, has |-> tables.has, status |-> tables.status]

-----------------------------------------------------------------------------
(* Transactions on the shared connection.                                  *)

Begin(t, tables) ==
    /\ owner = None
    /\ owner' = t
    /\ work' = tables
    /\ UNCHANGED disk

Commit(t) ==
    /\ owner = t
    /\ pc[t] = "updated"
    /\ disk' = work
    /\ owner' = None
    /\ UNCHANGED work

\* A statement or COMMIT fails.
Rollback(t) ==
    /\ owner = t
    /\ pc[t] \in {"written", "updated"}
    /\ work' = disk
    /\ owner' = None
    /\ UNCHANGED disk

-----------------------------------------------------------------------------
(* Settling submission s.                                                  *)

\* SubmitService::submit reads the test cases and judges.
Judge(s) ==
    /\ pc[s] = "idle"
    /\ \E v \in Verdicts :
           result' = [result EXCEPT ![s] = [submission |-> s, created_at |-> created[s],
                                            verdict |-> v, tests |-> tests]]
    /\ Goto(s, "judged")
    /\ UNCHANGED <<created, work, disk, owner, target, inFlight, tests>>

\* BEGIN, the in-flight row goes, the row of submissions is inserted ...
Insert(s) ==
    /\ pc[s] = "judged"
    /\ Begin(s, WithRows(work, Append(work.rows, result[s])))
    /\ Goto(s, "written")
    /\ UNCHANGED <<created, target, result, inFlight, tests>>

\* ... and the summary is read, updated and written back.
UpdateStatus(s) ==
    /\ pc[s] = "written"
    /\ work' = WithStatus(work, compute_status_update(work.status, result[s].verdict = "AC", result[s].created_at))
    /\ Goto(s, "updated")
    /\ UNCHANGED <<created, disk, owner, target, result, inFlight, tests>>

SettleCommit(s) ==
    /\ Commit(s)
    /\ Goto(s, "done")
    /\ result' = [result EXCEPT ![s] = NoRow]
    /\ UNCHANGED <<created, target, inFlight, tests>>

\* The in-flight row is still there: the next start judges the task again.
SettleRollback(s) ==
    /\ Rollback(s)
    /\ Goto(s, "failed")
    /\ result' = [result EXCEPT ![s] = NoRow]
    /\ UNCHANGED <<created, target, inFlight, tests>>

-----------------------------------------------------------------------------
(* Rejudging.                                                              *)

\* Mutant of RejudgeStart: rejudges of one submission may overlap.
RejudgeStart_Unguarded(r) ==
    /\ pc[r] = "idle"
    /\ \E id \in DOMAIN work.rows :
           /\ inFlight' = inFlight \cup {id}
           /\ target' = [target EXCEPT ![r] = id]
    /\ Goto(r, "queued")
    /\ UNCHANGED <<created, work, disk, owner, result, tests>>

\* handle_admin_rejudge: the submission exists and is not being rejudged.
RejudgeStart(r) ==
    /\ pc[r] = "idle"
    /\ \E id \in DOMAIN work.rows \ inFlight :
           /\ inFlight' = inFlight \cup {id}
           /\ target' = [target EXCEPT ![r] = id]
    /\ Goto(r, "queued")
    /\ UNCHANGED <<created, work, disk, owner, result, tests>>

\* The request ends: ~RejudgeGuard.
RejudgeReturn(r) ==
    /\ Goto(r, "idle")
    /\ inFlight' = inFlight \ {target[r]}
    /\ target' = [target EXCEPT ![r] = None]
    /\ result' = [result EXCEPT ![r] = NoRow]

\* A worker reads the submission and the test cases, and judges.
RejudgeJudge(r) ==
    /\ pc[r] = "queued"
    /\ target[r] \in DOMAIN work.rows
    /\ \E v \in Verdicts \ {"SYSERR"} :
           LET original == work.rows[target[r]]
           IN  result' = [result EXCEPT ![r] = [submission |-> original.submission,
                                                created_at |-> original.created_at,
                                                verdict |-> v, tests |-> tests]]
    /\ Goto(r, "judged")
    /\ UNCHANGED <<created, work, disk, owner, target, inFlight, tests>>

\* The queue is full, the submission cannot be read or is not found, or the
\* verdict is SYSERR: the old result is kept.
RejudgeGiveUp(r) ==
    /\ pc[r] = "queued"
    /\ RejudgeReturn(r)
    /\ UNCHANGED <<created, work, disk, owner, tests>>

\* BEGIN; the id is looked up again; status, per_case and the rest of the
\* verdict are rewritten, the source code and the time are not.
RejudgeWrite(r) ==
    /\ pc[r] = "judged"
    /\ target[r] \in DOMAIN work.rows
    /\ LET old == work.rows[target[r]]
           row == [submission |-> old.submission, created_at |-> old.created_at,
                   verdict |-> result[r].verdict, tests |-> result[r].tests]
       IN  Begin(r, WithRows(work, [work.rows EXCEPT ![target[r]] = row]))
    /\ Goto(r, "written")
    /\ UNCHANGED <<created, target, result, inFlight, tests>>

\* BEGIN fails, or the id is not there any more and the rejudge rolls back.
RejudgeGone(r) ==
    /\ pc[r] = "judged"
    /\ owner = None
    /\ RejudgeReturn(r)
    /\ UNCHANGED <<created, work, disk, owner, tests>>

RejudgeRecompute(r) ==
    /\ pc[r] = "written"
    /\ \E first \in Times \cup {None}, accepted \in BOOLEAN, count \in 0..Cardinality(Submissions) :
           LET status == [accepted |-> accepted, first |-> first, count |-> count]
           IN  /\ recompute(work, status)
               /\ work' = WithStatus(work, status)
    /\ Goto(r, "updated")
    /\ UNCHANGED <<created, disk, owner, target, result, inFlight, tests>>

RejudgeCommit(r) ==
    /\ Commit(r)
    /\ RejudgeReturn(r)
    /\ UNCHANGED <<created, tests>>

RejudgeRollback(r) ==
    /\ Rollback(r)
    /\ RejudgeReturn(r)
    /\ UNCHANGED <<created, tests>>

-----------------------------------------------------------------------------
\* An administrator changes the test cases.
EditTests ==
    /\ tests < MaxEdits
    /\ tests' = tests + 1
    /\ UNCHANGED <<created, work, disk, owner, pc, target, result, inFlight>>

\* The process stops or crashes and starts again.  Rejudges are not persisted;
\* a submission without a row still has its in-flight row and is recovered.
Restart ==
    /\ work' = disk
    /\ owner' = None
    /\ pc' = [t \in Threads |-> IF \E i \in DOMAIN disk.rows : disk.rows[i].submission = t
                               THEN "done" ELSE "idle"]
    /\ target' = [r \in Rejudgers |-> None]
    /\ result' = [t \in Threads |-> NoRow]
    /\ inFlight' = {}
    /\ UNCHANGED <<created, disk, tests>>

SettleNext(s) == Judge(s) \/ Insert(s) \/ UpdateStatus(s) \/ SettleCommit(s) \/ SettleRollback(s)

RejudgeNext(r) ==
    \/ RejudgeStart(r) \/ RejudgeJudge(r) \/ RejudgeGiveUp(r) \/ RejudgeWrite(r) \/ RejudgeGone(r)
    \/ RejudgeRecompute(r) \/ RejudgeCommit(r) \/ RejudgeRollback(r)

Next ==
    \/ \E s \in Submissions : SettleNext(s)
    \/ \E r \in Rejudgers : RejudgeNext(r)
    \/ EditTests
    \/ Restart

Spec == Init /\ [][Next]_vars

-----------------------------------------------------------------------------
(* Properties.                                                             *)

Statuses == [accepted : BOOLEAN, first : Times \cup {None}, count : Nat]
Tables == [rows : Seq(Rows), has : BOOLEAN, status : Statuses]

PcStates == {"idle", "queued", "judged", "written", "updated", "done", "failed"}

StatusTypeOK ==
    /\ created \in [Submissions -> Times]
    /\ work \in Tables
    /\ disk \in Tables
    /\ owner \in Threads \cup {None}
    /\ pc \in [Threads -> PcStates]
    /\ target \in [Rejudgers -> Nat \cup {None}]
    /\ result \in [Threads -> Rows \cup {NoRow}]
    /\ inFlight \subseteq Nat
    /\ tests \in 0..MaxEdits

\* What the summary has to say about a table of submissions.
Summary(tables) ==
    LET status == tables.status
        times == SolvedTimes(tables)
    IN  /\ tables.has <=> Len(tables.rows) > 0
        /\ status.accepted <=> times # {}
        /\ times = {} => status.first = None
        /\ times # {} => status.first \in times /\ \A time \in times : status.first <= time
        /\ status.count = Len(tables.rows)

\* Whatever order submissions are settled in, and however rejudges, rollbacks
\* and restarts fall in between, the committed summary is the one of the
\* committed submissions: solved iff some submission is AC, since the earliest
\* AC by submission time, with every settled submission counted once (submit.cpp
\* and rejudge.cpp keep two different algorithms in agreement).
SummaryAgrees == Summary(disk)

\* Settling a submission never takes a solved problem away and never moves its
\* time forward; only a rejudge can.
SettlingKeepsSolved ==
    [][(\E s \in Submissions : SettleCommit(s)) =>
           (disk.status.accepted => disk'.status.accepted /\ disk'.status.first <= disk.status.first)]_vars

\* A rejudge of the submission that holds its id never commits a verdict of
\* older test cases than the verdict it replaces: rejudge_in_flight_ keeps a
\* slow rejudge from overtaking one that was asked for after the tests changed.
NoStaleVerdict ==
    [][\A r \in Rejudgers :
           RejudgeCommit(r) /\ disk.rows[target[r]].submission = result[r].submission =>
               disk'.rows[target[r]].tests >= disk.rows[target[r]].tests]_vars

-----------------------------------------------------------------------------
(* The inductive invariant behind the properties above.                    *)

InTransaction(t) == pc[t] \in {"written", "updated"}

\* Only the owner of the mutex is inside a transaction, and without one there
\* is nothing that is not committed.
OwnerInv ==
    /\ owner = None => work = disk
    /\ \A t \in Threads : InTransaction(t) <=> owner = t

\* What a thread has judged and still has to write.
ResultInv ==
    /\ \A s \in Submissions :
           pc[s] \in {"judged", "written", "updated"} => result[s] \in Rows /\ result[s].submission = s
    /\ \A r \in Rejudgers :
           pc[r] \in {"judged", "written", "updated"} => result[r] \in Rows /\ target[r] \in Nat

\* Half a transaction: the row is written, the summary is the committed one.
WrittenInv ==
    /\ \A s \in Submissions : pc[s] = "written" => work = WithRows(disk, Append(disk.rows, result[s]))
    /\ \A r \in Rejudgers : pc[r] = "written" =>
           /\ work.has = disk.has
           /\ work.status = disk.status
           /\ Len(work.rows) = Len(disk.rows)
           /\ Len(work.rows) > 0

\* Both halves: the summary fits again, and settling has only improved it.
UpdatedInv ==
    /\ \A t \in Threads : pc[t] = "updated" => Summary(work)
    /\ \A s \in Submissions : pc[s] = "updated" /\ disk.status.accepted =>
           work.status.accepted /\ work.status.first <= disk.status.first

StatusInv ==
    StatusTypeOK /\ OwnerInv /\ ResultInv /\ WrittenInv /\ UpdatedInv /\ SummaryAgrees

=============================================================================
