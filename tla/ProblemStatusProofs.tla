------------------------- MODULE ProblemStatusProofs -------------------------
(***************************************************************************)
(* Proofs about ProblemStatus, for any number of submissions, rejudging    *)
(* threads, times and changes of the test cases.                           *)
(***************************************************************************)
EXTENDS ProblemStatus, SequenceTheorems, TLAPS

-----------------------------------------------------------------------------
(* The table of submissions.                                               *)

\* A new row adds its time to the solved ones if it is AC, and nothing else
\* (SubmissionStore::insert next to the SELECT MIN of recompute).
LEMMA SolvedTimesAppend ==
    ASSUME NEW old \in Tables, NEW new \in Tables, NEW row \in Rows,
           new.rows = Append(old.rows, row)
    PROVE  /\ Len(new.rows) = Len(old.rows) + 1
           /\ SolvedTimes(new) = SolvedTimes(old) \cup
                  (IF row.verdict = "AC" THEN {row.created_at} ELSE {})
<1>1. old.rows \in Seq(Rows) /\ new.rows \in Seq(Rows)
  BY DEF Tables
<1>2. Len(new.rows) = Len(old.rows) + 1
  BY <1>1, AppendProperties
<1>3. \A i \in 1..Len(old.rows) : new.rows[i] = old.rows[i]
  BY <1>1, AppendProperties
<1>4. new.rows[Len(old.rows) + 1] = row
  BY <1>1, AppendProperties
<1>5. DOMAIN old.rows = 1..Len(old.rows) /\ DOMAIN new.rows = 1..(Len(old.rows) + 1) /\ Len(old.rows) \in Nat
  BY <1>1, <1>2, LenProperties
<1>6. ASSUME NEW time \in SolvedTimes(new)
      PROVE  time \in SolvedTimes(old) \/ (row.verdict = "AC" /\ time = row.created_at)
  <2>1. PICK i \in DOMAIN new.rows : new.rows[i].verdict = "AC" /\ time = new.rows[i].created_at
    BY <1>6 DEF SolvedTimes
  <2>2. CASE i \in 1..Len(old.rows)
    BY <2>1, <2>2, <1>3, <1>5 DEF SolvedTimes
  <2>3. CASE i = Len(old.rows) + 1
    BY <2>1, <2>3, <1>4
  <2> QED BY <2>1, <2>2, <2>3, <1>5
<1>7. ASSUME NEW time \in SolvedTimes(old)
      PROVE  time \in SolvedTimes(new)
  <2>1. PICK i \in DOMAIN old.rows : old.rows[i].verdict = "AC" /\ time = old.rows[i].created_at
    BY <1>7 DEF SolvedTimes
  <2>2. i \in DOMAIN new.rows /\ new.rows[i] = old.rows[i]
    BY <2>1, <1>3, <1>5
  <2> QED BY <2>1, <2>2 DEF SolvedTimes
<1>8. row.verdict = "AC" => row.created_at \in SolvedTimes(new)
  <2>1. Len(old.rows) + 1 \in DOMAIN new.rows
    BY <1>5
  <2> QED BY <2>1, <1>4 DEF SolvedTimes
<1> QED BY <1>2, <1>6, <1>7, <1>8

\* Solved times are times.
LEMMA SolvedTimesType ==
    ASSUME NEW tables \in Tables
    PROVE  SolvedTimes(tables) \subseteq Times
<1>1. tables.rows \in Seq(Rows)
  BY DEF Tables
<1>2. \A i \in DOMAIN tables.rows : tables.rows[i] \in Rows
  BY <1>1, ElementOfSeq, LenProperties
<1>3. \A i \in DOMAIN tables.rows : tables.rows[i].created_at \in Times
  BY <1>2 DEF Rows
<1> QED BY <1>3 DEF SolvedTimes

\* The incremental update keeps the summary of a table to which a row was added,
\* and only improves it (compute_status_update).
LEMMA UpdateKeepsSummary ==
    ASSUME NEW old \in Tables, NEW new \in Tables, NEW row \in Rows,
           Summary(old),
           new.rows = Append(old.rows, row),
           new.has = TRUE,
           new.status = compute_status_update(old.status, row.verdict = "AC", row.created_at)
    PROVE  /\ Summary(new)
           /\ old.status.accepted => new.status.accepted /\ new.status.first <= old.status.first
<1>1. /\ Len(new.rows) = Len(old.rows) + 1
      /\ SolvedTimes(new) = SolvedTimes(old) \cup
             (IF row.verdict = "AC" THEN {row.created_at} ELSE {})
  BY SolvedTimesAppend
<1>2. SolvedTimes(old) \subseteq Times /\ row.created_at \in Times /\ Len(old.rows) \in Nat
  BY SolvedTimesType, LenProperties DEF Tables, Rows
<1>3. Times \subseteq Int
  BY StatusAssumption DEF Times
<1> DEFINE time == row.created_at
<1>4. /\ new.status.accepted = (old.status.accepted \/ row.verdict = "AC")
      /\ new.status.first = IF row.verdict = "AC" /\ (~old.status.accepted \/ time < old.status.first)
                            THEN time ELSE old.status.first
      /\ new.status.count = old.status.count + 1
  BY DEF compute_status_update
<1>5. /\ old.status.accepted <=> SolvedTimes(old) # {}
      /\ SolvedTimes(old) = {} => old.status.first = None
      /\ SolvedTimes(old) # {} => /\ old.status.first \in SolvedTimes(old)
                                  /\ \A t \in SolvedTimes(old) : old.status.first <= t
      /\ old.status.count = Len(old.rows)
  BY DEF Summary
<1>6. old.status.accepted \in BOOLEAN
  BY DEF Tables, Statuses
<1> HIDE DEF time
<1>7. CASE row.verdict = "AC"
  <2>1. SolvedTimes(new) = SolvedTimes(old) \cup {time}
    BY <1>1, <1>7 DEF time
  <2>2. new.status.accepted = TRUE
    BY <1>4, <1>6, <1>7
  <2>3. time \in Int /\ SolvedTimes(old) \subseteq Int
    BY <1>2, <1>3 DEF time
  <2>4. CASE SolvedTimes(old) = {}
    <3>1. new.status.first = time
      BY <1>4, <1>5, <1>6, <1>7, <2>4
    <3>2. Summary(new)
      BY <3>1, <2>1, <2>2, <2>3, <2>4, <1>1, <1>2, <1>4, <1>5 DEF Summary
    <3> QED BY <3>2, <1>5, <2>4
  <2>5. CASE SolvedTimes(old) # {}
    <3>1. new.status.first = IF time < old.status.first THEN time ELSE old.status.first
      BY <1>4, <1>5, <1>6, <1>7, <2>5
    <3>2. old.status.first \in SolvedTimes(old) /\ old.status.first \in Int
      BY <1>5, <2>5, <2>3
    <3>3. new.status.first \in SolvedTimes(new) /\ new.status.first <= old.status.first
      BY <3>1, <3>2, <2>1, <2>3
    <3>4. \A t \in SolvedTimes(new) : new.status.first <= t
      BY <3>1, <3>2, <2>1, <2>3, <1>5, <2>5
    <3>5. Summary(new)
      BY <3>3, <3>4, <2>2, <1>1, <1>2, <1>4, <1>5 DEF Summary
    <3> QED BY <3>3, <3>5, <2>2
  <2> QED BY <2>4, <2>5
<1>8. CASE row.verdict # "AC"
  <2>1. SolvedTimes(new) = SolvedTimes(old) /\ new.status.first = old.status.first
        /\ new.status.accepted = old.status.accepted
    BY <1>1, <1>4, <1>6, <1>8
  <2>2. Summary(new)
    BY <2>1, <1>1, <1>2, <1>4, <1>5 DEF Summary
  <2>3. old.status.accepted => old.status.first \in Int
    BY <1>5, <1>2, <1>3
  <2> QED BY <2>1, <2>2, <2>3
<1> QED BY <1>7, <1>8

\* Recomputing gives the summary of the table, if the count was right.
LEMMA RecomputeIsSummary ==
    ASSUME NEW old \in Tables, NEW new \in Tables, NEW status \in Statuses,
           recompute(old, status),
           old.has => old.status.count = Len(old.rows),
           Len(old.rows) > 0,
           new = WithStatus(old, status)
    PROVE  Summary(new)
<1>1. new.rows = old.rows /\ new.has = TRUE /\ new.status = status
  BY DEF WithStatus
<1>2. SolvedTimes(new) = SolvedTimes(old)
  BY <1>1 DEF SolvedTimes
<1>3. old.has \in BOOLEAN /\ status.accepted \in BOOLEAN
  BY DEF Tables, Statuses
<1> QED BY <1>1, <1>2, <1>3 DEF Summary, recompute

\* Writing the rows or the summary changes nothing else.
LEMMA WithRowsFacts ==
    ASSUME NEW tables \in Tables, NEW rows \in Seq(Rows)
    PROVE  /\ WithRows(tables, rows) \in Tables
           /\ WithRows(tables, rows).rows = rows
           /\ WithRows(tables, rows).has = tables.has
           /\ WithRows(tables, rows).status = tables.status
  BY DEF WithRows, Tables

\* A write to the status row leaves the submissions as they are.
LEMMA WithStatusFacts ==
    ASSUME NEW tables \in Tables, NEW status \in Statuses
    PROVE  /\ WithStatus(tables, status) \in Tables
           /\ WithStatus(tables, status).rows = tables.rows
           /\ WithStatus(tables, status).has = TRUE
           /\ WithStatus(tables, status).status = status
  BY DEF WithStatus, Tables

\* The incremental update is well typed on a table whose summary is right.
LEMMA UpdateType ==
    ASSUME NEW tables \in Tables, NEW row \in Rows
    PROVE  compute_status_update(tables.status, row.verdict = "AC", row.created_at) \in Statuses
<1>1. tables.status \in Statuses /\ row.created_at \in Times
  BY DEF Tables, Rows
<1>2. tables.status.accepted \in BOOLEAN /\ tables.status.first \in Times \cup {None} /\ tables.status.count \in Nat
  BY <1>1 DEF Statuses
<1> QED BY <1>1, <1>2 DEF Statuses, compute_status_update

-----------------------------------------------------------------------------
(* The invariant.                                                          *)

\* A step that leaves the database alone, and every transaction that is open.
LEMMA QuietStep ==
    ASSUME StatusInv,
           UNCHANGED <<work, disk, owner>>,
           StatusTypeOK',
           \A t \in Threads : InTransaction(t) \/ InTransaction(t)' =>
               pc'[t] = pc[t] /\ result'[t] = result[t] /\ (t \in Rejudgers => target'[t] = target[t]),
           ResultInv'
    PROVE  StatusInv'
<1>1. OwnerInv'
  BY DEF StatusInv, OwnerInv, InTransaction
<1>2. WrittenInv'
  BY DEF StatusInv, WrittenInv, InTransaction, Threads
<1>3. UpdatedInv'
  BY DEF StatusInv, UpdatedInv, InTransaction, Threads
<1>4. SummaryAgrees'
  BY DEF StatusInv, SummaryAgrees
<1> QED BY <1>1, <1>2, <1>3, <1>4 DEF StatusInv

\* A verdict is made outside the tables and with the tests of the moment.
LEMMA JudgeStep ==
    ASSUME StatusInv, NEW s \in Submissions, Judge(s)
    PROVE  StatusInv'
<1> USE DEF StatusInv, Judge, Goto, Threads
<1>1. StatusTypeOK'
  BY StatusAssumption DEF StatusTypeOK, PcStates, Rows
<1>2. ResultInv'
  BY StatusAssumption DEF StatusTypeOK, ResultInv, Rows
<1>3. \A t \in Threads : InTransaction(t) \/ InTransaction(t)' =>
          pc'[t] = pc[t] /\ result'[t] = result[t] /\ (t \in Rejudgers => target'[t] = target[t])
  BY DEF StatusTypeOK, InTransaction
<1> QED BY <1>1, <1>2, <1>3, QuietStep

\* A rejudge chooses an existing row.
LEMMA RejudgeStartStep ==
    ASSUME StatusInv, NEW r \in Rejudgers, RejudgeStart(r)
    PROVE  StatusInv'
<1> USE DEF StatusInv, RejudgeStart, Goto, Threads
<1>1. DOMAIN work.rows \subseteq Nat
  BY LenProperties DEF StatusTypeOK, Tables
<1>2. StatusTypeOK'
  BY <1>1 DEF StatusTypeOK, PcStates
<1>3. ResultInv'
  BY StatusAssumption DEF StatusTypeOK, ResultInv
<1>4. \A t \in Threads : InTransaction(t) \/ InTransaction(t)' =>
          pc'[t] = pc[t] /\ result'[t] = result[t] /\ (t \in Rejudgers => target'[t] = target[t])
  BY DEF StatusTypeOK, InTransaction
<1> QED BY <1>2, <1>3, <1>4, QuietStep

\* The new verdict of a rejudge is about the submission of the chosen row.
LEMMA RejudgeJudgeStep ==
    ASSUME StatusInv, NEW r \in Rejudgers, RejudgeJudge(r)
    PROVE  StatusInv'
<1> USE DEF StatusInv, RejudgeJudge, Goto, Threads
<1>1. /\ work.rows[target[r]].submission \in Submissions
      /\ work.rows[target[r]].created_at \in Times
      /\ target[r] \in Nat
  <2>1. work.rows \in Seq(Rows) /\ target[r] \in DOMAIN work.rows
    BY DEF StatusTypeOK, Tables
  <2>2. work.rows[target[r]] \in Rows /\ target[r] \in Nat
    BY <2>1, ElementOfSeq, LenProperties
  <2> QED BY <2>2 DEF Rows
<1>2. PICK v \in Verdicts : result' = [result EXCEPT ![r] =
            [submission |-> work.rows[target[r]].submission, created_at |-> work.rows[target[r]].created_at,
             verdict |-> v, tests |-> tests]]
  OBVIOUS
<1>3. [submission |-> work.rows[target[r]].submission, created_at |-> work.rows[target[r]].created_at,
         verdict |-> v, tests |-> tests] \in Rows
  BY <1>1 DEF StatusTypeOK, Rows
<1>4. StatusTypeOK'
  BY <1>2, <1>3 DEF StatusTypeOK, PcStates
<1>5. ResultInv'
  BY <1>1, <1>2, <1>3, StatusAssumption DEF StatusTypeOK, ResultInv
<1>6. \A t \in Threads : InTransaction(t) \/ InTransaction(t)' =>
          pc'[t] = pc[t] /\ result'[t] = result[t] /\ (t \in Rejudgers => target'[t] = target[t])
  BY <1>2 DEF StatusTypeOK, InTransaction
<1> QED BY <1>4, <1>5, <1>6, QuietStep

\* A rejudge ends outside of a transaction.
LEMMA RejudgeEndStep ==
    ASSUME StatusInv, NEW r \in Rejudgers, RejudgeGiveUp(r) \/ RejudgeGone(r)
    PROVE  StatusInv'
<1> USE DEF StatusInv, RejudgeGiveUp, RejudgeGone, RejudgeReturn, Goto, Threads
<1>1. StatusTypeOK'
  BY DEF StatusTypeOK, PcStates
<1>2. ResultInv'
  BY StatusAssumption DEF StatusTypeOK, ResultInv
<1>3. \A t \in Threads : InTransaction(t) \/ InTransaction(t)' =>
          pc'[t] = pc[t] /\ result'[t] = result[t] /\ (t \in Rejudgers => target'[t] = target[t])
  BY DEF StatusTypeOK, InTransaction
<1> QED BY <1>1, <1>2, <1>3, QuietStep

\* The first write of a transaction: it starts from the committed tables.
LEMMA BeginFacts ==
    ASSUME StatusInv, NEW t \in Threads, NEW tables, Begin(t, tables), Goto(t, "written")
    PROVE  /\ work = disk
           /\ work' = tables
           /\ disk' = disk
           /\ OwnerInv'
           /\ \A q \in Threads : q # t => ~InTransaction(q) /\ ~InTransaction(q)' /\ pc'[q] = pc[q]
           /\ pc'[t] = "written"
<1> USE DEF StatusInv, Begin, Goto, OwnerInv, InTransaction
<1>1. work = disk /\ work' = tables /\ disk' = disk /\ \A q \in Threads : ~InTransaction(q)
  BY StatusAssumption DEF Threads
<1>2. pc'[t] = "written" /\ \A q \in Threads : q # t => pc'[q] = pc[q]
  BY DEF StatusTypeOK
<1>3. OwnerInv'
  BY <1>1, <1>2, StatusAssumption DEF Threads
<1> QED BY <1>1, <1>2, <1>3

\* The insert leaves the status one row behind, inside the transaction only.
LEMMA InsertStep ==
    ASSUME StatusInv, NEW s \in Submissions, Insert(s)
    PROVE  StatusInv'
<1>1. result[s] \in Rows /\ disk \in Tables /\ work = disk
  BY DEF StatusInv, StatusTypeOK, ResultInv, Insert, Begin, OwnerInv
<1>2. /\ work' = WithRows(disk, Append(disk.rows, result[s]))
      /\ disk' = disk
      /\ OwnerInv'
      /\ \A q \in Threads : q # s => ~InTransaction(q) /\ ~InTransaction(q)' /\ pc'[q] = pc[q]
      /\ pc'[s] = "written"
  BY <1>1, BeginFacts DEF Insert, Threads
<1>3. work' \in Tables
  <2>1. Append(disk.rows, result[s]) \in Seq(Rows)
    BY <1>1, AppendProperties DEF Tables
  <2> QED BY <1>1, <1>2, <2>1, WithRowsFacts
<1>4. StatusTypeOK'
  BY <1>2, <1>3 DEF StatusInv, StatusTypeOK, Insert, Begin, Goto, PcStates, Threads
<1>5. ResultInv'
  BY <1>2, StatusAssumption DEF StatusInv, ResultInv, Insert, Threads
<1>6. WrittenInv'
  BY <1>2, StatusAssumption DEF WrittenInv, InTransaction, Insert, Threads
<1>7. UpdatedInv'
  BY <1>2, StatusAssumption DEF UpdatedInv, InTransaction, Threads
<1>8. SummaryAgrees'
  BY <1>2 DEF StatusInv, SummaryAgrees
<1> QED BY <1>2, <1>4, <1>5, <1>6, <1>7, <1>8 DEF StatusInv

\* The overwritten row leaves the status behind, inside the transaction only.
LEMMA RejudgeWriteStep ==
    ASSUME StatusInv, NEW r \in Rejudgers, RejudgeWrite(r)
    PROVE  StatusInv'
<1> DEFINE row == [submission |-> work.rows[target[r]].submission,
                   created_at |-> work.rows[target[r]].created_at,
                   verdict |-> result[r].verdict, tests |-> result[r].tests]
           rows == [work.rows EXCEPT ![target[r]] = row]
<1>1. result[r] \in Rows /\ work \in Tables /\ target[r] \in DOMAIN work.rows
  BY DEF StatusInv, StatusTypeOK, ResultInv, RejudgeWrite
<1>2. /\ work = disk
      /\ work' = WithRows(work, rows)
      /\ disk' = disk
      /\ OwnerInv'
      /\ \A q \in Threads : q # r => ~InTransaction(q) /\ ~InTransaction(q)' /\ pc'[q] = pc[q]
      /\ pc'[r] = "written"
  BY BeginFacts DEF RejudgeWrite, Threads
<1>3. work.rows \in Seq(Rows)
  BY <1>1 DEF Tables
<1>4. row \in Rows
  <2>1. target[r] \in 1..Len(work.rows)
    BY <1>1, <1>3, LenProperties
  <2>2. work.rows[target[r]] \in Rows
    BY <1>3, <2>1, ElementOfSeq
  <2>3. /\ work.rows[target[r]].submission \in Submissions
        /\ work.rows[target[r]].created_at \in Times
    BY <2>2 DEF Rows
  <2>4. result[r].verdict \in Verdicts /\ result[r].tests \in 0..MaxEdits
    BY <1>1 DEF Rows
  <2> QED BY <2>3, <2>4 DEF Rows
<1>5. rows \in Seq(Rows) /\ Len(rows) = Len(work.rows) /\ Len(work.rows) > 0
  <2>1. target[r] \in 1..Len(work.rows) /\ Len(work.rows) \in Nat
    BY <1>1, <1>3, LenProperties
  <2> HIDE DEF row
  <2> QED BY <1>3, <1>4, <2>1, ExceptSeq
<1> HIDE DEF rows
<1>6. work' \in Tables /\ work'.rows = rows /\ work'.has = disk.has /\ work'.status = disk.status
  BY <1>1, <1>2, <1>5, WithRowsFacts
<1>7. StatusTypeOK'
  BY <1>2, <1>6 DEF StatusInv, StatusTypeOK, RejudgeWrite, Begin, Goto, PcStates, Threads
<1>8. ResultInv'
  BY <1>2, StatusAssumption DEF StatusInv, ResultInv, RejudgeWrite, Threads
<1>9. WrittenInv'
  BY <1>2, <1>5, <1>6, StatusAssumption DEF WrittenInv, InTransaction, Threads
<1>10. UpdatedInv'
  BY <1>2, StatusAssumption DEF UpdatedInv, InTransaction, Threads
<1>11. SummaryAgrees'
  BY <1>2 DEF StatusInv, SummaryAgrees
<1> QED BY <1>2, <1>7, <1>8, <1>9, <1>10, <1>11 DEF StatusInv

\* The second write of a transaction.
LEMMA SecondWriteFacts ==
    ASSUME StatusInv, NEW t \in Threads, pc[t] = "written", Goto(t, "updated"), owner' = owner
    PROVE  /\ owner = t
           /\ OwnerInv'
           /\ \A q \in Threads : q # t => ~InTransaction(q) /\ ~InTransaction(q)' /\ pc'[q] = pc[q]
           /\ pc'[t] = "updated"
<1>1. owner = t /\ \A q \in Threads : q # t => ~InTransaction(q)
  BY DEF StatusInv, OwnerInv, InTransaction
<1>2. pc'[t] = "updated" /\ \A q \in Threads : q # t => pc'[q] = pc[q]
  BY DEF StatusInv, StatusTypeOK, Goto
<1>3. OwnerInv'
  BY <1>1, <1>2, StatusAssumption DEF OwnerInv, InTransaction, Threads
<1> QED BY <1>1, <1>2, <1>3 DEF InTransaction

\* After the insert the incremental update makes the status the summary again.
LEMMA UpdateStatusStep ==
    ASSUME StatusInv, NEW s \in Submissions, UpdateStatus(s)
    PROVE  StatusInv'
<1> DEFINE status == compute_status_update(work.status, result[s].verdict = "AC", result[s].created_at)
<1>1. /\ result[s] \in Rows
      /\ disk \in Tables
      /\ work \in Tables
      /\ Summary(disk)
      /\ work = WithRows(disk, Append(disk.rows, result[s]))
  BY DEF StatusInv, StatusTypeOK, ResultInv, WrittenInv, SummaryAgrees, UpdateStatus
<1>2. /\ OwnerInv'
      /\ \A q \in Threads : q # s => ~InTransaction(q) /\ ~InTransaction(q)' /\ pc'[q] = pc[q]
      /\ pc'[s] = "updated"
  BY SecondWriteFacts DEF UpdateStatus, Threads
<1>3. work.rows = Append(disk.rows, result[s]) /\ work.status = disk.status
  <2>1. Append(disk.rows, result[s]) \in Seq(Rows)
    BY <1>1, AppendProperties DEF Tables
  <2> QED BY <1>1, <2>1, WithRowsFacts
<1>4. status \in Statuses
  BY <1>1, UpdateType
<1>5. work' = WithStatus(work, status) /\ disk' = disk
  BY DEF UpdateStatus
<1> HIDE DEF status
<1>6. work' \in Tables /\ work'.rows = work.rows /\ work'.has = TRUE /\ work'.status = status
  BY <1>1, <1>4, <1>5, WithStatusFacts
<1>7. Summary(work') /\ (disk.status.accepted => work'.status.accepted /\ work'.status.first <= disk.status.first)
  BY <1>1, <1>3, <1>6, UpdateKeepsSummary DEF status
<1>8. StatusTypeOK'
  BY <1>5, <1>6 DEF StatusInv, StatusTypeOK, UpdateStatus, Goto, PcStates, Threads
<1>9. ResultInv'
  BY <1>2, StatusAssumption DEF StatusInv, ResultInv, UpdateStatus, Threads
<1>10. WrittenInv'
  BY <1>2, StatusAssumption DEF WrittenInv, InTransaction, Threads
<1>11. UpdatedInv'
  BY <1>2, <1>5, <1>7, StatusAssumption DEF UpdatedInv, InTransaction, Threads
<1>12. SummaryAgrees'
  BY <1>1, <1>5 DEF SummaryAgrees
<1> QED BY <1>2, <1>8, <1>9, <1>10, <1>11, <1>12 DEF StatusInv

\* After the overwrite the recomputation makes the status the summary again.
LEMMA RejudgeRecomputeStep ==
    ASSUME StatusInv, NEW r \in Rejudgers, RejudgeRecompute(r)
    PROVE  StatusInv'
<1>1. /\ disk \in Tables
      /\ work \in Tables
      /\ Summary(disk)
      /\ work.has = disk.has
      /\ work.status = disk.status
      /\ Len(work.rows) = Len(disk.rows)
      /\ Len(work.rows) > 0
  BY DEF StatusInv, StatusTypeOK, WrittenInv, SummaryAgrees, RejudgeRecompute
<1>2. /\ OwnerInv'
      /\ \A q \in Threads : q # r => ~InTransaction(q) /\ ~InTransaction(q)' /\ pc'[q] = pc[q]
      /\ pc'[r] = "updated"
  BY SecondWriteFacts DEF RejudgeRecompute, Threads
<1>3. PICK status \in Statuses : recompute(work, status) /\ work' = WithStatus(work, status)
  <2>1. PICK first \in Times \cup {None}, accepted \in BOOLEAN, count \in 0..Cardinality(Submissions) :
            LET status == [accepted |-> accepted, first |-> first, count |-> count]
            IN  recompute(work, status) /\ work' = WithStatus(work, status)
    BY DEF RejudgeRecompute
  <2>2. [accepted |-> accepted, first |-> first, count |-> count] \in Statuses
    BY DEF Statuses
  <2> QED BY <2>1, <2>2
<1>4. disk' = disk /\ work' \in Tables
  BY <1>1, <1>3, WithStatusFacts DEF RejudgeRecompute
<1>5. Summary(work')
  <2>1. work.status.count = Len(work.rows)
    BY <1>1 DEF Summary
  <2> QED BY <1>1, <1>3, <1>4, <2>1, RecomputeIsSummary
<1>6. StatusTypeOK'
  BY <1>4 DEF StatusInv, StatusTypeOK, RejudgeRecompute, Goto, PcStates, Threads
<1>7. ResultInv'
  BY <1>2, StatusAssumption DEF StatusInv, ResultInv, RejudgeRecompute, Threads
<1>8. WrittenInv'
  BY <1>2, StatusAssumption DEF WrittenInv, InTransaction, Threads
<1>9. UpdatedInv'
  BY <1>2, <1>4, <1>5, StatusAssumption DEF UpdatedInv, InTransaction, Threads
<1>10. SummaryAgrees'
  BY <1>1, <1>4 DEF SummaryAgrees
<1> QED BY <1>2, <1>6, <1>7, <1>8, <1>9, <1>10 DEF StatusInv

\* COMMIT or ROLLBACK: no transaction is left.
LEMMA EndStep ==
    ASSUME StatusInv, StatusTypeOK',
           owner' = None, work' = disk', Summary(disk'),
           \A t \in Threads : ~InTransaction(t)',
           ResultInv'
    PROVE  StatusInv'
<1>1. OwnerInv'
  BY StatusAssumption DEF OwnerInv, Threads
<1>2. WrittenInv' /\ UpdatedInv'
  BY DEF WrittenInv, UpdatedInv, InTransaction, Threads
<1> QED BY <1>1, <1>2 DEF StatusInv, SummaryAgrees

\* A settlement ends with a status that summarises the rows, kept or undone.
LEMMA SettleEndStep ==
    ASSUME StatusInv, NEW s \in Submissions, SettleCommit(s) \/ SettleRollback(s)
    PROVE  StatusInv'
<1> USE DEF StatusInv, SettleCommit, SettleRollback, Commit, Rollback, Goto
<1>1. StatusTypeOK'
  BY DEF StatusTypeOK, PcStates, Threads
<1>2. owner' = None /\ work' = disk' /\ Summary(disk')
  BY DEF UpdatedInv, SummaryAgrees, Threads
<1>3. \A t \in Threads : ~InTransaction(t)'
  BY DEF OwnerInv, InTransaction, StatusTypeOK, Threads
<1>4. ResultInv'
  BY StatusAssumption DEF ResultInv, StatusTypeOK, Threads
<1> QED BY <1>1, <1>2, <1>3, <1>4, EndStep

\* A rejudge ends with a status that summarises the rows, kept or undone.
LEMMA RejudgeFinishStep ==
    ASSUME StatusInv, NEW r \in Rejudgers, RejudgeCommit(r) \/ RejudgeRollback(r)
    PROVE  StatusInv'
<1> USE DEF StatusInv, RejudgeCommit, RejudgeRollback, RejudgeReturn, Commit, Rollback, Goto
<1>1. StatusTypeOK'
  BY DEF StatusTypeOK, PcStates, Threads
<1>2. owner' = None /\ work' = disk' /\ Summary(disk')
  BY DEF UpdatedInv, SummaryAgrees, Threads
<1>3. \A t \in Threads : ~InTransaction(t)'
  BY DEF OwnerInv, InTransaction, StatusTypeOK, Threads
<1>4. ResultInv'
  BY StatusAssumption DEF ResultInv, StatusTypeOK, Threads
<1> QED BY <1>1, <1>2, <1>3, <1>4, EndStep

\* A restart falls back to the committed tables.
LEMMA RestartStep ==
    ASSUME StatusInv, Restart
    PROVE  StatusInv'
<1> USE DEF StatusInv, Restart
<1>1. StatusTypeOK'
  BY DEF StatusTypeOK, PcStates
<1>2. owner' = None /\ work' = disk' /\ Summary(disk')
  BY DEF SummaryAgrees
<1>3. \A t \in Threads : ~InTransaction(t)'
  BY DEF InTransaction
<1>4. ResultInv'
  BY DEF ResultInv, Threads
<1> QED BY <1>1, <1>2, <1>3, <1>4, EndStep

\* An edit of the tests touches neither the rows nor the status.
LEMMA EditTestsStep ==
    ASSUME StatusInv, EditTests
    PROVE  StatusInv'
<1> USE DEF StatusInv, EditTests
<1>1. StatusTypeOK'
  BY StatusAssumption DEF StatusTypeOK
<1>2. ResultInv'
  BY DEF ResultInv
<1> QED BY <1>1, <1>2, QuietStep DEF InTransaction

\* The empty tables have no status row and nothing to summarise.
LEMMA InitStatus == Init => StatusInv
<1> SUFFICES ASSUME Init PROVE StatusInv
  OBVIOUS
<1> USE DEF Init
<1>1. <<>> \in Seq(Rows) /\ Len(<<>>) = 0 /\ DOMAIN <<>> = {}
  BY EmptySeq, LenProperties
<1>2. work \in Tables /\ work = disk
  BY <1>1, StatusAssumption DEF Tables, Statuses, NoStatus
<1>3. StatusTypeOK
  BY <1>2, StatusAssumption DEF StatusTypeOK, PcStates
<1>4. Summary(disk)
  BY <1>1 DEF Summary, SolvedTimes, NoStatus
<1>5. OwnerInv /\ ResultInv /\ WrittenInv /\ UpdatedInv
  BY <1>2, StatusAssumption DEF OwnerInv, ResultInv, WrittenInv, UpdatedInv, InTransaction, Threads
<1> QED BY <1>3, <1>4, <1>5 DEF StatusInv, SummaryAgrees

\* Every step of a settlement, of a rejudge and of the environment keeps StatusInv.
LEMMA NextStatus ==
    ASSUME StatusInv, [Next]_vars
    PROVE  StatusInv'
<1>1. ASSUME NEW s \in Submissions, SettleNext(s) PROVE StatusInv'
  BY <1>1, JudgeStep, InsertStep, UpdateStatusStep, SettleEndStep DEF SettleNext
<1>2. ASSUME NEW r \in Rejudgers, RejudgeNext(r) PROVE StatusInv'
  BY <1>2, RejudgeStartStep, RejudgeJudgeStep, RejudgeEndStep, RejudgeWriteStep,
     RejudgeRecomputeStep, RejudgeFinishStep DEF RejudgeNext
<1>3. CASE UNCHANGED vars
  <2>1. StatusTypeOK' /\ ResultInv'
    BY <1>3 DEF vars, StatusInv, StatusTypeOK, ResultInv
  <2> QED BY <1>3, <2>1, QuietStep DEF vars, InTransaction
<1> QED BY <1>1, <1>2, <1>3, EditTestsStep, RestartStep DEF Next

-----------------------------------------------------------------------------
(* The invariant behind NoStaleVerdict: what was judged outside of a       *)
(* transaction is still fresh when it is written.                          *)

Rejudging(r) == pc[r] \in {"queued", "judged", "written", "updated"}
Verdicted(t) == pc[t] \in {"judged", "written", "updated"}

\* What a rejudge writes into its row.
NewRow(r) ==
    [submission |-> disk.rows[target[r]].submission, created_at |-> disk.rows[target[r]].created_at,
     verdict |-> result[r].verdict, tests |-> result[r].tests]

\* rejudge_in_flight_ has the row of every rejudge, and no two have the same.
ClaimInv ==
    \A r \in Rejudgers : Rejudging(r) =>
        /\ target[r] \in inFlight
        /\ \A q \in Rejudgers : Rejudging(q) /\ target[q] = target[r] => q = r

\* The rows of a transaction: the committed ones and one more, or one rewritten.
RowsInv ==
    /\ \A s \in Submissions : InTransaction(s) => work.rows = Append(disk.rows, result[s])
    /\ \A r \in Rejudgers : InTransaction(r) =>
           /\ target[r] \in DOMAIN disk.rows
           /\ work.rows = [disk.rows EXCEPT ![target[r]] = NewRow(r)]

\* A committed row is of a submission that is settled, and no verdict is from
\* test cases that are still to come.
AgeInv ==
    /\ \A i \in DOMAIN disk.rows : pc[disk.rows[i].submission] = "done" /\ disk.rows[i].tests <= tests
    /\ \A t \in Threads : Verdicted(t) => result[t].tests <= tests

\* What a rejudge has judged was in the table then, committed or not; if it is
\* the row that now has the id, its verdict is not newer.
FreshInv ==
    \A r \in Rejudgers : Verdicted(r) =>
        /\ pc[result[r].submission] \notin {"idle", "judged"}
        /\ InTransaction(result[r].submission) => result[result[r].submission].tests <= result[r].tests
        /\ target[r] \in DOMAIN disk.rows /\ disk.rows[target[r]].submission = result[r].submission =>
               disk.rows[target[r]].tests <= result[r].tests

VerdictInv == ClaimInv /\ RowsInv /\ AgeInv /\ FreshInv

\* The rows of both tables are typed.
LEMMA RowFacts ==
    ASSUME StatusInv
    PROVE  /\ disk.rows \in Seq(Rows) /\ work.rows \in Seq(Rows)
           /\ DOMAIN disk.rows = 1..Len(disk.rows) /\ Len(disk.rows) \in Nat
           /\ DOMAIN work.rows = 1..Len(work.rows) /\ Len(work.rows) \in Nat
           /\ \A i \in DOMAIN disk.rows : disk.rows[i].submission \in Submissions /\ disk.rows[i].tests \in Nat
           /\ \A i \in DOMAIN work.rows : work.rows[i].submission \in Submissions /\ work.rows[i].tests \in Nat
<1>1. disk.rows \in Seq(Rows) /\ work.rows \in Seq(Rows)
  BY DEF StatusInv, StatusTypeOK, Tables
<1>2. /\ DOMAIN disk.rows = 1..Len(disk.rows) /\ Len(disk.rows) \in Nat
      /\ DOMAIN work.rows = 1..Len(work.rows) /\ Len(work.rows) \in Nat
  BY <1>1, LenProperties
<1>3. \A i \in DOMAIN disk.rows : disk.rows[i] \in Rows
  BY <1>1, <1>2, ElementOfSeq
<1>4. \A i \in DOMAIN work.rows : work.rows[i] \in Rows
  BY <1>1, <1>2, ElementOfSeq
<1>5. \A row \in Rows : row.submission \in Submissions /\ row.tests \in Nat
  BY StatusAssumption DEF Rows
<1> QED BY <1>1, <1>2, <1>3, <1>4, <1>5

\* Threads are of one kind, and the states of a rejudge are not those of None.
LEMMA VerdictTypes ==
    ASSUME StatusInv
    PROVE  /\ pc \in [Threads -> PcStates] /\ target \in [Rejudgers -> Nat \cup {None}]
           /\ result \in [Threads -> Rows \cup {NoRow}] /\ tests \in Nat /\ inFlight \subseteq Nat
           /\ \A s \in Submissions : s \notin Rejudgers /\ s # None
           /\ \A r \in Rejudgers : r \notin Submissions /\ r # None
           /\ \A s \in Submissions : pc[s] = "judged" \/ InTransaction(s) =>
                  result[s].submission = s /\ result[s].tests \in Nat
           /\ \A r \in Rejudgers : Verdicted(r) =>
                  /\ result[r].submission \in Submissions /\ result[r].tests \in Nat
                  /\ target[r] \in Nat
<1>1. \A row \in Rows : row.submission \in Submissions /\ row.tests \in Nat
  BY StatusAssumption DEF Rows
<1> QED BY <1>1, StatusAssumption DEF StatusInv, StatusTypeOK, ResultInv, Verdicted, InTransaction

\* What can be read of the table is of a submission that is being settled or is
\* settled.
LEMMA VisibleRows ==
    ASSUME StatusInv, VerdictInv, NEW i \in DOMAIN work.rows
    PROVE  pc[work.rows[i].submission] \in {"written", "updated", "done"}
<1>1. CASE owner = None
  BY <1>1 DEF StatusInv, OwnerInv, VerdictInv, AgeInv
<1>2. CASE owner \in Submissions
  <2>1. InTransaction(owner) /\ work.rows = Append(disk.rows, result[owner]) /\ result[owner] \in Rows
    BY <1>2 DEF StatusInv, OwnerInv, VerdictInv, RowsInv, Threads, ResultInv, InTransaction
  <2>2. CASE i \in DOMAIN disk.rows
    <3>1. work.rows[i] = disk.rows[i]
      BY <2>1, <2>2, RowFacts, AppendProperties
    <3> QED BY <2>2, <3>1 DEF VerdictInv, AgeInv
  <2>3. CASE i \notin DOMAIN disk.rows
    <3>1. i = Len(disk.rows) + 1 /\ work.rows[i] = result[owner]
      BY <2>1, <2>3, RowFacts, AppendProperties
    <3> QED BY <1>2, <2>1, <3>1 DEF StatusInv, ResultInv, InTransaction
  <2> QED BY <2>2, <2>3
<1>3. CASE owner \in Rejudgers
  <2>1. /\ InTransaction(owner) /\ target[owner] \in DOMAIN disk.rows
        /\ work.rows = [disk.rows EXCEPT ![target[owner]] = NewRow(owner)]
    BY <1>3 DEF StatusInv, OwnerInv, VerdictInv, RowsInv, Threads
  <2>2. i \in DOMAIN disk.rows /\ work.rows[i].submission = disk.rows[i].submission
    BY <2>1, RowFacts DEF NewRow
  <2> QED BY <2>2 DEF VerdictInv, AgeInv
<1> QED BY <1>1, <1>2, <1>3 DEF StatusInv, StatusTypeOK, Threads

\* A worker judges a submission that no rejudge has seen yet.
LEMMA JudgeVerdict ==
    ASSUME StatusInv, VerdictInv, NEW s \in Submissions, Judge(s)
    PROVE  VerdictInv'
<1> USE DEF Judge, Goto, InTransaction, Verdicted, Rejudging
<1>0. /\ pc[s] = "idle" /\ pc' = [pc EXCEPT ![s] = "judged"] /\ disk' = disk /\ work' = work
      /\ target' = target /\ inFlight' = inFlight /\ tests' = tests
      /\ result'[s].tests = tests /\ \A t \in Threads \ {s} : result'[t] = result[t]
  BY VerdictTypes DEF Threads
<1>1. ASSUME NEW t \in Threads, t # s PROVE pc'[t] = pc[t] /\ result'[t] = result[t]
  BY <1>0, <1>1, VerdictTypes
<1>2. s \in Threads /\ pc'[s] = "judged" /\ Rejudgers \subseteq Threads /\ Submissions \subseteq Threads /\ s \notin Rejudgers
  BY <1>0, VerdictTypes DEF Threads
<1>3. ClaimInv'
  BY <1>0, <1>1, <1>2 DEF VerdictInv, ClaimInv
<1>4. RowsInv'
  BY <1>0, <1>1, <1>2 DEF VerdictInv, RowsInv, NewRow
<1>5. AgeInv'
  <2>1. \A i \in DOMAIN disk.rows : disk.rows[i].submission # s
    BY <1>0 DEF VerdictInv, AgeInv
  <2> QED BY <1>0, <1>1, <1>2, <2>1, RowFacts, VerdictTypes DEF VerdictInv, AgeInv
<1>6. FreshInv'
  <2>1. \A r \in Rejudgers : Verdicted(r) => result[r].submission # s /\ result[r].submission \in Submissions
    BY <1>0, VerdictTypes DEF VerdictInv, FreshInv
  <2> QED BY <1>0, <1>1, <1>2, <2>1 DEF VerdictInv, FreshInv
<1> QED BY <1>3, <1>4, <1>5, <1>6 DEF VerdictInv

\* The insert: no rejudge has judged that submission yet.
LEMMA InsertVerdict ==
    ASSUME StatusInv, VerdictInv, NEW s \in Submissions, Insert(s)
    PROVE  VerdictInv'
<1> USE DEF InTransaction, Verdicted, Rejudging
<1>0. /\ pc[s] = "judged" /\ pc' = [pc EXCEPT ![s] = "written"] /\ disk' = disk /\ owner = None
      /\ target' = target /\ inFlight' = inFlight /\ tests' = tests /\ result' = result
  BY DEF Insert, Begin, Goto
<1>1. work'.rows = Append(disk.rows, result[s])
  BY DEF Insert, Begin, WithRows, StatusInv, OwnerInv
<1>2. ASSUME NEW t \in Threads, t # s PROVE pc'[t] = pc[t] /\ ~InTransaction(t)
  BY <1>0, <1>2, VerdictTypes, StatusAssumption DEF StatusInv, OwnerInv, Threads
<1>3. s \in Threads /\ pc'[s] = "written" /\ Rejudgers \subseteq Threads /\ Submissions \subseteq Threads /\ s \notin Rejudgers
  BY <1>0, VerdictTypes DEF Threads
<1>4. ClaimInv'
  BY <1>0, <1>2, <1>3 DEF VerdictInv, ClaimInv
<1>5. RowsInv'
  BY <1>0, <1>1, <1>2, <1>3 DEF VerdictInv, RowsInv
<1>6. AgeInv'
  <2>1. \A i \in DOMAIN disk.rows : disk.rows[i].submission # s
    BY <1>0 DEF VerdictInv, AgeInv
  <2> QED BY <1>0, <1>2, <1>3, <2>1, RowFacts DEF VerdictInv, AgeInv
<1>7. FreshInv'
  <2>1. \A r \in Rejudgers : Verdicted(r) => result[r].submission # s /\ result[r].submission \in Submissions
    BY <1>0, VerdictTypes DEF VerdictInv, FreshInv
  <2> QED BY <1>0, <1>2, <1>3, <2>1 DEF VerdictInv, FreshInv
<1> QED BY <1>4, <1>5, <1>6, <1>7 DEF VerdictInv

\* The update of the summary, by a settlement or by a rejudge, leaves the rows.
LEMMA SummaryVerdict ==
    ASSUME StatusInv, VerdictInv, NEW t \in Threads, pc[t] = "written", pc' = [pc EXCEPT ![t] = "updated"],
           work'.rows = work.rows, disk' = disk, target' = target, inFlight' = inFlight, tests' = tests,
           result' = result
    PROVE  VerdictInv'
<1> USE DEF InTransaction, Verdicted, Rejudging
<1>1. pc'[t] = "updated" /\ \A u \in Threads \ {t} : pc'[u] = pc[u]
  BY VerdictTypes
<1>2. Rejudgers \subseteq Threads /\ Submissions \subseteq Threads
  BY DEF Threads
<1>3. ClaimInv'
  BY <1>1, <1>2 DEF VerdictInv, ClaimInv
<1>4. RowsInv'
  BY <1>1, <1>2 DEF VerdictInv, RowsInv, NewRow
<1>5. AgeInv'
  <2>1. \A i \in DOMAIN disk.rows : disk.rows[i].submission # t
    BY DEF VerdictInv, AgeInv
  <2> QED BY <1>1, <1>2, <2>1, RowFacts DEF VerdictInv, AgeInv
<1>6. FreshInv'
  BY <1>1, <1>2, VerdictTypes DEF VerdictInv, FreshInv
<1> QED BY <1>3, <1>4, <1>5, <1>6 DEF VerdictInv

\* A settlement commits: the new row may be the one a rejudge has read before.
LEMMA CommitVerdict ==
    ASSUME StatusInv, VerdictInv, NEW s \in Submissions, SettleCommit(s)
    PROVE  VerdictInv'
<1> USE DEF InTransaction, Verdicted, Rejudging
<1>0. /\ pc[s] = "updated" /\ pc' = [pc EXCEPT ![s] = "done"] /\ disk' = work /\ work' = work /\ owner = s
      /\ target' = target /\ inFlight' = inFlight /\ tests' = tests
      /\ \A t \in Threads \ {s} : result'[t] = result[t]
  BY VerdictTypes DEF SettleCommit, Commit, Goto, Threads
<1>1. ASSUME NEW t \in Threads, t # s PROVE pc'[t] = pc[t] /\ ~InTransaction(t) /\ result'[t] = result[t]
  BY <1>0, <1>1, VerdictTypes DEF StatusInv, OwnerInv
<1>2. s \in Threads /\ pc'[s] = "done" /\ Rejudgers \subseteq Threads /\ Submissions \subseteq Threads /\ s \notin Rejudgers
  BY <1>0, VerdictTypes DEF Threads
<1>3. disk'.rows = Append(disk.rows, result[s]) /\ result[s].submission = s /\ result[s].tests <= tests /\ result[s] \in Rows
  BY <1>0, <1>2 DEF VerdictInv, RowsInv, AgeInv, StatusInv, ResultInv
<1>4. /\ DOMAIN disk'.rows = 1..(Len(disk.rows) + 1) /\ DOMAIN disk.rows = 1..Len(disk.rows) /\ Len(disk.rows) \in Nat
      /\ \A i \in DOMAIN disk.rows : disk'.rows[i] = disk.rows[i]
      /\ disk'.rows[Len(disk.rows) + 1] = result[s]
  BY <1>3, RowFacts, AppendProperties
<1>5. ClaimInv'
  BY <1>0, <1>1, <1>2 DEF VerdictInv, ClaimInv
<1>6. RowsInv'
  BY <1>0, <1>1, <1>2 DEF VerdictInv, RowsInv
<1>7. AgeInv'
  <2>1. ASSUME NEW i \in DOMAIN disk'.rows PROVE pc'[disk'.rows[i].submission] = "done" /\ disk'.rows[i].tests <= tests'
    <3>1. CASE i = Len(disk.rows) + 1
      BY <1>0, <1>2, <1>3, <1>4, <3>1
    <3>2. CASE i \in DOMAIN disk.rows
      BY <1>0, <1>1, <1>2, <1>4, <3>2, RowFacts DEF VerdictInv, AgeInv
    <3> QED BY <1>4, <2>1, <3>1, <3>2
  <2> QED BY <1>0, <1>1, <1>2, <2>1 DEF VerdictInv, AgeInv
<1>8. FreshInv'
  <2> SUFFICES ASSUME NEW r \in Rejudgers, Verdicted(r)'
               PROVE  /\ pc'[result'[r].submission] \notin {"idle", "judged"}
                      /\ InTransaction(result[r].submission)' =>
                             result'[result'[r].submission].tests <= result'[r].tests
                      /\ target'[r] \in DOMAIN disk'.rows /\ disk'.rows[target'[r]].submission = result'[r].submission =>
                             disk'.rows[target'[r]].tests <= result'[r].tests
    BY DEF FreshInv
  <2>1. Verdicted(r) /\ result'[r] = result[r] /\ result[r].submission \in Submissions /\ target'[r] = target[r]
    BY <1>0, <1>1, <1>2, VerdictTypes
  <2>2. /\ pc[result[r].submission] \notin {"idle", "judged"}
        /\ InTransaction(result[r].submission) => result[result[r].submission].tests <= result[r].tests
        /\ target[r] \in DOMAIN disk.rows /\ disk.rows[target[r]].submission = result[r].submission =>
               disk.rows[target[r]].tests <= result[r].tests
    BY <2>1 DEF VerdictInv, FreshInv
  <2>3. pc'[result[r].submission] \notin {"idle", "judged", "written", "updated"}
    BY <1>0, <1>1, <1>2, <2>1, <2>2
  <2>4. ASSUME target[r] \in DOMAIN disk'.rows, disk'.rows[target[r]].submission = result[r].submission
        PROVE  disk'.rows[target[r]].tests <= result[r].tests
    <3>1. CASE target[r] \in DOMAIN disk.rows
      BY <1>4, <2>2, <2>4, <3>1
    <3>2. CASE target[r] = Len(disk.rows) + 1
      BY <1>0, <1>3, <1>4, <2>2, <2>4, <3>2
    <3> QED BY <1>4, <2>4, <3>1, <3>2
  <2> QED BY <2>1, <2>3, <2>4
<1> QED BY <1>5, <1>6, <1>7, <1>8 DEF VerdictInv

\* A settlement is rolled back: its submission is not settled, and not before the
\* next start.
LEMMA RollbackVerdict ==
    ASSUME StatusInv, VerdictInv, NEW s \in Submissions, SettleRollback(s)
    PROVE  VerdictInv'
<1> USE DEF InTransaction, Verdicted, Rejudging
<1>0. /\ pc[s] \in {"written", "updated"} /\ pc' = [pc EXCEPT ![s] = "failed"] /\ disk' = disk /\ owner = s
      /\ target' = target /\ inFlight' = inFlight /\ tests' = tests
      /\ \A t \in Threads \ {s} : result'[t] = result[t]
  BY VerdictTypes DEF SettleRollback, Rollback, Goto, Threads
<1>1. ASSUME NEW t \in Threads, t # s PROVE pc'[t] = pc[t] /\ ~InTransaction(t) /\ result'[t] = result[t]
  BY <1>0, <1>1, VerdictTypes DEF StatusInv, OwnerInv
<1>2. s \in Threads /\ pc'[s] = "failed" /\ Rejudgers \subseteq Threads /\ Submissions \subseteq Threads /\ s \notin Rejudgers
  BY <1>0, VerdictTypes DEF Threads
<1>5. ClaimInv'
  BY <1>0, <1>1, <1>2 DEF VerdictInv, ClaimInv
<1>6. RowsInv'
  BY <1>0, <1>1, <1>2 DEF VerdictInv, RowsInv
<1>7. AgeInv'
  <2>1. \A i \in DOMAIN disk.rows : disk.rows[i].submission # s
    BY <1>0 DEF VerdictInv, AgeInv
  <2> QED BY <1>0, <1>1, <1>2, <2>1, RowFacts DEF VerdictInv, AgeInv
<1>8. FreshInv'
  <2>1. \A r \in Rejudgers : Verdicted(r) => result[r].submission \in Submissions
    BY VerdictTypes
  <2> QED BY <1>0, <1>1, <1>2, <2>1 DEF VerdictInv, FreshInv
<1> QED BY <1>5, <1>6, <1>7, <1>8 DEF VerdictInv

\* A rejudge starts with a row that no other has claimed.
LEMMA StartVerdict ==
    ASSUME StatusInv, VerdictInv, NEW r \in Rejudgers, RejudgeStart(r)
    PROVE  VerdictInv'
<1> USE DEF InTransaction, Verdicted, Rejudging
<1>0. PICK id \in DOMAIN work.rows \ inFlight :
        inFlight' = inFlight \cup {id} /\ target' = [target EXCEPT ![r] = id]
  BY DEF RejudgeStart
<1>1. /\ pc[r] = "idle" /\ pc' = [pc EXCEPT ![r] = "queued"] /\ disk' = disk /\ work' = work
      /\ tests' = tests /\ result' = result
  BY DEF RejudgeStart, Goto
<1>2. r \in Threads /\ Rejudgers \subseteq Threads /\ Submissions \subseteq Threads /\ r \notin Submissions
  BY VerdictTypes DEF Threads
<1>3. /\ pc'[r] = "queued" /\ target'[r] = id
      /\ \A t \in Threads \ {r} : pc'[t] = pc[t]
      /\ \A q \in Rejudgers \ {r} : target'[q] = target[q]
  BY <1>0, <1>1, <1>2, VerdictTypes
<1>4. ClaimInv'
  BY <1>0, <1>1, <1>2, <1>3 DEF VerdictInv, ClaimInv
<1>5. RowsInv'
  BY <1>1, <1>2, <1>3 DEF VerdictInv, RowsInv, NewRow
<1>6. AgeInv'
  BY <1>1, <1>2, <1>3, RowFacts DEF VerdictInv, AgeInv
<1>7. FreshInv'
  BY <1>1, <1>2, <1>3, VerdictTypes DEF VerdictInv, FreshInv
<1> QED BY <1>4, <1>5, <1>6, <1>7 DEF VerdictInv

\* The verdict of a rejudge is from the test cases of now.
LEMMA RejudgeVerdict ==
    ASSUME StatusInv, VerdictInv, NEW r \in Rejudgers, RejudgeJudge(r)
    PROVE  VerdictInv'
<1> USE DEF InTransaction, Verdicted, Rejudging
<1>0. /\ pc[r] = "queued" /\ pc' = [pc EXCEPT ![r] = "judged"] /\ disk' = disk /\ work' = work
      /\ tests' = tests /\ target' = target /\ inFlight' = inFlight /\ target[r] \in DOMAIN work.rows
  BY DEF RejudgeJudge, Goto
<1>1. /\ result'[r].submission = work.rows[target[r]].submission /\ result'[r].tests = tests
      /\ \A t \in Threads \ {r} : result'[t] = result[t]
  BY VerdictTypes DEF RejudgeJudge, Threads
<1>2. r \in Threads /\ Rejudgers \subseteq Threads /\ Submissions \subseteq Threads /\ r \notin Submissions
  BY VerdictTypes DEF Threads
<1>3. pc'[r] = "judged" /\ \A t \in Threads \ {r} : pc'[t] = pc[t]
  BY <1>0, <1>2, VerdictTypes
<1>4. ClaimInv'
  BY <1>0, <1>2, <1>3 DEF VerdictInv, ClaimInv
<1>5. RowsInv'
  BY <1>0, <1>1, <1>2, <1>3 DEF VerdictInv, RowsInv, NewRow
<1>6. AgeInv'
  BY <1>0, <1>1, <1>2, <1>3, RowFacts, VerdictTypes DEF VerdictInv, AgeInv
<1>7. FreshInv'
  <2> DEFINE s == work.rows[target[r]].submission
  <2>1. s \in Submissions /\ pc[s] \in {"written", "updated", "done"}
    BY <1>0, RowFacts, VisibleRows
  <2>2. InTransaction(s) => result[s].tests <= tests
    BY <1>2, <2>1 DEF VerdictInv, AgeInv
  <2>3. target[r] \in DOMAIN disk.rows => disk.rows[target[r]].tests <= tests
    BY DEF VerdictInv, AgeInv
  <2> HIDE DEF s
  <2>4. result'[r].submission = s
    BY <1>1 DEF s
  <2>5. ASSUME NEW q \in Rejudgers, q # r PROVE pc'[q] = pc[q] /\ result'[q] = result[q]
    BY <1>1, <1>2, <1>3, <2>5
  <2>6. ASSUME NEW t \in Submissions PROVE pc'[t] = pc[t] /\ result'[t] = result[t]
    BY <1>1, <1>2, <1>3
  <2>7. \A q \in Rejudgers : Verdicted(q) => result[q].submission \in Submissions
    BY VerdictTypes
  <2> QED BY <1>0, <1>1, <1>3, <2>1, <2>2, <2>3, <2>4, <2>5, <2>6, <2>7 DEF VerdictInv, FreshInv
<1> QED BY <1>4, <1>5, <1>6, <1>7 DEF VerdictInv

\* BEGIN and the new verdict of a rejudge, in the row that has the id now.
LEMMA WriteVerdict ==
    ASSUME StatusInv, VerdictInv, NEW r \in Rejudgers, RejudgeWrite(r)
    PROVE  VerdictInv'
<1> USE DEF InTransaction, Verdicted, Rejudging
<1>0. /\ pc[r] = "judged" /\ pc' = [pc EXCEPT ![r] = "written"] /\ disk' = disk /\ owner = None
      /\ target' = target /\ inFlight' = inFlight /\ tests' = tests /\ result' = result
      /\ target[r] \in DOMAIN disk.rows
  BY DEF RejudgeWrite, Begin, Goto, StatusInv, OwnerInv
<1>1. work'.rows = [disk.rows EXCEPT ![target[r]] = NewRow(r)]
  BY DEF RejudgeWrite, Begin, WithRows, StatusInv, OwnerInv, NewRow
<1>2. ASSUME NEW t \in Threads, t # r PROVE pc'[t] = pc[t] /\ ~InTransaction(t)
  BY <1>0, <1>2, VerdictTypes, StatusAssumption DEF StatusInv, OwnerInv, Threads
<1>3. r \in Threads /\ pc'[r] = "written" /\ Rejudgers \subseteq Threads /\ Submissions \subseteq Threads /\ r \notin Submissions
  BY <1>0, VerdictTypes DEF Threads
<1>4. ClaimInv'
  BY <1>0, <1>2, <1>3 DEF VerdictInv, ClaimInv
<1>5. RowsInv'
  BY <1>0, <1>1, <1>2, <1>3 DEF VerdictInv, RowsInv, NewRow
<1>6. AgeInv'
  BY <1>0, <1>2, <1>3, RowFacts DEF VerdictInv, AgeInv
<1>7. FreshInv'
  <2>1. \A q \in Rejudgers : Verdicted(q) => result[q].submission \in Submissions
    BY VerdictTypes
  <2> QED BY <1>0, <1>2, <1>3, <2>1 DEF VerdictInv, FreshInv
<1> QED BY <1>4, <1>5, <1>6, <1>7 DEF VerdictInv

\* A rejudge that ends gives its row back, and no other had claimed it.
LEMMA ReturnClaim ==
    ASSUME StatusInv, ClaimInv, NEW r \in Rejudgers, Rejudging(r), RejudgeReturn(r)
    PROVE  /\ ClaimInv'
           /\ pc'[r] = "idle" /\ r \in Threads /\ r \notin Submissions
           /\ \A t \in Threads \ {r} : pc'[t] = pc[t] /\ result'[t] = result[t]
           /\ \A q \in Rejudgers \ {r} : target'[q] = target[q]
<1>1. /\ pc' = [pc EXCEPT ![r] = "idle"] /\ inFlight' = inFlight \ {target[r]}
      /\ target' = [target EXCEPT ![r] = None] /\ result' = [result EXCEPT ![r] = NoRow]
  BY DEF RejudgeReturn, Goto
<1>2. r \in Threads /\ Rejudgers \subseteq Threads /\ r \notin Submissions
  BY VerdictTypes DEF Threads
<1>3. /\ pc'[r] = "idle" /\ \A t \in Threads \ {r} : pc'[t] = pc[t] /\ result'[t] = result[t]
      /\ \A q \in Rejudgers \ {r} : target'[q] = target[q]
  BY <1>1, <1>2, VerdictTypes
<1>4. ClaimInv'
  BY <1>1, <1>2, <1>3 DEF ClaimInv, Rejudging
<1> QED BY <1>2, <1>3, <1>4

\* A rejudge that commits nothing: given up, gone or rolled back.
LEMMA NothingVerdict ==
    ASSUME StatusInv, VerdictInv, NEW r \in Rejudgers, Rejudging(r), RejudgeReturn(r), disk' = disk,
           tests' = tests, (work' = work /\ ~InTransaction(r)) \/ InTransaction(r)
    PROVE  VerdictInv'
<1> USE DEF InTransaction, Verdicted, Rejudging
<1>1. /\ ClaimInv' /\ pc'[r] = "idle" /\ r \in Threads /\ r \notin Submissions
      /\ \A t \in Threads \ {r} : pc'[t] = pc[t] /\ result'[t] = result[t]
      /\ \A q \in Rejudgers \ {r} : target'[q] = target[q]
  BY ReturnClaim DEF VerdictInv
<1>2. Rejudgers \subseteq Threads /\ Submissions \subseteq Threads
  BY DEF Threads
<1>3. InTransaction(r) => \A t \in Threads \ {r} : ~InTransaction(t)
  BY <1>1 DEF StatusInv, OwnerInv
<1>4. RowsInv'
  BY <1>1, <1>2, <1>3 DEF VerdictInv, RowsInv, NewRow
<1>5. AgeInv'
  BY <1>1, <1>2, RowFacts DEF VerdictInv, AgeInv
<1>6. FreshInv'
  <2>1. \A q \in Rejudgers : Verdicted(q) => result[q].submission \in Submissions
    BY VerdictTypes
  <2> QED BY <1>1, <1>2, <2>1 DEF VerdictInv, FreshInv
<1> QED BY <1>1, <1>4, <1>5, <1>6 DEF VerdictInv

\* A rejudge commits: the rows of all others are as they were.
LEMMA RejudgeCommitVerdict ==
    ASSUME StatusInv, VerdictInv, NEW r \in Rejudgers, RejudgeCommit(r)
    PROVE  VerdictInv'
<1> USE DEF InTransaction, Verdicted, Rejudging
<1>0. pc[r] = "updated" /\ owner = r /\ disk' = work /\ work' = work /\ tests' = tests /\ RejudgeReturn(r)
  BY DEF RejudgeCommit, Commit
<1>1. /\ ClaimInv' /\ pc'[r] = "idle" /\ r \in Threads /\ r \notin Submissions
      /\ \A t \in Threads \ {r} : pc'[t] = pc[t] /\ result'[t] = result[t]
      /\ \A q \in Rejudgers \ {r} : target'[q] = target[q]
  BY <1>0, ReturnClaim DEF VerdictInv
<1>2. Rejudgers \subseteq Threads /\ Submissions \subseteq Threads
  BY DEF Threads
<1>3. \A t \in Threads \ {r} : ~InTransaction(t)
  BY <1>0, <1>1 DEF StatusInv, OwnerInv
<1>4. RowsInv'
  BY <1>1, <1>2, <1>3 DEF RowsInv
<1>5. target[r] \in DOMAIN disk.rows /\ disk'.rows = [disk.rows EXCEPT ![target[r]] = NewRow(r)]
  BY <1>0 DEF VerdictInv, RowsInv
<1>6. /\ DOMAIN disk'.rows = DOMAIN disk.rows
      /\ \A i \in DOMAIN disk.rows : disk'.rows[i].submission = disk.rows[i].submission
      /\ \A i \in DOMAIN disk.rows \ {target[r]} : disk'.rows[i] = disk.rows[i]
      /\ disk'.rows[target[r]].tests = result[r].tests
  BY <1>5, RowFacts DEF NewRow
<1>7. result[r].tests <= tests
  BY <1>0, <1>1 DEF VerdictInv, AgeInv
<1>8. AgeInv'
  BY <1>0, <1>1, <1>2, <1>5, <1>6, <1>7, RowFacts DEF VerdictInv, AgeInv
<1>9. FreshInv'
  <2>1. \A q \in Rejudgers : Verdicted(q) => result[q].submission \in Submissions
    BY VerdictTypes
  <2>2. \A q \in Rejudgers \ {r} : Verdicted(q) => target[q] # target[r]
    BY <1>0 DEF VerdictInv, ClaimInv
  <2> QED BY <1>1, <1>2, <1>6, <2>1, <2>2 DEF VerdictInv, FreshInv
<1> QED BY <1>1, <1>4, <1>8, <1>9 DEF VerdictInv

\* A change of the test cases makes no verdict younger.
LEMMA EditVerdict ==
    ASSUME StatusInv, VerdictInv, EditTests
    PROVE  VerdictInv'
<1>1. ClaimInv'
  BY DEF EditTests, VerdictInv, ClaimInv, Rejudging
<1>2. RowsInv'
  BY DEF EditTests, VerdictInv, RowsInv, InTransaction, NewRow
<1>3. AgeInv'
  <2>1. \A t \in Threads : Verdicted(t) => result[t].tests \in Nat
    BY VerdictTypes DEF Threads, Verdicted, InTransaction
  <2> QED BY <2>1, RowFacts, VerdictTypes DEF EditTests, VerdictInv, AgeInv, Verdicted
<1>4. FreshInv'
  BY DEF EditTests, VerdictInv, FreshInv, Verdicted, InTransaction
<1> QED BY <1>1, <1>2, <1>3, <1>4 DEF VerdictInv

\* A restart forgets every rejudge; what is committed is settled.
LEMMA RestartVerdict ==
    ASSUME StatusInv, VerdictInv, Restart
    PROVE  VerdictInv'
<1>0. \A i \in DOMAIN disk.rows : disk.rows[i].submission \in Submissions
  BY RowFacts
<1>1. ASSUME NEW r \in Rejudgers PROVE pc'[r] = "idle"
  BY <1>0, VerdictTypes DEF Restart, Threads
<1>2. ASSUME NEW s \in Submissions PROVE pc'[s] \in {"idle", "done"}
  BY DEF Restart, Threads
<1>3. ASSUME NEW i \in DOMAIN disk.rows PROVE pc'[disk.rows[i].submission] = "done"
  BY <1>0 DEF Restart, Threads
<1>4. ClaimInv' /\ FreshInv' /\ RowsInv'
  BY <1>1, <1>2 DEF ClaimInv, FreshInv, RowsInv, Rejudging, Verdicted, InTransaction
<1>5. AgeInv'
  BY <1>1, <1>2, <1>3 DEF Restart, VerdictInv, AgeInv, Verdicted, Threads
<1> QED BY <1>4, <1>5 DEF VerdictInv

\* Every step keeps VerdictInv.
LEMMA NextVerdict ==
    ASSUME StatusInv, VerdictInv, [Next]_vars
    PROVE  VerdictInv'
<1>1. ASSUME NEW s \in Submissions, SettleNext(s) PROVE VerdictInv'
  <2>1. CASE UpdateStatus(s)
    BY <2>1, SummaryVerdict DEF UpdateStatus, WithStatus, Goto, Threads
  <2> QED BY <1>1, <2>1, JudgeVerdict, InsertVerdict, CommitVerdict, RollbackVerdict DEF SettleNext
<1>2. ASSUME NEW r \in Rejudgers, RejudgeNext(r) PROVE VerdictInv'
  <2>1. CASE RejudgeRecompute(r)
    <3>1. /\ pc[r] = "written" /\ pc' = [pc EXCEPT ![r] = "updated"] /\ disk' = disk /\ target' = target
          /\ inFlight' = inFlight /\ tests' = tests /\ result' = result
      BY <2>1 DEF RejudgeRecompute, Goto
    <3>2. work'.rows = work.rows
      BY <2>1 DEF RejudgeRecompute, WithStatus
    <3>3. r \in Threads
      BY DEF Threads
    <3> QED BY <3>1, <3>2, <3>3, SummaryVerdict
  <2>2. CASE RejudgeGiveUp(r) \/ RejudgeGone(r)
    BY <2>2, NothingVerdict DEF RejudgeGiveUp, RejudgeGone, Rejudging, InTransaction
  <2>3. CASE RejudgeRollback(r)
    BY <2>3, NothingVerdict DEF RejudgeRollback, Rollback, Rejudging, InTransaction
  <2> QED BY <1>2, <2>1, <2>2, <2>3, StartVerdict, RejudgeVerdict, WriteVerdict, RejudgeCommitVerdict DEF RejudgeNext
<1>3. CASE UNCHANGED vars
  BY <1>3 DEF vars, VerdictInv, ClaimInv, RowsInv, AgeInv, FreshInv, Rejudging, Verdicted, InTransaction, NewRow
<1> QED BY <1>1, <1>2, <1>3, EditVerdict, RestartVerdict DEF Next

-----------------------------------------------------------------------------
(* Theorems.                                                               *)

\* The invariant of the transactions of settling and rejudging holds always:
\* outside of a transaction nothing is uncommitted, between its two writes the
\* summary is the committed one, and after the second it fits again.
THEOREM StatusInvariant == Spec => []StatusInv
<1>1. Init => StatusInv
  BY InitStatus
<1>2. StatusInv /\ [Next]_vars => StatusInv'
  BY NextStatus
<1> QED BY <1>1, <1>2, PTL DEF Spec

\* The committed row of user_problem_status is what the committed submissions
\* say, in whatever order they are settled, rolled back and rejudged.
THEOREM SummaryAlwaysAgrees == Spec => []SummaryAgrees
<1>1. StatusInv => SummaryAgrees
  BY DEF StatusInv
<1> QED BY <1>1, StatusInvariant, PTL

\* Settling a submission never takes a solved problem away and never moves the
\* time of the first AC forward (compute_status_update).
THEOREM SolvedStaysSolved == Spec => SettlingKeepsSolved
<1>1. ASSUME StatusInv, NEW s \in Submissions, SettleCommit(s), disk.status.accepted
      PROVE  disk'.status.accepted /\ disk'.status.first <= disk.status.first
  BY <1>1 DEF StatusInv, UpdatedInv, SettleCommit, Commit
<1>2. StatusInv /\ [Next]_vars =>
          [(\E s \in Submissions : SettleCommit(s)) =>
               (disk.status.accepted => disk'.status.accepted /\ disk'.status.first <= disk.status.first)]_vars
  BY <1>1
<1> QED BY <1>2, StatusInvariant, PTL DEF Spec, SettlingKeepsSolved

\* The invariant of the claims of rejudges and of the age of verdicts: no two
\* rejudges claim one row, and a verdict that waits to be written is at least as
\* new as the one it may replace, if both are of one submission.
THEOREM VerdictInvariant == Spec => []VerdictInv
<1>1. Init => VerdictInv
  <2> SUFFICES ASSUME Init PROVE VerdictInv
    OBVIOUS
  <2>1. disk.rows = <<>> /\ DOMAIN <<>> = {} /\ \A t \in Threads : pc[t] = "idle"
    BY EmptySeq, LenProperties DEF Init
  <2>2. \A r \in Rejudgers : pc[r] = "idle"
    BY <2>1 DEF Threads
  <2>3. \A s \in Submissions : pc[s] = "idle"
    BY <2>1 DEF Threads
  <2> QED BY <2>1, <2>2, <2>3 DEF VerdictInv, ClaimInv, RowsInv, AgeInv, FreshInv, Rejudging, Verdicted, InTransaction
<1>2. StatusInv /\ VerdictInv /\ [Next]_vars => VerdictInv'
  BY NextVerdict
<1> QED BY <1>1, <1>2, StatusInvariant, PTL DEF Spec

\* A rejudge never puts a verdict of older test cases in the place of a newer one
\* of the same submission, although it judges outside of its transaction and
\* looks the row up again (rejudge_in_flight_ and RejudgeService::rejudge).
THEOREM VerdictsDoNotGoBack == Spec => NoStaleVerdict
<1>1. ASSUME StatusInv, VerdictInv, NEW r \in Rejudgers, RejudgeCommit(r),
             disk.rows[target[r]].submission = result[r].submission
      PROVE  disk'.rows[target[r]].tests >= disk.rows[target[r]].tests
  <2>1. pc[r] = "updated" /\ disk' = work
    BY <1>1 DEF RejudgeCommit, Commit
  <2>2. target[r] \in DOMAIN disk.rows /\ work.rows = [disk.rows EXCEPT ![target[r]] = NewRow(r)]
    BY <1>1, <2>1 DEF VerdictInv, RowsInv, InTransaction
  <2>3. work.rows[target[r]].tests = result[r].tests
    BY <2>2, RowFacts, <1>1 DEF NewRow
  <2>4. disk.rows[target[r]].tests <= result[r].tests
    BY <1>1, <2>1, <2>2 DEF VerdictInv, FreshInv, Verdicted
  <2>5. disk.rows[target[r]].tests \in Nat /\ result[r].tests \in Nat
    BY <1>1, <2>1, <2>2, RowFacts, VerdictTypes DEF Verdicted
  <2> QED BY <2>1, <2>3, <2>4, <2>5
<1>2. StatusInv /\ VerdictInv /\ [Next]_vars =>
          [\A r \in Rejudgers :
               RejudgeCommit(r) /\ disk.rows[target[r]].submission = result[r].submission =>
                   disk'.rows[target[r]].tests >= disk.rows[target[r]].tests]_vars
  BY <1>1
<1> QED BY <1>2, StatusInvariant, VerdictInvariant, PTL DEF Spec, NoStaleVerdict

=============================================================================
