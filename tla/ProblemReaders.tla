--------------------------- MODULE ProblemReaders ---------------------------
(***************************************************************************)
(* The requests for the problem list and for one problem (http/server.cpp, *)
(* db/problems.cpp) while administrators change the tables.                *)
(*                                                                         *)
(* Neither takes transaction_mutex or begins a transaction.  The list      *)
(* counts in one statement and reads its page in another; the page of a    *)
(* problem looks the problem up in one statement and reads its samples in  *)
(* another.  Statements with several rows step from row to row, and every  *)
(* step sees what the connection has then, the writes of an open           *)
(* transaction included: between two steps the cursor remembers only the   *)
(* key of the last row.                                                    *)
(***************************************************************************)
EXTENDS ProblemCatalog

CONSTANTS
    Lists,      \* requests for the problem list
    Details,    \* requests for one problem
    Tags,       \* bound: tags that lists filter by
    MaxPage,    \* bound: pages that lists ask for
    MaxBesides  \* bound: requests of all kinds, once one of them is a reader

Readers == Lists \cup Details

ASSUME ReadersAssumption ==
    /\ Lists \cap Details = {}
    /\ Readers \cap (Clients \cup Boards) = {}
    /\ MaxPage \in Nat

VARIABLES
    readPc,
    list,       \* per request for the list: what it asks for, the total and the rows it has
    detail,     \* per request for a problem: what it asks for, the key of its last row, the samples
    alone,      \* history: what the request would answer if nobody wrote from its first statement on
    moved       \* history: how often what it reads has changed since then

readVars == <<readPc, list, detail, alone, moved>>

NoList == [visibility |-> "all", tag |-> None, page |-> 1, total |-> 0, rows |-> <<>>]
NoDetail == [admin |-> FALSE, problem |-> 0, at |-> <<-1, 0>>, rows |-> <<>>]

ReadInit ==
    /\ Init
    /\ readPc = [r \in Readers |-> "idle"]
    /\ list = [l \in Lists |-> NoList]
    /\ detail = [d \in Details |-> NoDetail]
    /\ alone = [r \in Readers |-> <<>>]
    /\ moved = [r \in Readers |-> 0]

ReadGoto(r, to) == readPc' = [readPc EXCEPT ![r] = to]

\* A statement fails: 500; also the one for the viewer's own status, behind the samples.
\* Parameters that are refused and sessions that have ended are answered before anything
\* is read.
ReadFails(r) ==
    /\ readPc[r] \in {"idle", "counted", "listing", "found"}
    /\ ReadGoto(r, "failed")
    /\ UNCHANGED <<list, detail, alone, moved>>

-----------------------------------------------------------------------------
(* The list.                                                               *)

\* q is what a request asks for and what it has read.
Listed(db, q) == build_where(db, q.visibility, q.tag)

\* Mutant of CountOf: the total is that of all problems.
CountOf_All(db, visibility, tag) == Cardinality(DOMAIN db.problems)

\* SELECT COUNT, with the conditions of the page.
CountOf(db, visibility, tag) == Cardinality(build_where(db, visibility, tag))

ListCount(l) ==
    /\ readPc[l] = "idle"
    /\ \E admin \in BOOLEAN, filter \in {"all", "visible", "hidden"}, tag \in Tags, page \in 1..MaxPage :
        LET visibility == Visibility(admin, filter) IN
        /\ list' = [list EXCEPT ![l] = [visibility |-> visibility, tag |-> tag, page |-> page,
                                        total |-> CountOf(work, visibility, tag), rows |-> <<>>]]
        /\ alone' = [alone EXCEPT ![l] = Page(Ascending(build_where(work, visibility, tag)), page)]
    /\ ReadGoto(l, "counted")
    /\ UNCHANGED <<detail, moved>>

Offset(q) == (q.page - 1) * PageSize

\* Mutant of Ahead: the cursor stays on its row.
Ahead_Same(db, q) ==
    LET ids == Ascending(Listed(db, q)) IN
    IF q.rows = <<>> THEN SubSeq(ids, Offset(q) + 1, Len(ids))
    ELSE Ascending({p \in Listed(db, q) : p >= Last(q.rows)})

\* What the cursor has in front of it: before the first row it skips OFFSET rows, later
\* it goes on behind the last one.
Ahead(db, q) ==
    LET ids == Ascending(Listed(db, q)) IN
    IF q.rows = <<>> THEN SubSeq(ids, Offset(q) + 1, Len(ids))
    ELSE Ascending({p \in Listed(db, q) : p > Last(q.rows)})

\* SQLITE_ROW.
ListRow(l) ==
    /\ readPc[l] \in {"counted", "listing"}
    /\ Len(list[l].rows) < PageSize
    /\ Ahead(work, list[l]) # <<>>
    /\ list' = [list EXCEPT ![l].rows = Append(@, Head(Ahead(work, list[l])))]
    /\ ReadGoto(l, "listing")
    /\ UNCHANGED <<detail, alone, moved>>

\* SQLITE_DONE: LIMIT rows are read, or there are no more.
ListDone(l) ==
    /\ readPc[l] \in {"counted", "listing"}
    /\ Len(list[l].rows) = PageSize \/ Ahead(work, list[l]) = <<>>
    /\ ReadGoto(l, "answered")
    /\ UNCHANGED <<list, detail, alone, moved>>

-----------------------------------------------------------------------------
(* One problem.                                                            *)

\* find_by_id: not there, or hidden from who asks: 404.
DetailFind(d) ==
    /\ readPc[d] = "idle"
    /\ \E admin \in BOOLEAN, p \in 1..MaxId :
        \/ ~Shows(work, admin, p) /\ ReadGoto(d, "missing") /\ UNCHANGED <<detail, alone>>
        \/ /\ Shows(work, admin, p)
           /\ detail' = [detail EXCEPT ![d] = [NoDetail EXCEPT !.admin = admin, !.problem = p]]
           /\ alone' = [alone EXCEPT ![d] = list_samples(work, p)]
           /\ ReadGoto(d, "found")
    /\ UNCHANGED <<list, moved>>

\* Mutant of Behind: the query does not ask for samples only.
Behind_Cases(db, q) ==
    InOrder(db, {k \in CasesOf(db, q.problem) :
                    \/ db.cases[k].ord > q.at[1]
                    \/ db.cases[k].ord = q.at[1] /\ k > q.at[2]})

\* The samples behind the key of the last row, in the order of the index.
Behind(db, q) ==
    InOrder(db, {k \in SamplesOf(db, q.problem) :
                    \/ db.cases[k].ord > q.at[1]
                    \/ db.cases[k].ord = q.at[1] /\ k > q.at[2]})

\* list_samples, a row.
DetailRow(d) ==
    /\ readPc[d] = "found"
    /\ Behind(work, detail[d]) # <<>>
    /\ LET k == Head(Behind(work, detail[d])) IN
        detail' = [detail EXCEPT ![d].at = <<work.cases[k].ord, k>>, ![d].rows = Append(@, work.cases[k].text)]
    /\ UNCHANGED <<readPc, list, alone, moved>>

DetailDone(d) ==
    /\ readPc[d] = "found"
    /\ Behind(work, detail[d]) = <<>>
    /\ ReadGoto(d, "answered")
    /\ UNCHANGED <<list, detail, alone, moved>>

-----------------------------------------------------------------------------
\* What a request reads of the tables.
Samples(db, p) == [k \in SamplesOf(db, p) |-> db.cases[k]]
Reads(db, r) ==
    IF r \in Lists THEN Listed(db, list[r])
    ELSE <<Shows(db, detail[r].admin, detail[r].problem), Samples(db, detail[r].problem)>>

Pending(r) == readPc[r] \in {"counted", "listing", "found"}

\* A step of ProblemCatalog; the requests that are under way are not told.
Elsewhere ==
    /\ Next
    /\ moved' = [r \in Readers |-> IF Pending(r) /\ Reads(work', r) # Reads(work, r) THEN moved[r] + 1 ELSE moved[r]]
    /\ UNCHANGED <<readPc, list, detail, alone>>

ListNext(l) == ListCount(l) \/ ListRow(l) \/ ListDone(l)
DetailNext(d) == DetailFind(d) \/ DetailRow(d) \/ DetailDone(d)

\* The requests that have begun, and the bound on them.
Begun == {t \in Clients \cup Boards : pc[t] # "idle"} \cup {r \in Readers : readPc[r] # "idle"}
Room(r) == readPc[r] = "idle" => Cardinality(Begun) < MaxBesides

ReaderNext ==
    /\ \/ \E l \in Lists : Room(l) /\ ListNext(l)
       \/ \E d \in Details : Room(d) /\ DetailNext(d)
       \/ \E r \in Readers : Room(r) /\ ReadFails(r)
    /\ UNCHANGED vars

ReadNext ==
    \/ Elsewhere /\ (Readers \cap Begun # {} => Cardinality(Begun') <= MaxBesides)
    \/ ReaderNext

ReadSpec == ReadInit /\ [][ReadNext]_<<vars, readVars>>

-----------------------------------------------------------------------------
\* What the readers may rely on although others write between their steps.  A request
\* during which nothing that it reads has changed answers what one state of the tables
\* gives, a total and a page of the list that belong together and the samples of a
\* problem in order.  Otherwise the rows of the page are as many as the total says, but
\* for one for each change in between; and no page has a problem twice, whatever is
\* created, hidden or deleted while its rows are read.
ReadersConsistent ==
    /\ \A l \in Lists : readPc[l] = "answered" =>
        LET rows == list[l].rows
            rest == list[l].total - Offset(list[l])
            fit == IF rest < 0 THEN 0 ELSE Min({rest, PageSize})
        IN  /\ moved[l] = 0 => rows = alone[l]
            /\ Len(rows) - fit \in -moved[l]..moved[l]
            /\ \A i, j \in DOMAIN rows : i < j => rows[i] < rows[j]
    /\ \A d \in Details : readPc[d] = "answered" /\ moved[d] = 0 => detail[d].rows = alone[d]

=============================================================================
