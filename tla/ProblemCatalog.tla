--------------------------- MODULE ProblemCatalog ---------------------------
(***************************************************************************)
(* The tables problems and testcases, the requests of administrators that  *)
(* change them (db/problem_admin.cpp, db/testcase_admin.cpp and their      *)
(* handlers in http/server.cpp) and the queries that read them             *)
(* (db/problems.cpp, db/leaderboard.cpp).                                  *)
(*                                                                         *)
(* Every change is a transaction under transaction_mutex(), one step for   *)
(* each statement that writes; any statement may fail.  The leaderboard    *)
(* reads in two statements under the same mutex.                           *)
(*                                                                         *)
(* The other queries run without it, on the same connection, and step from *)
(* row to row: here are operators that say what each of their statements   *)
(* finds in one state of the tables; module ProblemReaders has the         *)
(* requests that put several of them together, with writers in between.    *)
(***************************************************************************)
EXTENDS Integers, Sequences, FiniteSets, SequencesExt, TextFilters

CONSTANTS
    Clients,     \* requests of administrators
    Boards,      \* requests for the leaderboard
    Users,       \* ids of users, by time of registration
    Initial,     \* author of what is there at the start
    PageSize,    \* kProblemPageSize, kUserPageSize
    MaxOrd,      \* kMaxTestcaseOrd
    MaxSamples,  \* kMaxSamples
    Counts,      \* bound: numbers of samples that requests give
    Positions,   \* bound: positions that requests ask for
    MaxSettled,  \* bound: submissions
    MaxId,       \* bound: ids that requests ask for
    None,        \* absent field, no owner, no time, nothing found
    Bad          \* field of a request that validation refuses

ASSUME CatalogAssumption ==
    /\ Clients \cap Boards = {}
    /\ Users \subseteq Nat \ {0}
    /\ IsFiniteSet(Users)
    /\ Users # {}
    /\ PageSize \in Nat \ {0}
    /\ MaxOrd \in Nat \ {0}
    /\ MaxSamples \in Nat
    /\ MaxSamples <= MaxOrd + 1
    /\ Counts \subseteq 0..MaxSamples
    /\ Positions \subseteq 0..MaxOrd
    /\ MaxSettled \in Nat
    /\ MaxId \in Nat
    /\ None \notin Clients \cup Boards \cup {Initial, Bad}
    /\ Bad \notin Clients

VARIABLES
    work,     \* the tables as the connection sees them
    disk,     \* the tables as committed
    inTx,     \* a transaction is open on the connection
    mutex,    \* owner of transaction_mutex(), or None
    pc,
    op,       \* per request, what it asks for
    target,   \* per request, the problem whose samples it writes
    todo,     \* per request, the samples still to insert
    answer,   \* per request
    board,    \* per leaderboard request, its page and what it has read
    settled   \* number of submissions

dbVars == <<work, disk, inTx, mutex>>
clientVars == <<op, target, todo, answer>>
vars == <<dbVars, pc, clientVars, board, settled>>

Put(f, k, v) == [x \in DOMAIN f \cup {k} |-> IF x = k THEN v ELSE f[x]]
Drop(f, S) == [x \in DOMAIN f \ S |-> f[x]]

-----------------------------------------------------------------------------
(* Requests.  A field of the body is absent (None), wrong (Bad) or a value. *)
(* tag stands for all fields that are only stored, the required title among *)
(* them; its value, and the text of a case, name the request that wrote it. *)

\* The texts of n samples.
SampleTexts(t, n) == [i \in 1..n |-> <<t, i>>]

NoOp == [kind |-> "none", problem |-> 0, case |-> 0, tag |-> None,
         visible |-> None, samples |-> None, text |-> None, ord |-> None]

ProblemBodies(t) == [tag : {None, Bad, t}, visible : {None, Bad, TRUE, FALSE},
                     samples : {None, Bad} \cup {SampleTexts(t, n) : n \in Counts}]
CaseBodies(t) == [text : {None, Bad, <<t, 0>>}, ord : {None, Bad} \cup Positions]

HasBad(body) == \E f \in DOMAIN body : body[f] = Bad
Empty(body) == \A f \in DOMAIN body : body[f] = None
Default(field, value) == IF field = None THEN value ELSE field

\* Bodies that validation accepts, with its defaults.
parse_create_problem(t) ==
    {[tag |-> b.tag, visible |-> Default(b.visible, TRUE), samples |-> Default(b.samples, <<>>)] :
        b \in {c \in ProblemBodies(t) : ~HasBad(c) /\ c.tag # None}}

parse_update_problem(t) == {b \in ProblemBodies(t) : ~HasBad(b) /\ ~Empty(b)}

parse_create_testcase(t) == {b \in CaseBodies(t) : ~HasBad(b) /\ b.text # None}

parse_update_testcase(t) == {b \in CaseBodies(t) : ~HasBad(b) /\ ~Empty(b)}

\* What the handlers ask of the stores; p and k are the ids in the URL.
handle_admin_create_problem(t) ==
    {[NoOp EXCEPT !.kind = "create", !.tag = b.tag, !.visible = b.visible, !.samples = b.samples] :
        b \in parse_create_problem(t)}

handle_admin_update_problem(t, p) ==
    {[NoOp EXCEPT !.kind = "update", !.problem = p, !.tag = b.tag, !.visible = b.visible, !.samples = b.samples] :
        b \in parse_update_problem(t)}

handle_admin_delete_problem(p) == [NoOp EXCEPT !.kind = "delete", !.problem = p]

handle_admin_create_testcase(t, p) ==
    {[NoOp EXCEPT !.kind = "addCase", !.problem = p, !.text = b.text, !.ord = b.ord] :
        b \in parse_create_testcase(t)}

handle_admin_update_testcase(t, p, k) ==
    {[NoOp EXCEPT !.kind = "changeCase", !.problem = p, !.case = k, !.text = b.text, !.ord = b.ord] :
        b \in parse_update_testcase(t)}

handle_admin_delete_testcase(p, k) == [NoOp EXCEPT !.kind = "removeCase", !.problem = p, !.case = k]

CaseOps(t, p, k) == handle_admin_update_testcase(t, p, k) \cup {handle_admin_delete_testcase(p, k)}

ProblemOps(t, p) ==
    handle_admin_update_problem(t, p) \cup {handle_admin_delete_problem(p)}
        \cup handle_admin_create_testcase(t, p) \cup UNION {CaseOps(t, p, k) : k \in 1..MaxId}

OpsOf(t) == handle_admin_create_problem(t) \cup UNION {ProblemOps(t, p) : p \in 1..MaxId}

Operations == [t \in Clients |-> OpsOf(t)]
AllOperations == UNION Range(Operations)

-----------------------------------------------------------------------------
(* What a statement that reads finds in one state of the tables.           *)

\* The elements of S in the order that the relation R gives: as many stand before
\* each as its place says.
Sorted(S, R) == [i \in 1..Cardinality(S) |-> CHOOSE x \in S : Cardinality({y \in S : <<y, x>> \in R}) = i - 1]

Ascending(S) == Sorted(S, {q \in S \X S : q[1] < q[2]})

\* ORDER BY ord, id.
InOrder(db, ids) ==
    Sorted(ids, {q \in ids \X ids : \/ db.cases[q[1]].ord < db.cases[q[2]].ord
                                    \/ db.cases[q[1]].ord = db.cases[q[2]].ord /\ q[1] < q[2]})

CasesOf(db, p) == {k \in DOMAIN db.cases : db.cases[k].problem = p}
SamplesOf(db, p) == {k \in CasesOf(db, p) : db.cases[k].sample}
HiddenOf(db, p) == CasesOf(db, p) \ SamplesOf(db, p)

list_testcases(db, p) == InOrder(db, CasesOf(db, p))

list_samples(db, p) ==
    LET ids == InOrder(db, SamplesOf(db, p)) IN [i \in DOMAIN ids |-> db.cases[ids[i]].text]

\* Mutant of Visibility: the filter of the request decides, also for a guest.
Visibility_TrustsFilter(admin, filter) == filter

\* Who is not an administrator lists the visible problems, whatever the request says.
Visibility(admin, filter) == IF admin THEN filter ELSE "visible"

\* The filters are conjoined.
build_where(db, visibility, tag) ==
    {p \in DOMAIN db.problems :
        /\ visibility # "all" => db.problems[p].visible = (visibility = "visible")
        /\ tag # None => db.problems[p].tag = tag}

\* LIMIT PageSize OFFSET (page - 1) * PageSize.
Page(seq, page) ==
    LET offset == (page - 1) * PageSize IN SubSeq(seq, offset + 1, Min({offset + PageSize, Len(seq)}))

total_pages(total) == IF total = 0 THEN 0 ELSE (total + PageSize - 1) \div PageSize

list_tags(db, include_hidden) ==
    {db.problems[p].tag : p \in {q \in DOMAIN db.problems : include_hidden \/ db.problems[q].visible}}

\* The problem is there and is not hidden from the viewer, or 404.
Shows(db, admin, p) == p \in DOMAIN db.problems /\ (db.problems[p].visible \/ admin)

\* The leaderboard: who has submitted to a visible problem; most problems solved
\* first, then fewest submissions, earliest first AC (none is last), registration.
StatusOf(db, u) == {s \in DOMAIN db.status : s[1] = u /\ s[2] \in DOMAIN db.problems /\ db.problems[s[2]].visible}
Solved(db, u) == {s \in StatusOf(db, u) : db.status[s].first # None}
Submits(db, u) == FoldSet(LAMBDA s, n : n + db.status[s].count, 0, StatusOf(db, u))
FirstAC(db, u) == IF Solved(db, u) = {} THEN MaxSettled + 1 ELSE Min({db.status[s].first : s \in Solved(db, u)})

Before(db, u, v) ==
    LET key(w) == <<-Cardinality(Solved(db, w)), Submits(db, w), FirstAC(db, w), w>>
    IN  \E i \in 1..4 : key(u)[i] < key(v)[i] /\ \A j \in 1..(i - 1) : key(u)[j] = key(v)[j]

Ranked(db) ==
    LET listed == {u \in Users : Submits(db, u) > 0}
    IN  Sorted(listed, {q \in listed \X listed : Before(db, q[1], q[2])})

NoPage == [page |-> 1, total |-> 0, items |-> <<>>]

-----------------------------------------------------------------------------
\* One problem with a sample and a hidden case; the first user may have solved it.
Init ==
    /\ \E early \in SUBSET {<<Min(Users), 1>>} :
       work = [problems |-> [p \in {1} |-> [tag |-> Initial, visible |-> TRUE]],
               cases |-> [k \in 1..2 |-> [problem |-> 1, ord |-> k - 1, sample |-> k = 1,
                                          text |-> <<Initial, 2 - k>>]],
               lastProblem |-> 1, lastCase |-> 2,
               status |-> [s \in early |-> [count |-> 1, first |-> 0]]]
    /\ disk = work
    /\ inTx = FALSE
    /\ mutex = None
    /\ pc = [t \in Clients \cup Boards |-> "idle"]
    /\ op = [t \in Clients |-> NoOp]
    /\ target = [t \in Clients |-> 0]
    /\ todo = [t \in Clients |-> <<>>]
    /\ answer = [t \in Clients |-> None]
    /\ board = [b \in Boards |-> NoPage]
    /\ settled = 0

Goto(t, to) == pc' = [pc EXCEPT ![t] = to]

\* The handler: not an administrator, or the body is refused: 401, 403, 400.
Reject(t) ==
    /\ pc[t] = "idle"
    /\ Goto(t, "rejected")
    /\ UNCHANGED <<dbVars, clientVars, board, settled>>

-----------------------------------------------------------------------------
(* The transactions.                                                       *)

begin(t) ==
    /\ mutex = None
    /\ ~inTx
    /\ mutex' = t
    /\ inTx' = TRUE

\* An administrator with a valid request has waited for the mutex, which nobody
\* else sees, and begins.  A BEGIN that fails is Fail with nothing written.
Begin(t) ==
    /\ pc[t] = "idle"
    /\ \E o \in Operations[t] : op' = [op EXCEPT ![t] = o]
    /\ begin(t)
    /\ Goto(t, "begun")
    /\ UNCHANGED <<work, disk, target, todo, answer, board, settled>>

\* The request is answered and forgotten.
Reply(t, what) ==
    /\ Goto(t, "answered")
    /\ answer' = [answer EXCEPT ![t] = what]
    /\ op' = [op EXCEPT ![t] = NoOp]
    /\ target' = [target EXCEPT ![t] = 0]
    /\ todo' = [todo EXCEPT ![t] = <<>>]

\* Mutant of Rollback: an early return that leaves the transaction open.
Rollback_Forgotten(t, why) ==
    /\ mutex' = None
    /\ Reply(t, why)
    /\ UNCHANGED <<work, disk, inTx, board, settled>>

\* rollback_quiet, the mutex is released, the request is answered.
Rollback(t, why) ==
    /\ work' = disk
    /\ inTx' = FALSE
    /\ mutex' = None
    /\ Reply(t, why)
    /\ UNCHANGED <<disk, board, settled>>

\* A statement fails.
Fail(t) == mutex = t /\ t \in Clients /\ Rollback(t, "Failed")

\* A statement writes.
Write(t, db, to) ==
    /\ work' = db
    /\ Goto(t, to)
    /\ UNCHANGED <<disk, inTx, mutex, op, answer, board, settled>>

At(t, kind) == pc[t] = "begun" /\ op[t].kind = kind

CreateProblem(t) ==
    /\ At(t, "create")
    /\ LET id == work.lastProblem + 1 IN
        /\ Write(t, [work EXCEPT !.lastProblem = id,
                                 !.problems = Put(@, id, [tag |-> op[t].tag, visible |-> op[t].visible])],
                 "samples")
        /\ target' = [target EXCEPT ![t] = id]
    /\ todo' = [todo EXCEPT ![t] = op[t].samples]

\* insert_samples: numbered from 0, one INSERT each.
InsertSample(t) ==
    /\ pc[t] = "samples"
    /\ todo[t] # <<>>
    /\ LET id == work.lastCase + 1
           ord == Len(op[t].samples) - Len(todo[t]) IN
        Write(t, [work EXCEPT !.lastCase = id,
                              !.cases = Put(@, id, [problem |-> target[t], ord |-> ord, sample |-> TRUE,
                                                    text |-> Head(todo[t])])],
              "samples")
    /\ todo' = [todo EXCEPT ![t] = Tail(@)]
    /\ UNCHANGED target

merged(o, row) == [tag |-> Default(o.tag, row.tag), visible |-> Default(o.visible, row.visible)]

\* The row is read and written in the transaction.
UpdateProblem(t) ==
    LET p == op[t].problem IN
    /\ At(t, "update")
    /\ \/ /\ p \in DOMAIN work.problems
          /\ Write(t, [work EXCEPT !.problems[p] = merged(op[t], @)],
                   IF op[t].samples = None THEN "written" ELSE "replace")
          /\ UNCHANGED <<target, todo>>
       \/ p \notin DOMAIN work.problems /\ Rollback(t, "NotFound")

\* Only public samples are replaced, all of them.
ReplaceSamples(t) ==
    /\ pc[t] = "replace"
    /\ Write(t, [work EXCEPT !.cases = Drop(@, SamplesOf(work, op[t].problem))], "samples")
    /\ target' = [target EXCEPT ![t] = op[t].problem]
    /\ todo' = [todo EXCEPT ![t] = op[t].samples]

\* The problem exists and has neither submissions nor unsettled tasks; its cases
\* are deleted first.
DeleteCases(t) ==
    LET p == op[t].problem IN
    /\ At(t, "delete")
    /\ \/ p \notin DOMAIN work.problems /\ Rollback(t, "NotFound")
       \/ /\ p \in DOMAIN work.problems
          /\ \E s \in DOMAIN work.status : s[2] = p
          /\ Rollback(t, "HasSubmissions")
       \/ /\ p \in DOMAIN work.problems
          /\ \A s \in DOMAIN work.status : s[2] # p
          /\ Write(t, [work EXCEPT !.cases = Drop(@, CasesOf(work, p))], "emptied")
          /\ UNCHANGED <<target, todo>>

\* Then the status rows, the interrupted tasks and the problem.
DeleteProblem(t) ==
    /\ pc[t] = "emptied"
    /\ Write(t, [work EXCEPT !.problems = Drop(@, {op[t].problem})], "written")
    /\ UNCHANGED <<target, todo>>

\* Mutant of NextOrd: only the hidden cases are counted.
NextOrd_HiddenOnly(db, p) == 1 + Max({-1} \cup {db.cases[k].ord : k \in HiddenOf(db, p)})

\* COALESCE(MAX(ord), -1) + 1 over all cases of the problem.
NextOrd(db, p) == 1 + Max({-1} \cup {db.cases[k].ord : k \in CasesOf(db, p)})

OrdFits(ord) == ord <= MaxOrd

CreateCase(t) ==
    LET p == op[t].problem
        ord == Default(op[t].ord, NextOrd(work, p))
        id == work.lastCase + 1 IN
    /\ At(t, "addCase")
    /\ \/ p \notin DOMAIN work.problems /\ Rollback(t, "NotFound")
       \/ /\ p \in DOMAIN work.problems
          /\ ~OrdFits(ord)
          /\ Rollback(t, "OrdExhausted")
       \/ /\ p \in DOMAIN work.problems
          /\ OrdFits(ord)
          /\ Write(t, [work EXCEPT !.lastCase = id,
                                   !.cases = Put(@, id, [problem |-> p, ord |-> ord, sample |-> FALSE,
                                                         text |-> op[t].text])],
                   "written")
          /\ UNCHANGED <<target, todo>>

\* A hidden case of this problem.
find_hidden(db, o) == o.case \in HiddenOf(db, o.problem)

changed(o, row) == [row EXCEPT !.ord = Default(o.ord, row.ord), !.text = Default(o.text, row.text)]

UpdateCase(t) ==
    LET o == op[t] IN
    /\ At(t, "changeCase")
    /\ \/ ~find_hidden(work, o) /\ Rollback(t, "NotFound")
       \/ /\ find_hidden(work, o)
          /\ Write(t, [work EXCEPT !.cases[o.case] = changed(o, @)], "written")
          /\ UNCHANGED <<target, todo>>

DeleteCase(t) ==
    LET o == op[t] IN
    /\ At(t, "removeCase")
    /\ \/ ~find_hidden(work, o) /\ Rollback(t, "NotFound")
       \/ /\ find_hidden(work, o)
          /\ Write(t, [work EXCEPT !.cases = Drop(@, {o.case})], "written")
          /\ UNCHANGED <<target, todo>>

\* COMMIT; if it fails, Fail.
Commit(t) ==
    /\ \/ pc[t] = "written"
       \/ pc[t] = "samples" /\ todo[t] = <<>>
    /\ disk' = work
    /\ inTx' = FALSE
    /\ mutex' = None
    /\ Reply(t, "Done")
    /\ UNCHANGED <<work, board, settled>>

-----------------------------------------------------------------------------
\* A submission is settled, in a transaction of its own (SubmissionLifecycle and
\* ProblemStatus have its steps): its problem exists, the count grows, the first
\* AC has its time.
Settle(u, p, solved) ==
    LET old == IF <<u, p>> \in DOMAIN work.status THEN work.status[<<u, p>>] ELSE [count |-> 0, first |-> None]
        new == [count |-> old.count + 1, first |-> IF solved /\ old.first = None THEN settled + 1 ELSE old.first]
    IN
    /\ settled < MaxSettled
    /\ mutex = None
    /\ ~inTx
    /\ p \in DOMAIN work.problems
    /\ work' = [work EXCEPT !.status = Put(@, <<u, p>>, new)]
    /\ disk' = work'
    /\ settled' = settled + 1
    /\ UNCHANGED <<inTx, mutex, pc, clientVars, board>>

\* Mutant of BoardBegin: the read transaction does not take the mutex.
BoardBegin_Unlocked(b) ==
    /\ pc[b] = "idle"
    /\ Goto(b, "begun")
    /\ \E page \in 1..Cardinality(Users) : board' = [board EXCEPT ![b].page = page]
    /\ UNCHANGED <<dbVars, clientVars, settled>>

\* LeaderboardStore::query: the mutex, BEGIN.
BoardBegin(b) ==
    /\ pc[b] = "idle"
    /\ begin(b)
    /\ Goto(b, "begun")
    /\ \E page \in 1..Cardinality(Users) : board' = [board EXCEPT ![b].page = page]
    /\ UNCHANGED <<work, disk, clientVars, settled>>

\* SELECT COUNT.
BoardCount(b) ==
    /\ pc[b] = "begun"
    /\ board' = [board EXCEPT ![b].total = Len(Ranked(work))]
    /\ Goto(b, "counted")
    /\ UNCHANGED <<dbVars, clientVars, settled>>

\* A statement fails: ROLLBACK, 500.  Nothing is answered; the page may be asked for again.
BoardFail(b) ==
    /\ mutex = b
    /\ Goto(b, "idle")
    /\ board' = [board EXCEPT ![b] = NoPage]
    /\ mutex' = None
    /\ inTx' = FALSE
    /\ UNCHANGED <<work, disk, clientVars, settled>>

\* The page; COMMIT.
BoardPage(b) ==
    /\ pc[b] = "counted"
    /\ board' = [board EXCEPT ![b].items = Page(Ranked(work), board[b].page)]
    /\ Goto(b, "answered")
    /\ mutex' = IF mutex = b THEN None ELSE mutex
    /\ inTx' = IF mutex = b THEN FALSE ELSE inTx
    /\ UNCHANGED <<work, disk, clientVars, settled>>

-----------------------------------------------------------------------------
ClientNext(t) ==
    \/ Reject(t) \/ Begin(t) \/ Fail(t) \/ Commit(t)
    \/ CreateProblem(t) \/ UpdateProblem(t) \/ ReplaceSamples(t) \/ InsertSample(t)
    \/ DeleteCases(t) \/ DeleteProblem(t)
    \/ CreateCase(t) \/ UpdateCase(t) \/ DeleteCase(t)

Next ==
    \/ \E t \in Clients : ClientNext(t)
    \/ \E u \in Users, p \in 1..MaxId, solved \in BOOLEAN : Settle(u, p, solved)
    \/ \E b \in Boards : BoardBegin(b) \/ BoardCount(b) \/ BoardPage(b) \/ BoardFail(b)

Spec == Init /\ [][Next]_vars

-----------------------------------------------------------------------------
Tables(db) ==
    /\ \A p \in DOMAIN db.problems : p \in 1..db.lastProblem /\ db.problems[p].visible \in BOOLEAN
    /\ \A k \in DOMAIN db.cases :
        /\ k \in 1..db.lastCase
        /\ db.cases[k].problem \in DOMAIN db.problems
        /\ db.cases[k].ord \in 0..MaxOrd
    /\ DOMAIN db.status \subseteq Users \X DOMAIN db.problems

CatalogTypeOK ==
    /\ Tables(work)
    /\ Tables(disk)
    /\ inTx \in BOOLEAN
    /\ mutex \in Clients \cup Boards \cup {None}
    /\ pc \in [Clients \cup Boards -> {"idle", "rejected", "begun", "samples", "replace", "emptied",
                                       "written", "counted", "answered"}]
    /\ answer \in [Clients -> {None, "Done", "Failed", "NotFound", "HasSubmissions", "OrdExhausted"}]
    /\ \A t \in Clients : op[t] \in Operations[t] \cup {NoOp}
    /\ settled \in 0..MaxSettled

\* The state is well typed, foreign keys and value ranges of the tables included:
\* also between two statements every row of testcases and of user_problem_status
\* has its problem.  Whatever way a transaction ends, when the mutex is free none
\* is open and nothing uncommitted is left on the connection for the next one.
TransactionEnds ==
    /\ CatalogTypeOK
    /\ mutex = None => ~inTx /\ work = disk

\* The page of the leaderboard and its total come from the same state of the
\* tables: as many rows as the total says there must be on that page.
BoardConsistent ==
    \A b \in Boards : pc[b] = "answered" =>
        LET rest == board[b].total - (board[b].page - 1) * PageSize
        IN  Len(board[b].items) = IF rest < 0 THEN 0 ELSE Min({rest, PageSize})

\* The statements behind the list, the tag options and the detail of a problem draw
\* the same line between what an administrator and what everyone else may see: what
\* they find agrees in whatever state another request has left the connection; a
\* filter only narrows.  Joined, the pages from 1 to total_pages are the problems that
\* may be opened, once each, in order; none of them is empty, there is nothing behind
\* the last.  The samples are those among the cases the judge reads, in its order.  And
\* what a filter finds is what it names (FiltersLiteral, on the texts that tag stands
\* for).  Requests that read in several steps are in ProblemReaders.
ViewsAgree ==
    /\ FiltersLiteral
    /\ \A admin \in BOOLEAN :
        LET listed(filter, tag) == build_where(work, Visibility(admin, filter), tag)
            shown == {p \in 1..work.lastProblem : Shows(work, admin, p)}
            page(n) == Page(Ascending(listed("all", None)), n)
            last == total_pages(Cardinality(listed("all", None))) IN
        /\ FlattenSeq([n \in 1..last |-> page(n)]) = Ascending(shown)
        /\ \A n \in 1..last : page(n) # <<>>
        /\ page(last + 1) = <<>>
        /\ \A filter \in {"all", "visible", "hidden"} : listed(filter, None) \subseteq shown
        /\ list_tags(work, admin) = {tag \in Clients \cup {Initial} : listed("all", tag) # {}}
        /\ \A p \in shown :
            LET cases == list_testcases(work, p)
                places == Ascending({i \in DOMAIN cases : work.cases[cases[i]].sample})
            IN  list_samples(work, p) = [i \in DOMAIN places |-> work.cases[cases[places[i]]].text]

\* The committed tables as the promise describes them.
CommittedCatalog ==
    [p \in DOMAIN disk.problems |->
        [tag |-> disk.problems[p].tag, visible |-> disk.problems[p].visible,
         samples |-> list_samples(disk, p),
         hidden |-> [k \in HiddenOf(disk, p) |-> [ord |-> disk.cases[k].ord, text |-> disk.cases[k].text]]]]

\* The problems that a submission keeps from being deleted, and the requests.
SubmittedTo == {s[2] : s \in DOMAIN disk.status}
Calls == [t \in Clients |-> [op |-> op[t], answer |-> answer[t]]]

Promise ==
    INSTANCE Catalog WITH
        Ops <- AllOperations,
        catalog <- CommittedCatalog,
        usedIds <- 1..disk.lastProblem,
        usedCases <- 1..disk.lastCase,
        kept <- SubmittedTo,
        call <- Calls

\* Each request of an administrator takes effect as a whole at one moment, on
\* the problem it names and nothing else, and is answered accordingly; refused
\* and failed ones leave no trace (module Catalog).
ImplementsCatalog == Promise!CatalogSpec

=============================================================================
