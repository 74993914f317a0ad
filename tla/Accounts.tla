------------------------------ MODULE Accounts ------------------------------
(***************************************************************************)
(* The users of the judge and the requests that change them: register,     *)
(* change_password, reset_password and change_role, each on an HTTP thread *)
(* of its own and all of them on the one SQLite connection of the server   *)
(* (db/database.h).                                                        *)
(*                                                                         *)
(* Two kinds of code write through the connection.  change_password and    *)
(* change_role hold transaction_mutex() from BEGIN IMMEDIATE to COMMIT or  *)
(* ROLLBACK.  UserStore::create and UserAdminStore::reset_password are one *)
(* INSERT or UPDATE ... RETURNING without the mutex: the write is done     *)
(* when step() returns the row, the statement ends when it is finalized.   *)
(* The transaction belongs to the connection, not to the thread, so a      *)
(* single write that runs while one is open is part of it.  The last error *)
(* belongs to the connection, too.  What the statements do to connection   *)
(* and file is SQLite's; who runs which under which lock is the code's.    *)
(***************************************************************************)
EXTENDS Integers, Sequences, FiniteSets

CONSTANTS
    Registrations,  \* requests, by kind
    Changes,
    Resets,
    RoleChanges,
    AccountSpace,   \* what RandomAccountGenerator may draw
    Nicknames,      \* what users ask for
    InitialUsers,   \* users at the start; account and nickname i for user i
    MaxAttempts,    \* max_account_attempts_
    MaxRequests     \* bound: requests of a behaviour

Transactions == Changes \cup RoleChanges
Singles == Registrations \cup Resets
Requests == Transactions \cup Singles

ASSUME AccountsAssumption ==
    /\ Registrations \cap (Changes \cup Resets \cup RoleChanges) = {}
    /\ Changes \cap (Resets \cup RoleChanges) = {}
    /\ Resets \cap RoleChanges = {}
    /\ "initial" \notin Requests
    /\ InitialUsers \in Nat \ {0}
    /\ MaxAttempts \in Nat \ {0}
    /\ MaxRequests \in Nat

Roles == {"admin", "user"}

\* A password is named by the request that has set it.
Passwords == {"initial"} \cup Registrations \cup Changes \cup Resets

VARIABLES
    work,        \* the table users as the connection sees it; the id is the index
    disk,        \* the table as committed
    inTx,        \* a transaction is open on the connection
    openWrites,  \* single writes stepped but not finalized
    errcode,     \* last error of the connection: none, or the column of a conflict
    mutex,       \* owner of transaction_mutex(), {} when free
    pc,
    arg,         \* per request, what it was asked for, or what it has read
    attempts,    \* per registration, accounts tried
    outcome      \* per request, the answer

connVars == <<work, disk, inTx, openWrites, errcode, mutex>>
vars == <<connVars, pc, arg, attempts, outcome>>

NoArg == [id |-> 0, old |-> "none", role |-> "user", name |-> 0, hit |-> "none"]

Init ==
    /\ \E roles \in [1..InitialUsers -> Roles] :
        /\ \E i \in 1..InitialUsers : roles[i] = "admin"
        /\ work = [i \in 1..InitialUsers |->
                     [account |-> i, nickname |-> i, password |-> "initial",
                      role |-> roles[i], flag |-> FALSE]]
    /\ disk = work
    /\ inTx = FALSE
    /\ openWrites = {}
    /\ errcode = "none"
    /\ mutex = {}
    /\ pc = [t \in Requests |-> "idle"]
    /\ arg = [t \in Requests |-> NoArg]
    /\ attempts = [g \in Registrations |-> 0]
    /\ outcome = [t \in Requests |-> "none"]

Goto(t, to) == pc' = [pc EXCEPT ![t] = to]
Answer(t, what) == Goto(t, "answered") /\ outcome' = [outcome EXCEPT ![t] = what]
Ask(t, what) == arg' = [arg EXCEPT ![t] = what]
Ids == DOMAIN work

\* A request arrives.
Arrives(t) == pc[t] = "idle" /\ Cardinality({u \in Requests : pc[u] # "idle"}) < MaxRequests

\* Every answer but success and NicknameTaken; what was asked for is forgotten.
Fail(t) == Answer(t, "Failed") /\ Ask(t, NoArg)

\* A statement that succeeds clears the error of the connection.
Cleared == errcode' = "none"

\* Requests that are refused before they write: not authenticated, not an
\* administrator, invalid input, a failed lookup or hash.  Some of them have used
\* the connection.
Refuse(t) ==
    /\ Arrives(t)
    /\ Fail(t)
    /\ errcode' \in {errcode, "none"}
    /\ UNCHANGED <<work, disk, inTx, openWrites, mutex, attempts>>

\* authenticate_request: the token names a user, who is looked up.
\* check_admin: the role, then the flag, as they are at this moment.
check_admin(id) == work[id].role = "admin" /\ ~work[id].flag

-----------------------------------------------------------------------------
(* Transactions.                                                           *)

\* Mutant of begin: the mutex is not taken.
begin_Unlocked(t) ==
    /\ mutex' = mutex \cup {t}
    /\ inTx' = TRUE
    /\ Goto(t, "begun")

\* lock_guard on transaction_mutex(), then BEGIN IMMEDIATE.
begin(t) ==
    /\ mutex = {}
    /\ mutex' = {t}
    /\ inTx' = TRUE
    /\ Goto(t, "begun")

\* ROLLBACK, the mutex is released and the request answered.
rollback(t) ==
    /\ work' = disk
    /\ inTx' = FALSE
    /\ mutex' = mutex \ {t}
    /\ Fail(t)
    /\ UNCHANGED disk

Begin(t) ==
    /\ pc[t] = "authorised"
    /\ \/ begin(t) /\ UNCHANGED <<arg, outcome>>
       \/ mutex = {} /\ Fail(t) /\ UNCHANGED <<inTx, mutex>>
    /\ Cleared
    /\ UNCHANGED <<work, disk, openWrites, attempts>>

\* COMMIT, which SQLite refuses while a write of another thread is in progress;
\* if it fails, ROLLBACK.
Commit(t) ==
    /\ pc[t] = "updated"
    /\ \/ /\ openWrites = {}
          /\ disk' = work
          /\ inTx' = FALSE
          /\ mutex' = mutex \ {t}
          /\ Answer(t, "Success")
          /\ UNCHANGED <<work, arg>>
       \/ rollback(t)
    /\ Cleared
    /\ UNCHANGED <<openWrites, attempts>>

\* The current user of a change; the new password is hashed before the lock.
ChangeAuthorise(c) ==
    /\ Arrives(c)
    /\ \E id \in Ids : Ask(c, [NoArg EXCEPT !.id = id])
    /\ Goto(c, "authorised")
    /\ Cleared
    /\ UNCHANGED <<work, disk, inTx, openWrites, mutex, attempts, outcome>>

\* Mutant of ChangeVerify: the hash was read before the transaction, here at the
\* start.
ChangeVerify_Stale(c) ==
    /\ pc[c] = "begun"
    /\ \/ /\ arg[c].id \in Ids
          /\ Ask(c, [arg[c] EXCEPT !.old = "initial"])
          /\ Goto(c, "verified")
          /\ UNCHANGED <<work, disk, inTx, mutex, outcome>>
       \/ rollback(c)
    /\ Cleared
    /\ UNCHANGED <<openWrites, attempts>>

\* find_by_id, then the old password is compared with the hash just read.  It is
\* the right one, or ROLLBACK: it is not, the user is gone, a call has failed.
ChangeVerify(c) ==
    /\ pc[c] = "begun"
    /\ \/ /\ arg[c].id \in Ids
          /\ Ask(c, [arg[c] EXCEPT !.old = work[arg[c].id].password])
          /\ Goto(c, "verified")
          /\ UNCHANGED <<work, disk, inTx, mutex, outcome>>
       \/ rollback(c)
    /\ Cleared
    /\ UNCHANGED <<openWrites, attempts>>

\* One UPDATE sets the hash and clears the flag.
ChangeUpdate(c) ==
    /\ pc[c] = "verified"
    /\ \/ /\ work' = [work EXCEPT ![arg[c].id].password = c, ![arg[c].id].flag = FALSE]
          /\ Goto(c, "updated")
          /\ UNCHANGED <<disk, inTx, mutex, arg, outcome>>
       \/ rollback(c)
    /\ Cleared
    /\ UNCHANGED <<openWrites, attempts>>

\* An administrator asks for a role of some user, who need not exist.
RoleAuthorise(r) ==
    /\ Arrives(r)
    /\ \E admin \in Ids : check_admin(admin)
    /\ \E id \in 1..(Len(work) + 1), role \in Roles : Ask(r, [NoArg EXCEPT !.id = id, !.role = role])
    /\ Goto(r, "authorised")
    /\ Cleared
    /\ UNCHANGED <<work, disk, inTx, openWrites, mutex, attempts, outcome>>

Admins(table) == {i \in DOMAIN table : table[i].role = "admin"}

\* Mutant of IsLastAdmin: off by one.
IsLastAdmin_OffByOne(id, role) ==
    work[id].role = "admin" /\ role # "admin" /\ Cardinality(Admins(work)) < 1

\* The user is an administrator, would not be one, and is the only one.
IsLastAdmin(id, role) ==
    work[id].role = "admin" /\ role # "admin" /\ Cardinality(Admins(work)) <= 1

\* The user exists and is not the last administrator; otherwise, or if a call
\* fails, ROLLBACK.
RoleCheck(r) ==
    /\ pc[r] = "begun"
    /\ \/ /\ arg[r].id \in Ids
          /\ ~IsLastAdmin(arg[r].id, arg[r].role)
          /\ Goto(r, "checked")
          /\ UNCHANGED <<work, disk, inTx, mutex, arg, outcome>>
       \/ rollback(r)
    /\ Cleared
    /\ UNCHANGED <<openWrites, attempts>>

RoleUpdate(r) ==
    /\ pc[r] = "checked"
    /\ \/ /\ work' = [work EXCEPT ![arg[r].id].role = arg[r].role]
          /\ Goto(r, "updated")
          /\ UNCHANGED <<disk, inTx, mutex, arg, outcome>>
       \/ rollback(r)
    /\ Cleared
    /\ UNCHANGED <<openWrites, attempts>>

-----------------------------------------------------------------------------
(* Single writes.                                                          *)

\* step() has returned the row of t.
Stepped(t, table) ==
    /\ work' = table
    /\ openWrites' = openWrites \cup {t}
    /\ Goto(t, "stepped")
    /\ Cleared
    /\ UNCHANGED outcome

\* ~Statement finalizes.  Outside a transaction the last write statement to end
\* commits; inside one nothing is committed.  The caller reports success.
Finalize(t) ==
    /\ pc[t] = "stepped"
    /\ openWrites' = openWrites \ {t}
    /\ disk' = IF ~inTx /\ openWrites = {t} THEN work ELSE disk
    /\ Answer(t, "Success")
    /\ Cleared
    /\ UNCHANGED <<work, inTx, mutex, arg, attempts>>

ResetAuthorise(s) ==
    /\ Arrives(s)
    /\ \E admin \in Ids : check_admin(admin)
    /\ \E id \in 1..(Len(work) + 1) : Ask(s, [NoArg EXCEPT !.id = id])
    /\ Goto(s, "authorised")
    /\ Cleared
    /\ UNCHANGED <<work, disk, inTx, openWrites, mutex, attempts, outcome>>

\* One UPDATE sets the hash and the flag.
reset_password(s) ==
    /\ pc[s] = "authorised"
    /\ \/ /\ arg[s].id \in Ids
          /\ Stepped(s, [work EXCEPT ![arg[s].id].password = s, ![arg[s].id].flag = TRUE])
          /\ UNCHANGED arg
       \/ Fail(s) /\ Cleared /\ UNCHANGED <<work, openWrites>>
    /\ UNCHANGED <<disk, inTx, mutex, attempts>>

\* The lookup of the nickname before the hash is computed.
RegisterLookup(g) ==
    /\ Arrives(g)
    /\ \E name \in Nicknames :
        /\ Ask(g, [NoArg EXCEPT !.name = name])
        /\ IF \E i \in Ids : work[i].nickname = name
           THEN Answer(g, "NicknameTaken")
           ELSE Goto(g, "looked") /\ UNCHANGED outcome
    /\ Cleared
    /\ UNCHANGED <<work, disk, inTx, openWrites, mutex, attempts>>

\* One attempt: an account is drawn and the row inserted, unless a unique column
\* has the value already.  A conflict is the error of the connection.
create(g) ==
    /\ pc[g] = "looked"
    /\ \/ \E account \in AccountSpace :
            LET conflicts ==
                  {"nickname" : i \in {j \in Ids : work[j].nickname = arg[g].name}} \cup
                  {"account" : i \in {j \in Ids : work[j].account = account}}
            IN  \/ /\ conflicts = {}
                   /\ Stepped(g, Append(work, [account |-> account, nickname |-> arg[g].name,
                                               password |-> g, role |-> "user", flag |-> FALSE]))
                   /\ Ask(g, [arg[g] EXCEPT !.id = Len(work) + 1, !.hit = "none"])
                \/ \E column \in conflicts :
                      /\ errcode' = column
                      /\ Ask(g, [arg[g] EXCEPT !.hit = column])
                      /\ Goto(g, "conflict")
                      /\ UNCHANGED <<work, openWrites, outcome>>
       \/ Fail(g) /\ Cleared /\ UNCHANGED <<work, openWrites>>
    /\ UNCHANGED <<disk, inTx, mutex, attempts>>

\* Mutant of Retry: the attempts are not counted.
Retry_Endless(g) == Goto(g, "looked") /\ UNCHANGED <<attempts, outcome>>

\* The next attempt, or the end of them.
Retry(g) ==
    IF attempts[g] + 1 < MaxAttempts
    THEN /\ attempts' = [attempts EXCEPT ![g] = @ + 1]
         /\ Goto(g, "looked")
         /\ UNCHANGED outcome
    ELSE Answer(g, "Failed") /\ UNCHANGED attempts

\* Which conflict it was is read from the connection: extended_errcode and errmsg
\* (step() returns the extended code, so the first test of its result never holds).
\* The end of the failed statement reports its error once more.
Classify(g) ==
    /\ pc[g] = "conflict"
    /\ CASE errcode = "nickname" -> Answer(g, "NicknameTaken") /\ UNCHANGED attempts
         [] errcode = "account" -> Retry(g)
         [] OTHER -> Answer(g, "Failed") /\ UNCHANGED attempts
    /\ errcode' = arg[g].hit
    /\ UNCHANGED <<work, disk, inTx, openWrites, mutex, arg>>

-----------------------------------------------------------------------------
ChangeNext(c) == ChangeAuthorise(c) \/ Begin(c) \/ ChangeVerify(c) \/ ChangeUpdate(c) \/ Commit(c)
RoleNext(r) == RoleAuthorise(r) \/ Begin(r) \/ RoleCheck(r) \/ RoleUpdate(r) \/ Commit(r)
ResetNext(s) == ResetAuthorise(s) \/ reset_password(s) \/ Finalize(s)
RegisterNext(g) == RegisterLookup(g) \/ create(g) \/ Classify(g) \/ Finalize(g)

Next ==
    \/ \E t \in Requests : Refuse(t)
    \/ \E c \in Changes : ChangeNext(c)
    \/ \E r \in RoleChanges : RoleNext(r)
    \/ \E s \in Resets : ResetNext(s)
    \/ \E g \in Registrations : RegisterNext(g)

Spec == Init /\ [][Next]_vars

\* Threads that can run are scheduled.
Fairness ==
    /\ \A c \in Changes : WF_vars(ChangeNext(c))
    /\ \A r \in RoleChanges : WF_vars(RoleNext(r))
    /\ \A s \in Resets : WF_vars(ResetNext(s))
    /\ \A g \in Registrations : WF_vars(RegisterNext(g))

FairSpec == Spec /\ Fairness

-----------------------------------------------------------------------------
(* Properties.                                                             *)

Row == [account : AccountSpace \cup (1..InitialUsers), nickname : Nicknames \cup (1..InitialUsers),
        password : Passwords, role : Roles, flag : BOOLEAN]

AccountsTypeOK ==
    /\ work \in Seq(Row) /\ disk \in Seq(Row)
    /\ inTx \in BOOLEAN
    /\ openWrites \subseteq Singles
    /\ mutex \subseteq Transactions
    /\ errcode \in {"none", "nickname", "account"}
    /\ \A g \in Registrations : attempts[g] \in 0..(MaxAttempts - 1)
    /\ outcome \in [Requests -> {"none", "Success", "NicknameTaken", "Failed"}]
    /\ pc \in [Requests -> {"idle", "authorised", "begun", "verified", "checked", "updated",
                            "looked", "conflict", "stepped", "answered"}]
    /\ \A t \in Requests : pc[t] = "answered" <=> outcome[t] # "none"

OneTransaction ==
    /\ inTx <=> mutex # {}
    /\ Cardinality(mutex) <= 1
    /\ \A t \in Transactions : t \in mutex <=> pc[t] \in {"begun", "verified", "checked", "updated"}

\* There is an administrator at every moment, in what the server sees and in what
\* it would see after a restart, however many of them demote each other at the
\* same time (change_role).
AdminRemains == Admins(work) # {} /\ Admins(disk) # {}

\* Of several changes that rely on the same old password of a user only one
\* succeeds (change_password compares in its transaction).
OneChangePerPassword ==
    \A c, d \in Changes :
        c # d /\ outcome[c] = "Success" /\ outcome[d] = "Success" /\ arg[c].id = arg[d].id
            => arg[c].old # arg[d].old

FailureLeavesNothing ==
    \A t \in Requests : pc[t] = "answered" /\ outcome[t] # "Success" =>
        \A i \in Ids \cup DOMAIN disk :
            /\ i \in Ids => work[i].password # t
            /\ i \in DOMAIN disk => disk[i].password # t

\* The state is well typed; transaction_mutex() keeps BEGIN out of an open
\* transaction, and every open transaction has the one owner that will end it;
\* so a request that was not answered with success has left nothing: no user has
\* its password, neither now nor after a restart, whatever step of it has failed.
TransactionsIsolated == AccountsTypeOK /\ OneTransaction /\ FailureLeavesNothing

\* Every request that began is answered: the server comes to rest, no thread keeps
\* the mutex and no registration draws accounts for ever.
EveryRequestAnswered == <>[](\A t \in Requests : pc[t] \in {"idle", "answered"})

\* A registration that was answered with success has its record for good: users
\* are never removed (SPEC.md, accounts are never given to anyone else).
RecordsKept ==
    \A g \in Registrations : outcome[g] = "Success" =>
        arg[g].id \in Ids /\ work[arg[g].id].nickname = arg[g].name

=============================================================================
