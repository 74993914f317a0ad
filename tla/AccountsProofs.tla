---------------------------- MODULE AccountsProofs ----------------------------
(***************************************************************************)
(* Proofs about the users of the judge and how they come in.               *)
(*                                                                         *)
(* First Accounts, for any number of users and of requests of each kind,   *)
(* and however the writes without the mutex fall into the transactions of  *)
(* the others.                                                             *)
(*                                                                         *)
(* Then RateLimiter, for any number of logins and sources, any limit,      *)
(* window and sweep interval, and however the readings of the clock and    *)
(* the mutex interleave.  The deque of a source and the history of its     *)
(* attempts are tied together by a matching: behind every time in the      *)
(* deque there is an attempt of its own, in the order of the decisions.    *)
(* It bounds the attempts of the last window from above (WindowBound) and, *)
(* when a login is turned away, from below (RefusalIsFair).                *)
(***************************************************************************)
EXTENDS Accounts, RateLimiter, FiniteSetTheorems, SequenceTheorems, WellFoundedInduction, TLAPS

InTransaction == {"begun", "verified", "checked", "updated"}

Args == [id : Nat, old : Passwords \cup {"none"}, role : Roles, name : Nicknames \cup {0},
         hit : {"none", "nickname", "account"}]

TypeInv ==
    /\ work \in Seq(Row) /\ disk \in Seq(Row)
    /\ inTx \in BOOLEAN
    /\ openWrites \subseteq Singles
    /\ mutex \subseteq Transactions
    /\ errcode \in {"none", "nickname", "account"}
    /\ attempts \in [Registrations -> 0..(MaxAttempts - 1)]
    /\ outcome \in [Requests -> {"none", "Success", "NicknameTaken", "Failed"}]
    /\ pc \in [Requests -> {"idle", "authorised", "begun", "verified", "checked", "updated",
                            "looked", "conflict", "stepped", "answered"}]
    /\ arg \in [Requests -> Args]
    /\ \A t \in Requests : pc[t] = "answered" <=> outcome[t] # "none"
    /\ \A g \in Registrations : pc[g] \in {"looked", "conflict"} => arg[g].name \in Nicknames

\* transaction_mutex(), the open transaction and the thread within it are one.
TxInv ==
    /\ inTx <=> mutex # {}
    /\ \A t, u \in mutex : t = u
    /\ \A t \in Requests : pc[t] \in InTransaction <=> t \in mutex
    /\ \A c \in Changes : pc[c] # "checked"
    /\ \A r \in RoleChanges : pc[r] # "verified"

\* Whose password a user has: a request that is done, or still at it.
UseInv ==
    \A t \in Requests :
        /\ \A i \in DOMAIN work : work[i].password = t => pc[t] \in {"updated", "stepped"} \/ outcome[t] = "Success"
        /\ \A i \in DOMAIN disk : disk[i].password = t => pc[t] = "stepped" \/ outcome[t] = "Success"

\* What change_role has checked still holds when it writes.
AdminInv ==
    /\ AdminRemains
    /\ \A r \in RoleChanges : pc[r] = "checked" =>
          arg[r].role = "admin" \/ \E i \in Admins(work) : i # arg[r].id

\* A password of which the request will never write again.
Spent(password) == password \in Requests => pc[password] \in {"updated", "stepped", "answered"}

\* The old password of a change that has succeeded is gone for good, and a change
\* under way has one that no other has replaced.
OldInv ==
    \A c \in Changes :
        /\ outcome[c] = "Success" =>
            /\ Spent(arg[c].old)
            /\ \A i \in DOMAIN work : i = arg[c].id => work[i].password # arg[c].old
            /\ \A i \in DOMAIN disk : i = arg[c].id => disk[i].password # arg[c].old
        /\ pc[c] \in {"verified", "updated"} =>
            /\ Spent(arg[c].old)
            /\ \A d \in Changes : outcome[d] = "Success" /\ arg[d].id = arg[c].id => arg[d].old # arg[c].old
        /\ pc[c] = "updated" => \A i \in DOMAIN work : i = arg[c].id => work[i].password # arg[c].old

AccountsInv == TypeInv /\ TxInv /\ UseInv /\ AdminInv /\ OldInv

-----------------------------------------------------------------------------
(* The table users.                                                        *)

\* A table is a function on its ids.
LEMMA TableType ==
    ASSUME NEW table \in Seq(Row)
    PROVE  /\ Len(table) \in Nat /\ DOMAIN table = 1..Len(table)
           /\ \A i \in DOMAIN table : table[i] \in Row
  BY LenProperties, ElementOfSeq

\* An UPDATE of one row keeps the others, and the ids.
LEMMA UpdatedTable ==
    ASSUME NEW table \in Seq(Row), NEW id, NEW row, id \in DOMAIN table => row \in Row
    PROVE  LET new == [table EXCEPT ![id] = row]
           IN  /\ new \in Seq(Row) /\ DOMAIN new = DOMAIN table
               /\ \A i \in DOMAIN table : new[i] = IF i = id THEN row ELSE table[i]
<1> DEFINE new == [table EXCEPT ![id] = row]
<1>1. Len(table) \in Nat /\ DOMAIN table = 1..Len(table) /\ \A i \in DOMAIN table : table[i] \in Row
  BY TableType
<1>2. DOMAIN new = DOMAIN table /\ \A i \in DOMAIN table : new[i] = IF i = id THEN row ELSE table[i]
  OBVIOUS
<1>3. new \in [1..Len(table) -> Row]
  BY <1>1, <1>2
<1>4. new \in Seq(Row)
  BY <1>1, <1>3 DEF Seq
<1> QED BY <1>2, <1>4

\* The one UPDATE of change_password and reset_password: the hash and the flag.
WithPassword(table, id, t, new) ==
    \/ new = [table EXCEPT ![id].password = t, ![id].flag = TRUE]
    \/ new = [table EXCEPT ![id].password = t, ![id].flag = FALSE]

PasswordSet(table, id, t, new) ==
    /\ new \in Seq(Row) /\ DOMAIN new = DOMAIN table
    /\ \A i \in DOMAIN table : new[i].role = table[i].role
    /\ \A i \in DOMAIN table : new[i].password = IF i = id THEN t ELSE table[i].password

\* It sets the password of one user, and changes neither roles nor ids.
LEMMA PasswordWritten ==
    ASSUME NEW table \in Seq(Row), NEW id, NEW t \in Passwords, NEW new, WithPassword(table, id, t, new)
    PROVE  PasswordSet(table, id, t, new)
<1>1. Len(table) \in Nat /\ DOMAIN table = 1..Len(table) /\ \A i \in DOMAIN table : table[i] \in Row
  BY TableType
<1>2. DOMAIN new = DOMAIN table /\ \A i \in DOMAIN table : i # id => new[i] = table[i]
  BY DEF WithPassword
<1>3. id \in DOMAIN table => \/ new[id] = [table[id] EXCEPT !.password = t, !.flag = TRUE]
                             \/ new[id] = [table[id] EXCEPT !.password = t, !.flag = FALSE]
  BY DEF WithPassword
<1>4. id \in DOMAIN table => new[id] \in Row /\ new[id].role = table[id].role /\ new[id].password = t
  BY <1>1, <1>3 DEF Row
<1>5. \A i \in DOMAIN table : new[i] \in Row
  BY <1>1, <1>2, <1>4
<1>6. new \in [DOMAIN table -> Row]
  BY <1>2, <1>5 DEF WithPassword
<1>7. new \in Seq(Row)
  BY <1>1, <1>6 DEF Seq
<1> QED BY <1>2, <1>4, <1>7 DEF PasswordSet

\* What every user is at the start.
LEMMA AccountsInit == Init => AccountsInv
<1> SUFFICES ASSUME Init PROVE AccountsInv
  OBVIOUS
<1>1. PICK roles \in [1..InitialUsers -> Roles] :
        /\ \E i \in 1..InitialUsers : roles[i] = "admin"
        /\ work = [i \in 1..InitialUsers |->
                     [account |-> i, nickname |-> i, password |-> "initial", role |-> roles[i], flag |-> FALSE]]
  BY DEF Init
<1>2. work \in [1..InitialUsers -> Row] /\ InitialUsers \in Nat
  BY <1>1, AccountsAssumption DEF Row, Passwords
<1>3. work \in Seq(Row) /\ disk = work
  BY <1>2 DEF Init, Seq
<1>4. DOMAIN work = 1..InitialUsers /\ \A i \in DOMAIN work : work[i].password = "initial" /\ work[i].role = roles[i]
  BY <1>1
<1>5. TypeInv
  <2>1. NoArg \in Args
    BY DEF NoArg, Args, Roles
  <2>2. \A g \in Registrations : pc[g] = "idle"
    BY DEF Init, Requests, Singles
  <2>3. /\ inTx \in BOOLEAN /\ openWrites \subseteq Singles /\ mutex \subseteq Transactions
        /\ errcode \in {"none", "nickname", "account"}
    BY DEF Init
  <2>4. attempts \in [Registrations -> 0..(MaxAttempts - 1)]
    BY AccountsAssumption DEF Init
  <2>5. /\ outcome \in [Requests -> {"none", "Success", "NicknameTaken", "Failed"}]
        /\ pc \in [Requests -> {"idle", "authorised", "begun", "verified", "checked", "updated",
                               "looked", "conflict", "stepped", "answered"}]
        /\ \A t \in Requests : pc[t] = "answered" <=> outcome[t] # "none"
    BY DEF Init
  <2>6. arg \in [Requests -> Args]
    BY <2>1 DEF Init
  <2> QED BY <1>3, <2>2, <2>3, <2>4, <2>5, <2>6 DEF TypeInv
<1>6. TxInv
  BY AccountsAssumption DEF Init, TxInv, InTransaction, Requests, Transactions
<1>7. UseInv
  BY <1>3, <1>4, AccountsAssumption DEF UseInv
<1>8. AdminInv
  <2>1. AdminRemains
    BY <1>1, <1>3, <1>4 DEF AdminRemains, Admins
  <2>2. \A r \in RoleChanges : pc[r] = "idle"
    BY DEF Init, Requests, Transactions
  <2> QED BY <2>1, <2>2 DEF AdminInv
<1>9. OldInv
  BY DEF OldInv, Init, Requests, Transactions
<1> QED BY <1>5, <1>6, <1>7, <1>8, <1>9 DEF AccountsInv

-----------------------------------------------------------------------------
(* Steps.  A quiet one leaves the tables and the lock alone.               *)

Quiet(t, to, asked) ==
    /\ UNCHANGED <<work, disk, inTx, openWrites, mutex>>
    /\ pc[t] \notin InTransaction \cup {"stepped", "answered"}
    /\ to \in {"authorised", "looked", "conflict", "answered"}
    /\ pc' = [pc EXCEPT ![t] = to]
    /\ asked \in Args
    /\ arg' = [arg EXCEPT ![t] = asked]
    /\ t \in Registrations /\ to \in {"looked", "conflict"} => asked.name \in Nicknames
    /\ \/ to # "answered" /\ outcome' = outcome
       \/ to = "answered" /\ \E what \in {"Failed", "NicknameTaken"} : outcome' = [outcome EXCEPT ![t] = what]
    /\ errcode' \in {"none", "nickname", "account"}
    /\ attempts' \in [Registrations -> 0..(MaxAttempts - 1)]

\* A quiet step, of any request, disturbs nothing.
LEMMA QuietInv ==
    ASSUME AccountsInv, NEW t \in Requests, NEW to, NEW asked, Quiet(t, to, asked)
    PROVE  AccountsInv'
<1> USE DEF AccountsInv
<1>0. UNCHANGED <<work, disk, inTx, openWrites, mutex>>
  BY DEF Quiet
<1>1. /\ pc'[t] = to /\ arg'[t] = asked
      /\ \A u \in Requests : u # t => pc'[u] = pc[u] /\ arg'[u] = arg[u] /\ outcome'[u] = outcome[u]
      /\ outcome[t] = "none" /\ outcome'[t] # "Success" /\ (to = "answered" <=> outcome'[t] # "none")
  BY DEF Quiet, TypeInv
<1>2. TypeInv'
  <2>1. /\ pc' \in [Requests -> {"idle", "authorised", "begun", "verified", "checked", "updated",
                                "looked", "conflict", "stepped", "answered"}]
        /\ arg' \in [Requests -> Args]
    BY DEF TypeInv, Quiet
  <2>2. outcome' \in [Requests -> {"none", "Success", "NicknameTaken", "Failed"}]
    BY DEF TypeInv, Quiet
  <2>3. \A u \in Requests : pc'[u] = "answered" <=> outcome'[u] # "none"
    BY <1>1 DEF TypeInv
  <2>4. \A g \in Registrations : pc'[g] \in {"looked", "conflict"} => arg'[g].name \in Nicknames
    BY <1>1 DEF TypeInv, Quiet, Requests, Singles
  <2> QED BY <1>0, <2>1, <2>2, <2>3, <2>4 DEF TypeInv, Quiet
<1>3. TxInv'
  BY <1>0, <1>1 DEF TxInv, Quiet, InTransaction, Requests, Transactions
<1>4. UseInv'
  BY <1>0, <1>1 DEF UseInv, Quiet, InTransaction
<1>5. AdminInv'
  BY <1>0, <1>1 DEF AdminInv, AdminRemains, Admins, Quiet, Requests, Transactions
<1>6. \A p : Spent(p) => Spent(p)'
  BY <1>1 DEF Spent, Quiet, InTransaction
<1>7. OldInv'
  BY <1>0, <1>1, <1>6 DEF OldInv, Quiet, Requests, Transactions
<1> QED BY <1>2, <1>3, <1>4, <1>5, <1>7

\* Requests that only look, or are refused, are quiet.
LEMMA AskedType ==
    /\ NoArg \in Args
    /\ \A id \in Nat : [NoArg EXCEPT !.id = id] \in Args
    /\ \A id \in Nat, role \in Roles : [NoArg EXCEPT !.id = id, !.role = role] \in Args
    /\ \A name \in Nicknames : [NoArg EXCEPT !.name = name] \in Args /\ [NoArg EXCEPT !.name = name].name = name
  BY DEF NoArg, Args, Roles

\* A request refused before it touches the tables changes nothing that matters.
LEMMA RefuseInv == ASSUME AccountsInv, NEW t \in Requests, Refuse(t) PROVE AccountsInv'
<1>1. Quiet(t, "answered", NoArg)
  BY AskedType DEF Refuse, Arrives, Fail, Answer, Ask, Goto, Quiet, InTransaction, AccountsInv, TypeInv
<1> QED BY <1>1, QuietInv

\* The administrator check of a request only records what it asks for.
LEMMA AuthoriseInv ==
    ASSUME AccountsInv, NEW t \in Requests, ChangeAuthorise(t) \/ RoleAuthorise(t) \/ ResetAuthorise(t)
    PROVE  AccountsInv'
<1>0. Len(work) \in Nat /\ DOMAIN work = 1..Len(work)
  BY TableType DEF AccountsInv, TypeInv
<1>1. ASSUME NEW asked \in Args, arg' = [arg EXCEPT ![t] = asked] PROVE Quiet(t, "authorised", asked)
  BY <1>1 DEF ChangeAuthorise, RoleAuthorise, ResetAuthorise, Arrives, Goto, Cleared, Quiet, InTransaction,
              AccountsInv, TypeInv
<1>2. \E asked \in Args : arg' = [arg EXCEPT ![t] = asked]
  <2>1. CASE ChangeAuthorise(t)
    <3>1. PICK id \in DOMAIN work : arg' = [arg EXCEPT ![t] = [NoArg EXCEPT !.id = id]]
      BY <2>1 DEF ChangeAuthorise, Ids, Ask
    <3>2. [NoArg EXCEPT !.id = id] \in Args
      <4>1. id \in Nat
        BY <1>0
      <4> QED BY <4>1, AskedType
    <3> QED BY <3>1, <3>2
  <2>2. CASE RoleAuthorise(t)
    <3>1. PICK id \in 1..(Len(work) + 1), role \in Roles :
            arg' = [arg EXCEPT ![t] = [NoArg EXCEPT !.id = id, !.role = role]]
      BY <2>2 DEF RoleAuthorise, Ask
    <3>2. [NoArg EXCEPT !.id = id, !.role = role] \in Args
      <4>1. id \in Nat
        BY <1>0
      <4> QED BY <4>1, AskedType
    <3> QED BY <3>1, <3>2
  <2>3. CASE ResetAuthorise(t)
    <3>1. PICK id \in 1..(Len(work) + 1) : arg' = [arg EXCEPT ![t] = [NoArg EXCEPT !.id = id]]
      BY <2>3 DEF ResetAuthorise, Ask
    <3>2. [NoArg EXCEPT !.id = id] \in Args
      <4>1. id \in Nat
        BY <1>0
      <4> QED BY <4>1, AskedType
    <3> QED BY <3>1, <3>2
  <2> QED BY <2>1, <2>2, <2>3
<1> QED BY <1>1, <1>2, QuietInv

\* The look-up of a nickname before it is registered reads and does not write.
LEMMA LookupInv == ASSUME AccountsInv, NEW g \in Registrations, RegisterLookup(g) PROVE AccountsInv'
<1>1. PICK name \in Nicknames :
        /\ arg' = [arg EXCEPT ![g] = [NoArg EXCEPT !.name = name]]
        /\ \/ /\ pc' = [pc EXCEPT ![g] = "answered"]
              /\ outcome' = [outcome EXCEPT ![g] = "NicknameTaken"]
           \/ pc' = [pc EXCEPT ![g] = "looked"] /\ outcome' = outcome
  BY DEF RegisterLookup, Ask, Answer, Goto
<1>2. pc[g] = "idle" /\ UNCHANGED <<work, disk, inTx, openWrites, mutex, attempts>> /\ errcode' = "none"
  BY DEF RegisterLookup, Arrives, Cleared
<1>3. \E to : Quiet(g, to, [NoArg EXCEPT !.name = name])
  BY <1>1, <1>2, AskedType DEF Quiet, InTransaction, AccountsInv, TypeInv
<1> QED BY <1>3, QuietInv DEF Requests, Singles

\* The connection's error decides how a conflict is reported.
LEMMA ClassifyInv == ASSUME AccountsInv, NEW g \in Registrations, Classify(g) PROVE AccountsInv'
<1>0. g \in Requests
  BY DEF Requests, Singles
<1>1. /\ pc[g] = "conflict" /\ UNCHANGED <<work, disk, inTx, openWrites, mutex, arg>> /\ errcode' = arg[g].hit
  BY DEF Classify
<1>2. arg[g] \in Args /\ arg[g].name \in Nicknames /\ arg[g].hit \in {"none", "nickname", "account"}
  BY <1>0, <1>1 DEF AccountsInv, TypeInv, Args
<1>3. arg' = [arg EXCEPT ![g] = arg[g]]
  BY <1>0, <1>1 DEF AccountsInv, TypeInv
<1>4. \/ /\ pc' = [pc EXCEPT ![g] = "answered"]
         /\ \E what \in {"Failed", "NicknameTaken"} : outcome' = [outcome EXCEPT ![g] = what]
      \/ pc' = [pc EXCEPT ![g] = "looked"] /\ outcome' = outcome
  BY DEF Classify, Retry, Answer, Goto
<1>5. attempts' \in [Registrations -> 0..(MaxAttempts - 1)]
  <2>1. \/ attempts' = attempts
        \/ attempts[g] + 1 < MaxAttempts /\ attempts' = [attempts EXCEPT ![g] = @ + 1]
    BY DEF Classify, Retry
  <2>2. attempts \in [Registrations -> 0..(MaxAttempts - 1)] /\ attempts[g] \in 0..(MaxAttempts - 1)
    BY DEF AccountsInv, TypeInv
  <2>3. attempts[g] + 1 < MaxAttempts => attempts[g] + 1 \in 0..(MaxAttempts - 1)
    BY <2>2, AccountsAssumption
  <2> QED BY <2>1, <2>2, <2>3
<1>6. \E to : Quiet(g, to, arg[g])
  BY <1>1, <1>2, <1>3, <1>4, <1>5 DEF Quiet, InTransaction
<1> QED BY <1>0, <1>6, QuietInv

-----------------------------------------------------------------------------
(* Transactions.                                                           *)

\* While a thread is within its transaction no other one is.
LEMMA Alone ==
    ASSUME AccountsInv, NEW t \in Transactions, pc[t] \in InTransaction
    PROVE  /\ t \in Requests /\ t \in mutex /\ inTx /\ mutex \ {t} = {}
           /\ outcome[t] = "none"
           /\ \A u \in Requests : u # t => pc[u] \notin InTransaction
<1>1. t \in Requests
  BY DEF Requests
<1>2. t \in mutex /\ mutex # {}
  BY <1>1 DEF AccountsInv, TxInv
<1>3. outcome[t] = "none"
  BY <1>1 DEF AccountsInv, TypeInv, InTransaction
<1> QED BY <1>1, <1>2, <1>3 DEF AccountsInv, TxInv

\* ROLLBACK, wherever the thread was: what it and the unlocked writes of the others
\* had written goes, and nothing is left of it.
LEMMA RollbackInv ==
    ASSUME AccountsInv, NEW t \in Transactions, pc[t] \in InTransaction, rollback(t), Cleared,
           UNCHANGED <<openWrites, attempts>>
    PROVE  AccountsInv'
<1> USE DEF AccountsInv
<1>0. /\ t \in Requests /\ t \in mutex /\ mutex \ {t} = {} /\ outcome[t] = "none"
      /\ \A u \in Requests : u # t => pc[u] \notin InTransaction
  BY Alone
<1>1. /\ work' = disk /\ disk' = disk /\ inTx' = FALSE /\ mutex' = {}
      /\ pc' = [pc EXCEPT ![t] = "answered"]
      /\ outcome' = [outcome EXCEPT ![t] = "Failed"]
      /\ arg' = [arg EXCEPT ![t] = NoArg]
      /\ errcode' = "none" /\ UNCHANGED <<openWrites, attempts>>
  BY <1>0 DEF rollback, Fail, Answer, Ask, Goto, Cleared
<1>2. /\ pc'[t] = "answered" /\ arg'[t] = NoArg /\ outcome'[t] = "Failed"
      /\ \A u \in Requests : u # t => pc'[u] = pc[u] /\ arg'[u] = arg[u] /\ outcome'[u] = outcome[u]
  BY <1>0, <1>1 DEF TypeInv
<1>3. TypeInv'
  <2>1. \A u \in Requests : pc'[u] = "answered" <=> outcome'[u] # "none"
    BY <1>2 DEF TypeInv
  <2>2. \A g \in Registrations : pc'[g] \in {"looked", "conflict"} => arg'[g].name \in Nicknames
    BY <1>2 DEF TypeInv, Requests, Singles
  <2>3. mutex' \subseteq Transactions
    BY <1>1
  <2> QED BY <1>0, <1>1, <2>1, <2>2, <2>3, AskedType DEF TypeInv
<1>4. TxInv'
  BY <1>0, <1>1, <1>2 DEF TxInv, InTransaction, Requests, Transactions
<1>5. UseInv'
  <2>1. \A u \in Requests : \A i \in DOMAIN disk :
            disk[i].password = u => pc'[u] = "stepped" \/ outcome'[u] = "Success"
    BY <1>0, <1>2 DEF UseInv, InTransaction
  <2> QED BY <1>1, <2>1 DEF UseInv
<1>6. AdminInv'
  <2>1. AdminRemains'
    BY <1>1 DEF AdminInv, AdminRemains, Admins
  <2>2. \A r \in RoleChanges : pc'[r] # "checked"
    BY <1>0, <1>2 DEF InTransaction, Requests, Transactions
  <2> QED BY <2>1, <2>2 DEF AdminInv
<1>7. \A p : Spent(p) => Spent(p)'
  BY <1>2 DEF Spent
<1>8. OldInv'
  <2>1. ASSUME NEW c \in Changes
        PROVE  /\ c \in Requests
               /\ pc'[c] \notin {"verified", "updated"}
               /\ outcome'[c] = "Success" => outcome[c] = "Success" /\ arg'[c] = arg[c]
    <3>1. c \in Requests
      BY DEF Requests, Transactions
    <3> QED BY <1>0, <1>2, <3>1 DEF InTransaction
  <2> QED BY <1>1, <1>7, <2>1 DEF OldInv
<1> QED BY <1>3, <1>4, <1>5, <1>6, <1>8

\* lock_guard and BEGIN IMMEDIATE, or a failing BEGIN.
LEMMA BeginInv == ASSUME AccountsInv, NEW t \in Transactions, Begin(t) PROVE AccountsInv'
<1> USE DEF AccountsInv
<1>0. t \in Requests
  BY DEF Requests
<1>1. CASE Fail(t) /\ UNCHANGED <<inTx, mutex>>
  <2>1. Quiet(t, "answered", NoArg)
    BY <1>1, AskedType DEF Begin, Fail, Answer, Ask, Goto, Cleared, Quiet, InTransaction, TypeInv
  <2> QED BY <1>0, <2>1, QuietInv
<1>2. CASE begin(t) /\ UNCHANGED <<arg, outcome>>
  <2>1. /\ pc[t] = "authorised" /\ mutex = {} /\ mutex' = {t} /\ inTx' = TRUE
        /\ pc' = [pc EXCEPT ![t] = "begun"] /\ errcode' = "none"
        /\ UNCHANGED <<work, disk, openWrites, attempts, arg, outcome>>
    BY <1>2 DEF Begin, begin, Goto, Cleared
  <2>2. pc'[t] = "begun" /\ \A u \in Requests : u # t => pc'[u] = pc[u]
    BY <1>0, <2>1 DEF TypeInv
  <2>3. TypeInv'
    BY <1>0, <2>1 DEF TypeInv, Requests
  <2>4. TxInv'
    BY <1>0, <2>1, <2>2 DEF TxInv, InTransaction, Requests, Transactions
  <2>5. UseInv'
    BY <2>1, <2>2 DEF UseInv
  <2>6. AdminInv'
    BY <2>1, <2>2 DEF AdminInv, AdminRemains, Admins, Requests, Transactions
  <2>7. \A p : Spent(p) => Spent(p)'
    BY <2>1, <2>2 DEF Spent
  <2>8. OldInv'
    BY <2>1, <2>2, <2>7 DEF OldInv, Requests, Transactions
  <2> QED BY <2>3, <2>4, <2>5, <2>6, <2>8
<1> QED BY <1>1, <1>2 DEF Begin

\* The old password that is compared is the one of this moment, and no change that
\* has succeeded has relied on it.
LEMMA VerifyInv == ASSUME AccountsInv, NEW c \in Changes, ChangeVerify(c) PROVE AccountsInv'
<1>0. c \in Transactions /\ c \in Requests /\ pc[c] = "begun" /\ pc[c] \in InTransaction
  BY DEF Transactions, Requests, ChangeVerify, InTransaction
<1>1. CASE rollback(c)
  BY <1>0, <1>1, RollbackInv DEF ChangeVerify
<1>2. CASE ~rollback(c)
  <2> USE DEF AccountsInv
  <2> DEFINE id == arg[c].id
             old == work[id].password
             asked == [arg[c] EXCEPT !.old = old]
  <2>1. /\ id \in DOMAIN work
        /\ arg' = [arg EXCEPT ![c] = asked]
        /\ pc' = [pc EXCEPT ![c] = "verified"] /\ errcode' = "none"
        /\ UNCHANGED <<work, disk, inTx, mutex, outcome, openWrites, attempts>>
    BY <1>2 DEF ChangeVerify, Ids, Ask, Goto, Cleared
  <2>2. /\ outcome[c] = "none"
        /\ \A u \in Requests : u # c => pc[u] \notin InTransaction
    BY <1>0, Alone
  <2>3. old \in Passwords
    BY <2>1, TableType DEF TypeInv, Row
  <2>4. asked \in Args /\ asked.id = id /\ asked.old = old
    BY <1>0, <2>3 DEF TypeInv, Args
  <2> HIDE DEF asked
  <2>5. /\ pc'[c] = "verified" /\ arg'[c] = asked
        /\ \A u \in Requests : u # c => pc'[u] = pc[u] /\ arg'[u] = arg[u]
    BY <1>0, <2>1 DEF TypeInv
  <2>6. TypeInv'
    BY <1>0, <2>1, <2>4 DEF TypeInv
  <2>7. TxInv'
    BY <1>0, <2>1, <2>5, AccountsAssumption DEF TxInv, InTransaction, Requests, Transactions
  <2>8. UseInv'
    BY <1>0, <2>1, <2>5 DEF UseInv
  <2>9. AdminInv'
    BY <1>0, <2>1, <2>5, AccountsAssumption DEF AdminInv, AdminRemains, Admins, Requests, Transactions
  <2>10. \A p : Spent(p) => Spent(p)'
    BY <1>0, <2>5 DEF Spent
  <2>11. Spent(old)
    BY <2>1 DEF UseInv, Spent, TypeInv
  <2>12. OldInv'
    <3>1. ASSUME NEW d \in Changes, outcome[d] = "Success" PROVE arg'[d] = arg[d] /\ (arg[d].id = id => arg[d].old # old)
      <4>1. d \in Requests /\ d # c
        BY <2>2, <3>1 DEF Requests, Transactions
      <4> QED BY <2>1, <2>5, <3>1, <4>1 DEF OldInv
    <3>2. ASSUME NEW d \in Changes, d # c PROVE pc'[d] \notin {"verified", "updated"}
      BY <2>2, <2>5, <3>2 DEF Requests, Transactions, InTransaction
    <3> QED BY <2>1, <2>2, <2>4, <2>5, <2>10, <2>11, <3>1, <3>2 DEF OldInv
  <2> QED BY <2>6, <2>7, <2>8, <2>9, <2>12
<1> QED BY <1>1, <1>2

\* The UPDATE of change_password, within its transaction.
LEMMA ChangeUpdateInv == ASSUME AccountsInv, NEW c \in Changes, ChangeUpdate(c) PROVE AccountsInv'
<1>0. c \in Transactions /\ c \in Requests /\ pc[c] = "verified" /\ pc[c] \in InTransaction /\ c \in Passwords
  BY DEF Transactions, Requests, ChangeUpdate, InTransaction, Passwords
<1>1. CASE rollback(c)
  BY <1>0, <1>1, RollbackInv DEF ChangeUpdate
<1>2. CASE ~rollback(c)
  <2> USE DEF AccountsInv
  <2>1. /\ work' = [work EXCEPT ![arg[c].id].password = c, ![arg[c].id].flag = FALSE]
        /\ pc' = [pc EXCEPT ![c] = "updated"] /\ errcode' = "none"
        /\ UNCHANGED <<disk, inTx, mutex, outcome, arg, openWrites, attempts>>
    BY <1>2 DEF ChangeUpdate, Goto, Cleared
  <2>2. /\ outcome[c] = "none"
        /\ \A u \in Requests : u # c => pc[u] \notin InTransaction
    BY <1>0, Alone
  <2>3. /\ work' \in Seq(Row) /\ DOMAIN work' = DOMAIN work
        /\ \A i \in DOMAIN work : work'[i].role = work[i].role
        /\ \A i \in DOMAIN work : work'[i].password = IF i = arg[c].id THEN c ELSE work[i].password
    <3>1. work \in Seq(Row)
      BY DEF TypeInv
    <3>2. WithPassword(work, arg[c].id, c, work')
      BY <2>1 DEF WithPassword
    <3>3. PasswordSet(work, arg[c].id, c, work')
      BY <1>0, <3>1, <3>2, PasswordWritten
    <3> QED BY <3>3 DEF PasswordSet
  <2>4. pc'[c] = "updated" /\ \A u \in Requests : u # c => pc'[u] = pc[u]
    BY <1>0, <2>1 DEF TypeInv
  <2>5. TypeInv'
    BY <1>0, <2>1, <2>3, <2>4 DEF TypeInv
  <2>6. TxInv'
    BY <1>0, <2>1, <2>4, AccountsAssumption DEF TxInv, InTransaction, Requests, Transactions
  <2>7. UseInv'
    BY <1>0, <2>1, <2>3, <2>4 DEF UseInv
  <2>8. AdminInv'
    <3>1. Admins(work)' = Admins(work)
      BY <2>3 DEF Admins
    <3> QED BY <1>0, <2>1, <2>4, <3>1, AccountsAssumption DEF AdminInv, AdminRemains, Admins, Requests, Transactions
  <2>9. \A p : Spent(p) => Spent(p)' /\ p # c
    BY <1>0, <2>4 DEF Spent
  <2>10. OldInv'
    <3>1. ASSUME NEW d \in Changes, d # c PROVE pc'[d] \notin {"verified", "updated"}
      BY <2>2, <2>4, <3>1 DEF Requests, Transactions, InTransaction
    <3>2. ASSUME NEW d \in Changes, outcome[d] = "Success"
          PROVE  \A i \in DOMAIN work : i = arg[d].id => work'[i].password # arg[d].old
      <4>1. Spent(arg[d].old) /\ arg[d].old # c
        BY <2>9, <3>2 DEF OldInv
      <4> QED BY <2>3, <3>2, <4>1 DEF OldInv
    <3>3. /\ Spent(arg[c].old) /\ arg[c].old # c
          /\ \A d \in Changes : outcome[d] = "Success" /\ arg[d].id = arg[c].id => arg[d].old # arg[c].old
      BY <1>0, <2>9 DEF OldInv
    <3>4. \A i \in DOMAIN work : i = arg[c].id => work'[i].password # arg[c].old
      BY <2>3, <3>3
    <3>5. outcome' = outcome /\ arg' = arg /\ disk' = disk /\ DOMAIN work' = DOMAIN work
      BY <2>1, <2>3
    <3>6. ASSUME NEW d \in Changes, outcome[d] = "Success"
          PROVE  /\ Spent(arg[d].old)'
                 /\ \A i \in DOMAIN work : i = arg[d].id => work'[i].password # arg[d].old
                 /\ \A i \in DOMAIN disk : i = arg[d].id => disk[i].password # arg[d].old
      <4>1. Spent(arg[d].old)'
        BY <2>9, <3>5, <3>6 DEF OldInv
      <4> QED BY <3>2, <3>6, <4>1 DEF OldInv
    <3>7. ASSUME NEW d \in Changes, pc'[d] \in {"verified", "updated"}
          PROVE  /\ Spent(arg[d].old)'
                 /\ \A e \in Changes : outcome[e] = "Success" /\ arg[e].id = arg[d].id => arg[e].old # arg[d].old
                 /\ \A i \in DOMAIN work : i = arg[d].id => work'[i].password # arg[d].old
      <4>1. d = c
        BY <3>1, <3>7
      <4>2. Spent(arg[c].old)'
        BY <2>9, <3>3, <3>5
      <4> QED BY <3>3, <3>4, <4>1, <4>2
    <3> QED BY <3>5, <3>6, <3>7 DEF OldInv
  <2> QED BY <2>5, <2>6, <2>7, <2>8, <2>10
<1> QED BY <1>1, <1>2

\* The count of administrators, in the transaction: another one is left, or the role
\* does not take one away.
LEMMA RoleCheckInv == ASSUME AccountsInv, NEW r \in RoleChanges, RoleCheck(r) PROVE AccountsInv'
<1>0. r \in Transactions /\ r \in Requests /\ pc[r] = "begun" /\ pc[r] \in InTransaction
  BY DEF Transactions, Requests, RoleCheck, InTransaction
<1>1. CASE rollback(r)
  BY <1>0, <1>1, RollbackInv DEF RoleCheck
<1>2. CASE ~rollback(r)
  <2> USE DEF AccountsInv
  <2>1. /\ arg[r].id \in DOMAIN work /\ ~IsLastAdmin(arg[r].id, arg[r].role)
        /\ pc' = [pc EXCEPT ![r] = "checked"] /\ errcode' = "none"
        /\ UNCHANGED <<work, disk, inTx, mutex, outcome, arg, openWrites, attempts>>
    BY <1>2 DEF RoleCheck, Ids, Goto, Cleared
  <2>2. pc'[r] = "checked" /\ \A u \in Requests : u # r => pc'[u] = pc[u]
    BY <1>0, <2>1 DEF TypeInv
  <2>3. TypeInv'
    BY <1>0, <2>1, <2>2 DEF TypeInv
  <2>4. TxInv'
    BY <1>0, <2>1, <2>2, AccountsAssumption DEF TxInv, InTransaction, Requests, Transactions
  <2>5. UseInv'
    BY <1>0, <2>1, <2>2 DEF UseInv
  <2>6. arg[r].role = "admin" \/ \E i \in Admins(work) : i # arg[r].id
    <3> SUFFICES ASSUME arg[r].role # "admin", \A i \in Admins(work) : i = arg[r].id PROVE FALSE
      OBVIOUS
    <3>1. Admins(work) = {arg[r].id}
      BY DEF AdminInv, AdminRemains
    <3>2. Cardinality(Admins(work)) = 1
      BY <3>1, FS_Singleton
    <3>3. work[arg[r].id].role = "admin"
      BY <3>1 DEF Admins
    <3> QED BY <2>1, <3>2, <3>3 DEF IsLastAdmin
  <2>7. AdminInv'
    BY <1>0, <2>1, <2>2, <2>6 DEF AdminInv, AdminRemains, Admins, Requests, Transactions
  <2>8. \A p : Spent(p) => Spent(p)'
    BY <1>0, <2>2 DEF Spent
  <2>9. OldInv'
    BY <1>0, <2>1, <2>2, <2>8, AccountsAssumption DEF OldInv, Requests, Transactions
  <2> QED BY <2>3, <2>4, <2>5, <2>7, <2>9
<1> QED BY <1>1, <1>2

\* The UPDATE of change_role.
LEMMA RoleUpdateInv == ASSUME AccountsInv, NEW r \in RoleChanges, RoleUpdate(r) PROVE AccountsInv'
<1>0. r \in Transactions /\ r \in Requests /\ pc[r] = "checked" /\ pc[r] \in InTransaction
  BY DEF Transactions, Requests, RoleUpdate, InTransaction
<1>1. CASE rollback(r)
  BY <1>0, <1>1, RollbackInv DEF RoleUpdate
<1>2. CASE ~rollback(r)
  <2> USE DEF AccountsInv
  <2> DEFINE id == arg[r].id
             role == arg[r].role
  <2>1. /\ work' = [work EXCEPT ![id].role = role]
        /\ pc' = [pc EXCEPT ![r] = "updated"] /\ errcode' = "none"
        /\ UNCHANGED <<disk, inTx, mutex, outcome, arg, openWrites, attempts>>
    BY <1>2 DEF RoleUpdate, Goto, Cleared
  <2>2. role \in Roles
    BY <1>0 DEF TypeInv, Args
  <2>3. \A i \in DOMAIN work : work[i] \in Row
    BY TableType DEF TypeInv
  <2>4. id \in DOMAIN work => /\ [work[id] EXCEPT !.role = role] \in Row
                              /\ [work[id] EXCEPT !.role = role].password = work[id].password
                              /\ [work[id] EXCEPT !.role = role].role = role
    BY <2>2, <2>3 DEF Row
  <2>5. /\ work' \in Seq(Row) /\ DOMAIN work' = DOMAIN work
        /\ \A i \in DOMAIN work : work'[i] = IF i = id THEN [work[id] EXCEPT !.role = role] ELSE work[i]
    <3>1. work' = [work EXCEPT ![id] = [work[id] EXCEPT !.role = role]]
      BY <2>1
    <3>2. work \in Seq(Row)
      BY DEF TypeInv
    <3> QED BY <2>4, <3>1, <3>2, UpdatedTable
  <2>6. \A i \in DOMAIN work : /\ work'[i].password = work[i].password
                               /\ work'[i].role = IF i = id THEN role ELSE work[i].role
    BY <2>4, <2>5
  <2>7. pc'[r] = "updated" /\ \A u \in Requests : u # r => pc'[u] = pc[u]
    BY <1>0, <2>1 DEF TypeInv
  <2>8. TypeInv'
    BY <1>0, <2>1, <2>5, <2>7 DEF TypeInv
  <2>9. TxInv'
    BY <1>0, <2>1, <2>7, AccountsAssumption DEF TxInv, InTransaction, Requests, Transactions
  <2>10. UseInv'
    BY <1>0, <2>1, <2>5, <2>6, <2>7 DEF UseInv
  <2>11. AdminInv'
    <3>1. role = "admin" \/ \E i \in Admins(work) : i # id
      BY <1>0 DEF AdminInv
    <3>2. Admins(work') # {}
      <4>1. CASE \E i \in Admins(work) : i # id
        BY <2>5, <2>6, <4>1 DEF Admins
      <4>2. CASE role = "admin"
        <5>1. \A i \in Admins(work) : i \in Admins(work')
          BY <2>5, <2>6, <4>2 DEF Admins
        <5> QED BY <5>1 DEF AdminInv, AdminRemains
      <4> QED BY <3>1, <4>1, <4>2
    <3>3. \A q \in RoleChanges : pc'[q] # "checked"
      <4>1. \A u \in Requests : u # r => pc[u] \notin InTransaction
        BY <1>0, Alone
      <4> QED BY <2>7, <4>1 DEF InTransaction, Requests, Transactions
    <3> QED BY <2>1, <3>2, <3>3 DEF AdminInv, AdminRemains, Admins
  <2>12. \A p : Spent(p) => Spent(p)'
    BY <1>0, <2>7 DEF Spent
  <2>13. OldInv'
    BY <1>0, <2>1, <2>5, <2>6, <2>7, <2>12, AccountsAssumption DEF OldInv, Requests, Transactions
  <2> QED BY <2>8, <2>9, <2>10, <2>11, <2>13
<1> QED BY <1>1, <1>2

\* COMMIT: what the transaction and the finished writes of the others have made.
LEMMA CommitInv == ASSUME AccountsInv, NEW t \in Transactions, Commit(t) PROVE AccountsInv'
<1>0. t \in Requests /\ pc[t] = "updated" /\ pc[t] \in InTransaction
  BY DEF Requests, Commit, InTransaction
<1>1. CASE rollback(t)
  BY <1>0, <1>1, RollbackInv DEF Commit
<1>2. CASE ~rollback(t)
  <2> USE DEF AccountsInv
  <2>1. /\ t \in mutex /\ mutex \ {t} = {} /\ outcome[t] = "none"
        /\ \A u \in Requests : u # t => pc[u] \notin InTransaction
    BY <1>0, Alone
  <2>2. /\ disk' = work /\ work' = work /\ inTx' = FALSE /\ mutex' = {}
        /\ pc' = [pc EXCEPT ![t] = "answered"]
        /\ outcome' = [outcome EXCEPT ![t] = "Success"]
        /\ errcode' = "none" /\ UNCHANGED <<arg, openWrites, attempts>>
    BY <1>2, <2>1 DEF Commit, Answer, Goto, Cleared
  <2>3. /\ pc'[t] = "answered" /\ outcome'[t] = "Success"
        /\ \A u \in Requests : u # t => pc'[u] = pc[u] /\ outcome'[u] = outcome[u]
    BY <1>0, <2>2 DEF TypeInv
  <2>4. TypeInv'
    <3>1. \A u \in Requests : pc'[u] = "answered" <=> outcome'[u] # "none"
      BY <2>3 DEF TypeInv
    <3>2. \A g \in Registrations : pc'[g] \in {"looked", "conflict"} => arg'[g].name \in Nicknames
      BY <2>2, <2>3 DEF TypeInv, Requests, Singles
    <3>3. mutex' \subseteq Transactions
      BY <2>2
    <3> QED BY <1>0, <2>2, <3>1, <3>2, <3>3 DEF TypeInv
  <2>5. TxInv'
    BY <1>0, <2>1, <2>2, <2>3 DEF TxInv, InTransaction, Requests, Transactions
  <2>6. UseInv'
    <3>1. \A u \in Requests : \A i \in DOMAIN work :
              work[i].password = u => pc'[u] = "stepped" \/ outcome'[u] = "Success"
      BY <2>1, <2>3 DEF UseInv, InTransaction
    <3> QED BY <2>2, <3>1 DEF UseInv
  <2>7. AdminInv'
    <3>1. \A r \in RoleChanges : pc'[r] # "checked"
      BY <2>1, <2>3 DEF InTransaction, Requests, Transactions
    <3> QED BY <2>2, <3>1 DEF AdminInv, AdminRemains, Admins
  <2>8. \A p : Spent(p) => Spent(p)'
    BY <2>3 DEF Spent
  <2>9. OldInv'
    <3>1. ASSUME NEW c \in Changes, outcome'[c] = "Success"
          PROVE  /\ Spent(arg[c].old)
                 /\ \A i \in DOMAIN work : i = arg[c].id => work[i].password # arg[c].old
      <4>1. c \in Requests /\ (c # t => outcome[c] = "Success")
        BY <2>3, <3>1 DEF Requests, Transactions
      <4> QED BY <1>0, <4>1 DEF OldInv
    <3>2. \A c \in Changes : pc'[c] \notin {"verified", "updated"}
      BY <2>1, <2>3 DEF InTransaction, Requests, Transactions
    <3> QED BY <2>2, <2>8, <3>1, <3>2 DEF OldInv
  <2> QED BY <2>4, <2>5, <2>6, <2>7, <2>9
<1> QED BY <1>1, <1>2

-----------------------------------------------------------------------------
(* Single writes, which take no lock.                                      *)

\* The request t has written its password, and what it did to the table is a row
\* more or a row with its password; no role is changed.
Written(t, table) ==
    /\ table \in Seq(Row)
    /\ \A i \in DOMAIN work : i \in DOMAIN table /\ table[i].role = work[i].role
    /\ \A i \in DOMAIN table :
          \/ table[i].password = t
          \/ i \in DOMAIN work /\ table[i].password = work[i].password
    /\ \A i \in DOMAIN table \ DOMAIN work : table[i].role = "user"

\* Wherever it falls in a transaction of somebody else, it disturbs no check.
LEMMA WriteInv ==
    ASSUME AccountsInv, NEW t \in Singles, NEW table, NEW asked \in Args,
           Stepped(t, table), Written(t, table), pc[t] \in {"authorised", "looked"},
           arg' = [arg EXCEPT ![t] = asked], UNCHANGED <<disk, inTx, mutex, attempts>>
    PROVE  AccountsInv'
<1> USE DEF AccountsInv
<1>0. t \in Requests /\ outcome[t] = "none" /\ t \notin Changes /\ t \notin RoleChanges
  BY AccountsAssumption DEF TypeInv, Requests, Singles
<1>1. /\ work' = table /\ openWrites' = openWrites \cup {t}
      /\ pc' = [pc EXCEPT ![t] = "stepped"] /\ errcode' = "none" /\ outcome' = outcome
  BY DEF Stepped, Goto, Cleared
<1>2. /\ pc'[t] = "stepped" /\ arg'[t] = asked
      /\ \A u \in Requests : u # t => pc'[u] = pc[u] /\ arg'[u] = arg[u]
  BY <1>0, <1>1 DEF TypeInv
<1>3. TypeInv'
  <2>1. \A u \in Requests : pc'[u] = "answered" <=> outcome'[u] # "none"
    BY <1>0, <1>1, <1>2 DEF TypeInv
  <2>2. \A g \in Registrations : pc'[g] \in {"looked", "conflict"} => arg'[g].name \in Nicknames
    BY <1>2 DEF TypeInv, Requests, Singles
  <2>3. work' \in Seq(Row) /\ openWrites' \subseteq Singles
    BY <1>1 DEF TypeInv, Written
  <2>4. /\ pc' \in [Requests -> {"idle", "authorised", "begun", "verified", "checked", "updated",
                                "looked", "conflict", "stepped", "answered"}]
        /\ arg' \in [Requests -> Args]
    BY <1>0, <1>1 DEF TypeInv
  <2> QED BY <1>1, <2>1, <2>2, <2>3, <2>4 DEF TypeInv
<1>4. TxInv'
  BY <1>0, <1>1, <1>2 DEF TxInv, InTransaction, Requests, Transactions
<1>5. UseInv'
  BY <1>0, <1>1, <1>2 DEF UseInv, Written
<1>6. AdminInv'
  <2>1. \A i \in Admins(work) : i \in Admins(work')
    BY <1>1 DEF Admins, Written
  <2>2. \A r \in RoleChanges : pc'[r] = pc[r] /\ arg'[r] = arg[r]
    BY <1>0, <1>2 DEF Requests, Transactions
  <2>3. Admins(disk') = Admins(disk)
    OBVIOUS
  <2> QED BY <2>1, <2>2, <2>3 DEF AdminInv, AdminRemains
<1>7. \A p : Spent(p) => Spent(p)' /\ p # t
  BY <1>0, <1>2 DEF Spent
<1>8. OldInv'
  <2>1. ASSUME NEW c \in Changes PROVE pc'[c] = pc[c] /\ arg'[c] = arg[c] /\ outcome'[c] = outcome[c]
    BY <1>0, <1>1, <1>2 DEF Requests, Transactions
  <2>2. ASSUME NEW c \in Changes, Spent(arg[c].old),
               \A i \in DOMAIN work : i = arg[c].id => work[i].password # arg[c].old
        PROVE  \A i \in DOMAIN work' : i = arg[c].id => work'[i].password # arg[c].old
    BY <1>1, <1>7, <2>2 DEF Written
  <2> QED BY <1>7, <2>1, <2>2 DEF OldInv
<1> QED BY <1>3, <1>4, <1>5, <1>6, <1>8

\* UserAdminStore::reset_password.
LEMMA ResetInv == ASSUME AccountsInv, NEW s \in Resets, reset_password(s) PROVE AccountsInv'
<1>0. s \in Singles /\ s \in Requests /\ s \in Passwords /\ pc[s] = "authorised"
  BY DEF Singles, Requests, Passwords, reset_password
<1>1. CASE Fail(s) /\ Cleared /\ UNCHANGED <<work, openWrites>>
  <2>1. Quiet(s, "answered", NoArg)
    BY <1>0, <1>1, AskedType
       DEF reset_password, Fail, Answer, Ask, Goto, Cleared, Quiet, InTransaction, AccountsInv, TypeInv
  <2> QED BY <1>0, <2>1, QuietInv
<1>2. CASE ~(Fail(s) /\ Cleared /\ UNCHANGED <<work, openWrites>>)
  <2> DEFINE table == [work EXCEPT ![arg[s].id].password = s, ![arg[s].id].flag = TRUE]
  <2>1. Stepped(s, table) /\ UNCHANGED <<arg, disk, inTx, mutex, attempts>>
    BY <1>2 DEF reset_password
  <2>2. Written(s, table)
    <3>1. /\ table \in Seq(Row) /\ DOMAIN table = DOMAIN work
          /\ \A i \in DOMAIN work : table[i].role = work[i].role
          /\ \A i \in DOMAIN work : table[i].password = IF i = arg[s].id THEN s ELSE work[i].password
      <4>1. work \in Seq(Row)
        BY DEF AccountsInv, TypeInv
      <4>2. WithPassword(work, arg[s].id, s, table)
        BY DEF WithPassword
      <4> HIDE DEF table
      <4>3. PasswordSet(work, arg[s].id, s, table)
        BY <1>0, <4>1, <4>2, PasswordWritten
      <4> QED BY <4>3 DEF PasswordSet
    <3> HIDE DEF table
    <3> QED BY <3>1 DEF Written
  <2> HIDE DEF table
  <2>3. arg[s] \in Args /\ arg' = [arg EXCEPT ![s] = arg[s]]
    BY <1>0, <2>1 DEF AccountsInv, TypeInv
  <2> QED BY <1>0, <2>1, <2>2, <2>3, WriteInv
<1> QED BY <1>1, <1>2

\* UserStore::create.
LEMMA CreateInv == ASSUME AccountsInv, NEW g \in Registrations, create(g) PROVE AccountsInv'
<1>0. g \in Singles /\ g \in Requests /\ g \in Passwords /\ pc[g] = "looked"
  BY DEF Singles, Requests, Passwords, create
<1>1. arg[g] \in Args /\ arg[g].name \in Nicknames
  BY <1>0 DEF AccountsInv, TypeInv
<1>2. CASE Fail(g) /\ Cleared /\ UNCHANGED <<work, openWrites>>
  <2>1. Quiet(g, "answered", NoArg)
    BY <1>0, <1>2, AskedType
       DEF create, Fail, Answer, Ask, Goto, Cleared, Quiet, InTransaction, AccountsInv, TypeInv
  <2> QED BY <1>0, <2>1, QuietInv
<1>3. ASSUME NEW column \in {"nickname", "account"},
             errcode' = column,
             Ask(g, [arg[g] EXCEPT !.hit = column]),
             Goto(g, "conflict"),
             UNCHANGED <<work, openWrites, outcome, disk, inTx, mutex, attempts>>
      PROVE  AccountsInv'
  <2>1. [arg[g] EXCEPT !.hit = column] \in Args /\ [arg[g] EXCEPT !.hit = column].name \in Nicknames
    BY <1>1 DEF Args
  <2>2. Quiet(g, "conflict", [arg[g] EXCEPT !.hit = column])
    BY <1>0, <1>3, <2>1 DEF Ask, Goto, Quiet, InTransaction, AccountsInv, TypeInv
  <2> QED BY <1>0, <2>2, QuietInv
<1>4. ASSUME NEW account \in AccountSpace,
             Stepped(g, Append(work, [account |-> account, nickname |-> arg[g].name,
                                      password |-> g, role |-> "user", flag |-> FALSE])),
             Ask(g, [arg[g] EXCEPT !.id = Len(work) + 1, !.hit = "none"]),
             UNCHANGED <<disk, inTx, mutex, attempts>>
      PROVE  AccountsInv'
  <2> DEFINE row == [account |-> account, nickname |-> arg[g].name,
                     password |-> g, role |-> "user", flag |-> FALSE]
             asked == [arg[g] EXCEPT !.id = Len(work) + 1, !.hit = "none"]
  <2>0. work \in Seq(Row) /\ Len(work) \in Nat /\ DOMAIN work = 1..Len(work)
    BY TableType DEF AccountsInv, TypeInv
  <2>1. row \in Row /\ row.password = g /\ row.role = "user"
    BY <1>0, <1>1 DEF Row, Roles
  <2>2. asked \in Args
    <3> DEFINE first == [arg[g] EXCEPT !.id = Len(work) + 1]
    <3>1. first \in Args
      BY <1>1, <2>0 DEF Args
    <3>2. asked = [first EXCEPT !.hit = "none"]
      OBVIOUS
    <3> HIDE DEF asked, first
    <3> QED BY <3>1, <3>2 DEF Args
  <2> HIDE DEF row, asked
  <2>3. Written(g, Append(work, row))
    <3>1. /\ Append(work, row) \in Seq(Row)
          /\ Len(Append(work, row)) = Len(work) + 1
          /\ \A i \in 1..Len(work) : Append(work, row)[i] = work[i]
          /\ Append(work, row)[Len(work) + 1] = row
      BY <2>0, <2>1, AppendProperties
    <3>2. DOMAIN Append(work, row) = 1..(Len(work) + 1)
      BY <3>1, LenProperties
    <3>3. \A i \in 1..(Len(work) + 1) : i \in 1..Len(work) \/ i = Len(work) + 1
      BY <2>0
    <3>4. 1..Len(work) \subseteq 1..(Len(work) + 1)
      BY <2>0
    <3> QED BY <2>0, <2>1, <3>1, <3>2, <3>3, <3>4 DEF Written
  <2>4. arg' = [arg EXCEPT ![g] = asked]
    BY <1>4 DEF Ask, asked
  <2>5. Stepped(g, Append(work, row))
    BY <1>4 DEF row
  <2> QED BY <1>0, <1>4, <2>2, <2>3, <2>4, <2>5, WriteInv
<1>5. UNCHANGED <<disk, inTx, mutex, attempts>>
  BY DEF create
<1>6. \/ Fail(g) /\ Cleared /\ UNCHANGED <<work, openWrites>>
      \/ \E account \in AccountSpace :
            /\ Stepped(g, Append(work, [account |-> account, nickname |-> arg[g].name,
                                        password |-> g, role |-> "user", flag |-> FALSE]))
            /\ Ask(g, [arg[g] EXCEPT !.id = Len(work) + 1, !.hit = "none"])
      \/ \E column \in {"nickname", "account"} :
            /\ errcode' = column
            /\ Ask(g, [arg[g] EXCEPT !.hit = column])
            /\ Goto(g, "conflict")
            /\ UNCHANGED <<work, openWrites, outcome>>
  BY DEF create
<1> QED BY <1>2, <1>3, <1>4, <1>5, <1>6

\* ~Statement: the write is committed only when no transaction is open, so that a
\* change under way is never made durable by somebody else.
LEMMA FinalizeInv == ASSUME AccountsInv, NEW t \in Singles, Finalize(t) PROVE AccountsInv'
<1> USE DEF AccountsInv
<1>0. t \in Requests /\ t \notin Changes /\ t \notin RoleChanges /\ pc[t] = "stepped" /\ outcome[t] = "none"
  BY AccountsAssumption DEF Requests, Singles, Finalize, TypeInv
<1>1. /\ pc' = [pc EXCEPT ![t] = "answered"]
      /\ outcome' = [outcome EXCEPT ![t] = "Success"]
      /\ errcode' = "none" /\ UNCHANGED <<work, inTx, mutex, arg, attempts>>
      /\ openWrites' \subseteq openWrites
      /\ disk' = disk \/ (~inTx /\ disk' = work)
  BY DEF Finalize, Answer, Goto, Cleared
<1>2. /\ pc'[t] = "answered" /\ outcome'[t] = "Success"
      /\ \A u \in Requests : u # t => pc'[u] = pc[u] /\ outcome'[u] = outcome[u]
  BY <1>0, <1>1 DEF TypeInv
<1>3. TypeInv'
  <2>1. \A u \in Requests : pc'[u] = "answered" <=> outcome'[u] # "none"
    BY <1>2 DEF TypeInv
  <2>2. \A g \in Registrations : pc'[g] \in {"looked", "conflict"} => arg'[g].name \in Nicknames
    BY <1>1, <1>2 DEF TypeInv, Requests, Singles
  <2> QED BY <1>0, <1>1, <2>1, <2>2 DEF TypeInv
<1>4. TxInv'
  BY <1>0, <1>1, <1>2 DEF TxInv, InTransaction, Requests, Transactions
<1>5. ~inTx => \A u \in Requests : pc[u] \notin InTransaction
  BY DEF TxInv
<1>6. UseInv'
  <2>1. \A u \in Requests : \A i \in DOMAIN work :
            work[i].password = u => pc'[u] \in {"updated", "stepped"} \/ outcome'[u] = "Success"
    BY <1>2 DEF UseInv
  <2>2. \A u \in Requests : \A i \in DOMAIN disk' :
            disk'[i].password = u => pc'[u] = "stepped" \/ outcome'[u] = "Success"
    BY <1>0, <1>1, <1>2, <1>5 DEF UseInv, InTransaction
  <2> QED BY <1>1, <2>1, <2>2 DEF UseInv
<1>7. AdminInv'
  <2>1. \A r \in RoleChanges : pc'[r] = pc[r]
    BY <1>0, <1>2 DEF Requests, Transactions
  <2> QED BY <1>1, <2>1 DEF AdminInv, AdminRemains, Admins
<1>8. \A p : Spent(p) => Spent(p)'
  BY <1>2 DEF Spent
<1>9. OldInv'
  <2>1. \A c \in Changes : pc'[c] = pc[c] /\ outcome'[c] = outcome[c]
    BY <1>0, <1>2 DEF Requests, Transactions
  <2> QED BY <1>1, <1>8, <2>1 DEF OldInv
<1> QED BY <1>3, <1>4, <1>6, <1>7, <1>9

-----------------------------------------------------------------------------
\* Every step of every request, and of the connection they share, keeps AccountsInv.
LEMMA AccountsNext == AccountsInv /\ [Next]_vars => AccountsInv'
<1> SUFFICES ASSUME AccountsInv, [Next]_vars PROVE AccountsInv'
  OBVIOUS
<1>1. CASE UNCHANGED vars
  BY <1>1 DEF vars, connVars, AccountsInv, TypeInv, TxInv, UseInv, AdminInv, AdminRemains, Admins, OldInv, Spent
<1>2. ASSUME NEW t \in Requests, Refuse(t) PROVE AccountsInv'
  BY <1>2, RefuseInv
<1>3. ASSUME NEW c \in Changes, ChangeNext(c) PROVE AccountsInv'
  BY <1>3, AuthoriseInv, BeginInv, VerifyInv, ChangeUpdateInv, CommitInv DEF ChangeNext, Requests, Transactions
<1>4. ASSUME NEW r \in RoleChanges, RoleNext(r) PROVE AccountsInv'
  BY <1>4, AuthoriseInv, BeginInv, RoleCheckInv, RoleUpdateInv, CommitInv DEF RoleNext, Requests, Transactions
<1>5. ASSUME NEW s \in Resets, ResetNext(s) PROVE AccountsInv'
  BY <1>5, AuthoriseInv, ResetInv, FinalizeInv DEF ResetNext, Requests, Singles
<1>6. ASSUME NEW g \in Registrations, RegisterNext(g) PROVE AccountsInv'
  BY <1>6, LookupInv, CreateInv, ClassifyInv, FinalizeInv DEF RegisterNext, Singles
<1> QED BY <1>1, <1>2, <1>3, <1>4, <1>5, <1>6 DEF Next

\* The invariant of the one connection that all requests share (db/database.h).
THEOREM AccountsInvariant == Spec => []AccountsInv
  BY AccountsInit, AccountsNext, PTL DEF Spec

\* transaction_mutex() gives every open transaction one owner, and a request that was
\* not answered with success has left nothing, in the connection or in the file.
THEOREM TransactionsAreIsolated == Spec => []TransactionsIsolated
<1>1. AccountsInv => TransactionsIsolated
  <2> SUFFICES ASSUME AccountsInv PROVE TransactionsIsolated
    OBVIOUS
  <2>1. AccountsTypeOK
    BY DEF AccountsInv, TypeInv, AccountsTypeOK
  <2>2. OneTransaction
    <3>1. Cardinality(mutex) <= 1
      <4>1. CASE mutex = {}
        BY <4>1, FS_EmptySet
      <4>2. CASE mutex # {}
        <5>1. PICK t \in mutex : TRUE
          BY <4>2
        <5>2. mutex = {t}
          BY DEF AccountsInv, TxInv
        <5> QED BY <5>2, FS_Singleton
      <4> QED BY <4>1, <4>2
    <3> QED BY <3>1 DEF AccountsInv, TxInv, InTransaction, OneTransaction, Requests
  <2>3. FailureLeavesNothing
    BY DEF AccountsInv, UseInv, FailureLeavesNothing, Ids
  <2> QED BY <2>1, <2>2, <2>3 DEF TransactionsIsolated
<1> QED BY <1>1, AccountsInvariant, PTL

\* However many administrators demote each other, one is left, also after a restart.
THEOREM AnAdminRemains == Spec => []AdminRemains
<1>1. AccountsInv => AdminRemains
  BY DEF AccountsInv, AdminInv
<1> QED BY <1>1, AccountsInvariant, PTL

\* Only a COMMIT makes a change succeed, with what it has verified.
LEMMA ChangesSucceed ==
    ASSUME AccountsInv, [Next]_vars, NEW c \in Changes, outcome'[c] = "Success"
    PROVE  arg'[c] = arg[c] /\ (outcome[c] = "Success" \/ pc[c] = "updated")
<1> USE DEF AccountsInv
<1>0. c \in Requests
  BY DEF Requests, Transactions
<1>1. CASE UNCHANGED vars
  BY <1>1 DEF vars
<1>3. ASSUME NEW t \in Requests, Refuse(t) PROVE t # c /\ arg'[c] = arg[c] /\ outcome[c] = "Success"
  BY <1>0, <1>3 DEF Refuse, Fail, Answer, Ask, TypeInv
<1>4. CASE ChangeNext(c)
  BY <1>0, <1>4 DEF ChangeNext, ChangeAuthorise, Begin, Fail, rollback, ChangeVerify, ChangeUpdate, Commit,
                    Answer, Ask, TypeInv, Arrives
<1>5. ASSUME NEW t \in Requests, t # c,
             ChangeNext(t) \/ RoleNext(t) \/ ResetNext(t) \/ RegisterNext(t)
      PROVE  arg'[c] = arg[c] /\ outcome[c] = "Success"
  <2>1. CASE ChangeNext(t)
    BY <1>0, <1>5, <2>1 DEF ChangeNext, ChangeAuthorise, Begin, Fail, rollback, ChangeVerify, ChangeUpdate,
                            Commit, Answer, Ask, TypeInv
  <2>2. CASE RoleNext(t)
    BY <1>0, <1>5, <2>2 DEF RoleNext, RoleAuthorise, Begin, Fail, rollback, RoleCheck, RoleUpdate, Commit,
                            Answer, Ask, TypeInv
  <2>3. CASE ResetNext(t)
    BY <1>0, <1>5, <2>3 DEF ResetNext, ResetAuthorise, reset_password, Stepped, Finalize, Fail, Answer, Ask,
                            TypeInv
  <2>4. CASE RegisterNext(t)
    BY <1>0, <1>5, <2>4 DEF RegisterNext, RegisterLookup, create, Stepped, Classify, Retry, Finalize, Fail,
                            Answer, Ask, TypeInv
  <2> QED BY <1>5, <2>1, <2>2, <2>3, <2>4
<1>6. \A t \in RoleChanges \cup Resets \cup Registrations : t \in Requests /\ t # c
  BY AccountsAssumption DEF Requests, Transactions, Singles
<1>7. \A t \in Changes : t \in Requests
  BY DEF Requests, Transactions
<1> QED BY <1>1, <1>3, <1>4, <1>5, <1>6, <1>7 DEF Next

\* change_password compares in its transaction: no two changes of a user succeed on
\* the same old password.
THEOREM OldPasswordServesOnce == Spec => []OneChangePerPassword
<1>1. Init => OneChangePerPassword
  BY DEF Init, OneChangePerPassword, Requests, Transactions
<1>2. AccountsInv /\ OneChangePerPassword /\ [Next]_vars => OneChangePerPassword'
  <2> SUFFICES ASSUME AccountsInv, OneChangePerPassword, [Next]_vars, NEW c \in Changes, NEW d \in Changes,
                      c # d, outcome'[c] = "Success", outcome'[d] = "Success", arg'[c].id = arg'[d].id
               PROVE  arg'[c].old # arg'[d].old
    BY DEF OneChangePerPassword
  <2>1. /\ arg'[c] = arg[c] /\ arg'[d] = arg[d]
        /\ outcome[c] = "Success" \/ pc[c] = "updated"
        /\ outcome[d] = "Success" \/ pc[d] = "updated"
    BY ChangesSucceed
  <2>2. ~(pc[c] = "updated" /\ pc[d] = "updated")
    BY DEF AccountsInv, TxInv, InTransaction, Requests, Transactions
  <2> QED BY <2>1, <2>2 DEF AccountsInv, OldInv, OneChangePerPassword
<1> QED BY <1>1, <1>2, AccountsInvariant, PTL DEF Spec

-----------------------------------------------------------------------------
(* The login limiter: the inductive invariant.                             *)

Attempts == [read : Nat, at : Nat, nth : Nat]

LimiterType ==
    /\ LimiterTypeOK
    /\ now \in [Logins -> 0..clock]
    /\ arrived \in Nat
    /\ \A t \in Logins : place[t] \in {"timed", "checking"} => key[t] \in Keys
    /\ tries \in [Keys -> SUBSET Attempts]
    /\ \A k \in Keys : IsFiniteSet(tries[k]) /\ \A a \in tries[k] : a.read <= a.at /\ a.at <= clock
    /\ promised \in [Keys -> Nat \cup {None}]

\* The times of a source; one that is not tracked has none.
Times(map, k) == IF k \in DOMAIN map THEN map[k] ELSE <<>>

Alike(made, read, at) == {a \in made : a.read = read /\ a.at = at}

\* Attempts with the same times are told apart by their numbers.
NumberInv ==
    \A k \in Keys : \A a \in tries[k] : a.nth < Cardinality(Alike(tries[k], a.read, a.at))

\* No source has more times than the limit.
LengthInv == \A k \in Keys : Len(Times(failures, k)) <= MaxFailures

\* Decision times that no reading of the clock in use, and no later one, has in
\* its window.
Gone ==
    {at \in Int : at < clock - Window /\ \A t \in Logins : place[t] = "timed" => at < now[t] - Window}

\* m gives the attempt behind each time: all different, in the order of the
\* decisions; those the history has forgotten are gone, and no recent one is missing.
Matches(times, made, gone, time, m) ==
    /\ m \in [1..Len(times) -> Attempts]
    /\ \A i, j \in 1..Len(times) : m[i] = m[j] => i = j
    /\ \A i, j \in 1..Len(times) : i <= j => m[i].at <= m[j].at
    /\ \A i \in 1..Len(times) : m[i].read = times[i] /\ m[i].read <= m[i].at /\ m[i].at <= time
    /\ \A i \in 1..Len(times) : m[i] \in made \/ m[i].at \in gone
    /\ \A a \in made : a.read >= time - Window => \E i \in 1..Len(times) : m[i] = a

Matched(times, made, gone, time) == \E m : Matches(times, made, gone, time, m)

MatchInv == \A k \in Keys : Matched(Times(failures, k), tries[k], Gone, clock)

\* A source at its limit will have lost its first time when the promise ends.
PromiseInv ==
    \A k \in Keys : promised[k] # None /\ Len(Times(failures, k)) >= MaxFailures =>
        Times(failures, k)[1] + Window <= promised[k]

LimiterInv == LimiterType /\ NumberInv /\ LengthInv /\ MatchInv /\ PromiseInv

-----------------------------------------------------------------------------
(* Numbers.                                                                *)

\* A non-empty set of natural numbers has a minimum.
LEMMA MinNat ==
    ASSUME NEW S \in SUBSET Nat, S # {}
    PROVE  Min(S) \in S /\ \A y \in S : Min(S) <= y
  <1>. DEFINE less == {pair \in Nat \X Nat : pair[1] < pair[2]}
  <1>1. IsWellFoundedOn(less, Nat)  BY NatLessThanWellFounded DEF OpToRel
  <1>2. PICK x \in S : \A y \in S : <<y, x>> \notin less
    <2>. HIDE DEF less
    <2>. QED  BY <1>1, WFMin
  <1>3. ASSUME NEW y \in S PROVE x <= y
    <2>1. x \in Nat /\ y \in Nat /\ ~(y < x)  BY <1>2
    <2>. QED  BY <2>1
  <1>. QED  BY <1>3 DEF Min

\* The minimum and the maximum of two numbers.
LEMMA MinPair ==
    ASSUME NEW a \in Int, NEW b \in Int
    PROVE  Min({a, b}) \in {a, b} /\ Min({a, b}) <= a /\ Min({a, b}) <= b
  <1>1. \E x \in {a, b} : \A y \in {a, b} : x <= y  OBVIOUS
  <1>. QED  BY <1>1 DEF Min

\* std::max of two integers is one of them and not below either.
LEMMA MaxPair ==
    ASSUME NEW a \in Int, NEW b \in Int
    PROVE  Max({a, b}) \in {a, b} /\ Max({a, b}) >= a /\ Max({a, b}) >= b
  <1>1. \E x \in {a, b} : \A y \in {a, b} : x >= y  OBVIOUS
  <1>. QED  BY <1>1 DEF Max

\* Rounded up to whole seconds, a time is not shortened.
LEMMA RoundUp ==
    ASSUME NEW x \in Int, NEW s \in Nat \ {0}
    PROVE  s * ((x + s - 1) \div s) >= x /\ ((x + s - 1) \div s) \in Int
  BY Z3

\* Retry-After covers the rest of the window of the oldest time.
LEMMA RetryCovers ==
    ASSUME NEW oldest \in Nat, NEW at \in Nat
    PROVE  /\ RetryAfter(oldest, at) \in Nat
           /\ oldest + Window <= at + Second * RetryAfter(oldest, at)
  <1>. DEFINE rest == Window - (at - oldest)
              whole == (rest + Second - 1) \div Second
  <1>1. Second \in Nat \ {0} /\ Window \in Nat \ {0}  BY LimiterAssumption
  <1>2. rest \in Int  BY <1>1
  <1>3. RetryAfter(oldest, at) = Max({1, whole})  BY DEF RetryAfter
  <1>. HIDE DEF rest
  <1>4. Second * whole >= rest /\ whole \in Int  BY <1>1, <1>2, RoundUp
  <1>. HIDE DEF whole
  <1>5. Max({1, whole}) \in Int /\ Max({1, whole}) >= whole /\ Max({1, whole}) >= 1
    BY <1>4, MaxPair
  <1>6. Second * Max({1, whole}) >= Second * whole
    <2>1. \A x, y \in Int, s \in Nat : x >= y => s * x >= s * y  BY Z3
    <2>. QED  BY <1>1, <1>4, <1>5, <2>1
  <1>7. Second * Max({1, whole}) \in Int /\ Second * whole \in Int  BY <1>1, <1>4, <1>5
  <1>8. Second * RetryAfter(oldest, at) >= rest /\ Second * RetryAfter(oldest, at) \in Int
    BY <1>2, <1>3, <1>4, <1>6, <1>7
  <1>. QED  BY <1>1, <1>3, <1>5, <1>8 DEF rest

-----------------------------------------------------------------------------
(* Cleaning a deque.                                                       *)

\* rest is times without its first n elements, all of which have expired; its
\* front has not.
Popped(times, rest, n, at) ==
    /\ n \in 0..Len(times)
    /\ rest \in Seq(Nat) /\ Len(rest) = Len(times) - n
    /\ \A i \in 1..Len(rest) : rest[i] = times[i + n]
    /\ \A i \in 1..n : Expired(times[i], at)
    /\ rest # <<>> => ~Expired(rest[1], at)

\* pop_front while the front has expired.
LEMMA FreshPops ==
    ASSUME NEW times \in Seq(Nat), NEW at \in Nat
    PROVE  \E n : Popped(times, Fresh(times, at), n, at)
  <1>. DEFINE live == {i \in DOMAIN times : ~Expired(times[i], at)}
  <1>1. Len(times) \in Nat /\ DOMAIN times = 1..Len(times)  OBVIOUS
  <1>2. CASE live = {}
    <2>1. Fresh(times, at) = <<>>  BY <1>2 DEF Fresh
    <2>2. \A i \in 1..Len(times) : Expired(times[i], at)  BY <1>1, <1>2
    <2>3. Popped(times, <<>>, Len(times), at)  BY <1>1, <2>2 DEF Popped
    <2>. QED  BY <2>1, <2>3
  <1>3. CASE live # {}
    <2>. DEFINE first == Min(live)
                rest == SubSeq(times, first, Len(times))
    <2>1. Fresh(times, at) = rest  BY <1>3 DEF Fresh
    <2>2. live \in SUBSET Nat  BY <1>1
    <2>3. first \in live /\ \A i \in live : first <= i
      <3>. HIDE DEF live
      <3>. QED  BY <1>3, <2>2, MinNat
    <2>4. first \in 1..Len(times) /\ ~Expired(times[first], at)  BY <1>1, <2>3
    <2>. HIDE DEF first
    <2>5. ASSUME NEW i \in 1..(first - 1) PROVE Expired(times[i], at)
      <3>1. i \in DOMAIN times /\ ~(first <= i)  BY <1>1, <2>4
      <3>. QED  BY <2>3, <3>1
    <2>6. /\ rest \in Seq(Nat) /\ Len(rest) = Len(times) - (first - 1)
          /\ \A i \in 1..Len(rest) : rest[i] = times[i + (first - 1)]
      BY <1>1, <2>4, SubSeqProperties
    <2>. HIDE DEF rest
    <2>7. rest # <<>> => ~Expired(rest[1], at)  BY <1>1, <2>4, <2>6
    <2>8. Popped(times, rest, first - 1, at)  BY <1>1, <2>4, <2>5, <2>6, <2>7 DEF Popped
    <2>. QED  BY <2>1, <2>8
  <1>. QED  BY <1>2, <1>3

\* Cleaning pops the times of the sources it is about, and nothing else.
LEMMA CleanedTimes ==
    ASSUME NEW map, NEW which, NEW at \in Nat, NEW k,
           \A j \in DOMAIN map : map[j] \in Seq(Nat) \ {<<>>}
    PROVE  /\ Times(map, k) \in Seq(Nat)
           /\ Times(Cleaned(map, which, at), k) =
                  IF k \in which THEN Fresh(Times(map, k), at) ELSE Times(map, k)
           /\ DOMAIN Cleaned(map, which, at) \subseteq DOMAIN map
           /\ \A j \in DOMAIN Cleaned(map, which, at) : Cleaned(map, which, at)[j] # <<>>
  <1>1. Fresh(<<>>, at) = <<>>  BY DEF Fresh
  <1>. QED  BY <1>1 DEF Cleaned, Times

\* A sequence that is not empty has a first element.
LEMMA FirstIn == \A S : \A s \in Seq(S) : s # <<>> => s[1] \in S
  OBVIOUS

\* A sequence whose elements are all in T is one over T.
LEMMA SeqInto ==
    ASSUME NEW S, NEW T, NEW s \in Seq(S), \A i \in 1..Len(s) : s[i] \in T
    PROVE  s \in Seq(T)
  OBVIOUS

-----------------------------------------------------------------------------
(* The matching.                                                           *)

\* Popping times that have expired for a reading of the clock keeps a matching.
LEMMA PopKeepsMatch ==
    ASSUME NEW times \in Seq(Nat), NEW made \in SUBSET Attempts, NEW gone, NEW time \in Nat,
           Matched(times, made, gone, time),
           NEW rest, NEW n, NEW at \in 0..time, Popped(times, rest, n, at)
    PROVE  Matched(rest, made, gone, time)
  <1>1. PICK m : Matches(times, made, gone, time, m)  BY DEF Matched
  <1>. DEFINE m2 == [i \in 1..Len(rest) |-> m[i + n]]
  <1>2. Len(times) \in Nat /\ Window \in Nat /\ n \in 0..Len(times) /\ Len(rest) = Len(times) - n
    BY LimiterAssumption DEF Popped
  <1>3. \A i \in 1..Len(rest) : i + n \in 1..Len(times) /\ m2[i] = m[i + n] /\ rest[i] = times[i + n]
    BY <1>2 DEF Popped
  <1>4. ASSUME NEW a \in made, a.read >= time - Window
        PROVE  \E i \in 1..Len(rest) : m2[i] = a
    <2>1. PICK j \in 1..Len(times) : m[j] = a  BY <1>1, <1>4 DEF Matches
    <2>2. times[j] = a.read /\ a.read \in Nat  BY <1>1, <2>1 DEF Matches, Attempts
    <2>3. ~Expired(times[j], at)  BY <1>2, <1>4, <2>2 DEF Expired
    <2>4. j \notin 1..n  BY <2>3 DEF Popped
    <2>5. j - n \in 1..Len(rest) /\ (j - n) + n = j  BY <1>2, <2>4
    <2>. QED  BY <1>3, <2>1, <2>5
  <1>. HIDE DEF m2
  <1>5. m2 \in [1..Len(rest) -> Attempts]  BY <1>1, <1>3 DEF Matches, m2
  <1>6. \A i, j \in 1..Len(rest) : m2[i] = m2[j] => i = j  BY <1>1, <1>2, <1>3 DEF Matches
  <1>7. \A i, j \in 1..Len(rest) : i <= j => m2[i].at <= m2[j].at  BY <1>1, <1>2, <1>3 DEF Matches
  <1>8. ASSUME NEW i \in 1..Len(rest)
        PROVE  /\ m2[i].read = rest[i] /\ m2[i].read <= m2[i].at /\ m2[i].at <= time
               /\ m2[i] \in made \/ m2[i].at \in gone
    <2>1. PICK j \in 1..Len(times) : m2[i] = m[j] /\ rest[i] = times[j]  BY <1>3
    <2>. QED  BY <1>1, <2>1 DEF Matches
  <1>9. Matches(rest, made, gone, time, m2)
    BY <1>4, <1>5, <1>6, <1>7, <1>8 DEF Matches
  <1>. QED  BY <1>9 DEF Matched

\* An attempt that is let through adds its time at the end.
LEMMA AppendKeepsMatch ==
    ASSUME NEW times \in Seq(Nat), NEW made \in SUBSET Attempts, NEW gone, NEW time \in Nat,
           Matched(times, made, gone, time),
           NEW a \in Attempts, a.read <= a.at, a.at = time,
           a \notin made, a.at \notin gone
    PROVE  Matched(times \o <<a.read>>, made \cup {a}, gone, time)
  <1>1. PICK m : Matches(times, made, gone, time, m)  BY DEF Matched
  <1>. DEFINE more == times \o <<a.read>>
              last == Len(times) + 1
              m2 == [i \in 1..Len(more) |-> IF i = last THEN a ELSE m[i]]
  <1>2. Len(times) \in Nat /\ Len(more) = last /\ a.read \in Nat /\ a.at \in Nat
        /\ more[last] = a.read /\ \A i \in 1..Len(times) : more[i] = times[i]
    <2>1. a.read \in Nat /\ a.at \in Nat  BY DEF Attempts
    <2>2. Len(times) \in Nat /\ Len(more) = last  BY <2>1
    <2>3. more[last] = a.read /\ \A i \in 1..Len(times) : more[i] = times[i]  BY <2>1
    <2>. QED  BY <2>1, <2>2, <2>3
  <1>3. /\ m2[last] = a /\ m2 \in [1..Len(more) -> Attempts]
        /\ \A i \in 1..Len(times) : m2[i] = m[i] /\ m[i] \in Attempts
    <2>1. \A i \in 1..Len(times) : m[i] \in Attempts  BY <1>1 DEF Matches
    <2>. HIDE DEF more
    <2>2. last \in 1..Len(more) /\ \A i \in 1..Len(more) : i = last \/ i \in 1..Len(times)  BY <1>2
    <2>3. \A i \in 1..Len(times) : i \in 1..Len(more) /\ i # last  BY <1>2
    <2>. QED  BY <2>1, <2>2, <2>3
  <1>. HIDE DEF m2, more
  <1>4. \A i \in 1..Len(more) : i = last \/ i \in 1..Len(times)  BY <1>2
  <1>5. \A i \in 1..Len(times) : m2[i] # a  BY <1>1, <1>3 DEF Matches
  <1>. HIDE DEF last
  <1>6. \A i, j \in 1..Len(more) : m2[i] = m2[j] => i = j
    BY <1>1, <1>3, <1>4, <1>5 DEF Matches
  <1>7. \A i \in 1..Len(times) : m2[i].at <= time /\ m2[i].at \in Nat
    BY <1>1, <1>3 DEF Matches, Attempts
  <1>8. ASSUME NEW i \in 1..Len(more), NEW j \in 1..Len(more), i <= j
        PROVE  m2[i].at <= m2[j].at
    <2>1. CASE j = last
      BY <1>2, <1>3, <1>4, <1>7, <2>1
    <2>2. CASE j \in 1..Len(times)
      BY <1>1, <1>2, <1>3, <1>4, <1>8, <2>2 DEF Matches, last
    <2>. QED  BY <1>4, <2>1, <2>2
  <1>9. Matches(more, made \cup {a}, gone, time, m2)
    <2>1. \A i \in 1..Len(more) : m2[i].read = more[i] /\ m2[i].read <= m2[i].at /\ m2[i].at <= time
      BY <1>1, <1>2, <1>3, <1>4 DEF Matches
    <2>2. \A i \in 1..Len(more) : m2[i] \in made \cup {a} \/ m2[i].at \in gone
      BY <1>1, <1>3, <1>4 DEF Matches
    <2>3. \A b \in made \cup {a} : b.read >= time - Window => \E i \in 1..Len(more) : m2[i] = b
      <3>1. last \in 1..Len(more) /\ 1..Len(times) \subseteq 1..Len(more)  BY <1>2 DEF last
      <3>. QED  BY <1>1, <1>3, <3>1 DEF Matches
    <2>. QED  BY <1>3, <1>6, <1>8, <2>1, <2>2, <2>3 DEF Matches
  <1>. QED  BY <1>9 DEF Matched, more

\* The history may forget what is gone; time only passes.
LEMMA ForgetKeepsMatch ==
    ASSUME NEW times \in Seq(Nat), NEW made \in SUBSET Attempts, NEW gone, NEW time \in Nat,
           Matched(times, made, gone, time),
           NEW left \in SUBSET made, NEW gone2, gone \subseteq gone2, NEW time2 \in Nat, time <= time2,
           \A a \in made \ left : a.at \in gone2
    PROVE  Matched(times, left, gone2, time2)
  <1>1. PICK m : Matches(times, made, gone, time, m)  BY DEF Matched
  <1>2. Window \in Nat /\ \A i \in 1..Len(times) : m[i].at \in Nat /\ m[i].read \in Nat
    BY <1>1, LimiterAssumption DEF Matches, Attempts
  <1>3. \A i \in 1..Len(times) : m[i].at <= time2  BY <1>1, <1>2 DEF Matches
  <1>4. \A a \in left : a.read >= time2 - Window => a.read >= time - Window
    BY <1>2 DEF Attempts
  <1>5. Matches(times, left, gone2, time2, m)
    BY <1>1, <1>3, <1>4 DEF Matches
  <1>. QED  BY <1>5 DEF Matched

\* A source without times and without attempts is matched.
LEMMA EmptyMatches ==
    ASSUME NEW gone, NEW time
    PROVE  Matched(<<>>, {}, gone, time)
  <1>1. Matches(<<>>, {}, gone, time, [i \in 1..0 |-> i])  BY DEF Matches
  <1>. QED  BY <1>1 DEF Matched

\* At most as many recent attempts as times.
LEMMA MatchBounds ==
    ASSUME NEW times \in Seq(Nat), NEW made, NEW gone, NEW time,
           Matched(times, made, gone, time)
    PROVE  Cardinality({a \in made : a.read >= time - Window}) <= Len(times)
  <1>. DEFINE recent == {a \in made : a.read >= time - Window}
  <1>1. PICK m : Matches(times, made, gone, time, m)  BY DEF Matched
  <1>. DEFINE spot == [a \in recent |-> CHOOSE i \in 1..Len(times) : m[i] = a]
  <1>2. \A a \in recent : spot[a] \in 1..Len(times) /\ m[spot[a]] = a  BY <1>1 DEF Matches
  <1>3. spot \in Injection(recent, 1..Len(times))
    BY <1>2 DEF Injection, IsInjective
  <1>4. Len(times) \in Nat /\ IsFiniteSet(1..Len(times)) /\ Cardinality(1..Len(times)) = Len(times)
    <2>1. Len(times) \in Nat  OBVIOUS
    <2>2. /\ IsFiniteSet(1..Len(times))
          /\ Cardinality(1..Len(times)) = IF 1 > Len(times) THEN 0 ELSE Len(times) - 1 + 1
      BY <2>1, FS_Interval
    <2>. QED  BY <2>1, <2>2
  <1>. HIDE DEF spot, recent
  <1>5. Cardinality(recent) <= Len(times)  BY <1>3, <1>4, FS_Injection
  <1>. QED  BY <1>5 DEF recent

\* When the front is fresh there are as many attempts in the window as times.
LEMMA MatchCovers ==
    ASSUME NEW times \in Seq(Nat), NEW made, IsFiniteSet(made), NEW gone, NEW time,
           Matched(times, made, gone, time), times # <<>>,
           NEW since \in Int, times[1] >= since, \A at \in gone : ~(at >= since)
    PROVE  Cardinality({a \in made : a.at >= since}) >= Len(times)
  <1>. DEFINE inside == {a \in made : a.at >= since}
  <1>1. PICK m : Matches(times, made, gone, time, m)  BY DEF Matched
  <1>2. Len(times) \in Nat /\ 1 \in 1..Len(times)  OBVIOUS
  <1>3. ASSUME NEW i \in 1..Len(times) PROVE m[i] \in inside
    <2>1. m[1].at >= since
      <3>1. m[1].read = times[1] /\ m[1].read <= m[1].at /\ m[1] \in Attempts  BY <1>1, <1>2 DEF Matches
      <3>2. m[1].read \in Nat /\ m[1].at \in Nat  BY <3>1 DEF Attempts
      <3>. QED  BY <3>1, <3>2
    <2>2. m[1].at <= m[i].at /\ m[1].at \in Nat /\ m[i].at \in Nat
      <3>1. m[1] \in Attempts /\ m[i] \in Attempts /\ 1 <= i  BY <1>1, <1>2 DEF Matches
      <3>. QED  BY <1>1, <1>2, <3>1 DEF Matches, Attempts
    <2>3. m[i].at >= since  BY <2>1, <2>2
    <2>. QED  BY <1>1, <2>3 DEF Matches
  <1>4. m \in Injection(1..Len(times), inside)
    BY <1>1, <1>3 DEF Matches, Injection, IsInjective
  <1>5. IsFiniteSet(inside)  BY FS_Subset
  <1>6. IsFiniteSet(1..Len(times)) /\ Cardinality(1..Len(times)) = Len(times)
    BY <1>2, FS_Interval
  <1>. HIDE DEF inside
  <1>7. Cardinality(1..Len(times)) <= Cardinality(inside) /\ Cardinality(inside) \in Nat
    BY <1>4, <1>5, FS_Injection, FS_CardinalityType
  <1>8. Cardinality(inside) >= Len(times)  BY <1>2, <1>6, <1>7
  <1>. QED  BY <1>8 DEF inside

-----------------------------------------------------------------------------
(* The steps.                                                              *)

\* The times of a source are readings of the clock.
LEMMA TimesType ==
    ASSUME LimiterInv, NEW k
    PROVE  Times(failures, k) \in Seq(0..clock) /\ Times(failures, k) \in Seq(Nat)
  <1>1. clock \in Nat  BY DEF LimiterInv, LimiterType, LimiterTypeOK
  <1>2. Times(failures, k) \in Seq(0..clock)
    BY EmptySeq DEF LimiterInv, LimiterType, LimiterTypeOK, Times
  <1>3. 0..clock \subseteq Nat  BY <1>1
  <1>. QED  BY <1>2, <1>3, SeqMonotonic

\* What is gone stays so, whatever reading of the clock comes into use.
LEMMA GoneStays ==
    ASSUME LimiterInv, clock' \in Nat, clock <= clock',
           \A t \in Logins : place'[t] = "timed" =>
               (place[t] = "timed" /\ now'[t] = now[t]) \/ now'[t] = clock
    PROVE  Gone \subseteq Gone'
  <1>1. clock \in Nat /\ Window \in Nat /\ now \in [Logins -> 0..clock]
    BY LimiterAssumption DEF LimiterInv, LimiterType, LimiterTypeOK
  <1>2. ASSUME NEW at \in Gone PROVE at \in Gone'
    <2>1. at \in Int /\ at < clock - Window  BY DEF Gone
    <2>2. at < clock' - Window
      <3>1. \A c, d, w \in Nat : at < c - w /\ c <= d => at < d - w  BY <2>1
      <3>. QED  BY <1>1, <2>1, <3>1
    <2>3. \A t \in Logins : place[t] = "timed" => at < now[t] - Window  BY DEF Gone
    <2>4. \A t \in Logins : place'[t] = "timed" => at < now'[t] - Window  BY <2>1, <2>3
    <2>. QED  BY <2>1, <2>2, <2>4 DEF Gone
  <1>. QED  BY <1>2

\* A step that changes neither times nor attempts of a source keeps its matching.
LEMMA MatchStays ==
    ASSUME LimiterInv, NEW k \in Keys, Gone \subseteq Gone', clock' = clock,
           NEW times, times = Times(failures, k)
    PROVE  Matched(times, tries[k], Gone', clock')
  <1>1. Matched(Times(failures, k), tries[k], Gone, clock) /\ tries[k] \in SUBSET Attempts /\ clock \in Nat
    BY DEF LimiterInv, MatchInv, LimiterType, LimiterTypeOK
  <1>2. Times(failures, k) \in Seq(Nat)  BY TimesType
  <1>. QED  BY <1>1, <1>2, ForgetKeepsMatch

\* The attempts that leave the history when time passes are gone.
LEMMA TickInv == ASSUME LimiterInv, Tick PROVE LimiterInv'
  <1>. DEFINE readings == {clock} \cup {now[t] : t \in {u \in Logins : place[u] = "timed"}}
              oldest == Min(readings)
  <1>. USE LimiterAssumption DEF LimiterInv, LimiterType, LimiterTypeOK
  <1>1. clock \in Nat /\ clock' = clock + 1 /\ clock' \in 0..MaxTime  BY DEF Tick
  <1>2. /\ tries' = [k \in Keys |-> {a \in tries[k] : a.at >= oldest - Window}]
        /\ UNCHANGED <<failures, sweepCounter, place, key, now, arrived, promised>>
    BY DEF Tick
  <1>3. oldest \in Nat /\ oldest <= clock /\ \A t \in Logins : place[t] = "timed" => oldest <= now[t]
    <2>1. readings \in SUBSET Nat /\ clock \in readings  BY <1>1
    <2>2. \A t \in Logins : place[t] = "timed" => now[t] \in readings  OBVIOUS
    <2>. HIDE DEF readings
    <2>. QED  BY <2>1, <2>2, MinNat
  <1>. HIDE DEF oldest, readings
  <1>4. \A k \in Keys : tries'[k] \in SUBSET tries[k]  BY <1>2
  <1>5. LimiterType'
    <2>1. \A k \in DOMAIN failures : failures[k] \in Seq(0..clock')
      <3>1. 0..clock \subseteq 0..clock'  BY <1>1
      <3>. QED  BY <3>1, SeqMonotonic
    <2>2. \A k \in Keys : IsFiniteSet(tries'[k]) /\ tries'[k] \in SUBSET Attempts  BY <1>4, FS_Subset
    <2>3. \A k \in Keys : \A a \in tries'[k] : a.read <= a.at /\ a.at <= clock'
      BY <1>1, <1>4 DEF Attempts
    <2>4. now' \in [Logins -> 0..clock'] /\ tries' \in [Keys -> SUBSET Attempts]  BY <1>1, <1>2, <2>2
    <2>. QED  BY <1>1, <1>2, <2>1, <2>2, <2>3, <2>4
  <1>6. NumberInv'
    <2>1. ASSUME NEW k \in Keys, NEW a \in tries'[k]
          PROVE  Alike(tries'[k], a.read, a.at) = Alike(tries[k], a.read, a.at)
      BY <1>2 DEF Alike
    <2>. QED  BY <1>4, <2>1 DEF NumberInv
  <1>7. LengthInv' /\ PromiseInv'
    BY <1>2 DEF LengthInv, PromiseInv, Times
  <1>8. MatchInv'
    <2>1. Gone \subseteq Gone'  BY <1>1, <1>2, GoneStays
    <2>2. ASSUME NEW k \in Keys, NEW a \in tries[k] \ tries'[k] PROVE a.at \in Gone'
      <3>1. a.at \in Nat /\ a.at < oldest - Window  BY <1>2, <1>3 DEF Attempts
      <3>2. \A x \in Nat : oldest <= x => a.at < x - Window  BY <1>3, <3>1
      <3>3. a.at < clock' - Window  BY <1>1, <1>3, <3>2
      <3>4. \A t \in Logins : now[t] \in Nat  BY <1>1
      <3>5. \A t \in Logins : place[t] = "timed" => a.at < now[t] - Window  BY <1>3, <3>2, <3>4
      <3>. QED  BY <1>2, <3>1, <3>3, <3>5 DEF Gone
    <2>3. ASSUME NEW k \in Keys PROVE Matched(Times(failures, k), tries'[k], Gone', clock')
      <3>1. Matched(Times(failures, k), tries[k], Gone, clock) /\ tries[k] \in SUBSET Attempts
        BY DEF MatchInv
      <3>2. Times(failures, k) \in Seq(Nat)  BY TimesType
      <3>3. clock' \in Nat /\ clock <= clock'  BY <1>1
      <3>. QED  BY <1>1, <1>4, <2>1, <2>2, <3>1, <3>2, <3>3, ForgetKeepsMatch
    <2>. QED  BY <1>2, <2>3 DEF MatchInv, Times
  <1>. QED  BY <1>5, <1>6, <1>7, <1>8

\* A login that comes in reads the clock as it is; one that leaves writes nothing.
LEMMA PassInv ==
    ASSUME LimiterInv, NEW t \in Logins, Arrive(t) \/ TurnAway(t)
    PROVE  LimiterInv'
  <1>. USE LimiterAssumption DEF LimiterInv, LimiterType, LimiterTypeOK
  <1>1. UNCHANGED <<clock, failures, sweepCounter, tries, promised>>  BY DEF Arrive, TurnAway
  <1>2. LimiterType'
    <2>1. clock \in Nat /\ clock \in 0..clock  OBVIOUS
    <2>2. /\ place' \in [Logins -> {"idle", "timed", "checking", "blocked"}]
          /\ key' \in [Logins -> Keys \cup {None}] /\ now' \in [Logins -> 0..clock] /\ arrived' \in Nat
      <3>1. CASE Arrive(t)  BY <2>1, <3>1 DEF Arrive
      <3>2. CASE TurnAway(t)  BY <2>1, <3>2 DEF TurnAway
      <3>. QED  BY <3>1, <3>2
    <2>3. \A u \in Logins : place'[u] \in {"timed", "checking"} => key'[u] \in Keys
      BY DEF Arrive, TurnAway
    <2>. QED  BY <1>1, <2>2, <2>3
  <1>3. NumberInv' /\ LengthInv' /\ PromiseInv'
    BY <1>1 DEF NumberInv, LengthInv, PromiseInv, Times, Alike
  <1>4. MatchInv'
    <2>1. Gone \subseteq Gone'
      <3>1. \A u \in Logins : place'[u] = "timed" =>
                (place[u] = "timed" /\ now'[u] = now[u]) \/ now'[u] = clock
        BY DEF Arrive, TurnAway
      <3>. QED  BY <1>1, <3>1, GoneStays
    <2>. QED  BY <1>1, <2>1, MatchStays DEF MatchInv, Times
  <1>. QED  BY <1>2, <1>3, <1>4

\* A clear forgets the times and the attempts of the source together.
LEMMA FinishInv == ASSUME LimiterInv, NEW t \in Logins, Finish(t) PROVE LimiterInv'
  <1>. DEFINE k == key[t]
  <1>. USE LimiterAssumption DEF LimiterInv, LimiterType, LimiterTypeOK
  <1>1. k \in Keys /\ UNCHANGED <<clock, sweepCounter, arrived, promised>>  BY DEF Finish
  <1>2. \/ failures' = failures /\ tries' = tries
        \/ /\ failures' = [j \in DOMAIN failures \ {k} |-> failures[j]]
           /\ tries' = [tries EXCEPT ![k] = {}]
    BY DEF Finish
  <1>3. Gone \subseteq Gone'
    <2>1. \A u \in Logins : place'[u] = "timed" => place[u] = "timed" /\ now'[u] = now[u]  BY DEF Finish
    <2>. QED  BY <1>1, <2>1, GoneStays
  <1>. HIDE DEF k
  <1>4. \A j \in Keys : (Times(failures', j) = Times(failures, j) /\ tries'[j] = tries[j])
                         \/ (Times(failures', j) = <<>> /\ tries'[j] = {})
    BY <1>1, <1>2 DEF Times
  <1>5. LimiterType'
    <2>1. DOMAIN failures' \subseteq Keys /\ \A j \in DOMAIN failures' : failures'[j] \in Seq(0..clock) \ {<<>>}
      BY <1>2
    <2>2. tries' \in [Keys -> SUBSET Attempts]  BY <1>2
    <2>3. \A j \in Keys : IsFiniteSet(tries'[j]) /\ \A a \in tries'[j] : a.read <= a.at /\ a.at <= clock
      BY <1>4, FS_EmptySet
    <2>. QED  BY <1>1, <2>1, <2>2, <2>3 DEF Finish
  <1>6. NumberInv'  BY <1>4 DEF NumberInv
  <1>7. LengthInv' /\ PromiseInv'
    <2>1. Len(<<>>) = 0 /\ MaxFailures >= 1 /\ MaxFailures \in Nat  OBVIOUS
    <2>2. Len(<<>>) <= MaxFailures /\ ~(Len(<<>>) >= MaxFailures)  BY <2>1
    <2>3. LengthInv'  BY <1>4, <2>2 DEF LengthInv
    <2>4. PromiseInv'  BY <1>1, <1>4, <2>2 DEF PromiseInv
    <2>. QED  BY <2>3, <2>4
  <1>8. ASSUME NEW j \in Keys PROVE Matched(Times(failures', j), tries'[j], Gone', clock')
    <2>1. CASE Times(failures', j) = Times(failures, j) /\ tries'[j] = tries[j]
      BY <1>1, <1>3, <2>1, MatchStays
    <2>2. CASE Times(failures', j) = <<>> /\ tries'[j] = {}
      BY <2>2, EmptyMatches
    <2>. QED  BY <1>4, <2>1, <2>2
  <1>9. MatchInv'  BY <1>8 DEF MatchInv
  <1>. QED  BY <1>5, <1>6, <1>7, <1>9

\* The map when allow looks at the source: the sources it cleans have lost their
\* expired times.
MapAt(t) ==
    Cleaned(failures, IF sweepCounter + 1 >= SweepInterval THEN Keys ELSE {key[t]}, now[t])

\* Cleaning leaves a deque as it is or pops its expired front; a full deque that is
\* still full has lost nothing, and the source of the login has a fresh front.
LEMMA MapFacts ==
    ASSUME LimiterInv, NEW t \in Logins, place[t] = "timed"
    PROVE  /\ DOMAIN MapAt(t) \subseteq Keys
           /\ \A j \in DOMAIN MapAt(t) : MapAt(t)[j] \in Seq(0..clock) \ {<<>>}
           /\ \A j \in Keys :
                /\ Times(MapAt(t), j) \in Seq(Nat)
                /\ Len(Times(MapAt(t), j)) <= MaxFailures
                /\ Len(Times(MapAt(t), j)) >= MaxFailures =>
                        Len(Times(failures, j)) >= MaxFailures /\ Times(MapAt(t), j)[1] = Times(failures, j)[1]
                /\ Matched(Times(MapAt(t), j), tries[j], Gone, clock)
           /\ Times(MapAt(t), key[t]) # <<>> => ~Expired(Times(MapAt(t), key[t])[1], now[t])
  <1>. DEFINE which == IF sweepCounter + 1 >= SweepInterval THEN Keys ELSE {key[t]}
              map == Cleaned(failures, which, now[t])
  <1>. USE LimiterAssumption DEF LimiterInv, LimiterType, LimiterTypeOK
  <1>1. clock \in Nat /\ now[t] \in 0..clock /\ now[t] \in Nat /\ key[t] \in Keys /\ key[t] \in which
        /\ MaxFailures \in Nat \ {0}
    OBVIOUS
  <1>2. MapAt(t) = map  BY DEF MapAt
  <1>3. \A j \in DOMAIN failures : failures[j] \in Seq(Nat) \ {<<>>}
    <2>1. 0..clock \subseteq Nat  BY <1>1
    <2>. QED  BY <2>1, SeqMonotonic
  <1>. HIDE DEF which
  <1>4. /\ DOMAIN map \subseteq DOMAIN failures
        /\ \A j \in DOMAIN map : map[j] # <<>>
        /\ \A j \in Keys : Times(map, j) = IF j \in which THEN Fresh(Times(failures, j), now[t]) ELSE Times(failures, j)
    BY <1>1, <1>3, CleanedTimes
  <1>. HIDE DEF map
  <1>5. ASSUME NEW j \in Keys
        PROVE  /\ Times(map, j) \in Seq(0..clock) /\ Times(map, j) \in Seq(Nat)
               /\ Len(Times(map, j)) <= MaxFailures
               /\ Len(Times(map, j)) >= MaxFailures =>
                        Len(Times(failures, j)) >= MaxFailures /\ Times(map, j)[1] = Times(failures, j)[1]
               /\ Matched(Times(map, j), tries[j], Gone, clock)
               /\ j \in which /\ Times(map, j) # <<>> => ~Expired(Times(map, j)[1], now[t])
    <2>. DEFINE times == Times(failures, j)
                rest == Times(map, j)
    <2>1. /\ times \in Seq(0..clock) /\ times \in Seq(Nat) /\ Len(times) <= MaxFailures
          /\ Matched(times, tries[j], Gone, clock) /\ tries[j] \in SUBSET Attempts
      BY TimesType DEF LengthInv, MatchInv
    <2>2. CASE j \notin which
      BY <1>4, <2>1, <2>2
    <2>3. CASE j \in which
      <3>1. rest = Fresh(times, now[t])  BY <1>4, <2>3
      <3>. HIDE DEF times, rest
      <3>2. PICK n : Popped(times, rest, n, now[t])  BY <1>1, <2>1, <3>1, FreshPops
      <3>3. /\ n \in 0..Len(times) /\ rest \in Seq(Nat) /\ Len(rest) = Len(times) - n /\ Len(times) \in Nat
            /\ \A i \in 1..Len(rest) : rest[i] = times[i + n]
            /\ rest # <<>> => ~Expired(rest[1], now[t])
        BY <2>1, <3>2 DEF Popped
      <3>4. rest \in Seq(0..clock)
        <4>1. \A i \in 1..Len(rest) : i + n \in 1..Len(times) /\ rest[i] = times[i + n]
          <5>1. \A l, r \in Nat : n \in 0..l /\ r = l - n => \A i \in 1..r : i + n \in 1..l  BY <3>3
          <5>2. Len(rest) \in Nat  BY <3>3
          <5>3. \A i \in 1..Len(rest) : i + n \in 1..Len(times)  BY <3>3, <5>1, <5>2
          <5>. QED  BY <3>3, <5>3
        <4>2. \A i \in 1..Len(times) : times[i] \in 0..clock  BY <2>1, ElementOfSeq
        <4>3. \A i \in 1..Len(rest) : rest[i] \in 0..clock  BY <4>1, <4>2
        <4>. QED  BY <3>3, <4>3, SeqInto
      <3>5. Matched(rest, tries[j], Gone, clock)  BY <1>1, <2>1, <3>2, PopKeepsMatch
      <3>6. Len(rest) <= MaxFailures  BY <1>1, <2>1, <3>3
      <3>7. Len(rest) >= MaxFailures => n = 0 /\ Len(times) >= MaxFailures /\ rest[1] = times[1]
        <4>1. \A l, r, top \in Nat : top >= 1 /\ l <= top /\ n \in 0..l /\ r = l - n /\ r >= top =>
                  n = 0 /\ l >= top /\ 1 \in 1..r
          BY <3>3
        <4>2. Len(rest) \in Nat /\ MaxFailures >= 1 /\ MaxFailures \in Nat  BY <1>1, <3>3
        <4>3. Len(rest) >= MaxFailures => n = 0 /\ Len(times) >= MaxFailures /\ 1 \in 1..Len(rest)
          BY <2>1, <3>3, <4>1, <4>2
        <4>4. n = 0 /\ 1 \in 1..Len(rest) => rest[1] = times[1 + 0]  BY <3>3
        <4>. QED  BY <4>3, <4>4
      <3>. QED  BY <3>3, <3>4, <3>5, <3>6, <3>7 DEF times, rest
    <2>. QED  BY <2>2, <2>3
  <1>6. \A j \in DOMAIN map : j \in Keys /\ map[j] = Times(map, j)  BY <1>4 DEF Times
  <1>. QED  BY <1>1, <1>2, <1>4, <1>5, <1>6

\* The limiter turns a login away.
LEMMA BlockInv ==
    ASSUME LimiterInv, NEW t \in Logins, Decide(t), AtLimit(MapAt(t), key[t])
    PROVE  LimiterInv'
  <1>. DEFINE k == key[t]
              map == MapAt(t)
              until == clock + Second * RetryAfter(map[k][1], now[t])
  <1>. USE LimiterAssumption DEF LimiterInv, LimiterType, LimiterTypeOK
  <1>1. /\ place[t] = "timed" /\ failures' = map /\ place' = [place EXCEPT ![t] = "blocked"]
        /\ promised' = [promised EXCEPT ![k] = IF @ = None THEN until ELSE Min({@, until})]
        /\ UNCHANGED <<clock, key, now, arrived, tries>>
        /\ sweepCounter' = IF sweepCounter + 1 >= SweepInterval THEN 0 ELSE sweepCounter + 1
    BY DEF Decide, MapAt
  <1>2. k \in Keys /\ clock \in Nat /\ now[t] \in Nat /\ now[t] <= clock /\ MaxFailures \in Nat \ {0}
    BY <1>1
  <1>3. /\ DOMAIN map \subseteq Keys /\ \A j \in DOMAIN map : map[j] \in Seq(0..clock) \ {<<>>}
        /\ \A j \in Keys :
             /\ Times(map, j) \in Seq(Nat) /\ Len(Times(map, j)) <= MaxFailures
             /\ Len(Times(map, j)) >= MaxFailures =>
                     Len(Times(failures, j)) >= MaxFailures /\ Times(map, j)[1] = Times(failures, j)[1]
             /\ Matched(Times(map, j), tries[j], Gone, clock)
    BY <1>1, MapFacts
  <1>4. k \in DOMAIN map /\ map[k] = Times(map, k)  BY DEF AtLimit, Times
  <1>. HIDE DEF map, k
  <1>5. map[k][1] \in Nat
    <2>1. map[k] \in Seq(Nat) /\ map[k] # <<>>  BY <1>2, <1>3, <1>4
    <2>. QED  BY <2>1, FirstIn, Zenon
  <1>6. until \in Nat /\ map[k][1] + Window <= until
    <2>. DEFINE retry == RetryAfter(map[k][1], now[t])
    <2>1. retry \in Nat /\ map[k][1] + Window <= now[t] + Second * retry  BY <1>2, <1>5, RetryCovers
    <2>2. Second \in Nat /\ Window \in Nat  OBVIOUS
    <2>. HIDE DEF retry
    <2>. DEFINE wait == Second * retry
    <2>3. wait \in Nat /\ map[k][1] + Window <= now[t] + wait  BY <2>1, <2>2
    <2>. HIDE DEF wait
    <2>4. now[t] \in Nat /\ clock \in Nat /\ now[t] <= clock  BY <1>2
    <2>5. clock + wait \in Nat /\ map[k][1] + Window <= clock + wait
      <3>1. \A x, y, n, c, w \in Nat : x + y <= n + w /\ n <= c => c + w \in Nat /\ x + y <= c + w
        OBVIOUS
      <3>. QED  BY <1>5, <2>2, <2>3, <2>4, <3>1
    <2>. QED  BY <2>5 DEF retry, wait
  <1>. HIDE DEF until
  <1>7. /\ promised' \in [Keys -> Nat \cup {None}]
        /\ \A j \in Keys : j # k => promised'[j] = promised[j]
        /\ promised'[k] = until \/ (promised[k] # None /\ promised'[k] = promised[k])
    <2>1. promised[k] \in Nat \cup {None}  BY <1>2
    <2>2. promised[k] # None => Min({promised[k], until}) \in {promised[k], until}
      <3>1. ASSUME promised[k] # None PROVE Min({promised[k], until}) \in {promised[k], until}
        <4>1. promised[k] \in Int /\ until \in Int  BY <1>6, <2>1, <3>1
        <4>. QED  BY <4>1, MinPair
      <3>. QED  BY <3>1
    <2>3. promised'[k] = (IF promised[k] = None THEN until ELSE Min({promised[k], until}))
          /\ DOMAIN promised' = Keys /\ \A j \in Keys : j # k => promised'[j] = promised[j]
      BY <1>1, <1>2
    <2>4. promised'[k] = until \/ (promised[k] # None /\ promised'[k] = promised[k])
      BY <2>2, <2>3
    <2>5. \A j \in Keys : promised'[j] \in Nat \cup {None}  BY <1>6, <2>3, <2>4
    <2>6. promised' = [j \in Keys |-> promised'[j]]  BY <1>1
    <2>. QED  BY <2>3, <2>4, <2>5, <2>6
  <1>8. LimiterType'
    <2>1. sweepCounter' \in 0..(SweepInterval - 1)  BY <1>1
    <2>2. place' \in [Logins -> {"idle", "timed", "checking", "blocked"}]
          /\ \A u \in Logins : place'[u] \in {"timed", "checking"} => key'[u] \in Keys
      BY <1>1
    <2>. QED  BY <1>1, <1>3, <1>7, <2>1, <2>2
  <1>9. NumberInv' /\ LengthInv'
    BY <1>1, <1>3 DEF NumberInv, LengthInv
  <1>10. MatchInv'
    <2>1. Gone \subseteq Gone'  BY <1>1, <1>2, GoneStays
    <2>2. \A j \in Keys : Matched(Times(map, j), tries[j], Gone', clock)
      <3>1. ASSUME NEW j \in Keys PROVE Matched(Times(map, j), tries[j], Gone', clock)
        <4>1. tries[j] \in SUBSET Attempts /\ tries[j] \in SUBSET tries[j] /\ clock <= clock  BY <1>2
        <4>. QED  BY <1>2, <1>3, <2>1, <4>1, ForgetKeepsMatch
      <3>. QED  BY <3>1
    <2>. QED  BY <1>1, <2>2 DEF MatchInv
  <1>11. ASSUME NEW j \in Keys, promised'[j] # None, Len(Times(map, j)) >= MaxFailures
         PROVE  Times(map, j)[1] + Window <= promised'[j]
    <2>1. promised[j] # None => Times(map, j)[1] + Window <= promised[j]
      BY <1>3, <1>11 DEF PromiseInv
    <2>. QED  BY <1>4, <1>6, <1>7, <1>11, <2>1
  <1>12. PromiseInv'  BY <1>1, <1>11 DEF PromiseInv
  <1>. QED  BY <1>8, <1>9, <1>10, <1>12

\* The limiter lets a login through.
LEMMA AllowInv ==
    ASSUME LimiterInv, NEW t \in Logins, Decide(t), ~AtLimit(MapAt(t), key[t])
    PROVE  LimiterInv'
  <1>. DEFINE k == key[t]
              map == MapAt(t)
              number == Cardinality(Alike(tries[k], now[t], clock))
              a == [read |-> now[t], at |-> clock, nth |-> number]
  <1>. USE LimiterAssumption DEF LimiterInv, LimiterType, LimiterTypeOK
  <1>1. /\ place[t] = "timed" /\ place' = [place EXCEPT ![t] = "checking"]
        /\ failures' = [j \in DOMAIN map \cup {k} |->
                            IF j # k THEN map[j] ELSE Times(map, k) \o <<now[t]>>]
        /\ tries' = [tries EXCEPT ![k] = @ \cup {a}]
        /\ promised' = [promised EXCEPT ![k] = None]
        /\ UNCHANGED <<clock, key, now, arrived>>
        /\ sweepCounter' = IF sweepCounter + 1 >= SweepInterval THEN 0 ELSE sweepCounter + 1
    BY DEF Decide, MapAt, Times, Alike
  <1>2. k \in Keys /\ clock \in Nat /\ now[t] \in 0..clock /\ now[t] \in Nat /\ MaxFailures \in Nat \ {0}
    BY <1>1
  <1>3. /\ DOMAIN map \subseteq Keys /\ \A j \in DOMAIN map : map[j] \in Seq(0..clock) \ {<<>>}
        /\ \A j \in Keys :
             /\ Times(map, j) \in Seq(Nat) /\ Len(Times(map, j)) <= MaxFailures
             /\ Len(Times(map, j)) >= MaxFailures =>
                     Len(Times(failures, j)) >= MaxFailures /\ Times(map, j)[1] = Times(failures, j)[1]
             /\ Matched(Times(map, j), tries[j], Gone, clock)
    BY <1>1, MapFacts
  <1>4. Len(Times(map, k)) < MaxFailures
    BY <1>2, <1>3 DEF AtLimit, Times
  <1>. HIDE DEF map, k
  <1>5. Times(map, k) \in Seq(0..clock)  BY <1>3, EmptySeq DEF Times
  <1>6. /\ Times(failures', k) = Times(map, k) \o <<now[t]>>
        /\ \A j \in Keys : j # k => Times(failures', j) = Times(map, j)
    BY <1>1 DEF Times
  <1>7. IsFiniteSet(tries[k]) /\ tries[k] \in SUBSET Attempts  BY <1>2
  <1>8. IsFiniteSet(Alike(tries[k], now[t], clock)) /\ number \in Nat
    <2>1. Alike(tries[k], now[t], clock) \in SUBSET tries[k]  BY DEF Alike
    <2>. QED  BY <1>7, <2>1, FS_Subset, FS_CardinalityType
  <1>. HIDE DEF number
  <1>9. a \in Attempts /\ a.read = now[t] /\ a.at = clock /\ a.nth = number
    BY <1>2, <1>8 DEF Attempts
  <1>. HIDE DEF a
  <1>10. a \notin tries[k]
    BY <1>2, <1>8, <1>9 DEF NumberInv, number
  <1>11. tries'[k] = tries[k] \cup {a} /\ \A j \in Keys : j # k => tries'[j] = tries[j]
    BY <1>1, <1>2
  <1>12. LimiterType'
    <2>1. Times(map, k) \o <<now[t]>> \in Seq(0..clock) /\ Times(map, k) \o <<now[t]>> # <<>>
      BY <1>2, <1>5
    <2>2. DOMAIN failures' \subseteq Keys /\ \A j \in DOMAIN failures' : failures'[j] \in Seq(0..clock) \ {<<>>}
      BY <1>1, <1>2, <1>3, <2>1
    <2>3. tries' \in [Keys -> SUBSET Attempts]  BY <1>1, <1>2, <1>9
    <2>4. \A j \in Keys : IsFiniteSet(tries'[j]) /\ \A b \in tries'[j] : b.read <= b.at /\ b.at <= clock
      <3>1. IsFiniteSet(tries'[k]) /\ \A b \in tries'[k] : b.read <= b.at /\ b.at <= clock
        <4>1. IsFiniteSet(tries'[k])
          <5>1. IsFiniteSet(tries[k] \cup {a})  BY <1>7, FS_AddElement
          <5>. QED  BY <1>11, <5>1
        <4>2. a.read <= a.at /\ a.at <= clock  BY <1>2, <1>9
        <4>. QED  BY <1>2, <1>11, <4>1, <4>2
      <3>. QED  BY <1>11, <3>1
    <2>5. sweepCounter' \in 0..(SweepInterval - 1)  BY <1>1
    <2>6. place' \in [Logins -> {"idle", "timed", "checking", "blocked"}]
          /\ \A u \in Logins : place'[u] \in {"timed", "checking"} => key'[u] \in Keys
      BY <1>1, <1>2 DEF k
    <2>7. promised' \in [Keys -> Nat \cup {None}]  BY <1>1
    <2>. QED  BY <1>1, <1>2, <2>2, <2>3, <2>4, <2>5, <2>6, <2>7
  <1>13. NumberInv'
    <2>1. ASSUME NEW b \in tries'[k] PROVE b.nth < Cardinality(Alike(tries'[k], b.read, b.at))
      <3>1. CASE b.read = now[t] /\ b.at = clock
        <4>1. Alike(tries'[k], b.read, b.at) = Alike(tries[k], now[t], clock) \cup {a}
              /\ a \notin Alike(tries[k], now[t], clock)
          BY <1>9, <1>10, <1>11, <3>1 DEF Alike
        <4>2. Cardinality(Alike(tries'[k], b.read, b.at)) = number + 1
          BY <1>8, <4>1, FS_AddElement DEF number
        <4>3. b = a \/ (b \in tries[k] /\ b.nth < number /\ b.nth \in Nat)
          BY <1>2, <1>7, <1>11, <3>1 DEF NumberInv, number, Attempts
        <4>. QED  BY <1>8, <1>9, <4>2, <4>3
      <3>2. CASE ~(b.read = now[t] /\ b.at = clock)
        <4>1. Alike(tries'[k], b.read, b.at) = Alike(tries[k], b.read, b.at)
          BY <1>9, <1>11, <3>2 DEF Alike
        <4>2. b \in tries[k]  BY <1>9, <1>11, <3>2
        <4>. QED  BY <1>2, <4>1, <4>2 DEF NumberInv
      <3>. QED  BY <3>1, <3>2
    <2>2. \A j \in Keys : j # k => \A b \in tries'[j] : b.nth < Cardinality(Alike(tries'[j], b.read, b.at))
      BY <1>11 DEF NumberInv
    <2>. QED  BY <2>1, <2>2 DEF NumberInv
  <1>14. LengthInv'
    <2>1. Len(Times(map, k) \o <<now[t]>>) = Len(Times(map, k)) + 1 /\ Len(Times(map, k)) \in Nat
      BY <1>5, <1>2
    <2>2. Len(Times(failures', k)) <= MaxFailures  BY <1>2, <1>4, <1>6, <2>1
    <2>. QED  BY <1>3, <1>6, <2>2 DEF LengthInv
  <1>15. MatchInv'
    <2>1. Gone \subseteq Gone'  BY <1>1, <1>2, GoneStays
    <2>2. a.at \notin Gone /\ a.read <= a.at  BY <1>2, <1>9 DEF Gone
    <2>3. Matched(Times(map, k) \o <<a.read>>, tries[k] \cup {a}, Gone, clock)
      BY <1>2, <1>3, <1>7, <1>9, <1>10, <2>2, AppendKeepsMatch
    <2>4. Matched(Times(failures', k), tries'[k], Gone, clock)  BY <1>6, <1>9, <1>11, <2>3
    <2>5. \A j \in Keys : Matched(Times(failures', j), tries'[j], Gone, clock)
      BY <1>3, <1>6, <1>11, <2>4
    <2>6. \A j \in Keys : Times(failures', j) \in Seq(Nat) /\ tries'[j] \in SUBSET Attempts
      <3>1. Times(map, k) \o <<now[t]>> \in Seq(Nat)  BY <1>2, <1>3
      <3>2. Times(failures', k) \in Seq(Nat) /\ tries'[k] \in SUBSET Attempts
        BY <1>6, <1>7, <1>9, <1>11, <3>1
      <3>. QED  BY <1>3, <1>6, <1>11, <3>2
    <2>7. ASSUME NEW j \in Keys PROVE Matched(Times(failures', j), tries'[j], Gone', clock)
      <3>1. tries'[j] \in SUBSET tries'[j] /\ clock <= clock  BY <1>2
      <3>. QED  BY <1>2, <2>1, <2>5, <2>6, <3>1, ForgetKeepsMatch
    <2>. QED  BY <1>1, <2>7 DEF MatchInv
  <1>16. PromiseInv'
    <2>1. promised'[k] = None /\ \A j \in Keys : j # k => promised'[j] = promised[j]  BY <1>1, <1>2
    <2>. QED  BY <1>3, <1>6, <2>1 DEF PromiseInv
  <1>. QED  BY <1>12, <1>13, <1>14, <1>15, <1>16

-----------------------------------------------------------------------------
(* The invariant and the properties.                                       *)

\* Nothing is tracked at the start.
LEMMA LimiterStarts == LimiterInit => LimiterInv
  <1>. SUFFICES ASSUME LimiterInit PROVE LimiterInv  OBVIOUS
  <1>. USE LimiterAssumption DEF LimiterInit
  <1>1. \A k \in Keys : Times(failures, k) = <<>> /\ tries[k] = {}  BY DEF Times
  <1>2. LimiterType  BY <1>1, FS_EmptySet DEF LimiterType, LimiterTypeOK, Attempts
  <1>3. NumberInv /\ LengthInv /\ PromiseInv
    BY <1>1 DEF NumberInv, LengthInv, PromiseInv
  <1>4. MatchInv  BY <1>1, EmptyMatches DEF MatchInv
  <1>. QED  BY <1>2, <1>3, <1>4 DEF LimiterInv

\* Every step keeps the invariant.
LEMMA LimiterSteps == LimiterInv /\ [LimiterNext]_limiterVars => LimiterInv'
  <1>. SUFFICES ASSUME LimiterInv, [LimiterNext]_limiterVars PROVE LimiterInv'  OBVIOUS
  <1>1. CASE Tick  BY <1>1, TickInv
  <1>2. ASSUME NEW t \in Logins, Arrive(t) \/ TurnAway(t) PROVE LimiterInv'  BY <1>2, PassInv
  <1>3. ASSUME NEW t \in Logins, Decide(t) PROVE LimiterInv'  BY <1>3, BlockInv, AllowInv
  <1>4. ASSUME NEW t \in Logins, Finish(t) PROVE LimiterInv'  BY <1>4, FinishInv
  <1>5. CASE UNCHANGED limiterVars
    BY <1>5 DEF limiterVars, LimiterInv, LimiterType, LimiterTypeOK, NumberInv, Alike, LengthInv, Times,
       MatchInv, Gone, PromiseInv
  <1>. QED  BY <1>1, <1>2, <1>3, <1>4, <1>5 DEF LimiterNext

\* The inductive invariant: the deque of every source is matched with its attempts.
THEOREM LimiterInvariant == LimiterSpec => []LimiterInv
  BY LimiterStarts, LimiterSteps, PTL DEF LimiterSpec

\* Within the window that ends now no more than MaxFailures attempts of a source were
\* let through without a clear, and only sources with times are tracked.
THEOREM WindowIsBounded == LimiterSpec => []WindowBound
  <1>1. ASSUME LimiterInv PROVE WindowBound
    <2>1. ASSUME NEW k \in Keys
          PROVE  Cardinality({a \in tries[k] : a.read >= clock - Window}) <= MaxFailures
      <3>. DEFINE recent == {a \in tries[k] : a.read >= clock - Window}
      <3>1. Times(failures, k) \in Seq(Nat) /\ Matched(Times(failures, k), tries[k], Gone, clock)
        BY <1>1, TimesType DEF LimiterInv, MatchInv
      <3>2. Cardinality(recent) <= Len(Times(failures, k))  BY <3>1, MatchBounds
      <3>3. Len(Times(failures, k)) <= MaxFailures /\ Len(Times(failures, k)) \in Nat /\ MaxFailures \in Nat
        BY <1>1, <3>1, LimiterAssumption DEF LimiterInv, LengthInv
      <3>4. IsFiniteSet(tries[k])  BY <1>1 DEF LimiterInv, LimiterType
      <3>5. recent \in SUBSET tries[k]  OBVIOUS
      <3>. HIDE DEF recent
      <3>6. Cardinality(recent) \in Nat  BY <3>4, <3>5, FS_Subset, FS_CardinalityType
      <3>7. Cardinality(recent) <= MaxFailures  BY <3>2, <3>3, <3>6
      <3>. QED  BY <3>7 DEF recent
    <2>. QED  BY <1>1, <2>1 DEF WindowBound, LimiterInv, LimiterType
  <1>. QED  BY <1>1, LimiterInvariant, PTL

\* A login is turned away only when MaxFailures attempts of its source were let
\* through in its window, and never after the end of a Retry-After that was kept.
THEOREM RefusalsAreFair == LimiterSpec => RefusalIsFair
  <1>1. ASSUME LimiterInv, [LimiterNext]_limiterVars, NEW t \in Logins, place[t] = "timed", place'[t] = "blocked"
        PROVE  /\ Cardinality({a \in tries[key[t]] : a.at >= now[t] - Window}) >= MaxFailures
               /\ promised[key[t]] # None => now[t] <= promised[key[t]]
    <2>. DEFINE k == key[t]
                times == Times(MapAt(t), k)
                inside == {a \in tries[k] : a.at >= now[t] - Window}
    <2>1. Decide(t) /\ AtLimit(MapAt(t), k)
      <3>1. place \in [Logins -> {"idle", "timed", "checking", "blocked"}]
        BY <1>1 DEF LimiterInv, LimiterType, LimiterTypeOK
      <3>2. \E u \in Logins : Decide(u)
        BY <1>1, <3>1 DEF LimiterNext, limiterVars, Tick, Arrive, Finish, TurnAway
      <3>3. PICK u \in Logins : Decide(u)  BY <3>2
      <3>4. u = t  BY <1>1, <3>1, <3>3 DEF Decide
      <3>. QED  BY <1>1, <3>1, <3>3, <3>4 DEF Decide, MapAt
    <2>2. /\ k \in Keys /\ now[t] \in Nat /\ IsFiniteSet(tries[k]) /\ Window \in Nat
          /\ MaxFailures \in Nat \ {0} /\ promised \in [Keys -> Nat \cup {None}]
      BY <1>1, LimiterAssumption DEF LimiterInv, LimiterType, LimiterTypeOK
    <2>3. /\ times \in Seq(Nat) /\ Len(times) <= MaxFailures
          /\ Len(times) >= MaxFailures =>
                  Len(Times(failures, k)) >= MaxFailures /\ times[1] = Times(failures, k)[1]
          /\ Matched(times, tries[k], Gone, clock)
          /\ times # <<>> => ~Expired(times[1], now[t])
      BY <1>1, <2>2, MapFacts
    <2>4. Len(times) >= MaxFailures /\ times # <<>>  BY <2>1, <2>2 DEF AtLimit, Times
    <2>. HIDE DEF k, times
    <2>5. times[1] \in Nat /\ now[t] - times[1] <= Window  BY <2>2, <2>3, <2>4 DEF Expired
    <2>6. Cardinality(inside) >= Len(times)
      <3>1. times[1] >= now[t] - Window /\ now[t] - Window \in Int  BY <2>2, <2>5
      <3>2. \A at \in Gone : ~(at >= now[t] - Window)  BY <1>1, <3>1 DEF Gone
      <3>. QED  BY <2>2, <2>3, <2>4, <3>1, <3>2, MatchCovers
    <2>7. Cardinality(inside) >= MaxFailures
      <3>1. inside \in SUBSET tries[k]  OBVIOUS
      <3>2. Cardinality(inside) \in Nat  BY <2>2, <3>1, FS_Subset, FS_CardinalityType
      <3>. HIDE DEF inside
      <3>. QED  BY <2>2, <2>3, <2>4, <2>6, <3>2
    <2>8. promised[k] # None => now[t] <= promised[k]
      <3>1. promised[k] # None => times[1] + Window <= promised[k] /\ promised[k] \in Nat
        BY <1>1, <2>2, <2>3, <2>4 DEF LimiterInv, PromiseInv
      <3>. QED  BY <2>2, <2>5, <3>1
    <2>. QED  BY <2>7, <2>8 DEF k
  <1>2. LimiterInv /\ [LimiterNext]_limiterVars =>
            [\A t \in Logins : place[t] = "timed" /\ place'[t] = "blocked" =>
                /\ Cardinality({a \in tries[key[t]] : a.at >= now[t] - Window}) >= MaxFailures
                /\ promised[key[t]] # None => now[t] <= promised[key[t]]]_limiterVars
    BY <1>1
  <1>. QED  BY <1>2, LimiterInvariant, PTL DEF LimiterSpec, RefusalIsFair

=============================================================================
