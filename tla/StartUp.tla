------------------------------ MODULE StartUp ------------------------------
(***************************************************************************)
(* What main.cpp does before a server serves and after it was told to      *)
(* stop, and the importer of the built-in problems (--seed), as processes  *)
(* that share one database file (db/schema.cpp, db/seed.cpp,               *)
(* db/instance_lock.cpp).                                                  *)
(*                                                                         *)
(* The schema is created and migrated before the instance lock is taken,   *)
(* and the importer never takes it, so several processes write the file;   *)
(* what keeps them apart there is SQLite's write lock, which BEGIN         *)
(* IMMEDIATE takes.  A process may die at any point; what it had not       *)
(* committed is gone and SQLite's lock is free.                            *)
(*                                                                         *)
(* The instance lock belongs to the open file description, not to the      *)
(* process: the processes that the executor forks for a program inherit    *)
(* it and neither exec nor close it (judge/local_executor.cpp), so a       *)
(* server that is killed while a program runs leaves it locked.            *)
(***************************************************************************)
EXTENDS Integers, Sequences, FiniteSets, FiniteSetsExt

CONSTANTS
    Servers,    \* processes started to serve
    Importers,  \* processes started with --seed
    Seeds,      \* number of built-in problems
    Cases,      \* number of test cases of each
    MaxStarts,  \* bound: starts of processes, all together
    MaxFaults,  \* bound: crashes and failing calls
    MaxEdits,   \* bound: changes by administrators
    None        \* nobody, nothing

ASSUME StartAssumption ==
    /\ Servers \cap Importers = {}
    /\ None \notin Servers \cup Importers \cup {"old", "changed"}
    /\ {Seeds, Cases, MaxStarts, MaxFaults, MaxEdits} \subseteq Nat

VARIABLES
    disk,    \* the committed database
    work,    \* the database as the transaction of the writer sees it
    writer,  \* holder of SQLite's write lock, or None
    flock,   \* server with the locked descriptor, or None
    programs, \* servers of whose programs one runs, with a copy of that descriptor
    pc,
    step,    \* per process: schema statement, then built-in problem, then its case
    left     \* starts, faults and edits that may still happen

dbVars == <<disk, work, writer>>
lockVars == <<flock, programs>>
vars == <<dbVars, lockVars, pc, step, left>>

Processes == Servers \cup Importers

\* The groups of schema statements, in order.
Complete == {"tables", "is_sample", "seed_key", "indexes"}
Old == {"tables"}  \* a file of a version before the two columns

\* builtin_seeds: keys of the built-in problems.
builtin_seeds == 1..Seeds

Absent == [schema |-> {}, admin |-> None, problems |-> [i \in {} |-> None], last |-> 0]

Init ==
    /\ disk \in {Absent, [Absent EXCEPT !.schema = Old, !.admin = "old"]}
    /\ work = disk
    /\ writer = None
    /\ flock = None
    /\ programs = {}
    /\ pc = [p \in Processes |-> "down"]
    /\ step = [p \in Processes |-> [schema |-> 0, seed |-> 0, case |-> 0]]
    /\ left = [starts |-> MaxStarts, faults |-> MaxFaults, edits |-> MaxEdits]

Goto(p, to) == pc' = [pc EXCEPT ![p] = to]

\* The process ends, whatever the reason: what is uncommitted is rolled back and
\* its descriptors are closed, but not the copies that its programs have.  (The
\* destructor of InstanceLock unlocks them all, but only when no program runs.)
Gone(p) ==
    /\ Goto(p, "down")
    /\ step' = [step EXCEPT ![p] = [schema |-> 0, seed |-> 0, case |-> 0]]
    /\ flock' = IF flock = p THEN None ELSE flock
    /\ writer' = IF writer = p THEN None ELSE writer
    /\ work' = IF writer = p THEN disk ELSE work
    /\ UNCHANGED <<disk, programs>>

\* main, Database::open and its pragmas.
Open(p) ==
    /\ pc[p] = "down"
    /\ left.starts > 0
    /\ left' = [left EXCEPT !.starts = @ - 1]
    /\ Goto(p, "opened")
    /\ UNCHANGED <<dbVars, lockVars, step>>

\* A call of the process fails, which it reports and exits, or it is killed.
Die(p) ==
    /\ pc[p] # "down"
    /\ left.faults > 0
    /\ left' = [left EXCEPT !.faults = @ - 1]
    /\ Gone(p)

\* BEGIN IMMEDIATE: the write lock, or SQLITE_BUSY after busy_timeout while
\* another process holds it.
begin(p, from, to) ==
    /\ pc[p] = from
    /\ \/ /\ writer = None
          /\ writer' = p
          /\ Goto(p, to)
          /\ UNCHANGED <<disk, work, lockVars, step>>
       \/ writer # None /\ Gone(p)
    /\ UNCHANGED left

commit(p, to) ==
    /\ disk' = work
    /\ writer' = None
    /\ Goto(p, to)
    /\ UNCHANGED <<work, lockVars, left>>

-----------------------------------------------------------------------------
(* initialize_schema and ensure_schema.                                    *)

BeginSchema(p) == begin(p, "opened", "schema")

\* CREATE TABLE IF NOT EXISTS has the newer columns in it; ensure_column adds one
\* that is missing; CREATE INDEX IF NOT EXISTS.
Applied(schema, n) ==
    CASE n = 1 -> IF "tables" \in schema THEN schema ELSE {"tables", "is_sample", "seed_key"}
      [] n = 2 -> schema \cup {"is_sample"}
      [] n = 3 -> schema \cup {"seed_key"}
      [] n = 4 -> schema \cup {"indexes"}

apply_schema(p) ==
    /\ pc[p] = "schema"
    /\ step[p].schema < 4
    /\ step' = [step EXCEPT ![p].schema = @ + 1]
    /\ work' = [work EXCEPT !.schema = Applied(@, step[p].schema + 1)]
    /\ UNCHANGED <<disk, writer, lockVars, pc, left>>

\* Mutant of insert_admin_if_absent: the password of the environment wins.
insert_admin_if_absent_Always(p) == work' = [work EXCEPT !.admin = p]

insert_admin_if_absent(p) == work' = IF work.admin = None THEN [work EXCEPT !.admin = p] ELSE work

\* The administrator, of whom the first start needs the password.
PresetAdmin(p) ==
    /\ pc[p] = "schema"
    /\ step[p].schema = 4
    /\ p \in Servers
    /\ \/ /\ insert_admin_if_absent(p)
          /\ Goto(p, "initialised")
          /\ UNCHANGED <<disk, writer, lockVars, step>>
       \/ work.admin = None /\ Gone(p)
    /\ UNCHANGED left

CommitSchema(p) ==
    /\ \/ pc[p] = "initialised" /\ commit(p, "migrated")
       \/ /\ pc[p] = "schema" /\ step[p].schema = 4
          /\ p \in Importers
          /\ commit(p, "import")
    /\ UNCHANGED step

-----------------------------------------------------------------------------
(* The server.                                                             *)

\* Where a server has the instance lock.
Holding == {"locked", "testing", "recovering", "serving", "stopping"}

\* Mutant of acquire: a shared lock.
acquire_Shared(p) ==
    /\ pc[p] = "migrated"
    /\ flock' = p
    /\ Goto(p, "locked")
    /\ UNCHANGED <<dbVars, programs, step, left>>

\* Mutant of acquire: a lock of the process (fcntl), which no child has.
acquire_PerProcess(p) ==
    /\ pc[p] = "migrated"
    /\ \/ /\ flock = None
          /\ flock' = p
          /\ Goto(p, "locked")
          /\ UNCHANGED <<dbVars, programs, step>>
       \/ flock # None /\ Gone(p)
    /\ UNCHANGED left

\* Mutant of acquire: waits for the lock.
acquire_Blocking(p) ==
    /\ pc[p] = "migrated"
    /\ flock = None
    /\ programs = {}
    /\ flock' = p
    /\ Goto(p, "locked")
    /\ UNCHANGED <<dbVars, programs, step, left>>

\* InstanceLock::acquire: LOCK_EX | LOCK_NB, refused while anyone has the locked
\* description open.
acquire(p) ==
    /\ pc[p] = "migrated"
    /\ \/ /\ flock = None
          /\ programs = {}
          /\ flock' = p
          /\ Goto(p, "locked")
          /\ UNCHANGED <<dbVars, programs, step>>
       \/ (flock # None \/ programs # {}) /\ Gone(p)
    /\ UNCHANGED left

\* JWT, queue, workspace: with one of them missing the server does not start; then
\* the probe of the sandbox forks, and the self-test runs a program.
Configure(p) ==
    /\ pc[p] = "locked"
    /\ \/ /\ programs' = programs \cup {p}
          /\ Goto(p, "testing")
          /\ UNCHANGED <<dbVars, flock, step>>
       \/ Gone(p)
    /\ UNCHANGED left

\* The probe and the self-test have their results, and the compile gate is configured.
Tested(p) ==
    /\ pc[p] = "testing"
    /\ p \notin programs
    /\ \/ Goto(p, "recovering") /\ UNCHANGED <<dbVars, lockVars, step>>
       \/ Gone(p)
    /\ UNCHANGED left

\* A worker runs a program: the forked P and G have the descriptor of the lock.
RunProgram(p) ==
    /\ pc[p] \in {"recovering", "serving", "stopping"}
    /\ programs' = programs \cup {p}
    /\ UNCHANGED <<dbVars, flock, pc, step, left>>

\* The last of the programs and its P and G end.
EndProgram(p) ==
    /\ p \in programs
    /\ programs' = programs \ {p}
    /\ UNCHANGED <<dbVars, flock, pc, step, left>>

\* recover_pending_tasks, which has the tasks of the crashed server judged again,
\* then start.
Serve(p) ==
    /\ pc[p] = "recovering"
    /\ Goto(p, "serving")
    /\ UNCHANGED <<dbVars, lockVars, step, left>>

\* The signal is seen by the loop of main.
Signal(p) ==
    /\ pc[p] = "serving"
    /\ Goto(p, "stopping")
    /\ UNCHANGED <<dbVars, lockVars, step, left>>

\* stop has drained the queue and joined the workers; the database is closed, the
\* lock released, main returns.
Stopped(p) == pc[p] = "stopping" /\ p \notin programs /\ Gone(p) /\ UNCHANGED left

\* Administrators change things while a server serves (modules Accounts and
\* ProblemCatalog): their password, a built-in problem, or delete one.
Edit(p) ==
    /\ pc[p] = "serving"
    /\ writer = None
    /\ left.edits > 0
    /\ left' = [left EXCEPT !.edits = @ - 1]
    /\ \/ disk' = [disk EXCEPT !.admin = "changed"]
       \/ \E i \in DOMAIN disk.problems :
            \/ disk' = [disk EXCEPT !.problems[i].edited = TRUE]
            \/ disk' = [disk EXCEPT !.problems = [j \in DOMAIN @ \ {i} |-> @[j]]]
    /\ work' = disk'
    /\ UNCHANGED <<writer, lockVars, pc, step>>

-----------------------------------------------------------------------------
(* The importer: one transaction per problem, the look before it.          *)

HasSeed(db, key) == \E i \in DOMAIN db.problems : db.problems[i].key = key

\* seed_exists: what is there is skipped, and after the last problem it is done.
LookUp(p) ==
    LET key == step[p].seed + 1 IN
    /\ pc[p] = "import"
    /\ \/ /\ key \in builtin_seeds /\ HasSeed(disk, key)
          /\ step' = [step EXCEPT ![p].seed = key]
          /\ UNCHANGED <<dbVars, lockVars, pc>>
       \/ /\ key \in builtin_seeds /\ ~HasSeed(disk, key)
          /\ Goto(p, "missing")
          /\ UNCHANGED <<dbVars, lockVars, step>>
       \/ key \notin builtin_seeds /\ Gone(p)
    /\ UNCHANGED left

BeginSeed(p) == begin(p, "missing", "insert")

\* Mutant of InsertSeed: no unique index on seed_key.
InsertSeed_NoIndex(p) ==
    LET key == step[p].seed + 1 IN
    /\ pc[p] = "insert"
    /\ work' = [work EXCEPT !.last = @ + 1,
                            !.problems = [i \in DOMAIN @ \cup {work.last + 1} |->
                                IF i = work.last + 1 THEN [key |-> key, cases |-> 0, edited |-> FALSE] ELSE @[i]]]
    /\ Goto(p, "cases")
    /\ UNCHANGED <<disk, writer, lockVars, step, left>>

\* INSERT INTO problems; the unique index on seed_key refuses a second one that
\* another importer has added since the look-up.
InsertSeed(p) ==
    LET key == step[p].seed + 1 IN
    /\ pc[p] = "insert"
    /\ \/ /\ ~HasSeed(work, key)
          /\ work' = [work EXCEPT !.last = @ + 1,
                                  !.problems = [i \in DOMAIN @ \cup {work.last + 1} |->
                                      IF i = work.last + 1 THEN [key |-> key, cases |-> 0, edited |-> FALSE] ELSE @[i]]]
          /\ Goto(p, "cases")
          /\ UNCHANGED <<disk, writer, lockVars, step>>
       \/ HasSeed(work, key) /\ Gone(p)
    /\ UNCHANGED left

\* The cases of the new problem, one INSERT each.
InsertCase(p) ==
    /\ pc[p] = "cases"
    /\ step[p].case < Cases
    /\ work' = [work EXCEPT !.problems[work.last].cases = @ + 1]
    /\ step' = [step EXCEPT ![p].case = @ + 1]
    /\ UNCHANGED <<disk, writer, lockVars, pc, left>>

CommitSeed(p) ==
    /\ pc[p] = "cases"
    /\ step[p].case = Cases
    /\ commit(p, "import")
    /\ step' = [step EXCEPT ![p] = [schema |-> @.schema, seed |-> @.seed + 1, case |-> 0]]

-----------------------------------------------------------------------------
\* The steps a process takes by itself once it runs.
Run(p) ==
    \/ BeginSchema(p) \/ apply_schema(p) \/ PresetAdmin(p) \/ CommitSchema(p)
    \/ acquire(p) \/ Configure(p) \/ Tested(p) \/ Serve(p) \/ Stopped(p)
    \/ LookUp(p) \/ BeginSeed(p) \/ InsertSeed(p) \/ InsertCase(p) \/ CommitSeed(p)

Next ==
    \/ \E p \in Processes : Open(p) \/ Run(p) \/ Signal(p) \/ Edit(p) \/ Die(p)
    \/ \E p \in Servers : RunProgram(p) \/ EndProgram(p)

Spec == Init /\ [][Next]_vars

\* A running process is scheduled, and the executor of a server that lives ends its
\* programs (module LocalExecutor).  Nothing ends those of a killed server, or makes
\* anyone start a process, stop it, edit or fail.
FairSpec ==
    /\ Spec
    /\ \A p \in Processes : WF_vars(Run(p))
    /\ \A p \in Servers : WF_vars(flock = p /\ EndProgram(p))

-----------------------------------------------------------------------------
StartTypeOK ==
    /\ disk.schema \subseteq Complete /\ work.schema \subseteq Complete
    /\ writer \in Processes \cup {None}
    /\ flock \in Servers \cup {None}
    /\ programs \subseteq Servers
    /\ pc \in [Processes -> Holding \cup {"down", "opened", "schema", "initialised", "migrated",
                                         "import", "missing", "insert", "cases"}]
    /\ \A p \in Processes :
        /\ step[p].schema \in 0..4 /\ step[p].seed \in 0..Seeds /\ step[p].case \in 0..Cases
        /\ pc[p] \in {"insert", "cases", "initialised"} => writer = p

\* The state is well typed, and who writes within a transaction holds SQLite's
\* write lock.  At most one server is beyond the lock, to recover, serve or drain;
\* and none is while a program of another one still runs, also of one that was
\* killed, or while its own predecessor's does: no task is judged again next to the
\* program that was judging it.  A start is refused only while a server lives that
\* has the lock, or such a program runs (InstanceLock::acquire).
OneInstance ==
    /\ StartTypeOK
    /\ \A p, q \in Servers : {pc[p], pc[q]} \subseteq Holding => p = q
    /\ \A p \in Servers :
        /\ pc[p] \in Holding => programs \subseteq {p}
        /\ pc[p] = "locked" => programs = {}
    /\ flock # None => pc[flock] \in Holding

\* The file is whole: the schema is never seen half made, although several
\* processes make it at the same time and any of them may die at it (schema.h); and
\* a server that goes on from there has all of it and an administrator.  Built-in
\* problems are imported once, and with all of their test cases, also by two importers
\* at a time (seed.h).
DatabaseWhole ==
    /\ disk.schema \in {{}, Old, Complete}
    /\ \A p \in Processes :
        /\ pc[p] \notin {"down", "opened", "schema", "initialised"} => disk.schema = Complete
        /\ pc[p] \in Holding \cup {"migrated"} => disk.admin # None
    /\ \A i \in DOMAIN disk.problems :
        /\ disk.problems[i].cases = Cases
        /\ \A j \in DOMAIN disk.problems : disk.problems[i].key = disk.problems[j].key => i = j

\* No start and no import changes what is there: neither the administrator's
\* password nor a problem, edited or not (schema.h, seed.h).
NothingOverwritten ==
    [][\/ \E p \in Servers : Edit(p)
       \/ /\ disk.admin # None => disk'.admin = disk.admin
          /\ disk.schema \subseteq disk'.schema
          /\ \A i \in DOMAIN disk.problems :
                i \in DOMAIN disk'.problems /\ disk'.problems[i] = disk.problems[i]]_vars

\* Whatever the others do, a start ends: the server serves or is gone, the
\* importer is gone.
StartEnds == \A p \in Processes : pc[p] = "opened" ~> pc[p] \in {"serving", "down"}

=============================================================================
