--------------------------- MODULE StartUpProofs ---------------------------
(***************************************************************************)
(* Proofs about StartUp: whatever the number of processes, built-in        *)
(* problems and test cases, and however many of them die.                  *)
(***************************************************************************)
EXTENDS StartUp, TLAPS

Admins == Servers \cup {None, "old", "changed"}
Problem == [key : builtin_seeds, cases : 0..Cases, edited : BOOLEAN]

\* A database file: its columns, and ids that AUTOINCREMENT has given out.
WellFormed(db) ==
    /\ db = [schema |-> db.schema, admin |-> db.admin, problems |-> db.problems, last |-> db.last]
    /\ db.schema \subseteq Complete
    /\ db.admin \in Admins
    /\ db.last \in Nat
    /\ DOMAIN db.problems \subseteq 1..db.last
    /\ db.problems = [i \in DOMAIN db.problems |-> db.problems[i]]
    /\ \A i \in DOMAIN db.problems : db.problems[i] \in Problem

Writing == {"schema", "initialised", "insert", "cases"}
Migrated == Holding \cup {"migrated"}
Importing == {"import", "missing", "insert", "cases"}

TypeInv ==
    /\ WellFormed(disk) /\ WellFormed(work)
    /\ writer \in Processes \cup {None}
    /\ flock \in Servers \cup {None}
    /\ programs \subseteq Servers
    /\ pc \in [Processes -> Holding \cup {"down", "opened", "schema", "initialised", "migrated",
                                         "import", "missing", "insert", "cases"}]
    /\ step \in [Processes -> [schema : 0..4, seed : 0..Seeds, case : 0..Cases]]

\* Who is within a transaction holds the write lock, and the other way round; the
\* same for the instance lock, which no server takes while a program of another one,
\* or of its own former life, has it; and main.cpp takes the importer's way or the
\* server's.
LockInv ==
    /\ \A p \in Processes : pc[p] \in Writing <=> writer = p
    /\ \A p \in Processes : pc[p] \in Holding <=> flock = p
    /\ flock # None => programs \subseteq {flock}
    /\ \A p \in Processes : pc[p] = "locked" => programs = {}
    /\ \A p \in Processes : pc[p] \in Migrated \cup {"initialised"} => p \in Servers
    /\ \A p \in Processes : pc[p] \in Importing => p \in Importers

\* Where a process is in its loops.
StepInv ==
    \A p \in Processes :
        /\ pc[p] \in {"missing", "insert", "cases"} => step[p].seed < Seeds
        /\ pc[p] # "cases" => step[p].case = 0
        /\ pc[p] \in {"down", "opened"} => step[p].schema = 0
        /\ pc[p] = "initialised" => step[p].schema = 4

\* What the file holds, at any moment.
DiskInv == DatabaseWhole

\* What the transaction of ensure_schema has made of it so far.
SchemaInv ==
    \A p \in Processes : pc[p] \in {"schema", "initialised"} =>
        /\ work.problems = disk.problems /\ work.last = disk.last
        /\ disk.admin # None => work.admin = disk.admin
        /\ pc[p] = "initialised" => work.admin # None
        /\ disk.schema \subseteq work.schema
        /\ step[p].schema = 0 => work.schema = disk.schema
        /\ step[p].schema >= 1 => "tables" \in work.schema
        /\ step[p].schema >= 2 => "is_sample" \in work.schema
        /\ step[p].schema >= 3 => "seed_key" \in work.schema
        /\ step[p].schema >= 4 => "indexes" \in work.schema

\* What the transaction of the importer has: the file, and one problem more, of a
\* key that the file has not.
SeedInv ==
    /\ writer = None => work = disk
    /\ \A p \in Processes :
        /\ pc[p] = "insert" => work = disk
        /\ pc[p] = "cases" =>
            /\ work.schema = disk.schema /\ work.admin = disk.admin
            /\ work.last = disk.last + 1
            /\ DOMAIN work.problems = DOMAIN disk.problems \cup {work.last}
            /\ \A i \in DOMAIN disk.problems : work.problems[i] = disk.problems[i]
            /\ work.problems[work.last].key = step[p].seed + 1
            /\ work.problems[work.last].cases = step[p].case
            /\ ~HasSeed(disk, step[p].seed + 1)

StartInv == TypeInv /\ LockInv /\ StepInv /\ DiskInv /\ SchemaInv /\ SeedInv

-----------------------------------------------------------------------------
\* The two empty files that a first start may find, or an old one, are well formed.
LEMMA InitInv == Init => StartInv
<1> SUFFICES ASSUME Init PROVE StartInv
  OBVIOUS
<1> USE DEF Init
<1>0. /\ disk = [schema |-> disk.schema, admin |-> disk.admin, problems |-> disk.problems, last |-> disk.last]
      /\ disk.schema \in {{}, Old} /\ disk.admin \in {None, "old"} /\ disk.last = 0
      /\ disk.problems = [i \in {} |-> None]
  <2>1. CASE disk = Absent
    BY <2>1 DEF Absent
  <2>2. CASE disk = [Absent EXCEPT !.schema = Old, !.admin = "old"]
    <3>1. disk = [schema |-> Old, admin |-> "old", problems |-> [i \in {} |-> None], last |-> 0]
      BY <2>2 DEF Absent
    <3> QED BY <3>1
  <2> QED BY <2>1, <2>2
<1>0a. DOMAIN disk.problems = {}
  BY <1>0
<1>1. WellFormed(disk)
  <2>1. disk.problems = [i \in DOMAIN disk.problems |-> disk.problems[i]]
    BY <1>0, <1>0a
  <2> QED BY <1>0, <1>0a, <2>1 DEF WellFormed, Old, Complete, Admins
<1>2. TypeInv
  BY <1>1, StartAssumption DEF TypeInv, Processes
<1>3. LockInv
  BY StartAssumption DEF LockInv, Writing, Holding, Migrated, Importing, Processes
<1>4. StepInv
  BY DEF StepInv
<1>5. DiskInv
  BY <1>0, <1>0a DEF DiskInv, DatabaseWhole, Holding
<1>6. SchemaInv /\ SeedInv
  BY DEF SchemaInv, SeedInv
<1> QED BY <1>2, <1>3, <1>4, <1>5, <1>6 DEF StartInv

\* A process that ends, at any point, leaves the file as it was and both locks to
\* the others.
LEMMA GoneInv == ASSUME StartInv, NEW p \in Processes, Gone(p) PROVE StartInv'
<1> USE DEF StartInv, Gone, Goto
<1>1. TypeInv'
  BY StartAssumption DEF TypeInv, WellFormed
<1>2. LockInv'
  BY StartAssumption DEF TypeInv, LockInv, Writing, Holding, Migrated, Importing, Processes
<1>3. StepInv'
  BY DEF TypeInv, StepInv
<1>4. DiskInv'
  BY DEF TypeInv, DiskInv, DatabaseWhole, Holding
<1>5. SchemaInv'
  BY DEF TypeInv, LockInv, Writing, SchemaInv
<1>6. SeedInv'
  BY DEF TypeInv, LockInv, Writing, SeedInv, HasSeed
<1> QED BY <1>1, <1>2, <1>3, <1>4, <1>5, <1>6

\* BEGIN IMMEDIATE, of ensure_schema and of the importer.
LEMMA BeginInv ==
    ASSUME StartInv, NEW p \in Processes, BeginSchema(p) \/ BeginSeed(p)
    PROVE  StartInv'
<1>1. CASE Gone(p)
  BY <1>1, GoneInv
<1>2. CASE ~Gone(p)
  <2> USE DEF StartInv, Goto
  <2>1. /\ writer = None /\ writer' = p
        /\ UNCHANGED <<disk, work, flock, programs, step>>
        /\ \/ pc[p] = "opened" /\ pc' = [pc EXCEPT ![p] = "schema"]
           \/ pc[p] = "missing" /\ pc' = [pc EXCEPT ![p] = "insert"]
    BY <1>2 DEF BeginSchema, BeginSeed, begin, lockVars
  <2>2. TypeInv'
    BY <2>1 DEF TypeInv, WellFormed
  <2>3. LockInv'
    BY <2>1, StartAssumption DEF TypeInv, LockInv, Writing, Holding, Migrated, Importing, Processes
  <2>4. StepInv'
    BY <2>1 DEF TypeInv, StepInv
  <2>5. DiskInv'
    BY <2>1 DEF TypeInv, DiskInv, DatabaseWhole, Holding
  <2>6. SchemaInv'
    BY <2>1 DEF TypeInv, LockInv, StepInv, Writing, SchemaInv, SeedInv
  <2>7. SeedInv'
    BY <2>1, StartAssumption DEF TypeInv, LockInv, Writing, SeedInv, HasSeed, Processes
  <2> QED BY <2>2, <2>3, <2>4, <2>5, <2>6, <2>7
<1> QED BY <1>1, <1>2

\* One group of schema statements: whichever of the three files it started from,
\* the schema only grows, towards the complete one.
LEMMA SchemaStepInv == ASSUME StartInv, NEW p \in Processes, apply_schema(p) PROVE StartInv'
<1> USE DEF StartInv
<1>1. /\ pc[p] = "schema" /\ step[p].schema \in 0..3
      /\ step' = [step EXCEPT ![p].schema = @ + 1]
      /\ work' = [work EXCEPT !.schema = Applied(work.schema, step[p].schema + 1)]
      /\ UNCHANGED <<disk, writer, flock, programs, pc>>
  BY DEF apply_schema, TypeInv, lockVars
<1> DEFINE n == step[p].schema
           after == Applied(work.schema, n + 1)
<1>2. n = 0 => after = IF "tables" \in work.schema THEN work.schema ELSE {"tables", "is_sample", "seed_key"}
  BY DEF Applied
<1>3. /\ n = 1 => after = work.schema \cup {"is_sample"}
      /\ n = 2 => after = work.schema \cup {"seed_key"}
      /\ n = 3 => after = work.schema \cup {"indexes"}
  BY <1>1 DEF Applied
<1>4. after \subseteq Complete
  BY <1>1, <1>2, <1>3 DEF TypeInv, WellFormed, Complete
<1>5. work.schema \subseteq after
  <2>1. CASE n = 0
    <3>1. work.schema \in {{}, Old, Complete}
      BY <1>1, <2>1 DEF SchemaInv, DiskInv, DatabaseWhole
    <3> QED BY <2>1, <1>2, <3>1 DEF Old, Complete
  <2> QED BY <1>1, <1>3, <2>1
<1>6. /\ n >= 0 => "tables" \in after
      /\ n >= 1 => "is_sample" \in after
      /\ n >= 2 => "seed_key" \in after
      /\ n >= 3 => "indexes" \in after
  <2>1. /\ n >= 1 => "tables" \in work.schema
        /\ n >= 2 => "is_sample" \in work.schema
        /\ n >= 3 => "seed_key" \in work.schema
    BY <1>1 DEF SchemaInv
  <2> QED BY <1>1, <1>2, <1>3, <2>1
<1> HIDE DEF n, after
<1>7. /\ work'.schema = after /\ work'.admin = work.admin
      /\ work'.problems = work.problems /\ work'.last = work.last
      /\ WellFormed(work')
  BY <1>1, <1>4 DEF TypeInv, WellFormed, after, n
<1>8. \A q \in Processes :
        /\ step'[q].seed = step[q].seed /\ step'[q].case = step[q].case
        /\ q # p => step'[q].schema = step[q].schema
  BY <1>1 DEF TypeInv
<1>8a. step'[p].schema = n + 1
  BY <1>1 DEF TypeInv, n
<1>9. TypeInv'
  BY <1>1, <1>7 DEF TypeInv, WellFormed
<1>10. LockInv'
  BY <1>1 DEF LockInv
<1>11. StepInv'
  BY <1>1, <1>8 DEF StepInv
<1>12. DiskInv'
  BY <1>1 DEF DiskInv, DatabaseWhole
<1>13. SchemaInv'
  <2>1. ASSUME NEW q \in Processes, pc[q] \in {"schema", "initialised"} PROVE q = p
    BY <1>1, <2>1 DEF LockInv, Writing
  <2>2. n \in 0..3
    BY <1>1 DEF n
  <2>3. /\ work.problems = disk.problems /\ work.last = disk.last
        /\ disk.admin # None => work.admin = disk.admin
        /\ disk.schema \subseteq work.schema
    BY <1>1 DEF SchemaInv
  <2> QED BY <1>1, <1>5, <1>6, <1>7, <1>8a, <2>1, <2>2, <2>3 DEF SchemaInv
<1>14. SeedInv'
  <2>1. ASSUME NEW q \in Processes PROVE pc[q] \notin {"insert", "cases"} /\ writer # None
    BY <1>1, StartAssumption DEF LockInv, Writing, Processes
  <2> QED BY <1>1, <2>1 DEF SeedInv
<1> QED BY <1>9, <1>10, <1>11, <1>12, <1>13, <1>14

\* preset_admin writes only where there is no administrator.
LEMMA PresetAdminInv == ASSUME StartInv, NEW p \in Processes, PresetAdmin(p) PROVE StartInv'
<1>1. CASE Gone(p)
  BY <1>1, GoneInv
<1>2. CASE ~Gone(p)
  <2> USE DEF StartInv, Goto
  <2>1. /\ pc[p] = "schema" /\ step[p].schema = 4 /\ p \in Servers
        /\ work' = IF work.admin = None THEN [work EXCEPT !.admin = p] ELSE work
        /\ pc' = [pc EXCEPT ![p] = "initialised"]
        /\ UNCHANGED <<disk, writer, flock, programs, step>>
    BY <1>2 DEF PresetAdmin, insert_admin_if_absent, lockVars
  <2>2. /\ WellFormed(work')
        /\ work'.schema = work.schema
        /\ work'.problems = work.problems /\ work'.last = work.last
        /\ work'.admin = IF work.admin = None THEN p ELSE work.admin
    BY <2>1 DEF TypeInv, WellFormed, Admins
  <2>3. TypeInv'
    BY <2>1, <2>2 DEF TypeInv, WellFormed
  <2>4. LockInv'
    BY <2>1, StartAssumption DEF TypeInv, LockInv, Writing, Holding, Migrated, Importing, Processes
  <2>5. StepInv'
    BY <2>1 DEF TypeInv, StepInv
  <2>6. DiskInv'
    BY <2>1 DEF TypeInv, DiskInv, DatabaseWhole, Holding
  <2>7. SchemaInv'
    BY <2>1, <2>2, StartAssumption DEF TypeInv, LockInv, Writing, SchemaInv
  <2>8. SeedInv'
    <3>1. ASSUME NEW q \in Processes PROVE pc'[q] \notin {"insert", "cases"} /\ writer # None
      BY <2>1, StartAssumption DEF TypeInv, LockInv, Writing, Processes
    <3> QED BY <2>1, <3>1 DEF SeedInv
  <2> QED BY <2>3, <2>4, <2>5, <2>6, <2>7, <2>8
<1> QED BY <1>1, <1>2

\* COMMIT of the schema: the file becomes complete, whichever it was.
LEMMA CommitSchemaInv == ASSUME StartInv, NEW p \in Processes, CommitSchema(p) PROVE StartInv'
<1> USE DEF StartInv
<1>1. /\ disk' = work /\ writer' = None
      /\ UNCHANGED <<work, flock, programs, step>>
      /\ \/ pc[p] = "initialised" /\ pc' = [pc EXCEPT ![p] = "migrated"]
         \/ pc[p] = "schema" /\ step[p].schema = 4 /\ p \in Importers /\ pc' = [pc EXCEPT ![p] = "import"]
  BY DEF CommitSchema, commit, Goto, lockVars
<1>2. step[p].schema = 4
  BY <1>1 DEF StepInv
<1>3. /\ disk'.schema = Complete
      /\ disk'.problems = disk.problems /\ disk'.last = disk.last
      /\ disk.admin # None => disk'.admin = disk.admin
      /\ pc[p] = "initialised" => disk'.admin # None
  BY <1>1, <1>2 DEF SchemaInv, TypeInv, WellFormed, Complete
<1>4. \A q \in Processes : q # p => pc[q] \notin Writing /\ pc'[q] = pc[q]
  BY <1>1 DEF TypeInv, LockInv, Writing
<1>5. pc'[p] \in {"migrated", "import"} /\ (pc'[p] = "migrated" => pc[p] = "initialised")
  BY <1>1 DEF TypeInv
<1>6. TypeInv'
  BY <1>1 DEF TypeInv, WellFormed
<1>7. LockInv'
  BY <1>1, StartAssumption DEF TypeInv, LockInv, Writing, Holding, Migrated, Importing, Processes
<1>8. StepInv'
  BY <1>1 DEF TypeInv, StepInv
<1>9. DiskInv'
  BY <1>3, <1>4, <1>5 DEF DiskInv, DatabaseWhole, Holding
<1>10. SchemaInv'
  BY <1>4, <1>5 DEF SchemaInv, Writing
<1>11. SeedInv'
  BY <1>1, <1>4, <1>5 DEF SeedInv, Writing
<1> QED BY <1>6, <1>7, <1>8, <1>9, <1>10, <1>11

\* InstanceLock::acquire, with LOCK_NB: at once or not at all.
LEMMA AcquireInv == ASSUME StartInv, NEW p \in Processes, acquire(p) PROVE StartInv'
<1>1. CASE Gone(p)
  BY <1>1, GoneInv
<1>2. CASE ~Gone(p)
  <2> USE DEF StartInv
  <2>1. /\ pc[p] = "migrated" /\ flock = None /\ programs = {} /\ flock' = p
        /\ pc' = [pc EXCEPT ![p] = "locked"]
        /\ UNCHANGED <<disk, work, writer, programs, step>>
    BY <1>2 DEF acquire, dbVars, Goto
  <2>2. p \in Servers
    BY <2>1 DEF LockInv, Migrated
  <2>3. TypeInv'
    BY <2>1, <2>2 DEF TypeInv, WellFormed, Holding
  <2>4. LockInv'
    BY <2>1, StartAssumption DEF TypeInv, LockInv, Writing, Holding, Migrated, Importing, Processes
  <2>5. StepInv'
    BY <2>1 DEF TypeInv, StepInv
  <2>6. DiskInv'
    BY <2>1 DEF TypeInv, DiskInv, DatabaseWhole, Holding
  <2>7. SchemaInv'
    BY <2>1 DEF TypeInv, SchemaInv
  <2>8. SeedInv'
    BY <2>1 DEF TypeInv, SeedInv, HasSeed
  <2> QED BY <2>3, <2>4, <2>5, <2>6, <2>7, <2>8
<1> QED BY <1>1, <1>2

\* The steps that only move a process on: its start, the rest of main.cpp up to the
\* loop that waits for the signal, and the look-up of a problem.
LEMMA MoveInv ==
    ASSUME StartInv, NEW p \in Processes,
           Open(p) \/ Configure(p) \/ Tested(p) \/ Serve(p) \/ Signal(p) \/ Stopped(p) \/ Die(p) \/ LookUp(p)
    PROVE  StartInv'
<1>1. CASE Gone(p)
  BY <1>1, GoneInv
<1>2. CASE ~Gone(p)
  <2> USE DEF StartInv
  <2>1. UNCHANGED <<disk, work, writer, flock>>
    BY <1>2 DEF Open, Configure, Tested, Serve, Signal, Stopped, Die, LookUp, dbVars, lockVars
  <2>2. \/ /\ step' = step
           /\ \/ pc[p] = "down" /\ pc' = [pc EXCEPT ![p] = "opened"]
              \/ pc[p] = "locked" /\ pc' = [pc EXCEPT ![p] = "testing"]
              \/ pc[p] = "testing" /\ pc' = [pc EXCEPT ![p] = "recovering"]
              \/ pc[p] = "recovering" /\ pc' = [pc EXCEPT ![p] = "serving"]
              \/ pc[p] = "serving" /\ pc' = [pc EXCEPT ![p] = "stopping"]
              \/ pc[p] = "import" /\ step[p].seed + 1 \in builtin_seeds /\ pc' = [pc EXCEPT ![p] = "missing"]
        \/ /\ pc' = pc /\ pc[p] = "import" /\ step[p].seed + 1 \in builtin_seeds
           /\ step' = [step EXCEPT ![p].seed = step[p].seed + 1]
    BY <1>2 DEF Open, Configure, Tested, Serve, Signal, Stopped, Die, LookUp, Goto
  <2>2a. \/ programs' = programs
         \/ pc[p] = "locked" /\ programs' = programs \cup {p}
    BY <1>2 DEF Open, Configure, Tested, Serve, Signal, Stopped, Die, LookUp, lockVars
  <2>3. step[p].seed + 1 \in builtin_seeds => step[p].seed + 1 \in 0..Seeds /\ step[p].seed < Seeds
    BY StartAssumption DEF TypeInv, builtin_seeds
  <2>4. TypeInv'
    <3>1. pc[p] = "locked" => p \in Servers
      BY DEF LockInv, Migrated, Holding
    <3>2. programs' \subseteq Servers
      BY <2>2a, <3>1 DEF TypeInv
    <3> QED BY <2>1, <2>2, <2>3, <3>2 DEF TypeInv, WellFormed, Holding
  <2>5. LockInv'
    <3>1. /\ \A q \in Processes : pc'[q] \in Writing <=> writer' = q
          /\ \A q \in Processes : pc'[q] \in Holding <=> flock' = q
          /\ \A q \in Processes : pc'[q] \in Migrated \cup {"initialised"} => q \in Servers
          /\ \A q \in Processes : pc'[q] \in Importing => q \in Importers
      BY <2>1, <2>2, StartAssumption DEF TypeInv, LockInv, Writing, Holding, Migrated, Importing, Processes
    <3>2. flock # None => programs' \subseteq {flock}
      BY <2>2a DEF LockInv, Holding
    <3>3. \A q \in Processes : pc'[q] = "locked" => programs' = {}
      BY <2>2, <2>2a DEF TypeInv, LockInv, Holding
    <3> QED BY <2>1, <3>1, <3>2, <3>3 DEF LockInv
  <2>6. StepInv'
    BY <2>1, <2>2, <2>3 DEF TypeInv, StepInv
  <2>7. DiskInv'
    BY <2>1, <2>2 DEF TypeInv, DiskInv, DatabaseWhole, Holding
  <2>8. \A q \in Processes : pc'[q] \in Writing => pc[q] = pc'[q] /\ step'[q] = step[q]
    BY <2>2 DEF TypeInv, Writing
  <2>9. SchemaInv'
    BY <2>1, <2>8 DEF SchemaInv, Writing
  <2>10. SeedInv'
    BY <2>1, <2>8 DEF SeedInv, HasSeed, Writing
  <2> QED BY <2>4, <2>5, <2>6, <2>7, <2>9, <2>10
<1> QED BY <1>1, <1>2

\* A server's programs come and go while it has the lock; those of a killed one
\* only go.
LEMMA ProgramInv == ASSUME StartInv, NEW p \in Servers, RunProgram(p) \/ EndProgram(p) PROVE StartInv'
<1> USE DEF StartInv
<1>1. /\ UNCHANGED <<disk, work, writer, flock, pc, step>>
      /\ \/ programs' = programs \ {p}
         \/ pc[p] \in {"recovering", "serving", "stopping"} /\ programs' = programs \cup {p}
  BY DEF RunProgram, EndProgram, dbVars
<1>2. TypeInv'
  BY <1>1 DEF TypeInv, WellFormed
<1>3. LockInv'
  <2>1. p \in Processes
    BY DEF Processes
  <2>2. pc[p] \in {"recovering", "serving", "stopping"} => flock = p
    BY <2>1 DEF LockInv, Holding
  <2>3. flock # None => programs' \subseteq {flock}
    BY <1>1, <2>2 DEF LockInv
  <2>4. ASSUME NEW q \in Processes, pc[q] = "locked" PROVE programs' = {}
    <3>1. flock = q /\ programs = {}
      BY <2>4 DEF LockInv, Holding
    <3>2. pc[p] \notin {"recovering", "serving", "stopping"}
      BY <3>1, <2>2, <2>4
    <3> QED BY <1>1, <3>1, <3>2
  <2> QED BY <1>1, <2>3, <2>4 DEF LockInv
<1>4. StepInv'
  BY <1>1 DEF StepInv
<1>5. DiskInv'
  BY <1>1 DEF DiskInv, DatabaseWhole
<1>6. SchemaInv' /\ SeedInv'
  BY <1>1 DEF SchemaInv, SeedInv, HasSeed
<1> QED BY <1>2, <1>3, <1>4, <1>5, <1>6

\* What an administrator changes leaves the file whole.
LEMMA EditInv == ASSUME StartInv, NEW p \in Processes, Edit(p) PROVE StartInv'
<1> USE DEF StartInv
<1>1. /\ writer = None /\ work' = disk'
      /\ UNCHANGED <<writer, flock, programs, pc, step>>
  BY DEF Edit, lockVars
<1>2. /\ WellFormed(disk')
      /\ disk'.schema = disk.schema
      /\ disk.admin # None => disk'.admin # None
      /\ \A i \in DOMAIN disk'.problems :
            /\ i \in DOMAIN disk.problems
            /\ disk'.problems[i].key = disk.problems[i].key
            /\ disk'.problems[i].cases = disk.problems[i].cases
  <2>1. CASE disk' = [disk EXCEPT !.admin = "changed"]
    BY <2>1, StartAssumption DEF TypeInv, WellFormed, Admins
  <2>2. ASSUME NEW i \in DOMAIN disk.problems,
               \/ disk' = [disk EXCEPT !.problems[i].edited = TRUE]
               \/ disk' = [disk EXCEPT !.problems = [j \in DOMAIN @ \ {i} |-> @[j]]]
        PROVE  /\ WellFormed(disk')
               /\ disk'.schema = disk.schema
               /\ disk'.admin = disk.admin
               /\ \A j \in DOMAIN disk'.problems :
                     /\ j \in DOMAIN disk.problems
                     /\ disk'.problems[j].key = disk.problems[j].key
                     /\ disk'.problems[j].cases = disk.problems[j].cases
    <3>0. WellFormed(disk)
      BY DEF TypeInv
    <3>1. CASE disk' = [disk EXCEPT !.problems[i].edited = TRUE]
      <4> DEFINE table == [disk.problems EXCEPT ![i].edited = TRUE]
      <4>1. /\ DOMAIN table = DOMAIN disk.problems
            /\ table = [j \in DOMAIN table |-> table[j]]
            /\ \A j \in DOMAIN table :
                  /\ table[j] \in Problem
                  /\ table[j].key = disk.problems[j].key /\ table[j].cases = disk.problems[j].cases
        BY <3>0 DEF WellFormed, Problem
      <4> HIDE DEF table
      <4>2. disk' = [schema |-> disk.schema, admin |-> disk.admin, problems |-> table, last |-> disk.last]
        BY <3>0, <3>1 DEF WellFormed, table
      <4> QED BY <3>0, <4>1, <4>2 DEF WellFormed
    <3>2. CASE disk' = [disk EXCEPT !.problems = [j \in DOMAIN @ \ {i} |-> @[j]]]
      <4> DEFINE table == [j \in DOMAIN disk.problems \ {i} |-> disk.problems[j]]
      <4>1. /\ DOMAIN table = DOMAIN disk.problems \ {i}
            /\ table = [j \in DOMAIN table |-> table[j]]
            /\ \A j \in DOMAIN table : table[j] = disk.problems[j]
        OBVIOUS
      <4> HIDE DEF table
      <4>2. disk' = [schema |-> disk.schema, admin |-> disk.admin, problems |-> table, last |-> disk.last]
        BY <3>0, <3>2 DEF WellFormed, table
      <4> QED BY <3>0, <4>1, <4>2 DEF WellFormed
    <3> QED BY <2>2, <3>1, <3>2
  <2> QED BY <2>1, <2>2 DEF Edit
<1>3. \A q \in Processes : pc[q] \notin Writing
  BY <1>1, StartAssumption DEF LockInv, Processes
<1>4. TypeInv'
  BY <1>1, <1>2 DEF TypeInv
<1>5. LockInv'
  BY <1>1 DEF LockInv
<1>6. StepInv'
  BY <1>1 DEF StepInv
<1>7. DiskInv'
  BY <1>1, <1>2 DEF DiskInv, DatabaseWhole
<1>8. SchemaInv' /\ SeedInv'
  BY <1>1, <1>3 DEF SchemaInv, SeedInv, Writing
<1> QED BY <1>4, <1>5, <1>6, <1>7, <1>8

-----------------------------------------------------------------------------
(* The importer's transaction.                                             *)

\* Nobody else writes while a process is within a transaction.
LEMMA OneWriter ==
    ASSUME StartInv, NEW p \in Processes, pc[p] \in Writing, NEW q \in Processes, q # p
    PROVE  pc[q] \notin Writing /\ writer = p /\ writer # None
  BY StartAssumption DEF StartInv, LockInv, Processes

\* INSERT INTO problems, within the transaction: the file and one problem more.
LEMMA InsertSeedInv == ASSUME StartInv, NEW p \in Processes, InsertSeed(p) PROVE StartInv'
<1>1. CASE Gone(p)
  BY <1>1, GoneInv
<1>2. CASE ~Gone(p)
  <2> DEFINE key == step[p].seed + 1
             new == work.last + 1
             row == [key |-> key, cases |-> 0, edited |-> FALSE]
             table == [i \in DOMAIN work.problems \cup {new} |-> IF i = new THEN row ELSE work.problems[i]]
  <2>1. /\ pc[p] = "insert" /\ ~HasSeed(work, key)
        /\ work' = [work EXCEPT !.last = new, !.problems = table]
        /\ pc' = [pc EXCEPT ![p] = "cases"]
        /\ UNCHANGED <<disk, writer, flock, programs, step>>
    BY <1>2 DEF InsertSeed, Goto, lockVars
  <2>2. work = disk /\ WellFormed(work) /\ step[p].seed < Seeds /\ step[p].case = 0
    BY <2>1 DEF StartInv, SeedInv, TypeInv, StepInv
  <2>3. key \in builtin_seeds
    BY <2>2, StartAssumption DEF StartInv, TypeInv, builtin_seeds
  <2>4. row \in Problem
    BY <2>3, StartAssumption DEF Problem
  <2>5. new \in Nat /\ new \notin DOMAIN work.problems /\ DOMAIN work.problems \subseteq 1..new
    BY <2>2 DEF WellFormed
  <2>6. /\ DOMAIN table = DOMAIN work.problems \cup {new}
        /\ table = [i \in DOMAIN table |-> table[i]]
        /\ \A i \in DOMAIN work.problems : table[i] = work.problems[i]
        /\ table[new] = row
    BY <2>5
  <2>7. \A i \in DOMAIN table : table[i] \in Problem
    BY <2>2, <2>4, <2>6 DEF WellFormed
  <2>8. row.key = key /\ row.cases = 0
    OBVIOUS
  <2> HIDE DEF table, row
  <2>9. work' = [schema |-> work.schema, admin |-> work.admin, problems |-> table, last |-> new]
    BY <2>1, <2>2 DEF WellFormed
  <2>10. WellFormed(work')
    <3>1. DOMAIN table \subseteq 1..new
      <4>1. new \in 1..new
        BY <2>2 DEF WellFormed
      <4> HIDE DEF new
      <4> QED BY <4>1, <2>5, <2>6
    <3> HIDE DEF new
    <3> QED BY <2>2, <2>5, <2>6, <2>7, <2>9, <3>1 DEF WellFormed
  <2>11. \A q \in Processes : q # p => pc'[q] = pc[q] /\ pc[q] \notin Writing
    BY <2>1, OneWriter DEF StartInv, TypeInv, Writing
  <2>12. pc'[p] = "cases" /\ writer' = p /\ writer' # None
    <3>1. pc'[p] = "cases"
      BY <2>1 DEF StartInv, TypeInv
    <3>2. writer = p /\ p # None
      BY <2>1, StartAssumption DEF StartInv, LockInv, Writing, Processes
    <3> QED BY <3>1, <3>2, <2>1
  <2>13. TypeInv'
    BY <2>1, <2>10 DEF StartInv, TypeInv, WellFormed
  <2>14. LockInv'
    BY <2>1, StartAssumption DEF StartInv, TypeInv, LockInv, Writing, Holding, Migrated, Importing, Processes
  <2>15. StepInv'
    BY <2>1, <2>2 DEF StartInv, TypeInv, StepInv
  <2>16. DiskInv'
    BY <2>1 DEF StartInv, TypeInv, DiskInv, DatabaseWhole, Holding
  <2>17. SchemaInv'
    BY <2>11, <2>12 DEF SchemaInv, Writing
  <2>18. SeedInv'
    <3>1. /\ work'.schema = disk'.schema /\ work'.admin = disk'.admin
          /\ work'.last = disk'.last + 1
          /\ DOMAIN work'.problems = DOMAIN disk'.problems \cup {work'.last}
          /\ \A i \in DOMAIN disk'.problems : work'.problems[i] = disk'.problems[i]
          /\ work'.problems[work'.last] = row
      BY <2>1, <2>2, <2>6, <2>9
    <3>2. ~HasSeed(disk, key)' /\ key' = key
      BY <2>1, <2>2 DEF HasSeed
    <3>3. step'[p] = step[p]
      BY <2>1
    <3> QED BY <2>2, <2>8, <2>11, <2>12, <3>1, <3>2, <3>3 DEF SeedInv, Writing, HasSeed
  <2> QED BY <2>13, <2>14, <2>15, <2>16, <2>17, <2>18 DEF StartInv
<1> QED BY <1>1, <1>2

\* The cases of that problem, which nobody sees before the COMMIT.
LEMMA InsertCaseInv == ASSUME StartInv, NEW p \in Processes, InsertCase(p) PROVE StartInv'
<1> DEFINE last == work.last
           row == work.problems[last]
           table == [work.problems EXCEPT ![last].cases = @ + 1]
<1>1. /\ pc[p] = "cases" /\ step[p].case < Cases
      /\ work' = [work EXCEPT !.problems[last].cases = @ + 1]
      /\ step' = [step EXCEPT ![p].case = @ + 1]
      /\ UNCHANGED <<disk, writer, flock, programs, pc>>
  BY DEF InsertCase, lockVars
<1>2. WellFormed(work) /\ last \in DOMAIN work.problems /\ row \in Problem
  BY <1>1 DEF StartInv, TypeInv, SeedInv, WellFormed
<1>3. row.cases = step[p].case /\ row.key = step[p].seed + 1
  BY <1>1 DEF StartInv, SeedInv
<1>4. step[p].case + 1 \in 0..Cases
  BY <1>1, StartAssumption DEF StartInv, TypeInv
<1>5. /\ DOMAIN table = DOMAIN work.problems
      /\ table = [i \in DOMAIN table |-> table[i]]
      /\ \A i \in DOMAIN table : i # last => table[i] = work.problems[i]
      /\ table[last] = [row EXCEPT !.cases = @ + 1]
  BY <1>2 DEF WellFormed
<1>6. /\ [row EXCEPT !.cases = @ + 1] \in Problem
      /\ [row EXCEPT !.cases = @ + 1].cases = step[p].case + 1
      /\ [row EXCEPT !.cases = @ + 1].key = step[p].seed + 1
  BY <1>2, <1>3, <1>4 DEF Problem
<1>7. work' = [schema |-> work.schema, admin |-> work.admin, problems |-> table, last |-> last]
  BY <1>1, <1>2 DEF WellFormed
<1>8. /\ \A i \in DOMAIN table : table[i] \in Problem
      /\ table[last].cases = step[p].case + 1
      /\ table[last].key = step[p].seed + 1
  BY <1>2, <1>5, <1>6 DEF WellFormed
<1> HIDE DEF table
<1>9. WellFormed(work')
  BY <1>2, <1>5, <1>7, <1>8 DEF WellFormed
<1>10. /\ step' \in [Processes -> [schema : 0..4, seed : 0..Seeds, case : 0..Cases]]
       /\ \A q \in Processes : q # p => step'[q] = step[q]
       /\ step'[p].case = step[p].case + 1 /\ step'[p].seed = step[p].seed /\ step'[p].schema = step[p].schema
  BY <1>1, <1>4 DEF StartInv, TypeInv
<1>11. \A q \in Processes : q # p => pc[q] \notin Writing
  BY <1>1, OneWriter DEF Writing
<1>12. TypeInv'
  BY <1>1, <1>9, <1>10 DEF StartInv, TypeInv, WellFormed
<1>13. LockInv'
  BY <1>1 DEF StartInv, LockInv
<1>14. StepInv'
  BY <1>1, <1>10 DEF StartInv, StepInv
<1>15. DiskInv'
  BY <1>1 DEF StartInv, DiskInv, DatabaseWhole
<1>16. SchemaInv'
  BY <1>1, <1>11 DEF SchemaInv, Writing
<1>17. SeedInv'
  <2>1. writer = p /\ writer # None
    BY <1>1, StartAssumption DEF StartInv, LockInv, Writing, Processes
  <2>2. /\ work.schema = disk.schema /\ work.admin = disk.admin
        /\ last = disk.last + 1
        /\ DOMAIN work.problems = DOMAIN disk.problems \cup {last}
        /\ \A i \in DOMAIN disk.problems : work.problems[i] = disk.problems[i]
        /\ ~HasSeed(disk, step[p].seed + 1)
    BY <1>1 DEF StartInv, SeedInv
  <2>3. last \notin DOMAIN disk.problems
    BY <2>2 DEF StartInv, TypeInv, WellFormed
  <2>4. /\ work'.schema = disk.schema /\ work'.admin = disk.admin
        /\ work'.last = disk.last + 1
        /\ DOMAIN work'.problems = DOMAIN disk.problems \cup {work'.last}
        /\ \A i \in DOMAIN disk.problems : work'.problems[i] = disk.problems[i]
        /\ work'.problems[work'.last].cases = step'[p].case
        /\ work'.problems[work'.last].key = step'[p].seed + 1
    BY <2>2, <2>3, <1>5, <1>7, <1>8, <1>10
  <2>5. ~HasSeed(disk, step[p].seed + 1)'
    BY <2>2, <1>1, <1>10 DEF HasSeed
  <2> QED BY <2>1, <2>4, <2>5, <1>1, <1>11 DEF SeedInv, Writing, HasSeed
<1> QED BY <1>12, <1>13, <1>14, <1>15, <1>16, <1>17 DEF StartInv

\* COMMIT of a problem: it appears with all of its cases, and its key once.
LEMMA CommitSeedInv == ASSUME StartInv, NEW p \in Processes, CommitSeed(p) PROVE StartInv'
<1>1. /\ pc[p] = "cases" /\ step[p].case = Cases
      /\ disk' = work /\ writer' = None /\ UNCHANGED <<work, flock, programs>>
      /\ pc' = [pc EXCEPT ![p] = "import"]
      /\ step' = [step EXCEPT ![p] = [schema |-> @.schema, seed |-> @.seed + 1, case |-> 0]]
  BY DEF CommitSeed, commit, Goto, lockVars
<1>2. /\ work.schema = disk.schema /\ work.admin = disk.admin
      /\ DOMAIN work.problems = DOMAIN disk.problems \cup {work.last}
      /\ \A i \in DOMAIN disk.problems : work.problems[i] = disk.problems[i]
      /\ work.problems[work.last].cases = Cases
      /\ work.problems[work.last].key = step[p].seed + 1
      /\ \A i \in DOMAIN disk.problems : disk.problems[i].key # step[p].seed + 1
  BY <1>1 DEF StartInv, SeedInv, HasSeed
<1>3. \A q \in Processes : q # p => pc'[q] = pc[q] /\ pc[q] \notin Writing
  BY <1>1, OneWriter DEF StartInv, TypeInv, Writing
<1>4. pc'[p] = "import"
  BY <1>1 DEF StartInv, TypeInv
<1>5. /\ step' \in [Processes -> [schema : 0..4, seed : 0..Seeds, case : 0..Cases]]
      /\ \A q \in Processes : q # p => step'[q] = step[q]
      /\ step'[p].case = 0
  <2>1. step[p].seed + 1 \in 0..Seeds /\ 0 \in 0..Cases
    BY <1>1, StartAssumption DEF StartInv, TypeInv, StepInv
  <2>2. step[p] \in [schema : 0..4, seed : 0..Seeds, case : 0..Cases]
    BY DEF StartInv, TypeInv
  <2> DEFINE next == [schema |-> step[p].schema, seed |-> step[p].seed + 1, case |-> 0]
  <2>3. next \in [schema : 0..4, seed : 0..Seeds, case : 0..Cases] /\ next.case = 0
    BY <2>1, <2>2
  <2>4. step' = [step EXCEPT ![p] = next]
    BY <1>1, <2>2 DEF StartInv, TypeInv
  <2> HIDE DEF next
  <2> QED BY <2>3, <2>4 DEF StartInv, TypeInv
<1>6. TypeInv'
  BY <1>1, <1>5 DEF StartInv, TypeInv, WellFormed
<1>7. LockInv'
  BY <1>1, StartAssumption DEF StartInv, TypeInv, LockInv, Writing, Holding, Migrated, Importing, Processes
<1>8. StepInv'
  BY <1>3, <1>4, <1>5 DEF StartInv, StepInv
<1>9. DiskInv'
  <2>1. disk.schema = Complete
    BY <1>1 DEF StartInv, DiskInv, DatabaseWhole
  <2>2. \A i \in DOMAIN disk'.problems :
          /\ disk'.problems[i].cases = Cases
          /\ \A j \in DOMAIN disk'.problems : disk'.problems[i].key = disk'.problems[j].key => i = j
    BY <1>1, <1>2 DEF StartInv, DiskInv, DatabaseWhole
  <2> QED BY <1>1, <1>2, <1>3, <1>4, <2>1, <2>2 DEF StartInv, DiskInv, DatabaseWhole, Holding
<1>10. SchemaInv' /\ SeedInv'
  BY <1>1, <1>3, <1>4 DEF SchemaInv, SeedInv, Writing
<1> QED BY <1>6, <1>7, <1>8, <1>9, <1>10 DEF StartInv

-----------------------------------------------------------------------------
\* Every step of every process keeps the invariant.
LEMMA NextInv == StartInv /\ [Next]_vars => StartInv'
<1> SUFFICES ASSUME StartInv, [Next]_vars PROVE StartInv'
  OBVIOUS
<1>1. CASE UNCHANGED vars
  BY <1>1 DEF vars, dbVars, lockVars, StartInv, TypeInv, WellFormed, LockInv, StepInv, DiskInv, DatabaseWhole, SchemaInv,
              SeedInv, HasSeed
<1>2. ASSUME NEW p \in Processes, Open(p) \/ Run(p) \/ Signal(p) \/ Edit(p) \/ Die(p) PROVE StartInv'
  BY <1>2, BeginInv, SchemaStepInv, PresetAdminInv, CommitSchemaInv, AcquireInv, MoveInv, EditInv,
     InsertSeedInv, InsertCaseInv, CommitSeedInv
     DEF Run
<1>3. ASSUME NEW p \in Servers, RunProgram(p) \/ EndProgram(p) PROVE StartInv'
  BY <1>3, ProgramInv
<1> QED BY <1>1, <1>2, <1>3 DEF Next

\* The invariant behind both of the following: who is within a transaction, what it
\* has added to the file, who has SQLite's lock, and which server, living or killed,
\* keeps the instance lock, itself or by a program of its.
THEOREM StartInvariant == Spec => []StartInv
  BY InitInv, NextInv, PTL DEF Spec

\* However many are started and killed, at most one server is beyond the instance
\* lock, and none is while a program still runs that another server, or its own
\* former life, has left behind (InstanceLock::acquire, and the descriptor that the
\* executor's processes inherit).
THEOREM InstanceIsExclusive == Spec => []OneInstance
<1>1. StartInv => OneInstance
  <2> SUFFICES ASSUME StartInv PROVE OneInstance
    OBVIOUS
  <2>1. StartTypeOK
    BY DEF StartInv, TypeInv, WellFormed, LockInv, Writing, StartTypeOK
  <2>2. \A p, q \in Servers : {pc[p], pc[q]} \subseteq Holding => p = q
    BY DEF StartInv, LockInv, Processes
  <2>3. ASSUME NEW p \in Servers
        PROVE  /\ pc[p] \in Holding => programs \subseteq {p}
               /\ pc[p] = "locked" => programs = {}
    BY StartAssumption DEF StartInv, LockInv, Processes
  <2>4. flock # None => pc[flock] \in Holding
    BY DEF StartInv, TypeInv, LockInv, Processes
  <2> QED BY <2>1, <2>2, <2>3, <2>4 DEF OneInstance
<1> QED BY <1>1, StartInvariant, PTL

\* The file is whole at any moment, whoever dies where: never half a schema, never a
\* built-in problem twice or without its cases (ensure_schema, import_builtin_seeds).
THEOREM FileStaysWhole == Spec => []DatabaseWhole
<1>1. StartInv => DatabaseWhole
  BY DEF StartInv, DiskInv
<1> QED BY <1>1, StartInvariant, PTL

\* Starts and imports only add: an administrator's password, and a problem that is
\* there, stay as they are, unless an administrator changes them.
THEOREM StartsOnlyAdd == Spec => NothingOverwritten
<1> DEFINE Adds ==
        \/ \E p \in Servers : Edit(p)
        \/ /\ disk.admin # None => disk'.admin = disk.admin
           /\ disk.schema \subseteq disk'.schema
           /\ \A i \in DOMAIN disk.problems :
                 i \in DOMAIN disk'.problems /\ disk'.problems[i] = disk.problems[i]
<1>1. StartInv /\ [Next]_vars => [Adds]_vars
  <2> SUFFICES ASSUME StartInv, NEW p \in Processes, Open(p) \/ Run(p) \/ Signal(p) \/ Edit(p) \/ Die(p)
               PROVE  Adds
    <3>1. ASSUME NEW p \in Servers, RunProgram(p) \/ EndProgram(p) PROVE disk' = disk
      BY <3>1 DEF RunProgram, EndProgram, dbVars
    <3> QED BY <3>1 DEF Next
  <2>1. CASE Edit(p)
    <3>1. p \in Servers
      BY <2>1 DEF Edit, StartInv, LockInv, Migrated, Holding
    <3> QED BY <2>1, <3>1
  <2>2. CASE CommitSchema(p)
    <3>1. disk' = work /\ pc[p] \in {"schema", "initialised"}
      BY <2>2 DEF CommitSchema, commit
    <3> QED BY <3>1 DEF StartInv, SchemaInv
  <2>3. CASE CommitSeed(p)
    <3>1. disk' = work /\ pc[p] = "cases"
      BY <2>3 DEF CommitSeed, commit
    <3> QED BY <3>1 DEF StartInv, SeedInv
  <2>4. CASE ~Edit(p) /\ ~CommitSchema(p) /\ ~CommitSeed(p)
    <3>1. disk' = disk
      BY <2>4 DEF Run, Open, Signal, Die, Gone, BeginSchema, begin, apply_schema, PresetAdmin, acquire,
                  Configure, Tested, Serve, Stopped, LookUp, BeginSeed, InsertSeed, InsertCase, dbVars
    <3> QED BY <3>1
  <2> QED BY <2>1, <2>2, <2>3, <2>4
<1> QED BY <1>1, StartInvariant, PTL DEF Spec, NothingOverwritten

=============================================================================
