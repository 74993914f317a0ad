# Formal models of the online judge

This directory holds TLA+ models of the concurrent and persistent core of the
online judge in this repository (`oj_server`, C++ under `src/src/`, browser
front end under `src/web/`), the TLC configurations that check them on small
instances, and TLAPS proofs of all of the safety properties for every size
of the system.

`PROJECT.json` is the index: the components, the runs with their properties,
the map from definitions to source lines, the hazards the properties are aimed
at, the findings and the theorems.

    cd tla
    tlc -workers 2 -config JudgeManager.cfg MCJudgeManager     # one run
    tlapm JudgeManagerProofs.tla                               # one proof module

## 1. The system

One process serves HTTP, judges submissions and keeps everything in one SQLite
file. The parts, what they keep, and what makes them correct:

| Part (source) | State | Operations | Must hold |
|---|---|---|---|
| Judge scheduler (`judge/manager.*`) | `queue_`, `reserved_`, `active_items_`, tokens, promises, `stopped_`, `workers_stop_`, two counters, worker threads on one condition variable | `submit`, `reserve` / `commit` / `release`, `worker_loop`, `cancel_all`, `shutdown` | bounded waiting slots; every accepted task is run once and answered; a stop reaches every task; no lost wake-up; shutdown ends |
| Server start and stop (`http/server.cpp`, `main.cpp`) | HTTP thread pool, `running_`, listening thread | `start`, handlers, `stop` | HTTP threads are joined before the workers go; every accepted task drains; stop ends |
| Shared SQLite connection (`db/database.*`) | one FULLMUTEX connection, `transaction_mutex` | `begin`, `commit`, `rollback`, single statements | a transaction is all or nothing; an acknowledged write stays |
| Submission lifecycle (`submit/submit.cpp`, `db/in_flight.cpp`, `handle_submit`) | tables `in_flight_submissions` and `submissions`, a slot | check, reserve, persist, commit to the scheduler, judge, settle, mark as interrupted | accepted = recoverable or settled, exactly once; answers tell the truth |
| Start-up recovery (`submit/recovery.*`) | state of the in-flight rows | `reset_stale_claims`, list a batch, reserve, claim, enqueue | it ends; no task is forgotten or settled twice |
| Problem status (`compute_status_update`, `db/submissions.cpp`) | one row per user and problem | incremental update, recomputation | it agrees with the table of submissions |
| Rejudge (`submit/rejudge.cpp`, `handle_admin_rejudge`) | `rejudge_in_flight_` | judge again, rewrite the verdict, recompute | one rejudge per submission; no older verdict wins |
| Judge engine (`judge/judge.cpp`, `classification.cpp`, `deadline.cpp`) | deadline, case results | compile, run each case, classify, summarise | AC iff every case is right; service failures are not blamed on programs; the global limit holds |
| Compile gate (`judge/compile_gate.*`) | `active_` | `acquire` (polling), `release` (RAII) | permits are neither lost nor duplicated |
| Local executor (`judge/local_executor.cpp`) | a child process group, pipes, timers | fork, supervise, kill, reap | ends within its limit; no process is left; the report is about the program; no output is lost |
| Sandbox, workspace (`judge/sandbox.cpp`, `workspace.cpp`) | kernel objects, a directory | set-up in the child, RAII removal | (kernel and file system) |
| Output comparison (`judge/comparator.cpp`) | none | compare text, trailing blanks ignored | equals its reference definition |
| Problem and test case administration (`db/problem_admin.cpp`, `testcase_admin.cpp`) | problems, test cases | create, edit, publish, delete, each one transaction | a request takes effect as a whole, on its problem only; a problem in use is not deleted; limits on test cases |
| Queries and leaderboard (`db/problems.cpp`, `leaderboard.cpp`, `problem/list_query.cpp`) | none | read-only SQL, row by row | the same line between visible and hidden everywhere; pages partition the list; total and page fit, but for what changes between them; filters are literal but for the case of ASCII letters |
| Users and roles (`db/users.cpp`, `user_admin.cpp`) | users | create, reset a password, change a role | there is always an administrator |
| Registration, login, passwords (`auth/register.cpp`, `login.cpp`, `password_change.cpp`) | users | register with retries, log in, change a password | no duplicate nickname or account |
| Rate limiter (`auth/rate_limit.cpp`) | time stamps per source, `sweep_counter_` | `allow`, `clear` | at most N attempts in a window; nobody is refused without cause; Retry-After is kept |
| Tokens and access (`auth/jwt.cpp`, `context.cpp`, `authorize.cpp`) | none | sign, verify, authorise | the role in the database decides |
| Hashing, validation (`auth/password.cpp`, `validation.cpp`) | none | library calls and character checks | |
| Schema and seed (`db/schema.cpp`, `seed*.cpp`) | tables | create, migrate, insert | whole or not at all, once, nothing overwritten, with several processes at it |
| Instance lock (`db/instance_lock.cpp`) | one `flock` | take, drop | one server per database; none beside a program another has left behind |
| Configuration (`config.cpp`) | none | parse the environment | |
| Front end (`web/js`) | session promise, current page | verify the session, navigate | a stale answer never overwrites a newer one |
| Backup (`scripts/backup.sh`) | none | dump | |

How they interact: an HTTP thread in `handle_submit` reserves a slot of the
scheduler, writes the in-flight row through the shared connection, hands the
task over and blocks in `future.get()`. A worker runs the handler
`SubmitService::submit`, which judges (engine, gate, executor) and settles in
one transaction: delete the in-flight row, insert the submission, update the
problem status. A rejudge goes through the same scheduler with `submit`.
`HttpServer::stop` cancels the scheduler, joins the HTTP threads and shuts the
scheduler down. After a crash `main` runs the recovery before the server
listens. All threads share one connection, so what one transaction has not
committed is visible to every other thread. A second process of the program may
work on the same file: another server until it meets the instance lock, and the
importer of the built-in problems (`--seed`), which never takes it. The processes
the executor forks inherit the descriptors of the server, that of the instance
lock included.

Hard behaviours: reservations and stops between two critical sections;
wake-ups; transactions of one thread mixed with statements of another on one
connection; failures of each database call; a crash between any two steps;
recovery concurrent with workers; submissions that finish in another order than
they were made; processes that start, die and start again while others migrate
the schema, or are killed while a program of theirs runs; requests of
administrators that fail half way; readers that step from row to row meanwhile; logins that read the
clock before they get the lock; rejudges around a change of the test cases; deadlines and
cancellation racing with the end of a process. `PROJECT.json` lists them as
hazards, each at its line.

## 2. The modules

| Module | Models |
|---|---|
| `Scheduler` | abstract specification: the contract of `manager.h`, a life of a task in phases, no threads and no locks |
| `JudgeManager` | `manager.cpp`, each critical section of `mutex_` one action |
| `JudgeManagerProofs` | TLAPS proofs about `JudgeManager`, that it implements `Scheduler`, and about `ServerStop` |
| `ServerStop` | composes `JudgeManager` with the HTTP threads and `HttpServer::stop` |
| `SubmissionLifecycle` | composes `handle_submit`, `SubmitService`, `RecoveryService`, `InFlightStore`, deletion of a problem, crash and restart |
| `SubmissionLifecycleProofs` | TLAPS proofs about `SubmissionLifecycle` |
| `ProblemStatus` | settling and rejudging of the submissions of one user for one problem, and their summary |
| `ProblemStatusProofs` | TLAPS proofs about `ProblemStatus` |
| `JudgeEngine` | `JudgeEngine::judge`, the compile gate, deadlines and classification, several judges at a time |
| `Accounts` | users: registration, change and reset of passwords, roles, on the shared connection with its mutex, its transaction and its error code |
| `AccountsProofs` | TLAPS proofs about `Accounts` and `RateLimiter` |
| `Catalog` | abstract specification: what `problem_admin.h` and `testcase_admin.h` promise of a request, no transactions and no statements |
| `ProblemCatalog` | `problem_admin.cpp`, `testcase_admin.cpp`, their handlers and validation, one step per writing statement; what each query of `problems.cpp` finds in one state; `leaderboard.cpp` |
| `ProblemReaders` | composes `ProblemCatalog` with the requests for the problem list and for one problem, one step per statement and row |
| `ProblemCatalogProofs` | TLAPS proofs about `ProblemCatalog`, `ProblemReaders` and `TextFilters`, and that `ProblemCatalog` implements `Catalog` |
| `TextFilters` | tags in one column and keywords as LIKE patterns: `validation.cpp`, `list_query.cpp` |
| `StartUp` | `main.cpp`, `schema.cpp`, `seed.cpp`, `instance_lock.cpp`: servers and importers on one file |
| `StartUpProofs` | TLAPS proofs about `StartUp` |
| `RateLimiter` | `rate_limit.cpp`, `login.cpp` and `handle_login` |
| `Comparator` | `comparator.cpp` |
| `TextPieces` | the loops that cut a text at a character and join texts with it, as `Comparator` and `TextFilters` use them |
| `TextProofs` | lemmas on `TextPieces`, which the proofs about outputs, tags and keywords rest on |
| `LocalExecutor` | `LocalExecutor::spawn`: several launches and supervisions at a time, with the processes and the pipe ends they inherit |
| `JudgingProofs` | TLAPS proofs about `JudgeEngine`, `Comparator` and `LocalExecutor` |
| `MC...` | the instances for TLC; they only add symmetry sets |

Operators named `X_Something` directly before an operator `X` are mutants: a
variant of `X` with a plausible mistake, under which a property of the run must
fail. They are used by no specification.

### JudgeManager

A *caller* is one sequence of calls of an HTTP thread: `submit`, or `reserve`
followed by `commit` or `release`; it hands over one task at most, so tasks are
named by callers. `queue`, `reserved`, `activeItems`, `tokens`, `stopped`,
`workersStop`, `accepted`, `completed` are the members of the class. `callerPc`
and `workerPc` hold the place between two critical sections: a caller has
pushed its task but not yet counted it, a worker has popped its task but not
yet looked at the token, and so on. A parked worker is in `"wait"`; a notify
wakes any one of them, and a worker may wake without one. The handler is
external: it returns some outcome, or throws, which the worker catches.

The actions `Submit`, `Reserve`, `Commit` and `Release` include their refusals;
`CancelAll`, and `shutdown` as four steps (cancel, release the workers, notify,
join). `Scheduler` is implemented under the mapping `Abstract` at the end of
the module: a task that a worker has popped and not yet delivered is "running".

### ServerStop

Adds one program counter for the thread in `stop()`. A request that is already
accepted by the listener is still served while `stop()` waits; `StopJoin` is
the end of `listen_thread_.join()`, possible only when no HTTP thread is in a
handler; `shutdown` starts after that.

### Accounts

`work` is the table of users as the connection shows it, `disk` as committed; the
id of a user is the index of the row, because AUTOINCREMENT gives an id back when
the transaction that took it is rolled back. `inTx` and `errcode` belong to the
connection, not to a thread, as in SQLite: a single write that is stepped while a
transaction is open becomes part of it, COMMIT fails while another statement is
writing, ROLLBACK undoes everything, and a statement of any thread replaces the
last error. What they do is SQLite's behaviour (external); which thread runs which
statement, under which lock, and what it does on failure is the code's.

A request is one handler call. `change_password` and `change_role` are
transactions: authorise, begin, read and check, update, commit, each failing into
a rollback. `reset_password` and `create` are single writes: step, finalize.
A registration looks the nickname up, draws accounts and retries on collisions.
An old password is modelled by whether it fits: a change that gets past the check
remembers which password it has verified. Passwords are named by the request that
has set them. All refusals that happen before anything is written are one action.

### SubmissionLifecycle

`work` and `disk` again, with the rows of `in_flight_submissions` (their
state), the number of rows of `submissions` per task, and whether the problem
exists. A transaction is a step for its statements and a step for its end.
Every database call may fail, at most `MaxFaults` times. The scheduler is taken
by its contract, a bounded queue with reservations, since `JudgeManager`
implements it. `Crash` can happen in every state, `Restart` discards what is
not committed and all threads, and `Stop`, `Exit` are the graceful way.
`accepted` and `givenUp` are history variables: the tasks whose in-flight row
was committed, and those a failing database call has left to the next start.

### ProblemStatus

The table of submissions is a sequence, the id of a row its index, because
AUTOINCREMENT gives an id back when the transaction that took it is rolled
back. A settling transaction is three steps (insert, update the summary,
commit or roll back); so is a rejudge. `created` is chosen in `Init`, so that
settling happens in every order relative to the submission times, equal times
included. Test cases are a version number: a verdict remembers the version it
was judged with.

`recompute` is a predicate on the new summary (the minimum of the AC times, or
none), not a recursive function: the result of `SELECT MIN(created_at)`.

### JudgeEngine

Time is counted in ticks per judge. `effective_time_limit_ms` cuts the limit of
each process to what is left of the global deadline. `Evidence` is what the
executor can report about a process (ended by a signal, exit code, limits
exceeded, cut output, cancelled, not started ...); the classification turns it
into a case result in the order of the code, and the case result remembers what
the properties need: whether the run was clean, whether it had its full limit,
whether the service left it alone.

### LocalExecutor

A job is one call of `spawn` on a worker thread of its own. It forks `P`, which
makes the namespaces and forks `G` (their init process) and `H` (the program).
`holds` says which process has the write end of which pipe open; a reader sees
the end of its pipe only when no process has. `Fork` copies every end the server
has at that moment, those of other jobs included; `P` and `G` close only the
ends of their own job and never call `execve`, `H` loses all others there.
`sup` is the place of the supervisor: making the pipes, the blocking reads of
the launch, then the loop as two actions, `Check` (waitpid, the way out, token,
deadline, memory, the 200 ms) and `Poll` (poll, reads, the input).

Abstractions: the steps of `P` between the token and the id of `H` are one
action, nobody can see a state in between; SIGKILL to the group is one step;
a round sees a reason to stop or not, which no variable has to remember because
the first one that is seen ends the supervision; the 200 ms do not pass between
the `waitpid` of a round and its `poll`. The pipe of stderr is treated like
stdout and left out. Only the sandbox mode is modelled, which is what the
service uses. If `poll` itself fails, the group is killed and the report comes
from the exit status; the properties exempt that case explicitly.

### Catalog, ProblemCatalog, ProblemReaders, TextFilters

`Catalog` says what an administrator may rely on: a request takes effect at one
moment between its arrival and its answer, touches only the problem it names,
or is refused for a reason that holds at that moment, or fails without a trace.
A problem is its tag (which stands for every field that is only stored), its
visibility, the list of samples and the set of hidden cases.

`ProblemCatalog` has the two tables, `work` as the connection shows them and `disk`
as committed, and the summaries of submissions. A request is what the handler
hands to a store: every body that validation accepts, built from fields that are
absent, refused or given, with the defaults of the code. Which numbers of samples
and which positions requests give is a parameter (`Counts`, `Positions`); that they
are within `MaxSamples` and `MaxOrd` is what validation makes sure of, and that the
samples alone never exceed the positions is so for the limits in the code. `Begin` includes the wait
for `transaction_mutex`; then one step per statement that writes, `Fail` at any
point, `Rollback` for refusals, `Commit`. The mapping reads the committed tables
only. The leaderboard is two statements in a read transaction. The other queries
are operators that say what one statement finds in one state; that these agree
(`ViewsAgree`) is checked in every state, those in the middle of a transaction
included, because the queries run on the same connection without the mutex.
A submission is settled in one step here, `SubmissionLifecycle`
and `ProblemStatus` have its details.

`ProblemReaders` has the requests that put several statements together. The list
counts (`ListCount`), then reads its page row by row (`ListRow`, `ListDone`);
the page of a problem looks it up with its visibility (`DetailFind`), then reads
the samples row by row (`DetailRow`, `DetailDone`). Between any two of these
every step of `ProblemCatalog` may happen. As in SQLite, a step sees what the connection
shows at that moment, uncommitted writes and their rollback included, and the cursor
keeps only its place: `Ahead` and `Behind` are what comes after the last row. The
history variables `alone` and `moved` say what the request would answer if nothing
changed from its first statement on, and how often something it reads has changed.
`list_tags` and `list_testcases` read several rows too; of them only what they
find in one state is modelled.

`TextFilters` works on texts as sequences of characters, cut and joined by
`TextPieces`. `TagsExact` and `KeywordLiteral` quantify over all short ones;
`instr` and `LIKE ... ESCAPE` are SQLite's. LIKE takes no account of the case of ASCII
letters, which is what `list_query.h:15` says of a keyword: one letter, "a", has an
upper case in the model. A tag to filter by is trimmed, not empty
and without a comma: `parse_list_query` lets a comma pass there, and such a request
finds the problems with these tags next to each other, although none has a tag of that
name; the properties say nothing of it.

### StartUp

Processes of two kinds on one file. SQLite's write lock is `writer`: BEGIN
IMMEDIATE takes it, or fails after `busy_timeout` if another process has it. The
schema is the set of the groups of statements that were applied; a file starts
empty or with the schema of a version before `is_sample` and `seed_key`. `Gone` is
every end of a process, by the destructors or by the system.

`flock` is the server that has the locked descriptor. The lock belongs to the open
file description: `instance_lock.cpp:28` sets `O_CLOEXEC` only, and `P` and `G`, which
`LocalExecutor` forks for a program, neither exec nor close it. `programs` are the
servers of whose programs one runs, with a copy of the descriptor; `Gone` leaves
them running, so that after a SIGKILL `acquire` is refused until they end
(`EndProgram`). `Configure` and `Tested` are the row of checks between the lock and
the server, each of which ends the start, the self-test with a program among them.
`RunProgram` may happen from the recovery on and while a stop drains the queue;
`Stopped` comes after the last program, as `NothingLeftBehind` shows of the executor.
The lock of a server that ends in good order is unlocked explicitly.

`Edit` stands for what administrators change while a server serves.

### RateLimiter

A login reads the clock, takes the mutex (`Decide` is all of `allow` from there),
checks the password, and leaves or clears the failures of its source. The clock
ticks at any time; a "second" is two ticks, so rounding shows. `tries` and
`promised` are history variables: the attempts that were let through since the last
clear, and the end of the earliest Retry-After since the last of them.

### Comparator

`normalize_output` as cutting and stripping, against `Visible`, the set of
characters a reader sees with their places. `Comparisons` are the results of
comparing any two short texts, and what a reader says of them; the evidence of a
run in `JudgeEngine` has one of them, and the properties there go by the reader.

## 3. What the runs check

| Run | Instance | Properties |
|---|---|---|
| `scheduler` | 4 callers, 2 workers, capacity 0 (counts as 1) | `IInv` (typing, `CapacityRespected`, `NoLostWakeup` and what makes them inductive), `NoOrphanedFuture`, `StopReachesEveryTask`, `HttpThreadBound`, `OneHolder`, and `ImplementsScheduler` (refinement) |
| `server_stop` | 2 callers, 2 workers, capacity 2, fair | `DrainReported` (and nothing accepted goes unexecuted), `StopTerminates`, `EveryTaskAnswered` |
| `accounts` | any 3 of 2 registrations, 2 password changes, 1 reset, 2 role changes; 2 users, 1 free account, 2 nicknames, 2 attempts, fair | `TransactionsIsolated` (typing, `OneTransaction`, `FailureLeavesNothing`), `AdminRemains`, `OneChangePerPassword`, `EveryRequestAnswered` |
| `accounts_record` | 2 registrations, 1 password change | `RecordsKept` is violated (finding 1) |
| `lifecycle` | 2 tasks, 2 workers, 1 slot, batches of 1, 3 failures, fair | `SettledOnce` (with typing and `ProblemKept`), `AnswersAreTrue`, `StopSettles`, `EventuallySettled` |
| `problem_status` | 3 submissions, 2 rejudges, 2 times, 1 change of the tests | `SummaryAgrees`, `SettlingKeepsSolved`, `NoStaleVerdict` |
| `engine` | 2 judges, 1 permit, 2 test cases, global limit 3 | `AcceptedIffCorrect`, `BlameIsDue`, `PermitsAccounted` (with typing), `WithinGlobalLimit`, `MatchIsVisible` for all pairs of outputs up to 4 characters, `EveryJudgeEnds` |
| `executor` | 2 spawns, one of a program that reads its input to the end, 1 piece of output, fair | `NothingLeftBehind` (with typing), `ReportIsTrue` (and no output is lost), `SupervisionEnds` |
| `executor_limit` | 2 spawns of programs that read their input, fair | `EverySpawnEnds` is violated (finding 2) |
| `catalog` | 2 requests of administrators, 1 leaderboard request, 1 request for the problem list, 1 for a problem, 2 users, 1 submission and one that may be there before, pages of 2, positions up to 2, of which requests give 0 or 2, and 0 or 2 samples; texts up to 3 characters, 2 tags | `TransactionEnds` (with typing and foreign keys), `BoardConsistent`, `ViewsAgree` (visibility, pages, and the filters `TagsExact` and `KeywordLiteral`), `ReadersConsistent`, and `ImplementsCatalog` (refinement) |
| `startup` | 2 servers, 2 importers, 3 starts, 1 fault, 1 edit, 2 built-in problems of 2 cases, fair | `OneInstance` (with typing, and programs left behind), `DatabaseWhole` (schema, administrator, built-in problems), `NothingOverwritten`, `StartEnds` |
| `limiter` | 2 threads, 2 sources, 5 logins, limit 2, window 3, 5 ticks | `WindowBound` (with typing), `RefusalIsFair` (refused only when due, Retry-After kept) |

Why these bounds are enough to meet the interesting cases:

- scheduler: four callers are more than workers and slots together (3), so
  refusals, reservations that compete with a full queue, and a stop between
  `reserve` and `commit` with another task queued and two running all happen.
  The theorems remove the bound.
- accounts: three requests at a time are two of one kind that compete and a third
  that joins, undoes or overwrites (two changes and a reset, two registrations and
  a rollback, two demotions and a registration); `MaxRequests` is that bound. One
  free account makes collisions happen, two attempts let a retry succeed or fail.
- lifecycle: two tasks exceed a batch and the single slot; three failures can
  hit the acceptance or the settlement of a task, then its recovery, and once
  more. Crashes and restarts are not bounded.
- problem status: three submissions with two times give every order with ties;
  two rejudges can hold different rows, and one of them a row that is not
  committed. Proved without the bound.
- engine: with a global limit of 3, a compile limit of 2 and a case limit of 2
  the global deadline can cut the wait at the gate, the compilation and each
  test case, and exactly equal limits occur.
- executor: two spawns are enough for each process to inherit the pipes of the
  other job, at every stage of its launch, supervision and end; one piece of
  output tells a lost one from none.
- catalog: two requests are every pair of operations, in both orders, with the
  other one waiting for the mutex; one of them can fail at each statement. Up to
  three problems are an empty, a full and a partly filled page; a case is at the last
  position, a sample and a hidden case may be taken for each other by a request; the
  two submissions give a leaderboard of two, and something that changes between its
  two statements. Three characters
  are enough for a tag inside another, with a blank or a comma before, in or
  behind it, and for each wildcard next to the escape character. A reader has one
  other request beside it (`MaxBesides`), a writer that creates, hides, deletes or
  replaces samples, commits or rolls back, at any of its steps, and a submission
  that is settled; then there are two problems at most, so a second page
  (`MaxPage`) that is not empty is left to the theorem, which has no such bound, and
  so are lists by tag (`Tags` has none).
- startup: two of each kind meet at every lock; with three starts a process may
  come again after it was killed or refused, next to the program it has left behind
  or that of another.
- limiter: with a limit of 2, five logins fill the window of one source, are
  refused, leave the window and fill it again; the sweep comes at every second
  login, often from the other source.

`CHECK_DEADLOCK FALSE` appears where the system may stop for good: a scheduler
that was shut down, transactions and judges that have all ended, requests that
have all been answered, processes that nobody starts again.

### Fairness

- `JudgeManager`, `ServerStop`: weak fairness of each worker's step, of a
  caller that has handed over its task (it only counts and waits in
  `future.get()`), and of the steps of `shutdown` or `stop` once they began.
  Operating system threads that can run are run. No caller has to commit or
  release its slot for the liveness of other callers, and nobody has to stop
  the server. The handler is assumed to return, which `EveryJudgeEnds` shows of the
  engine if each call of the executor returns; finding 2 is the case in which one does
  not. `SubmissionLifecycle` and `StartUp` rest on the same assumption.
- `Accounts`: weak fairness of each request: a thread that can run does. Only
  finitely many requests arrive, so each of them gets the mutex at some time.
- `SubmissionLifecycle`: as above, and strong fairness for taking
  `transaction_mutex` (`PersistBody`, `SettleBody`): the lock is free again and
  again, and a waiter gets it at some time. `std::mutex` does not promise this
  on paper; the implementations the server is built with do not starve a waiter
  for ever.
- `LocalExecutor`: weak fairness of each supervisor and of the launch steps of
  `P` and `H`, which only run system calls. Strong fairness of the round that
  sees the deadline and the 200 ms behind it: time passes, and a supervisor that
  goes round for ever looks at the clock after them. A program need not end,
  except in `executor_limit`, which even grants that each program ends once it
  has seen the end of its input.
- `StartUp`: weak fairness of the own steps of each process, and of the end of the
  programs of a server that lives, which its executor supervises (`SupervisionEnds`).
  Nothing ends a program of a killed server, and nobody has to start, stop or edit
  anything.
- `JudgeEngine`: weak fairness of each judge; the executor is assumed to return within
  the limit it was given (`WithinGlobalLimit` is conditional on that, too). A wait at
  the gate polls with a time-out, and each poll takes time from the global deadline, so a judge ends
  even if it never gets a permit.

## 4. What is proved

Every theorem is about the specification the runs check, or about the operators it
is built from, for every value of the
constants that satisfies the named assumption of its module (`WorkersAssumption`,
`LifecycleAssumption`, ...). These say what the code gives: numbers are natural
numbers, limits and capacities are at least one where the code makes them so,
kinds of requests do not overlap, and the values that mark "nobody" or an initial
state (`None`, `"admin"`, `"initial"`) are not names of threads or requests. Sets
are assumed finite where something is counted. The bounds on faults, edits,
starts and time are parameters like the others, so none of them is a limit.

`theorems` in `PROJECT.json` lists the results. Each safety property comes from
one inductive invariant per module, because none of them is inductive as it
stands; on the instances of the runs TLC finds these invariants true as well, with
one exception noted below. A step of an action is one lemma,
and what an operator of the model does to a table, a queue or a count is stated
once as a lemma of its own.

### JudgeManagerProofs (JudgeManager, Scheduler, ServerStop)

`TypeOK`, `CapacityRespected`, `OneHolder`, `NoOrphanedFuture`,
`StopReachesEveryTask`, `NoLostWakeup` and `HttpThreadBound` follow from `IInv`
(`InductiveInvariant`, the formula the run `scheduler` checks on its instance):

- `SlotInv`: `reserved_` is the number of callers in state "reserved" (without
  it nothing bounds the queue when a slot is committed);
- `OwnerInv`: a handed-over task without a result is in the queue or with one
  worker, never both (`OneHolder` alone does not say that a task is somewhere);
- `ResultInv`: a worker that is about to deliver has a result;
- `StopInv`: a worker leaves only after `workers_stop_` and with an empty
  queue, and nothing is queued after that (`commit` resolves the promise
  itself); a task in the hands of a worker is in `active_items_` from the
  critical section in which it was popped, so `cancel_all` finds it;
- `NoLostWakeup`.

`HttpThreadBound` also needs counting: the occupied callers are the reserved
ones, the queued ones and those with a worker, and the last map one-to-one to
workers.

`ContractIsImplemented` is the refinement `Spec => ImplementsScheduler`. `IInv`
fixes the phase of every task (`LifeShape`), the slots of the contract are the
reserved ones and the places of the queue (`SlotCount`), and tasks that run are as
many as busy workers at most (`RunningCount`); with these each action is one step
of the contract or leaves its variables alone.

`EverythingDrains` proves `DrainReported` of `ServerSpec`. `IInv` is carried over,
since a step of the server is a step of the scheduler or leaves it alone.
`ServerInv` adds the order of the stop (`OrderInv`: no worker is released while an
HTTP thread may still hand something over), what the two counters count
(`CountInv`) and what is true when the last worker is joined (`JoinInv`).

### ProblemStatusProofs (ProblemStatus)

`SummaryAlwaysAgrees` and `SolvedStaysSolved` come from `StatusInvariant`.
`SummaryAgrees` is not inductive, as it speaks only of committed tables.
`StatusInv` adds: no transaction means `work = disk` (`OwnerInv`), what was judged
is a row of the right submission (`ResultInv`), after the first write of a
transaction the rows are the committed ones plus one row, or with one row
rewritten, and the summary is still the committed one (`WrittenInv`), and after
the second the summary fits the rows again and, for a settlement, has not lost
anything (`UpdatedInv`). The heart of it are two lemmas: `UpdateKeepsSummary`
(appending a row and applying `compute_status_update` keeps `Summary`) and its
counterpart for `recompute`.

`VerdictsDoNotGoBack` (`NoStaleVerdict`, an action property) needs `VerdictInv`:
no two rejudges claim one row (`ClaimInv`); a transaction has the committed rows
and one more or one rewritten (`RowsInv`); no verdict is from test cases still to
come (`AgeInv`); and the verdict of a rejudge is not older than the row it will
replace, if that is still the submission it has judged (`FreshInv`). The condition
is needed: the row may have been rolled back and its id given to another
submission, in which case the verdict is written to that one (section 5).

### SubmissionLifecycleProofs (SubmissionLifecycle)

`TasksAreSettledOnce`, `AnswersAreAlwaysTrue`, `StopAlwaysSettles`, from
`LifecycleInv`. The owner of the transaction is the thread between its steps
(`OwnerInv`); slots are accounted for (`SlotInv`); only accepted tasks are listed,
queued or held (`KnownInv`). `TableInv` says how far the connection may differ
from the file: the row a request inserts, the row and submission a worker
replaces, the problem a deletion removes, and a claim of the recovery that fell
into somebody's transaction or was rolled back with it. `DiskInv` is `SettledOnce`
for the file; `ResultInv` is what a result says of it. `CareInv` is the strengthening of
`StopSettles`: once the claims are reset, every unsettled task of a living process
is still to be listed, being handed over, in the pool, or left to the next start.

### AccountsProofs (Accounts)

`TransactionsAreIsolated`, `AnAdminRemains`, `OldPasswordServesOnce`, from
`AccountsInv`: the open transaction, the mutex and the thread within it are one
(`TxInv`); a password in a table belongs to a request that has succeeded or is
still at it (`UseInv`, which gives "a failed request leaves nothing");
what `change_role` has counted still holds when it writes, since every other
change of a role waits for the mutex and the writes that do not wait never change
one (`AdminInv`); and the old password of a change that has succeeded never comes
back (`OldInv`), which needs that its author will not write it again (`Spent`).

### AccountsProofs (RateLimiter)

`WindowIsBounded` and `RefusalsAreFair`, from `LimiterInv`. The deque holds times
that were read before the mutex was taken, so it is not sorted, and clean-up pops
from its front with readings that are themselves old: a time in the deque and the
attempt it stands for cannot be matched by their values. `MatchInv` says that there is a
matching: an attempt of its own behind every time, in the order of the decisions,
with every recent attempt among them; those that the history has forgotten are
out of every window in use (`Gone`). It bounds the recent attempts by the length of
the deque from above, and when a login is refused, from below. `PromiseInv` is
what keeps Retry-After: a source at its limit loses its first time by then. TLC has not
checked `MatchInv`, which quantifies over matchings; the other parts it has.

### JudgingProofs (JudgeEngine)

`PermitsAreAccounted`, `GlobalLimitIsKept`, `BlameIsAlwaysDue`,
`AcceptedExactlyIfCorrect` and `MatchIsAlwaysVisible`, from `EngineInv`: the gate
counts the judges between `acquire` and the end of its guard (`PermitInv`); what
runs was given no more than what was left (`TimeInv`); the loop goes on only
after a case the service left alone (`LoopInv`, with what is kept of a case,
`CaseInv`); a judge that came to its end has the worst status of all its cases,
one that was ended early has run too few or one that is not right (`DoneInv`).
`SummarizeIsWorst` is the lemma about `summarize_cases`.

The last two are about what a reader sees of an output, so they rest on
`OutputsMatchAsSeen`: for texts of any length and any characters, `outputs_match`
says "equal" exactly when the reader cannot tell the two outputs apart. The lines
`normalize_output` keeps are exactly what the reader sees (`KeptIs`, `SeenIsKept`,
`KeptIsSeen`; a character stands in the line and column that counting the newlines
before it gives, `CellOfCharacter`), so outputs that look the same have the same kept
lines (`SeenOnce`). And cutting the joined text gives the kept lines back
(`PiecesOfJoined` in `TextProofs`). The run `engine` checks the same for all pairs of
short texts.

### JudgingProofs (LocalExecutor)

`NoProcessOutlives` and `ReportsAreTrue`, from `ExecutorInv`, a conjunction over
the jobs whose parts mention one job only: a step of one job leaves the parts of
all others true (`SameKeeps`), whatever pipes it inherits or closes. `FamilyInv`
says who of the three processes lives, `PlaceInv` how that goes with the place of
the supervisor, `PipeInv` which ends the own processes still hold. From the last
follows the argument the launch rests on: while the program is not yet running
somebody of its own job holds the pipe of a failed launch, so the end of that pipe
without a record means that the program has started, although processes of other
jobs can delay it. `ExitInv` ties the exit status of `P` to that of the program: if
they differ, `P` was killed, which the supervisor does only for a reason it has
noted, or the launch had failed. `OutputInv` says that output is given up only
when all of it was read; `ReportInv` is what a report says.

### TextProofs (TextPieces)

`PiecesOfJoined`: texts without the mark, joined with it and cut again, are the same
texts, however many and long. `Cuts` and `Pieces` count marks, so the cuts are the
marks in order (`FiniteNumbered`, `PiecesAre`) without an induction. `Joined` is made
with `FlattenSeq`, a recursive function; what it returns (`FlattenIs`, `JoinedParts`)
follows from its equation by taking a smallest counterexample (`Smallest`), which
needs no induction theorem. A text that consists of blocks, each a mark and what
follows up to the next, does so in one way only, since two ways would have a first
block at which they part (`BlocksOnce`). `FoundAsBlock` says that a text between two
marks is found in a joined one exactly if it is one of the parts.

### ProblemCatalogProofs (ProblemCatalog, ProblemReaders, Catalog, TextFilters)

`TransactionsEnd`, `BoardIsConsistent`, `ViewsAlwaysAgree` and `CatalogIsImplemented`,
from `CatalogInv`.
A request is within its transaction exactly while it has the mutex (`LockInv`), so
the committed tables stand still below it; `WorkInv` then says what `work` is at
each place: a function of `disk`, the request, and for the samples how many are
inserted (`Written`), up to the whole effect at the place before COMMIT (`Effect`).
`Database` is the typing of the rows with their foreign keys, `SamplesNumbered` that
the samples of a problem stand at 0, 1, and so on, which together with the limit
of `OrdFits` keeps every position in range; neither holds by itself after DELETE and
before the last INSERT, so the second is stated of `disk` only. `BoardInv` ties the
total that the leaderboard has counted to the tables its page is read from.

The refinement maps the committed tables to the catalog and COMMIT to the moment of
effect. For each of the six operations a lemma computes the catalog of `Effect` from
the catalog before (`CreatePromise`, `UpdatePromise`, ...): what other problems
show stays the same (`KeptView`), samples and hidden cases do not disturb each other,
a new case comes last although the samples take positions too (`OrdsIs`, `NextOrdIs`).
`RollbackRefuses` shows that each refusal is due on the tables as they are then, in
particular that an automatic position is refused only when the last one is taken.

The model sorts with `Sorted`, which gives every element the place that the number
of elements before it says. That this is the one enumeration in order (`SortedIs`,
`SortedInLine`) follows by counting, without an induction, and so does what `Max` and
`Page` return.

`ViewsAlwaysAgree` needs of the invariant only that the rows are what they are taken
for. That the pages, joined, are the list (`PagesJoined`) is about `FlattenSeq`, a
recursive function: the prefixes of the list that end with each page satisfy its
equation (`PageStarts`), and only one sequence does (`OneJoined`). The one
assumption on constants that the other theorems do not need is that `None`, the
answer of a query that finds nothing, is not itself the detail of a problem.

The rest of `ViewsAgree` is about texts alone (`FiltersAlwaysLiteral`), and three
theorems prove it without a bound on texts, their number or their alphabet:

- `KeywordFound`: a title matches the LIKE pattern of a keyword exactly if the keyword
  stands in it but for the case of ASCII letters, wildcards and escape characters
  included. `PatternIs` gives the
  place of every character of the keyword in the pattern, behind its escape
  character if it has one; from there on the pattern matches where the rest of the
  keyword stands and anything may follow (`RestMatched`, by taking the last
  place where that fails).
- `TagsReadBack`: `split_tags` after `join_tags` is the accepted list. The pieces are
  the tags (`PiecesOfJoined`), and trimming does nothing to a trimmed one (`TrimKeeps`).
- `TagsFound`: `instr` finds `,tag,` in `,list,` exactly if the tag is one of the list
  (`FoundAmong`, from `FoundAsBlock`). It rests on `parse_tags` refusing commas
  within tags, as the mutant `AcceptsTags_Comma` shows.

`ReadersAreConsistent` is about `ReadSpec`, whose steps are steps of `ProblemCatalog` or
leave its variables alone (`ReadersOnlyRead`), so `CatalogInv` is there in every state.
`ReadInv` says of each reader that what it has read and what is in front of its cursor
are together what its first statement promised: exactly, if nothing it reads has
changed (`HasFound` for samples), and otherwise as many rows but for one for each
change. The second part needs `OneRow`: every step of a writer, COMMIT, ROLLBACK and
DELETE included, touches one row of `problems` at most, because a transaction has only one
(`RowChanges`, `RowBack`). So the rows behind an offset, or behind the last key, grow
or shrink by one at most. That no row comes twice follows from the order of the keys alone.

### StartUpProofs (StartUp)

`InstanceIsExclusive`, `FileStaysWhole`, `StartsOnlyAdd`, from `StartInv`: holding
a lock is being at a place (`LockInv`), for SQLite's write lock and for the
instance lock, which moreover nobody takes while a program has a copy of it, and
only its holder starts programs; what the transaction of `ensure_schema` has done after each of its
statements (`SchemaInv`); the transaction of the importer has the file and one
problem more, of a key the file does not have (`SeedInv`), which is true because
the test for the key is repeated under the write lock.

### Only model-checked

- Liveness: `StopTerminates`, `EveryTaskAnswered`, `EveryRequestAnswered`,
  `EventuallySettled`, `EveryJudgeEnds`, `SupervisionEnds`, `StartEnds`. Liveness
  under fairness is outside of what the proof system supports.

## 5. Findings

1. `accounts_record`: an acknowledged registration can be lost, and its id given
   to the next user. An INSERT without `transaction_mutex` that runs while another
   thread's transaction is open belongs to it and is undone by its ROLLBACK, for
   instance after a wrong old password. `SPEC.md` says that records are always
   kept. `reset_password` and the claim of the start-up recovery are exposed in
   the same way; for the claim `lifecycle` includes the loss and shows that
   the task is still settled only once.
2. `executor_limit`: two spawns that fork while both have their pipes open leave
   each `P` and `G` with the write end of the other's exec pipe. Both supervisors
   block in `read(exec_r)`, where neither deadline nor token counts yet, and the
   programs wait for the input that the supervisors still hold. `SPEC.md` states
   a hard limit after which every judge is killed (JUDGE-10), and that pipes of
   other tasks are not inherited.

The traces are short; run the configurations to see them.

More consequences are in the models and are not stated as properties of their own.
Of the shared connection:

- `create` reads error code and message of a failed INSERT from the connection,
  where a statement of another thread may have replaced them; the code that
  `step` returned is an extended one and never equals the constant it is compared
  with. A nickname conflict may then be answered as an internal error, or an
  account collision as a nickname conflict (`Classify` in `Accounts`).
- A rejudge can read a row that is not committed; after the rollback its id
  belongs to the next submission, and the check inside the rejudge's transaction
  finds that one (`RejudgeWrite` in `ProblemStatus`).
- The judge reads the test cases row by row without the mutex, while a
  transaction may be replacing samples on the same connection (`ReplaceSamples`,
  `InsertSample` in `ProblemCatalog`); the snapshot it judges with may then be one
  that was never committed.
- The total of the problem list and its page may contradict each other when a problem
  is created, hidden or deleted between the two statements, which the
  leaderboard prevents with its read transaction; `ReadersConsistent` bounds by how much.
- The page of a problem shows its samples although it was hidden after the
  check of its visibility, and may show samples of before and after a change together,
  more than `kMaxSamples` even, or none that was ever committed (`DetailRow` in
  `ProblemReaders`).

Of the instance lock:

- A server that is killed by SIGKILL while a program runs leaves it locked, and the next
  start is refused until that program has ended, although `instance_lock.h:10-12` and
  the comment in `main.cpp` say that the system releases it at a crash. `OneInstance` says
  what holds: a start is refused only while a server lives that has the lock or such a
  program runs, and no server recovers a task next to the program that was judging it.
  The mutant `acquire_PerProcess`, a lock that children do not inherit, breaks the second.

## 6. Not modelled, and why

- SQLite, the kernel's sandboxing, files, pipes and the HTTP library are
  external; they appear by what the code relies on.
- Text: messages, JSON, logging, and the details of a case result.
- Token signing, hashing and the character checks of accounts and passwords:
  functions of their input without state, mostly of a library. What a request is
  allowed is read from the database each time, which is in `Accounts`.
- The sandbox (`sandbox.cpp`) and the workspace: a straight sequence of system calls
  in the child, whose effect is the kernel's; that any of them fails is modelled
  in `LocalExecutor`. The reuse of process ids by the kernel is left out.
- Configuration: constants of the models; that a start fails there is `Configure`.
- The front end: it runs in one thread of a browser and keeps nothing the server
  relies on. Its session check and router drop late answers by sequence numbers.
- The backup script: a shell script around `.dump`.
- The columns of lists that concern the viewer (own status, counters), the list of
  users and the history of submissions, which page like the list of problems.
- The recovery's statistics and the counters that exist for tests.
- Per-row data that no property tells apart (source code, language, run time).

## 7. Plan

Order of the work, the most important behaviour first.

1. `Scheduler`, `JudgeManager`, `ServerStop`, with the proofs and the refinement (done)
2. `Accounts` and the proofs (done)
3. `SubmissionLifecycle` and the proofs (done)
4. `ProblemStatus` and the proofs (done)
5. `JudgeEngine` and the proofs (done)
6. `LocalExecutor` and the proofs (done; that it implements the `Evidence` of
   `JudgeEngine` is not stated as a refinement yet)
7. `Catalog`, `ProblemCatalog`, `TextFilters`, the proofs and the refinement (done)
8. `StartUp` and the proofs (done)
9. `RateLimiter` and the proofs (done)
10. `Comparator`, `TextPieces` and the proofs (done)

Runs stay few: a module gets one run, and one more where the code and a document
disagree.
