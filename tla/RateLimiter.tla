---------------------------- MODULE RateLimiter ----------------------------
(***************************************************************************)
(* The login limiter and the logins that use it (auth/rate_limit.cpp,      *)
(* auth/login.cpp, HttpServer::handle_login).                              *)
(*                                                                         *)
(* A login reads the clock, then takes the mutex, so that times enter the  *)
(* deque of a source out of order and are compared with times later than   *)
(* themselves; then the password is checked without the mutex; then the    *)
(* deque is cleared or left.                                               *)
(***************************************************************************)
EXTENDS Integers, Sequences, FiniteSets, FiniteSetsExt

CONSTANTS
    Logins,         \* threads that serve logins
    Keys,           \* sources
    MaxFailures,    \* Config::max_failures
    Window,         \* Config::window_seconds, in ticks
    Second,         \* ticks of a second
    SweepInterval,  \* kSweepInterval
    MaxTime,        \* bound: ticks that pass
    MaxLogins,      \* bound: logins
    None            \* no key, no promise

ASSUME LimiterAssumption ==
    /\ {MaxFailures, Window, Second, SweepInterval} \subseteq Nat \ {0}
    /\ {MaxTime, MaxLogins} \subseteq Nat
    /\ None \notin Keys

VARIABLES
    clock,     \* steady_clock
    failures,  \* failures_: per tracked source, its times, oldest decision first
    sweepCounter,
    place,
    key,       \* per login, its source
    now,       \* per login, its reading of the clock
    arrived,   \* number of logins so far
    tries,     \* history: per source, the attempts let through since the last clear
    promised   \* history: per source, the end of the earliest Retry-After since the last of them

limiterVars == <<clock, failures, sweepCounter, place, key, now, arrived, tries, promised>>

LimiterInit ==
    /\ clock = 0
    /\ failures = [k \in {} |-> <<>>]
    /\ sweepCounter = 0
    /\ place = [t \in Logins |-> "idle"]
    /\ key = [t \in Logins |-> None]
    /\ now = [t \in Logins |-> 0]
    /\ arrived = 0
    /\ tries = [k \in Keys |-> {}]
    /\ promised = [k \in Keys |-> None]

\* Time passes; attempts that are older than the window of every reading of the
\* clock still in use leave the history.
Tick ==
    LET oldest == Min({clock} \cup {now[t] : t \in {u \in Logins : place[u] = "timed"}}) IN
    /\ clock < MaxTime
    /\ clock' = clock + 1
    /\ tries' = [k \in Keys |-> {a \in tries[k] : a.at >= oldest - Window}]
    /\ UNCHANGED <<failures, sweepCounter, place, key, now, arrived, promised>>

\* handle_login with a valid body; the reading of the clock in allow.
Arrive(t) ==
    /\ place[t] = "idle"
    /\ arrived < MaxLogins
    /\ arrived' = arrived + 1
    /\ \E k \in Keys : key' = [key EXCEPT ![t] = k]
    /\ now' = [now EXCEPT ![t] = clock]
    /\ place' = [place EXCEPT ![t] = "timed"]
    /\ UNCHANGED <<clock, failures, sweepCounter, tries, promised>>

-----------------------------------------------------------------------------
\* now - dq.front() > window.
Expired(time, at) == at - time > Window

\* pop_front while the front has expired: what is behind a fresh front stays.
Fresh(times, at) ==
    LET live == {i \in DOMAIN times : ~Expired(times[i], at)}
    IN  IF live = {} THEN <<>> ELSE SubSeq(times, Min(live), Len(times))

\* The sources in which are cleaned and forgotten when nothing is left.
Cleaned(map, which, at) ==
    LET kept == {k \in DOMAIN map : k \in which => Fresh(map[k], at) # <<>>}
    IN  [k \in kept |-> IF k \in which THEN Fresh(map[k], at) ELSE map[k]]

\* Mutant of AtLimit: one attempt more.
AtLimit_OffByOne(map, k) == k \in DOMAIN map /\ Len(map[k]) > MaxFailures

AtLimit(map, k) == k \in DOMAIN map /\ Len(map[k]) >= MaxFailures

\* Mutant of RetryAfter: rounded down.
RetryAfter_Floor(oldest, at) == Max({1, (Window - (at - oldest)) \div Second})

\* The rest of the window of the oldest time, in whole seconds, at least one.
RetryAfter(oldest, at) == Max({1, (Window - (at - oldest) + Second - 1) \div Second})

\* RateLimiter::allow under its mutex, from the sweep to the answer.
Decide(t) ==
    LET k == key[t]
        sweep == sweepCounter + 1 >= SweepInterval
        map == Cleaned(failures, IF sweep THEN Keys ELSE {k}, now[t])
        until == clock + Second * RetryAfter(map[k][1], now[t])
    IN
    /\ place[t] = "timed"
    /\ sweepCounter' = IF sweep THEN 0 ELSE sweepCounter + 1
    /\ \/ /\ AtLimit(map, k)
          /\ failures' = map
          /\ place' = [place EXCEPT ![t] = "blocked"]
          /\ promised' = [promised EXCEPT ![k] = IF @ = None THEN until ELSE Min({@, until})]
          /\ UNCHANGED tries
       \/ /\ ~AtLimit(map, k)
          /\ failures' = [j \in DOMAIN map \cup {k} |->
                            IF j # k THEN map[j]
                            ELSE (IF k \in DOMAIN map THEN map[k] ELSE <<>>) \o <<now[t]>>]
          /\ place' = [place EXCEPT ![t] = "checking"]
          /\ tries' = [tries EXCEPT ![k] = @ \cup {[read |-> now[t], at |-> clock, nth |-> Cardinality({a \in @ : a.read = now[t] /\ a.at = clock})]}]
          /\ promised' = [promised EXCEPT ![k] = None]
    /\ UNCHANGED <<clock, key, now, arrived>>

\* What LoginService::login makes of the look-up of the account, the check of the
\* password and the signing of the token.
login(lookup, verify, sign) ==
    CASE lookup = "error" -> "InternalError"
      [] lookup = "absent" -> "InvalidCredentials"
      [] lookup = "found" /\ verify = "mismatch" -> "InvalidCredentials"
      [] lookup = "found" /\ verify = "error" -> "InternalError"
      [] lookup = "found" /\ verify = "match" -> IF sign THEN "Success" ELSE "InternalError"

Outcomes ==
    {login(lookup, verify, sign) : lookup \in {"error", "absent", "found"},
                                   verify \in {"match", "mismatch", "error"}, sign \in BOOLEAN}

\* The attempt was wrong (401): its time stays.  It was right (200) or the server
\* failed (500): the source is cleared.
Finish(t) ==
    LET k == key[t] IN
    /\ place[t] = "checking"
    /\ \E answer \in Outcomes :
        \/ answer = "InvalidCredentials" /\ UNCHANGED <<failures, tries>>
        \/ /\ answer \in {"Success", "InternalError"}
           /\ failures' = [j \in DOMAIN failures \ {k} |-> failures[j]]
           /\ tries' = [tries EXCEPT ![k] = {}]
    /\ place' = [place EXCEPT ![t] = "idle"]
    /\ key' = [key EXCEPT ![t] = None]
    /\ now' = [now EXCEPT ![t] = 0]
    /\ UNCHANGED <<clock, sweepCounter, arrived, promised>>

\* 429 with Retry-After.
TurnAway(t) ==
    /\ place[t] = "blocked"
    /\ place' = [place EXCEPT ![t] = "idle"]
    /\ key' = [key EXCEPT ![t] = None]
    /\ now' = [now EXCEPT ![t] = 0]
    /\ UNCHANGED <<clock, failures, sweepCounter, arrived, tries, promised>>

LimiterNext == Tick \/ \E t \in Logins : Arrive(t) \/ Decide(t) \/ Finish(t) \/ TurnAway(t)

LimiterSpec == LimiterInit /\ [][LimiterNext]_limiterVars

-----------------------------------------------------------------------------
LimiterTypeOK ==
    /\ clock \in 0..MaxTime
    /\ DOMAIN failures \subseteq Keys
    /\ \A k \in DOMAIN failures : failures[k] \in Seq(0..clock) \ {<<>>}
    /\ sweepCounter \in 0..(SweepInterval - 1)
    /\ place \in [Logins -> {"idle", "timed", "checking", "blocked"}]
    /\ key \in [Logins -> Keys \cup {None}]

\* The state is well typed, and only sources with times are tracked, so that the
\* map does not grow with sources that have expired.  However the readings of the
\* clock and the mutex interleave, and whatever the sweep of another source removes:
\* within the window that ends now no more than MaxFailures attempts of a source
\* were let through without a clear (RateLimiter::allow).
WindowBound ==
    /\ LimiterTypeOK
    /\ \A k \in Keys : Cardinality({a \in tries[k] : a.read >= clock - Window}) <= MaxFailures

\* A login is turned away only when its source has used up its attempts: since
\* the last clear MaxFailures of them were let through at most a window before
\* the login read the clock.  And Retry-After is kept: who comes back after it, no
\* other attempt of the source having been let through since, is not turned away.
RefusalIsFair ==
    [][\A t \in Logins : place[t] = "timed" /\ place'[t] = "blocked" =>
            /\ Cardinality({a \in tries[key[t]] : a.at >= now[t] - Window}) >= MaxFailures
            /\ promised[key[t]] # None => now[t] <= promised[key[t]]]_limiterVars

=============================================================================
