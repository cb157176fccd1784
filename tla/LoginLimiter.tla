---------------------------- MODULE LoginLimiter ----------------------------
(***************************************************************************)
(* The global limiter of failed logins (rate_limiter.rs), the two handlers *)
(* that use it (login_post in routes/user.rs, the Basic branch of          *)
(* authenticate_git in routes/repo.rs), the row of table login_failures    *)
(* that keeps it over restarts, and the two clocks it reads.               *)
(*                                                                         *)
(* An attempt is three steps: the check (is_blocked, under the mutex), the *)
(* verdict (record_failure or reset, under the mutex again) and the UPDATE *)
(* the handler then awaits.  There is no .await between the check and the  *)
(* verdict, so the worker thread stays with the attempt; UPDATEs go through*)
(* a pool of connections and land in any order.                            *)
(***************************************************************************)
EXTENDS Integers, FiniteSets

CONSTANTS
  Handlers,       \* requests the server can have in progress at once
  Workers,        \* threads of the async runtime
  MaxAttempts,    \* login_rate_max_attempts
  Window,         \* login_rate_window_secs
  InstantSigned,  \* an Instant before the boot of the machine can be expressed
                  \*   (TRUE on Unix, FALSE on Windows)
  CoarseClock,    \* two Instant::now() in a row may return the same value
  DbMayFail,      \* a statement may fail, or its handler be dropped before it
  MaxClock,       \* bound: the wall clock's last second
  MaxSetbacks     \* bound: how often the wall clock is set back

ASSUME LoginLimiterAssumption ==
  /\ IsFiniteSet(Handlers)
  /\ Workers \in Nat \ {0}
  /\ MaxAttempts \in Nat \ {0}
  /\ Window \in Nat \ {0}
  /\ InstantSigned \in BOOLEAN
  /\ CoarseClock \in BOOLEAN
  /\ DbMayFail \in BOOLEAN
  /\ MaxClock \in Nat
  /\ MaxSetbacks \in Nat

VARIABLES
  wall,      \* seconds since the epoch
  uptime,    \* seconds since the machine booted
  mem,       \* LimiterState
  db,        \* the login_failures row
  req,       \* req[h]: where handler h is
  setbacks,  \* history: how often the wall clock was set back
  guesses,   \* history: guesses[t]: wrong credentials judged at second t
             \*   since the last success, restart or set-back of the clock
  lately,    \* history: lately[k]: the second at which the k-th last wrong credentials
             \*   were judged, restarts and successes notwithstanding, until the
             \*   wall clock is set back
  doubt      \* history: the last UPDATE was sent while another was under way,
             \*   or got lost

clocks == <<wall, uptime, setbacks>>
vars   == <<wall, uptime, mem, db, req, setbacks, guesses, lately, doubt>>

Counter == [failures : Nat, start : Nat]

Idle         == [pc |-> "idle"]
Verifying    == [pc : {"verify"}]
Saving       == [pc : {"save"}, counter : Counter]
Verify       == [pc |-> "verify"]
SaveOf(c)    == [pc |-> "save", counter |-> c]

InVerify == {h \in Handlers : req[h].pc = "verify"}
InSave   == {h \in Handlers : req[h].pc = "save"}

\* Earlier than every second.
Never == -1

\* The type invariant: clocks and counters are naturals, and exactly the handler
\* that waits for its UPDATE carries the counter it writes.
TypeOK ==
  /\ wall \in 0..MaxClock
  /\ uptime \in Nat
  /\ mem \in Counter
  /\ db \in Counter
  /\ req \in [Handlers -> {Idle} \cup Verifying \cup Saving]
  /\ setbacks \in 0..MaxSetbacks
  /\ guesses \in [0..MaxClock -> Nat]
  /\ lately \in [1..MaxAttempts -> 0..MaxClock \cup {Never}]
  /\ doubt \in BOOLEAN

NoGuesses  == [t \in 0..MaxClock |-> 0]
NoVerdicts == [k \in 1..MaxAttempts |-> Never]

\* The migration has inserted the row, the limiter has loaded it.
Init ==
  /\ wall = 0 /\ uptime = 0 /\ setbacks = 0
  /\ mem = [failures |-> 0, start |-> 0]
  /\ db = mem
  /\ req = [h \in Handlers |-> Idle]
  /\ guesses = NoGuesses
  /\ lately = NoVerdicts
  /\ doubt = FALSE

----------------------------------------------------------------------------
(* The age of the window.                                                  *)

\* window_start_instant goes back from now by the age in wall-clock seconds, or
\* stays at now when that instant cannot be expressed.
Age ==
  LET a == IF wall >= mem.start THEN wall - mem.start ELSE 0
  IN  IF ~InstantSigned /\ a > uptime THEN 0 ELSE a

\* Whether "age >= window".  The age is measured from an Instant::now() taken
\* before the one the window start is computed from, so it falls short of Age by
\* the time between the two, which only a coarse clock can make zero.
Expired ==
  IF Age = Window /\ CoarseClock THEN BOOLEAN ELSE {Age > Window}

----------------------------------------------------------------------------
(* Attempts.                                                               *)

\* is_blocked may return TRUE, and it may return FALSE.
CanBlock == FALSE \in Expired /\ mem.failures >= MaxAttempts

CanPassOneMore == TRUE \in Expired \/ mem.failures <= MaxAttempts

CanPass == TRUE \in Expired \/ mem.failures < MaxAttempts

\* The attempt is answered at once, nothing changes.
Refused(h) ==
  /\ req[h].pc = "idle"
  /\ CanBlock
  /\ UNCHANGED vars

\* is_blocked returns FALSE and the worker thread goes on to verify.
Attempt(h) ==
  /\ req[h].pc = "idle"
  /\ Cardinality(InVerify) < Workers
  /\ CanPass
  /\ req' = [req EXCEPT ![h] = Verify]
  /\ UNCHANGED <<clocks, mem, db, guesses, lately, doubt>>

\* The counter changes under the mutex and the handler sends the UPDATE.
Store(h, c) ==
  /\ mem' = c
  /\ req' = [req EXCEPT ![h] = SaveOf(c)]
  /\ doubt' = (InSave # {})

\* Basic credentials that do not decode are refused without being counted.
Malformed(h) ==
  /\ req[h].pc = "verify"
  /\ req' = [req EXCEPT ![h] = Idle]
  /\ UNCHANGED <<clocks, mem, db, guesses, lately, doubt>>

\* record_failure.
NextCounterKeepsStart(expired) ==
  [mem EXCEPT !.failures = IF expired THEN 1 ELSE @ + 1]

NextCounterTakesOff(expired) ==
  IF expired THEN [failures |-> mem.failures - MaxAttempts + 1, start |-> wall]
             ELSE [mem EXCEPT !.failures = @ + 1]

NextCounter(expired) ==
  IF expired THEN [failures |-> 1, start |-> wall]
             ELSE [mem EXCEPT !.failures = @ + 1]

RecordFailure(h) ==
  /\ req[h].pc = "verify"
  /\ \E expired \in Expired : Store(h, NextCounter(expired))
  /\ guesses' = [guesses EXCEPT ![wall] = @ + 1]
  /\ lately' = IF setbacks = 0 THEN [k \in 1..MaxAttempts |-> IF k = 1 THEN wall ELSE lately[k - 1]]
                               ELSE lately
  /\ UNCHANGED <<clocks, db>>

ResetInMemory(h) ==
  /\ req[h].pc = "verify"
  /\ mem' = [failures |-> 0, start |-> wall]
  /\ req' = [req EXCEPT ![h] = Idle]
  /\ guesses' = NoGuesses
  /\ UNCHANGED <<clocks, db, lately, doubt>>

\* reset, after the right credentials.
Reset(h) ==
  /\ req[h].pc = "verify"
  /\ Store(h, [failures |-> 0, start |-> wall])
  /\ guesses' = NoGuesses
  /\ UNCHANGED <<clocks, db, lately>>

\* save_login_state: the UPDATE takes effect ...
SaveLands(h) ==
  /\ req[h].pc = "save"
  /\ db' = req[h].counter
  /\ req' = [req EXCEPT ![h] = Idle]
  /\ UNCHANGED <<clocks, mem, guesses, lately, doubt>>

\* ... or fails, which is only logged, or its handler is dropped before it.
SaveLost(h) ==
  /\ DbMayFail
  /\ req[h].pc = "save"
  /\ doubt' = TRUE
  /\ req' = [req EXCEPT ![h] = Idle]
  /\ UNCHANGED <<clocks, mem, db, guesses, lately>>

----------------------------------------------------------------------------
(* Clocks and restarts.                                                    *)

Tick ==
  /\ wall < MaxClock
  /\ wall' = wall + 1
  /\ uptime' = uptime + 1
  /\ UNCHANGED <<setbacks, mem, db, req, guesses, lately, doubt>>

\* The wall clock is set back; Instants do not move.
SetBack ==
  /\ setbacks < MaxSetbacks
  /\ \E t \in 0..(wall - 1) : wall' = t
  /\ setbacks' = setbacks + 1
  /\ guesses' = NoGuesses
  /\ lately' = NoVerdicts
  /\ UNCHANGED <<uptime, mem, db, req, doubt>>

LoadedAsOfNow == [db EXCEPT !.start = wall]

\* load_from_db: the count and the start of its window.
Loaded == db

\* The server restarts, or, where the uptime matters, the machine: LoginLimiter::new, then
\* load_from_db before any request; a failing SELECT leaves the fresh counter.
Restart ==
  /\ \/ mem' = Loaded /\ doubt' = FALSE
     \/ DbMayFail /\ mem' = [failures |-> 0, start |-> wall] /\ doubt' = TRUE
  /\ uptime' \in {uptime} \cup (IF InstantSigned THEN {} ELSE {0})
  /\ req' = [h \in Handlers |-> Idle]
  /\ guesses' = NoGuesses
  /\ UNCHANGED <<wall, setbacks, db, lately>>

----------------------------------------------------------------------------
Next ==
  \/ \E h \in Handlers :
       \/ Refused(h) \/ Attempt(h) \/ Malformed(h)
       \/ RecordFailure(h) \/ Reset(h)
       \/ SaveLands(h) \/ SaveLost(h)
  \/ Tick \/ SetBack \/ Restart

Spec == Init /\ [][Next]_vars

----------------------------------------------------------------------------
(* Properties.                                                             *)

\* How far the counter can go: the attempts that were past the check when it
\* reached the limit, one per worker thread, are still counted, and each time the
\* wall clock is set back an expired window may come to life again under them.
MostFailures == MaxAttempts + Workers - 1 + setbacks * Workers

\* The count never runs away, in memory, on its way to the database, in the
\* database and after a restart (is_blocked and record_failure lock separately).
FailuresBounded ==
  /\ mem.failures <= MostFailures
  /\ db.failures <= MostFailures
  /\ \A h \in InSave : req[h].counter.failures <= MostFailures

\* The wrong credentials judged at the seconds of S, each with its number in its second.
Judged(S) == UNION {{u} \X (1..guesses[u]) : u \in S}

GuessesFrom(t) == Cardinality(Judged({u \in t..(t + Window) : u <= MaxClock}))

\* What the limiter is for: whoever guesses gets at most twice that many wrong
\* credentials judged within any window, if nobody logs in meanwhile, the server
\* is not restarted and the clock not set back.  (Twice: windows are fixed, so
\* the end of one and the start of the next are adjacent.)
GuessRate == \A t \in 0..MaxClock : GuessesFrom(t) <= 2 * MostFailures

\* "Returns true if the limit has been reached within the current window"
\* (rate_limiter.rs:79): nobody is refused when the window is over.
BlockedOnlyWithinWindow == CanBlock => wall - mem.start <= Window

\* Nobody is locked out without a cause: whenever a login is refused, as many wrong
\* credentials as the limit has were judged within the last window, whatever UPDATEs were
\* lost or overtaken and however often the server was restarted (load_from_db brings back
\* an older counter, but with the start of its own window).
LockedOutForCause ==
  setbacks = 0 /\ CanBlock =>
    lately[MaxAttempts] # Never /\ wall - lately[MaxAttempts] <= Window

\* The row survives restarts: with no UPDATE under way, and none that was lost
\* or sent over another one, it holds what memory holds.
SurvivesRestart == InSave = {} /\ ~doubt => db = mem

\* "Every write also persists the counter to SQLite" (rate_limiter.rs:6): the
\* same without the condition on overlapping UPDATEs.
PersistedWhenQuiet == InSave = {} => db = mem
============================================================================
