------------------------- MODULE LoginLimiterProofs -------------------------
(***************************************************************************)
(* What LoginLimiter keeps for every limit, window, number of handlers and *)
(* of worker threads, and for runs of any length.                          *)
(***************************************************************************)
EXTENDS LoginLimiter, FiniteSetTheorems, TLAPS

USE DEF clocks

States == {Idle} \cup Verifying \cup Saving

Verdicts == [1..MaxAttempts -> 0..MaxClock \cup {Never}]

LEMMA StateFacts ==
  /\ Idle \in States /\ Idle.pc = "idle"
  /\ Verify \in States /\ Verify.pc = "verify"
  /\ \A c \in Counter : SaveOf(c) \in States /\ SaveOf(c).pc = "save" /\ SaveOf(c).counter = c
  /\ \A s \in States : s.pc = "save" => s.counter \in Counter
  BY DEF States, Idle, Verify, Verifying, Saving, SaveOf

LEMMA CounterFacts ==
  /\ \A c \in Counter : c.failures \in Nat /\ c.start \in Nat
  /\ \A f, t \in Nat : [failures |-> f, start |-> t] \in Counter
  BY DEF Counter

LEMMA NextCounterType ==
  ASSUME TypeOK, NEW expired
  PROVE  /\ NextCounter(expired) \in Counter
         /\ NextCounter(expired).failures = IF expired THEN 1 ELSE mem.failures + 1
         /\ NextCounter(expired).start = IF expired THEN wall ELSE mem.start
<1>1. mem \in Counter /\ wall \in Nat
  BY LoginLimiterAssumption DEF TypeOK, LoginLimiterAssumption
<1>2. CASE expired
  BY <1>1, <1>2 DEF NextCounter, Counter
<1>3. CASE ~expired
  BY <1>1, <1>3 DEF NextCounter, Counter
<1> QED
  BY <1>2, <1>3

LEMMA TypeInit == Init => TypeOK
<1> SUFFICES ASSUME Init PROVE TypeOK
  OBVIOUS
<1>1. mem \in Counter /\ db \in Counter
  BY CounterFacts DEF Init
<1>2. req \in [Handlers -> States]
  BY StateFacts DEF Init
<1>3. guesses \in [0..MaxClock -> Nat] /\ lately \in Verdicts
  BY DEF Init, NoGuesses, NoVerdicts, Verdicts
<1>4. wall \in 0..MaxClock /\ uptime \in Nat /\ setbacks \in 0..MaxSetbacks
  BY LoginLimiterAssumption DEF Init, LoginLimiterAssumption
<1>5. doubt \in BOOLEAN
  BY DEF Init
<1> QED
  BY <1>1, <1>2, <1>3, <1>4, <1>5 DEF TypeOK, States, Verdicts

\* record_failure stores one of the two outcomes.
LEMMA RecordStores ==
  ASSUME NEW h \in Handlers, RecordFailure(h)
  PROVE  \E expired \in Expired : Store(h, NextCounter(expired))
  BY DEF RecordFailure

LEMMA TypeStep ==
  ASSUME TypeOK, [Next]_vars
  PROVE  TypeOK'
<1>0. /\ wall \in 0..MaxClock /\ uptime \in Nat /\ setbacks \in 0..MaxSetbacks /\ doubt \in BOOLEAN
      /\ mem \in Counter /\ db \in Counter /\ req \in [Handlers -> States]
      /\ guesses \in [0..MaxClock -> Nat] /\ NoGuesses \in [0..MaxClock -> Nat]
      /\ lately \in Verdicts /\ NoVerdicts \in Verdicts
  BY DEF TypeOK, States, NoGuesses, NoVerdicts, Verdicts
<1>c. MaxClock \in Nat /\ MaxSetbacks \in Nat /\ MaxAttempts \in Nat
  BY LoginLimiterAssumption DEF LoginLimiterAssumption
<1>1. ASSUME NEW h \in Handlers, Attempt(h) \/ Malformed(h) PROVE TypeOK'
  <2>1. req' \in [Handlers -> States]
    BY <1>0, <1>1, StateFacts DEF Attempt, Malformed
  <2> QED
    BY <1>0, <1>1, <2>1 DEF Attempt, Malformed, TypeOK, States, Verdicts
<1>2. ASSUME NEW h \in Handlers, NEW c \in Counter, Store(h, c), UNCHANGED <<clocks, db>>,
             guesses' \in [0..MaxClock -> Nat], lately' \in Verdicts
      PROVE  TypeOK'
  <2>1. req' \in [Handlers -> States] /\ mem' \in Counter /\ doubt' \in BOOLEAN
    BY <1>0, <1>2, StateFacts DEF Store
  <2> QED
    BY <1>0, <1>2, <2>1 DEF TypeOK, States, Verdicts
<1>3. ASSUME NEW h \in Handlers, RecordFailure(h) PROVE TypeOK'
  <2>1. PICK expired \in Expired : Store(h, NextCounter(expired))
    BY <1>3, RecordStores
  <2>2. NextCounter(expired) \in Counter
    BY NextCounterType
  <2>3. guesses' \in [0..MaxClock -> Nat]
    <3>1. guesses[wall] + 1 \in Nat
      BY <1>0
    <3> QED
      BY <1>0, <1>3, <3>1 DEF RecordFailure
  <2>4. lately' \in Verdicts
    <3>1. [k \in 1..MaxAttempts |-> IF k = 1 THEN wall ELSE lately[k - 1]] \in Verdicts
      BY <1>0, <1>c DEF Verdicts
    <3> QED
      BY <1>0, <1>3, <3>1 DEF RecordFailure
  <2> QED
    BY <1>2, <1>3, <2>1, <2>2, <2>3, <2>4 DEF RecordFailure
<1>4. ASSUME NEW h \in Handlers, Reset(h) PROVE TypeOK'
  <2>1. [failures |-> 0, start |-> wall] \in Counter
    BY <1>0, <1>c, CounterFacts
  <2> QED
    BY <1>0, <1>2, <1>4, <2>1 DEF Reset
<1>5. ASSUME NEW h \in Handlers, SaveLands(h) PROVE TypeOK'
  <2>1. req[h].counter \in Counter
    BY <1>0, <1>5, StateFacts DEF SaveLands
  <2>2. req' \in [Handlers -> States]
    BY <1>0, <1>5, StateFacts DEF SaveLands
  <2> QED
    BY <1>0, <1>5, <2>1, <2>2 DEF SaveLands, TypeOK, States, Verdicts
<1>6. ASSUME NEW h \in Handlers, SaveLost(h) PROVE TypeOK'
  <2>1. req' \in [Handlers -> States]
    BY <1>0, <1>6, StateFacts DEF SaveLost
  <2> QED
    BY <1>0, <1>6, <2>1 DEF SaveLost, TypeOK, States, Verdicts
<1>7. CASE Tick
  <2>1. wall' \in 0..MaxClock /\ uptime' \in Nat
    BY <1>0, <1>c, <1>7 DEF Tick
  <2> QED
    BY <1>0, <1>7, <2>1 DEF Tick, TypeOK, States, Verdicts
<1>8. CASE SetBack
  <2>1. wall' \in 0..MaxClock /\ setbacks' \in 0..MaxSetbacks
    BY <1>0, <1>c, <1>8 DEF SetBack
  <2> QED
    BY <1>0, <1>8, <2>1 DEF SetBack, TypeOK, States, Verdicts
<1>9. CASE Restart
  <2>1. [failures |-> 0, start |-> wall] \in Counter
    BY <1>0, <1>c, CounterFacts
  <2>2. mem' \in Counter
    BY <1>0, <1>9, <2>1 DEF Restart, Loaded
  <2>4. doubt' \in BOOLEAN
    BY <1>9 DEF Restart
  <2>5. uptime' \in Nat
    BY <1>0, <1>9 DEF Restart
  <2>3. req' \in [Handlers -> States]
    BY <1>9, StateFacts DEF Restart
  <2> QED
    BY <1>0, <1>9, <2>2, <2>3, <2>4, <2>5 DEF Restart, TypeOK, States, Verdicts
<1>10. CASE UNCHANGED vars
  BY <1>10 DEF vars, TypeOK
<1> QED
  BY <1>1, <1>3, <1>4, <1>5, <1>6, <1>7, <1>8, <1>9, <1>10 DEF Next, Refused

\* Clocks, counters and handlers keep their shapes.
THEOREM TypeCorrect == Spec => []TypeOK
<1>1. TypeOK /\ [Next]_vars => TypeOK'
  BY TypeStep
<1> QED
  BY <1>1, TypeInit, PTL DEF Spec

----------------------------------------------------------------------------
(* The row survives restarts.                                              *)

\* Unless an UPDATE was overtaken or lost, at most one is under way, and it
\* writes what memory holds.
SaveInv ==
  ~doubt => \/ InSave = {} /\ db = mem
            \/ \E h \in Handlers : InSave = {h} /\ req[h].counter = mem

\* A step that moves one handler, neither from nor to its UPDATE, leaves the set
\* of UPDATEs alone.
LEMMA SavesStay ==
  ASSUME TypeOK, NEW h \in Handlers, NEW s \in States,
         req' = [req EXCEPT ![h] = s], req[h].pc # "save", s.pc # "save"
  PROVE  InSave' = InSave /\ \A g \in InSave : req'[g] = req[g]
  BY DEF TypeOK, InSave

LEMMA SavesGrow ==
  ASSUME TypeOK, NEW h \in Handlers, NEW c \in Counter,
         req' = [req EXCEPT ![h] = SaveOf(c)]
  PROVE  InSave' = InSave \cup {h} /\ req'[h].counter = c
<1>1. req'[h] = SaveOf(c) /\ \A g \in Handlers \ {h} : req'[g] = req[g]
  BY DEF TypeOK
<1>2. SaveOf(c).pc = "save" /\ SaveOf(c).counter = c
  BY StateFacts
<1> QED
  BY <1>1, <1>2 DEF InSave

LEMMA SavesShrink ==
  ASSUME TypeOK, NEW h \in Handlers, req' = [req EXCEPT ![h] = Idle]
  PROVE  InSave' = InSave \ {h}
<1>1. req'[h] = Idle /\ \A g \in Handlers \ {h} : req'[g] = req[g]
  BY DEF TypeOK
<1> QED
  BY <1>1, StateFacts DEF InSave

LEMMA SaveStep ==
  ASSUME TypeOK, SaveInv, [Next]_vars
  PROVE  SaveInv'
<1>1. ASSUME NEW h \in Handlers, Attempt(h) \/ Malformed(h) PROVE SaveInv'
  <2>1. InSave' = InSave /\ \A g \in InSave : req'[g] = req[g]
    <3>1. PICK s \in {Idle, Verify} : req' = [req EXCEPT ![h] = s] /\ req[h].pc # "save"
      BY <1>1 DEF Attempt, Malformed
    <3>2. s \in States /\ s.pc # "save"
      BY <3>1, StateFacts
    <3> QED
      BY <3>1, <3>2, SavesStay
  <2>2. db' = db /\ mem' = mem /\ doubt' = doubt
    BY <1>1 DEF Attempt, Malformed
  <2> QED
    BY <2>1, <2>2 DEF SaveInv
<1>2. ASSUME NEW h \in Handlers, NEW c \in Counter, Store(h, c) PROVE SaveInv'
  <2>1. InSave' = InSave \cup {h} /\ req'[h].counter = c
    BY <1>2, SavesGrow DEF Store
  <2>2. mem' = c /\ (~doubt' => InSave = {})
    BY <1>2 DEF Store
  <2> QED
    BY <2>1, <2>2 DEF SaveInv
<1>3. ASSUME NEW h \in Handlers, RecordFailure(h) PROVE SaveInv'
  <2>1. PICK expired \in Expired : Store(h, NextCounter(expired))
    BY <1>3, RecordStores
  <2> QED
    BY <1>2, <2>1, NextCounterType
<1>4. ASSUME NEW h \in Handlers, Reset(h) PROVE SaveInv'
  <2>1. [failures |-> 0, start |-> wall] \in Counter
    BY CounterFacts, LoginLimiterAssumption DEF TypeOK, LoginLimiterAssumption
  <2> QED
    BY <1>2, <1>4, <2>1 DEF Reset
<1>5. ASSUME NEW h \in Handlers, SaveLands(h) PROVE SaveInv'
  <2>1. InSave' = InSave \ {h} /\ h \in InSave
    BY <1>5, SavesShrink DEF SaveLands, InSave
  <2>2. db' = req[h].counter /\ mem' = mem /\ doubt' = doubt
    BY <1>5 DEF SaveLands
  <2>3. ~doubt => InSave = {h} /\ req[h].counter = mem
    BY <2>1 DEF SaveInv
  <2> QED
    BY <2>1, <2>2, <2>3 DEF SaveInv
<1>6. ASSUME NEW h \in Handlers, SaveLost(h) PROVE SaveInv'
  BY <1>6 DEF SaveLost, SaveInv
<1>7. CASE Tick \/ SetBack \/ UNCHANGED vars
  <2>1. req' = req /\ db' = db /\ mem' = mem /\ doubt' = doubt
    BY <1>7 DEF Tick, SetBack, vars
  <2> QED
    BY <2>1 DEF SaveInv, InSave
<1>8. CASE Restart
  <2>1. InSave' = {}
    BY <1>8, StateFacts DEF Restart, InSave
  <2>2. ~doubt' => db' = mem'
    BY <1>8 DEF Restart, Loaded
  <2> QED
    BY <2>1, <2>2 DEF SaveInv
<1> QED
  BY <1>1, <1>3, <1>4, <1>5, <1>6, <1>7, <1>8 DEF Next, Refused

\* SurvivesRestart, for any number of handlers and any limits: once no UPDATE is
\* under way the row holds the counter, unless one was overtaken or lost.
THEOREM RowSurvivesRestart == Spec => []SurvivesRestart
<1>1. Init => TypeOK /\ SaveInv
  <2> SUFFICES ASSUME Init PROVE SaveInv
    BY TypeInit
  <2>1. InSave = {}
    BY StateFacts DEF Init, InSave
  <2> QED
    BY <2>1 DEF Init, SaveInv
<1>2. TypeOK /\ SaveInv /\ [Next]_vars => (TypeOK /\ SaveInv)'
  BY TypeStep, SaveStep
<1>3. TypeOK /\ SaveInv => SurvivesRestart
  BY DEF SaveInv, SurvivesRestart
<1> QED
  BY <1>1, <1>2, <1>3, PTL DEF Spec

\* One UPDATE at a time, and none that is lost, leaves no doubt about the row.
LEMMA NoDoubtStep ==
  ASSUME DbMayFail = FALSE, \A g, h \in Handlers : g = h, ~doubt, [Next]_vars
  PROVE  ~doubt'
<1>1. ASSUME NEW h \in Handlers, NEW c, req[h].pc = "verify", Store(h, c) PROVE ~doubt'
  <2>1. InSave = {}
    BY <1>1 DEF InSave
  <2> QED
    BY <1>1, <2>1 DEF Store
<1>2. ASSUME NEW h \in Handlers, RecordFailure(h) \/ Reset(h) PROVE ~doubt'
  BY <1>1, <1>2 DEF RecordFailure, Reset
<1>3. ASSUME NEW h \in Handlers,
             Refused(h) \/ Attempt(h) \/ Malformed(h) \/ SaveLands(h) \/ SaveLost(h)
      PROVE  ~doubt'
  BY <1>3 DEF Refused, Attempt, Malformed, SaveLands, SaveLost, vars
<1>4. ASSUME Tick \/ SetBack \/ Restart PROVE ~doubt'
  BY <1>4 DEF Tick, SetBack, Restart
<1>5. CASE UNCHANGED vars
  BY <1>5 DEF vars
<1> QED
  BY <1>2, <1>3, <1>4, <1>5 DEF Next

\* What the head of rate_limiter.rs says of every write is true of a server that handles
\* one attempt at a time on a database that does not fail.  (LoginLimiterSaves shows that
\* two attempts at once are enough to break it.)
THEOREM PersistedOneAtATime ==
  ASSUME DbMayFail = FALSE, \A g, h \in Handlers : g = h
  PROVE  Spec => []PersistedWhenQuiet
<1>1. Init => ~doubt
  BY DEF Init
<1>2. ~doubt /\ [Next]_vars => ~doubt'
  BY NoDoubtStep
<1>3. SurvivesRestart /\ ~doubt => PersistedWhenQuiet
  BY DEF SurvivesRestart, PersistedWhenQuiet
<1>4. Spec => []SurvivesRestart
  BY RowSurvivesRestart
<1> QED
  BY <1>1, <1>2, <1>3, <1>4, PTL DEF Spec

----------------------------------------------------------------------------
(* The age of the window.                                                  *)

LEMMA AgeIsNat == TypeOK => Age \in Nat
  BY LoginLimiterAssumption DEF TypeOK, Age, Counter, LoginLimiterAssumption

LEMMA LateIsExpired ==
  ASSUME TypeOK, Age > Window
  PROVE  Expired = {TRUE}
<1>1. Age # Window /\ (Age > Window) = TRUE
  BY AgeIsNat, LoginLimiterAssumption DEF LoginLimiterAssumption
<1> QED
  BY <1>1, Zenon DEF Expired

----------------------------------------------------------------------------
(* Nobody is locked out without a cause.                                   *)

\* Every failure a counter has counted was judged in its window: the k-th last of the
\* credentials judged is not older than the start.
Caused(c, now, judged) ==
  /\ c.start <= now
  /\ \A k \in 1..MaxAttempts : k <= c.failures => judged[k] # Never /\ judged[k] >= c.start

CauseInv ==
  setbacks = 0 =>
    /\ Caused(mem, wall, lately) /\ Caused(db, wall, lately)
    /\ \A h \in InSave : Caused(req[h].counter, wall, lately)
    /\ \A k \in 1..MaxAttempts : lately[k] <= wall
    /\ \A k \in 1..MaxAttempts : k > 1 => lately[k] <= lately[k - 1]

LEMMA CauseFacts ==
  ASSUME TypeOK
  PROVE  /\ wall \in Nat /\ setbacks \in Nat /\ MaxAttempts \in Nat /\ MaxAttempts >= 1
         /\ \A k \in 1..MaxAttempts : lately[k] \in Int /\ (lately[k] # Never => lately[k] \in Nat)
         /\ \A h \in InSave : req[h].counter \in Counter
<1>1. MaxClock \in Nat /\ MaxAttempts \in Nat /\ MaxAttempts >= 1
  BY LoginLimiterAssumption DEF LoginLimiterAssumption
<1>2. \A k \in 1..MaxAttempts : lately[k] \in 0..MaxClock \cup {Never}
  BY DEF TypeOK
<1>3. \A h \in InSave : req[h].counter \in Counter
  BY StateFacts DEF TypeOK, InSave, States
<1> QED
  BY <1>1, <1>2, <1>3 DEF TypeOK, Never

\* A new counter, which begins now, has no failures to account for.
LEMMA FreshIsCaused ==
  ASSUME TypeOK
  PROVE  Caused([failures |-> 0, start |-> wall], wall, lately)
  BY CauseFacts DEF Caused

\* Later seconds and verdicts leave a counter's causes.
LEMMA CausesStay ==
  ASSUME TypeOK, NEW c \in Counter, Caused(c, wall, lately),
         wall' \in Nat, wall' >= wall, lately' = lately
  PROVE  Caused(c, wall', lately')
<1>1. c.start \in Nat /\ wall \in Nat
  BY CounterFacts, CauseFacts
<1> QED
  BY <1>1 DEF Caused

LEMMA VerdictAdds ==
  ASSUME TypeOK, CauseInv, setbacks = 0, NEW h \in Handlers, RecordFailure(h)
  PROVE  /\ wall' = wall /\ lately'[1] = wall
         /\ \A k \in 1..MaxAttempts : k > 1 => lately'[k] = lately[k - 1] /\ k - 1 \in 1..MaxAttempts
         /\ \A k \in 1..MaxAttempts : /\ lately'[k] \in Int /\ lately'[k] >= lately[k]
                                      /\ lately[k] # Never => lately'[k] # Never
<1>1. /\ lately' = [k \in 1..MaxAttempts |-> IF k = 1 THEN wall ELSE lately[k - 1]]
      /\ wall' = wall
  BY DEF RecordFailure
<1>2. \A k \in 1..MaxAttempts : k > 1 => k - 1 \in 1..MaxAttempts
  BY CauseFacts
<1>3. lately'[1] = wall /\ \A k \in 1..MaxAttempts : k > 1 => lately'[k] = lately[k - 1]
  BY <1>1, CauseFacts
<1>4. ASSUME NEW k \in 1..MaxAttempts
      PROVE  /\ lately'[k] \in Int /\ lately'[k] >= lately[k]
             /\ lately[k] # Never => lately'[k] # Never
  <2>1. CASE k = 1
    BY <1>3, <2>1, CauseFacts DEF CauseInv, Never
  <2>2. CASE k > 1
    <3>1. lately'[k] = lately[k - 1] /\ k - 1 \in 1..MaxAttempts /\ lately[k] <= lately[k - 1]
      BY <1>2, <1>3, <2>2 DEF CauseInv
    <3>2. lately[k] # Never => lately[k] \in Nat
      BY CauseFacts
    <3> QED
      BY <3>1, <3>2, CauseFacts DEF Never
  <2> QED
    BY <2>1, <2>2
<1> QED
  BY <1>1, <1>2, <1>3, <1>4

LEMMA VerdictKeepsCauses ==
  ASSUME TypeOK, CauseInv, setbacks = 0, NEW h \in Handlers, RecordFailure(h),
         NEW c \in Counter, Caused(c, wall, lately)
  PROVE  Caused(c, wall', lately')
<1>1. c.start \in Nat /\ c.failures \in Nat
  BY CounterFacts
<1>2. ASSUME NEW k \in 1..MaxAttempts, k <= c.failures
      PROVE  lately'[k] # Never /\ lately'[k] >= c.start
  <2>1. lately[k] # Never /\ lately[k] >= c.start /\ lately[k] \in Int
    BY <1>2, CauseFacts DEF Caused
  <2>2. lately'[k] \in Int /\ lately'[k] >= lately[k] /\ lately'[k] # Never
    BY <2>1, VerdictAdds
  <2> QED
    BY <1>1, <2>1, <2>2
<1>3. c.start <= wall'
  BY VerdictAdds DEF Caused
<1> QED
  BY <1>2, <1>3 DEF Caused

\* The failure that is recorded is the last one judged.
LEMMA VerdictIsCaused ==
  ASSUME TypeOK, CauseInv, setbacks = 0, NEW h \in Handlers, RecordFailure(h), NEW expired
  PROVE  Caused(NextCounter(expired), wall', lately')
<1> DEFINE c == NextCounter(expired)
<1>1. /\ c \in Counter
      /\ c.failures = IF expired THEN 1 ELSE mem.failures + 1
      /\ c.start = IF expired THEN wall ELSE mem.start
  BY NextCounterType
<1>2. /\ mem.start \in Nat /\ mem.failures \in Nat /\ wall \in Nat
      /\ mem.start <= wall
  BY CounterFacts, CauseFacts DEF TypeOK, CauseInv, Caused
<1> HIDE DEF c
<1>3. PICK d \in Counter : d = c
  BY <1>1
<1>4. ASSUME NEW k \in 1..MaxAttempts, k <= d.failures
      PROVE  lately'[k] # Never /\ lately'[k] >= d.start
  <2>1. CASE k = 1
    BY <1>1, <1>2, <1>3, <2>1, VerdictAdds DEF Never
  <2>2. CASE k > 1
    <3>1. ~expired /\ k - 1 <= mem.failures /\ d.start = mem.start
      BY <1>1, <1>2, <1>3, <1>4, <2>2
    <3>2. lately'[k] = lately[k - 1] /\ k - 1 \in 1..MaxAttempts
      BY <2>2, VerdictAdds
    <3>3. lately[k - 1] # Never /\ lately[k - 1] >= mem.start
      BY <3>1, <3>2 DEF CauseInv, Caused
    <3> QED
      BY <3>1, <3>2, <3>3
  <2> QED
    BY <2>1, <2>2
<1>5. d.start <= wall'
  BY <1>1, <1>2, <1>3, VerdictAdds
<1>6. Caused(d, wall', lately')
  BY <1>4, <1>5 DEF Caused
<1> QED
  BY <1>3, <1>6 DEF c

LEMMA CauseStep ==
  ASSUME TypeOK, TypeOK', CauseInv, [Next]_vars
  PROVE  CauseInv'
<1> SUFFICES ASSUME setbacks' = 0 PROVE CauseInv'
  BY DEF CauseInv
<1>0. /\ mem \in Counter /\ db \in Counter /\ wall \in Nat
      /\ \A h \in InSave : req[h].counter \in Counter
  BY CauseFacts DEF TypeOK
<1>1. ASSUME setbacks = 0, wall' \in Nat, wall' >= wall, lately' = lately,
             NEW c \in Counter, Caused(c, wall', lately'), mem' = c,
             db' = db \/ \E h \in InSave : db' = req[h].counter,
             \A h \in InSave' : (h \in InSave /\ req'[h] = req[h]) \/ req'[h].counter = c
      PROVE  CauseInv'
  <2>1. \A d \in Counter : Caused(d, wall, lately) => Caused(d, wall', lately')
    BY <1>1, CausesStay
  <2>2. Caused(db', wall', lately')
    BY <1>0, <1>1, <2>1 DEF CauseInv
  <2>3. \A h \in InSave' : Caused(req'[h].counter, wall', lately')
    BY <1>0, <1>1, <2>1 DEF CauseInv
  <2>4. \A k \in 1..MaxAttempts : lately'[k] <= wall'
    BY <1>0, <1>1, CauseFacts DEF CauseInv
  <2>5. Caused(mem', wall', lately') /\ \A k \in 1..MaxAttempts : k > 1 => lately'[k] <= lately'[k - 1]
    BY <1>1 DEF CauseInv
  <2> QED
    BY <2>2, <2>3, <2>4, <2>5 DEF CauseInv
<1>2. ASSUME setbacks = 0, wall' \in Nat, wall' >= wall, lately' = lately, mem' = mem,
             db' = db \/ \E h \in InSave : db' = req[h].counter,
             \A h \in InSave' : h \in InSave /\ req'[h] = req[h]
      PROVE  CauseInv'
  <2>1. Caused(mem', wall', lately')
    BY <1>0, <1>2, CausesStay DEF CauseInv
  <2> QED
    BY <1>0, <1>1, <1>2, <2>1
<1>3. ASSUME NEW h \in Handlers, Attempt(h) \/ Malformed(h) PROVE CauseInv'
  <2>1. InSave' = InSave /\ \A g \in InSave : req'[g] = req[g]
    <3>1. PICK s \in {Idle, Verify} : req' = [req EXCEPT ![h] = s] /\ req[h].pc # "save"
      BY <1>3 DEF Attempt, Malformed
    <3>2. s \in States /\ s.pc # "save"
      BY <3>1, StateFacts
    <3> QED
      BY <3>1, <3>2, SavesStay
  <2>2. UNCHANGED <<setbacks, wall, lately, mem, db>>
    BY <1>3 DEF Attempt, Malformed
  <2> QED
    BY <1>0, <1>2, <2>1, <2>2
<1>4. ASSUME NEW h \in Handlers, RecordFailure(h) PROVE CauseInv'
  <2>0. setbacks = 0 /\ db' = db /\ wall' = wall
    BY <1>4 DEF RecordFailure
  <2>1. PICK expired \in Expired : Store(h, NextCounter(expired))
    BY <1>4, RecordStores
  <2>2. PICK c \in Counter : c = NextCounter(expired)
    BY NextCounterType
  <2>3. Caused(c, wall', lately')
    BY <1>4, <2>0, <2>2, VerdictIsCaused
  <2>4. InSave' = InSave \cup {h} /\ req'[h].counter = c /\ \A g \in Handlers \ {h} : req'[g] = req[g]
    BY <2>1, <2>2, SavesGrow DEF Store, TypeOK
  <2>5. \A d \in Counter : Caused(d, wall, lately) => Caused(d, wall', lately')
    BY <1>4, <2>0, VerdictKeepsCauses
  <2>6. \A g \in InSave' : Caused(req'[g].counter, wall', lately')
    <3> SUFFICES ASSUME NEW g \in InSave' PROVE Caused(req'[g].counter, wall', lately')
      OBVIOUS
    <3>1. CASE g = h
      BY <2>3, <2>4, <3>1
    <3>2. CASE g # h
      <4>1. g \in InSave /\ req'[g] = req[g]
        BY <2>4, <3>2 DEF InSave
      <4>2. Caused(req[g].counter, wall, lately) /\ req[g].counter \in Counter
        BY <1>0, <2>0, <4>1 DEF CauseInv
      <4>3. Caused(req[g].counter, wall', lately')
        BY <1>0, <2>5, <4>1, <4>2
      <4> QED
        BY <4>1, <4>3
    <3> QED
      BY <3>1, <3>2
  <2>7. \A k \in 1..MaxAttempts : lately'[k] <= wall'
    BY <1>4, <2>0, VerdictAdds, CauseFacts DEF CauseInv
  <2>8. ASSUME NEW k \in 1..MaxAttempts, k > 1 PROVE lately'[k] <= lately'[k - 1]
    <3>1. lately'[k] = lately[k - 1] /\ k - 1 \in 1..MaxAttempts
      BY <1>4, <2>0, <2>8, VerdictAdds
    <3> QED
      BY <1>4, <2>0, <3>1, VerdictAdds
  <2>9. Caused(mem', wall', lately') /\ Caused(db', wall', lately')
    BY <1>0, <2>0, <2>1, <2>2, <2>3, <2>5 DEF Store, CauseInv
  <2> QED
    BY <2>6, <2>7, <2>8, <2>9 DEF CauseInv
<1>5. ASSUME NEW h \in Handlers, Reset(h) PROVE CauseInv'
  <2>0. UNCHANGED <<setbacks, wall, lately, db>>
    BY <1>5 DEF Reset
  <2>1. PICK c \in Counter : c = [failures |-> 0, start |-> wall]
    BY <1>0, CounterFacts
  <2>2. Caused(c, wall', lately')
    <3>1. Caused(c, wall, lately)
      BY <2>1, FreshIsCaused
    <3> QED
      BY <1>0, <2>0, <3>1, CausesStay
  <2>3. Store(h, c)
    BY <1>5, <2>1 DEF Reset
  <2>4. InSave' = InSave \cup {h} /\ req'[h].counter = c /\ \A g \in Handlers \ {h} : req'[g] = req[g]
    BY <2>3, SavesGrow DEF Store, TypeOK
  <2>5. \A g \in InSave' : (g \in InSave /\ req'[g] = req[g]) \/ req'[g].counter = c
    BY <2>4 DEF InSave
  <2>6. mem' = c
    BY <2>3 DEF Store
  <2> QED
    BY <1>0, <1>1, <2>0, <2>2, <2>5, <2>6
<1>6. ASSUME NEW h \in Handlers, SaveLands(h) \/ SaveLost(h) PROVE CauseInv'
  <2>1. InSave' = InSave \ {h} /\ h \in InSave /\ \A g \in Handlers \ {h} : req'[g] = req[g]
    BY <1>6, SavesShrink DEF SaveLands, SaveLost, InSave, TypeOK
  <2>2. UNCHANGED <<setbacks, wall, lately, mem>> /\ (db' = db \/ db' = req[h].counter)
    BY <1>6 DEF SaveLands, SaveLost
  <2>3. \A g \in InSave' : g \in InSave /\ req'[g] = req[g]
    BY <2>1 DEF InSave
  <2> QED
    BY <1>0, <1>2, <2>1, <2>2, <2>3
<1>7. CASE Tick
  <2>1. UNCHANGED <<setbacks, lately, mem, db, req>> /\ wall' = wall + 1
    BY <1>7 DEF Tick
  <2>2. InSave' = InSave
    BY <2>1 DEF InSave
  <2> QED
    BY <1>0, <1>2, <2>1, <2>2
<1>8. CASE SetBack
  BY <1>8, CauseFacts DEF SetBack
<1>9. CASE Restart
  <2>0. UNCHANGED <<setbacks, wall, lately, db>>
    BY <1>9 DEF Restart
  <2>1. InSave' = {}
    BY <1>9, StateFacts DEF Restart, InSave
  <2>2. PICK c \in Counter : mem' = c /\ (c = db \/ c = [failures |-> 0, start |-> wall])
    BY <1>0, <1>9, CounterFacts DEF Restart, Loaded
  <2>3. Caused(c, wall, lately)
    BY <2>0, <2>2, FreshIsCaused DEF CauseInv
  <2>4. Caused(c, wall', lately')
    BY <1>0, <2>0, <2>3, CausesStay
  <2> QED
    BY <1>0, <1>1, <2>0, <2>1, <2>2, <2>4
<1>10. CASE UNCHANGED vars
  BY <1>10 DEF vars, CauseInv, Caused, InSave
<1> QED
  BY <1>3, <1>4, <1>5, <1>6, <1>7, <1>8, <1>9, <1>10 DEF Next, Refused

LEMMA CauseStart == Init => CauseInv
<1> SUFFICES ASSUME Init PROVE CauseInv
  OBVIOUS
<1>1. InSave = {}
  BY StateFacts DEF Init, InSave
<1>2. /\ wall = 0 /\ mem = db /\ mem.start = 0 /\ mem.failures = 0
      /\ \A k \in 1..MaxAttempts : lately[k] = Never
  BY DEF Init, NoVerdicts
<1>3. Caused(mem, wall, lately)
  BY <1>2 DEF Caused
<1>4. \A k \in 1..MaxAttempts : k > 1 => k - 1 \in 1..MaxAttempts
  BY LoginLimiterAssumption DEF LoginLimiterAssumption
<1> QED
  BY <1>1, <1>2, <1>3, <1>4 DEF CauseInv, Never

\* LockedOutForCause, for any limits, window and number of attempts, wherever an Instant can
\* lie before the boot of the machine: a login is refused only when as many wrong
\* credentials as the limit has were judged within the last window.
THEOREM LockoutsHaveCauses ==
  ASSUME InstantSigned = TRUE
  PROVE  Spec => []LockedOutForCause
<1>1. TypeOK /\ CauseInv => LockedOutForCause
  <2> SUFFICES ASSUME TypeOK, CauseInv, setbacks = 0, FALSE \in Expired, mem.failures >= MaxAttempts
               PROVE  lately[MaxAttempts] # Never /\ wall - lately[MaxAttempts] <= Window
    BY DEF LockedOutForCause, CanBlock
  <2>1. wall \in Nat /\ mem.start \in Nat /\ Window \in Nat
    BY LoginLimiterAssumption DEF TypeOK, Counter, LoginLimiterAssumption
  <2>2. wall - mem.start <= Window
    <3>1. ~(Age > Window)
      BY LateIsExpired
    <3> QED
      BY <2>1, <3>1, AgeIsNat DEF Age
  <2>3. MaxAttempts \in 1..MaxAttempts
    BY CauseFacts
  <2>4. lately[MaxAttempts] # Never /\ lately[MaxAttempts] >= mem.start /\ lately[MaxAttempts] \in Int
    BY <2>3, CauseFacts DEF CauseInv, Caused
  <2> QED
    BY <2>1, <2>2, <2>4
<1>2. TypeOK /\ CauseInv /\ [Next]_vars => (TypeOK /\ CauseInv)'
  BY TypeStep, CauseStep
<1> QED
  BY <1>1, <1>2, TypeInit, CauseStart, PTL DEF Spec

----------------------------------------------------------------------------
(* The count never runs away.                                              *)

Verifiers == Cardinality(InVerify)

\* Whoever is past the check may still be counted: the limit leaves room for all
\* of them as long as their failures go to the present window.
Bounded ==
  /\ FailuresBounded
  /\ Verifiers <= Workers
  /\ Age <= Window => mem.failures + Verifiers <= MostFailures

LEMMA VerifiersFinite == IsFiniteSet(InVerify) /\ Verifiers \in Nat
<1>1. IsFiniteSet(InVerify)
  BY FS_Subset, LoginLimiterAssumption DEF LoginLimiterAssumption, InVerify
<1> QED
  BY <1>1, FS_CardinalityType DEF Verifiers

LEMMA VerifierEnters ==
  ASSUME TypeOK, NEW h \in Handlers, req[h].pc = "idle", req' = [req EXCEPT ![h] = Verify]
  PROVE  Verifiers' = Verifiers + 1
<1>1. req'[h] = Verify /\ \A g \in Handlers \ {h} : req'[g] = req[g]
  BY DEF TypeOK
<1>2. InVerify' = InVerify \cup {h} /\ h \notin InVerify
  BY <1>1, StateFacts DEF InVerify
<1> QED
  BY <1>2, VerifiersFinite, FS_AddElement DEF Verifiers

LEMMA VerifierLeaves ==
  ASSUME TypeOK, NEW h \in Handlers, req[h].pc = "verify",
         NEW s \in States, s.pc # "verify", req' = [req EXCEPT ![h] = s]
  PROVE  Verifiers' = Verifiers - 1 /\ Verifiers >= 1
<1>1. req'[h] = s /\ \A g \in Handlers \ {h} : req'[g] = req[g]
  BY DEF TypeOK
<1>2. InVerify' = InVerify \ {h} /\ h \in InVerify
  BY <1>1 DEF InVerify
<1>3. Verifiers' = Verifiers - 1
  BY <1>2, VerifiersFinite, FS_RemoveElement DEF Verifiers
<1>4. Verifiers' \in Nat
  <2>1. IsFiniteSet(InVerify')
    BY <1>2, VerifiersFinite, FS_RemoveElement
  <2> QED
    BY <2>1, FS_CardinalityType DEF Verifiers
<1> QED
  BY <1>3, <1>4, VerifiersFinite

\* The bound, and how far a clock that is set back raises it.
LEMMA MostFacts ==
  ASSUME TypeOK
  PROVE  MostFailures \in Nat /\ MostFailures >= MaxAttempts + Workers - 1
<1>1. setbacks \in Nat /\ Workers \in Nat /\ MaxAttempts \in Nat /\ MaxAttempts >= 1
  BY LoginLimiterAssumption DEF TypeOK, LoginLimiterAssumption
<1>2. setbacks * Workers \in Nat
  BY <1>1
<1> QED
  BY <1>1, <1>2 DEF MostFailures

LEMMA SetBackRaises ==
  ASSUME TypeOK, setbacks' = setbacks + 1
  PROVE  MostFailures' = MostFailures + Workers
<1>1. setbacks \in Nat /\ Workers \in Nat /\ MaxAttempts \in Nat
  BY LoginLimiterAssumption DEF TypeOK, LoginLimiterAssumption
<1>2. (setbacks + 1) * Workers = setbacks * Workers + Workers /\ setbacks * Workers \in Nat
  BY <1>1
<1> QED
  BY <1>1, <1>2 DEF MostFailures

\* An expired window stays expired while the clocks move on.
LEMMA AgeGrows ==
  ASSUME TypeOK, Tick, Age' <= Window
  PROVE  Age <= Window
<1>1. wall \in Nat /\ uptime \in Nat /\ mem.start \in Nat /\ Window \in Nat
  BY LoginLimiterAssumption DEF TypeOK, Counter, LoginLimiterAssumption
<1>2. wall' = wall + 1 /\ uptime' = uptime + 1 /\ mem' = mem
  BY DEF Tick
<1> QED
  BY <1>1, <1>2 DEF Age

LEMMA TimelyIsNotExpired ==
  ASSUME TypeOK, CoarseClock = FALSE, Age <= Window
  PROVE  Expired = {FALSE}
<1>1. (Age > Window) = FALSE
  BY AgeIsNat, LoginLimiterAssumption DEF LoginLimiterAssumption
<1> QED
  BY <1>1, Zenon DEF Expired

LEMMA BoundedStart == Init => Bounded
<1> SUFFICES ASSUME Init PROVE Bounded
  OBVIOUS
<1>1. InSave = {} /\ InVerify = {} /\ mem.failures = 0 /\ db.failures = 0
  BY StateFacts DEF Init, InSave, InVerify
<1>2. Verifiers = 0
  BY <1>1, FS_EmptySet DEF Verifiers
<1>3. MostFailures \in Nat /\ Workers \in Nat
  BY TypeInit, MostFacts, LoginLimiterAssumption DEF LoginLimiterAssumption
<1> QED
  BY <1>1, <1>2, <1>3 DEF Bounded, FailuresBounded

\* What a verdict stores stays within the bound, and the room that is left is
\* what the others past the check may still need.
LEMMA BoundedStore ==
  ASSUME TypeOK, Bounded, NEW h \in Handlers, NEW c \in Counter,
         req[h].pc = "verify", Store(h, c), UNCHANGED <<clocks, db>>,
         \/ c.failures <= 1
         \/ Age <= Window /\ c.failures = mem.failures + 1 /\ c.start = mem.start
  PROVE  Bounded'
<1>1. Verifiers' = Verifiers - 1 /\ Verifiers >= 1 /\ Verifiers \in Nat
  BY VerifierLeaves, VerifiersFinite, StateFacts DEF Store
<1>2. /\ mem.failures \in Nat /\ c.failures \in Nat /\ Workers \in Nat
      /\ MaxAttempts \in Nat /\ MaxAttempts >= 1
      /\ MostFailures \in Nat /\ MostFailures >= MaxAttempts + Workers - 1
      /\ Verifiers <= Workers
      /\ Age <= Window => mem.failures + Verifiers <= MostFailures
  BY MostFacts, LoginLimiterAssumption DEF TypeOK, Counter, LoginLimiterAssumption, Bounded
<1>3. c.failures <= MostFailures /\ c.failures + Verifiers' <= MostFailures
  BY <1>1, <1>2
<1>4. MostFailures' = MostFailures /\ mem' = c /\ db' = db
  BY DEF MostFailures, Store
<1>5. InSave' = InSave \cup {h} /\ req'[h].counter = c /\ \A g \in Handlers \ {h} : req'[g] = req[g]
  BY SavesGrow DEF Store, TypeOK
<1>6. FailuresBounded'
  <2>1. mem'.failures <= MostFailures' /\ db'.failures <= MostFailures'
    BY <1>3, <1>4 DEF Bounded, FailuresBounded
  <2>2. ASSUME NEW g \in InSave' PROVE req'[g].counter.failures <= MostFailures'
    <3>1. CASE g = h
      BY <1>3, <1>4, <1>5, <3>1
    <3>2. CASE g # h
      <4>1. g \in InSave /\ req'[g] = req[g]
        BY <1>5, <2>2, <3>2 DEF InSave
      <4> QED
        BY <1>4, <4>1 DEF Bounded, FailuresBounded
    <3> QED
      BY <3>1, <3>2
  <2> QED
    BY <2>1, <2>2 DEF FailuresBounded
<1> QED
  BY <1>1, <1>2, <1>3, <1>4, <1>6 DEF Bounded

LEMMA BoundedStep ==
  ASSUME CoarseClock = FALSE, TypeOK, Bounded, [Next]_vars
  PROVE  Bounded'
<1>0. /\ mem.failures \in Nat /\ Verifiers \in Nat /\ Workers \in Nat
      /\ MaxAttempts \in Nat /\ MaxAttempts >= 1 /\ Window \in Nat /\ wall \in Nat
      /\ MostFailures \in Nat /\ MostFailures >= MaxAttempts + Workers - 1
      /\ Age \in Nat
  BY MostFacts, VerifiersFinite, AgeIsNat, LoginLimiterAssumption
  DEF TypeOK, Counter, LoginLimiterAssumption
<1>1. ASSUME NEW h \in Handlers, Attempt(h) PROVE Bounded'
  <2>1. Verifiers' = Verifiers + 1
    BY <1>1, VerifierEnters DEF Attempt
  <2>2. Verifiers < Workers
    BY <1>1 DEF Attempt, Verifiers
  <2>3. InSave' = InSave /\ \A g \in InSave : req'[g] = req[g]
    BY <1>1, SavesStay, StateFacts DEF Attempt
  <2>4. mem' = mem /\ db' = db /\ Age' = Age /\ MostFailures' = MostFailures
    BY <1>1 DEF Attempt, Age, MostFailures
  <2>5. Age <= Window => mem.failures < MaxAttempts
    BY <1>1, TimelyIsNotExpired DEF Attempt, CanPass
  <2>6. FailuresBounded'
    BY <2>3, <2>4 DEF Bounded, FailuresBounded
  <2> QED
    BY <1>0, <2>1, <2>2, <2>4, <2>5, <2>6 DEF Bounded
<1>2. ASSUME NEW h \in Handlers, Malformed(h) PROVE Bounded'
  <2>1. Verifiers' = Verifiers - 1
    BY <1>2, VerifierLeaves, StateFacts DEF Malformed
  <2>2. InSave' = InSave /\ \A g \in InSave : req'[g] = req[g]
    BY <1>2, SavesStay, StateFacts DEF Malformed
  <2>3. mem' = mem /\ db' = db /\ Age' = Age /\ MostFailures' = MostFailures
    BY <1>2 DEF Malformed, Age, MostFailures
  <2>4. FailuresBounded'
    BY <2>2, <2>3 DEF Bounded, FailuresBounded
  <2> QED
    BY <1>0, <2>1, <2>3, <2>4 DEF Bounded
<1>3. ASSUME NEW h \in Handlers, RecordFailure(h) PROVE Bounded'
  <2>1. PICK expired \in Expired : Store(h, NextCounter(expired))
    BY <1>3, RecordStores
  <2>2. /\ NextCounter(expired) \in Counter
        /\ NextCounter(expired).failures = IF expired THEN 1 ELSE mem.failures + 1
        /\ NextCounter(expired).start = IF expired THEN wall ELSE mem.start
    BY NextCounterType
  <2>3. CASE expired
    <3>1. NextCounter(expired).failures <= 1
      BY <2>2, <2>3
    <3> QED
      BY <1>3, <2>1, <2>2, <3>1, BoundedStore DEF RecordFailure
  <2>4. CASE ~expired
    <3>1. Age <= Window
      <4>1. Age > Window => expired = TRUE
        BY <2>1, LateIsExpired
      <4>2. ~(Age > Window)
        BY <2>4, <4>1
      <4> QED
        BY <1>0, <4>2
    <3> QED
      BY <1>3, <2>1, <2>2, <2>4, <3>1, BoundedStore DEF RecordFailure
  <2> QED
    BY <2>3, <2>4
<1>4. ASSUME NEW h \in Handlers, Reset(h) PROVE Bounded'
  <2>1. [failures |-> 0, start |-> wall] \in Counter
    BY <1>0, CounterFacts
  <2> QED
    BY <1>4, <2>1, BoundedStore DEF Reset
<1>5. ASSUME NEW h \in Handlers, SaveLands(h) \/ SaveLost(h) PROVE Bounded'
  <2>1. InSave' = InSave \ {h} /\ h \in InSave /\ \A g \in Handlers \ {h} : req'[g] = req[g]
    BY <1>5, SavesShrink DEF SaveLands, SaveLost, InSave, TypeOK
  <2>2. InVerify' = InVerify
    <3>1. req'[h] = Idle /\ req[h].pc = "save"
      BY <1>5 DEF SaveLands, SaveLost, TypeOK
    <3> QED
      BY <2>1, <3>1, StateFacts DEF InVerify
  <2>3. mem' = mem /\ Age' = Age /\ MostFailures' = MostFailures
    BY <1>5 DEF SaveLands, SaveLost, Age, MostFailures
  <2>4. db' = db \/ db' = req[h].counter
    BY <1>5 DEF SaveLands, SaveLost
  <2>5. FailuresBounded'
    BY <2>1, <2>3, <2>4 DEF Bounded, FailuresBounded, InSave
  <2> QED
    BY <2>2, <2>3, <2>5 DEF Bounded, Verifiers
<1>6. CASE Tick
  <2>1. mem' = mem /\ db' = db /\ req' = req /\ MostFailures' = MostFailures
    BY <1>6 DEF Tick, MostFailures
  <2>2. InVerify' = InVerify /\ InSave' = InSave
    BY <2>1 DEF InVerify, InSave
  <2>3. FailuresBounded'
    BY <2>1, <2>2 DEF Bounded, FailuresBounded
  <2> QED
    BY <1>6, <2>1, <2>2, <2>3, AgeGrows DEF Bounded, Verifiers
<1>7. CASE SetBack
  <2>1. mem' = mem /\ db' = db /\ req' = req /\ MostFailures' = MostFailures + Workers
    BY <1>7, SetBackRaises DEF SetBack
  <2>2. InVerify' = InVerify /\ InSave' = InSave
    BY <2>1 DEF InVerify, InSave
  <2>3. db.failures \in Nat /\ \A g \in InSave : req[g].counter.failures \in Nat
    BY StateFacts, CounterFacts DEF TypeOK, InSave, States
  <2>4. FailuresBounded'
    BY <1>0, <2>1, <2>2, <2>3 DEF Bounded, FailuresBounded
  <2>5. Verifiers' = Verifiers /\ mem.failures <= MostFailures
    BY <2>2 DEF Verifiers, Bounded, FailuresBounded
  <2> QED
    BY <1>0, <2>1, <2>4, <2>5 DEF Bounded
<1>8. CASE Restart
  <2>1. InSave' = {} /\ InVerify' = {}
    BY <1>8, StateFacts DEF Restart, InSave, InVerify
  <2>2. Verifiers' = 0
    BY <2>1, FS_EmptySet DEF Verifiers
  <2>3. MostFailures' = MostFailures /\ db' = db
    BY <1>8 DEF Restart, MostFailures
  <2>4. mem'.failures \in Nat /\ mem'.failures <= MostFailures
    BY <1>0, <1>8, CounterFacts DEF Restart, Loaded, Bounded, FailuresBounded, TypeOK
  <2>5. FailuresBounded'
    BY <2>1, <2>3, <2>4 DEF Bounded, FailuresBounded
  <2> QED
    BY <1>0, <2>2, <2>3, <2>4, <2>5 DEF Bounded
<1>9. CASE UNCHANGED vars
  BY <1>9 DEF vars, Bounded, FailuresBounded, Verifiers, InVerify, InSave, Age, MostFailures
<1> QED
  BY <1>1, <1>2, <1>3, <1>4, <1>5, <1>6, <1>7, <1>8, <1>9 DEF Next, Refused

\* FailuresBounded, for any limits and any number of handlers and worker threads,
\* when two readings of the clock differ: the count goes past the limit by those
\* past the check, and by them again each time the wall clock is set back.
THEOREM FailuresStayBounded ==
  ASSUME CoarseClock = FALSE
  PROVE  Spec => []FailuresBounded
<1>1. TypeOK /\ Bounded /\ [Next]_vars => (TypeOK /\ Bounded)'
  BY TypeStep, BoundedStep
<1>2. Bounded => FailuresBounded
  BY DEF Bounded
<1> QED
  BY <1>1, <1>2, TypeInit, BoundedStart, PTL DEF Spec

----------------------------------------------------------------------------
(* How many wrong credentials are judged within a window.                  *)

Seconds == 0..MaxClock

Count(S) == Cardinality(Judged(S))

LEMMA JudgedFinite ==
  ASSUME TypeOK, NEW S \in SUBSET Seconds
  PROVE  IsFiniteSet(Judged(S))
<1> DEFINE In(u) == {u} \X (1..guesses[u])
           Parts == {In(u) : u \in S}
           part == [u \in S |-> In(u)]
<1>1. IsFiniteSet(S)
  <2>1. IsFiniteSet(Seconds)
    BY FS_Interval, LoginLimiterAssumption DEF Seconds, LoginLimiterAssumption
  <2> QED
    BY <2>1, FS_Subset
<1>2. \A u \in S : IsFiniteSet(In(u))
  <2> SUFFICES ASSUME NEW u \in S PROVE IsFiniteSet(In(u))
    OBVIOUS
  <2>1. guesses[u] \in Nat
    BY DEF TypeOK, Seconds
  <2>2. IsFiniteSet(1..guesses[u])
    <3>1. 1 \in Int /\ guesses[u] \in Int
      BY <2>1
    <3> QED
      BY <3>1, FS_Interval
  <2>3. IsFiniteSet({u})
    BY FS_Singleton
  <2> QED
    BY <2>2, <2>3, FS_Product
<1> HIDE DEF In
<1>3. part \in Surjection(S, Parts)
  BY DEF Surjection
<1> HIDE DEF part
<1>4. IsFiniteSet(Parts)
  BY <1>1, <1>3, FS_Surjection
<1>5. \A P \in Parts : IsFiniteSet(P)
  BY <1>2
<1>6. IsFiniteSet(UNION Parts)
  BY <1>4, <1>5, FS_UNION
<1> QED
  BY <1>6 DEF Judged, In

LEMMA CountFacts ==
  ASSUME TypeOK, NEW S \in SUBSET Seconds, NEW T \in SUBSET Seconds
  PROVE  /\ Count(S) \in Nat
         /\ S \subseteq T => Count(S) <= Count(T)
         /\ Count(S \cup T) <= Count(S) + Count(T)
<1>1. IsFiniteSet(Judged(S)) /\ IsFiniteSet(Judged(T))
  BY JudgedFinite
<1>2. Count(S) \in Nat /\ Count(T) \in Nat
  BY <1>1, FS_CardinalityType DEF Count
<1>3. S \subseteq T => Judged(S) \subseteq Judged(T)
  BY DEF Judged
<1>4. S \subseteq T => Count(S) <= Count(T)
  BY <1>1, <1>3, FS_Subset DEF Count
<1>5. Judged(S \cup T) = Judged(S) \cup Judged(T)
  BY DEF Judged
<1>6. Count(S \cup T) <= Count(S) + Count(T)
  <2> DEFINE both == Cardinality(Judged(S) \cap Judged(T))
  <2>1. both \in Nat
    BY <1>1, FS_Intersection, FS_CardinalityType
  <2>2. Cardinality(Judged(S) \cup Judged(T)) = Count(S) + Count(T) - both
    BY <1>1, FS_Union DEF Count
  <2>3. Count(S \cup T) = Count(S) + Count(T) - both
    BY <1>5, <2>2 DEF Count
  <2> HIDE DEF both
  <2> QED
    BY <1>2, <2>1, <2>3
<1> QED
  BY <1>2, <1>4, <1>6

LEMMA CountZero ==
  ASSUME NEW S, \A u \in S : guesses[u] = 0
  PROVE  Count(S) = 0
<1>1. Judged(S) = {}
  BY DEF Judged
<1> QED
  BY <1>1, FS_EmptySet DEF Count

\* One more wrong credential is one more in every set that has its second.
LEMMA CountAdds ==
  ASSUME TypeOK, NEW S \in SUBSET Seconds, NEW w \in Seconds,
         guesses' = [guesses EXCEPT ![w] = @ + 1]
  PROVE  Count(S)' = IF w \in S THEN Count(S) + 1 ELSE Count(S)
<1> DEFINE more == guesses[w] + 1
<1>1. /\ guesses[w] \in Nat /\ guesses'[w] = more
      /\ \A u \in Seconds \ {w} : guesses'[u] = guesses[u]
  BY DEF TypeOK, Seconds
<1>2. CASE w \notin S
  <2>1. \A u \in S : guesses'[u] = guesses[u]
    BY <1>1, <1>2
  <2>2. Judged(S)' = Judged(S)
    BY <2>1 DEF Judged
  <2> QED
    BY <1>2, <2>2 DEF Count
<1>3. CASE w \in S
  <2>1. 1..more = (1..guesses[w]) \cup {more}
    BY <1>1
  <2>2. Judged(S)' = Judged(S) \cup {<<w, more>>}
    <3> HIDE DEF more
    <3>1. Judged(S)' = UNION {{u} \X (1..guesses'[u]) : u \in S}
      BY DEF Judged
    <3>2. ASSUME NEW p PROVE p \in Judged(S)' <=> p \in Judged(S) \cup {<<w, more>>}
      <4>1. p \in Judged(S)' <=> \E u \in S : \E k \in 1..guesses'[u] : p = <<u, k>>
        BY <3>1
      <4>2. p \in Judged(S) <=> \E u \in S : \E k \in 1..guesses[u] : p = <<u, k>>
        BY DEF Judged
      <4> QED
        BY <1>1, <1>3, <2>1, <4>1, <4>2
    <3> QED
      BY <3>2
  <2>3. <<w, more>> \notin Judged(S)
    <3>1. \A u \in S : <<w, more>> \in {u} \X (1..guesses[u]) => more \in 1..guesses[w]
      OBVIOUS
    <3>2. more \notin 1..guesses[w]
      BY <1>1
    <3> QED
      BY <3>1, <3>2 DEF Judged
  <2> QED
    BY <1>3, <2>2, <2>3, JudgedFinite, FS_AddElement DEF Count
<1> QED
  BY <1>2, <1>3

\* The window of a count is over, and yet it does not count as over: its start lies
\* before the boot of the machine, where no Instant can be.
Stuck == ~InstantSigned /\ wall - mem.start > uptime

Span(t) == {u \in t..(t + Window) : u <= MaxClock}

From(b) == {u \in Seconds : u >= b}

Before(t, b) == {u \in Span(t) : u < b}

\* Second b splits the guesses: those from it on are in the present count, and its
\* window has them all; of those before it, no window that reaches b has more than
\* one count allows.
Splits(b) ==
  /\ b = 0 \/ b = mem.start
  /\ Count(From(b)) <= mem.failures
  /\ \A u \in From(b) : guesses[u] > 0 => Stuck \/ u <= mem.start + Window
  /\ \A t \in Seconds : t + Window >= b => Count(Before(t, b)) <= MostFailures

RateInv ==
  /\ \A u \in Seconds : u > wall => guesses[u] = 0
  /\ \E b \in 0..wall : Splits(b)
  /\ GuessRate

LEMMA RateNumbers ==
  ASSUME TypeOK
  PROVE  /\ wall \in Seconds /\ wall \in Nat /\ Seconds \subseteq Nat /\ MaxClock \in Nat
         /\ mem.start \in Nat /\ mem.failures \in Nat /\ uptime \in Nat
         /\ Window \in Nat /\ Window > 0 /\ Age \in Nat
         /\ MostFailures \in Nat /\ MostFailures >= 1
         /\ \A u \in Seconds : guesses[u] \in Nat
<1>1. MostFailures \in Nat /\ MostFailures >= 1
  BY MostFacts, LoginLimiterAssumption DEF LoginLimiterAssumption
<1> QED
  BY <1>1, AgeIsNat, LoginLimiterAssumption DEF TypeOK, Counter, Seconds, LoginLimiterAssumption

LEMMA Pieces ==
  ASSUME TypeOK, NEW t \in Seconds, NEW b \in Nat
  PROVE  /\ Span(t) \in SUBSET Seconds /\ From(b) \in SUBSET Seconds /\ Before(t, b) \in SUBSET Seconds
         /\ Span(t) \subseteq Before(t, b) \cup From(b)
         /\ GuessesFrom(t) = Count(Span(t))
<1>1. \A u \in Span(t) : u \in Seconds
  BY RateNumbers DEF Span, Seconds
<1>2. Span(t) \subseteq Before(t, b) \cup From(b)
  BY <1>1, RateNumbers DEF Before, From
<1> QED
  BY <1>1, <1>2 DEF From, Before, Span, GuessesFrom, Count

LEMMA SpanSplit ==
  ASSUME TypeOK, NEW t \in Seconds, NEW b \in Nat
  PROVE  Count(Span(t)) <= Count(Before(t, b)) + Count(From(b))
<1>1. Before(t, b) \cup From(b) \in SUBSET Seconds
  BY Pieces
<1>2. Count(Span(t)) <= Count(Before(t, b) \cup From(b))
  BY <1>1, Pieces, CountFacts
<1>3. Count(Before(t, b) \cup From(b)) <= Count(Before(t, b)) + Count(From(b))
  BY Pieces, CountFacts
<1>4. /\ Count(Span(t)) \in Nat /\ Count(Before(t, b) \cup From(b)) \in Nat
      /\ Count(Before(t, b)) \in Nat /\ Count(From(b)) \in Nat
  BY <1>1, Pieces, CountFacts
<1> QED
  BY <1>2, <1>3, <1>4

\* Nothing has been judged since the history was cleared.
LEMMA CleanRate ==
  ASSUME TypeOK, TypeOK', guesses' = NoGuesses
  PROVE  RateInv'
<1>1. /\ wall' \in Nat /\ mem'.failures \in Nat
  BY LoginLimiterAssumption DEF TypeOK, Counter, LoginLimiterAssumption
<1>2. MostFailures' \in Nat
  <2>1. /\ setbacks' \in Nat /\ Workers \in Nat /\ MaxAttempts \in Nat /\ MaxAttempts >= 1
    BY LoginLimiterAssumption DEF TypeOK, LoginLimiterAssumption
  <2>2. \A m, n \in Nat : m * n \in Nat
    OBVIOUS
  <2>3. setbacks' * Workers \in Nat
    BY <2>1, <2>2
  <2>4. \A m \in Nat : MaxAttempts + Workers - 1 + m \in Nat
    BY <2>1
  <2> QED
    BY <2>3, <2>4 DEF MostFailures
<1>3. ASSUME NEW S \in SUBSET Seconds PROVE Count(S)' = 0
  <2>1. \A u \in S : guesses'[u] = 0
    BY DEF NoGuesses, Seconds
  <2>2. Judged(S)' = {}
    BY <2>1 DEF Judged
  <2> QED
    BY <2>2, FS_EmptySet DEF Count
<1>4. \A t \in Seconds : Span(t) \in SUBSET Seconds /\ Before(t, 0) \in SUBSET Seconds /\ From(0) \in SUBSET Seconds
  BY Pieces
<1>5. Splits(0)'
  BY <1>1, <1>2, <1>3, <1>4 DEF Splits, NoGuesses, Seconds, From
<1>6. GuessRate'
  BY <1>2, <1>3, <1>4 DEF GuessRate, GuessesFrom, Count, Span, Seconds
<1> QED
  BY <1>1, <1>5, <1>6 DEF RateInv, NoGuesses, Seconds

LEMMA TickKeepsRate ==
  ASSUME TypeOK, RateInv, Tick
  PROVE  RateInv'
<1>1. /\ wall' = wall + 1 /\ uptime' = uptime + 1
      /\ mem' = mem /\ guesses' = guesses /\ MostFailures' = MostFailures
  BY DEF Tick, MostFailures
<1>2. \A S : Count(S)' = Count(S)
  BY <1>1 DEF Count, Judged
<1>3. Stuck' <=> Stuck
  BY <1>1, RateNumbers DEF Stuck
<1>4. GuessRate'
  BY <1>1 DEF RateInv, GuessRate, GuessesFrom, Judged
<1>5. ASSUME NEW b \in 0..wall, Splits(b) PROVE b \in 0..wall' /\ Splits(b)'
  <2>1. b \in 0..wall'
    BY <1>1, RateNumbers
  <2>2. \A t \in Seconds : t + Window >= b => Count(Before(t, b))' <= MostFailures'
    BY <1>1, <1>2, <1>5 DEF Splits, Before, Span
  <2>3. Count(From(b))' <= mem'.failures
    BY <1>1, <1>2, <1>5 DEF Splits
  <2> QED
    BY <1>1, <1>3, <1>5, <2>1, <2>2, <2>3 DEF Splits
<1>6. \A u \in Seconds : u > wall' => guesses'[u] = 0
  BY <1>1, RateNumbers DEF RateInv
<1> QED
  BY <1>4, <1>5, <1>6 DEF RateInv

LEMMA QuietKeepsRate ==
  ASSUME RateInv, UNCHANGED <<wall, uptime, mem, guesses, setbacks>>
  PROVE  RateInv'
<1>1. MostFailures' = MostFailures /\ (Stuck' <=> Stuck)
  BY DEF MostFailures, Stuck
<1>2. \A S : Count(S)' = Count(S)
  BY DEF Count, Judged
<1>3. \A b : Splits(b)' <=> Splits(b)
  BY <1>1, <1>2 DEF Splits, Before, Span
<1>4. GuessRate'
  BY <1>1 DEF RateInv, GuessRate, GuessesFrom, Judged
<1> QED
  BY <1>3, <1>4 DEF RateInv

\* A wrong credential at second wall, in whichever window.
LEMMA GuessCounted ==
  ASSUME TypeOK, NEW S \in SUBSET Seconds, guesses' = [guesses EXCEPT ![wall] = @ + 1]
  PROVE  /\ Count(S)' = IF wall \in S THEN Count(S) + 1 ELSE Count(S)
         /\ \A u \in Seconds \ {wall} : guesses'[u] = guesses[u]
         /\ Count(S) \in Nat
<1>1. wall \in Seconds
  BY RateNumbers
<1>2. \A u \in Seconds \ {wall} : guesses'[u] = guesses[u]
  BY DEF TypeOK, Seconds
<1> QED
  BY <1>1, <1>2, CountAdds, CountFacts

\* The count goes on: the second that splits the guesses stays.
LEMMA SameCountKeepsRate ==
  ASSUME TypeOK, RateInv, NEW b \in 0..wall, Splits(b),
         guesses' = [guesses EXCEPT ![wall] = @ + 1], UNCHANGED clocks,
         mem'.start = mem.start, mem'.failures = mem.failures + 1, mem'.failures <= MostFailures,
         Age <= Window
  PROVE  RateInv'
<1>1. /\ wall' = wall /\ MostFailures' = MostFailures /\ (Stuck' <=> Stuck)
  BY DEF MostFailures, Stuck
<1>2. b \in Nat /\ wall >= b /\ wall \in From(b)
  BY RateNumbers DEF From
<1>3. Stuck \/ wall <= mem.start + Window
  BY RateNumbers DEF Stuck, Age
<1>4. Count(From(b))' = Count(From(b)) + 1 /\ Count(From(b)) \in Nat
  BY <1>2, Pieces, RateNumbers, GuessCounted
<1>5. \A t \in Seconds : Count(Before(t, b))' = Count(Before(t, b)) /\ Count(Before(t, b)) \in Nat
  <2> SUFFICES ASSUME NEW t \in Seconds
               PROVE  Count(Before(t, b))' = Count(Before(t, b)) /\ Count(Before(t, b)) \in Nat
    OBVIOUS
  <2>1. wall \notin Before(t, b)
    BY <1>2, RateNumbers DEF Before
  <2> QED
    BY <1>2, <2>1, Pieces, GuessCounted
<1>6. Splits(b)'
  <2>1. \A u \in From(b) : guesses'[u] > 0 => Stuck \/ u <= mem.start + Window
    <3>1. \A u \in From(b) : u = wall \/ guesses'[u] = guesses[u]
      BY <1>2, Pieces, RateNumbers, GuessCounted DEF From
    <3> QED
      BY <1>3, <3>1 DEF Splits
  <2>2. Count(From(b))' <= mem'.failures
    BY <1>4, RateNumbers DEF Splits
  <2> QED
    BY <1>1, <1>5, <2>1, <2>2 DEF Splits
<1>7. ASSUME NEW t \in Seconds PROVE Count(Span(t))' <= 2 * MostFailures
  <2>1. Count(Span(t)) \in Nat /\ Count(Span(t))' = IF wall \in Span(t) THEN Count(Span(t)) + 1 ELSE Count(Span(t))
    BY <1>2, Pieces, GuessCounted
  <2>2. CASE wall \in Span(t)
    <3>1. t + Window >= b
      BY <1>2, <2>2, RateNumbers DEF Span
    <3>2. Count(Before(t, b)) <= MostFailures
      BY <3>1 DEF Splits
    <3>3. Count(Span(t)) <= Count(Before(t, b)) + Count(From(b))
      BY <1>2, SpanSplit
    <3>4. Count(From(b)) <= mem.failures
      BY DEF Splits
    <3> QED
      BY <1>4, <1>5, <2>1, <2>2, <3>2, <3>3, <3>4, RateNumbers
  <2>3. CASE wall \notin Span(t)
    BY <1>2, <2>1, <2>3, Pieces DEF RateInv, GuessRate, Seconds
  <2> QED
    BY <2>2, <2>3
<1>8. GuessRate'
  BY <1>1, <1>7 DEF GuessRate, GuessesFrom, Count, Span, Seconds
<1>9. \A u \in Seconds : u > wall' => guesses'[u] = 0
  BY <1>1, RateNumbers, GuessCounted DEF RateInv
<1> QED
  BY <1>1, <1>6, <1>8, <1>9 DEF RateInv

\* The window is over and a new count begins: whatever was judged within reach of the
\* present second belongs to the count that ends, and nothing to the second itself.
LEMMA NewCountKeepsRate ==
  ASSUME TypeOK, RateInv, NEW b \in 0..wall, Splits(b),
         guesses' = [guesses EXCEPT ![wall] = @ + 1], UNCHANGED clocks,
         mem'.start = wall, mem'.failures = 1, mem.failures <= MostFailures,
         Age > Window
  PROVE  RateInv'
<1>1. /\ wall' = wall /\ MostFailures' = MostFailures
  BY DEF MostFailures
<1>2. b \in Nat /\ b <= wall /\ b <= mem.start
  BY RateNumbers DEF Splits
<1>3. ~Stuck /\ wall > mem.start + Window
  BY RateNumbers, LoginLimiterAssumption DEF Stuck, Age, LoginLimiterAssumption
<1>4. PICK now \in Seconds : now = wall
  BY RateNumbers
<1>5. now \in Nat
  BY <1>4, RateNumbers
<1>6. \A u \in From(now) : guesses[u] = 0
  <2> SUFFICES ASSUME NEW u \in From(now) PROVE guesses[u] = 0
    OBVIOUS
  <2>1. u \in Seconds /\ u \in Nat /\ u >= wall /\ guesses[u] \in Nat
    BY <1>4, RateNumbers DEF From
  <2>2. CASE u > wall
    BY <2>1, <2>2 DEF RateInv
  <2>3. CASE u = wall
    <3>1. u \in From(b)
      BY <1>2, <2>1, <2>3, RateNumbers DEF From
    <3>2. ~(guesses[u] > 0)
      BY <1>3, <2>3, <3>1, RateNumbers DEF Splits
    <3> QED
      BY <2>1, <3>2
  <2> QED
    BY <2>1, <2>2, <2>3, RateNumbers
<1>7. Count(From(now)) = 0 /\ Count(From(now))' = 1
  <2>1. Count(From(now)) = 0
    BY <1>6, CountZero
  <2>2. wall \in From(now) /\ From(now) \in SUBSET Seconds
    BY <1>4, <1>5, Pieces, RateNumbers DEF From
  <2> QED
    BY <2>1, <2>2, GuessCounted
<1>8. ASSUME NEW t \in Seconds, t + Window >= now
      PROVE  Count(Before(t, now)) <= MostFailures
  <2>1. Before(t, now) \subseteq From(b)
    <3>1. \A u \in Before(t, now) : u \in Seconds /\ u \in Nat /\ u >= t
      <4>1. \A u \in Before(t, now) : u \in Seconds
        BY <1>5, Pieces
      <4>2. \A u \in Before(t, now) : u \in t..(t + Window)
        BY DEF Before, Span
      <4> QED
        BY <4>1, <4>2, RateNumbers
    <3>2. t > mem.start /\ t \in Nat
      BY <1>3, <1>4, <1>8, RateNumbers
    <3> QED
      BY <1>2, <3>1, <3>2, RateNumbers DEF From
  <2>2. Count(Before(t, now)) <= Count(From(b)) /\ Count(From(b)) \in Nat /\ Count(Before(t, now)) \in Nat
    BY <1>2, <1>5, <2>1, Pieces, CountFacts
  <2>3. Count(From(b)) <= mem.failures
    BY DEF Splits
  <2> QED
    BY <2>2, <2>3, RateNumbers
<1>9. \A t \in Seconds : Count(Before(t, now))' = Count(Before(t, now)) /\ Count(Before(t, now)) \in Nat
  <2> SUFFICES ASSUME NEW t \in Seconds
               PROVE  Count(Before(t, now))' = Count(Before(t, now)) /\ Count(Before(t, now)) \in Nat
    OBVIOUS
  <2>1. wall \notin Before(t, now)
    BY <1>4, <1>5, RateNumbers DEF Before
  <2> QED
    BY <1>5, <2>1, Pieces, GuessCounted
<1>10. Splits(now)'
  <2>1. \A u \in From(now) : guesses'[u] > 0 => u = wall
    BY <1>5, <1>6, Pieces, RateNumbers, GuessCounted
  <2>2. \A u \in From(now) : guesses'[u] > 0 => u <= mem'.start + Window
    BY <2>1, RateNumbers
  <2>3. Count(From(now))' <= mem'.failures /\ now = mem'.start
    BY <1>4, <1>7
  <2>4. \A t \in Seconds : t + Window >= now => Count(Before(t, now))' <= MostFailures'
    BY <1>1, <1>8, <1>9
  <2> QED
    BY <2>2, <2>3, <2>4 DEF Splits
<1>11. ASSUME NEW t \in Seconds PROVE Count(Span(t))' <= 2 * MostFailures
  <2>1. Count(Span(t)) \in Nat /\ Count(Span(t))' = IF wall \in Span(t) THEN Count(Span(t)) + 1 ELSE Count(Span(t))
    BY <1>5, Pieces, GuessCounted
  <2>2. CASE wall \in Span(t)
    <3>1. t + Window >= now
      BY <1>4, <2>2, RateNumbers DEF Span
    <3>2. Count(Before(t, now)) <= MostFailures
      BY <1>8, <3>1
    <3>3. Count(Span(t)) <= Count(Before(t, now)) + Count(From(now))
      BY <1>5, SpanSplit
    <3> QED
      BY <1>7, <1>9, <2>1, <2>2, <3>2, <3>3, RateNumbers
  <2>3. CASE wall \notin Span(t)
    BY <1>2, <2>1, <2>3, Pieces DEF RateInv, GuessRate, Seconds
  <2> QED
    BY <2>2, <2>3
<1>12. GuessRate'
  BY <1>1, <1>11 DEF GuessRate, GuessesFrom, Count, Span, Seconds
<1>13. \A u \in Seconds : u > wall' => guesses'[u] = 0
  BY <1>1, RateNumbers, GuessCounted DEF RateInv
<1>14. now \in 0..wall'
  BY <1>1, <1>4, <1>5
<1> QED
  BY <1>10, <1>12, <1>13, <1>14 DEF RateInv

LEMMA RecordKeepsRate ==
  ASSUME CoarseClock = FALSE, TypeOK, RateInv, Bounded, Bounded', NEW h \in Handlers, RecordFailure(h)
  PROVE  RateInv'
<1>1. PICK b \in 0..wall : Splits(b)
  BY DEF RateInv
<1>2. PICK expired \in Expired : Store(h, NextCounter(expired))
  BY RecordStores
<1>3. /\ mem' = NextCounter(expired)
      /\ guesses' = [guesses EXCEPT ![wall] = @ + 1] /\ UNCHANGED clocks
  BY <1>2 DEF Store, RecordFailure
<1>4. MostFailures' = MostFailures
  BY <1>3 DEF MostFailures
<1>5. mem.failures <= MostFailures /\ mem'.failures <= MostFailures
  BY <1>4 DEF Bounded, FailuresBounded
<1>6. CASE Age <= Window
  <2>1. expired = FALSE
    BY <1>2, <1>6, TimelyIsNotExpired
  <2>2. mem'.failures = mem.failures + 1 /\ mem'.start = mem.start
    BY <1>3, <2>1, NextCounterType
  <2> QED
    BY <1>1, <1>3, <1>5, <1>6, <2>2, SameCountKeepsRate
<1>7. CASE Age > Window
  <2>1. expired = TRUE
    BY <1>2, <1>7, LateIsExpired
  <2>2. mem'.failures = 1 /\ mem'.start = wall
    BY <1>3, <2>1, NextCounterType
  <2> QED
    BY <1>1, <1>3, <1>5, <1>7, <2>2, NewCountKeepsRate
<1> QED
  BY <1>6, <1>7, RateNumbers

LEMMA RateStep ==
  ASSUME CoarseClock = FALSE, TypeOK, TypeOK', Bounded, Bounded', RateInv, [Next]_vars
  PROVE  RateInv'
<1>1. ASSUME NEW h \in Handlers, Attempt(h) \/ Malformed(h) \/ SaveLands(h) \/ SaveLost(h) PROVE RateInv'
  BY <1>1, QuietKeepsRate DEF Attempt, Malformed, SaveLands, SaveLost
<1>2. ASSUME NEW h \in Handlers, Reset(h) PROVE RateInv'
  BY <1>2, CleanRate DEF Reset
<1>3. CASE SetBack \/ Restart
  BY <1>3, CleanRate DEF SetBack, Restart
<1>4. CASE UNCHANGED vars
  BY <1>4, QuietKeepsRate DEF vars
<1> QED
  BY <1>1, <1>2, <1>3, <1>4, RecordKeepsRate, TickKeepsRate DEF Next, Refused

LEMMA RateStart == ASSUME Init PROVE RateInv
<1>1. TypeOK
  BY TypeInit
<1>2. \A u \in Seconds : guesses[u] = 0
  BY DEF Init, NoGuesses, Seconds
<1>3. \A S \in SUBSET Seconds : Count(S) = 0
  BY <1>2, CountZero
<1>4. \A t \in Seconds : Span(t) \in SUBSET Seconds /\ Before(t, 0) \in SUBSET Seconds /\ From(0) \in SUBSET Seconds
                         /\ GuessesFrom(t) = Count(Span(t))
  BY <1>1, Pieces
<1>5. From(0) \in SUBSET Seconds
  BY DEF From
<1>6. Splits(0)
  BY <1>1, <1>2, <1>3, <1>4, <1>5, RateNumbers DEF Splits
<1>7. GuessRate
  BY <1>1, <1>3, <1>4, RateNumbers DEF GuessRate, Seconds
<1> QED
  BY <1>1, <1>2, <1>6, <1>7, RateNumbers DEF RateInv

\* GuessRate, for any limits, window and number of workers, when two readings of the
\* clock differ: no window has more than two counts' worth of wrong credentials, as long
\* as nobody logs in, the server stays up and the clock is not set back.
THEOREM GuessesAreLimited ==
  ASSUME CoarseClock = FALSE
  PROVE  Spec => []GuessRate
<1>1. Init => TypeOK /\ Bounded /\ RateInv
  BY TypeInit, BoundedStart, RateStart
<1>2. TypeOK /\ Bounded /\ RateInv /\ [Next]_vars => (TypeOK /\ Bounded /\ RateInv)'
  BY TypeStep, BoundedStep, RateStep
<1>3. RateInv => GuessRate
  BY DEF RateInv
<1> QED
  BY <1>1, <1>2, <1>3, PTL DEF Spec
============================================================================
