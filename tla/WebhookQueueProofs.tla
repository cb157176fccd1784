------------------------- MODULE WebhookQueueProofs -------------------------
(***************************************************************************)
(* What WebhookQueue keeps for every number of deliveries, workers and     *)
(* retries: permits are conserved, the counters add up, and the queue does *)
(* what Delivery promises.                                                 *)
(***************************************************************************)
EXTENDS WebhookQueue, FiniteSetTheorems, SequenceTheorems, TLAPS

USE DEF semaphore, metrics

\* Where a delivery is in the gauge, and where it is enqueued without a verdict.
Gauged == {"counted", "sending", "backoff", "ok", "exhausted", "closing"}
Open   == {"sending", "backoff", "ok", "exhausted"}

\* The counters, as sums over the tasks.
Counted ==
  /\ permits + Cardinality(At(Holding)) = Workers
  /\ inFlight = Cardinality(At(Gauged))
  /\ enqueued = delivered + failed + Cardinality(At(Open))

\* Nobody is in the line twice, and there is a line only when there is no permit.
InLine ==
  /\ \A i, j \in DOMAIN waiters : waiters[i] = waiters[j] => i = j
  /\ permits > 0 => waiters = <<>>

\* Every request to an endpoint was one of an attempt of the loop.
Told ==
  \A t \in Tasks :
    /\ pc[t] = "backoff" => attempt[t] < MaxRetries
    /\ received[t] <= MostHeard(attempt[t] + 1)
    /\ pc[t] \in {"none", "spawned", "waiting", "granted", "counted", "sending"}
         => received[t] <= MostHeard(attempt[t])

QueueInv == TypeOK /\ Counted /\ InLine /\ Told

\* One attempt more may be heard of by as many requests as it can make.
LEMMA HeardFacts ==
  ASSUME WebhookQueueAssumption
  PROVE  /\ Requests \in Nat /\ Requests >= 1 /\ MostHeard(0) = 0
         /\ \A k \in Nat : MostHeard(k) \in Nat /\ MostHeard(k + 1) = MostHeard(k) + Requests
         /\ \A k \in Nat : k <= MaxRetries => MostHeard(k + 1) <= MostHeard(MaxRetries + 1)
<1>1. Requests \in Nat /\ Requests >= 1 /\ MaxRetries \in Nat
  BY DEF Requests, WebhookQueueAssumption
<1>2. ASSUME NEW r \in Nat, NEW k \in Nat, NEW m \in Nat
      PROVE  k * r \in Nat /\ (k + 1) * r = k * r + r /\ 0 * r = 0 /\ (k + m) * r = k * r + m * r
  OBVIOUS
<1>3. ASSUME NEW k \in Nat, k <= MaxRetries
      PROVE  MostHeard(k + 1) <= MostHeard(MaxRetries + 1)
  <2>1. PICK m \in Nat : MaxRetries + 1 = (k + 1) + m
    <3>1. MaxRetries - k \in Nat /\ MaxRetries + 1 = (k + 1) + (MaxRetries - k)
      BY <1>1, <1>3
    <3> QED
      BY <3>1
  <2>2. k + 1 \in Nat
    OBVIOUS
  <2>3. ((k + 1) + m) * Requests = (k + 1) * Requests + m * Requests
    BY <1>1, <1>2, <2>2
  <2>4. (k + 1) * Requests \in Nat /\ m * Requests \in Nat
    BY <1>1, <1>2, <2>2
  <2> QED
    BY <2>1, <2>3, <2>4 DEF MostHeard
<1> QED
  BY <1>1, <1>2, <1>3 DEF MostHeard

----------------------------------------------------------------------------
(* Sets of tasks are finite, and one task at a time moves between them.    *)

LEMMA Finite == ASSUME WebhookQueueAssumption, NEW S
                PROVE  IsFiniteSet(At(S)) /\ Cardinality(At(S)) \in Nat
<1>1. At(S) \subseteq Tasks
  BY DEF At
<1> QED
  BY <1>1, FS_Subset, FS_CardinalityType DEF WebhookQueueAssumption

LEMMA OneMoves ==
  ASSUME TypeOK, NEW t \in Tasks, NEW label, pc' = [pc EXCEPT ![t] = label], NEW S
  PROVE  /\ label \in S => At(S)' = At(S) \cup {t}
         /\ label \notin S => At(S)' = At(S) \ {t}
         /\ t \in At(S) <=> pc[t] \in S
  BY DEF TypeOK, At

LEMMA Stays ==
  ASSUME TypeOK, NEW t \in Tasks, NEW label, pc' = [pc EXCEPT ![t] = label], NEW S,
         (label \in S /\ pc[t] \in S) \/ (label \notin S /\ pc[t] \notin S)
  PROVE  At(S)' = At(S)
<1>1. CASE label \in S
  BY <1>1, OneMoves DEF At
<1>2. CASE label \notin S
  BY <1>2, OneMoves DEF At
<1> QED
  BY <1>1, <1>2

LEMMA NotWaiting ==
  ASSUME TypeOK, NEW t \in Tasks, NEW label, pc' = [pc EXCEPT ![t] = label],
         label # "waiting", pc[t] # "waiting"
  PROVE  At({"waiting"})' = At({"waiting"})
<1>1. label \notin {"waiting"} /\ pc[t] \notin {"waiting"}
  OBVIOUS
<1> QED
  BY <1>1, Stays

LEMMA Enters ==
  ASSUME WebhookQueueAssumption, TypeOK, NEW t \in Tasks, NEW label,
         pc' = [pc EXCEPT ![t] = label], NEW S, label \in S, pc[t] \notin S
  PROVE  At(S)' = At(S) \cup {t} /\ Cardinality(At(S)') = Cardinality(At(S)) + 1
<1>1. At(S)' = At(S) \cup {t} /\ t \notin At(S)
  BY OneMoves
<1> QED
  BY <1>1, Finite, FS_AddElement

LEMMA Leaves ==
  ASSUME WebhookQueueAssumption, TypeOK, NEW t \in Tasks, NEW label,
         pc' = [pc EXCEPT ![t] = label], NEW S, label \notin S, pc[t] \in S
  PROVE  At(S)' = At(S) \ {t} /\ Cardinality(At(S)') = Cardinality(At(S)) - 1
<1>1. At(S)' = At(S) \ {t} /\ t \in At(S)
  BY OneMoves
<1> QED
  BY <1>1, Finite, FS_RemoveElement

\* A state in which nothing is under way.
LEMMA NoneAt ==
  ASSUME NEW S, \A t \in Tasks : pc[t] \notin S
  PROVE  At(S) = {} /\ Cardinality(At(S)) = 0
  BY FS_EmptySet DEF At

----------------------------------------------------------------------------
LEMMA QueueInit == ASSUME WebhookQueueAssumption, Init PROVE QueueInv
<1>1. \A t \in Tasks : pc[t] = "none"
  BY DEF Init
<1>2. /\ At({"waiting"}) = {} /\ Cardinality(At({"waiting"})) = 0
      /\ Cardinality(At(Holding)) = 0 /\ Cardinality(At(Gauged)) = 0 /\ Cardinality(At(Open)) = 0
  BY <1>1, NoneAt DEF Holding, Gauged, Open
<1>3. waiters = <<>> /\ Len(waiters) = 0 /\ DOMAIN waiters = {} /\ waiters \in Seq(Tasks)
  BY DEF Init
<1>4. TypeOK
  <2>1. pc \in [Tasks -> Pcs] /\ received \in [Tasks -> Nat]
    BY DEF Init, Pcs
  <2>2. attempt \in [Tasks -> 0..MaxRetries] /\ permits \in 0..Workers
    BY DEF Init, WebhookQueueAssumption
  <2> QED
    BY <1>2, <1>3, <2>1, <2>2 DEF TypeOK, Init
<1>5. Counted
  BY <1>2 DEF Counted, Init, WebhookQueueAssumption
<1>6. InLine /\ Told
  BY <1>1, <1>3, HeardFacts DEF InLine, Told, Init
<1> QED
  BY <1>4, <1>5, <1>6 DEF QueueInv
----------------------------------------------------------------------------
(* One lemma per action.  Each names the sets the task enters and leaves.  *)

\* The steps of a task that has its permit, and leaves the line alone.
LEMMA Working ==
  ASSUME WebhookQueueAssumption, QueueInv, NEW t \in Tasks, NEW label \in Pcs,
         pc' = [pc EXCEPT ![t] = label], label \in Holding, pc[t] \in Holding
  PROVE  /\ pc' \in [Tasks -> Pcs]
         /\ At({"waiting"})' = At({"waiting"})
         /\ At(Holding)' = At(Holding)
<1>1. TypeOK
  BY DEF QueueInv
<1>2. label \notin {"waiting"} /\ pc[t] \notin {"waiting"}
  BY DEF Holding
<1> QED
  BY <1>1, <1>2, Stays DEF TypeOK

LEMMA KeepsLine ==
  ASSUME QueueInv, UNCHANGED semaphore, At({"waiting"})' = At({"waiting"})
  PROVE  /\ InLine'
         /\ permits' \in 0..Workers
         /\ waiters' \in Seq(Tasks)
         /\ {waiters'[i] : i \in DOMAIN waiters'} = At({"waiting"})'
         /\ Len(waiters') = Cardinality(At({"waiting"})')
<1>1. permits' = permits /\ waiters' = waiters
  OBVIOUS
<1> QED
  BY <1>1 DEF QueueInv, TypeOK, InLine

LEMMA CountInFlightKeeps ==
  ASSUME WebhookQueueAssumption, QueueInv, NEW t \in Tasks, CountInFlight(t)
  PROVE  QueueInv'
<1>1. pc' = [pc EXCEPT ![t] = "counted"] /\ pc[t] = "granted" /\ TypeOK
  BY DEF CountInFlight, Goto, QueueInv
<1>2. pc' \in [Tasks -> Pcs] /\ At({"waiting"})' = At({"waiting"}) /\ At(Holding)' = At(Holding)
  BY <1>1, Working DEF Holding, Pcs
<1>3. Cardinality(At(Gauged)') = Cardinality(At(Gauged)) + 1
  BY <1>1, Enters DEF Gauged
<1>4. At(Open)' = At(Open)
  <2>1. "counted" \notin Open /\ "granted" \notin Open
    BY DEF Open
  <2> QED
    BY <1>1, <2>1, Stays
<1>5. Counted'
  BY <1>2, <1>3, <1>4, Finite DEF QueueInv, Counted, CountInFlight
<1>6. TypeOK'
  BY <1>1, <1>2, KeepsLine DEF TypeOK, CountInFlight
<1>7. Told'
  BY <1>1 DEF QueueInv, Told, CountInFlight, TypeOK
<1> QED
  BY <1>2, <1>5, <1>6, <1>7, KeepsLine DEF QueueInv, CountInFlight

LEMMA CountEnqueuedKeeps ==
  ASSUME WebhookQueueAssumption, QueueInv, NEW t \in Tasks, CountEnqueued(t)
  PROVE  QueueInv'
<1>1. pc' = [pc EXCEPT ![t] = "sending"] /\ pc[t] = "counted" /\ TypeOK
  BY DEF CountEnqueued, Goto, QueueInv
<1>2. pc' \in [Tasks -> Pcs] /\ At({"waiting"})' = At({"waiting"}) /\ At(Holding)' = At(Holding)
  BY <1>1, Working DEF Holding, Pcs
<1>3. At(Gauged)' = At(Gauged)
  BY <1>1, Stays DEF Gauged
<1>4. Cardinality(At(Open)') = Cardinality(At(Open)) + 1
  BY <1>1, Enters DEF Open
<1>5. Counted'
  BY <1>1, <1>2, <1>3, <1>4, Finite DEF QueueInv, Counted, CountEnqueued, TypeOK
<1>6. TypeOK'
  BY <1>1, <1>2, KeepsLine DEF TypeOK, CountEnqueued
<1>7. Told'
  BY <1>1 DEF QueueInv, Told, CountEnqueued, TypeOK
<1> QED
  BY <1>2, <1>5, <1>6, <1>7, KeepsLine DEF QueueInv, CountEnqueued

LEMMA DeliverKeeps ==
  ASSUME WebhookQueueAssumption, QueueInv, NEW t \in Tasks, Deliver(t)
  PROVE  QueueInv'
<1>1. PICK label \in {"ok", "backoff", "exhausted"} :
        /\ pc' = [pc EXCEPT ![t] = label]
        /\ label = "backoff" => attempt[t] < MaxRetries
  BY DEF Deliver, Goto, MayRetry
<1>2. pc[t] = "sending" /\ TypeOK
  BY DEF Deliver, QueueInv
<1>3. label \in Pcs /\ label \in Holding /\ label \in Gauged /\ label \in Open
  BY DEF Pcs, Holding, Gauged, Open
<1>4. pc' \in [Tasks -> Pcs] /\ At({"waiting"})' = At({"waiting"}) /\ At(Holding)' = At(Holding)
  BY <1>1, <1>2, <1>3, Working DEF Holding
<1>5. At(Gauged)' = At(Gauged) /\ At(Open)' = At(Open)
  BY <1>1, <1>2, <1>3, Stays DEF Gauged, Open
<1>6. Counted'
  BY <1>4, <1>5 DEF QueueInv, Counted, Deliver
<1>7. PICK seen \in 0..Requests : received' = [received EXCEPT ![t] = @ + seen]
  BY HeardFacts DEF Deliver
<1>8. TypeOK'
  <2>1. received' \in [Tasks -> Nat]
    <3>1. received[t] + seen \in Nat
      <4>1. received[t] \in Nat
        BY <1>2 DEF TypeOK
      <4>2. seen \in Nat
        BY HeardFacts
      <4> QED
        BY <4>1, <4>2
    <3> QED
      BY <1>2, <1>7, <3>1 DEF TypeOK
  <2> QED
    BY <1>2, <1>4, <2>1, KeepsLine DEF TypeOK, Deliver
<1>9. Told'
  <2>1. received[t] <= MostHeard(attempt[t])
    BY <1>2 DEF QueueInv, Told
  <2>2. received[t] + seen <= MostHeard(attempt[t] + 1)
    <3>1. attempt[t] \in Nat /\ received[t] \in Nat
      BY <1>2 DEF TypeOK
    <3>2. MostHeard(attempt[t]) \in Nat /\ MostHeard(attempt[t] + 1) = MostHeard(attempt[t]) + Requests
      BY <3>1, HeardFacts
    <3> QED
      BY <2>1, <3>1, <3>2, HeardFacts
  <2>3. attempt' = attempt /\ received'[t] = received[t] + seen
        /\ \A u \in Tasks \ {t} : received'[u] = received[u] /\ pc'[u] = pc[u]
    BY <1>1, <1>2, <1>7 DEF Deliver, TypeOK
  <2>4. pc'[t] = label
    BY <1>1, <1>2 DEF TypeOK
  <2> SUFFICES ASSUME NEW u \in Tasks
               PROVE  /\ pc'[u] = "backoff" => attempt[u] < MaxRetries
                      /\ received'[u] <= MostHeard(attempt[u] + 1)
                      /\ pc'[u] \in {"none", "spawned", "waiting", "granted", "counted", "sending"}
                           => received'[u] <= MostHeard(attempt[u])
    BY <2>3 DEF Told
  <2>5. CASE u = t
    BY <1>1, <2>2, <2>3, <2>4, <2>5
  <2>6. CASE u # t
    BY <2>3, <2>6 DEF QueueInv, Told
  <2> QED
    BY <2>5, <2>6
<1> QED
  BY <1>4, <1>6, <1>8, <1>9, KeepsLine DEF QueueInv, Deliver

LEMMA BackoffKeeps ==
  ASSUME WebhookQueueAssumption, QueueInv, NEW t \in Tasks, Backoff(t)
  PROVE  QueueInv'
<1>1. pc' = [pc EXCEPT ![t] = "sending"] /\ pc[t] = "backoff" /\ TypeOK
  BY DEF Backoff, Goto, QueueInv
<1>2. pc' \in [Tasks -> Pcs] /\ At({"waiting"})' = At({"waiting"}) /\ At(Holding)' = At(Holding)
  BY <1>1, Working DEF Holding, Pcs
<1>3. At(Gauged)' = At(Gauged) /\ At(Open)' = At(Open)
  BY <1>1, Stays DEF Gauged, Open
<1>4. Counted'
  BY <1>2, <1>3 DEF QueueInv, Counted, Backoff
<1>5. attempt[t] \in Nat /\ attempt[t] < MaxRetries /\ received[t] <= MostHeard(attempt[t] + 1)
  BY <1>1 DEF QueueInv, Told, TypeOK, WebhookQueueAssumption
<1>6. attempt' = [attempt EXCEPT ![t] = attempt[t] + 1] /\ attempt[t] + 1 \in 0..MaxRetries
  BY <1>5 DEF Backoff, WebhookQueueAssumption
<1>7. TypeOK'
  BY <1>1, <1>2, <1>6, KeepsLine DEF TypeOK, Backoff
<1>8. Told'
  <2>1. received' = received /\ attempt'[t] = attempt[t] + 1 /\ pc'[t] = "sending"
        /\ \A u \in Tasks \ {t} : attempt'[u] = attempt[u] /\ pc'[u] = pc[u]
    BY <1>1, <1>6 DEF Backoff, TypeOK
  <2>2. received[t] <= MostHeard(attempt'[t]) /\ received[t] <= MostHeard(attempt'[t] + 1)
    <3>1. /\ received[t] \in Nat /\ MostHeard(attempt'[t]) \in Nat
          /\ MostHeard(attempt'[t] + 1) = MostHeard(attempt'[t]) + Requests /\ Requests \in Nat
      BY <1>1, <1>5, <2>1, HeardFacts DEF TypeOK
    <3>2. received[t] <= MostHeard(attempt'[t])
      BY <1>5, <2>1
    <3> QED
      BY <3>1, <3>2
  <2>3. ASSUME NEW u \in Tasks \ {t}
        PROVE  /\ pc'[u] = "backoff" => attempt'[u] < MaxRetries
               /\ received'[u] <= MostHeard(attempt'[u] + 1)
               /\ pc'[u] \in {"none", "spawned", "waiting", "granted", "counted", "sending"}
                    => received'[u] <= MostHeard(attempt'[u])
    BY <2>1, <2>3 DEF QueueInv, Told
  <2> QED
    BY <2>1, <2>2, <2>3 DEF Told
<1> QED
  BY <1>2, <1>4, <1>7, <1>8, KeepsLine DEF QueueInv, Backoff

\* A verdict is counted: the delivery is no longer open.
LEMMA VerdictKeeps ==
  ASSUME WebhookQueueAssumption, QueueInv, NEW t \in Tasks, CountDelivered(t) \/ CountFailed(t)
  PROVE  QueueInv'
<1>1. pc' = [pc EXCEPT ![t] = "closing"] /\ pc[t] \in {"ok", "exhausted"} /\ TypeOK
  BY DEF CountDelivered, CountFailed, Goto, QueueInv
<1>2. pc' \in [Tasks -> Pcs] /\ At({"waiting"})' = At({"waiting"}) /\ At(Holding)' = At(Holding)
  BY <1>1, Working DEF Holding, Pcs
<1>3. At(Gauged)' = At(Gauged)
  BY <1>1, Stays DEF Gauged
<1>4. Cardinality(At(Open)') = Cardinality(At(Open)) - 1
  <2>1. "closing" \notin Open /\ "ok" \in Open /\ "exhausted" \in Open
    BY DEF Open
  <2> QED
    BY <1>1, <2>1, Leaves
<1>5. /\ delivered' + failed' = delivered + failed + 1
      /\ delivered' \in Nat /\ failed' \in Nat /\ UNCHANGED <<enqueued, inFlight>>
  <2>1. delivered \in Nat /\ failed \in Nat
    BY <1>1 DEF TypeOK
  <2>2. \/ delivered' = delivered + 1 /\ failed' = failed
        \/ failed' = failed + 1 /\ delivered' = delivered
    BY DEF CountDelivered, CountFailed
  <2>3. UNCHANGED <<enqueued, inFlight>>
    BY DEF CountDelivered, CountFailed
  <2> QED
    BY <2>1, <2>2, <2>3
<1>6. UNCHANGED <<attempt, semaphore, received>>
  BY DEF CountDelivered, CountFailed
<1>7. Counted'
  <2>1. delivered \in Nat /\ failed \in Nat /\ enqueued \in Nat /\ permits' = permits
    BY <1>1, <1>6 DEF TypeOK
  <2>2. Cardinality(At(Open)) \in Nat
    BY Finite
  <2>3. permits' + Cardinality(At(Holding)') = Workers
    BY <1>2, <2>1 DEF QueueInv, Counted
  <2>4. inFlight' = Cardinality(At(Gauged)')
    BY <1>3, <1>5 DEF QueueInv, Counted
  <2>5. enqueued = delivered + failed + Cardinality(At(Open))
    BY DEF QueueInv, Counted
  <2>6. enqueued' = delivered' + failed' + Cardinality(At(Open)')
    <3>1. enqueued' = enqueued /\ delivered' + failed' = delivered + failed + 1
      BY <1>5
    <3>2. Cardinality(At(Open)') = Cardinality(At(Open)) - 1
      BY <1>4
    <3> DEFINE c == Cardinality(At(Open))
    <3>3. c \in Nat /\ enqueued = delivered + failed + c
      BY <2>2, <2>5
    <3> HIDE DEF c
    <3>4. enqueued = (delivered + failed + 1) + (c - 1)
      BY <2>1, <3>3
    <3>5. enqueued' = (delivered' + failed') + (c - 1)
      BY <3>1, <3>4
    <3> QED
      BY <3>2, <3>5 DEF c
  <2> QED
    BY <2>3, <2>4, <2>6 DEF Counted
<1>8. TypeOK'
  BY <1>1, <1>2, <1>5, <1>6, KeepsLine DEF TypeOK
<1>9. Told'
  BY <1>1, <1>6 DEF QueueInv, Told, TypeOK
<1> QED
  BY <1>2, <1>6, <1>7, <1>8, <1>9, KeepsLine DEF QueueInv

LEMMA DropGuardKeeps ==
  ASSUME WebhookQueueAssumption, QueueInv, NEW t \in Tasks, DropGuard(t)
  PROVE  QueueInv'
<1>1. pc' = [pc EXCEPT ![t] = "releasing"] /\ pc[t] = "closing" /\ TypeOK
  BY DEF DropGuard, Goto, QueueInv
<1>2. pc' \in [Tasks -> Pcs] /\ At({"waiting"})' = At({"waiting"}) /\ At(Holding)' = At(Holding)
  BY <1>1, Working DEF Holding, Pcs
<1>3. Cardinality(At(Gauged)') = Cardinality(At(Gauged)) - 1 /\ At(Gauged)' \subseteq At(Gauged)
  <2>1. "releasing" \notin Gauged /\ "closing" \in Gauged
    BY DEF Gauged
  <2>2. At(Gauged)' = At(Gauged) \ {t}
    BY <1>1, <2>1, OneMoves
  <2>3. Cardinality(At(Gauged)') = Cardinality(At(Gauged)) - 1
    BY <1>1, <2>1, Leaves
  <2> QED
    BY <2>2, <2>3
<1>4. At(Open)' = At(Open)
  <2>1. "closing" \notin Open /\ "releasing" \notin Open
    BY DEF Open
  <2> QED
    BY <1>1, <2>1, Stays
<1>5. Counted'
  BY <1>2, <1>3, <1>4, Finite DEF QueueInv, Counted, DropGuard
<1>6. inFlight' \in Nat
  <2>1. IsFiniteSet(At(Gauged)') /\ Cardinality(At(Gauged)') \in Nat
    BY <1>3, Finite, FS_Subset, FS_CardinalityType
  <2> QED
    BY <1>5, <2>1 DEF Counted
<1>7. TypeOK'
  BY <1>1, <1>2, <1>6, KeepsLine DEF TypeOK, DropGuard
<1>8. Told'
  BY <1>1 DEF QueueInv, Told, DropGuard, TypeOK
<1> QED
  BY <1>2, <1>5, <1>7, <1>8, KeepsLine DEF QueueInv, DropGuard

\* A delivery that is spawned or asks for a permit is in no counter.
LEMMA OutsideCounters ==
  ASSUME WebhookQueueAssumption, QueueInv, NEW t \in Tasks, NEW label,
         pc' = [pc EXCEPT ![t] = label],
         pc[t] \in {"none", "spawned"}, label \in {"spawned", "waiting", "granted"}
  PROVE  At(Gauged)' = At(Gauged) /\ At(Open)' = At(Open) /\ pc' \in [Tasks -> Pcs]
<1>1. TypeOK
  BY DEF QueueInv
<1>2. label \notin Gauged /\ label \notin Open /\ pc[t] \notin Gauged /\ pc[t] \notin Open
  BY DEF Gauged, Open
<1>3. At(Gauged)' = At(Gauged) /\ At(Open)' = At(Open)
  BY <1>1, <1>2, Stays
<1>4. label \in Pcs
  BY DEF Pcs
<1> QED
  BY <1>1, <1>3, <1>4 DEF TypeOK

LEMMA EnqueueKeeps ==
  ASSUME WebhookQueueAssumption, QueueInv, NEW t \in Tasks, Enqueue(t)
  PROVE  QueueInv' /\ At(Holding)' = At(Holding)
<1>1. pc' = [pc EXCEPT ![t] = "spawned"] /\ pc[t] = "none" /\ TypeOK
  BY DEF Enqueue, Goto, QueueInv
<1>2. pc' \in [Tasks -> Pcs] /\ At(Gauged)' = At(Gauged) /\ At(Open)' = At(Open)
  BY <1>1, OutsideCounters
<1>3. "spawned" \notin Holding /\ "none" \notin Holding
  BY DEF Holding
<1>4. At(Holding)' = At(Holding) /\ At({"waiting"})' = At({"waiting"})
  <2>1. At(Holding)' = At(Holding)
    BY <1>1, <1>3, Stays
  <2>2. At({"waiting"})' = At({"waiting"})
    BY <1>1, NotWaiting
  <2> QED
    BY <2>1, <2>2
<1>5. Counted'
  BY <1>2, <1>4 DEF QueueInv, Counted, Enqueue
<1>6. TypeOK'
  BY <1>1, <1>2, <1>4, KeepsLine DEF TypeOK, Enqueue
<1>7. Told'
  BY <1>1 DEF QueueInv, Told, Enqueue, TypeOK
<1> QED
  BY <1>4, <1>5, <1>6, <1>7, KeepsLine DEF QueueInv, Enqueue

\* What a sequence without repetitions looks like at both ends.
LEMMA Appended ==
  ASSUME NEW T, NEW q \in Seq(T), NEW t \in T, \A i \in DOMAIN q : q[i] # t,
         \A i, j \in DOMAIN q : q[i] = q[j] => i = j
  PROVE  LET r == Append(q, t) IN
         /\ r \in Seq(T) /\ Len(r) = Len(q) + 1
         /\ {r[i] : i \in DOMAIN r} = {q[i] : i \in DOMAIN q} \cup {t}
         /\ \A i, j \in DOMAIN r : r[i] = r[j] => i = j
<1> DEFINE r == Append(q, t)
<1>1. r \in Seq(T) /\ Len(r) = Len(q) + 1 /\ DOMAIN q = 1..Len(q) /\ DOMAIN r = 1..(Len(q) + 1)
  BY AppendProperties, LenProperties
<1>2. \A i \in DOMAIN q : r[i] = q[i]
  BY <1>1, AppendProperties
<1>3. r[Len(q) + 1] = t
  BY AppendProperties
<1>4. Len(q) \in Nat
  BY LenProperties
<1>5. \A i \in DOMAIN r : i \in DOMAIN q \/ i = Len(q) + 1
  BY <1>1, <1>4
<1>6. DOMAIN q \subseteq DOMAIN r /\ Len(q) + 1 \in DOMAIN r
  BY <1>1, <1>4
<1> HIDE DEF r
<1>7. {r[i] : i \in DOMAIN r} = {q[i] : i \in DOMAIN q} \cup {t}
  BY <1>2, <1>3, <1>5, <1>6
<1>8. \A i, j \in DOMAIN r : r[i] = r[j] => i = j
  BY <1>2, <1>3, <1>5
<1> QED
  BY <1>1, <1>7, <1>8 DEF r

LEMMA HeadRemoved ==
  ASSUME NEW T, NEW q \in Seq(T), q # <<>>,
         \A i, j \in DOMAIN q : q[i] = q[j] => i = j
  PROVE  LET r == Tail(q) IN
         /\ r \in Seq(T) /\ Len(r) = Len(q) - 1
         /\ Head(q) \in {q[i] : i \in DOMAIN q}
         /\ {r[i] : i \in DOMAIN r} = {q[i] : i \in DOMAIN q} \ {Head(q)}
         /\ \A i, j \in DOMAIN r : r[i] = r[j] => i = j
<1> DEFINE r == Tail(q)
<1>1. Len(q) \in Nat /\ Len(q) > 0 /\ DOMAIN q = 1..Len(q)
  BY EmptySeq, LenProperties
<1>2. r \in Seq(T) /\ Len(r) = Len(q) - 1 /\ DOMAIN r = 1..(Len(q) - 1)
  BY HeadTailProperties, LenProperties
<1>3. \A i \in DOMAIN r : i + 1 \in DOMAIN q /\ r[i] = q[i + 1] /\ i \in Int
  BY <1>1, <1>2, HeadTailProperties
<1>4. Head(q) = q[1] /\ 1 \in DOMAIN q
  BY <1>1
<1>5. \A j \in DOMAIN q : j = 1 \/ (j - 1 \in DOMAIN r /\ q[j] = r[j - 1])
  <2> SUFFICES ASSUME NEW j \in DOMAIN q, j # 1 PROVE j - 1 \in DOMAIN r /\ q[j] = r[j - 1]
    OBVIOUS
  <2>1. j - 1 \in DOMAIN r /\ (j - 1) + 1 = j
    BY <1>1, <1>2
  <2>2. r[j - 1] = q[(j - 1) + 1]
    BY <1>3, <2>1
  <2> QED
    BY <2>1, <2>2
<1> HIDE DEF r
<1>6. \A i \in DOMAIN r : r[i] # Head(q)
  <2> SUFFICES ASSUME NEW i \in DOMAIN r, r[i] = Head(q) PROVE FALSE
    OBVIOUS
  <2>1. i \in 1..(Len(q) - 1) /\ q[i + 1] = q[1] /\ i + 1 \in DOMAIN q
    BY <1>2, <1>3, <1>4
  <2>2. i + 1 = 1
    BY <1>4, <2>1
  <2> QED
    BY <1>1, <2>1, <2>2
<1>7. {r[i] : i \in DOMAIN r} = {q[i] : i \in DOMAIN q} \ {Head(q)}
  BY <1>3, <1>4, <1>5, <1>6
<1>8. \A i, j \in DOMAIN r : r[i] = r[j] => i = j
  <2> SUFFICES ASSUME NEW i \in DOMAIN r, NEW j \in DOMAIN r, r[i] = r[j] PROVE i = j
    OBVIOUS
  <2>1. i + 1 = j + 1 /\ i \in Int /\ j \in Int
    BY <1>3
  <2> QED
    BY <2>1
<1> QED
  BY <1>2, <1>4, <1>7, <1>8 DEF r

\* A delivery asks for a permit: there is one, or it joins the line.
LEMMA GrantedKeeps ==
  ASSUME WebhookQueueAssumption, QueueInv, NEW t \in Tasks, Acquire(t), permits > 0
  PROVE  QueueInv' /\ At(Holding)' = At(Holding) \cup {t} /\ waiters = <<>> /\ waiters' = waiters
<1>1. /\ pc' = [pc EXCEPT ![t] = "granted"] /\ permits' = permits - 1
      /\ pc[t] = "spawned" /\ TypeOK /\ permits \in 0..Workers
      /\ UNCHANGED <<waiters, attempt, metrics, received>>
  BY DEF Acquire, Goto, QueueInv, TypeOK
<1>2. pc' \in [Tasks -> Pcs] /\ At(Gauged)' = At(Gauged) /\ At(Open)' = At(Open)
  BY <1>1, OutsideCounters
<1>3. At(Holding)' = At(Holding) \cup {t} /\ Cardinality(At(Holding)') = Cardinality(At(Holding)) + 1
  <2>1. "granted" \in Holding /\ "spawned" \notin Holding
    BY DEF Holding
  <2>2. At(Holding)' = At(Holding) \cup {t}
    BY <1>1, <2>1, OneMoves
  <2>3. Cardinality(At(Holding)') = Cardinality(At(Holding)) + 1
    BY <1>1, <2>1, Enters
  <2> QED
    BY <2>2, <2>3
<1>4. At({"waiting"})' = At({"waiting"})
  BY <1>1, NotWaiting
<1>5. Counted'
  <2>1. permits' + Cardinality(At(Holding)') = Workers
    <3>1. permits \in Nat /\ Workers \in Nat /\ Cardinality(At(Holding)) \in Nat
      BY <1>1, Finite DEF WebhookQueueAssumption
    <3>2. permits + Cardinality(At(Holding)) = Workers
      BY DEF QueueInv, Counted
    <3> QED
      BY <1>1, <1>3, <3>1, <3>2
  <2> QED
    BY <1>1, <1>2, <2>1 DEF QueueInv, Counted
<1>6. waiters = <<>>
  BY DEF QueueInv, InLine
<1>7. TypeOK'
  <2>1. permits' \in 0..Workers
    BY <1>1 DEF WebhookQueueAssumption
  <2> QED
    BY <1>1, <1>2, <1>4, <2>1 DEF TypeOK
<1>8. InLine'
  BY <1>1, <1>6 DEF QueueInv, InLine
<1>9. Told'
  BY <1>1 DEF QueueInv, Told, TypeOK
<1> QED
  BY <1>1, <1>3, <1>5, <1>6, <1>7, <1>8, <1>9 DEF QueueInv

LEMMA JoiningKeeps ==
  ASSUME WebhookQueueAssumption, QueueInv, NEW t \in Tasks, Acquire(t), permits = 0
  PROVE  QueueInv' /\ At(Holding)' = At(Holding) /\ waiters' = Append(waiters, t)
<1>1. /\ pc' = [pc EXCEPT ![t] = "waiting"] /\ waiters' = Append(waiters, t)
      /\ pc[t] = "spawned" /\ TypeOK /\ waiters \in Seq(Tasks)
      /\ UNCHANGED <<permits, attempt, metrics, received>>
  BY DEF Acquire, Goto, QueueInv, TypeOK
<1>2. pc' \in [Tasks -> Pcs] /\ At(Gauged)' = At(Gauged) /\ At(Open)' = At(Open)
  BY <1>1, OutsideCounters
<1>3. At(Holding)' = At(Holding)
  <2>1. "waiting" \notin Holding /\ "spawned" \notin Holding
    BY DEF Holding
  <2> QED
    BY <1>1, <2>1, Stays
<1>4. /\ At({"waiting"})' = At({"waiting"}) \cup {t}
      /\ Cardinality(At({"waiting"})') = Cardinality(At({"waiting"})) + 1
  BY <1>1, Enters
<1>5. t \notin {waiters[i] : i \in DOMAIN waiters}
  BY <1>1 DEF TypeOK, At
<1>6. /\ waiters' \in Seq(Tasks) /\ Len(waiters') = Len(waiters) + 1
      /\ {waiters'[i] : i \in DOMAIN waiters'} = {waiters[i] : i \in DOMAIN waiters} \cup {t}
      /\ \A i, j \in DOMAIN waiters' : waiters'[i] = waiters'[j] => i = j
  <2>1. /\ \A i \in DOMAIN waiters : waiters[i] # t
        /\ \A i, j \in DOMAIN waiters : waiters[i] = waiters[j] => i = j
    BY <1>5 DEF QueueInv, InLine
  <2> QED
    BY <1>1, <2>1, Appended
<1>7. Counted'
  BY <1>1, <1>2, <1>3 DEF QueueInv, Counted
<1>8. TypeOK'
  <2>1. {waiters'[i] : i \in DOMAIN waiters'} = At({"waiting"})' /\ Len(waiters') = Cardinality(At({"waiting"})')
    BY <1>1, <1>4, <1>6 DEF TypeOK
  <2> QED
    BY <1>1, <1>2, <1>6, <2>1 DEF TypeOK
<1>9. InLine'
  BY <1>1, <1>6 DEF InLine
<1>10. Told'
  BY <1>1 DEF QueueInv, Told, TypeOK
<1> QED
  BY <1>1, <1>3, <1>7, <1>8, <1>9, <1>10 DEF QueueInv

\* A permit goes back, or from one delivery to the one that waited longest.
LEMMA ReturnKeeps ==
  ASSUME WebhookQueueAssumption, QueueInv, NEW t \in Tasks, DropPermit(t), waiters = <<>>
  PROVE  QueueInv' /\ At(Holding)' = At(Holding) \ {t} /\ waiters' = waiters
<1>1. /\ pc' = [pc EXCEPT ![t] = "done"] /\ permits' = permits + 1
      /\ pc[t] = "releasing" /\ TypeOK /\ permits \in 0..Workers
      /\ UNCHANGED <<waiters, attempt, metrics, received>>
  BY DEF DropPermit, Goto, QueueInv, TypeOK
<1>2. At(Holding)' = At(Holding) \ {t} /\ Cardinality(At(Holding)') = Cardinality(At(Holding)) - 1
  <2>1. "done" \notin Holding /\ "releasing" \in Holding
    BY DEF Holding
  <2>2. At(Holding)' = At(Holding) \ {t}
    BY <1>1, <2>1, OneMoves
  <2>3. Cardinality(At(Holding)') = Cardinality(At(Holding)) - 1
    BY <1>1, <2>1, Leaves
  <2> QED
    BY <2>2, <2>3
<1>3. At(Gauged)' = At(Gauged) /\ At(Open)' = At(Open) /\ At({"waiting"})' = At({"waiting"})
  <2>1. /\ "done" \notin Gauged /\ "releasing" \notin Gauged
        /\ "done" \notin Open /\ "releasing" \notin Open
    BY DEF Gauged, Open
  <2>2. At(Gauged)' = At(Gauged) /\ At(Open)' = At(Open)
    BY <1>1, <2>1, Stays
  <2>3. At({"waiting"})' = At({"waiting"})
    BY <1>1, NotWaiting
  <2> QED
    BY <2>2, <2>3
<1>4. /\ Cardinality(At(Holding)) \in Nat /\ Cardinality(At(Holding)') \in Nat
      /\ permits + Cardinality(At(Holding)) = Workers
  <2>1. IsFiniteSet(At(Holding)) /\ Cardinality(At(Holding)) \in Nat
    BY Finite
  <2>2. Cardinality(At(Holding) \ {t}) \in Nat
    BY <2>1, FS_Subset, FS_CardinalityType
  <2> QED
    BY <1>2, <2>1, <2>2 DEF QueueInv, Counted
<1>5. permits' + Cardinality(At(Holding)') = Workers /\ permits' \in 0..Workers
  BY <1>1, <1>2, <1>4 DEF WebhookQueueAssumption
<1>6. Counted'
  BY <1>1, <1>3, <1>5 DEF QueueInv, Counted
<1>7. TypeOK'
  <2>1. pc' \in [Tasks -> Pcs]
    BY <1>1 DEF TypeOK, Pcs
  <2> QED
    BY <1>1, <1>3, <1>5, <2>1 DEF TypeOK
<1>8. InLine' /\ Told'
  BY <1>1 DEF QueueInv, InLine, Told, TypeOK
<1> QED
  BY <1>1, <1>2, <1>6, <1>7, <1>8 DEF QueueInv

LEMMA HandingOnKeeps ==
  ASSUME WebhookQueueAssumption, QueueInv, NEW t \in Tasks, DropPermit(t), waiters # <<>>
  PROVE  /\ QueueInv'
         /\ At(Holding)' = (At(Holding) \ {t}) \cup {Head(waiters)}
         /\ waiters' = Tail(waiters)
<1> DEFINE w == Head(waiters)
<1>1. /\ pc' = [pc EXCEPT ![t] = "done", ![w] = "granted"] /\ waiters' = Tail(waiters)
      /\ pc[t] = "releasing" /\ UNCHANGED <<permits, attempt, metrics, received>>
  BY DEF DropPermit
<1>2. /\ TypeOK /\ waiters \in Seq(Tasks) /\ pc \in [Tasks -> Pcs]
      /\ {waiters[i] : i \in DOMAIN waiters} = At({"waiting"})
      /\ Len(waiters) = Cardinality(At({"waiting"}))
  BY DEF QueueInv, TypeOK
<1>3. /\ waiters' \in Seq(Tasks) /\ Len(waiters') = Len(waiters) - 1
      /\ w \in At({"waiting"})
      /\ {waiters'[i] : i \in DOMAIN waiters'} = At({"waiting"}) \ {w}
      /\ \A i, j \in DOMAIN waiters' : waiters'[i] = waiters'[j] => i = j
  <2>1. \A i, j \in DOMAIN waiters : waiters[i] = waiters[j] => i = j
    BY DEF QueueInv, InLine
  <2>2. /\ Tail(waiters) \in Seq(Tasks) /\ Len(Tail(waiters)) = Len(waiters) - 1
        /\ w \in {waiters[i] : i \in DOMAIN waiters}
        /\ {Tail(waiters)[i] : i \in DOMAIN Tail(waiters)} = {waiters[i] : i \in DOMAIN waiters} \ {w}
        /\ \A i, j \in DOMAIN Tail(waiters) : Tail(waiters)[i] = Tail(waiters)[j] => i = j
    BY <1>2, <2>1, HeadRemoved
  <2> QED
    BY <1>1, <1>2, <2>2
<1> HIDE DEF w
<1>4. w \in Tasks /\ pc[w] = "waiting" /\ w # t
  BY <1>1, <1>3 DEF At
<1>5. \A u \in Tasks : pc'[u] = IF u = w THEN "granted" ELSE IF u = t THEN "done" ELSE pc[u]
  BY <1>1, <1>2, <1>4
<1>6. pc' \in [Tasks -> Pcs]
  BY <1>1, <1>2, <1>4 DEF Pcs
<1>7. At({"waiting"})' = At({"waiting"}) \ {w}
  <2>1. \A u \in Tasks : (u = w \/ u = t) => pc'[u] # "waiting"
    BY <1>4, <1>5
  <2>2. \A u \in Tasks : (u # w /\ u # t) => pc'[u] = pc[u]
    BY <1>5
  <2>3. pc[t] # "waiting"
    BY <1>1
  <2> QED
    BY <2>1, <2>2, <2>3 DEF At
<1>8. Cardinality(At({"waiting"})') = Cardinality(At({"waiting"})) - 1
  BY <1>3, <1>7, Finite, FS_RemoveElement
<1>9. At(Holding)' = (At(Holding) \ {t}) \cup {w}
  <2>1. "granted" \in Holding /\ "done" \notin Holding
    BY DEF Holding
  <2> QED
    BY <1>4, <1>5, <2>1 DEF At
<1>10. Cardinality(At(Holding)') = Cardinality(At(Holding))
  <2>1. t \in At(Holding) /\ w \notin At(Holding)
    BY <1>1, <1>4 DEF At, Holding
  <2>2. Cardinality(At(Holding) \ {t}) = Cardinality(At(Holding)) - 1 /\ IsFiniteSet(At(Holding) \ {t})
    BY <2>1, Finite, FS_RemoveElement
  <2>3. w \notin At(Holding) \ {t}
    BY <2>1
  <2>4. Cardinality((At(Holding) \ {t}) \cup {w}) = Cardinality(At(Holding) \ {t}) + 1
    BY <2>2, <2>3, FS_AddElement
  <2>5. Cardinality(At(Holding)) \in Nat
    BY Finite
  <2> QED
    BY <1>9, <2>2, <2>4, <2>5
<1>11. At(Gauged)' = At(Gauged)
  <2>1. /\ "done" \notin Gauged /\ "granted" \notin Gauged
        /\ pc[t] \notin Gauged /\ pc[w] \notin Gauged
    BY <1>1, <1>4 DEF Gauged
  <2> QED
    BY <1>5, <2>1 DEF At
<1>12. At(Open)' = At(Open)
  <2>1. /\ "done" \notin Open /\ "granted" \notin Open
        /\ pc[t] \notin Open /\ pc[w] \notin Open
    BY <1>1, <1>4 DEF Open
  <2> QED
    BY <1>5, <2>1 DEF At
<1>13. Counted'
  BY <1>1, <1>10, <1>11, <1>12 DEF QueueInv, Counted
<1>14. TypeOK'
  BY <1>1, <1>2, <1>3, <1>6, <1>7, <1>8 DEF TypeOK
<1>15. InLine'
  <2>1. ~(permits > 0)
    BY DEF QueueInv, InLine
  <2> QED
    BY <1>1, <1>3, <2>1 DEF InLine
<1>16. Told'
  <2> SUFFICES ASSUME NEW u \in Tasks
               PROVE  /\ pc'[u] = "backoff" => attempt[u] < MaxRetries
                      /\ received[u] <= MostHeard(attempt[u] + 1)
                      /\ pc'[u] \in {"none", "spawned", "waiting", "granted", "counted", "sending"}
                           => received[u] <= MostHeard(attempt[u])
    BY <1>1 DEF Told
  <2>1. CASE u = w
    BY <1>4, <1>5, <2>1 DEF QueueInv, Told
  <2>2. CASE u = t
    BY <1>4, <1>5, <2>2 DEF QueueInv, Told
  <2>3. CASE u # w /\ u # t
    BY <1>5, <2>3 DEF QueueInv, Told
  <2> QED
    BY <2>1, <2>2, <2>3
<1> QED
  BY <1>1, <1>9, <1>13, <1>14, <1>15, <1>16 DEF QueueInv, w

LEMMA StopKeeps ==
  ASSUME WebhookQueueAssumption, QueueInv, Stop
  PROVE  QueueInv' /\ At(Holding)' = {} /\ waiters' = <<>>
<1>1. /\ pc' = [t \in Tasks |-> IF pc[t] \in {"none", "done"} THEN pc[t] ELSE "lost"]
      /\ waiters' = <<>> /\ permits' = Workers
      /\ enqueued' = 0 /\ delivered' = 0 /\ failed' = 0 /\ inFlight' = 0
      /\ UNCHANGED <<attempt, received>>
  BY DEF Stop
<1>2. \A t \in Tasks : pc'[t] \in {"none", "done", "lost"} /\ (pc'[t] = "none" => pc[t] = "none")
  BY <1>1
<1>3. /\ At({"waiting"})' = {} /\ At(Holding)' = {} /\ At(Gauged)' = {} /\ At(Open)' = {}
  BY <1>2 DEF At, Holding, Gauged, Open
<1>4. Cardinality({}) = 0 /\ Workers \in Nat
  BY FS_EmptySet DEF WebhookQueueAssumption
<1>5. Counted'
  BY <1>1, <1>3, <1>4 DEF Counted
<1>6. TypeOK'
  <2>1. /\ waiters' \in Seq(Tasks) /\ Len(waiters') = 0
        /\ {waiters'[i] : i \in DOMAIN waiters'} = {}
    BY <1>1
  <2>2. pc' \in [Tasks -> Pcs]
    BY <1>1, <1>2 DEF Pcs
  <2>3. attempt' \in [Tasks -> 0..MaxRetries] /\ received' \in [Tasks -> Nat]
    BY <1>1 DEF QueueInv, TypeOK
  <2>4. permits' \in 0..Workers
    BY <1>1, <1>4
  <2>5. enqueued' \in Nat /\ delivered' \in Nat /\ failed' \in Nat /\ inFlight' \in Nat
    BY <1>1
  <2>6. /\ {waiters'[i] : i \in DOMAIN waiters'} = At({"waiting"})'
        /\ Len(waiters') = Cardinality(At({"waiting"})')
    BY <1>3, <1>4, <2>1
  <2> QED
    BY <2>1, <2>2, <2>3, <2>4, <2>5, <2>6 DEF TypeOK
<1>7. InLine' /\ Told'
  <2>1. InLine'
    BY <1>1 DEF InLine
  <2>2. Told'
    BY <1>1, <1>2 DEF QueueInv, Told
  <2> QED
    BY <2>1, <2>2
<1> QED
  BY <1>1, <1>3, <1>5, <1>6, <1>7 DEF QueueInv

LEMMA QueueStep ==
  ASSUME WebhookQueueAssumption, QueueInv, [Next]_vars
  PROVE  QueueInv'
<1>1. ASSUME NEW t \in Tasks, Acquire(t) PROVE QueueInv'
  <2>1. permits > 0 \/ permits = 0
    BY <1>1 DEF Acquire
  <2> QED
    BY <1>1, <2>1, GrantedKeeps, JoiningKeeps
<1>2. ASSUME NEW t \in Tasks, DropPermit(t) PROVE QueueInv'
  BY <1>2, ReturnKeeps, HandingOnKeeps
<1>3. ASSUME NEW t \in Tasks, CountDelivered(t) \/ CountFailed(t) PROVE QueueInv'
  BY <1>3, VerdictKeeps
<1>4. CASE UNCHANGED vars
  <2>1. \A S : At(S)' = At(S)
    BY <1>4 DEF vars, At
  <2>2. TypeOK'
    BY <1>4, <2>1 DEF vars, QueueInv, TypeOK
  <2>3. Counted'
    BY <1>4, <2>1 DEF vars, QueueInv, Counted
  <2>4. InLine' /\ Told'
    BY <1>4 DEF vars, QueueInv, InLine, Told
  <2> QED
    BY <2>2, <2>3, <2>4 DEF QueueInv
<1> QED
  BY <1>1, <1>2, <1>3, <1>4, EnqueueKeeps, CountInFlightKeeps, CountEnqueuedKeeps, DeliverKeeps,
     BackoffKeeps, DropGuardKeeps, StopKeeps DEF Next, Step

THEOREM QueueSound == Spec => []QueueInv
<1>1. Init => QueueInv
  BY WebhookQueueAssumption, QueueInit
<1>2. QueueInv /\ [Next]_vars => QueueInv'
  BY WebhookQueueAssumption, QueueStep
<1> QED
  BY <1>1, <1>2, PTL DEF Spec

\* The tasks, the line and the counters keep their shapes.
THEOREM TypeCorrect == Spec => []TypeOK
<1>1. QueueInv => TypeOK
  BY DEF QueueInv
<1> QED
  BY <1>1, QueueSound, PTL

\* No permit is lost or made up, and none is free beside a line (the Semaphore).
THEOREM PermitsAreConserved == Spec => []PermitsConserved
<1>1. QueueInv => PermitsConserved
  BY DEF QueueInv, Counted, InLine, PermitsConserved
<1> QED
  BY <1>1, QueueSound, PTL

\* Never more deliveries under way than webhook_workers, nor in the gauge.
THEOREM WorkersSuffice == Spec => []AtMostWorkers
<1>1. ASSUME QueueInv PROVE AtMostWorkers
  <2>1. permits \in Nat /\ permits + Cardinality(At(Holding)) = Workers /\ Workers \in Nat
    BY <1>1, WebhookQueueAssumption DEF QueueInv, Counted, TypeOK
  <2>2. Cardinality(At(Gauged)) <= Cardinality(At(Holding)) /\ Cardinality(At(Gauged)) \in Nat
    <3>1. At(Gauged) \subseteq At(Holding)
      BY DEF At, Gauged, Holding
    <3> QED
      BY <3>1, WebhookQueueAssumption, Finite, FS_Subset
  <2>3. Cardinality(At(Holding)) \in Nat /\ inFlight = Cardinality(At(Gauged))
    BY <1>1, WebhookQueueAssumption, Finite DEF QueueInv, Counted
  <2> QED
    BY <2>1, <2>2, <2>3 DEF AtMostWorkers
<1> QED
  BY <1>1, QueueSound, PTL

\* Between any two updates the counters account for everything that was enqueued
\* (deliver_with_retry, whatever is in flight when /metrics reads one of them).
THEOREM MetricsAreSound == Spec => []MetricsAddUp
<1>1. ASSUME QueueInv PROVE MetricsAddUp
  <2> DEFINE o == Cardinality(At(Open))
             g == Cardinality(At(Gauged))
  <2>1. o \in Nat /\ g \in Nat /\ o <= g
    <3>1. At(Open) \subseteq At(Gauged)
      BY DEF At, Gauged, Open
    <3> QED
      BY <3>1, WebhookQueueAssumption, Finite, FS_Subset
  <2>2. inFlight = g /\ enqueued = delivered + failed + o
    BY <1>1 DEF QueueInv, Counted
  <2>3. delivered \in Nat /\ failed \in Nat
    BY <1>1 DEF QueueInv, TypeOK
  <2> HIDE DEF o, g
  <2>4. delivered + failed \in Nat
    BY <2>3
  <2>5. enqueued <= delivered + failed + inFlight
    BY <2>1, <2>2, <2>4
  <2>6. inFlight = 0 => enqueued = delivered + failed
    BY <2>1, <2>2, <2>4
  <2> QED
    BY <2>5, <2>6 DEF MetricsAddUp
<1> QED
  BY <1>1, QueueSound, PTL

----------------------------------------------------------------------------
(* The queue implements Delivery.  A delivery has asked once it has tried  *)
(* to take a permit; it is under way as long as it has one.                *)

Asked == Tasks \ At({"none", "spawned"})

\* The instance has its own copy of Cardinality.
LEMMA SameCardinality == \A S : Queue!Cardinality(S) = Cardinality(S)
  BY Zenon DEF Queue!Cardinality, Cardinality

LEMMA DeliveryInit == ASSUME Init PROVE Queue!Init
<1>1. At({"none", "spawned"}) = Tasks /\ At(Holding) = {}
  BY DEF Init, At, Holding
<1> QED
  BY <1>1 DEF Init, Queue!Init

\* A step of a task that has its permit before and after is unseen, or a Tell.
LEMMA Unseen ==
  ASSUME QueueInv, NEW t \in Tasks, NEW label, pc' = [pc EXCEPT ![t] = label],
         label \in Holding, pc[t] \in Holding, UNCHANGED <<waiters, received>>
  PROVE  UNCHANGED Queue!vars
<1>1. TypeOK
  BY DEF QueueInv
<1>2. label \notin {"none", "spawned"} /\ pc[t] \notin {"none", "spawned"}
  BY DEF Holding
<1>3. At({"none", "spawned"})' = At({"none", "spawned"})
  BY <1>1, <1>2, Stays
<1>4. At(Holding)' = At(Holding)
  BY <1>1, Stays
<1> QED
  BY <1>3, <1>4 DEF Queue!vars

LEMMA DeliverIsTell ==
  ASSUME WebhookQueueAssumption, QueueInv, NEW t \in Tasks, Deliver(t)
  PROVE  Queue!Tell(t) \/ UNCHANGED Queue!vars
<1>1. PICK label \in {"ok", "backoff", "exhausted"} : pc' = [pc EXCEPT ![t] = label]
  BY DEF Deliver, Goto, MayRetry
<1>2. pc[t] = "sending" /\ TypeOK /\ UNCHANGED waiters
  BY DEF Deliver, QueueInv
<1>3. label \in Holding /\ pc[t] \in Holding
  BY <1>2 DEF Holding
<1>4. label \notin {"none", "spawned"} /\ pc[t] \notin {"none", "spawned"}
  BY <1>2
<1>5. At(Holding)' = At(Holding)
  BY <1>1, <1>2, <1>3, Stays
<1>6. At({"none", "spawned"})' = At({"none", "spawned"})
  BY <1>1, <1>2, <1>4, Stays
<1>7. PICK seen \in 0..Requests : received' = [received EXCEPT ![t] = @ + seen]
  BY HeardFacts DEF Deliver
<1>8. CASE seen = 0
  <2>1. received' = received
    BY <1>2, <1>7, <1>8 DEF TypeOK
  <2> QED
    BY <1>1, <1>2, <1>3, <2>1, Unseen
<1>9. CASE seen # 0
  <2>1. PICK heard : heard = received[t] + seen
    OBVIOUS
  <2>2. heard \in (received[t] + 1)..MostHeard(MaxRetries + 1)
    <3>1. /\ attempt[t] \in Nat /\ attempt[t] <= MaxRetries /\ received[t] \in Nat
          /\ received[t] <= MostHeard(attempt[t])
      BY <1>2 DEF QueueInv, Told, TypeOK, WebhookQueueAssumption
    <3>2. /\ MostHeard(attempt[t]) \in Nat /\ Requests \in Nat
          /\ MostHeard(attempt[t] + 1) = MostHeard(attempt[t]) + Requests
          /\ MostHeard(attempt[t] + 1) <= MostHeard(MaxRetries + 1)
          /\ MostHeard(MaxRetries + 1) \in Nat
      BY <3>1, HeardFacts DEF WebhookQueueAssumption
    <3>3. seen \in Nat /\ seen >= 1 /\ seen <= Requests
      BY <1>9, <3>2
    <3> QED
      BY <2>1, <3>1, <3>2, <3>3
  <2>3. received' = [received EXCEPT ![t] = heard]
    BY <1>7, <2>1
  <2>4. t \in At(Holding)
    BY <1>3 DEF At
  <2> QED
    BY <1>2, <1>5, <1>6, <2>2, <2>3, <2>4 DEF Queue!Tell
<1> QED
  BY <1>8, <1>9

LEMMA AcquireIsAsk ==
  ASSUME WebhookQueueAssumption, QueueInv, NEW t \in Tasks, Acquire(t)
  PROVE  Queue!Ask(t)
<1>1. TypeOK /\ pc[t] = "spawned" /\ UNCHANGED received
  BY DEF Acquire, QueueInv
<1>2. t \notin Asked /\ Asked' = Asked \cup {t}
  <2>1. PICK label \in {"granted", "waiting"} : pc' = [pc EXCEPT ![t] = label]
    BY DEF Acquire, Goto
  <2>2. At({"none", "spawned"})' = At({"none", "spawned"}) \ {t} /\ t \in At({"none", "spawned"})
    BY <1>1, <2>1, OneMoves
  <2> QED
    BY <2>2 DEF Asked
<1>3. permits \in Nat /\ Cardinality(At(Holding)) \in Nat /\ permits + Cardinality(At(Holding)) = Workers
  BY <1>1, Finite DEF QueueInv, Counted, TypeOK
<1>4. CASE permits > 0
  <2>1. /\ At(Holding)' = At(Holding) \cup {t} /\ waiters = <<>> /\ waiters' = waiters
        /\ Cardinality(At(Holding)) < Workers
    BY <1>3, <1>4, GrantedKeeps DEF WebhookQueueAssumption
  <2>2. Queue!Room
    BY <2>1, SameCardinality DEF Queue!Room
  <2>3. Tasks \ At({"none", "spawned"})' = (Tasks \ At({"none", "spawned"})) \cup {t}
        /\ t \notin Tasks \ At({"none", "spawned"})
    BY <1>2 DEF Asked
  <2> QED
    BY <1>1, <2>1, <2>2, <2>3, Zenon DEF Queue!Ask
<1>5. CASE permits = 0
  <2>1. /\ At(Holding)' = At(Holding) /\ waiters' = Append(waiters, t)
        /\ ~(Cardinality(At(Holding)) < Workers)
    BY <1>3, <1>5, JoiningKeeps DEF WebhookQueueAssumption
  <2>2. ~Queue!Room
    BY <2>1, SameCardinality DEF Queue!Room
  <2>3. Tasks \ At({"none", "spawned"})' = (Tasks \ At({"none", "spawned"})) \cup {t}
        /\ t \notin Tasks \ At({"none", "spawned"})
    BY <1>2 DEF Asked
  <2> QED
    BY <1>1, <2>1, <2>2, <2>3, Zenon DEF Queue!Ask
<1> QED
  BY <1>3, <1>4, <1>5

LEMMA DropPermitIsEnd ==
  ASSUME WebhookQueueAssumption, QueueInv, NEW t \in Tasks, DropPermit(t)
  PROVE  Queue!End(t)
<1>1. TypeOK /\ pc[t] = "releasing" /\ UNCHANGED received /\ t \in At(Holding)
  BY DEF DropPermit, QueueInv, At, Holding
<1>2. CASE waiters = <<>>
  <2>1. At(Holding)' = At(Holding) \ {t} /\ waiters' = waiters
    BY <1>2, ReturnKeeps
  <2>2. pc' = [pc EXCEPT ![t] = "done"]
    BY <1>2 DEF DropPermit, Goto
  <2>3. "done" \notin {"none", "spawned"} /\ pc[t] \notin {"none", "spawned"}
    BY <1>1
  <2>4. At({"none", "spawned"})' = At({"none", "spawned"})
    BY <1>1, <2>2, <2>3, Stays
  <2> QED
    BY <1>1, <1>2, <2>1, <2>4 DEF Queue!End
<1>3. CASE waiters # <<>>
  <2> DEFINE w == Head(waiters)
  <2>1. At(Holding)' = (At(Holding) \ {t}) \cup {w} /\ waiters' = Tail(waiters)
    BY <1>3, HandingOnKeeps
  <2>2. pc' = [pc EXCEPT ![t] = "done", ![w] = "granted"]
    BY <1>3 DEF DropPermit
  <2>3. w \in Tasks /\ pc[w] = "waiting"
    <3>1. w \in {waiters[i] : i \in DOMAIN waiters}
      BY <1>1, <1>3, HeadRemoved DEF QueueInv, InLine, TypeOK
    <3> QED
      BY <1>1, <3>1 DEF TypeOK, At
  <2> HIDE DEF w
  <2>4. At({"none", "spawned"})' = At({"none", "spawned"})
    <3>1. \A u \in Tasks : pc'[u] = IF u = w THEN "granted" ELSE IF u = t THEN "done" ELSE pc[u]
      BY <1>1, <2>2, <2>3 DEF TypeOK
    <3>2. \A u \in Tasks : (u = w \/ u = t) => pc'[u] \notin {"none", "spawned"}
      BY <3>1
    <3>3. \A u \in Tasks : (u # w /\ u # t) => pc'[u] = pc[u]
      BY <3>1
    <3>4. pc[w] \notin {"none", "spawned"} /\ pc[t] \notin {"none", "spawned"}
      BY <1>1, <2>3
    <3> QED
      BY <3>2, <3>3, <3>4 DEF At
  <2> QED
    BY <1>1, <1>3, <2>1, <2>4 DEF Queue!End, w
<1> QED
  BY <1>2, <1>3

LEMMA StopIsStop ==
  ASSUME WebhookQueueAssumption, QueueInv, Stop
  PROVE  Queue!Stop
<1>1. At(Holding)' = {} /\ waiters' = <<>> /\ UNCHANGED received
  BY StopKeeps DEF Stop
<1>2. At({"none", "spawned"})' \subseteq At({"none", "spawned"})
  BY DEF Stop, At
<1> QED
  BY <1>1, <1>2 DEF Queue!Stop

LEMMA DeliveryStep ==
  ASSUME WebhookQueueAssumption, QueueInv, [Next]_vars
  PROVE  [Queue!Next]_(Queue!vars)
<1>1. ASSUME NEW t \in Tasks, Enqueue(t) PROVE UNCHANGED Queue!vars
  <2>1. pc' = [pc EXCEPT ![t] = "spawned"] /\ pc[t] = "none" /\ TypeOK /\ UNCHANGED <<waiters, received>>
    BY <1>1 DEF Enqueue, Goto, QueueInv
  <2>2. At({"none", "spawned"})' = At({"none", "spawned"})
    BY <2>1, Stays
  <2>3. At(Holding)' = At(Holding)
    BY <1>1, EnqueueKeeps
  <2> QED
    BY <2>1, <2>2, <2>3 DEF Queue!vars
<1>2. ASSUME NEW t \in Tasks,
             \/ CountInFlight(t) \/ CountEnqueued(t) \/ Backoff(t)
             \/ CountDelivered(t) \/ CountFailed(t) \/ DropGuard(t)
      PROVE  UNCHANGED Queue!vars
  <2>1. UNCHANGED <<waiters, received>> /\ pc[t] \in Holding
    BY <1>2 DEF CountInFlight, CountEnqueued, Backoff, CountDelivered, CountFailed, DropGuard, Holding
  <2>2. \E label \in Holding : pc' = [pc EXCEPT ![t] = label]
    BY <1>2 DEF CountInFlight, CountEnqueued, Backoff, CountDelivered, CountFailed, DropGuard,
                Goto, Holding
  <2> QED
    BY <2>1, <2>2, Unseen
<1>3. ASSUME NEW t \in Tasks, Deliver(t) PROVE Queue!Tell(t) \/ UNCHANGED Queue!vars
  BY <1>3, DeliverIsTell
<1>4. CASE UNCHANGED vars
  BY <1>4 DEF vars, Queue!vars, At
<1> QED
  BY <1>1, <1>2, <1>3, <1>4, AcquireIsAsk, DropPermitIsEnd, StopIsStop DEF Next, Step, Queue!Next

\* The tasks with their permits, retries and sleeps do what Delivery promises.
THEOREM QueueImplementsDelivery == Spec => ImplementsDelivery
<1>1. Init => Queue!Init
  BY DeliveryInit
<1>2. QueueInv /\ [Next]_vars => [Queue!Next]_(Queue!vars)
  BY WebhookQueueAssumption, DeliveryStep
<1> QED
  BY <1>1, <1>2, QueueSound, PTL DEF Spec, ImplementsDelivery, Queue!Spec

----------------------------------------------------------------------------
(* Why every delivery ends.  Its end under fairness is TLC's to check; the *)
(* two facts behind it hold for any number of deliveries, workers and      *)
(* retries: each delivery has a bounded number of steps left, which its    *)
(* own steps use up and nobody else's raise, and as long as some delivery  *)
(* has not ended there is one that need not wait.                          *)

LEMMA LeftType ==
  ASSUME WebhookQueueAssumption, TypeOK, NEW t \in Tasks
  PROVE  Left(t) \in Nat
<1>1. attempt[t] \in 0..MaxRetries /\ MaxRetries \in Nat /\ pc[t] \in Pcs
  BY DEF TypeOK, WebhookQueueAssumption
<1>2. MaxRetries - attempt[t] \in Nat
  BY <1>1
<1> QED
  BY <1>1, <1>2 DEF Left, WayIn, WayOut, Pcs

\* A task whose place and attempt are not touched has as much before it as it had.
LEMMA KeepsLeft ==
  ASSUME NEW t \in Tasks, pc'[t] = pc[t], attempt'[t] = attempt[t]
  PROVE  Left(t)' = Left(t)
  BY DEF Left

\* Every move a task makes, of itself or when it is handed a permit, is one down.
Move(t) ==
  \/ /\ attempt'[t] = attempt[t]
     /\ <<pc[t], pc'[t]>> \in
          { <<"none", "spawned">>, <<"spawned", "waiting">>, <<"spawned", "granted">>,
            <<"waiting", "granted">>, <<"granted", "counted">>, <<"counted", "sending">>,
            <<"sending", "ok">>, <<"sending", "exhausted">>, <<"sending", "backoff">>,
            <<"ok", "closing">>, <<"exhausted", "closing">>, <<"closing", "releasing">>,
            <<"releasing", "done">> }
  \/ attempt'[t] = attempt[t] + 1 /\ pc[t] = "backoff" /\ pc'[t] = "sending"

LEMMA MovesCountDown ==
  ASSUME WebhookQueueAssumption, TypeOK, TypeOK', NEW t \in Tasks, Move(t)
  PROVE  Left(t)' < Left(t) /\ Left(t)' <= Left(t)
<1>1. /\ attempt[t] \in Nat /\ attempt[t] <= MaxRetries /\ attempt'[t] \in Nat /\ attempt'[t] <= MaxRetries
      /\ MaxRetries \in Nat
  BY DEF TypeOK, WebhookQueueAssumption
<1>2. CASE attempt'[t] = attempt[t] + 1 /\ pc[t] = "backoff" /\ pc'[t] = "sending"
  <2>1. Left(t) = 2 * (MaxRetries - attempt[t]) + 3
    BY <1>2 DEF Left, WayIn, WayOut
  <2>2. Left(t)' = 2 * (MaxRetries - attempt'[t]) + 4
    BY <1>2 DEF Left, WayIn, WayOut
  <2> QED
    BY <1>1, <1>2, <2>1, <2>2
<1>3. CASE attempt'[t] = attempt[t] /\ pc[t] \in DOMAIN WayIn /\ pc'[t] \in DOMAIN WayIn
  <2>1. WayIn[pc'[t]] < WayIn[pc[t]] /\ WayIn[pc'[t]] \in Nat /\ WayIn[pc[t]] \in Nat
    BY <1>1, <1>3 DEF Move, WayIn
  <2>2. Left(t) = 2 * (MaxRetries - attempt[t]) + WayIn[pc[t]]
    BY <1>3 DEF Left, WayIn, WayOut
  <2>3. Left(t)' = 2 * (MaxRetries - attempt[t]) + WayIn[pc'[t]]
    BY <1>3 DEF Left, WayIn, WayOut
  <2> QED
    BY <1>1, <2>1, <2>2, <2>3
<1>4. CASE attempt'[t] = attempt[t] /\ pc[t] = "sending" /\ pc'[t] \in {"ok", "exhausted"}
  <2>1. Left(t) = 2 * (MaxRetries - attempt[t]) + 4 /\ Left(t)' = 3
    BY <1>4 DEF Left, WayIn, WayOut
  <2> QED
    BY <1>1, <2>1
<1>5. CASE attempt'[t] = attempt[t] /\ pc[t] \in DOMAIN WayOut /\ pc'[t] \in DOMAIN WayOut
  BY <1>1, <1>5 DEF Move, Left, WayOut
<1> QED
  BY <1>2, <1>3, <1>4, <1>5 DEF Move, WayIn, WayOut

LEMMA StepsMove ==
  ASSUME QueueInv, NEW t \in Tasks, Enqueue(t) \/ Step(t)
  PROVE  /\ Move(t)
         /\ \A u \in Tasks \ {t} : Move(u) \/ (pc'[u] = pc[u] /\ attempt'[u] = attempt[u])
<1>1. TypeOK /\ pc \in [Tasks -> Pcs] /\ attempt \in [Tasks -> 0..MaxRetries]
  BY DEF QueueInv, TypeOK
<1>2. CASE Enqueue(t) \/ Acquire(t) \/ CountInFlight(t) \/ CountEnqueued(t)
  BY <1>1, <1>2 DEF Enqueue, Acquire, CountInFlight, CountEnqueued, Goto, Move
<1>3. CASE Deliver(t)
  <2>1. PICK label \in {"ok", "backoff", "exhausted"} : pc' = [pc EXCEPT ![t] = label]
    BY <1>3 DEF Deliver, Goto
  <2> QED
    BY <1>1, <1>3, <2>1 DEF Deliver, Move
<1>4. CASE Backoff(t)
  BY <1>1, <1>4 DEF Backoff, Goto, Move
<1>5. CASE CountDelivered(t) \/ CountFailed(t) \/ DropGuard(t)
  BY <1>1, <1>5 DEF CountDelivered, CountFailed, DropGuard, Goto, Move
<1>6. CASE DropPermit(t) /\ waiters = <<>>
  BY <1>1, <1>6 DEF DropPermit, Goto, Move
<1>7. CASE DropPermit(t) /\ waiters # <<>>
  <2> DEFINE w == Head(waiters)
  <2>1. pc[t] = "releasing" /\ attempt' = attempt /\ pc' = [pc EXCEPT ![t] = "done", ![w] = "granted"]
    BY <1>7 DEF DropPermit
  <2>2. w \in Tasks /\ pc[w] = "waiting"
    <3>1. w \in {waiters[i] : i \in DOMAIN waiters}
      BY <1>1, <1>7, HeadRemoved DEF QueueInv, InLine, TypeOK
    <3> QED
      BY <1>1, <3>1 DEF TypeOK, At
  <2> HIDE DEF w
  <2>3. \A u \in Tasks : pc'[u] = IF u = w THEN "granted" ELSE IF u = t THEN "done" ELSE pc[u]
    BY <1>1, <2>1, <2>2
  <2> QED
    BY <2>1, <2>2, <2>3 DEF Move
<1> QED
  BY <1>2, <1>3, <1>4, <1>5, <1>6, <1>7 DEF Step

LEMMA OthersKeepOrMove ==
  ASSUME QueueInv, [Next]_vars, NEW u \in Tasks
  PROVE  \/ Move(u)
         \/ pc'[u] = pc[u] /\ attempt'[u] = attempt[u]
         \/ pc[u] # "none" /\ pc'[u] = "lost"
<1>1. CASE UNCHANGED vars
  BY <1>1 DEF vars
<1>2. CASE Stop
  BY <1>2 DEF Stop
<1>3. ASSUME NEW t \in Tasks, Enqueue(t) \/ Step(t)
      PROVE  Move(u) \/ (pc'[u] = pc[u] /\ attempt'[u] = attempt[u])
  BY <1>3, StepsMove
<1> QED
  BY <1>1, <1>2, <1>3 DEF Next

LEMMA LosingCountsDown ==
  ASSUME WebhookQueueAssumption, TypeOK, NEW t \in Tasks, pc'[t] = "lost"
  PROVE  Left(t)' <= Left(t)
<1>1. Left(t)' = 0
  BY DEF Left, WayOut
<1> QED
  BY <1>1, LeftType

\* A delivery that is announced has at most 2 * MaxRetries + 9 steps before it, each step
\* of its own uses one up, and no step of another delivery, of an endpoint or of the
\* process ever gives it more (the loop of deliver_with_retry, the permit it holds).
THEOREM DeliveriesCountDown == Spec => StepsRunOut
<1>1. ASSUME QueueInv, QueueInv', [Next]_vars PROVE CountsDown
  <2>1. TypeOK /\ TypeOK' /\ WebhookQueueAssumption
    BY <1>1, WebhookQueueAssumption DEF QueueInv
  <2>2. ASSUME NEW t \in Tasks, Enqueue(t) \/ Step(t) PROVE Left(t)' < Left(t)
    <3>1. Move(t)
      BY <1>1, <2>2, StepsMove
    <3> QED
      BY <2>1, <3>1, MovesCountDown
  <2>3. ASSUME NEW u \in Tasks PROVE Left(u)' <= Left(u)
    <3>1. CASE Move(u)
      BY <2>1, <3>1, MovesCountDown
    <3>2. CASE pc'[u] = pc[u] /\ attempt'[u] = attempt[u]
      <4>1. Left(u)' = Left(u) /\ Left(u) \in Nat
        BY <2>1, <3>2, KeepsLeft, LeftType
      <4> QED
        BY <4>1
    <3>3. CASE pc'[u] = "lost"
      BY <2>1, <3>3, LosingCountsDown
    <3> QED
      BY <1>1, <3>1, <3>2, <3>3, OthersKeepOrMove
  <2> QED
    BY <2>2, <2>3 DEF CountsDown
<1>2. QueueInv /\ QueueInv' /\ [Next]_vars => [CountsDown]_vars
  BY <1>1
<1> QED
  BY <1>2, QueueSound, PTL DEF Spec, StepsRunOut

\* The deliveries that wait for a permit never wait for each other: one that holds a
\* permit is still on its way.
THEOREM DeliveriesDoNotBlock == Spec => []SomeDeliveryGoesOn
<1>1. ASSUME QueueInv, Workers > 0, NEW t \in Tasks, pc[t] = "waiting" PROVE At(Holding) # {}
  <2>1. t \in {waiters[i] : i \in DOMAIN waiters}
    BY <1>1 DEF QueueInv, TypeOK, At
  <2>2. waiters # <<>>
    BY <2>1
  <2>3. permits = 0 /\ permits + Cardinality(At(Holding)) = Workers
    BY <1>1, <2>2 DEF QueueInv, InLine, Counted, TypeOK
  <2>4. Cardinality(At(Holding)) # 0
    BY <1>1, <2>3, WebhookQueueAssumption DEF WebhookQueueAssumption
  <2> QED
    BY <2>4, FS_EmptySet
<1>2. ASSUME QueueInv PROVE SomeDeliveryGoesOn
  <2>1. \A t \in Tasks : pc[t] \in Pcs \ {"none", "done", "lost"} => pc[t] = "waiting" \/ pc[t] \in Holding \cup {"spawned"}
    BY DEF Pcs, Holding
  <2>2. At(Holding) \subseteq At(Holding \cup {"spawned"})
    BY DEF At
  <2> QED
    BY <1>1, <1>2, <2>1, <2>2 DEF SomeDeliveryGoesOn, At
<1> QED
  BY <1>2, QueueSound, PTL
============================================================================
