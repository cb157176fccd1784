---------------------------- MODULE WebhookQueue ----------------------------
(***************************************************************************)
(* The webhook delivery queue (webhook/deliver.rs, webhook/metrics.rs):    *)
(* one async task per delivery, a semaphore with one permit per worker,    *)
(* up to MaxRetries + 1 attempts, four counters.  An attempt is a request  *)
(* and those of the redirections it is answered with.                      *)
(*                                                                         *)
(* The counters are separate atomics that /metrics reads at any time, so   *)
(* each of their changes is a step.                                        *)
(***************************************************************************)
EXTENDS Naturals, Sequences, FiniteSets

CONSTANTS
  Tasks,        \* deliveries that may be enqueued
  Workers,      \* webhook_workers
  MaxRetries,   \* webhook_max_retries
  MaxRedirects, \* redirections the client follows (10, reqwest's default policy)
  MayStop       \* the process may stop (and be started again)

ASSUME WebhookQueueAssumption ==
  /\ IsFiniteSet(Tasks)
  /\ Workers \in Nat
  /\ MaxRetries \in Nat
  /\ MaxRedirects \in Nat
  /\ MayStop \in BOOLEAN

VARIABLES
  pc,        \* pc[t]: where the async task of delivery t is
  attempt,   \* attempt[t]: the loop variable of deliver_with_retry
  permits,   \* the semaphore: free permits ...
  waiters,   \* ... and the tasks that wait for one, in the order they asked
  enqueued, delivered, failed, inFlight,  \* Metrics
  received   \* the endpoints: how many requests for t reached them

semaphore == <<permits, waiters>>
metrics   == <<enqueued, delivered, failed, inFlight>>
vars      == <<pc, attempt, permits, waiters, enqueued, delivered, failed, inFlight, received>>

Pcs == {"none", "spawned", "waiting", "granted", "counted", "sending", "backoff",
        "ok", "exhausted", "closing", "releasing", "done", "lost"}

Holding == {"granted", "counted", "sending", "backoff", "ok", "exhausted", "closing", "releasing"}

At(S) == {t \in Tasks : pc[t] \in S}

\* The type invariant: nobody waits for a permit twice, and exactly the waiting
\* tasks are in the queue.
TypeOK ==
  /\ pc \in [Tasks -> Pcs]
  /\ attempt \in [Tasks -> 0..MaxRetries]
  /\ permits \in 0..Workers
  /\ waiters \in Seq(Tasks)
  /\ {waiters[i] : i \in DOMAIN waiters} = At({"waiting"})
  /\ Len(waiters) = Cardinality(At({"waiting"}))
  /\ enqueued \in Nat /\ delivered \in Nat /\ failed \in Nat /\ inFlight \in Nat
  /\ received \in [Tasks -> Nat]

\* DeliverQueue::new has run.
Init ==
  /\ pc = [t \in Tasks |-> "none"]
  /\ attempt = [t \in Tasks |-> 0]
  /\ received = [t \in Tasks |-> 0]
  /\ permits = Workers /\ waiters = <<>>
  /\ enqueued = 0 /\ delivered = 0 /\ failed = 0 /\ inFlight = 0

Goto(t, label) == pc' = [pc EXCEPT ![t] = label]

----------------------------------------------------------------------------
(* enqueue: the task is spawned, and asks for a permit when it first runs. *)

Enqueue(t) ==
  /\ pc[t] = "none"
  /\ Goto(t, "spawned")
  /\ UNCHANGED <<attempt, semaphore, metrics, received>>

AcquireNotHeld(t) ==
  /\ pc[t] = "spawned"
  /\ \/ /\ permits > 0
        /\ Goto(t, "granted")
        /\ UNCHANGED waiters
     \/ /\ permits = 0
        /\ waiters' = Append(waiters, t)
        /\ Goto(t, "waiting")
  /\ UNCHANGED <<attempt, permits, metrics, received>>

Acquire(t) ==
  /\ pc[t] = "spawned"
  /\ \/ /\ permits > 0
        /\ permits' = permits - 1
        /\ Goto(t, "granted")
        /\ UNCHANGED waiters
     \/ /\ permits = 0
        /\ waiters' = Append(waiters, t)
        /\ Goto(t, "waiting")
        /\ UNCHANGED permits
  /\ UNCHANGED <<attempt, metrics, received>>

----------------------------------------------------------------------------
(* deliver_with_retry.                                                     *)

CountInFlight(t) ==
  /\ pc[t] = "granted"
  /\ inFlight' = inFlight + 1
  /\ Goto(t, "counted")
  /\ UNCHANGED <<attempt, semaphore, enqueued, delivered, failed, received>>

CountEnqueued(t) ==
  /\ pc[t] = "counted"
  /\ enqueued' = enqueued + 1
  /\ Goto(t, "sending")
  /\ UNCHANGED <<attempt, semaphore, delivered, failed, inFlight, received>>

MayRetryOnceMore(t) == attempt[t] <= MaxRetries

MayRetry(t) == attempt[t] < MaxRetries

\* The requests of an attempt: the first, and one for each redirection.
Requests == MaxRedirects + 1

\* do_deliver answers: an accepting status, or an error.  The endpoint may have
\* had the requests although the answer is an error (a refusing status, a timeout, a
\* redirection too many).
Deliver(t) ==
  /\ pc[t] = "sending"
  /\ \/ /\ \E seen \in 1..Requests : received' = [received EXCEPT ![t] = @ + seen]
        /\ Goto(t, "ok")
     \/ /\ \E seen \in 0..Requests : received' = [received EXCEPT ![t] = @ + seen]
        /\ Goto(t, IF MayRetry(t) THEN "backoff" ELSE "exhausted")
  /\ UNCHANGED <<attempt, semaphore, metrics>>

BackoffUncounted(t) ==
  /\ pc[t] = "backoff"
  /\ Goto(t, "sending")
  /\ UNCHANGED <<attempt, semaphore, metrics, received>>

\* The task sleeps with its permit, then tries again.
Backoff(t) ==
  /\ pc[t] = "backoff"
  /\ attempt' = [attempt EXCEPT ![t] = @ + 1]
  /\ Goto(t, "sending")
  /\ UNCHANGED <<semaphore, metrics, received>>

CountDelivered(t) ==
  /\ pc[t] = "ok"
  /\ delivered' = delivered + 1
  /\ Goto(t, "closing")
  /\ UNCHANGED <<attempt, semaphore, enqueued, failed, inFlight, received>>

CountFailedMissing(t) ==
  /\ pc[t] = "exhausted"
  /\ Goto(t, "closing")
  /\ UNCHANGED <<attempt, semaphore, metrics, received>>

CountFailed(t) ==
  /\ pc[t] = "exhausted"
  /\ failed' = failed + 1
  /\ Goto(t, "closing")
  /\ UNCHANGED <<attempt, semaphore, enqueued, delivered, inFlight, received>>

DropGuardMissing(t) ==
  /\ pc[t] = "closing"
  /\ Goto(t, "releasing")
  /\ UNCHANGED <<attempt, semaphore, metrics, received>>

\* The guard is dropped when deliver_with_retry returns, the permit after it.
DropGuard(t) ==
  /\ pc[t] = "closing"
  /\ inFlight' = inFlight - 1
  /\ Goto(t, "releasing")
  /\ UNCHANGED <<attempt, semaphore, enqueued, delivered, failed, received>>

DropPermitForgotten(t) ==
  /\ pc[t] = "releasing"
  /\ Goto(t, "done")
  /\ UNCHANGED <<attempt, semaphore, metrics, received>>

\* `_permit` is dropped when the task ends, and goes to the task that has waited longest.
DropPermit(t) ==
  /\ pc[t] = "releasing"
  /\ \/ /\ waiters = <<>>
        /\ permits' = permits + 1
        /\ Goto(t, "done")
        /\ UNCHANGED waiters
     \/ /\ waiters # <<>>
        /\ pc' = [pc EXCEPT ![t] = "done", ![Head(waiters)] = "granted"]
        /\ waiters' = Tail(waiters)
        /\ UNCHANGED permits
  /\ UNCHANGED <<attempt, metrics, received>>

----------------------------------------------------------------------------
\* The queue lives in memory: when the process stops (even gracefully, axum waits
\* for requests, not for spawned tasks), what is not done never will be.
Stop ==
  /\ MayStop
  /\ pc' = [t \in Tasks |-> IF pc[t] \in {"none", "done"} THEN pc[t] ELSE "lost"]
  /\ permits' = Workers /\ waiters' = <<>>
  /\ enqueued' = 0 /\ delivered' = 0 /\ failed' = 0 /\ inFlight' = 0
  /\ UNCHANGED <<attempt, received>>

Step(t) ==
  \/ Acquire(t) \/ CountInFlight(t) \/ CountEnqueued(t)
  \/ Deliver(t) \/ Backoff(t)
  \/ CountDelivered(t) \/ CountFailed(t) \/ DropGuard(t) \/ DropPermit(t)

Next == (\E t \in Tasks : Enqueue(t) \/ Step(t)) \/ Stop

\* The runtime polls every task that can go on, a request ends at its timeout and
\* a sleep at its end.  Nothing obliges a push to happen or the process to stop.
Fairness == \A t \in Tasks : WF_vars(Step(t))

Spec == Init /\ [][Next]_vars /\ Fairness

----------------------------------------------------------------------------
(* Properties.                                                             *)

\* Never more deliveries under way than workers, in fact and in the gauge; a
\* delivery holds its permit over all its retries and sleeps.
AtMostWorkers ==
  /\ Cardinality(At(Holding)) <= Workers
  /\ inFlight <= Workers

\* No permit is lost or made up, and none is free while a delivery waits for one.
PermitsConserved ==
  /\ permits + Cardinality(At(Holding)) = Workers
  /\ permits > 0 => waiters = <<>>

\* Whenever /metrics is read between two of the updates: what has been enqueued
\* is accounted for, and exactly so when nothing is in flight.
MetricsAddUp ==
  /\ enqueued <= delivered + failed + inFlight
  /\ inFlight = 0 => enqueued = delivered + failed

\* How many steps a delivery has at most before it, by where it is: two for each retry
\* that is left, until its verdict, and those of the way there and of the way out.
WayOut == [ok |-> 3, exhausted |-> 3, closing |-> 2, releasing |-> 1, done |-> 0, lost |-> 0]

WayIn == [none |-> 9, spawned |-> 8, waiting |-> 7, granted |-> 6, counted |-> 5, sending |-> 4, backoff |-> 3]

Left(t) ==
  IF pc[t] \in DOMAIN WayOut THEN WayOut[pc[t]] ELSE 2 * (MaxRetries - attempt[t]) + WayIn[pc[t]]

\* A delivery has a bounded number of steps before it: each step of its own uses one up,
\* and no step of another delivery or of the process ever gives it more.
CountsDown == \A t \in Tasks : Left(t)' <= Left(t) /\ (Enqueue(t) \/ Step(t) => Left(t)' < Left(t))

StepsRunOut == [][CountsDown]_vars

\* As long as there is a worker at all and some delivery has not come to its end, one of
\* them can go on: it holds a permit, or has not yet asked for one.
SomeDeliveryGoesOn ==
  Workers > 0 /\ At(Pcs \ {"none", "done", "lost"}) # {} => At(Holding \cup {"spawned"}) # {}

\* The most requests k attempts can make.
MostHeard(k) == k * Requests

\* The tasks, permits and retries do what Delivery promises: deliveries start in the
\* order they asked in, at most Workers at once, with no free permit beside a line, and
\* an endpoint hears of one at most once for each of MaxRetries + 1 attempts and each
\* redirection it answers them with, from its start to its end (enqueue,
\* deliver_with_retry, the Semaphore).
Queue == INSTANCE Delivery WITH
  asked   <- Tasks \ At({"none", "spawned"}),
  line    <- waiters,
  active  <- At(Holding),
  told    <- received,
  MaxTold <- MostHeard(MaxRetries + 1)

ImplementsDelivery == Queue!Spec

\* Every delivery that was enqueued comes to its end, whatever the endpoints do
\* and however many wait before it, unless the process stops.
EveryDeliveryEnds ==
  \A t \in Tasks : pc[t] = "spawned" ~> pc[t] \in {"done", "lost"}
============================================================================
