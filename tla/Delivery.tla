------------------------------ MODULE Delivery ------------------------------
(***************************************************************************)
(* What the delivery queue promises, without tasks, permits and retries:   *)
(* deliveries start in the order they asked to, at most Workers are under  *)
(* way, nobody waits while there is room, and an endpoint hears of a       *)
(* delivery only while it is under way, and a bounded number of times.     *)
(***************************************************************************)
EXTENDS Naturals, Sequences, FiniteSets

CONSTANTS
  Tasks, Workers,
  MaxTold   \* how often an endpoint may hear of a delivery

VARIABLES
  asked,   \* the deliveries that have asked to start
  line,    \* those that wait, in the order they asked
  active,  \* those under way
  told     \* told[t]: how often the endpoint of t has heard of it

vars == <<asked, line, active, told>>

Init ==
  /\ asked = {} /\ line = <<>> /\ active = {}
  /\ told = [t \in Tasks |-> 0]

Room == Cardinality(active) < Workers

\* A delivery asks once, and starts at once only if there is room and no line.
Ask(t) ==
  /\ t \notin asked
  /\ asked' = asked \cup {t}
  /\ \/ Room /\ line = <<>> /\ active' = active \cup {t} /\ UNCHANGED line
     \/ ~Room /\ line' = Append(line, t) /\ UNCHANGED active
  /\ UNCHANGED told

Tell(t) ==
  /\ t \in active
  /\ \E heard \in (told[t] + 1)..MaxTold : told' = [told EXCEPT ![t] = heard]
  /\ UNCHANGED <<asked, line, active>>

\* Whoever has waited longest takes the place of the one that ends.
End(t) ==
  /\ t \in active
  /\ \/ line = <<>> /\ active' = active \ {t} /\ UNCHANGED line
     \/ /\ line # <<>>
        /\ active' = (active \ {t}) \cup {Head(line)}
        /\ line' = Tail(line)
  /\ UNCHANGED <<asked, told>>

\* The process stops: nothing that was not ended, nor announced, is ever taken up.
Stop ==
  /\ line' = <<>> /\ active' = {}
  /\ asked \subseteq asked' /\ asked' \subseteq Tasks
  /\ UNCHANGED told

Next == (\E t \in Tasks : Ask(t) \/ Tell(t) \/ End(t)) \/ Stop

Spec == Init /\ [][Next]_vars
============================================================================
