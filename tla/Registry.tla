------------------------------ MODULE Registry ------------------------------
(***************************************************************************)
(* What the tables promise, without handlers: a repository is an identity  *)
(* under a name that no other has at the time, webhooks belong to one      *)
(* identity and go with it, and a push to an identity notifies webhooks of *)
(* that identity only.  Every operation takes effect in one step.          *)
(***************************************************************************)
EXTENDS Naturals

CONSTANT Names

VARIABLES
  listed,   \* the repositories there are: an identity and its name
  last,     \* the last identity given to a repository
  hooks,    \* the webhooks there are: an identity, its repository, whether for pushes
  lastHook, \* the last identity given to a webhook
  notices   \* what was ever notified: a webhook, and the repository of the push

vars == <<listed, last, hooks, lastHook, notices>>

Init ==
  /\ listed = {} /\ last = 0
  /\ hooks = {} /\ lastHook = 0
  /\ notices = {}

\* Identities are never given twice, names only after the repository is gone.
Register(n) ==
  /\ \A r \in listed : r.name # n
  /\ last' = last + 1
  /\ listed' = listed \cup {[id |-> last', name |-> n]}
  /\ UNCHANGED <<hooks, lastHook, notices>>

Remove(r) ==
  /\ listed' = listed \ {r}
  /\ hooks' = {k \in hooks : k.repo # r.id}
  /\ UNCHANGED <<last, lastHook, notices>>

Attach(r, push) ==
  /\ lastHook' = lastHook + 1
  /\ hooks' = hooks \cup {[id |-> lastHook', repo |-> r.id, push |-> push]}
  /\ UNCHANGED <<listed, last, notices>>

Detach(k) ==
  /\ hooks' = hooks \ {k}
  /\ UNCHANGED <<listed, last, lastHook, notices>>

\* All the webhooks a listed repository has for pushes hear of one.
Push(r) ==
  /\ notices' = notices \cup {[hook |-> k.id, repo |-> r.id] :
                                k \in {j \in hooks : j.repo = r.id /\ j.push}}
  /\ UNCHANGED <<listed, last, hooks, lastHook>>

Next ==
  \/ \E n \in Names : Register(n)
  \/ \E r \in listed : Remove(r) \/ Push(r) \/ \E push \in BOOLEAN : Attach(r, push)
  \/ \E k \in hooks : Detach(k)

Spec == Init /\ [][Next]_vars
============================================================================
