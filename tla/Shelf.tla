-------------------------------- MODULE Shelf --------------------------------
(***************************************************************************)
(* What the repositories promise about their contents, without tables,     *)
(* directories or handlers: a name stands for at most one repository, only *)
(* a push to it changes what a repository holds, and a new one is empty,   *)
(* unless its place was not cleaned while nobody had the name.  Site does  *)
(* this with a request in one step, RepoStore with several.                *)
(***************************************************************************)
CONSTANTS
  Names,
  Empty     \* the contents of a repository nobody pushed to

VARIABLES
  shelf,    \* the repositories there are: a name and what it holds
  dirty     \* the names whose place was left without a clean-up that was due

vars == <<shelf, dirty>>

Init == shelf = {} /\ dirty = {}

Vacant(n) == \A r \in shelf : r.name # n

\* What was left in an uncleaned place is found by who takes it next.  A name may
\* have more than one place, so that it may stay dirty, or not.
Create(n) ==
  /\ Vacant(n)
  /\ \E r \in shelf' : /\ r.name = n /\ (n \notin dirty => r.content = Empty)
                       /\ shelf' = shelf \cup {r}
  /\ dirty' \in {dirty, dirty \ {n}}

Delete(r) ==
  /\ shelf' = shelf \ {r}
  /\ dirty' \in {dirty, dirty \cup {r.name}}

\* Git takes any update, but none that leaves nothing.
Push(r) ==
  /\ \E s \in shelf' : /\ s.name = r.name /\ s.content # Empty
                       /\ shelf' = (shelf \ {r}) \cup {s}
  /\ UNCHANGED dirty

\* Clean-ups that were due are given up: one that fails, or all of a process that dies.
Neglect ==
  /\ dirty \subseteq dirty'
  /\ \A n \in dirty' \ dirty : Vacant(n)
  /\ UNCHANGED shelf

CleanUp(n) ==
  /\ Vacant(n)
  /\ dirty' = dirty \ {n}
  /\ UNCHANGED shelf

Next ==
  \/ \E n \in Names : Create(n) \/ CleanUp(n)
  \/ \E r \in shelf : Delete(r) \/ Push(r)
  \/ Neglect

Spec == Init /\ [][Next]_vars
============================================================================
