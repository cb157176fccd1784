---------------------------- MODULE MCRepoStore ----------------------------
(* Instances of RepoStore for TLC: two handlers, names with a directory    *)
(* each, as on a case-sensitive file system.                               *)
EXTENDS RepoStore, TLC

CONSTANTS a, b, h1, h2

TwoHandlers == {h1, h2}
TwoNames    == {a, b}
OneName     == {a}
OnlyA       == {a}
NoName      == {}
TheDirs     == {"a.git", "b.git"}
TheDir      == [n \in Names |-> IF n = a THEN "a.git" ELSE "b.git"]

NoFaults      == {}
OnlyHangUps   == {"disconnect"}
ButReadback   == FaultKinds \ {"readback"}

\* The handlers do the same work; the names differ (Serial).
Symmetry == Permutations(Handlers)
============================================================================
