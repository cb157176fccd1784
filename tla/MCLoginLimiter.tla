--------------------------- MODULE MCLoginLimiter ---------------------------
(* Instances of LoginLimiter for TLC.                                      *)
EXTENDS LoginLimiter, TLC

CONSTANTS h1, h2, h3

TwoHandlers   == {h1, h2}
ThreeHandlers == {h1, h2, h3}

Symmetry == Permutations(Handlers)
============================================================================
