---------------------------- MODULE MCConnTracker ---------------------------
(* Small instances of ConnTracker. *)
EXTENDS ConnTracker, TLC

CONSTANTS p1, p2, x, y, q1, q2

TwoProcs    == {p1, p2}
TwoAddrs    == {x, y}
OneAddr     == {x}
TwoRequests == {q1, q2}

ActorSymmetry ==
  Permutations({p1, p2}) \cup Permutations({x, y}) \cup Permutations({q1, q2})
=============================================================================
