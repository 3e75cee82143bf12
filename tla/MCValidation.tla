---------------------------- MODULE MCValidation ----------------------------
(* Small instances of Validation. *)
EXTENDS Validation

CONSTANTS w1, w2, r1, r2, a

OneWriter  == {w1}
TwoWriters == {w1, w2}
OneRunner  == {r1}
TwoRunners == {r1, r2}
OneRing    == {"logs"}
=============================================================================
