------------------------ MODULE MCValidationService -------------------------
(* Small instances of ValidationService. *)
EXTENDS ValidationService, TLC

CONSTANTS w1, c1, c2

OneWriter  == {w1}
TwoClients == {c1, c2}
OneRing    == {"logs"}

ClientSymmetry == Permutations({c1, c2})
=============================================================================
