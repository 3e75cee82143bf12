----------------------------- MODULE MCLivePush -----------------------------
(* Small instances of LivePush. *)
EXTENDS LivePush

CONSTANTS w1

NoTelemetry  == <<>>
TwoTelemetry == <<"traces", "metrics">>
OneCooldown  == {w1}
=============================================================================
