----------------------------- MODULE MCSpanRing -----------------------------
(* Small instances of SpanRing. *)
EXTENDS SpanRing

CONSTANTS k1, k2, a

TwoKeys == {k1, k2}
ShortBatches == {<<k1>>, <<k2>>, <<NoKey>>, <<k1, k1>>, <<NoKey, NoKey>>}
=============================================================================
