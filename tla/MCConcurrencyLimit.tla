------------------------ MODULE MCConcurrencyLimit ------------------------
EXTENDS ConcurrencyLimit

CONSTANTS r1, r2, r3, r4

MCStreaming == {r1}
MCAllStreaming == Requests

(* At most as many hang as there are permits.  A request that hangs never  *)
(* gets to its body, so which ones hang does not matter.                   *)
MCHangSets == {{}, {r2}, {r2, r3}}

=============================================================================
