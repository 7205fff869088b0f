-------------------------- MODULE MCServerPipeline --------------------------
(***************************************************************************)
(* The streams of MCCompressionBody, and for the violation only one kind   *)
(* of message: own, within the cap, and longer on the wire than the cap.   *)
(***************************************************************************)
EXTENDS ServerPipeline, MCCompressionBody

MCLegitimate == [1..2 -> {M(1, 4, 3, 2, FALSE), M(1, 1, 3, 2, FALSE)}]

=============================================================================
