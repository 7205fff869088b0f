---------------------------- MODULE MCRecvLimit ----------------------------
(***************************************************************************)
(* RecvLimit on every body of up to MCBodyLen bits: a header of three      *)
(* bits, flag and two-bit big-endian length.                               *)
(***************************************************************************)
EXTENDS RecvLimit

CONSTANT MCBodyLen

MCDeclaredLen(h) == 2 * h[2] + h[3]
MCBodies == UNION {[1..n -> Byte] : n \in 0..MCBodyLen}

=============================================================================
