------------------------- MODULE MCCompressionBody -------------------------
(***************************************************************************)
(* Streams of up to two messages drawn from kinds that differ in every way *)
(* the adapter tells apart.                                                *)
(***************************************************************************)
EXTENDS CompressionBody

M(f, l, o, w, c) == [flag |-> f, len |-> l, out |-> o, window |-> w, corrupt |-> c]

MCKinds == {
    M(0, 1, 2, 1, FALSE),    \* not compressed
    M(0, 4, 4, 1, FALSE),    \* not compressed, over the receive limit
    M(1, 0, 0, 1, FALSE),    \* empty payload
    M(1, 1, 3, 2, FALSE),    \* at the cap, own encoder's window
    M(1, 5, 3, 2, FALSE),    \* incompressible: fills the guard's whole band
    M(1, 2, 2, 4, FALSE),    \* within the cap, foreign encoder's wide window
    M(1, 1, 4, 3, FALSE),    \* one past the cap
    M(1, 1, 2, 1, TRUE),     \* corrupt
    M(1, 6, 3, 2, FALSE) }   \* declared length past the guard

MCStreams == UNION {[1..n -> MCKinds] : n \in 0..2}

(* A payload eight times the cap and more, whose own encoder declared the  *)
(* window that fits it.                                                    *)
MCWide == M(1, 1, 8, 4, FALSE)
MCWideStreams == {<<m>> : m \in MCKinds \cup {MCWide}}

=============================================================================
