---------------------------- MODULE MCRingBuffer ----------------------------
(* Every append of up to one byte more than the ring holds. *)
EXTENDS RingBuffer

MCByte == {0, 1}
MCChunks == UNION {[1 .. n -> MCByte] : n \in 0 .. 4}
=============================================================================
