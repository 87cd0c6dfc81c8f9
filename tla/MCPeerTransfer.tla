--------------------------- MODULE MCPeerTransfer ---------------------------
(* PeerTransfer on four files: one of three chunks whose last is short, an empty *)
(* one, one of exactly two chunks, and one smaller than a chunk.                 *)
EXTENDS PeerTransfer

MCNumFiles == 4
MCChunks   == [f \in 0 .. 3 |-> CASE f = 0 -> 3 [] f = 1 -> 0 [] f = 2 -> 2 [] f = 3 -> 1]
MCPartial  == {0, 3}
=============================================================================
