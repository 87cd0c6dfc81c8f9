---------------------------- MODULE MCPeerResume ----------------------------
(* PeerResume on a file of two chunks, the last one short, and a file of one. *)
EXTENDS PeerResume

MCNumFiles == 2
MCChunks   == [f \in 0 .. 1 |-> 2 - f]
MCPartial  == {0}
=============================================================================
