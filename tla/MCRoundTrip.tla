--------------------------- MODULE MCRoundTrip ---------------------------
(* Sizes without a block, with a last block that is full and with one that is not. *)
EXTENDS RoundTrip
=============================================================================
