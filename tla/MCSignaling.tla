---------------------------- MODULE MCSignaling ----------------------------
(* A page of the sender and two of the receiver, a second tab or the first   *)
(* one loaded again.  Two of the three take part: the sender and a receiver, *)
(* or the two tabs.                                                          *)
EXTENDS Signaling

CONSTANTS s, r1, r2

MCPage == {s, r1, r2}
MCOutgoing == {s}
MCUser == [p \in MCPage |-> IF p = s THEN "sender" ELSE "receiver"]
=============================================================================
