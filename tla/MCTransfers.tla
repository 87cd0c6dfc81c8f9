---------------------------- MODULE MCTransfers ----------------------------
(* Two tabs that fulfil the same request, and two other transfers. *)
EXTENDS Transfers

CONSTANTS a, b, mail, link

MCTab == {a, b, mail, link}
MCKind == [t \in MCTab |-> IF t = mail THEN "email" ELSE IF t = link THEN "link" ELSE "request"]
=============================================================================
