--------------------------- MODULE MCAuthSessions ---------------------------
(* A browser with two tabs, one of them with two requests at a time; the     *)
(* password is changed here or in another browser.                           *)
EXTENDS AuthSessions

CONSTANTS here, there, h1, h2, read, write

MCHome == [t \in {h1, h2} |-> here]
MCSender == [r \in {read, write} |-> h1]
=============================================================================
