-------------------------------- MODULE Pages --------------------------------
(***************************************************************************)
(* The pages of the transfers: those that upload one (UploadPage), that     *)
(* show one received by e-mail (Recipients) or by link (LinkPage), and that *)
(* send and receive one from peer to peer (PeerSession).  A behaviour is    *)
(* that of one kind of transfer.                                           *)
(***************************************************************************)
EXTENDS Recipients, LinkPage, PeerSession, UploadPage

VARIABLE kind       \* "email", "link", "peer" or "upload"

pageVars == <<kind, emailVars, linkVars, peerVars, uploadPageVars>>

Init ==
  /\ kind \in {"email", "link", "peer", "upload"}
  /\ EmailInit /\ LinkInit /\ PeerInit /\ UploadPageInit
  /\ kind # "email" => row = None
  /\ kind # "link" => signedIn /\ link = [status |-> "ACTIVE", access |-> "PUBLIC",
                                           protected |-> FALSE, visitor |-> "other"]

Next ==
  \/ kind = "email" /\ EmailNext /\ UNCHANGED <<kind, linkVars, peerVars, uploadPageVars>>
  \/ kind = "link" /\ LinkNext /\ UNCHANGED <<kind, emailVars, peerVars, uploadPageVars>>
  \/ kind = "peer" /\ PeerNext /\ UNCHANGED <<kind, emailVars, linkVars, uploadPageVars>>
  \/ kind = "upload" /\ UploadPageNext /\ UNCHANGED <<kind, emailVars, linkVars, peerVars>>

Spec == Init /\ [][Next]_pageVars

-----------------------------------------------------------------------------
(* Properties *)

\* Every variable keeps its type.
PagesTypeOK == EmailTypeOK /\ LinkTypeOK /\ PeerSessionTypeOK /\ UploadPageTypeOK

\* A guest has a key only after accepting, and a key once given is never replaced, however
\* often the same invite is offered, accepted and approved at once.
GuestKeysStay ==
  [][row' # row => row = None /\ invite = "ACCEPTED"]_pageVars
=============================================================================
