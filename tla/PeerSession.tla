----------------------------- MODULE PeerSession -----------------------------
(***************************************************************************)
(* The pages around a peer-to-peer transfer: the form that describes the    *)
(* files and makes a session of it (NewPeerTransfers.tsx,                   *)
(* InitiatePeerTransferScreen.tsx, initiatePeerTransfer), the sender's      *)
(* screen (OutgoingPeerTransferScreen.tsx) and the receiver's page, reached *)
(* by the link in a mail (PeerTransferSession.tsx, getP2PTransfer).         *)
(*                                                                         *)
(* How two managers find each other is the matter of Signaling, what they   *)
(* send of PeerTransfer and PeerResume: here a manager joins, is called,    *)
(* connects, announces file after file, completes or closes, and the files  *)
(* announced to a page are handed over one after the other as in            *)
(* FileDelivery.                                                           *)
(***************************************************************************)
EXTENDS Naturals, Sequences

CONSTANTS File,
          MaxCalls      \* bound on the submissions of the form

ASSUME PeerSessionAssumption == MaxCalls \in Nat \ {0}

VARIABLES
  \* the sender's page
  screen,      \* "form", "transfer" or "gone"
  picked,      \* its files, which the manager sends
  listed,      \* those its form describes
  mutated,     \* the submission that called mutate last, or 0
  mine,        \* the session of the transfer screen, or 0
  outgoing,    \* its manager
  queue,       \* files it has yet to announce
  recalled,    \* it was called for again after its first call
  \* the submissions: the files described, and what has become of each
  calls,
  \* the receiver's page
  visiting,    \* it is open
  visited,     \* on the session of this call, or 0
  started,     \* Start was clicked
  guarded,     \* the effect that made the manager is still to be cleaned up
  incoming,    \* its manager
  \* between them
  headed,      \* files announced to this page
  ending,      \* TRANSFER_COMPLETE is on its way
  informed,    \* the page was told that the transfer is complete
  assembling,  \* files it has yet to assemble
  handed,      \* files handed over and saved
  reported     \* files it has shown an error for

formPageVars == <<screen, picked, listed, mutated, mine, calls>>
senderPage   == <<formPageVars, outgoing, queue, recalled>>
visitVars    == <<visiting, visited, started, guarded>>
deliveryVars == <<headed, ending, informed, assembling, handed, reported>>
receiverPage == <<visitVars, incoming, deliveryVars>>
peerVars     == <<senderPage, receiverPage>>

Stored == {i \in DOMAIN calls : calls[i].stage = "stored"}

-----------------------------------------------------------------------------
(* The sender *)

\* handleFileChange
PickFile(f) ==
  /\ screen = "form" /\ f \notin picked
  /\ picked' = picked \cup {f} /\ listed' = listed \cup {f}
  /\ UNCHANGED <<screen, mutated, mine, calls, outgoing, queue, recalled, receiverPage>>

\* Mutated form of RemoveFile: the page forgets the file as well
RemoveFileFromBoth(f) ==
  /\ screen = "form" /\ f \in listed
  /\ listed' = listed \ {f} /\ picked' = picked \ {f}
  /\ UNCHANGED <<screen, mutated, mine, calls, outgoing, queue, recalled, receiverPage>>

\* handleFileRemove: the form forgets the file, the page keeps it.
RemoveFile(f) ==
  /\ screen = "form" /\ f \in listed
  /\ listed' = listed \ {f}
  /\ UNCHANGED <<screen, picked, mutated, mine, calls, outgoing, queue, recalled, receiverPage>>

Becomes(i, stage) == calls' = [calls EXCEPT ![i].stage = stage]

\* handleSubmit asks for keys and encrypts them; nothing keeps the button from being
\* clicked again.
Submit ==
  /\ screen = "form" /\ listed # {} /\ Len(calls) < MaxCalls
  /\ calls' = Append(calls, [files |-> listed, stage |-> "preparing"])
  /\ UNCHANGED <<screen, picked, listed, mutated, mine, outgoing, queue, recalled, receiverPage>>

\* mutate, when the keys are there, or an error.  The callbacks are those of the last call.
Mutate(i) ==
  /\ calls[i].stage = "preparing"
  /\ \/ Becomes(i, "sent") /\ mutated' = i
     \/ Becomes(i, "failed") /\ UNCHANGED mutated
  /\ UNCHANGED <<screen, picked, listed, mine, outgoing, queue, recalled, receiverPage>>

\* initiatePeerTransfer creates the session, and mails its files to the receiver, or not.
HandleCall(i) ==
  /\ calls[i].stage = "sent"
  /\ \E s \in {"stored", "failed"} : Becomes(i, s)
  /\ UNCHANGED <<screen, picked, listed, mutated, mine, outgoing, queue, recalled, receiverPage>>

\* The answer that runs the callbacks
ShowTransfer ==
  /\ screen = "form" /\ mutated \in Stored
  /\ screen' = "transfer" /\ mine' = mutated /\ outgoing' = "joining" /\ queue' = picked
  /\ UNCHANGED <<picked, listed, mutated, calls, recalled, receiverPage>>

JoinOutgoing ==
  /\ outgoing = "joining"
  /\ outgoing' = "waiting"
  /\ UNCHANGED <<formPageVars, queue, recalled, receiverPage>>

\* The peer has left, the connection or its channel has failed.
CloseOutgoing ==
  /\ outgoing \notin {"none", "closed"}
  /\ outgoing' = "closed"
  /\ UNCHANGED <<formPageVars, queue, recalled, receiverPage>>

LeaveSender ==
  /\ screen # "gone"
  /\ screen' = "gone"
  /\ outgoing' = IF outgoing = "none" THEN "none" ELSE "closed"
  /\ UNCHANGED <<picked, listed, mutated, mine, calls, queue, recalled, receiverPage>>

-----------------------------------------------------------------------------
(* The receiver *)

\* The details of the session arrive and the effect makes a manager.  A page left with its
\* transfer running is the last one here.
Visit(i) ==
  /\ ~visiting /\ i \in Stored /\ incoming \in {"none", "closed"} /\ assembling = {}
  /\ visiting' = TRUE /\ visited' = i /\ started' = FALSE /\ guarded' = TRUE
  /\ incoming' = "idle"
  /\ headed' = {} /\ ending' = FALSE /\ informed' = FALSE /\ handed' = {} /\ reported' = {}
  /\ UNCHANGED <<senderPage, assembling>>

\* handleStart, also on a manager that a change of data has closed before
Start ==
  /\ visiting /\ ~started
  /\ started' = TRUE /\ incoming' = "joining"
  /\ UNCHANGED <<senderPage, visiting, visited, guarded, deliveryVars>>

\* Only a sender who is in the room hears of it and calls, whatever it is about.
JoinIncoming ==
  /\ incoming = "joining"
  /\ incoming' = "waiting"
  /\ IF mine = visited /\ outgoing \notin {"none", "joining", "closed"}
       THEN outgoing' = "calling" /\ recalled' = (recalled \/ outgoing # "waiting")
       ELSE UNCHANGED <<outgoing, recalled>>
  /\ UNCHANGED <<formPageVars, queue, visitVars, deliveryVars>>

\* The query is repeated when the network is back, and its data differ by the addresses
\* of the pictures: the effect is cleaned up and run again, and finds a manager.
DataChange ==
  /\ visiting
  /\ incoming' = IF guarded THEN "closed" ELSE incoming
  /\ guarded' = FALSE
  /\ UNCHANGED <<senderPage, visiting, visited, started, deliveryVars>>

CloseIncoming ==
  /\ incoming \notin {"none", "idle", "closed"}
  /\ incoming' = "closed"
  /\ UNCHANGED <<senderPage, visitVars, deliveryVars>>

\* The page is left, and its files are assembled nevertheless; or its tab is closed.
LeaveVisit ==
  /\ visiting
  /\ visiting' = FALSE
  /\ incoming' = IF guarded THEN "closed" ELSE incoming
  /\ UNCHANGED <<senderPage, visited, started, guarded, deliveryVars>>

CloseVisit ==
  /\ visiting
  /\ visiting' = FALSE /\ incoming' = "closed" /\ started' = FALSE
  /\ headed' = {} /\ informed' = FALSE /\ assembling' = {} /\ handed' = {} /\ reported' = {}
  /\ UNCHANGED <<senderPage, visited, guarded, ending>>

-----------------------------------------------------------------------------
(* The transfer *)

\* The data channel of the last call opens.
Connect ==
  /\ outgoing = "calling" /\ incoming = "waiting" /\ mine = visited
  /\ outgoing' = "open" /\ incoming' = "connected"
  /\ UNCHANGED <<formPageVars, queue, recalled, visitVars, deliveryVars>>

\* The next file: its header, and the chunks that this page stores and acknowledges.  With
\* a second channel a header can get lost on the one that is not open yet.
SendFile(f) ==
  /\ outgoing = "open" /\ incoming = "connected" /\ f \in queue
  /\ queue' = queue \ {f}
  /\ headed' = headed \cup {f} \/ (recalled /\ headed' = headed)
  /\ UNCHANGED <<formPageVars, outgoing, recalled, visitVars, incoming, ending, informed,
                 assembling, handed, reported>>

\* Every chunk is acknowledged.
SendComplete ==
  /\ outgoing = "open" /\ incoming = "connected" /\ queue = {}
  /\ outgoing' = "completed" /\ ending' = TRUE
  /\ UNCHANGED <<formPageVars, queue, recalled, visitVars, incoming, headed, informed,
                 assembling, handed, reported>>

TakeComplete ==
  /\ ending /\ incoming = "connected"
  /\ incoming' = "completed" /\ informed' = TRUE /\ ending' = FALSE /\ assembling' = headed
  /\ UNCHANGED <<senderPage, visitVars, headed, handed, reported>>

\* assembleFiles goes on when the manager is closed and the page left: onFileReceived and
\* saveFile, or an error, which a page that is left shows nobody.
HandOverFile(f) ==
  /\ f \in assembling
  /\ assembling' = assembling \ {f}
  /\ \/ handed' = handed \cup {f} /\ UNCHANGED reported
     \/ UNCHANGED handed /\ reported' = IF visiting THEN reported \cup {f} ELSE reported
  /\ UNCHANGED <<senderPage, incoming, visitVars, headed, ending, informed>>

-----------------------------------------------------------------------------
PeerInit ==
  /\ screen = "form" /\ picked = {} /\ listed = {} /\ mutated = 0 /\ mine = 0 /\ calls = <<>>
  /\ outgoing = "none" /\ queue = {} /\ recalled = FALSE
  /\ visiting = FALSE /\ visited = 0 /\ started = FALSE /\ guarded = FALSE /\ incoming = "none"
  /\ headed = {} /\ ending = FALSE /\ informed = FALSE
  /\ assembling = {} /\ handed = {} /\ reported = {}

PeerNext ==
  \/ \E f \in File : PickFile(f) \/ RemoveFile(f) \/ SendFile(f) \/ HandOverFile(f)
  \/ Submit \/ ShowTransfer \/ JoinOutgoing \/ CloseOutgoing \/ LeaveSender
  \/ \E i \in DOMAIN calls : Mutate(i) \/ HandleCall(i) \/ Visit(i)
  \/ Start \/ JoinIncoming \/ DataChange \/ CloseIncoming \/ LeaveVisit \/ CloseVisit
  \/ Connect \/ SendComplete \/ TakeComplete

-----------------------------------------------------------------------------
(* Properties *)

PeerSessionTypeOK ==
  /\ screen \in {"form", "transfer", "gone"} /\ listed \subseteq picked /\ picked \subseteq File
  /\ outgoing \in {"none", "joining", "waiting", "calling", "open", "completed", "closed"}
  /\ incoming \in {"none", "idle", "joining", "waiting", "connected", "completed", "closed"}
  /\ {mutated, mine, visited} \subseteq 0..Len(calls) /\ Len(calls) <= MaxCalls
  /\ calls \in Seq([files : SUBSET File, stage : {"preparing", "sent", "stored", "failed"}])
  /\ {recalled, visiting, started, guarded, ending, informed} \subseteq BOOLEAN
  /\ queue \cup headed \cup assembling \cup handed \cup reported \subseteq File

\* A receiver whose page was told that the transfer is complete gets every file its
\* session was made for, or an error as long as the page is there to show it, in whatever
\* order submissions get ready, are answered and change the files, and whatever is closed
\* meanwhile.  Excepted is a sender who was called for again: the page that joins second
\* gets what is announced from then on (see MCPeerResumeMisplaced).
PromisedFilesArrive ==
  informed /\ visiting /\ ~recalled =>
    calls[visited].files \subseteq assembling \cup handed \cup reported
=============================================================================
