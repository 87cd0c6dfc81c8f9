----------------------------- MODULE PeerResume -----------------------------
(***************************************************************************)
(* PeerTransfer when the sender makes more calls in one transfer.  It calls *)
(* whenever the signaling server says that somebody joined the room: the   *)
(* receiver after a reload of its page, or a second tab of either user.    *)
(* Every call creates a new data channel, which becomes the dataChannel of *)
(* both sides; when it opens, a receiver that knows files asks to RESUME   *)
(* and a sender past its first chunk waits for that.                       *)
(*                                                                         *)
(* Abstractions: a call is made only when the channel of the last one is   *)
(* open at the sender; a further call to a receiver whose page lives is a  *)
(* renegotiation of the same connection, so its earlier channels live on.  *)
(***************************************************************************)
EXTENDS PeerTransfer

CONSTANT MaxCalls       \* bound: the calls the sender makes

ASSUME MaxCallsAssumption == MaxCalls \in Nat \ {0}

VARIABLES
  calls,                \* the calls the sender made, counting the first
  answered              \* the last call whose channel the receiver's page got

resumeVars == <<vars, calls, answered>>

Resume(f, last) == [type |-> "RESUME", file |-> f, lastChunkIndex |-> last]

\* lastAcknowledgedChunk.get(lastFileId) || -1: an index of 0 is no index either.
ResumeIndex(f) == IF lastAck[f] = 0 THEN -1 ELSE lastAck[f]

\* What is still being encrypted when createCall replaces the open channel is
\* sent on the connecting one, which throws; and nothing that was sent to a
\* page that is gone reaches the page loaded since.
SurvivesCall(inFlight) ==
  IF rChannel = "connecting" THEN {EmptyBag}
  ELSE {inFlight (-) SetToBag(lost) : lost \in SUBSET BagToSet(inFlight)}

\* The sender's peer-joined handler: createCall on the connection it has.
SenderCallsAgain ==
  /\ calls < MaxCalls
  /\ sState # "GONE" /\ sChannel = "open"
  /\ rState # "GONE"
  /\ calls' = calls + 1
  /\ sState' = "CONNECTING_WEBRTC"
  /\ sChannel' = "connecting"
  /\ toReceiver' \in SurvivesCall(toReceiver)
  /\ UNCHANGED <<sProgress, toSender, receiverVars, storeVars, answered>>

SenderHandlesResume ==
  /\ sState # "GONE"
  /\ \E m \in Arrived(toSender, "RESUME") :
       LET next == m.lastChunkIndex + 1
       IN  /\ toSender' = Handled(toSender, m)
           /\ \/ /\ next < Chunks[m.file]
                 /\ currentFile' = m.file
                 /\ currentChunkIndex' = next
                 /\ toReceiver' = Sent(toReceiver, sChannel, FileChunk(m.file, next))
                 /\ UNCHANGED <<sState, queueHead, sSaved>>
              \/ /\ next >= Chunks[m.file]
                 /\ AnnounceNextFile(sChannel)
                 /\ UNCHANGED sState
              \/ /\ next >= Chunks[m.file]
                 /\ queueHead = NumFiles
                 /\ currentFile' = m.file
                 /\ currentChunkIndex' = next
                 /\ toReceiver' = Sent(toReceiver, sChannel, TransferComplete)
                 /\ sState' = "COMPLETED"
                 /\ sSaved' = NoProgress
                 /\ UNCHANGED queueHead
  /\ UNCHANGED <<sChannel, receiverVars, storeVars, calls, answered>>

\* The first channel of a page that knows no file
ReceiverStarts ==
  /\ answered < calls
  /\ answered' = calls
  /\ ReceiverChannelOpens
  /\ UNCHANGED calls

\* ondatachannel and onopen of a live page whose metadata map is not empty
ReceiverRequestsResume ==
  /\ answered < calls
  /\ rChannel = "open"
  /\ receivedFiles # <<>>
  /\ answered' = calls
  /\ rState' = "TRANSFER_IN_PROGRESS"
  /\ toSender' = Sent(toSender, "open",
                      Resume(Last(receivedFiles), ResumeIndex(Last(receivedFiles))))
  /\ UNCHANGED <<senderVars, toReceiver, rChannel, receivedFiles, lastAck, rSaved,
                 assembling, delivered, storeVars, calls>>

\* ... and of a live page that still waits for its first header
ReceiverSwitchesChannel ==
  /\ answered < calls
  /\ rChannel = "open"
  /\ receivedFiles = <<>>
  /\ answered' = calls
  /\ rState' = "TRANSFER_IN_PROGRESS"
  /\ UNCHANGED <<senderVars, toReceiver, toSender, rChannel, receivedFiles, lastAck,
                 rSaved, assembling, delivered, storeVars, calls>>

\* A chunk that reaches a page without metadata: getCurrentExpectedChunk finds no
\* file, so the chunk is stored and acknowledged under none.  Nobody reads that
\* entry, and the sender takes the acknowledgement for another file's.
ReceiverTakesStrayChunk ==
  /\ rState # "GONE" /\ rChannel # "connecting"
  /\ receivedFiles = <<>>
  /\ \E m \in Arrived(toReceiver, "FILE_CHUNK") : toReceiver' = Handled(toReceiver, m)
  /\ \/ /\ rSaved' = Progress(<<>>, lastAck)
        /\ toSender' = Sent(toSender, rChannel, ChunkAck(NoFile, 0))
        /\ UNCHANGED rState
     \/ /\ rState' = "FAILED"
        /\ UNCHANGED <<rSaved, toSender>>
  /\ UNCHANGED <<senderVars, rChannel, receivedFiles, lastAck, assembling, delivered,
                 storeVars, calls, answered>>

\* Mutated form of RestoredAck: the last saved chunk is asked for again
RestoredAckBefore(f) ==
  IF f + 1 \in DOMAIN rSaved THEN rSaved[f + 1] - 2 ELSE -1

\* loadState takes the n-th saved entry for file n-1, ...
RestoredAck(f) ==
  IF f + 1 \in DOMAIN rSaved THEN rSaved[f + 1] - 1 ELSE -1

\* ... but the metadata map of a page loaded again stays empty: the server's answer
\* on the session has no files_meta to fill it from.
ReceiverReloads ==
  /\ rState = "GONE"
  /\ calls < MaxCalls
  /\ rState' = "CONNECTING_WEBRTC"
  /\ rChannel' = "connecting"
  /\ receivedFiles' = <<>>
  /\ lastAck' = [f \in File |-> RestoredAck(f)]
  /\ answered' = calls
  /\ toReceiver' = EmptyBag
  /\ UNCHANGED <<senderVars, toSender, rSaved, assembling, delivered, storeVars, calls>>

-----------------------------------------------------------------------------
ResumeInit == Init /\ calls = 1 /\ answered = 0

Protocol ==
  /\ \/ SenderStep
     \/ ReceiverHandlesHeader
     \/ ReceiverTakesChunk
     \/ ReceiverStoresChunk
     \/ ReceiverAcksChunk
     \/ ReceiverHandlesComplete
     \/ ReceiverReadsChunk
     \/ ReceiverDeletesChunk
     \/ ReceiverDeliversFile
     \/ ReceiverFinishes
     \/ Disturbance
  /\ UNCHANGED <<calls, answered>>

ResumeNext ==
  \/ Protocol
  \/ SenderCallsAgain \/ SenderHandlesResume
  \/ ReceiverStarts \/ ReceiverRequestsResume \/ ReceiverSwitchesChannel
  \/ ReceiverTakesStrayChunk \/ ReceiverReloads

ResumeSpec == ResumeInit /\ [][ResumeNext]_resumeVars

-----------------------------------------------------------------------------
\* TypeOK, and no page gets a channel before its call.
ResumeTypeOK == TypeOK /\ calls \in 1 .. MaxCalls /\ answered \in 0 .. calls

\* However often the channel is replaced and the receiver's page reloaded, no file
\* is given to the user before the sender has announced the last one.
NothingDeliveredEarly == delivered # <<>> => queueHead = NumFiles
=============================================================================
