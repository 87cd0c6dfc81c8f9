---------------------------- MODULE PeerTransfer ----------------------------
(***************************************************************************)
(* The chunk protocol of a peer-to-peer transfer, between the two objects  *)
(* of PeerTransferManager.ts that exist once both browsers are in the room *)
(* and the sender has made its call: the OfferPeer (sender, actions named  *)
(* Sender...) and the AnswerPeer (receiver).  A file is its index in the   *)
(* sender's list, which is what the code sends as its id; a chunk is the   *)
(* pair <<file, index>> of the slice it was cut from.                      *)
(*                                                                         *)
(* The WebRTC channel is ordered, but every message is encrypted in a      *)
(* worker before it is sent and decrypted in a worker before it is         *)
(* handled, none of it in turn, so two messages of one direction may be    *)
(* handled in any order: each direction is a bag.                          *)
(***************************************************************************)
EXTENDS Integers, Sequences, SequencesExt, Bags

CONSTANTS NumFiles,     \* files.length: the screen starts no empty transfer
          Chunks,       \* Chunks[f] = ceil(size / CHUNK_SIZE)
          Partial       \* the files whose last chunk is shorter than CHUNK_SIZE

File == 0 .. NumFiles - 1

ASSUME NumFilesAssumption == NumFiles \in Nat \ {0}
ASSUME ChunksAssumption == Chunks \in [File -> Nat]
ASSUME PartialAssumption == Partial \subseteq {f \in File : Chunks[f] > 0}

VARIABLES
  \* OfferPeer
  sState,               \* manager.state, or "GONE" when the page is gone
  sChannel,             \* dataChannel.readyState
  queueHead,            \* fileQueue holds the files queueHead .. NumFiles-1
  currentFile,          \* currentFileId, or NoFile
  currentChunkIndex,
  sSaved,               \* localStorage: <<file, next chunk>>, or NoProgress
  \* in flight: sent, not yet handled by the other side
  toReceiver, toSender,
  \* AnswerPeer
  rState, rChannel,
  receivedFiles,        \* the keys of receivedFilesMetadata, in insertion order
  lastAck,              \* lastAcknowledgedChunk, -1 where the map has no entry
  writing,              \* the chunk processChunkQueue holds its lock for, or {}
  progressStore,        \* IndexedDB: <<file, index>> -> the chunk stored there
  rSaved,               \* localStorage: the chunks of each file, or NoProgress
  assembling,           \* the calls of assembleFiles that run: where each one is
  delivered             \* what the user was given or told of each file, in order:
                        \* the calls of onFileReceived, and those of onError

sProgress    == <<queueHead, currentFile, currentChunkIndex, sSaved>>
senderVars   == <<sState, sChannel, sProgress>>
storeVars    == <<progressStore, writing>>
receiverVars == <<rState, rChannel, receivedFiles, lastAck, rSaved, assembling, delivered>>
vars == <<senderVars, toReceiver, toSender, receiverVars, storeVars>>

NoFile     == -1
NoProgress == <<>>

FileHeader(f)     == [type |-> "FILE_HEADER", file |-> f]
FileChunk(f, i)   == [type |-> "FILE_CHUNK", file |-> f, index |-> i]
TransferComplete  == [type |-> "TRANSFER_COMPLETE"]
FileAck(f)        == [type |-> "FILE_ACK", file |-> f]
ChunkAck(f, i)    == [type |-> "CHUNK_ACK", file |-> f, index |-> i]

\* sendControlMessage and sendChunkMessage drop what is sent on a channel
\* that is not open.
Sent(inFlight, channel, msg) ==
  IF channel = "open" THEN inFlight (+) SetToBag({msg}) ELSE inFlight

Handled(inFlight, msg) == inFlight (-) SetToBag({msg})

-----------------------------------------------------------------------------
(* The sender *)

\* Mutated form of SendTransferComplete: sent with files left in the queue
SendTransferCompleteEarly(channel) ==
  /\ toReceiver' = Sent(toReceiver, channel, TransferComplete)
  /\ sState' = "COMPLETED"
  /\ sSaved' = NoProgress
  /\ UNCHANGED <<queueHead, currentFile, currentChunkIndex>>

\* Every file announced: tell the receiver, and forget the saved progress.
SendTransferComplete(channel) ==
  /\ queueHead = NumFiles
  /\ toReceiver' = Sent(toReceiver, channel, TransferComplete)
  /\ sState' = "COMPLETED"
  /\ sSaved' = NoProgress
  /\ UNCHANGED <<queueHead, currentFile, currentChunkIndex>>

\* Mutated form of AnnounceNextFile: the queue is not asked whether it is empty
AnnounceNextFileUnguarded(channel) ==
  /\ currentFile' = queueHead
  /\ queueHead' = queueHead + 1
  /\ currentChunkIndex' = 0
  /\ sSaved' = <<queueHead, 0>>
  /\ toReceiver' = Sent(toReceiver, channel, FileHeader(queueHead))

\* Mutated form of AnnounceNextFile: the first chunk is sent with the header
AnnounceNextFileAndChunk(channel) ==
  /\ queueHead < NumFiles
  /\ currentFile' = queueHead
  /\ queueHead' = queueHead + 1
  /\ currentChunkIndex' = 0
  /\ sSaved' = <<queueHead, 0>>
  /\ toReceiver' = Sent(Sent(toReceiver, channel, FileHeader(queueHead)),
                        channel, FileChunk(queueHead, 0))

\* Shift the next file off the queue and send its header.
AnnounceNextFile(channel) ==
  /\ queueHead < NumFiles
  /\ currentFile' = queueHead
  /\ queueHead' = queueHead + 1
  /\ currentChunkIndex' = 0
  /\ sSaved' = <<queueHead, 0>>
  /\ toReceiver' = Sent(toReceiver, channel, FileHeader(queueHead))

\* Mutated form of SendNextChunk: the end of the file one chunk too soon
SendNextChunkShort(i) ==
  \/ /\ i + 1 < Chunks[currentFile]
     /\ currentChunkIndex' = i
     /\ sSaved' = <<currentFile, i>>
     /\ toReceiver' = Sent(toReceiver, sChannel, FileChunk(currentFile, i))
     /\ UNCHANGED <<sState, queueHead, currentFile>>
  \/ i + 1 >= Chunks[currentFile] /\ AnnounceNextFile(sChannel) /\ UNCHANGED sState
  \/ i + 1 >= Chunks[currentFile] /\ SendTransferComplete(sChannel)

\* sendNextChunk, after updateProgress saved the new currentChunkIndex i.
\* waitForBuffer does not wait: StopAndWait leaves at most one chunk of 64 KB
\* in a buffer it finds full at 15 MB.
SendNextChunk(i) ==
  \/ /\ i < Chunks[currentFile]
     /\ currentChunkIndex' = i
     /\ sSaved' = <<currentFile, i>>
     /\ toReceiver' = Sent(toReceiver, sChannel, FileChunk(currentFile, i))
     /\ UNCHANGED <<sState, queueHead, currentFile>>
  \/ /\ i >= Chunks[currentFile]
     /\ AnnounceNextFile(sChannel)
     /\ UNCHANGED sState
  \/ /\ i >= Chunks[currentFile]
     /\ SendTransferComplete(sChannel)

\* channel.onopen: a sender past its first chunk waits for a RESUME.
SenderChannelOpens ==
  /\ sChannel = "connecting"
  /\ sChannel' = "open"
  /\ \/ /\ currentChunkIndex = 0
        /\ AnnounceNextFile("open")
        /\ sState' = "TRANSFER_IN_PROGRESS"
     \/ /\ currentChunkIndex = 0
        /\ SendTransferComplete("open")
     \/ /\ currentChunkIndex # 0
        /\ sState' = "TRANSFER_IN_PROGRESS"
        /\ UNCHANGED <<sProgress, toReceiver>>
  /\ UNCHANGED <<toSender, receiverVars, storeVars>>

\* The messages of a type that a side has yet to handle
Arrived(inFlight, type) == {m \in BagToSet(inFlight) : m.type = type}

SenderHandlesFileAck ==
  /\ sState # "GONE"
  /\ \E m \in Arrived(toSender, "FILE_ACK") :
       /\ toSender' = Handled(toSender, m)
       /\ \/ m.file = currentFile /\ SendNextChunk(0)
          \/ m.file # currentFile /\ UNCHANGED <<sState, sProgress, toReceiver>>
  /\ UNCHANGED <<sChannel, receiverVars, storeVars>>

\* Mutated form of SenderHandlesChunkAck: > for >=
SenderHandlesLaterChunkAck ==
  /\ sState # "GONE"
  /\ \E m \in Arrived(toSender, "CHUNK_ACK") :
       /\ toSender' = Handled(toSender, m)
       /\ \/ /\ m.file = currentFile /\ m.index > currentChunkIndex
             /\ SendNextChunk(m.index + 1)
          \/ /\ m.file # currentFile \/ m.index <= currentChunkIndex
             /\ UNCHANGED <<sState, sProgress, toReceiver>>
  /\ UNCHANGED <<sChannel, receiverVars, storeVars>>

SenderHandlesChunkAck ==
  /\ sState # "GONE"
  /\ \E m \in Arrived(toSender, "CHUNK_ACK") :
       /\ toSender' = Handled(toSender, m)
       /\ \/ /\ m.file = currentFile /\ m.index >= currentChunkIndex
             /\ SendNextChunk(m.index + 1)
          \/ /\ m.file # currentFile \/ m.index < currentChunkIndex
             /\ UNCHANGED <<sState, sProgress, toReceiver>>
  /\ UNCHANGED <<sChannel, receiverVars, storeVars>>

-----------------------------------------------------------------------------
(* The receiver *)

\* Mutated form of SavedChunks: the chunk expected next counts as received
SavedChunksAhead(f, ack) ==
  IF ack + 2 > Chunks[f] THEN Chunks[f] ELSE ack + 2

\* What updateProgress saves for a file whose last acknowledged chunk is ack,
\* in the whole chunks loadState will find in it: the bytes of a short last
\* chunk are less than one.
SavedChunks(f, ack) ==
  IF f \in Partial /\ ack + 1 >= Chunks[f] THEN Chunks[f] - 1
  ELSE IF ack + 1 > Chunks[f] THEN Chunks[f] ELSE ack + 1

\* One entry per known file, in the order of the metadata map.
Progress(received, acks) ==
  [n \in 1 .. Len(received) |-> SavedChunks(received[n], acks[received[n]])]

ReceiverHandlesHeader ==
  /\ rState # "GONE" /\ rChannel # "connecting"
  /\ \E m \in Arrived(toReceiver, "FILE_HEADER") :
       /\ toReceiver' = Handled(toReceiver, m)
       /\ receivedFiles' = IF Contains(receivedFiles, m.file) THEN receivedFiles
                                                             ELSE Append(receivedFiles, m.file)
       /\ lastAck' = [lastAck EXCEPT ![m.file] = -1]
       /\ rSaved' = Progress(receivedFiles', lastAck')
       /\ toSender' = Sent(toSender, rChannel, FileAck(m.file))
  /\ UNCHANGED <<senderVars, rState, rChannel, assembling, delivered, storeVars>>

\* Mutated form of ExpectedChunk: || for ??, which takes index 0 for none
ExpectedChunkOr ==
  <<Last(receivedFiles), IF lastAck[Last(receivedFiles)] = 0 THEN 0
                         ELSE lastAck[Last(receivedFiles)] + 1>>

\* getCurrentExpectedChunk: the file last added to the metadata map, and the
\* chunk after the last one acknowledged
ExpectedChunk == <<Last(receivedFiles), lastAck[Last(receivedFiles)] + 1>>

\* processChunkQueue takes its lock and a chunk, and has it decrypted.  The chunk
\* carries no label: it goes where the receiver expects one by then.
ReceiverTakesChunk ==
  /\ rState # "GONE" /\ rChannel # "connecting"
  /\ writing = {}
  /\ receivedFiles # <<>>
  /\ \E m \in Arrived(toReceiver, "FILE_CHUNK") :
       /\ toReceiver' = Handled(toReceiver, m)
       /\ writing' = {[key |-> ExpectedChunk, data |-> <<m.file, m.index>>, stored |-> FALSE]}
  /\ UNCHANGED <<senderVars, toSender, receiverVars, progressStore>>

\* The IndexedDB transaction of progressStore.put completes.
ReceiverStoresChunk ==
  \E w \in writing :
    /\ ~ w.stored
    /\ progressStore' = [k \in DOMAIN progressStore \cup {w.key} |->
                           IF k = w.key THEN w.data ELSE progressStore[k]]
    /\ writing' = {[w EXCEPT !.stored = TRUE]}
    /\ UNCHANGED <<senderVars, toReceiver, toSender, receiverVars>>

\* ... or fails (the quota is used up): the chunk is dropped, the lock freed.
ReceiverStoreFails ==
  \E w \in writing :
    /\ ~ w.stored
    /\ writing' = {}
    /\ rState' = "FAILED"
    /\ UNCHANGED <<senderVars, toReceiver, toSender, rChannel, receivedFiles, lastAck,
                   rSaved, assembling, delivered, progressStore>>

\* Mutated form of ReceiverAcksChunk: put is not awaited
ReceiverAcksUnstoredChunk ==
  \E w \in writing :
    /\ lastAck' = [lastAck EXCEPT ![w.key[1]] = w.key[2]]
    /\ rSaved' = Progress(receivedFiles, lastAck')
    /\ toSender' = Sent(toSender, rChannel, ChunkAck(w.key[1], w.key[2]))
    /\ writing' = {}
    /\ UNCHANGED <<senderVars, toReceiver, rState, rChannel, receivedFiles, assembling,
                   delivered, progressStore>>

ReceiverAcksChunk ==
  \E w \in writing :
    /\ w.stored
    /\ lastAck' = [lastAck EXCEPT ![w.key[1]] = w.key[2]]
    /\ rSaved' = Progress(receivedFiles, lastAck')
    /\ toSender' = Sent(toSender, rChannel, ChunkAck(w.key[1], w.key[2]))
    /\ writing' = {}
    /\ UNCHANGED <<senderVars, toReceiver, rState, rChannel, receivedFiles, assembling,
                   delivered, progressStore>>

ReceiverHandlesComplete ==
  /\ rState # "GONE" /\ rChannel # "connecting"
  /\ BagIn(TransferComplete, toReceiver)
  /\ toReceiver' = Handled(toReceiver, TransferComplete)
  /\ rState' = "COMPLETED"
  /\ assembling' = Append(assembling, [pos |-> 1, content |-> <<>>, read |-> FALSE])
  /\ UNCHANGED <<senderVars, toSender, rChannel, receivedFiles, lastAck, rSaved,
                 delivered, storeVars>>

\* The file an assembly is at, and the chunk of it that comes next
FileOf(a) == receivedFiles[a.pos]
Wanted(a) == <<FileOf(a), Len(a.content)>>

\* Mutated form of NextFile: a file is skipped
NextFileSkipping(a) == [pos |-> a.pos + 2, content |-> <<>>, read |-> FALSE]

\* An assembly turns to the next file.
NextFile(a) == [pos |-> a.pos + 1, content |-> <<>>, read |-> FALSE]

\* The assemblies between two chunks of a file
Looking == {n \in DOMAIN assembling :
              assembling[n].pos <= Len(receivedFiles) /\ ~ assembling[n].read}

WantsMore(a) == Len(a.content) < Chunks[FileOf(a)]

\* The catch of the loop: onError, and the next file is tried.
GivesUp(n, why) ==
  /\ delivered' = Append(delivered, [file |-> FileOf(assembling[n]), content |-> <<>>,
                                     outcome |-> why])
  /\ assembling' = [assembling EXCEPT ![n] = NextFile(assembling[n])]

ChunkFound(n) == LET a == assembling[n] IN
  /\ Wanted(a) \in DOMAIN progressStore
  /\ assembling' = [assembling EXCEPT ![n] =
                      [a EXCEPT !.content = Append(@, progressStore[Wanted(a)]), !.read = TRUE]]
  /\ UNCHANGED delivered

\* "Missing chunk"
ChunkMissing(n) ==
  /\ Wanted(assembling[n]) \notin DOMAIN progressStore
  /\ GivesUp(n, "missing")

\* One round of the loop is two transactions: the chunk is looked up ...
ReceiverReadsChunk ==
  \E n \in Looking :
    /\ WantsMore(assembling[n])
    /\ ChunkFound(n) \/ ChunkMissing(n)
    /\ UNCHANGED <<senderVars, toReceiver, toSender, rState, rChannel, receivedFiles,
                   lastAck, rSaved, storeVars>>

\* ... and deleted.
ReceiverDeletesChunk ==
  \E n \in DOMAIN assembling : LET a == assembling[n] IN
    /\ a.read
    /\ progressStore' = [k \in DOMAIN progressStore \ {<<FileOf(a), Len(a.content) - 1>>} |->
                           progressStore[k]]
    /\ assembling' = [assembling EXCEPT ![n] = [a EXCEPT !.read = FALSE]]
    /\ UNCHANGED <<senderVars, toReceiver, toSender, rState, rChannel, receivedFiles,
                   lastAck, rSaved, delivered, writing>>

\* Either transaction may be rejected: what was read of the file is deleted already.
ReceiverReadFails ==
  \E n \in DOMAIN assembling :
    /\ assembling[n].pos <= Len(receivedFiles)
    /\ assembling[n].read \/ WantsMore(assembling[n])
    /\ GivesUp(n, "rejected")
    /\ UNCHANGED <<senderVars, toReceiver, toSender, rState, rChannel, receivedFiles,
                   lastAck, rSaved, storeVars>>

ReceiverDeliversFile ==
  \E n \in Looking : LET a == assembling[n] IN
    /\ ~ WantsMore(a)
    /\ delivered' = Append(delivered, [file |-> FileOf(a), content |-> a.content,
                                       outcome |-> "whole"])
    /\ assembling' = [assembling EXCEPT ![n] = NextFile(a)]
    /\ UNCHANGED <<senderVars, toReceiver, toSender, rState, rChannel, receivedFiles,
                   lastAck, rSaved, storeVars>>

\* Every file tried: clearProgress, then manager.close.
ReceiverFinishes ==
  \E n \in DOMAIN assembling :
    /\ assembling[n].pos > Len(receivedFiles)
    /\ assembling' = RemoveAt(assembling, n)
    /\ rSaved' = NoProgress
    /\ rState' = "CLOSED"
    /\ rChannel' = "closed"
    /\ UNCHANGED <<senderVars, toReceiver, toSender, receivedFiles, lastAck, delivered,
                   storeVars>>

\* channel.onopen.  A receiver that knows no file yet has nothing to resume.
ReceiverChannelOpens ==
  /\ rChannel = "connecting"
  /\ receivedFiles = <<>>
  /\ rChannel' = "open"
  /\ rState' = "TRANSFER_IN_PROGRESS"
  /\ UNCHANGED <<senderVars, toReceiver, toSender, receivedFiles, lastAck, rSaved,
                 assembling, delivered, storeVars>>

-----------------------------------------------------------------------------
(* The connection and the pages *)

\* manager.close: the user leaves the screen, the signaling server says the
\* peer has left, WebRTC reports the connection lost, or channel.onclose that the
\* other side has closed, whenever one of them notices.  The handlers stay:
\* a message already being decrypted is still handled.
SenderCloses ==
  /\ sState # "GONE" /\ sChannel # "closed"
  /\ sChannel' = "closed"
  /\ sState' = "CLOSED"
  /\ UNCHANGED <<toReceiver, toSender, sProgress, receiverVars, storeVars>>

ReceiverCloses ==
  /\ rState # "GONE" /\ rChannel # "closed"
  /\ rChannel' = "closed"
  /\ rState' = "CLOSED"
  /\ UNCHANGED <<senderVars, toReceiver, toSender, receivedFiles, lastAck, rSaved,
                 assembling, delivered, storeVars>>

\* The page is reloaded or its browser dies: localStorage and IndexedDB stay.
SenderPageDies ==
  /\ sState # "GONE"
  /\ sState' = "GONE" /\ sChannel' = "closed"
  /\ toSender' = EmptyBag
  /\ UNCHANGED <<toReceiver, sProgress, receiverVars, storeVars>>

ReceiverPageDies ==
  /\ rState # "GONE"
  /\ rState' = "GONE" /\ rChannel' = "closed"
  /\ toReceiver' = EmptyBag
  /\ writing' = {}
  /\ assembling' = <<>>
  /\ UNCHANGED <<senderVars, toSender, receivedFiles, lastAck, rSaved, delivered, progressStore>>

\* What was in flight when either end closed may never arrive.
MessageLost ==
  /\ sChannel = "closed" \/ rChannel = "closed"
  /\ \/ \E m \in BagToSet(toReceiver) : toReceiver' = Handled(toReceiver, m) /\ UNCHANGED toSender
     \/ \E m \in BagToSet(toSender) : toSender' = Handled(toSender, m) /\ UNCHANGED toReceiver
  /\ UNCHANGED <<senderVars, receiverVars, storeVars>>

-----------------------------------------------------------------------------
Init ==
  /\ sState = "CONNECTING_WEBRTC" /\ rState = "CONNECTING_WEBRTC"
  /\ sChannel = "connecting" /\ rChannel = "connecting"
  /\ queueHead = 0 /\ currentFile = NoFile /\ currentChunkIndex = 0
  /\ sSaved = NoProgress /\ rSaved = NoProgress
  /\ toReceiver = EmptyBag /\ toSender = EmptyBag
  /\ receivedFiles = <<>>
  /\ lastAck = [f \in File |-> -1]
  /\ writing = {}
  /\ progressStore = <<>>
  /\ assembling = <<>>
  /\ delivered = <<>>

SenderStep ==
  \/ SenderChannelOpens
  \/ SenderHandlesFileAck
  \/ SenderHandlesChunkAck

ReceiverStep ==
  \/ ReceiverChannelOpens
  \/ ReceiverHandlesHeader
  \/ ReceiverTakesChunk
  \/ ReceiverStoresChunk
  \/ ReceiverAcksChunk
  \/ ReceiverHandlesComplete
  \/ ReceiverReadsChunk
  \/ ReceiverDeletesChunk
  \/ ReceiverDeliversFile
  \/ ReceiverFinishes

Disturbance ==
  \/ ReceiverStoreFails \/ ReceiverReadFails
  \/ SenderCloses \/ ReceiverCloses
  \/ SenderPageDies \/ ReceiverPageDies
  \/ MessageLost

Next == SenderStep \/ ReceiverStep \/ Disturbance

Spec == Init /\ [][Next]_vars

\* The event loops run what is due, the workers answer, and IndexedDB completes
\* or rejects its transactions.
Fairness == WF_vars(SenderStep) /\ WF_vars(ReceiverStep)

FairSpec == Spec /\ Fairness

-----------------------------------------------------------------------------
(* Properties *)

ManagerStates == {"CONNECTING_WEBRTC", "TRANSFER_IN_PROGRESS", "COMPLETED", "FAILED",
                  "CLOSED", "GONE"}

Key == File \X Nat

SenderTypeOK ==
  /\ sState \in ManagerStates
  /\ sChannel \in {"connecting", "open", "closed"}
  /\ queueHead \in 0 .. NumFiles
  /\ currentFile \in File \cup {NoFile}
  /\ currentChunkIndex \in Nat
  /\ sSaved \in {NoProgress} \cup (File \X Nat)

ReceiverTypeOK ==
  /\ rState \in ManagerStates
  /\ rChannel \in {"connecting", "open", "closed"}
  /\ receivedFiles \in Seq(File)
  /\ lastAck \in [File -> Nat \cup {-1}]
  /\ rSaved \in Seq(Nat)

StoreTypeOK ==
  /\ \A w \in writing : w \in [key : Key, data : Key, stored : BOOLEAN]
  /\ DOMAIN progressStore \subseteq Key
  /\ progressStore \in [DOMAIN progressStore -> Key]

AssemblyTypeOK ==
  /\ assembling \in Seq([pos : Nat \ {0}, content : Seq(Key), read : BOOLEAN])
  /\ delivered \in Seq([file : File, content : Seq(Key),
                        outcome : {"whole", "missing", "rejected"}])

\* The types of the variables.
TypeOK ==
  /\ SenderTypeOK /\ ReceiverTypeOK /\ StoreTypeOK /\ AssemblyTypeOK
  /\ IsABag(toReceiver) /\ IsABag(toSender)

\* The work in flight between the two sides: messages and the chunk being stored
InFlight == {<<"message", m>> : m \in BagToSet(toReceiver)}
              \cup {<<"ack", m>> : m \in BagToSet(toSender)}
              \cup {<<"chunk", w.data>> : w \in writing}

\* Nothing makes the handlers of one side run in the order of the messages: what
\* keeps them apart is that the two sides never have more than one message or
\* chunk under way between them.
StopAndWait ==
  /\ \A x, y \in InFlight : x = y
  /\ \A m \in BagToSet(toReceiver) : toReceiver[m] = 1
  /\ \A m \in BagToSet(toSender) : toSender[m] = 1

\* A chunk travels without a label and is stored where the receiver's own count
\* says: the place is always the one the sender cut it from.
ChunksInPlace ==
  /\ \A k \in DOMAIN progressStore : progressStore[k] = k
  /\ \A w \in writing : w.data = w.key

\* The chunks of the files before f, and of f those before chunk i, are stored.
StoredUpTo(f, i) ==
  \A g \in 0 .. f : \A j \in 0 .. Chunks[g] - 1 :
    (g < f \/ j < i) => <<g, j>> \in DOMAIN progressStore

\* The sender never moves on, in memory or in its saved progress, past a chunk
\* that the receiver's IndexedDB does not hold.
SenderNeverAhead ==
  sSaved # NoProgress => StoredUpTo(sSaved[1], sSaved[2])

\* Until the sender has announced the end, what the receiver would restore from
\* its saved progress after a reload is in its IndexedDB, whenever it stops.
SavedProgressIsStored ==
  sSaved # NoProgress =>
    \A n \in 1 .. Len(rSaved) : \A j \in 0 .. rSaved[n] - 1 :
      <<n - 1, j>> \in DOMAIN progressStore

\* What the user is given is the files of the sender, from the first on and each
\* one once, with every chunk in its place; one is left out only if IndexedDB
\* rejected a transaction on it, never because a chunk is missing.
DeliveredIntact ==
  \A n \in 1 .. Len(delivered) :
    /\ delivered[n].file = n - 1
    /\ \/ /\ delivered[n].outcome = "whole"
          /\ delivered[n].content = [i \in 1 .. Chunks[n - 1] |-> <<n - 1, i - 1>>]
       \/ /\ delivered[n].outcome = "rejected"
          /\ delivered[n].content = <<>>

\* A sender that turns to COMPLETED does so when the receiver has stored
\* every chunk of every file.
CompletedMeansStored ==
  [][sState # "COMPLETED" /\ sState' = "COMPLETED" => StoredUpTo(NumFiles - 1, Chunks[NumFiles - 1])]_vars

\* A transfer implements FileDelivery: nothing the connection, the workers, the
\* IndexedDB or the pages do makes the receiver count a chunk twice or out of
\* order, or hand over a file that is not the sender's.
Delivery == INSTANCE FileDelivery WITH
              acked <- [f \in File |-> lastAck[f] + 1], handed <- delivered

ImplementsDelivery == Delivery!Spec

Interrupted ==
  \/ sState \in {"CLOSED", "GONE"}
  \/ rState \in {"FAILED", "CLOSED", "GONE"}

\* Every file was handed over, or given up because IndexedDB rejected a transaction.
AllDelivered == Len(delivered) = NumFiles

\* Unless a side is closed, dies or cannot store a chunk, every file is delivered, or
\* reported as one that IndexedDB would not give back.
EventuallyDelivered == <>(AllDelivered \/ Interrupted)

\* No message is sent twice and nothing times out, so the two sides must never both
\* wait for each other: while both channels are open and every chunk could be stored,
\* something is under way.
SomebodyMoves ==
  sChannel = "open" /\ rChannel = "open" /\ rState # "FAILED"
    => InFlight # {} \/ assembling # <<>>
=============================================================================
