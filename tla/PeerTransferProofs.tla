-------------------------- MODULE PeerTransferProofs --------------------------
(***************************************************************************)
(* Proofs about PeerTransfer, for any number of files of any size.  The    *)
(* inductive invariant IInv says where the transfer is: of the one message *)
(* or chunk that is under way it says which one it can be (Flight), and it *)
(* ties the two sides' counts (Counts), the receiver's store (Stored), its *)
(* saved progress (Saved) and the assembly of the files (Assembled) to     *)
(* each other.  Its last part is about PeerResume, in which further calls  *)
(* replace the channel.                                                    *)
(***************************************************************************)
EXTENDS PeerResume, SequenceTheorems, TLAPS

R == Len(receivedFiles)

\* Every file is announced, known to the receiver and acknowledged in full.
Done ==
  /\ queueHead = NumFiles /\ R = NumFiles
  /\ sSaved = NoProgress
  /\ \A f \in File : lastAck[f] = Chunks[f] - 1

\* The receiver knows the files in the sender's order; all but the last are
\* complete, and the sender is at the last one, or one file ahead of it.
Counts ==
  /\ R \in 0 .. NumFiles
  /\ receivedFiles = [n \in 1 .. R |-> n - 1]
  /\ \A f \in File : lastAck[f] < Chunks[f]
  /\ \A f \in File : f + 1 < R => lastAck[f] = Chunks[f] - 1
  /\ \A f \in File : f >= R => lastAck[f] = -1
  /\ queueHead = currentFile + 1
  /\ sChannel = "connecting" => currentFile = NoFile
  /\ currentFile = NoFile => sSaved = NoProgress /\ currentChunkIndex = 0
  /\ \/ /\ currentFile = R
        /\ currentChunkIndex = 0
        /\ \A f \in File : f < R => lastAck[f] = Chunks[f] - 1
     \/ /\ currentFile = R - 1
        /\ R > 0 => currentChunkIndex \in {lastAck[currentFile], lastAck[currentFile] + 1}
  /\ sSaved # NoProgress => sSaved = <<currentFile, currentChunkIndex>>

\* The chunk that the sender is at is the one the receiver expects.
AtSameChunk ==
  /\ R > 0 /\ currentFile = R - 1
  /\ sSaved # NoProgress
  /\ currentChunkIndex = lastAck[currentFile] + 1
  /\ currentChunkIndex < Chunks[currentFile]

MayReachReceiver(m) ==
  \/ /\ m = FileHeader(currentFile)
     /\ currentFile = R /\ currentFile \in File
     /\ sSaved # NoProgress
  \/ /\ m = FileChunk(currentFile, currentChunkIndex)
     /\ AtSameChunk
  \/ /\ m = TransferComplete
     /\ Done /\ assembling = <<>> /\ delivered = <<>>
     /\ \A f \in File : \A j \in 0 .. Chunks[f] - 1 : <<f, j>> \in DOMAIN progressStore

MayReachSender(m) ==
  /\ R > 0 /\ currentFile = R - 1
  /\ sSaved # NoProgress
  /\ \/ /\ m = FileAck(currentFile)
        /\ lastAck[currentFile] = -1
        /\ currentChunkIndex = 0
     \/ /\ m = ChunkAck(currentFile, currentChunkIndex)
        /\ lastAck[currentFile] = currentChunkIndex

MayBeWritten(w) ==
  /\ w.key = <<currentFile, currentChunkIndex>>
  /\ w.data = w.key
  /\ w.stored \in BOOLEAN
  /\ AtSameChunk
  /\ w.stored => w.key \in DOMAIN progressStore

Quiet == toReceiver = EmptyBag /\ toSender = EmptyBag /\ writing = {}

\* At most one message or chunk is under way.
Flight ==
  \/ Quiet
  \/ \E m : /\ toReceiver = SetToBag({m}) /\ MayReachReceiver(m)
            /\ toSender = EmptyBag /\ writing = {}
  \/ \E m : /\ toSender = SetToBag({m}) /\ MayReachSender(m)
            /\ toReceiver = EmptyBag /\ writing = {}
  \/ \E w : /\ writing = {w} /\ MayBeWritten(w)
            /\ toReceiver = EmptyBag /\ toSender = EmptyBag

\* What is stored is in its place, and until the end nothing acknowledged is missing.
Stored ==
  /\ \A k \in DOMAIN progressStore : progressStore[k] = k
  /\ sSaved # NoProgress =>
       \A f \in File : \A j \in 0 .. lastAck[f] : <<f, j>> \in DOMAIN progressStore

Saved ==
  /\ Len(rSaved) <= R
  /\ \A n \in 1 .. Len(rSaved) : rSaved[n] <= lastAck[n - 1] + 1

\* An assembly has delivered the files before its own, and what it has not read
\* yet is stored.
AssemblyAt(a) ==
  /\ a.pos = Len(delivered) + 1
  /\ a.pos <= NumFiles => Len(a.content) <= Chunks[a.pos - 1]
  /\ a.pos > NumFiles => ~ a.read
  /\ a.content = [i \in 1 .. Len(a.content) |-> <<a.pos - 1, i - 1>>]
  /\ a.read => Len(a.content) > 0
  /\ \A f \in File : \A j \in 0 .. Chunks[f] - 1 :
       f > a.pos - 1 \/ (f = a.pos - 1 /\ j >= Len(a.content))
         => <<f, j>> \in DOMAIN progressStore

Assembled ==
  /\ Len(assembling) <= 1
  /\ assembling # <<>> \/ delivered # <<>> => Done /\ Quiet
  /\ Len(delivered) <= NumFiles
  /\ DeliveredIntact
  /\ assembling # <<>> => AssemblyAt(assembling[1])

IInv == TypeOK /\ Counts /\ Flight /\ Stored /\ Saved /\ Assembled

-----------------------------------------------------------------------------
(* Bags of one message *)

\* Sending on an empty direction and handling its only message, as bags
LEMMA OneMessage ==
  /\ IsABag(EmptyBag) /\ BagToSet(EmptyBag) = {}
  /\ \A m : /\ IsABag(SetToBag({m})) /\ BagToSet(SetToBag({m})) = {m}
            /\ SetToBag({m})[m] = 1
            /\ EmptyBag (+) SetToBag({m}) = SetToBag({m})
            /\ SetToBag({m}) (-) SetToBag({m}) = EmptyBag
<1>1. IsABag(EmptyBag) /\ BagToSet(EmptyBag) = {}
  BY DEF IsABag, EmptyBag, SetToBag, BagToSet
<1>2. ASSUME NEW m
      PROVE  /\ IsABag(SetToBag({m})) /\ BagToSet(SetToBag({m})) = {m}
             /\ SetToBag({m})[m] = 1
  BY DEF IsABag, SetToBag, BagToSet
<1>3. ASSUME NEW m PROVE EmptyBag (+) SetToBag({m}) = SetToBag({m})
  BY DEF EmptyBag, SetToBag, (+)
<1>4. ASSUME NEW m PROVE SetToBag({m}) (-) SetToBag({m}) = EmptyBag
  BY DEF EmptyBag, SetToBag, (-)
<1> QED BY <1>1, <1>2, <1>3, <1>4

\* A message sent while nothing else is under way is the only one, or dropped.
LEMMA SentAlone ==
  ASSUME NEW channel, NEW m
  PROVE  /\ Sent(EmptyBag, channel, m) \in {EmptyBag, SetToBag({m})}
         /\ IsABag(Sent(EmptyBag, channel, m))
BY OneMessage DEF Sent

\* Of the messages under way only the one there is can arrive.
LEMMA ArrivedAlone ==
  ASSUME NEW m, NEW type
  PROVE  /\ Arrived(EmptyBag, type) = {}
         /\ Arrived(SetToBag({m}), type) \subseteq {m}
         /\ \A x \in Arrived(SetToBag({m}), type) : x = m /\ x.type = type
         /\ Handled(SetToBag({m}), m) = EmptyBag
BY OneMessage DEF Arrived, Handled

-----------------------------------------------------------------------------
(* The invariant holds at first *)

LEMMA InitIInv == Init => IInv
<1> SUFFICES ASSUME Init PROVE IInv
  OBVIOUS
<1> USE NumFilesAssumption, ChunksAssumption DEF Init
<1>1. TypeOK
  BY OneMessage DEF TypeOK, SenderTypeOK, ReceiverTypeOK, StoreTypeOK, AssemblyTypeOK,
                    ManagerStates, NoFile, NoProgress, File
<1>2. Counts
  BY DEF Counts, R, NoFile, File
<1>3. Flight
  BY DEF Flight, Quiet
<1>4. Stored /\ Saved
  BY DEF Stored, Saved, NoProgress, R
<1>5. Assembled
  BY DEF Assembled, DeliveredIntact
<1> QED BY <1>1, <1>2, <1>3, <1>4, <1>5 DEF IInv

-----------------------------------------------------------------------------
(* The sender's steps *)

\* While the sender still has something to send, no file is assembled.
LEMMA NotAssembling ==
  ASSUME IInv, sSaved # NoProgress \/ ~ Quiet \/ queueHead < NumFiles
  PROVE  assembling = <<>> /\ delivered = <<>>
BY NumFilesAssumption DEF IInv, Assembled, Done

\* Announcing the next file: from a file that is acknowledged in full, or at the
\* start, with nothing under way.
LEMMA AnnounceStep ==
  ASSUME IInv, NEW channel, AnnounceNextFile(channel),
         currentFile = R - 1,
         R > 0 => lastAck[currentFile] = Chunks[currentFile] - 1,
         sSaved = NoProgress => R = 0,
         toReceiver = EmptyBag, toSender' = EmptyBag, writing = {},
         sState' \in ManagerStates, sChannel' \in {"open", "closed"},
         UNCHANGED <<receiverVars, storeVars>>
  PROVE  IInv'
<1> USE NumFilesAssumption, ChunksAssumption DEF AnnounceNextFile, receiverVars, storeVars
<1>1. Counts /\ TypeOK /\ Stored /\ Saved /\ Assembled
  BY DEF IInv
<1>2. R' = R /\ queueHead = R /\ currentFile' = R /\ R \in File /\ R \in Nat
  BY <1>1 DEF Counts, R, File
<1>3. sSaved' = <<currentFile', 0>> /\ sSaved' # NoProgress
  BY <1>2 DEF NoProgress
<1>4. \A f \in File : f < R => lastAck[f] = Chunks[f] - 1
  <2> SUFFICES ASSUME NEW f \in File, f < R PROVE lastAck[f] = Chunks[f] - 1
    OBVIOUS
  <2>1. CASE f = R - 1
    BY <2>1, <1>2 DEF File
  <2>2. CASE f + 1 < R
    BY <2>2, <1>1 DEF Counts
  <2> QED BY <2>1, <2>2, <1>2 DEF File
<1>5. Counts'
  <2>1. queueHead' = currentFile' + 1 /\ currentChunkIndex' = 0 /\ currentFile' # NoFile
    BY <1>2 DEF NoFile
  <2> QED BY <1>1, <1>2, <1>3, <1>4, <2>1 DEF Counts
<1>6. Flight'
  <2>1. toReceiver' \in {EmptyBag, SetToBag({FileHeader(currentFile')})}
    BY SentAlone
  <2>2. MayReachReceiver(FileHeader(currentFile))'
    BY <1>2, <1>3 DEF MayReachReceiver, FileHeader
  <2> QED BY <2>1, <2>2 DEF Flight, Quiet
<1>7. Stored'
  <2>1. CASE sSaved = NoProgress
    <3>1. \A f \in File : lastAck[f] = -1
      BY <2>1, <1>1 DEF Counts, File
    <3> QED BY <3>1, <1>1 DEF Stored
  <2>2. CASE sSaved # NoProgress
    BY <2>2, <1>1 DEF Stored
  <2> QED BY <2>1, <2>2
<1>8. Saved' /\ Assembled'
  <2>1. assembling = <<>> /\ delivered = <<>>
    BY NotAssembling
  <2> QED BY <1>1, <1>2, <2>1 DEF Saved, Assembled, DeliveredIntact
<1>9. TypeOK'
  <2>1. SenderTypeOK'
    BY <1>1, <1>2, <1>3 DEF TypeOK, SenderTypeOK, File
  <2>2. ReceiverTypeOK' /\ StoreTypeOK' /\ AssemblyTypeOK'
    BY <1>1 DEF TypeOK, ReceiverTypeOK, StoreTypeOK, AssemblyTypeOK
  <2>3. IsABag(toReceiver') /\ IsABag(toSender')
    BY OneMessage, SentAlone
  <2> QED BY <2>1, <2>2, <2>3 DEF TypeOK
<1> QED BY <1>5, <1>6, <1>7, <1>8, <1>9 DEF IInv

\* Sending the chunk after the last acknowledged one, or what follows the file.
LEMMA SendStep ==
  ASSUME IInv, NEW i, SendNextChunk(i),
         R > 0, currentFile = R - 1, sSaved # NoProgress,
         i = lastAck[currentFile] + 1,
         toReceiver = EmptyBag, toSender' = EmptyBag, writing = {},
         UNCHANGED <<sChannel, receiverVars, storeVars>>
  PROVE  IInv'
<1> USE NumFilesAssumption, ChunksAssumption DEF receiverVars, storeVars
<1>1. Counts /\ TypeOK /\ Stored /\ Saved /\ Assembled
  BY DEF IInv
<1>2. R' = R /\ R \in 1 .. NumFiles /\ currentFile \in File /\ queueHead = R
  BY <1>1 DEF Counts, R, File
<1>3. lastAck[currentFile] \in Nat \cup {-1} /\ lastAck[currentFile] < Chunks[currentFile]
      /\ Chunks[currentFile] \in Nat /\ i \in Nat
  <2>1. lastAck[currentFile] \in Nat \cup {-1} /\ Chunks[currentFile] \in Nat
    BY <1>1, <1>2 DEF TypeOK, ReceiverTypeOK
  <2>2. lastAck[currentFile] < Chunks[currentFile]
    BY <1>1, <1>2 DEF Counts
  <2> QED BY <2>1, <2>2
<1>4. sChannel \in {"open", "closed"}
  BY <1>1, <1>2 DEF Counts, TypeOK, SenderTypeOK, NoFile, File
<1>5. assembling = <<>> /\ delivered = <<>>
  BY NotAssembling
<1>6. ASSUME i < Chunks[currentFile], currentChunkIndex' = i,
             sSaved' = <<currentFile, i>>,
             toReceiver' = Sent(toReceiver, sChannel, FileChunk(currentFile, i)),
             UNCHANGED <<sState, queueHead, currentFile>>
      PROVE  IInv'
  <2>1. sSaved' = <<currentFile', currentChunkIndex'>> /\ sSaved' # NoProgress
    BY <1>6 DEF NoProgress
  <2>2. Counts'
    BY <1>1, <1>2, <1>6, <2>1 DEF Counts, NoFile, File
  <2>3. Flight'
    <3>1. toReceiver' \in {EmptyBag, SetToBag({FileChunk(currentFile, i)'})}
      BY <1>6, SentAlone DEF FileChunk
    <3>2. MayReachReceiver(FileChunk(currentFile, i))'
      BY <1>2, <1>6, <2>1 DEF MayReachReceiver, FileChunk, AtSameChunk
    <3> QED BY <3>1, <3>2 DEF Flight, Quiet
  <2>4. Stored' /\ Saved' /\ Assembled'
    BY <1>1, <1>2, <1>5 DEF Stored, Saved, Assembled, DeliveredIntact
  <2>5. TypeOK'
    <3>1. SenderTypeOK'
      BY <1>1, <1>2, <1>3, <1>6 DEF TypeOK, SenderTypeOK
    <3>2. ReceiverTypeOK' /\ StoreTypeOK' /\ AssemblyTypeOK'
      BY <1>1 DEF TypeOK, ReceiverTypeOK, StoreTypeOK, AssemblyTypeOK
    <3>3. IsABag(toReceiver') /\ IsABag(toSender')
      BY <1>6, OneMessage, SentAlone
    <3> QED BY <3>1, <3>2, <3>3 DEF TypeOK
  <2> QED BY <2>2, <2>3, <2>4, <2>5 DEF IInv
<1>7. ASSUME i >= Chunks[currentFile], AnnounceNextFile(sChannel), UNCHANGED sState
      PROVE  IInv'
  <2>1. lastAck[currentFile] = Chunks[currentFile] - 1
    BY <1>3, <1>7
  <2>2. sState' \in ManagerStates
    BY <1>1, <1>7 DEF TypeOK, SenderTypeOK
  <2> QED BY <1>4, <1>7, <2>1, <2>2, AnnounceStep
<1>8. ASSUME i >= Chunks[currentFile], SendTransferComplete(sChannel)
      PROVE  IInv'
  <2> USE <1>8 DEF SendTransferComplete
  <2>1. R = NumFiles /\ lastAck[currentFile] = Chunks[currentFile] - 1
    BY <1>2, <1>3
  <2>2. \A f \in File : lastAck[f] = Chunks[f] - 1
    <3> SUFFICES ASSUME NEW f \in File PROVE lastAck[f] = Chunks[f] - 1
      OBVIOUS
    <3>1. CASE f = currentFile
      BY <3>1, <2>1
    <3>2. CASE f + 1 < R
      BY <3>2, <1>1 DEF Counts
    <3> QED BY <3>1, <3>2, <2>1 DEF File
  <2>3. Done'
    BY <1>2, <2>1, <2>2 DEF Done
  <2>4. Counts'
    BY <1>1, <1>2 DEF Counts
  <2>5. Flight'
    <3>1. toReceiver' \in {EmptyBag, SetToBag({TransferComplete})}
      BY SentAlone
    <3>2. \A f \in File : \A j \in 0 .. Chunks[f] - 1 : <<f, j>> \in DOMAIN progressStore
      BY <1>1, <2>2 DEF Stored
    <3>3. MayReachReceiver(TransferComplete)'
      BY <1>5, <2>3, <3>2 DEF MayReachReceiver
    <3> QED BY <3>1, <3>3 DEF Flight, Quiet
  <2>6. Stored' /\ Saved' /\ Assembled'
    BY <1>1, <1>2, <1>5 DEF Stored, Saved, Assembled, DeliveredIntact
  <2>7. TypeOK'
    <3>1. SenderTypeOK'
      BY <1>1 DEF TypeOK, SenderTypeOK, ManagerStates
    <3>2. ReceiverTypeOK' /\ StoreTypeOK' /\ AssemblyTypeOK'
      BY <1>1 DEF TypeOK, ReceiverTypeOK, StoreTypeOK, AssemblyTypeOK
    <3>3. IsABag(toReceiver') /\ IsABag(toSender')
      BY OneMessage, SentAlone
    <3> QED BY <3>1, <3>2, <3>3 DEF TypeOK
  <2> QED BY <2>4, <2>5, <2>6, <2>7 DEF IInv
<1> QED BY <1>6, <1>7, <1>8 DEF SendNextChunk

LEMMA SenderChannelOpensStep == IInv /\ SenderChannelOpens => IInv'
<1> SUFFICES ASSUME IInv, SenderChannelOpens PROVE IInv'
  OBVIOUS
<1> USE NumFilesAssumption DEF SenderChannelOpens
<1>1. Counts /\ Flight /\ TypeOK
  BY DEF IInv
<1>2. R = 0 /\ currentFile = -1 /\ queueHead = 0 /\ sSaved = NoProgress /\ currentChunkIndex = 0
  BY <1>1 DEF Counts, NoFile
<1>3. Quiet
  BY <1>1, <1>2 DEF Flight, MayReachReceiver, MayReachSender, MayBeWritten, AtSameChunk,
                    Done, File
<1>4. AnnounceNextFile("open") /\ sState' = "TRANSFER_IN_PROGRESS"
  BY <1>2 DEF SendTransferComplete
<1> QED BY <1>2, <1>3, <1>4, AnnounceStep DEF Quiet, ManagerStates

\* The only message to the sender, when one arrives
LEMMA ArrivedAtSender ==
  ASSUME IInv, NEW type, NEW m \in Arrived(toSender, type)
  PROVE  /\ m.type = type /\ MayReachSender(m)
         /\ toReceiver = EmptyBag /\ writing = {}
         /\ Handled(toSender, m) = EmptyBag
<1>1. Flight
  BY DEF IInv
<1>2. toSender # EmptyBag
  BY ArrivedAlone
<1>3. PICK x : /\ toSender = SetToBag({x}) /\ MayReachSender(x)
               /\ toReceiver = EmptyBag /\ writing = {}
  BY <1>1, <1>2 DEF Flight, Quiet
<1> QED BY <1>3, ArrivedAlone

\* An acknowledgement, when one is handled, is that of the last thing sent.
LEMMA AckFacts ==
  ASSUME IInv, SenderHandlesFileAck \/ SenderHandlesChunkAck
  PROVE  /\ \E i : SendNextChunk(i) /\ i = lastAck[currentFile] + 1
         /\ R > 0 /\ currentFile = R - 1 /\ sSaved # NoProgress
         /\ toReceiver = EmptyBag /\ toSender' = EmptyBag /\ writing = {}
         /\ UNCHANGED <<sChannel, receiverVars, storeVars>>
<1>1. CASE SenderHandlesFileAck
  <2>1. PICK m \in Arrived(toSender, "FILE_ACK") :
          /\ toSender' = Handled(toSender, m)
          /\ \/ m.file = currentFile /\ SendNextChunk(0)
             \/ m.file # currentFile /\ UNCHANGED <<sState, sProgress, toReceiver>>
    BY <1>1 DEF SenderHandlesFileAck
  <2>2. /\ m.type = "FILE_ACK" /\ MayReachSender(m)
        /\ toReceiver = EmptyBag /\ writing = {} /\ toSender' = EmptyBag
    BY <2>1, ArrivedAtSender
  <2>3. m = FileAck(currentFile) /\ lastAck[currentFile] = -1
    BY <2>2 DEF MayReachSender, ChunkAck
  <2>4. SendNextChunk(0) /\ 0 = lastAck[currentFile] + 1
    BY <2>1, <2>3 DEF FileAck
  <2> QED BY <1>1, <2>2, <2>4 DEF MayReachSender, SenderHandlesFileAck
<1>2. CASE SenderHandlesChunkAck
  <2>1. PICK m \in Arrived(toSender, "CHUNK_ACK") :
          /\ toSender' = Handled(toSender, m)
          /\ \/ /\ m.file = currentFile /\ m.index >= currentChunkIndex
                /\ SendNextChunk(m.index + 1)
             \/ /\ m.file # currentFile \/ m.index < currentChunkIndex
                /\ UNCHANGED <<sState, sProgress, toReceiver>>
    BY <1>2 DEF SenderHandlesChunkAck
  <2>2. /\ m.type = "CHUNK_ACK" /\ MayReachSender(m)
        /\ toReceiver = EmptyBag /\ writing = {} /\ toSender' = EmptyBag
    BY <2>1, ArrivedAtSender
  <2>3. m = ChunkAck(currentFile, currentChunkIndex)
        /\ lastAck[currentFile] = currentChunkIndex
    BY <2>2 DEF MayReachSender, FileAck
  <2>4. currentChunkIndex \in Nat
    BY DEF IInv, TypeOK, SenderTypeOK
  <2>5. m.file = currentFile /\ m.index = currentChunkIndex
    BY <2>3 DEF ChunkAck
  <2>6. SendNextChunk(lastAck[currentFile] + 1)
    BY <2>1, <2>3, <2>4, <2>5
  <2> QED BY <1>2, <2>2, <2>6 DEF MayReachSender, SenderHandlesChunkAck
<1> QED BY <1>1, <1>2

LEMMA SenderHandlesAckStep ==
  IInv /\ (SenderHandlesFileAck \/ SenderHandlesChunkAck) => IInv'
BY AckFacts, SendStep

-----------------------------------------------------------------------------
(* The disturbances *)

\* A step that only loses what is under way, or changes the state of a side.
LEMMA LossStep ==
  ASSUME IInv,
         sState' \in ManagerStates, rState' \in ManagerStates,
         sChannel' \in {"connecting", "open", "closed"},
         rChannel' \in {"connecting", "open", "closed"},
         sChannel' = "connecting" => sChannel = "connecting",
         toReceiver' \in {toReceiver, EmptyBag}, toSender' \in {toSender, EmptyBag},
         writing' \in {writing, {}}, assembling' \in {assembling, <<>>},
         UNCHANGED <<sProgress, receivedFiles, lastAck, rSaved, delivered, progressStore>>
  PROVE  IInv'
<1> USE DEF sProgress
<1>1. Counts /\ Flight /\ TypeOK /\ Stored /\ Saved /\ Assembled
  BY DEF IInv
<1>2. R' = R /\ (Done => Done')
  BY DEF R, Done
<1>3. Counts'
  BY <1>1, <1>2 DEF Counts
<1>4. Flight' /\ (Quiet => Quiet')
  <2>1. Quiet => Quiet'
    BY DEF Quiet
  <2>2. \A m : MayReachReceiver(m) => MayReachReceiver(m)'
    BY <1>2 DEF MayReachReceiver, AtSameChunk, FileHeader, FileChunk
  <2>3. \A m : MayReachSender(m) => MayReachSender(m)'
    BY <1>2 DEF MayReachSender, FileAck, ChunkAck
  <2>4. \A w : MayBeWritten(w) => MayBeWritten(w)'
    BY <1>2 DEF MayBeWritten, AtSameChunk
  <2>5. CASE Quiet
    BY <2>1, <2>5 DEF Flight
  <2>6. ASSUME NEW m, toReceiver = SetToBag({m}), MayReachReceiver(m),
               toSender = EmptyBag, writing = {}
        PROVE  Flight'
    BY <2>2, <2>6 DEF Flight, Quiet
  <2>7. ASSUME NEW m, toSender = SetToBag({m}), MayReachSender(m),
               toReceiver = EmptyBag, writing = {}
        PROVE  Flight'
    BY <2>3, <2>7 DEF Flight, Quiet
  <2>8. ASSUME NEW w, writing = {w}, MayBeWritten(w),
               toReceiver = EmptyBag, toSender = EmptyBag
        PROVE  Flight'
    BY <2>4, <2>8 DEF Flight, Quiet
  <2> QED BY <1>1, <2>1, <2>5, <2>6, <2>7, <2>8 DEF Flight
<1>5. Stored' /\ Saved'
  BY <1>1, <1>2 DEF Stored, Saved
<1>6. Assembled'
  <2>1. DeliveredIntact' /\ Len(delivered') <= NumFiles
    BY <1>1 DEF Assembled, DeliveredIntact
  <2>2. CASE assembling' = assembling
    <3>1. assembling # <<>> => AssemblyAt(assembling[1])'
      BY <1>1, <2>2 DEF Assembled, AssemblyAt
    <3> QED BY <1>1, <1>2, <1>4, <2>1, <2>2, <3>1 DEF Assembled
  <2>3. CASE assembling' = <<>>
    BY <1>1, <1>2, <1>4, <2>1, <2>3 DEF Assembled
  <2> QED BY <2>2, <2>3
<1>7. TypeOK'
  <2>1. SenderTypeOK' /\ ReceiverTypeOK' /\ StoreTypeOK'
    BY <1>1 DEF TypeOK, SenderTypeOK, ReceiverTypeOK, StoreTypeOK
  <2>2. AssemblyTypeOK'
    <3>1. <<>> \in Seq([pos : Nat \ {0}, content : Seq(Key), read : BOOLEAN])
      OBVIOUS
    <3> QED BY <1>1, <3>1 DEF TypeOK, AssemblyTypeOK
  <2>3. IsABag(toReceiver') /\ IsABag(toSender')
    BY <1>1, OneMessage DEF TypeOK
  <2> QED BY <2>1, <2>2, <2>3 DEF TypeOK
<1> QED BY <1>3, <1>4, <1>5, <1>6, <1>7 DEF IInv

\* Whatever message is handled or lost, it was the only one.
LEMMA LoneMessage ==
  ASSUME Flight
  PROVE  /\ \A m \in BagToSet(toReceiver) : Handled(toReceiver, m) = EmptyBag
         /\ \A m \in BagToSet(toSender) : Handled(toSender, m) = EmptyBag
<1>1. \A m : Handled(SetToBag({m}), m) = EmptyBag /\ BagToSet(SetToBag({m})) = {m}
  BY OneMessage DEF Handled
<1>2. BagToSet(EmptyBag) = {}
  BY OneMessage
<1> QED BY <1>1, <1>2 DEF Flight, Quiet

-----------------------------------------------------------------------------
(* The receiver's steps *)

\* What is saved for a file is at most what was acknowledged of it.
LEMMA SavedChunksBound ==
  ASSUME NEW f \in File, NEW ack \in Nat \cup {-1}
  PROVE  SavedChunks(f, ack) \in Nat /\ SavedChunks(f, ack) <= ack + 1
BY ChunksAssumption, PartialAssumption DEF SavedChunks

LEMMA ReceiverChannelOpensStep == IInv /\ ReceiverChannelOpens => IInv'
<1> SUFFICES ASSUME IInv, ReceiverChannelOpens PROVE IInv'
  OBVIOUS
<1>1. sState \in ManagerStates /\ sChannel \in {"connecting", "open", "closed"}
  BY DEF IInv, TypeOK, SenderTypeOK
<1>2. "TRANSFER_IN_PROGRESS" \in ManagerStates
  BY DEF ManagerStates
<1> QED BY <1>1, <1>2, LossStep
        DEF ReceiverChannelOpens, senderVars, sProgress, storeVars

\* The only message to the receiver, when one arrives
LEMMA ArrivedAtReceiver ==
  ASSUME IInv, NEW type, NEW m \in Arrived(toReceiver, type)
  PROVE  /\ m.type = type /\ MayReachReceiver(m)
         /\ toSender = EmptyBag /\ writing = {}
         /\ Handled(toReceiver, m) = EmptyBag
<1>1. Flight
  BY DEF IInv
<1>2. toReceiver # EmptyBag
  BY ArrivedAlone
<1>3. PICK x : /\ toReceiver = SetToBag({x}) /\ MayReachReceiver(x)
               /\ toSender = EmptyBag /\ writing = {}
  BY <1>1, <1>2 DEF Flight, Quiet
<1> QED BY <1>3, ArrivedAlone

LEMMA ReceiverHandlesHeaderStep == IInv /\ ReceiverHandlesHeader => IInv'
<1> SUFFICES ASSUME IInv, ReceiverHandlesHeader PROVE IInv'
  OBVIOUS
<1> USE NumFilesAssumption, ChunksAssumption DEF senderVars, sProgress, storeVars
<1>1. PICK m \in Arrived(toReceiver, "FILE_HEADER") :
        /\ toReceiver' = Handled(toReceiver, m)
        /\ receivedFiles' = IF Contains(receivedFiles, m.file) THEN receivedFiles
                                                          ELSE Append(receivedFiles, m.file)
        /\ lastAck' = [lastAck EXCEPT ![m.file] = -1]
        /\ rSaved' = Progress(receivedFiles', lastAck')
        /\ toSender' = Sent(toSender, rChannel, FileAck(m.file))
  BY DEF ReceiverHandlesHeader
<1>2. /\ m.type = "FILE_HEADER" /\ MayReachReceiver(m)
      /\ toSender = EmptyBag /\ writing = {} /\ toReceiver' = EmptyBag
  BY <1>1, ArrivedAtReceiver
<1>3. m = FileHeader(currentFile) /\ currentFile = R /\ R \in File /\ sSaved # NoProgress
  BY <1>2 DEF MayReachReceiver, FileChunk, TransferComplete
<1>4. m.file = R
  BY <1>3 DEF FileHeader
<1>5. Counts /\ TypeOK /\ Stored /\ Saved /\ Assembled
  BY DEF IInv
<1>6. receivedFiles \in Seq(File) /\ lastAck \in [File -> Nat \cup {-1}] /\ lastAck[R] = -1
  BY <1>3, <1>5 DEF Counts, TypeOK, ReceiverTypeOK, File
<1>7. lastAck' = lastAck
  BY <1>1, <1>4, <1>6
<1>8. receivedFiles' = Append(receivedFiles, R)
  <2>1. ~ Contains(receivedFiles, R)
    BY <1>3, <1>5 DEF Contains, Counts, File, R
  <2> QED BY <1>1, <1>4, <2>1
<1>9. R' = R + 1 /\ receivedFiles' = [n \in 1 .. R + 1 |-> n - 1]
      /\ receivedFiles' \in Seq(File)
  <2>1. receivedFiles = [n \in 1 .. R |-> n - 1] /\ R \in Nat
    BY <1>5, <1>6 DEF Counts, R
  <2>2. R' = R + 1 /\ receivedFiles' \in Seq(File)
    BY <1>3, <1>6, <1>8 DEF R
  <2>3. \A n \in 1 .. R + 1 : receivedFiles'[n] = n - 1
    BY <1>6, <1>8, <2>1 DEF R
  <2>4. receivedFiles' = [n \in 1 .. R + 1 |-> receivedFiles'[n]]
    BY <2>2 DEF R
  <2> QED BY <2>2, <2>3, <2>4
<1>10. \A f \in File : f < R => lastAck[f] = Chunks[f] - 1
  BY <1>3, <1>5 DEF Counts, File
<1>11. Counts'
  <2>1. UNCHANGED <<queueHead, currentFile, currentChunkIndex, sSaved, sChannel>>
    BY DEF ReceiverHandlesHeader
  <2>2. currentFile' = R' - 1 /\ currentChunkIndex' = lastAck'[currentFile'] + 1
    BY <1>3, <1>5, <1>6, <1>7, <1>9, <2>1 DEF Counts, File
  <2>3. R' \in 0 .. NumFiles
    BY <1>3, <1>9 DEF File
  <2>4. \A f \in File : /\ f + 1 < R' => lastAck'[f] = Chunks[f] - 1
                        /\ f >= R' => lastAck'[f] = -1
    BY <1>3, <1>5, <1>7, <1>9, <1>10 DEF Counts, File
  <2> QED BY <1>5, <1>7, <1>9, <2>1, <2>2, <2>3, <2>4 DEF Counts
<1>12. Flight'
  <2>1. toSender' \in {EmptyBag, SetToBag({FileAck(currentFile)'})}
    BY <1>1, <1>2, <1>3, <1>4, SentAlone DEF FileAck, ReceiverHandlesHeader
  <2>2. MayReachSender(FileAck(currentFile))'
    BY <1>3, <1>5, <1>6, <1>7, <1>9 DEF MayReachSender, FileAck, Counts, File,
       ReceiverHandlesHeader
  <2> QED BY <1>2, <2>1, <2>2 DEF Flight, Quiet, ReceiverHandlesHeader
<1>13. assembling = <<>> /\ delivered = <<>> /\ Stored' /\ Assembled'
  BY <1>3, <1>5, <1>7, NotAssembling
     DEF Stored, Assembled, DeliveredIntact, ReceiverHandlesHeader
<1>14. Saved' /\ rSaved' \in Seq(Nat)
  <2>1. rSaved' = [n \in 1 .. R + 1 |-> SavedChunks(n - 1, lastAck[n - 1])]
    BY <1>1, <1>3, <1>7, <1>9 DEF Progress, R, File
  <2>2. \A n \in 1 .. R + 1 : n - 1 \in File /\ lastAck[n - 1] \in Nat \cup {-1}
    BY <1>3, <1>6 DEF File
  <2>3. \A n \in 1 .. R + 1 : /\ SavedChunks(n - 1, lastAck[n - 1]) \in Nat
                              /\ SavedChunks(n - 1, lastAck[n - 1]) <= lastAck[n - 1] + 1
    BY <2>2, SavedChunksBound
  <2>4. R + 1 \in Nat
    BY <1>3 DEF File
  <2>5. rSaved' \in Seq(Nat) /\ Len(rSaved') = R + 1
    BY <2>1, <2>3, <2>4
  <2>6. \A n \in 1 .. R + 1 : rSaved'[n] <= lastAck'[n - 1] + 1
    BY <1>7, <2>1, <2>3
  <2> QED BY <1>9, <2>4, <2>5, <2>6 DEF Saved
<1>15. TypeOK'
  <2>1. SenderTypeOK' /\ ReceiverTypeOK' /\ StoreTypeOK' /\ AssemblyTypeOK'
    BY <1>5, <1>7, <1>9, <1>14 DEF TypeOK, SenderTypeOK, ReceiverTypeOK, StoreTypeOK,
       AssemblyTypeOK, ReceiverHandlesHeader
  <2>2. IsABag(toReceiver') /\ IsABag(toSender')
    BY <1>1, <1>2, OneMessage, SentAlone
  <2> QED BY <2>1, <2>2 DEF TypeOK
<1> QED BY <1>11, <1>12, <1>13, <1>14, <1>15 DEF IInv

LEMMA ReceiverTakesChunkStep == IInv /\ ReceiverTakesChunk => IInv'
<1> SUFFICES ASSUME IInv, ReceiverTakesChunk PROVE IInv'
  OBVIOUS
<1> USE NumFilesAssumption, ChunksAssumption DEF senderVars, sProgress, receiverVars
<1>1. PICK m \in Arrived(toReceiver, "FILE_CHUNK") :
        /\ toReceiver' = Handled(toReceiver, m)
        /\ writing' = {[key |-> ExpectedChunk, data |-> <<m.file, m.index>>, stored |-> FALSE]}
  BY DEF ReceiverTakesChunk
<1>2. /\ m.type = "FILE_CHUNK" /\ MayReachReceiver(m)
      /\ toSender = EmptyBag /\ writing = {} /\ toReceiver' = EmptyBag
  BY <1>1, ArrivedAtReceiver
<1>3. m = FileChunk(currentFile, currentChunkIndex) /\ AtSameChunk
  BY <1>2 DEF MayReachReceiver, FileHeader, TransferComplete
<1>4. Counts /\ TypeOK /\ Stored /\ Saved /\ Assembled
  BY DEF IInv
<1>5. ExpectedChunk = <<currentFile, currentChunkIndex>>
  <2>1. Last(receivedFiles) = R - 1
    BY <1>3, <1>4 DEF Counts, AtSameChunk, Last, R
  <2> QED BY <1>3, <2>1 DEF ExpectedChunk, AtSameChunk
<1>6. PICK w : w = [key |-> <<currentFile, currentChunkIndex>>,
                    data |-> <<currentFile, currentChunkIndex>>, stored |-> FALSE]
  OBVIOUS
<1>7. writing' = {w}
  BY <1>1, <1>3, <1>5, <1>6 DEF FileChunk
<1>8. R' = R /\ UNCHANGED <<queueHead, currentFile, currentChunkIndex, sSaved, sChannel>>
  BY DEF ReceiverTakesChunk, R
<1>9. Counts' /\ Stored' /\ Saved'
  BY <1>4, <1>8 DEF Counts, Stored, Saved, ReceiverTakesChunk
<1>10. Flight'
  <2>1. MayBeWritten(w)'
    BY <1>3, <1>6, <1>8 DEF MayBeWritten, AtSameChunk, ReceiverTakesChunk
  <2> QED BY <1>2, <1>7, <2>1 DEF Flight, ReceiverTakesChunk
<1>11. Assembled'
  BY <1>3, <1>4, NotAssembling DEF AtSameChunk, Assembled, DeliveredIntact, ReceiverTakesChunk
<1>12. TypeOK'
  <2>1. w \in [key : Key, data : Key, stored : BOOLEAN]
    <3>1. <<currentFile, currentChunkIndex>> \in Key
      BY <1>3, <1>4 DEF AtSameChunk, Counts, TypeOK, SenderTypeOK, Key, File, NoFile
    <3> QED BY <1>6, <3>1
  <2>2. StoreTypeOK'
    BY <1>4, <1>7, <2>1 DEF TypeOK, StoreTypeOK, ReceiverTakesChunk
  <2>3. SenderTypeOK' /\ ReceiverTypeOK' /\ AssemblyTypeOK'
    BY <1>4 DEF TypeOK, SenderTypeOK, ReceiverTypeOK, AssemblyTypeOK, ReceiverTakesChunk
  <2>4. IsABag(toReceiver') /\ IsABag(toSender')
    BY <1>2, OneMessage DEF ReceiverTakesChunk
  <2> QED BY <2>2, <2>3, <2>4 DEF TypeOK
<1> QED BY <1>9, <1>10, <1>11, <1>12 DEF IInv

\* The only chunk under the receiver's lock
LEMMA LoneChunk ==
  ASSUME IInv, NEW w \in writing
  PROVE  /\ MayBeWritten(w) /\ writing = {w}
         /\ toReceiver = EmptyBag /\ toSender = EmptyBag
BY DEF IInv, Flight, Quiet

LEMMA ReceiverStoresChunkStep == IInv /\ ReceiverStoresChunk => IInv'
<1> SUFFICES ASSUME IInv, ReceiverStoresChunk PROVE IInv'
  OBVIOUS
<1> USE NumFilesAssumption, ChunksAssumption DEF senderVars, sProgress, receiverVars
<1>1. PICK w \in writing :
        /\ progressStore' = [k \in DOMAIN progressStore \cup {w.key} |->
                               IF k = w.key THEN w.data ELSE progressStore[k]]
        /\ writing' = {[w EXCEPT !.stored = TRUE]}
        /\ UNCHANGED <<senderVars, toReceiver, toSender, receiverVars>>
  BY DEF ReceiverStoresChunk
<1>2. /\ MayBeWritten(w) /\ AtSameChunk
      /\ toReceiver = EmptyBag /\ toSender = EmptyBag
  BY LoneChunk DEF MayBeWritten
<1>3. Counts /\ TypeOK /\ Stored /\ Saved /\ Assembled
  BY DEF IInv
<1>4. w \in [key : Key, data : Key, stored : BOOLEAN]
  BY <1>3 DEF TypeOK, StoreTypeOK
<1> DEFINE v == [w EXCEPT !.stored = TRUE]
<1>5. v.key = w.key /\ v.data = w.data /\ v.stored = TRUE
      /\ v \in [key : Key, data : Key, stored : BOOLEAN]
  BY <1>4
<1>6. writing' = {v}
  BY <1>1
<1> HIDE DEF v
<1>7. R' = R
  BY <1>1 DEF R
<1>8. Counts' /\ Saved'
  BY <1>1, <1>3, <1>7 DEF Counts, Saved
<1>9. Stored'
  BY <1>1, <1>2, <1>3 DEF Stored, MayBeWritten
<1>10. Flight'
  <2>1. MayBeWritten(v)'
    BY <1>1, <1>2, <1>5, <1>7 DEF MayBeWritten, AtSameChunk, v
  <2> QED BY <1>1, <1>2, <1>6, <2>1 DEF Flight
<1>11. Assembled'
  BY <1>1, <1>2, <1>3, NotAssembling DEF AtSameChunk, Assembled, DeliveredIntact
<1>12. TypeOK'
  <2>1. StoreTypeOK'
    BY <1>1, <1>3, <1>4, <1>5, <1>6 DEF TypeOK, StoreTypeOK
  <2> QED BY <1>1, <1>3, <2>1 DEF TypeOK, SenderTypeOK, ReceiverTypeOK, AssemblyTypeOK
<1> QED BY <1>8, <1>9, <1>10, <1>11, <1>12 DEF IInv

LEMMA ReceiverAcksChunkStep == IInv /\ ReceiverAcksChunk => IInv'
<1> SUFFICES ASSUME IInv, ReceiverAcksChunk PROVE IInv'
  OBVIOUS
<1> USE NumFilesAssumption, ChunksAssumption DEF senderVars, sProgress
<1>1. PICK w \in writing :
        /\ w.stored
        /\ lastAck' = [lastAck EXCEPT ![w.key[1]] = w.key[2]]
        /\ rSaved' = Progress(receivedFiles, lastAck')
        /\ toSender' = Sent(toSender, rChannel, ChunkAck(w.key[1], w.key[2]))
        /\ writing' = {}
        /\ UNCHANGED <<senderVars, toReceiver, rState, rChannel, receivedFiles, assembling,
                       delivered, progressStore>>
  BY DEF ReceiverAcksChunk
<1>2. /\ MayBeWritten(w) /\ AtSameChunk
      /\ toReceiver = EmptyBag /\ toSender = EmptyBag
  BY LoneChunk DEF MayBeWritten
<1>3. Counts /\ TypeOK /\ Stored /\ Saved /\ Assembled
  BY DEF IInv
<1>4. /\ currentFile \in File /\ currentFile = R - 1 /\ currentChunkIndex \in Nat
      /\ R \in 1 .. NumFiles
      /\ lastAck \in [File -> Nat \cup {-1}] /\ receivedFiles \in Seq(File)
  BY <1>2, <1>3 DEF AtSameChunk, Counts, TypeOK, SenderTypeOK, ReceiverTypeOK, File, NoFile
<1>5. w.key[1] = currentFile /\ w.key[2] = currentChunkIndex
      /\ <<currentFile, currentChunkIndex>> \in DOMAIN progressStore
  BY <1>1, <1>2 DEF MayBeWritten
<1>6. /\ lastAck' \in [File -> Nat \cup {-1}]
      /\ lastAck'[currentFile] = currentChunkIndex
      /\ \A f \in File : f # currentFile => lastAck'[f] = lastAck[f]
  BY <1>1, <1>4, <1>5
<1>7. R' = R
  BY <1>1 DEF R
<1>8. Counts'
  <2>1. \A f \in File : /\ lastAck'[f] < Chunks[f]
                        /\ f + 1 < R' => lastAck'[f] = Chunks[f] - 1
                        /\ f >= R' => lastAck'[f] = -1
    BY <1>2, <1>3, <1>4, <1>6, <1>7 DEF Counts, AtSameChunk, File
  <2>2. currentFile' = R' - 1 /\ currentChunkIndex' = lastAck'[currentFile']
    BY <1>1, <1>4, <1>6, <1>7
  <2> QED BY <1>1, <1>3, <1>7, <2>1, <2>2 DEF Counts
<1>9. Stored'
  <2> SUFFICES ASSUME NEW f \in File, NEW j \in 0 .. lastAck'[f]
               PROVE  <<f, j>> \in DOMAIN progressStore
    BY <1>1, <1>3 DEF Stored
  <2>1. CASE f = currentFile /\ j = currentChunkIndex
    BY <1>5, <2>1
  <2>2. CASE ~ (f = currentFile /\ j = currentChunkIndex)
    <3>1. lastAck[f] \in Nat \cup {-1} /\ lastAck'[f] \in Nat \cup {-1}
      BY <1>4, <1>6
    <3>2. j \in 0 .. lastAck[f]
      BY <1>2, <1>4, <1>6, <2>2, <3>1 DEF AtSameChunk
    <3> QED BY <1>2, <1>3, <3>2 DEF Stored, AtSameChunk
  <2> QED BY <2>1, <2>2
<1>10. Flight'
  <2>1. toSender' \in {EmptyBag, SetToBag({ChunkAck(currentFile, currentChunkIndex)'})}
    BY <1>1, <1>2, <1>5, SentAlone DEF ChunkAck
  <2>2. MayReachSender(ChunkAck(currentFile, currentChunkIndex))'
    BY <1>1, <1>2, <1>4, <1>6, <1>7 DEF MayReachSender, ChunkAck, AtSameChunk
  <2> QED BY <1>1, <1>2, <2>1, <2>2 DEF Flight, Quiet
<1>11. Assembled'
  BY <1>1, <1>2, <1>3, NotAssembling DEF AtSameChunk, Assembled, DeliveredIntact
<1>12. Saved' /\ rSaved' \in Seq(Nat)
  <2>1. rSaved' = [n \in 1 .. R |-> SavedChunks(n - 1, lastAck'[n - 1])]
    BY <1>1, <1>3, <1>4 DEF Progress, Counts, R
  <2>2. \A n \in 1 .. R : n - 1 \in File /\ lastAck'[n - 1] \in Nat \cup {-1}
    BY <1>4, <1>6 DEF File
  <2>3. \A n \in 1 .. R : /\ SavedChunks(n - 1, lastAck'[n - 1]) \in Nat
                          /\ SavedChunks(n - 1, lastAck'[n - 1]) <= lastAck'[n - 1] + 1
    BY <2>2, SavedChunksBound
  <2>4. R \in Nat
    BY <1>4
  <2>5. rSaved' \in Seq(Nat) /\ Len(rSaved') = R
    BY <2>1, <2>3, <2>4
  <2>6. \A n \in 1 .. R : rSaved'[n] <= lastAck'[n - 1] + 1
    BY <2>1, <2>3
  <2> QED BY <1>7, <2>4, <2>5, <2>6 DEF Saved
<1>13. TypeOK'
  <2>1. SenderTypeOK' /\ ReceiverTypeOK' /\ StoreTypeOK' /\ AssemblyTypeOK'
    BY <1>1, <1>3, <1>6, <1>12 DEF TypeOK, SenderTypeOK, ReceiverTypeOK, StoreTypeOK,
                                   AssemblyTypeOK
  <2>2. IsABag(toReceiver') /\ IsABag(toSender')
    BY <1>1, <1>2, OneMessage, SentAlone
  <2> QED BY <2>1, <2>2 DEF TypeOK
<1> QED BY <1>8, <1>9, <1>10, <1>11, <1>12, <1>13 DEF IInv

\* While a file is assembled, everything is done and nothing is under way.
LEMMA AssemblyFacts ==
  ASSUME IInv, NEW n \in DOMAIN assembling
  PROVE  /\ n = 1 /\ Len(assembling) = 1 /\ AssemblyAt(assembling[n])
         /\ Done /\ Quiet /\ DeliveredIntact
         /\ receivedFiles = [k \in 1 .. NumFiles |-> k - 1] /\ Len(receivedFiles) = NumFiles
         /\ assembling[n] \in [pos : Nat \ {0}, content : Seq(Key), read : BOOLEAN]
<1>1. assembling \in Seq([pos : Nat \ {0}, content : Seq(Key), read : BOOLEAN])
  BY DEF IInv, TypeOK, AssemblyTypeOK
<1>2. Len(assembling) <= 1
  BY DEF IInv, Assembled
<1>3. n = 1 /\ Len(assembling) = 1 /\ assembling # <<>>
  <2>1. DOMAIN assembling = 1 .. Len(assembling) /\ Len(assembling) \in Nat
    BY <1>1
  <2>2. n = 1 /\ Len(assembling) = 1
    BY <1>2, <2>1
  <2> QED BY <2>2
<1>4. AssemblyAt(assembling[1]) /\ Done /\ Quiet /\ DeliveredIntact
  BY <1>3 DEF IInv, Assembled
<1>5. receivedFiles = [k \in 1 .. NumFiles |-> k - 1] /\ Len(receivedFiles) = NumFiles
  BY <1>4 DEF IInv, Counts, Done, R
<1>6. assembling[1] \in [pos : Nat \ {0}, content : Seq(Key), read : BOOLEAN]
  <2>1. \A S : assembling \in Seq(S) => assembling[1] \in S
    BY <1>3
  <2> QED BY <1>1, <2>1
<1> QED BY <1>3, <1>4, <1>5, <1>6

\* A step of an assembly that leaves the rest alone
LEMMA AssemblyStep ==
  ASSUME IInv, Done, Quiet,
         Len(assembling') <= 1, Len(delivered') <= NumFiles,
         DeliveredIntact',
         assembling' # <<>> => AssemblyAt(assembling[1])',
         \A k \in DOMAIN progressStore' : k \in DOMAIN progressStore
                                          /\ progressStore'[k] = progressStore[k],
         StoreTypeOK', AssemblyTypeOK',
         rState' \in ManagerStates, rChannel' \in {"connecting", "open", "closed"},
         rSaved' \in {rSaved, NoProgress},
         UNCHANGED <<senderVars, toReceiver, toSender, receivedFiles, lastAck, writing>>
  PROVE  IInv'
<1> USE DEF senderVars, sProgress
<1>1. Counts /\ TypeOK /\ Stored /\ Saved /\ Assembled
  BY DEF IInv
<1>2. R' = R /\ Done' /\ Quiet'
  BY DEF R, Done, Quiet
<1>3. Counts' /\ Flight'
  BY <1>1, <1>2 DEF Counts, Flight
<1>4. Stored'
  BY <1>1, <1>2 DEF Stored, Done
<1>5. Saved'
  BY <1>1, <1>2, NumFilesAssumption DEF Saved, NoProgress, Done
<1>6. Assembled'
  BY <1>2 DEF Assembled
<1>7. TypeOK'
  <2>1. rSaved' \in Seq(Nat)
    <3>1. NoProgress \in Seq(Nat)
      BY DEF NoProgress
    <3> QED BY <1>1, <3>1 DEF TypeOK, ReceiverTypeOK
  <2> QED BY <1>1, <2>1 DEF TypeOK, SenderTypeOK, ReceiverTypeOK
<1> QED BY <1>3, <1>4, <1>5, <1>6, <1>7 DEF IInv

LEMMA ReceiverHandlesCompleteStep == IInv /\ ReceiverHandlesComplete => IInv'
<1> SUFFICES ASSUME IInv, ReceiverHandlesComplete PROVE IInv'
  OBVIOUS
<1> USE NumFilesAssumption, ChunksAssumption
    DEF ReceiverHandlesComplete, senderVars, sProgress, storeVars
<1>1. TransferComplete \in Arrived(toReceiver, "TRANSFER_COMPLETE")
  BY DEF Arrived, BagIn, TransferComplete
<1>2. /\ MayReachReceiver(TransferComplete)
      /\ toSender = EmptyBag /\ writing = {} /\ toReceiver' = EmptyBag
  BY <1>1, ArrivedAtReceiver
<1>3. /\ Done /\ assembling = <<>> /\ delivered = <<>>
      /\ \A f \in File : \A j \in 0 .. Chunks[f] - 1 : <<f, j>> \in DOMAIN progressStore
  BY <1>2 DEF MayReachReceiver, TransferComplete, FileHeader, FileChunk
<1>4. Counts /\ TypeOK /\ Stored /\ Saved
  BY DEF IInv
<1>5. R' = R /\ Done' /\ Quiet'
  BY <1>2, <1>3 DEF R, Done, Quiet
<1>6. Counts' /\ Flight' /\ Stored' /\ Saved'
  BY <1>4, <1>5 DEF Counts, Flight, Stored, Saved
<1>7. PICK a : a = [pos |-> 1, content |-> <<>>, read |-> FALSE]
  OBVIOUS
<1>8. assembling' = <<a>> /\ Len(assembling') = 1 /\ assembling'[1] = a
  BY <1>3, <1>7
<1>9. Assembled'
  <2>1. delivered' = <<>> /\ Len(delivered') = 0
    BY <1>3
  <2>2. DeliveredIntact'
    BY <2>1 DEF DeliveredIntact
  <2>3. AssemblyAt(a)'
    <3>1. a.content = [i \in 1 .. Len(a.content) |-> <<a.pos - 1, i - 1>>] /\ Len(a.content) = 0
      BY <1>7
    <3>2. Chunks[0] \in Nat
      BY DEF File
    <3> QED BY <1>3, <1>7, <2>1, <3>1, <3>2 DEF AssemblyAt
  <2> QED BY <1>5, <1>8, <2>1, <2>2, <2>3 DEF Assembled
<1>10. TypeOK'
  <2>1. AssemblyTypeOK'
    <3>1. <<>> \in Seq(Key)
      OBVIOUS
    <3>2. a \in [pos : Nat \ {0}, content : Seq(Key), read : BOOLEAN]
      BY <1>7, <3>1
    <3>3. \A S : a \in S => <<a>> \in Seq(S)
      OBVIOUS
    <3> QED BY <1>4, <1>8, <3>2, <3>3 DEF TypeOK, AssemblyTypeOK
  <2>2. SenderTypeOK' /\ ReceiverTypeOK' /\ StoreTypeOK'
    BY <1>4 DEF TypeOK, SenderTypeOK, ReceiverTypeOK, StoreTypeOK, ManagerStates
  <2>3. IsABag(toReceiver') /\ IsABag(toSender')
    BY <1>2, OneMessage
  <2> QED BY <2>1, <2>2, <2>3 DEF TypeOK
<1> QED BY <1>6, <1>9, <1>10 DEF IInv

\* The file and the next chunk of an assembly, whose chunks are all there
LEMMA LookingFacts ==
  ASSUME IInv, NEW n \in Looking
  PROVE  /\ n \in DOMAIN assembling
         /\ FileOf(assembling[n]) = assembling[n].pos - 1
         /\ assembling[n].pos - 1 \in File
         /\ Wanted(assembling[n]) = <<assembling[n].pos - 1, Len(assembling[n].content)>>
         /\ WantsMore(assembling[n]) => Wanted(assembling[n]) \in DOMAIN progressStore
         /\ Len(assembling[n].content) \in Nat
         /\ Chunks[assembling[n].pos - 1] \in Nat
<1> USE NumFilesAssumption, ChunksAssumption
<1>1. n \in DOMAIN assembling /\ assembling[n].pos <= Len(receivedFiles)
  BY DEF Looking
<1>2. PICK a : a = assembling[n]
  OBVIOUS
<1>3. /\ AssemblyAt(a)
      /\ receivedFiles = [k \in 1 .. NumFiles |-> k - 1] /\ Len(receivedFiles) = NumFiles
      /\ a \in [pos : Nat \ {0}, content : Seq(Key), read : BOOLEAN]
  BY <1>1, <1>2, AssemblyFacts
<1>4. a.pos \in 1 .. NumFiles /\ FileOf(a) = a.pos - 1 /\ a.pos - 1 \in File
  BY <1>1, <1>2, <1>3 DEF FileOf, File
<1>5. Len(a.content) \in Nat /\ Chunks[a.pos - 1] \in Nat
  BY <1>3, <1>4
<1>6. WantsMore(a) => Wanted(a) \in DOMAIN progressStore
  BY <1>3, <1>4, <1>5 DEF WantsMore, Wanted, AssemblyAt
<1> QED BY <1>1, <1>2, <1>4, <1>5, <1>6 DEF Wanted

LEMMA NothingMissing ==
  ASSUME IInv, NEW n \in Looking, WantsMore(assembling[n])
  PROVE  ~ ChunkMissing(n)
BY LookingFacts DEF ChunkMissing

\* The assembly at work, and what it leaves when it becomes b
LEMMA AssemblyMoves ==
  ASSUME IInv, NEW n \in DOMAIN assembling, NEW b,
         b \in [pos : Nat \ {0}, content : Seq(Key), read : BOOLEAN],
         assembling' = [assembling EXCEPT ![n] = b]
  PROVE  /\ Len(assembling') = 1 /\ assembling'[1] = b
         /\ assembling' \in Seq([pos : Nat \ {0}, content : Seq(Key), read : BOOLEAN])
<1>1. assembling \in Seq([pos : Nat \ {0}, content : Seq(Key), read : BOOLEAN])
  BY DEF IInv, TypeOK, AssemblyTypeOK
<1>2. n = 1 /\ Len(assembling) = 1
  BY AssemblyFacts
<1>3. n \in 1 .. Len(assembling)
  BY <1>2
<1>4. ASSUME NEW S, assembling \in Seq(S), b \in S
      PROVE  assembling' \in Seq(S) /\ Len(assembling') = 1 /\ assembling'[1] = b
  <2>1. /\ [assembling EXCEPT ![n] = b] \in Seq(S)
        /\ Len([assembling EXCEPT ![n] = b]) = Len(assembling)
        /\ [assembling EXCEPT ![n] = b][n] = b
    BY <1>3, <1>4, ExceptSeq
  <2> QED BY <1>2, <2>1
<1> QED BY <1>1, <1>4

LEMMA ReceiverReadsChunkStep == IInv /\ ReceiverReadsChunk => IInv'
<1> SUFFICES ASSUME IInv, ReceiverReadsChunk PROVE IInv'
  OBVIOUS
<1> USE NumFilesAssumption, ChunksAssumption DEF senderVars, sProgress, storeVars
<1>1. PICK n \in Looking :
        /\ WantsMore(assembling[n])
        /\ assembling' = [assembling EXCEPT ![n] =
             [assembling[n] EXCEPT !.content = Append(@, progressStore[Wanted(assembling[n])]),
                                   !.read = TRUE]]
        /\ UNCHANGED delivered
  BY NothingMissing DEF ReceiverReadsChunk, ChunkFound
<1>2. PICK a : a = assembling[n]
  OBVIOUS
<1>3. n \in DOMAIN assembling /\ a.pos - 1 \in File /\ FileOf(a) = a.pos - 1
      /\ Wanted(a) = <<a.pos - 1, Len(a.content)>> /\ Wanted(a) \in DOMAIN progressStore
      /\ Len(a.content) \in Nat /\ Chunks[a.pos - 1] \in Nat
  BY <1>1, <1>2, LookingFacts
<1>4. /\ AssemblyAt(a) /\ Done /\ Quiet /\ DeliveredIntact
      /\ a \in [pos : Nat \ {0}, content : Seq(Key), read : BOOLEAN]
  BY <1>2, <1>3, AssemblyFacts
<1>5. progressStore[Wanted(a)] = Wanted(a) /\ Wanted(a) \in Key
  BY <1>3 DEF IInv, Stored, TypeOK, StoreTypeOK
<1>6. PICK b : b = [a EXCEPT !.content = Append(@, Wanted(a)), !.read = TRUE]
  OBVIOUS
<1>7. /\ b.pos = a.pos /\ b.read = TRUE
      /\ b.content = Append(a.content, <<a.pos - 1, Len(a.content)>>)
      /\ Len(b.content) = Len(a.content) + 1
      /\ b \in [pos : Nat \ {0}, content : Seq(Key), read : BOOLEAN]
  <2>1. a.content \in Seq(Key)
    BY <1>4
  <2>2. Append(a.content, Wanted(a)) \in Seq(Key)
    BY <1>5, <2>1
  <2>3. b.pos = a.pos /\ b.read = TRUE /\ b.content = Append(a.content, Wanted(a))
    BY <1>4, <1>6
  <2>4. b \in [pos : Nat \ {0}, content : Seq(Key), read : BOOLEAN]
    BY <1>4, <1>6, <2>2
  <2> QED BY <1>3, <2>1, <2>3, <2>4
<1>8. Len(assembling') = 1 /\ assembling'[1] = b
      /\ assembling' \in Seq([pos : Nat \ {0}, content : Seq(Key), read : BOOLEAN])
  <2>1. assembling' = [assembling EXCEPT ![n] = b]
    BY <1>1, <1>2, <1>5, <1>6
  <2> QED BY <1>3, <1>7, <2>1, AssemblyMoves
<1>9. UNCHANGED <<senderVars, toReceiver, toSender, rState, rChannel, receivedFiles,
                  lastAck, rSaved, delivered, storeVars>>
  BY <1>1 DEF ReceiverReadsChunk
<1>10. AssemblyAt(b)'
  <2>1. b.content = [i \in 1 .. Len(b.content) |-> <<b.pos - 1, i - 1>>]
    <3>1. a.content = [i \in 1 .. Len(a.content) |-> <<a.pos - 1, i - 1>>]
          /\ a.content \in Seq(Key)
      BY <1>4 DEF AssemblyAt
    <3>2. \A i \in 1 .. Len(a.content) + 1 : b.content[i] = <<b.pos - 1, i - 1>>
      BY <1>3, <1>7, <3>1
    <3>3. b.content = [i \in 1 .. Len(b.content) |-> b.content[i]]
      BY <1>7
    <3> QED BY <1>7, <3>2, <3>3
  <2>2. Len(b.content) <= Chunks[b.pos - 1]
    BY <1>1, <1>2, <1>3, <1>7 DEF WantsMore
  <2>3. b.pos <= NumFiles
    BY <1>3, <1>7 DEF File
  <2>4. \A f \in File : \A j \in 0 .. Chunks[f] - 1 :
          f > b.pos - 1 \/ (f = b.pos - 1 /\ j >= Len(b.content))
            => <<f, j>> \in DOMAIN progressStore
    BY <1>3, <1>4, <1>7 DEF AssemblyAt
  <2>5. b.pos = Len(delivered') + 1 /\ progressStore' = progressStore /\ Len(b.content) > 0
    BY <1>3, <1>4, <1>7, <1>9 DEF AssemblyAt
  <2>6. ~ (b.pos > NumFiles)
    BY <1>7, <2>3
  <2> QED BY <2>1, <2>2, <2>4, <2>5, <2>6 DEF AssemblyAt
<1>11. DeliveredIntact' /\ Len(delivered') <= NumFiles /\ StoreTypeOK' /\ AssemblyTypeOK'
  BY <1>4, <1>8, <1>9 DEF DeliveredIntact, IInv, Assembled, TypeOK, StoreTypeOK, AssemblyTypeOK
<1>12. rState \in ManagerStates /\ rChannel \in {"connecting", "open", "closed"}
  BY DEF IInv, TypeOK, ReceiverTypeOK
<1> QED BY <1>4, <1>8, <1>9, <1>10, <1>11, <1>12, AssemblyStep

LEMMA ReceiverDeletesChunkStep == IInv /\ ReceiverDeletesChunk => IInv'
<1> SUFFICES ASSUME IInv, ReceiverDeletesChunk PROVE IInv'
  OBVIOUS
<1> USE NumFilesAssumption, ChunksAssumption DEF senderVars, sProgress, storeVars
<1>1. PICK n \in DOMAIN assembling :
        /\ assembling[n].read
        /\ progressStore' = [k \in DOMAIN progressStore
                               \ {<<FileOf(assembling[n]), Len(assembling[n].content) - 1>>} |->
                               progressStore[k]]
        /\ assembling' = [assembling EXCEPT ![n] = [assembling[n] EXCEPT !.read = FALSE]]
  BY DEF ReceiverDeletesChunk
<1>2. PICK a : a = assembling[n]
  OBVIOUS
<1>3. /\ AssemblyAt(a) /\ Done /\ Quiet /\ DeliveredIntact
      /\ a \in [pos : Nat \ {0}, content : Seq(Key), read : BOOLEAN]
      /\ receivedFiles = [k \in 1 .. NumFiles |-> k - 1] /\ Len(receivedFiles) = NumFiles
  BY <1>2, AssemblyFacts
<1>4. a.read /\ a.pos \in 1 .. NumFiles /\ Len(a.content) \in Nat \ {0}
  BY <1>1, <1>2, <1>3 DEF AssemblyAt
<1>5. FileOf(a) = a.pos - 1
  BY <1>3, <1>4 DEF FileOf
<1>6. PICK b : b = [a EXCEPT !.read = FALSE]
  OBVIOUS
<1>7. /\ b.pos = a.pos /\ b.read = FALSE /\ b.content = a.content
      /\ b \in [pos : Nat \ {0}, content : Seq(Key), read : BOOLEAN]
  BY <1>3, <1>6
<1>8. Len(assembling') = 1 /\ assembling'[1] = b
      /\ assembling' \in Seq([pos : Nat \ {0}, content : Seq(Key), read : BOOLEAN])
  BY <1>1, <1>2, <1>6, <1>7, AssemblyMoves
<1>9. UNCHANGED <<senderVars, toReceiver, toSender, rState, rChannel, receivedFiles,
                  lastAck, rSaved, delivered, writing>>
  BY DEF ReceiverDeletesChunk
<1>10. AssemblyAt(b)'
  <2>1. \A f \in File : \A j \in 0 .. Chunks[f] - 1 :
          f > a.pos - 1 \/ (f = a.pos - 1 /\ j >= Len(a.content))
            => <<f, j>> \in DOMAIN progressStore'
    <3> SUFFICES ASSUME NEW f \in File, NEW j \in 0 .. Chunks[f] - 1,
                        f > a.pos - 1 \/ (f = a.pos - 1 /\ j >= Len(a.content))
                 PROVE  <<f, j>> \in DOMAIN progressStore'
      OBVIOUS
    <3>1. <<f, j>> \in DOMAIN progressStore
      BY <1>3 DEF AssemblyAt
    <3>2. <<f, j>> # <<FileOf(a), Len(a.content) - 1>>
      BY <1>4, <1>5 DEF File
    <3> QED BY <1>1, <1>2, <3>1, <3>2
  <2> QED BY <1>3, <1>4, <1>7, <1>9, <2>1 DEF AssemblyAt
<1>11. \A k \in DOMAIN progressStore' : k \in DOMAIN progressStore
                                        /\ progressStore'[k] = progressStore[k]
  BY <1>1
<1>12. StoreTypeOK'
  BY <1>1, <1>9 DEF IInv, TypeOK, StoreTypeOK
<1>13. DeliveredIntact' /\ Len(delivered') <= NumFiles /\ AssemblyTypeOK'
  BY <1>3, <1>8, <1>9 DEF DeliveredIntact, IInv, Assembled, TypeOK, AssemblyTypeOK
<1>14. rState \in ManagerStates /\ rChannel \in {"connecting", "open", "closed"}
  BY DEF IInv, TypeOK, ReceiverTypeOK
<1> QED BY <1>3, <1>8, <1>9, <1>10, <1>11, <1>12, <1>13, <1>14, AssemblyStep

\* An assembly reports a file, whole or given up, and turns to the next one.
LEMMA AssemblyTurns ==
  ASSUME IInv, NEW n \in DOMAIN assembling,
         assembling[n].pos <= Len(receivedFiles),
         NEW d, d.file = assembling[n].pos - 1,
         \/ /\ d.outcome = "whole"
            /\ d.content = [i \in 1 .. Chunks[assembling[n].pos - 1] |->
                             <<assembling[n].pos - 1, i - 1>>]
         \/ d.outcome = "rejected" /\ d.content = <<>>,
         d \in [file : File, content : Seq(Key),
                outcome : {"whole", "missing", "rejected"}],
         delivered' = Append(delivered, d),
         assembling' = [assembling EXCEPT ![n] = NextFile(assembling[n])],
         UNCHANGED <<senderVars, toReceiver, toSender, rState, rChannel, receivedFiles,
                     lastAck, rSaved, storeVars>>
  PROVE  IInv'
<1> USE NumFilesAssumption, ChunksAssumption DEF senderVars, sProgress, storeVars
<1>2. PICK a : a = assembling[n]
  OBVIOUS
<1>3. /\ AssemblyAt(a) /\ Done /\ Quiet /\ DeliveredIntact
      /\ a \in [pos : Nat \ {0}, content : Seq(Key), read : BOOLEAN]
      /\ Len(receivedFiles) = NumFiles
  BY <1>2, AssemblyFacts
<1>4. a.pos - 1 \in File
  BY <1>2, <1>3 DEF File
<1>5. PICK b : b = NextFile(a)
  OBVIOUS
<1>6. /\ b.pos = a.pos + 1 /\ b.read = FALSE /\ b.content = <<>> /\ Len(b.content) = 0
      /\ b \in [pos : Nat \ {0}, content : Seq(Key), read : BOOLEAN]
  <2>1. <<>> \in Seq(Key)
    OBVIOUS
  <2> QED BY <1>3, <1>5, <2>1 DEF NextFile
<1>7. Len(assembling') = 1 /\ assembling'[1] = b
      /\ assembling' \in Seq([pos : Nat \ {0}, content : Seq(Key), read : BOOLEAN])
  BY <1>2, <1>5, <1>6, AssemblyMoves
<1>9. delivered \in Seq([file : File, content : Seq(Key),
                         outcome : {"whole", "missing", "rejected"}])
  BY DEF IInv, TypeOK, AssemblyTypeOK
<1>12. /\ delivered' \in Seq([file : File, content : Seq(Key),
                               outcome : {"whole", "missing", "rejected"}])
       /\ Len(delivered') = Len(delivered) + 1 /\ Len(delivered) \in Nat
  <2>1. \A S : delivered \in Seq(S) /\ d \in S => Append(delivered, d) \in Seq(S)
    OBVIOUS
  <2> QED BY <1>9, <2>1
<1>13. a.pos = Len(delivered) + 1 /\ a.pos <= NumFiles
  BY <1>3, <1>4 DEF AssemblyAt, File
<1>14. DeliveredIntact' /\ Len(delivered') <= NumFiles
  <2>2. ASSUME NEW k \in 1 .. Len(delivered')
        PROVE  /\ delivered'[k].file = k - 1
               /\ \/ /\ delivered'[k].outcome = "whole"
                     /\ delivered'[k].content = [i \in 1 .. Chunks[k - 1] |-> <<k - 1, i - 1>>]
                  \/ delivered'[k].outcome = "rejected" /\ delivered'[k].content = <<>>
    <3>1. CASE k = Len(delivered) + 1
      <4>1. delivered'[k] = d
        BY <1>9, <1>12, <3>1
      <4> QED BY <1>2, <1>12, <1>13, <3>1, <4>1
    <3>2. CASE k \in 1 .. Len(delivered)
      <4>1. delivered'[k] = delivered[k]
        BY <1>9, <1>12, <3>2
      <4> QED BY <1>3, <3>2, <4>1 DEF DeliveredIntact
    <3> QED BY <1>12, <3>1, <3>2
  <2> QED BY <1>12, <1>13, <2>2 DEF DeliveredIntact
<1>15. AssemblyAt(b)'
  <2>1. b.content = [i \in 1 .. Len(b.content) |-> <<b.pos - 1, i - 1>>]
    BY <1>6
  <2>2. b.pos <= NumFiles => b.pos - 1 \in File /\ Chunks[b.pos - 1] \in Nat
    BY <1>4, <1>6 DEF File
  <2>3. \A f \in File : \A j \in 0 .. Chunks[f] - 1 :
          f > b.pos - 1 \/ (f = b.pos - 1 /\ j >= Len(b.content))
            => <<f, j>> \in DOMAIN progressStore
    BY <1>3, <1>4, <1>6 DEF AssemblyAt, File
  <2> QED BY <1>6, <1>12, <1>13, <2>1, <2>2, <2>3 DEF AssemblyAt
<1>16. StoreTypeOK' /\ AssemblyTypeOK'
  BY <1>7, <1>12 DEF IInv, TypeOK, StoreTypeOK, AssemblyTypeOK
<1>17. rState \in ManagerStates /\ rChannel \in {"connecting", "open", "closed"}
  BY DEF IInv, TypeOK, ReceiverTypeOK
<1>18. \A k \in DOMAIN progressStore' : k \in DOMAIN progressStore
                                        /\ progressStore'[k] = progressStore[k]
  OBVIOUS
<1>19. rState' = rState /\ rChannel' = rChannel /\ rSaved' = rSaved
       /\ UNCHANGED <<senderVars, toReceiver, toSender, receivedFiles, lastAck, writing>>
  OBVIOUS
<1>20. assembling' # <<>> => AssemblyAt(assembling[1])'
  BY <1>7, <1>15
<1>21. Len(assembling') <= 1
  <2>1. \A k : k = 1 => k <= 1
    OBVIOUS
  <2> QED BY <1>7, <2>1, Zenon
<1> HIDE DEF senderVars, sProgress, storeVars
<1> QED BY <1>3, <1>14, <1>16, <1>17, <1>18, <1>19, <1>20, <1>21, AssemblyStep

LEMMA ReceiverDeliversFileStep == IInv /\ ReceiverDeliversFile => IInv'
<1> SUFFICES ASSUME IInv, ReceiverDeliversFile PROVE IInv'
  OBVIOUS
<1>1. PICK n \in Looking :
        /\ ~ WantsMore(assembling[n])
        /\ delivered' = Append(delivered, [file |-> FileOf(assembling[n]),
                                           content |-> assembling[n].content,
                                           outcome |-> "whole"])
        /\ assembling' = [assembling EXCEPT ![n] = NextFile(assembling[n])]
  BY DEF ReceiverDeliversFile
<1>2. PICK a : a = assembling[n]
  OBVIOUS
<1>3. n \in DOMAIN assembling /\ a.pos - 1 \in File /\ FileOf(a) = a.pos - 1
      /\ Len(a.content) \in Nat /\ Chunks[a.pos - 1] \in Nat
      /\ a.pos <= Len(receivedFiles)
  BY <1>1, <1>2, LookingFacts DEF Looking
<1>4. /\ AssemblyAt(a)
      /\ a \in [pos : Nat \ {0}, content : Seq(Key), read : BOOLEAN]
  BY <1>2, <1>3, AssemblyFacts
<1>5. a.content = [i \in 1 .. Chunks[a.pos - 1] |-> <<a.pos - 1, i - 1>>]
  <2>1. a.pos <= NumFiles
    <3>1. a.pos \in Nat /\ NumFiles \in Nat  BY <1>4, NumFilesAssumption
    <3> QED BY <1>3, <3>1 DEF File
  <2>2. Len(a.content) = Chunks[a.pos - 1]
    BY <1>1, <1>2, <1>3, <1>4, <2>1 DEF AssemblyAt, WantsMore
  <2> QED BY <1>4, <2>2 DEF AssemblyAt
<1>6. PICK d : d = [file |-> a.pos - 1, content |-> a.content, outcome |-> "whole"]
  OBVIOUS
<1>7. /\ d \in [file : File, content : Seq(Key), outcome : {"whole", "missing", "rejected"}]
      /\ d.file = a.pos - 1 /\ d.content = a.content /\ d.outcome = "whole"
      /\ delivered' = Append(delivered, d)
  BY <1>1, <1>2, <1>3, <1>4, <1>6
<1>8. UNCHANGED <<senderVars, toReceiver, toSender, rState, rChannel, receivedFiles,
                  lastAck, rSaved, storeVars>>
  BY DEF ReceiverDeliversFile
<1> QED BY <1>1, <1>2, <1>3, <1>5, <1>7, <1>8, AssemblyTurns

\* A file that the assembly is at is one of the receiver's, whatever it has read of it.
LEMMA GivenUpFacts ==
  ASSUME IInv, ReceiverReadFails
  PROVE  \E n \in DOMAIN assembling :
           /\ assembling[n].pos <= Len(receivedFiles)
           /\ assembling[n].pos - 1 \in File
           /\ delivered' = Append(delivered, [file |-> assembling[n].pos - 1,
                                              content |-> <<>>, outcome |-> "rejected"])
           /\ assembling' = [assembling EXCEPT ![n] = NextFile(assembling[n])]
<1> USE NumFilesAssumption
<1>1. PICK n \in DOMAIN assembling :
        assembling[n].pos <= Len(receivedFiles) /\ GivesUp(n, "rejected")
  BY DEF ReceiverReadFails
<1>2. PICK a : a = assembling[n]
  OBVIOUS
<1>3. /\ AssemblyAt(a)
      /\ receivedFiles = [k \in 1 .. NumFiles |-> k - 1] /\ Len(receivedFiles) = NumFiles
      /\ a \in [pos : Nat \ {0}, content : Seq(Key), read : BOOLEAN]
  BY <1>1, <1>2, AssemblyFacts
<1>4. a.pos \in 1 .. NumFiles
  BY <1>1, <1>2, <1>3
<1>5. a.pos - 1 \in File /\ FileOf(a) = a.pos - 1 /\ a.pos <= Len(receivedFiles)
  BY <1>3, <1>4 DEF File, FileOf
<1> QED BY <1>1, <1>2, <1>5 DEF GivesUp

LEMMA ReceiverReadFailsStep == IInv /\ ReceiverReadFails => IInv'
<1> SUFFICES ASSUME IInv, ReceiverReadFails PROVE IInv'
  OBVIOUS
<1>1. PICK n \in DOMAIN assembling :
        /\ assembling[n].pos <= Len(receivedFiles)
        /\ assembling[n].pos - 1 \in File
        /\ delivered' = Append(delivered, [file |-> assembling[n].pos - 1,
                                           content |-> <<>>, outcome |-> "rejected"])
        /\ assembling' = [assembling EXCEPT ![n] = NextFile(assembling[n])]
  BY GivenUpFacts
<1>2. PICK d : d = [file |-> assembling[n].pos - 1, content |-> <<>>, outcome |-> "rejected"]
  OBVIOUS
<1>3. <<>> \in Seq(Key)
  OBVIOUS
<1>4. /\ d \in [file : File, content : Seq(Key), outcome : {"whole", "missing", "rejected"}]
      /\ d.file = assembling[n].pos - 1 /\ d.content = <<>> /\ d.outcome = "rejected"
      /\ delivered' = Append(delivered, d)
  BY <1>1, <1>2, <1>3
<1>5. UNCHANGED <<senderVars, toReceiver, toSender, rState, rChannel, receivedFiles,
                  lastAck, rSaved, storeVars>>
  BY DEF ReceiverReadFails
<1> QED BY <1>1, <1>4, <1>5, AssemblyTurns

LEMMA ReceiverFinishesStep == IInv /\ ReceiverFinishes => IInv'
<1> SUFFICES ASSUME IInv, ReceiverFinishes PROVE IInv'
  OBVIOUS
<1> USE DEF senderVars, sProgress, storeVars
<1>1. PICK n \in DOMAIN assembling : assembling' = RemoveAt(assembling, n)
  BY DEF ReceiverFinishes
<1>2. n = 1 /\ Len(assembling) = 1 /\ Done /\ Quiet /\ DeliveredIntact
  BY AssemblyFacts
<1>3. assembling' = <<>> /\ Len(assembling') = 0
  BY <1>1, <1>2 DEF RemoveAt, IInv, TypeOK, AssemblyTypeOK
<1>4. <<>> \in Seq([pos : Nat \ {0}, content : Seq(Key), read : BOOLEAN])
  OBVIOUS
<1>5. DeliveredIntact' /\ Len(delivered') <= NumFiles /\ StoreTypeOK' /\ AssemblyTypeOK'
  BY <1>2, <1>3, <1>4 DEF ReceiverFinishes, DeliveredIntact, IInv, Assembled, TypeOK,
                          StoreTypeOK, AssemblyTypeOK
<1> QED BY <1>2, <1>3, <1>5, AssemblyStep DEF ReceiverFinishes, ManagerStates

LEMMA DisturbanceStep == IInv /\ Disturbance => IInv'
<1> SUFFICES ASSUME IInv, Disturbance PROVE IInv'
  OBVIOUS
<1> USE DEF senderVars, sProgress, receiverVars, storeVars
<1>1. sState \in ManagerStates /\ rState \in ManagerStates
      /\ sChannel \in {"connecting", "open", "closed"}
      /\ rChannel \in {"connecting", "open", "closed"}
      /\ Flight
  BY DEF IInv, TypeOK, SenderTypeOK, ReceiverTypeOK
<1>2. {"FAILED", "CLOSED", "GONE"} \subseteq ManagerStates
  BY DEF ManagerStates
<1>3. CASE ReceiverStoreFails
  BY <1>1, <1>2, <1>3, LossStep DEF ReceiverStoreFails
<1>4. CASE SenderCloses
  BY <1>1, <1>2, <1>4, LossStep DEF SenderCloses
<1>5. CASE ReceiverCloses
  BY <1>1, <1>2, <1>5, LossStep DEF ReceiverCloses
<1>6. CASE SenderPageDies
  BY <1>1, <1>2, <1>6, LossStep DEF SenderPageDies
<1>7. CASE ReceiverPageDies
  BY <1>1, <1>2, <1>7, LossStep DEF ReceiverPageDies
<1>8. CASE MessageLost
  <2>1. toReceiver' \in {toReceiver, EmptyBag} /\ toSender' \in {toSender, EmptyBag}
    BY <1>1, <1>8, LoneMessage DEF MessageLost
  <2> QED BY <1>1, <1>8, <2>1, LossStep DEF MessageLost
<1>9. CASE ReceiverReadFails
  BY <1>9, ReceiverReadFailsStep
<1> QED BY <1>3, <1>4, <1>5, <1>6, <1>7, <1>8, <1>9 DEF Disturbance

-----------------------------------------------------------------------------
(* The theorems *)

LEMMA NextIInv == IInv /\ [Next]_vars => IInv'
<1> SUFFICES ASSUME IInv, [Next]_vars PROVE IInv'
  OBVIOUS
<1>1. CASE SenderStep
  BY <1>1, SenderChannelOpensStep, SenderHandlesAckStep
     DEF SenderStep
<1>2. CASE ReceiverStep
  BY <1>2, ReceiverChannelOpensStep, ReceiverHandlesHeaderStep, ReceiverTakesChunkStep,
     ReceiverStoresChunkStep, ReceiverAcksChunkStep, ReceiverHandlesCompleteStep,
     ReceiverReadsChunkStep, ReceiverDeletesChunkStep,
     ReceiverDeliversFileStep, ReceiverFinishesStep
     DEF ReceiverStep
<1>3. CASE Disturbance
  BY <1>3, DisturbanceStep
<1>4. CASE UNCHANGED vars
  BY <1>4, LossStep DEF IInv, TypeOK, SenderTypeOK, ReceiverTypeOK,
     vars, senderVars, sProgress, receiverVars, storeVars
<1> QED BY <1>1, <1>2, <1>3, <1>4 DEF Next

LEMMA Invariance == Spec => []IInv
BY InitIInv, NextIInv, PTL DEF Spec

\* The variables of both sides have their types in every reachable state.
THEOREM TypeCorrect == Spec => []TypeOK
<1>1. IInv => TypeOK
  BY DEF IInv
<1> QED BY <1>1, Invariance, PTL

\* One message or chunk at a time is under way between the two sides, so that the
\* unordered handlers never see two: StopAndWait, for any files.
THEOREM OneAtATime == Spec => []StopAndWait
<1>1. IInv => StopAndWait
  <2> SUFFICES ASSUME Flight PROVE StopAndWait
    BY DEF IInv
  <2>1. CASE Quiet
    BY <2>1, OneMessage DEF Quiet, StopAndWait, InFlight
  <2>2. ASSUME NEW m, toReceiver = SetToBag({m}), toSender = EmptyBag, writing = {}
        PROVE  StopAndWait
    <3>1. BagToSet(toReceiver) = {m} /\ toReceiver[m] = 1 /\ BagToSet(toSender) = {}
      BY <2>2, OneMessage
    <3>2. InFlight = {<<"message", m>>}
      BY <2>2, <3>1 DEF InFlight
    <3> QED BY <3>1, <3>2 DEF StopAndWait
  <2>3. ASSUME NEW m, toSender = SetToBag({m}), toReceiver = EmptyBag, writing = {}
        PROVE  StopAndWait
    <3>1. BagToSet(toSender) = {m} /\ toSender[m] = 1 /\ BagToSet(toReceiver) = {}
      BY <2>3, OneMessage
    <3>2. InFlight = {<<"ack", m>>}
      BY <2>3, <3>1 DEF InFlight
    <3> QED BY <3>1, <3>2 DEF StopAndWait
  <2>4. ASSUME NEW w, writing = {w}, toReceiver = EmptyBag, toSender = EmptyBag
        PROVE  StopAndWait
    BY <2>4, OneMessage DEF StopAndWait, InFlight
  <2> QED BY <2>1, <2>2, <2>3, <2>4 DEF Flight
<1> QED BY <1>1, Invariance, PTL

\* A chunk is only ever stored where the sender cut it from.
THEOREM NoChunkMisplaced == Spec => []ChunksInPlace
<1>1. IInv => ChunksInPlace
  BY DEF IInv, Stored, Flight, Quiet, MayBeWritten, ChunksInPlace
<1> QED BY <1>1, Invariance, PTL

\* Neither the sender nor its saved progress is ever past a chunk that the
\* receiver has not stored.
THEOREM SenderBehindStore == Spec => []SenderNeverAhead
<1>1. IInv => SenderNeverAhead
  <2> SUFFICES ASSUME Counts, Stored, TypeOK, sSaved # NoProgress,
                      NEW g \in 0 .. sSaved[1], NEW j \in 0 .. Chunks[g] - 1,
                      g < sSaved[1] \/ j < sSaved[2]
               PROVE  <<g, j>> \in DOMAIN progressStore
    BY DEF IInv, SenderNeverAhead, StoredUpTo
  <2> USE NumFilesAssumption, ChunksAssumption
  <2>1. sSaved[1] = currentFile /\ sSaved[2] = currentChunkIndex
    BY DEF Counts
  <2>2. currentFile \in File /\ g \in File /\ R \in 0 .. NumFiles
        /\ currentChunkIndex \in Nat
        /\ lastAck[g] \in Nat \cup {-1}
    BY <2>1 DEF Counts, TypeOK, SenderTypeOK, ReceiverTypeOK, File, NoFile
  <2>3. j <= lastAck[g]
    <3>1. CASE g < currentFile
      BY <2>1, <2>2, <3>1 DEF Counts, File
    <3>2. CASE g = currentFile
      BY <2>1, <2>2, <3>2 DEF Counts, File
    <3> QED BY <2>1, <2>2, <3>1, <3>2 DEF File
  <2> QED BY <2>2, <2>3 DEF Stored
<1> QED BY <1>1, Invariance, PTL

\* Until the end is announced, what the receiver would restore is in its store.
THEOREM SavedBehindStore == Spec => []SavedProgressIsStored
<1>1. IInv => SavedProgressIsStored
  <2> SUFFICES ASSUME Counts, Stored, Saved, TypeOK, sSaved # NoProgress,
                      NEW n \in 1 .. Len(rSaved), NEW j \in 0 .. rSaved[n] - 1
               PROVE  <<n - 1, j>> \in DOMAIN progressStore
    BY DEF IInv, SavedProgressIsStored
  <2>1. n - 1 \in File /\ rSaved[n] <= lastAck[n - 1] + 1
    BY NumFilesAssumption DEF Saved, Counts, File
  <2>2. rSaved[n] \in Nat /\ lastAck[n - 1] \in Nat \cup {-1}
    BY <2>1 DEF TypeOK, ReceiverTypeOK
  <2>3. j \in 0 .. lastAck[n - 1]
    BY <2>1, <2>2
  <2> QED BY <2>1, <2>3 DEF Stored
<1> QED BY <1>1, Invariance, PTL

\* The user is given the sender's files, in order, whole and unmixed.
THEOREM NothingGarbled == Spec => []DeliveredIntact
<1>1. IInv => DeliveredIntact
  BY DEF IInv, Assembled
<1> QED BY <1>1, Invariance, PTL

\* A sender turns to COMPLETED only when everything is stored at the receiver.
THEOREM CompletedImpliesStored == Spec => CompletedMeansStored
<1>1. ASSUME IInv, [Next]_vars, sState # "COMPLETED", sState' = "COMPLETED"
      PROVE  StoredUpTo(NumFiles - 1, Chunks[NumFiles - 1])
  <2> USE NumFilesAssumption, ChunksAssumption
  <2>1. Counts /\ Stored
    BY <1>1 DEF IInv
  <2>2. SenderHandlesFileAck \/ SenderHandlesChunkAck
    <3>1. ~ SenderChannelOpens
      <4> SUFFICES ASSUME SenderChannelOpens PROVE FALSE
        OBVIOUS
      <4>1. queueHead = 0
        BY <2>1 DEF SenderChannelOpens, Counts, NoFile
      <4> QED BY <1>1, <4>1 DEF SenderChannelOpens, SendTransferComplete
    <3>2. CASE UNCHANGED sState
      BY <1>1, <3>2
    <3>3. ~ Disturbance
      BY <1>1 DEF Disturbance, ReceiverStoreFails, ReceiverReadFails, SenderCloses,
         ReceiverCloses, SenderPageDies, ReceiverPageDies, MessageLost, senderVars
    <3>4. ~ ReceiverStep
      BY <1>1 DEF ReceiverStep, ReceiverChannelOpens, ReceiverHandlesHeader,
         ReceiverTakesChunk, ReceiverStoresChunk, ReceiverAcksChunk,
         ReceiverHandlesComplete, ReceiverReadsChunk, ReceiverDeletesChunk,
         ReceiverDeliversFile, ReceiverFinishes, senderVars
    <3> QED BY <1>1, <3>1, <3>3, <3>4 DEF Next, SenderStep, vars, senderVars
  <2>3. PICK i : SendNextChunk(i) /\ i = lastAck[currentFile] + 1
                 /\ R > 0 /\ currentFile = R - 1 /\ sSaved # NoProgress
    BY <1>1, <2>2, AckFacts
  <2>4. i >= Chunks[currentFile] /\ queueHead = NumFiles
    BY <1>1, <2>3 DEF SendNextChunk, SendTransferComplete
  <2>5. currentFile = NumFiles - 1 /\ R = NumFiles /\ currentFile \in File
    BY <2>1, <2>3, <2>4 DEF Counts, File
  <2>6. \A f \in File : lastAck[f] \in Nat \cup {-1} /\ Chunks[f] \in Nat
    BY <1>1 DEF IInv, TypeOK, ReceiverTypeOK
  <2>7. \A f \in File : lastAck[f] = Chunks[f] - 1
    <3> SUFFICES ASSUME NEW f \in File PROVE lastAck[f] = Chunks[f] - 1
      OBVIOUS
    <3>1. CASE f = currentFile
      BY <2>1, <2>3, <2>4, <2>5, <2>6, <3>1 DEF Counts
    <3>2. CASE f + 1 < R
      BY <2>1, <3>2 DEF Counts
    <3> QED BY <2>5, <3>1, <3>2 DEF File
  <2> QED BY <2>1, <2>3, <2>7 DEF StoredUpTo, Stored, File
<1>2. IInv /\ [Next]_vars =>
        [sState # "COMPLETED" /\ sState' = "COMPLETED"
           => StoredUpTo(NumFiles - 1, Chunks[NumFiles - 1])]_vars
  BY <1>1
<1> QED BY <1>2, Invariance, PTL DEF Spec, CompletedMeansStored

\* The inductive form of SomebodyMoves, with the receiver's channel still to open
Moving ==
  /\ rChannel = "connecting" => R = 0 /\ rState # "FAILED"
  /\ sChannel = "open" /\ rChannel # "closed" /\ rState # "FAILED"
       => ~ Quiet \/ assembling # <<>>

\* What is sent on an open channel is under way.
LEMMA SentIsUnderWay ==
  ASSUME NEW inFlight, IsABag(inFlight), NEW m
  PROVE  Sent(inFlight, "open", m) # EmptyBag
<1>1. m \in BagToSet(inFlight (+) SetToBag({m}))
  BY DEF IsABag, SetToBag, (+), BagToSet
<1> QED BY <1>1, OneMessage DEF Sent

\* An assembly at work is still there after a step of its loop.
LEMMA AssemblyStays ==
  ASSUME IInv, ReceiverReadsChunk \/ ReceiverDeletesChunk \/ ReceiverDeliversFile
               \/ ReceiverReadFails
  PROVE  assembling' # <<>> /\ UNCHANGED <<receivedFiles, rState, rChannel>>
<1>1. PICK n \in DOMAIN assembling : \E a : assembling' = [assembling EXCEPT ![n] = a]
  BY DEF ReceiverReadsChunk, ReceiverDeletesChunk, ReceiverDeliversFile, ReceiverReadFails,
         ChunkFound, ChunkMissing, GivesUp, Looking
<1>2. DOMAIN assembling' = DOMAIN assembling
  BY <1>1
<1>3. n \in DOMAIN assembling'
  BY <1>2
<1>4. assembling' # <<>>
  BY <1>3
<1> QED BY <1>4
        DEF ReceiverReadsChunk, ReceiverDeletesChunk, ReceiverDeliversFile, ReceiverReadFails

\* The sender answers the message it waits for with another one.
LEMMA SenderMoves ==
  ASSUME IInv, SenderStep, sChannel' = "open" PROVE ~ Quiet'
<1> USE NumFilesAssumption
<1>1. IsABag(toReceiver) /\ Counts
  BY DEF IInv, TypeOK
<1>2. ASSUME SenderChannelOpens PROVE toReceiver' # EmptyBag
  <2>1. currentChunkIndex = 0 /\ queueHead = 0
    BY <1>1, <1>2 DEF SenderChannelOpens, Counts, NoFile
  <2>2. AnnounceNextFile("open")
    BY <1>2, <2>1 DEF SenderChannelOpens, SendTransferComplete
  <2> QED BY <1>1, <2>2, SentIsUnderWay DEF AnnounceNextFile
<1>3. ASSUME SenderHandlesFileAck \/ SenderHandlesChunkAck PROVE toReceiver' # EmptyBag
  <2>1. sChannel = "open"
    BY <1>3 DEF SenderHandlesFileAck, SenderHandlesChunkAck
  <2>2. PICK i : SendNextChunk(i)
    BY <1>3, AckFacts
  <2> QED BY <1>1, <2>1, <2>2, SentIsUnderWay
             DEF SendNextChunk, AnnounceNextFile, SendTransferComplete
<1> QED BY <1>2, <1>3 DEF SenderStep, Quiet

\* The receiver never just waits either: it acknowledges, stores or assembles.
LEMMA ReceiverMoves ==
  ASSUME IInv, Moving, ReceiverStep PROVE Moving'
<1>1. IsABag(toSender) /\ Counts /\ Flight
  BY DEF IInv, TypeOK
<1>2. CASE ReceiverChannelOpens
  BY <1>2 DEF ReceiverChannelOpens, Moving, R, Quiet, senderVars, storeVars
<1>3. CASE ReceiverHandlesHeader
  <2>1. rChannel = "open" => toSender' # EmptyBag
    BY <1>1, <1>3, SentIsUnderWay DEF ReceiverHandlesHeader
  <2>2. rChannel \in {"open", "closed"}
    BY <1>3 DEF ReceiverHandlesHeader, IInv, TypeOK, ReceiverTypeOK
  <2> QED BY <1>3, <2>1, <2>2 DEF ReceiverHandlesHeader, Moving, Quiet, senderVars
<1>4. CASE ReceiverTakesChunk
  BY <1>4 DEF ReceiverTakesChunk, Moving, Quiet, receiverVars
<1>5. CASE ReceiverStoresChunk
  BY <1>5 DEF ReceiverStoresChunk, Moving, Quiet, receiverVars, R
<1>6. CASE ReceiverAcksChunk
  <2>1. R > 0
    BY <1>1, <1>6 DEF ReceiverAcksChunk, Flight, Quiet, MayBeWritten, AtSameChunk
  <2>2. rChannel = "open" => toSender' # EmptyBag
    BY <1>1, <1>6, SentIsUnderWay DEF ReceiverAcksChunk
  <2>3. rChannel \in {"open", "closed"}
    BY <2>1 DEF Moving, IInv, TypeOK, ReceiverTypeOK
  <2> QED BY <1>6, <2>2, <2>3 DEF ReceiverAcksChunk, Moving, Quiet, senderVars
<1>7. CASE ReceiverHandlesComplete
  <2>1. assembling' # <<>>
    BY <1>7 DEF ReceiverHandlesComplete, IInv, TypeOK, AssemblyTypeOK
  <2> QED BY <1>7, <2>1 DEF ReceiverHandlesComplete, Moving
<1>8. CASE ReceiverReadsChunk \/ ReceiverDeletesChunk \/ ReceiverDeliversFile
  BY <1>8, AssemblyStays DEF Moving, R
<1>9. CASE ReceiverFinishes
  BY <1>9 DEF ReceiverFinishes, Moving
<1> QED BY <1>2, <1>3, <1>4, <1>5, <1>6, <1>7, <1>8, <1>9 DEF ReceiverStep

\* The two sides of a transfer never both wait: until one of them has stopped, a
\* message, a chunk or an assembly is under way (the handlers of OfferPeer and
\* AnswerPeer, none of which has a timeout).
THEOREM NeverBothWaiting == Spec => []SomebodyMoves
<1>1. Init => Moving
  BY DEF Init, Moving, R
<1>2. ASSUME IInv, Moving, [Next]_vars PROVE Moving'
  <2>1. CASE SenderStep
    <3>1. /\ UNCHANGED <<receivedFiles, rState, rChannel>>
          /\ sChannel' = "open" => ~ Quiet'
      BY <1>2, <2>1, SenderMoves DEF SenderStep, SenderChannelOpens, SenderHandlesFileAck,
         SenderHandlesChunkAck, receiverVars
    <3> QED BY <1>2, <3>1 DEF Moving, R
  <2>2. CASE ReceiverStep
    BY <1>2, <2>2, ReceiverMoves
  <2>3. CASE Disturbance
    <3>1. CASE ReceiverStoreFails
      <4>1. R > 0
        BY <1>2, <3>1 DEF ReceiverStoreFails, IInv, Flight, Quiet, MayBeWritten, AtSameChunk
      <4> QED BY <1>2, <3>1, <4>1 DEF ReceiverStoreFails, Moving, R
    <3>2. CASE ReceiverReadFails
      BY <1>2, <3>2, AssemblyStays DEF Moving, R
    <3>3. CASE SenderCloses \/ ReceiverCloses \/ SenderPageDies \/ ReceiverPageDies
      BY <1>2, <3>3 DEF SenderCloses, ReceiverCloses, SenderPageDies, ReceiverPageDies,
         Moving, R, receiverVars
    <3>4. CASE MessageLost
      BY <1>2, <3>4 DEF MessageLost, Moving, R, senderVars, receiverVars
    <3> QED BY <2>3, <3>1, <3>2, <3>3, <3>4 DEF Disturbance
  <2>4. CASE UNCHANGED vars
    BY <1>2, <2>4 DEF vars, senderVars, receiverVars, storeVars, Moving, R, Quiet
  <2> QED BY <1>2, <2>1, <2>2, <2>3, <2>4 DEF Next
<1>3. ASSUME IInv, Moving PROVE SomebodyMoves
  <2>1. ~ Quiet => InFlight # {}
    <3>1. \A m : m \in BagToSet(SetToBag({m}))
      BY OneMessage
    <3> QED BY <1>3, <3>1 DEF IInv, Flight, InFlight
  <2> QED BY <1>3, <2>1 DEF Moving, SomebodyMoves
<1> QED BY <1>1, <1>2, <1>3, Invariance, PTL DEF Spec

\* The chunk protocol implements the promise of FileDelivery.
THEOREM DeliversWhatWasSent == Spec => ImplementsDelivery
<1> USE NumFilesAssumption, ChunksAssumption
<1>1. Init => Delivery!Init
  BY DEF Init, Delivery!Init, Delivery!Files, File
<1>2. ASSUME IInv, IInv', [Next]_vars
      PROVE  Delivery!Next \/ UNCHANGED <<[f \in File |-> lastAck[f] + 1], delivered>>
  <2> USE DEF senderVars, sProgress, receiverVars, storeVars
  <2>1. CASE ReceiverAcksChunk
    <3>1. PICK w \in writing : lastAck' = [lastAck EXCEPT ![w.key[1]] = w.key[2]]
      BY <2>1 DEF ReceiverAcksChunk
    <3>2. MayBeWritten(w) /\ AtSameChunk /\ Counts
      BY <1>2, LoneChunk DEF MayBeWritten, IInv
    <3>3. lastAck \in [File -> Nat \cup {-1}] /\ currentFile \in File /\ R \in 0 .. NumFiles
      <4>1. lastAck \in [File -> Nat \cup {-1}]
        BY <1>2 DEF IInv, TypeOK, ReceiverTypeOK
      <4> QED BY <3>2, <4>1 DEF AtSameChunk, Counts, File
    <3>4. lastAck' = [lastAck EXCEPT ![currentFile] = lastAck[currentFile] + 1]
      BY <3>1, <3>2 DEF MayBeWritten, AtSameChunk
    <3>5. lastAck[currentFile] + 1 < Chunks[currentFile]
      BY <3>2 DEF AtSameChunk
    <3>6. \A g \in 0 .. currentFile - 1 : lastAck[g] + 1 = Chunks[g]
      BY <3>2, <3>3 DEF Counts, AtSameChunk, File
    <3>7. [f \in File |-> lastAck'[f] + 1]
            = [[f \in File |-> lastAck[f] + 1] EXCEPT ![currentFile] = @ + 1]
      BY <3>3, <3>4
    <3>8. \A g \in 0 .. currentFile - 1 : g \in File
      BY <3>3 DEF File
    <3>9. Delivery!ReceiveChunk
      BY <2>1, <3>3, <3>5, <3>6, <3>7, <3>8
         DEF ReceiverAcksChunk, Delivery!ReceiveChunk, Delivery!Complete, Delivery!Files, File
    <3> QED BY <3>9 DEF Delivery!Next
  <2>2. ASSUME NEW d, delivered' = Append(delivered, d), Done, UNCHANGED lastAck
        PROVE  \/ Delivery!Tell(Delivery!Content(Len(delivered)), "whole")
               \/ Delivery!Tell(<<>>, "rejected")
    <3>1. delivered \in Seq([file : File, content : Seq(Key),
                             outcome : {"whole", "missing", "rejected"}])
          /\ delivered' \in Seq([file : File, content : Seq(Key),
                                 outcome : {"whole", "missing", "rejected"}])
          /\ Len(delivered') <= NumFiles /\ DeliveredIntact'
      BY <1>2 DEF IInv, TypeOK, AssemblyTypeOK, Assembled
    <3>2. Len(delivered') = Len(delivered) + 1 /\ delivered'[Len(delivered) + 1] = d
          /\ Len(delivered) \in Nat
      BY <2>2, <3>1
    <3>0. Len(delivered) + 1 \in 1 .. Len(delivered') /\ Len(delivered) + 1 - 1 = Len(delivered)
      BY <3>2
    <3>3. d \in [file : File, content : Seq(Key), outcome : {"whole", "missing", "rejected"}]
      <4>1. \A S : delivered' \in Seq(S) => \A k \in 1 .. Len(delivered') : delivered'[k] \in S
        OBVIOUS
      <4> QED BY <3>0, <3>1, <3>2, <4>1
    <3>7. \A k \in 1 .. Len(delivered') :
            /\ delivered'[k].file = k - 1
            /\ \/ /\ delivered'[k].outcome = "whole"
                  /\ delivered'[k].content = [i \in 1 .. Chunks[k - 1] |-> <<k - 1, i - 1>>]
               \/ delivered'[k].outcome = "rejected" /\ delivered'[k].content = <<>>
      BY <3>1 DEF DeliveredIntact
    <3>4. /\ d.file = Len(delivered)
          /\ \/ /\ d.outcome = "whole"
                /\ d.content = [i \in 1 .. Chunks[Len(delivered)] |-> <<Len(delivered), i - 1>>]
             \/ d.outcome = "rejected" /\ d.content = <<>>
      <4>1. PICK k \in 1 .. Len(delivered') : k = Len(delivered) + 1 /\ k - 1 = Len(delivered)
        BY <3>0
      <4>2. delivered'[k] = d  BY <3>2, <4>1
      <4> QED BY <3>7, <4>1, <4>2
    <3>5. d \in {[file |-> Len(delivered), content |-> Delivery!Content(Len(delivered)),
                  outcome |-> "whole"],
                 [file |-> Len(delivered), content |-> <<>>, outcome |-> "rejected"]}
      BY <3>3, <3>4 DEF Delivery!Content
    <3>6. \A f \in File : lastAck[f] + 1 = Chunks[f]
      BY <1>2, <2>2 DEF Done, IInv, TypeOK, ReceiverTypeOK
    <3> QED BY <2>2, <3>1, <3>2, <3>5, <3>6
               DEF Delivery!Tell, Delivery!Complete, Delivery!Files, File
  <2>6. CASE ReceiverDeliversFile
    <3>1. PICK n \in Looking :
            delivered' = Append(delivered, [file |-> FileOf(assembling[n]),
                                            content |-> assembling[n].content,
                                            outcome |-> "whole"])
      BY <2>6 DEF ReceiverDeliversFile
    <3>2. Done
      BY <1>2, <3>1, LookingFacts, AssemblyFacts
    <3> QED BY <2>2, <2>6, <3>1, <3>2
               DEF ReceiverDeliversFile, Delivery!Next, Delivery!HandOver, Delivery!GiveUp
  <2>7. CASE ReceiverReadFails
    <3>1. PICK n \in DOMAIN assembling :
            delivered' = Append(delivered, [file |-> assembling[n].pos - 1,
                                            content |-> <<>>, outcome |-> "rejected"])
      BY <1>2, <2>7, GivenUpFacts
    <3>2. Done
      BY <1>2, <3>1, AssemblyFacts
    <3> QED BY <2>2, <2>7, <3>1, <3>2
               DEF ReceiverReadFails, Delivery!Next, Delivery!HandOver, Delivery!GiveUp
  <2>3. CASE ReceiverHandlesHeader
    <3>1. PICK m \in Arrived(toReceiver, "FILE_HEADER") :
            lastAck' = [lastAck EXCEPT ![m.file] = -1]
      BY <2>3 DEF ReceiverHandlesHeader
    <3>2. MayReachReceiver(m) /\ m.type = "FILE_HEADER"
      BY <1>2, ArrivedAtReceiver
    <3>3. m.file = R /\ R \in File
      BY <3>2 DEF MayReachReceiver, FileHeader, FileChunk, TransferComplete
    <3>4. lastAck[R] = -1 /\ lastAck \in [File -> Nat \cup {-1}]
      BY <1>2, <3>3 DEF IInv, Counts, TypeOK, ReceiverTypeOK, File
    <3> QED BY <2>3, <3>1, <3>3, <3>4 DEF ReceiverHandlesHeader
  <2>8. CASE ReceiverReadsChunk
    <3>1. UNCHANGED <<lastAck, delivered>>
      BY <1>2, <2>8, NothingMissing DEF ReceiverReadsChunk, ChunkFound
    <3> QED BY <3>1
  <2>4. CASE (Disturbance /\ ~ ReceiverReadFails) \/ SenderStep \/ UNCHANGED vars
    BY <2>4 DEF Disturbance, ReceiverStoreFails, SenderCloses, ReceiverCloses,
       SenderPageDies, ReceiverPageDies, MessageLost,
       SenderStep, SenderChannelOpens, SenderHandlesFileAck, SenderHandlesChunkAck, vars
  <2>5. CASE ReceiverStep /\ ~ ReceiverAcksChunk /\ ~ ReceiverDeliversFile
             /\ ~ ReceiverHandlesHeader /\ ~ ReceiverReadsChunk
    BY <2>5 DEF ReceiverStep, ReceiverChannelOpens, ReceiverTakesChunk, ReceiverStoresChunk,
       ReceiverHandlesComplete, ReceiverDeletesChunk, ReceiverFinishes
  <2> QED BY <1>2, <2>1, <2>3, <2>4, <2>5, <2>6, <2>7, <2>8 DEF Next
<1> QED BY <1>1, <1>2, Invariance, PTL DEF Spec, ImplementsDelivery, Delivery!Spec

-----------------------------------------------------------------------------
(* PeerResume: further calls.  More than one message may be under way, so   *)
(* nothing is said about how many there are, only about what they say.      *)

\* What may reach the receiver: a chunk only of a file that was announced, the end
\* only after the last one was.
ForReceiver(m) ==
  \/ m.type = "FILE_HEADER" /\ m.file \in File
  \/ m.type = "FILE_CHUNK" /\ m.file \in File /\ m.index \in Nat /\ currentFile # NoFile
  \/ m.type = "TRANSFER_COMPLETE" /\ queueHead = NumFiles

\* ... and the sender; the acknowledgement of a stray chunk names no file.
ForSender(m) ==
  \/ m.type = "FILE_ACK" /\ m.file \in File
  \/ /\ m.type = "CHUNK_ACK" /\ m.index \in Nat
     /\ m.file \in File \/ (m.file = NoFile /\ currentFile # NoFile)
  \/ m.type = "RESUME" /\ m.file \in File /\ m.lastChunkIndex \in Nat \cup {-1}

Mail ==
  /\ IsABag(toReceiver) /\ \A m \in BagToSet(toReceiver) : ForReceiver(m)
  /\ IsABag(toSender) /\ \A m \in BagToSet(toSender) : ForSender(m)

\* Files are put together once the sender has announced the last of them.
Ended == assembling # <<>> \/ delivered # <<>> => queueHead = NumFiles

Counted == calls \in 1 .. MaxCalls /\ answered \in 0 .. calls

ReceiverOK == ReceiverTypeOK /\ StoreTypeOK /\ AssemblyTypeOK

ResumeInv == SenderTypeOK /\ ReceiverOK /\ Mail /\ Ended /\ Counted

\* How a step moves the sender: never back to before the first file, never from the
\* last file on.
Onward ==
  /\ SenderTypeOK'
  /\ currentFile # NoFile => currentFile' # NoFile
  /\ queueHead = NumFiles => queueHead' = NumFiles

\* What a step does to the messages: it adds only such as may be there.
Delivers ==
  /\ IsABag(toReceiver') /\ \A m \in BagToSet(toReceiver') : m \in BagToSet(toReceiver) \/ ForReceiver(m)'
  /\ IsABag(toSender') /\ \A m \in BagToSet(toSender') : m \in BagToSet(toSender) \/ ForSender(m)'

LEMMA SentFacts ==
  ASSUME NEW b, IsABag(b), NEW channel, NEW m
  PROVE  /\ IsABag(Sent(b, channel, m))
         /\ \A x \in BagToSet(Sent(b, channel, m)) : x \in BagToSet(b) \/ x = m
  BY SMT DEF Sent, IsABag, BagToSet, SetToBag, (+)

LEMMA HandledFacts ==
  ASSUME NEW b, IsABag(b), NEW S
  PROVE  /\ IsABag(b (-) SetToBag(S)) /\ BagToSet(b (-) SetToBag(S)) \subseteq BagToSet(b)
  BY SMT DEF IsABag, BagToSet, SetToBag, (-)

LEMMA EmptyFacts == IsABag(EmptyBag) /\ BagToSet(EmptyBag) = {}
  BY OneMessage

LEMMA MailStep ==
  ASSUME Mail, Onward, Delivers PROVE Mail'
  <1>1. ASSUME NEW m, ForReceiver(m) PROVE ForReceiver(m)'
    BY <1>1 DEF ForReceiver, Onward
  <1>2. ASSUME NEW m, ForSender(m) PROVE ForSender(m)'
    BY <1>2 DEF ForSender, Onward
  <1> QED  BY <1>1, <1>2 DEF Mail, Delivers

LEMMA InitResumeInv == ResumeInit => ResumeInv
  <1> SUFFICES ASSUME ResumeInit PROVE ResumeInv  OBVIOUS
  <1> USE NumFilesAssumption, ChunksAssumption, MaxCallsAssumption DEF ResumeInit, Init
  <1>1. SenderTypeOK /\ Ended /\ Counted
    BY DEF SenderTypeOK, ManagerStates, NoFile, NoProgress, Ended, Counted, File
  <1>2. Mail  BY EmptyFacts DEF Mail
  <1>3. ReceiverTypeOK
    BY DEF ReceiverTypeOK, ManagerStates, NoProgress
  <1>4. StoreTypeOK /\ AssemblyTypeOK
    BY DEF StoreTypeOK, AssemblyTypeOK
  <1> QED  BY <1>1, <1>2, <1>3, <1>4 DEF ResumeInv, ReceiverOK

-----------------------------------------------------------------------------
(* The sender *)

LEMMA AnnounceResumes ==
  ASSUME SenderTypeOK, Mail, NEW channel, AnnounceNextFile(channel),
         sState' \in ManagerStates, sChannel' \in {"connecting", "open", "closed"}
  PROVE  /\ Onward
         /\ IsABag(toReceiver')
         /\ \A m \in BagToSet(toReceiver') : m \in BagToSet(toReceiver) \/ ForReceiver(m)'
  <1> USE NumFilesAssumption
  <1>1. queueHead \in File /\ queueHead + 1 \in 0 .. NumFiles /\ queueHead < NumFiles
    BY DEF AnnounceNextFile, SenderTypeOK, File
  <1>2. Onward
    BY <1>1 DEF AnnounceNextFile, SenderTypeOK, Onward, File, NoFile
  <1>3. IsABag(toReceiver)  BY DEF Mail
  <1>4. toReceiver' = Sent(toReceiver, channel, FileHeader(queueHead))  BY DEF AnnounceNextFile
  <1>5. \A m : m = FileHeader(queueHead) => ForReceiver(m)'
    BY <1>1 DEF FileHeader, ForReceiver
  <1> QED  BY <1>2, <1>3, <1>4, <1>5, SentFacts

LEMMA EndResumes ==
  ASSUME SenderTypeOK, Mail, NEW channel, queueHead = NumFiles, queueHead' = queueHead,
         toReceiver' = Sent(toReceiver, channel, TransferComplete)
  PROVE  /\ IsABag(toReceiver')
         /\ \A m \in BagToSet(toReceiver') : m \in BagToSet(toReceiver) \/ ForReceiver(m)'
  <1>1. \A m : m = TransferComplete => ForReceiver(m)'
    BY DEF TransferComplete, ForReceiver
  <1>2. IsABag(toReceiver)  BY DEF Mail
  <1> QED  BY <1>1, <1>2, SentFacts

LEMMA ChunkResumes ==
  ASSUME SenderTypeOK, Mail, NEW channel, NEW f \in File, NEW i \in Nat, currentFile' = f,
         toReceiver' = Sent(toReceiver, channel, FileChunk(f, i))
  PROVE  /\ IsABag(toReceiver')
         /\ \A m \in BagToSet(toReceiver') : m \in BagToSet(toReceiver) \/ ForReceiver(m)'
  <1>0. f # NoFile  BY NumFilesAssumption DEF File, NoFile
  <1>1. \A m : m = FileChunk(f, i) => ForReceiver(m)'
    BY <1>0 DEF FileChunk, ForReceiver
  <1>2. IsABag(toReceiver)  BY DEF Mail
  <1> QED  BY <1>1, <1>2, SentFacts

LEMMA SendResumes ==
  ASSUME SenderTypeOK, Mail, NEW i \in Nat, currentFile # NoFile, SendNextChunk(i),
         UNCHANGED sChannel
  PROVE  /\ Onward
         /\ IsABag(toReceiver')
         /\ \A m \in BagToSet(toReceiver') : m \in BagToSet(toReceiver) \/ ForReceiver(m)'
  <1>1. CASE AnnounceNextFile(sChannel) /\ UNCHANGED sState
    BY <1>1, AnnounceResumes DEF SenderTypeOK
  <1>2. CASE SendTransferComplete(sChannel)
    <2>1. Onward
      BY <1>2 DEF SendTransferComplete, Onward, SenderTypeOK, ManagerStates
    <2> QED  BY <1>2, <2>1, EndResumes DEF SendTransferComplete
  <1>3. CASE /\ i < Chunks[currentFile]
             /\ currentChunkIndex' = i
             /\ sSaved' = <<currentFile, i>>
             /\ toReceiver' = Sent(toReceiver, sChannel, FileChunk(currentFile, i))
             /\ UNCHANGED <<sState, queueHead, currentFile>>
    <2>1. currentFile \in File  BY DEF SenderTypeOK
    <2>2. Onward
      BY <1>3, <2>1 DEF Onward, SenderTypeOK
    <2> QED  BY <1>3, <2>1, <2>2, ChunkResumes
  <1> QED  BY <1>1, <1>2, <1>3 DEF SendNextChunk

\* A handler of the sender takes a message and may send one.
LEMMA SenderTakes ==
  ASSUME ResumeInv, Onward, NEW m \in BagToSet(toSender), toSender' = Handled(toSender, m),
         IsABag(toReceiver'),
         \A x \in BagToSet(toReceiver') : x \in BagToSet(toReceiver) \/ ForReceiver(x)',
         UNCHANGED <<receiverVars, storeVars>>, Counted'
  PROVE  ResumeInv'
  <1>1. Delivers
    BY HandledFacts DEF Delivers, Handled, ResumeInv, Mail
  <1>2. Mail'  BY <1>1, MailStep DEF ResumeInv
  <1>3. ReceiverOK'
    BY DEF ResumeInv, ReceiverOK, receiverVars, storeVars, ReceiverTypeOK, StoreTypeOK,
           AssemblyTypeOK
  <1>4. Ended'  BY DEF ResumeInv, Ended, Onward, receiverVars
  <1> QED  BY <1>2, <1>3, <1>4 DEF ResumeInv, Onward

LEMMA SameSender ==
  ASSUME SenderTypeOK, UNCHANGED senderVars PROVE Onward
  BY DEF SenderTypeOK, Onward, senderVars, sProgress

LEMMA SenderChannelOpensResumes ==
  ASSUME ResumeInv, SenderChannelOpens, UNCHANGED <<calls, answered>> PROVE ResumeInv'
  <1> USE DEF ResumeInv
  <1>1. /\ Onward /\ IsABag(toReceiver')
        /\ \A m \in BagToSet(toReceiver') : m \in BagToSet(toReceiver) \/ ForReceiver(m)'
    <2>1. CASE AnnounceNextFile("open") /\ sState' = "TRANSFER_IN_PROGRESS"
      BY <2>1, AnnounceResumes DEF SenderChannelOpens, ManagerStates
    <2>2. CASE SendTransferComplete("open")
      <3>1. Onward
        BY <2>2 DEF SendTransferComplete, SenderChannelOpens, Onward, SenderTypeOK, ManagerStates
      <3> QED  BY <2>2, <3>1, EndResumes DEF SendTransferComplete
    <2>3. CASE sState' = "TRANSFER_IN_PROGRESS" /\ UNCHANGED <<sProgress, toReceiver>>
      BY <2>3 DEF SenderChannelOpens, Onward, SenderTypeOK, ManagerStates, sProgress, Mail
    <2> QED  BY <2>1, <2>2, <2>3 DEF SenderChannelOpens
  <1>2. Delivers  BY <1>1 DEF Delivers, SenderChannelOpens, Mail
  <1>3. Mail'  BY <1>1, <1>2, MailStep
  <1>4. ReceiverOK'
    BY DEF SenderChannelOpens, ReceiverOK, receiverVars, storeVars, ReceiverTypeOK, StoreTypeOK,
           AssemblyTypeOK
  <1>5. Ended'  BY <1>1 DEF Ended, Onward, receiverVars, SenderChannelOpens
  <1> QED  BY <1>1, <1>3, <1>4, <1>5 DEF Onward, Counted

LEMMA SenderHandlesAckResumes ==
  ASSUME ResumeInv, SenderHandlesFileAck \/ SenderHandlesChunkAck, UNCHANGED <<calls, answered>>
  PROVE  ResumeInv'
  <1>1. Counted'  BY DEF ResumeInv, Counted
  <1>2. UNCHANGED <<sChannel, receiverVars, storeVars>>
    BY DEF SenderHandlesFileAck, SenderHandlesChunkAck
  <1>3. PICK m \in BagToSet(toSender) :
          /\ toSender' = Handled(toSender, m)
          /\ \/ /\ currentFile # NoFile
                /\ \E i \in Nat : SendNextChunk(i)
             \/ UNCHANGED <<sState, sProgress, toReceiver>>
    <2>1. \A m \in BagToSet(toSender) : ForSender(m)  BY DEF ResumeInv, Mail
    <2>2. CASE SenderHandlesFileAck
      <3>1. PICK m \in BagToSet(toSender) :
              /\ m.type = "FILE_ACK" /\ toSender' = Handled(toSender, m)
              /\ \/ m.file = currentFile /\ SendNextChunk(0)
                 \/ UNCHANGED <<sState, sProgress, toReceiver>>
        BY <2>2 DEF SenderHandlesFileAck, Arrived
      <3>2. m.file \in File /\ NoFile \notin File
        BY <2>1, <3>1, NumFilesAssumption DEF ForSender, File, NoFile
      <3>3. 0 \in Nat  OBVIOUS
      <3> QED  BY <3>1, <3>2, <3>3
    <2>3. CASE SenderHandlesChunkAck
      <3>1. PICK m \in BagToSet(toSender) :
              /\ m.type = "CHUNK_ACK" /\ toSender' = Handled(toSender, m)
              /\ \/ m.file = currentFile /\ SendNextChunk(m.index + 1)
                 \/ UNCHANGED <<sState, sProgress, toReceiver>>
        BY <2>3 DEF SenderHandlesChunkAck, Arrived
      <3>2. m.index \in Nat /\ (m.file = currentFile => currentFile # NoFile)
        BY <2>1, <3>1, NumFilesAssumption DEF ForSender, File, NoFile
      <3>3. m.index + 1 \in Nat  BY <3>2
      <3> QED  BY <3>1, <3>2, <3>3
    <2> QED  BY <2>2, <2>3
  <1>4. SenderTypeOK /\ Mail  BY DEF ResumeInv
  <1>5. /\ Onward /\ IsABag(toReceiver')
        /\ \A x \in BagToSet(toReceiver') : x \in BagToSet(toReceiver) \/ ForReceiver(x)'
    <2>1. CASE currentFile # NoFile /\ \E i \in Nat : SendNextChunk(i)
      BY <1>2, <1>4, <2>1, SendResumes
    <2>2. CASE UNCHANGED <<sState, sProgress, toReceiver>>
      <3>1. Onward  BY <1>2, <1>4, <2>2, SameSender DEF senderVars
      <3> QED  BY <1>4, <2>2, <3>1 DEF Mail
    <2> QED  BY <1>3, <2>1, <2>2
  <1> QED  BY <1>1, <1>2, <1>3, <1>5, SenderTakes

LEMMA SenderHandlesResumeStep ==
  ASSUME ResumeInv, SenderHandlesResume PROVE ResumeInv'
  <1>1. Counted' /\ UNCHANGED <<sChannel, receiverVars, storeVars>>
    BY DEF SenderHandlesResume, ResumeInv, Counted
  <1>2. PICK m \in Arrived(toSender, "RESUME") :
          LET next == m.lastChunkIndex + 1
          IN  /\ toSender' = Handled(toSender, m)
              /\ \/ /\ currentFile' = m.file
                    /\ currentChunkIndex' = next
                    /\ toReceiver' = Sent(toReceiver, sChannel, FileChunk(m.file, next))
                    /\ UNCHANGED <<sState, queueHead, sSaved>>
                 \/ AnnounceNextFile(sChannel) /\ UNCHANGED sState
                 \/ /\ queueHead = NumFiles
                    /\ currentFile' = m.file
                    /\ currentChunkIndex' = next
                    /\ toReceiver' = Sent(toReceiver, sChannel, TransferComplete)
                    /\ sState' = "COMPLETED"
                    /\ sSaved' = NoProgress
                    /\ UNCHANGED queueHead
    BY DEF SenderHandlesResume
  <1>3. /\ SenderTypeOK /\ Mail /\ m \in BagToSet(toSender) /\ ForSender(m) /\ m.type = "RESUME"
    BY DEF ResumeInv, Mail, Arrived
  <1>4. m.file \in File /\ m.file # NoFile /\ m.lastChunkIndex + 1 \in Nat
    BY <1>3, NumFilesAssumption DEF ForSender, File, NoFile
  <1>5. /\ Onward /\ IsABag(toReceiver')
        /\ \A x \in BagToSet(toReceiver') : x \in BagToSet(toReceiver) \/ ForReceiver(x)'
    <2>1. CASE /\ currentFile' = m.file
               /\ currentChunkIndex' = m.lastChunkIndex + 1
               /\ toReceiver' = Sent(toReceiver, sChannel, FileChunk(m.file, m.lastChunkIndex + 1))
               /\ UNCHANGED <<sState, queueHead, sSaved>>
      <3>1. Onward  BY <1>1, <1>3, <1>4, <2>1 DEF Onward, SenderTypeOK
      <3> QED  BY <1>3, <1>4, <2>1, <3>1, ChunkResumes
    <2>2. CASE AnnounceNextFile(sChannel) /\ UNCHANGED sState
      BY <1>1, <1>3, <2>2, AnnounceResumes DEF SenderTypeOK
    <2>3. CASE /\ queueHead = NumFiles
               /\ currentFile' = m.file
               /\ currentChunkIndex' = m.lastChunkIndex + 1
               /\ toReceiver' = Sent(toReceiver, sChannel, TransferComplete)
               /\ sState' = "COMPLETED"
               /\ sSaved' = NoProgress
               /\ UNCHANGED queueHead
      <3>1. Onward  BY <1>1, <1>3, <1>4, <2>3 DEF Onward, SenderTypeOK, ManagerStates
      <3> QED  BY <1>3, <2>3, <3>1, EndResumes
    <2> QED  BY <1>2, <2>1, <2>2, <2>3
  <1>6. toSender' = Handled(toSender, m)  BY <1>2
  <1> QED  BY <1>1, <1>3, <1>5, <1>6, SenderTakes

LEMMA SurvivorsFacts ==
  ASSUME NEW b, IsABag(b), NEW c \in SurvivesCall(b)
  PROVE  IsABag(c) /\ BagToSet(c) \subseteq BagToSet(b)
  <1>1. CASE c = EmptyBag  BY <1>1, EmptyFacts
  <1>2. CASE \E lost \in SUBSET BagToSet(b) : c = b (-) SetToBag(lost)
    BY <1>2, HandledFacts
  <1> QED  BY <1>1, <1>2 DEF SurvivesCall

LEMMA SenderCallsAgainStep ==
  ASSUME ResumeInv, SenderCallsAgain PROVE ResumeInv'
  <1> USE DEF ResumeInv
  <1>1. Onward
    BY DEF SenderCallsAgain, Onward, SenderTypeOK, sProgress, ManagerStates
  <1>2. Delivers  BY SurvivorsFacts DEF SenderCallsAgain, Delivers, Mail
  <1>3. Mail'  BY <1>1, <1>2, MailStep
  <1>4. ReceiverOK'
    BY DEF SenderCallsAgain, ReceiverOK, receiverVars, storeVars, ReceiverTypeOK, StoreTypeOK,
           AssemblyTypeOK
  <1>5. Ended' /\ Counted'
    BY MaxCallsAssumption DEF Ended, sProgress, receiverVars, SenderCallsAgain, Counted
  <1> QED  BY <1>1, <1>3, <1>4, <1>5 DEF Onward

-----------------------------------------------------------------------------
(* The receiver *)

\* A step of the receiver that keeps its types, takes messages and may answer.
LEMMA ReceiverResumes ==
  ASSUME ResumeInv, UNCHANGED senderVars, ReceiverOK', Delivers, Ended', Counted'
  PROVE  ResumeInv'
  <1>1. Onward  BY SameSender DEF ResumeInv
  <1>2. Mail'  BY <1>1, MailStep DEF ResumeInv
  <1> QED  BY <1>1, <1>2 DEF ResumeInv, Onward

LEMMA SameMail ==
  ASSUME Mail, UNCHANGED <<toReceiver, toSender>> PROVE Delivers
  BY DEF Mail, Delivers

LEMMA ProgressType ==
  ASSUME NEW received \in Seq(File), NEW acks \in [File -> Nat \cup {-1}]
  PROVE  Progress(received, acks) \in Seq(Nat)
  <1>1. \A f \in File : SavedChunks(f, acks[f]) \in Nat
    BY ChunksAssumption, PartialAssumption DEF SavedChunks
  <1>2. Len(received) \in Nat /\ \A n \in 1 .. Len(received) : received[n] \in File  OBVIOUS
  <1>3. \A n \in 1 .. Len(received) : SavedChunks(received[n], acks[received[n]]) \in Nat
    BY <1>1, <1>2
  <1>4. Progress(received, acks) \in [1 .. Len(received) -> Nat]  BY <1>3 DEF Progress
  <1> QED  BY <1>2, <1>4, SeqDef

LEMMA HeaderResumes ==
  ASSUME ResumeInv, ReceiverHandlesHeader, UNCHANGED <<calls, answered>> PROVE ResumeInv'
  <1>1. PICK m \in Arrived(toReceiver, "FILE_HEADER") :
          /\ toReceiver' = Handled(toReceiver, m)
          /\ receivedFiles' = IF Contains(receivedFiles, m.file) THEN receivedFiles
                              ELSE Append(receivedFiles, m.file)
          /\ lastAck' = [lastAck EXCEPT ![m.file] = -1]
          /\ rSaved' = Progress(receivedFiles', lastAck')
          /\ toSender' = Sent(toSender, rChannel, FileAck(m.file))
    BY DEF ReceiverHandlesHeader
  <1>2. m.file \in File /\ IsABag(toReceiver) /\ IsABag(toSender)
    BY DEF ResumeInv, Mail, Arrived, ForReceiver
  <1>3. receivedFiles' \in Seq(File) /\ lastAck' \in [File -> Nat \cup {-1}]
    BY <1>1, <1>2 DEF ResumeInv, ReceiverOK, ReceiverTypeOK
  <1>4. rSaved' \in Seq(Nat)  BY <1>1, <1>3, ProgressType
  <1>5. ReceiverOK'
    BY <1>3, <1>4 DEF ReceiverHandlesHeader, ResumeInv, ReceiverOK, ReceiverTypeOK, StoreTypeOK,
                      AssemblyTypeOK, storeVars
  <1>6. \A x : x = FileAck(m.file) => ForSender(x)'  BY <1>2 DEF FileAck, ForSender
  <1>7. Delivers  BY <1>1, <1>2, <1>6, SentFacts, HandledFacts DEF Delivers, Handled
  <1>8. UNCHANGED senderVars /\ Ended' /\ Counted'
    BY DEF ReceiverHandlesHeader, ResumeInv, Ended, Counted, senderVars, sProgress
  <1> QED  BY <1>5, <1>7, <1>8, ReceiverResumes

LEMMA TakesChunkResumes ==
  ASSUME ResumeInv, ReceiverTakesChunk, UNCHANGED <<calls, answered>> PROVE ResumeInv'
  <1>1. PICK m \in Arrived(toReceiver, "FILE_CHUNK") :
          /\ toReceiver' = Handled(toReceiver, m)
          /\ writing' = {[key |-> ExpectedChunk, data |-> <<m.file, m.index>>, stored |-> FALSE]}
    BY DEF ReceiverTakesChunk
  <1>2. m.file \in File /\ m.index \in Nat /\ IsABag(toReceiver) /\ IsABag(toSender)
    BY DEF ResumeInv, Mail, Arrived, ForReceiver
  <1>3. ExpectedChunk \in Key
    <2>1. receivedFiles \in Seq(File) /\ receivedFiles # <<>> /\ lastAck \in [File -> Nat \cup {-1}]
      BY DEF ReceiverTakesChunk, ResumeInv, ReceiverOK, ReceiverTypeOK
    <2>2. Last(receivedFiles) \in File  BY <2>1 DEF Last
    <2>3. lastAck[Last(receivedFiles)] + 1 \in Nat  BY <2>1, <2>2
    <2> QED  BY <2>2, <2>3 DEF ExpectedChunk, Key
  <1>4. <<m.file, m.index>> \in Key  BY <1>2 DEF Key
  <1>5. \A w \in writing' : w \in [key : Key, data : Key, stored : BOOLEAN]
    <2>1. [key |-> ExpectedChunk, data |-> <<m.file, m.index>>, stored |-> FALSE]
            \in [key : Key, data : Key, stored : BOOLEAN]
      BY <1>3, <1>4
    <2> QED  BY <1>1, <2>1
  <1>6. ReceiverOK'
    BY <1>5 DEF ReceiverTakesChunk, ResumeInv, ReceiverOK, ReceiverTypeOK, StoreTypeOK,
                AssemblyTypeOK, receiverVars
  <1>7. Delivers
    BY <1>1, <1>2, HandledFacts DEF Delivers, Handled, ReceiverTakesChunk
  <1>8. UNCHANGED senderVars /\ Ended' /\ Counted'
    BY DEF ReceiverTakesChunk, ResumeInv, Ended, Counted, senderVars, sProgress, receiverVars
  <1> QED  BY <1>6, <1>7, <1>8, ReceiverResumes

LEMMA StoreResumes ==
  ASSUME ResumeInv, ReceiverStoresChunk \/ ReceiverStoreFails, UNCHANGED <<calls, answered>>
  PROVE  ResumeInv'
  <1>1. /\ UNCHANGED <<senderVars, toReceiver, toSender, rChannel, receivedFiles, lastAck, rSaved,
                       assembling, delivered>>
        /\ rState' \in {rState, "FAILED"}
    BY DEF ReceiverStoresChunk, ReceiverStoreFails, receiverVars
  <1>2. StoreTypeOK /\ Mail  BY DEF ResumeInv, ReceiverOK
  <1>3. StoreTypeOK'
    <2>1. CASE ReceiverStoresChunk
      <3>1. PICK w \in writing :
              /\ progressStore' = [k \in DOMAIN progressStore \cup {w.key} |->
                                     IF k = w.key THEN w.data ELSE progressStore[k]]
              /\ writing' = {[w EXCEPT !.stored = TRUE]}
        BY <2>1 DEF ReceiverStoresChunk
      <3>2. w \in [key : Key, data : Key, stored : BOOLEAN]  BY <1>2 DEF StoreTypeOK
      <3>3. DOMAIN progressStore' = DOMAIN progressStore \cup {w.key}  BY <3>1
      <3>4. progressStore' \in [DOMAIN progressStore' -> Key]
        BY <1>2, <3>1, <3>2, <3>3 DEF StoreTypeOK
      <3>5. \A v \in writing' : v \in [key : Key, data : Key, stored : BOOLEAN]
        BY <3>1, <3>2
      <3>6. DOMAIN progressStore' \subseteq Key  BY <1>2, <3>2, <3>3 DEF StoreTypeOK
      <3> QED  BY <3>4, <3>5, <3>6 DEF StoreTypeOK
    <2>2. CASE ReceiverStoreFails
      BY <1>2, <2>2 DEF ReceiverStoreFails, StoreTypeOK
    <2> QED  BY <2>1, <2>2
  <1>4. ReceiverOK'
    BY <1>1, <1>3 DEF ResumeInv, ReceiverOK, ReceiverTypeOK, AssemblyTypeOK, ManagerStates
  <1>5. Delivers  BY <1>1, <1>2, SameMail
  <1>6. Ended' /\ Counted'  BY <1>1 DEF ResumeInv, Ended, Counted, senderVars, sProgress
  <1> QED  BY <1>1, <1>4, <1>5, <1>6, ReceiverResumes

LEMMA AcksChunkResumes ==
  ASSUME ResumeInv, ReceiverAcksChunk, UNCHANGED <<calls, answered>> PROVE ResumeInv'
  <1>1. PICK w \in writing :
          /\ lastAck' = [lastAck EXCEPT ![w.key[1]] = w.key[2]]
          /\ rSaved' = Progress(receivedFiles, lastAck')
          /\ toSender' = Sent(toSender, rChannel, ChunkAck(w.key[1], w.key[2]))
    BY DEF ReceiverAcksChunk
  <1>2. w \in [key : Key, data : Key, stored : BOOLEAN] /\ IsABag(toSender) /\ IsABag(toReceiver)
    BY DEF ResumeInv, ReceiverOK, StoreTypeOK, Mail
  <1>3. w.key[1] \in File /\ w.key[2] \in Nat  BY <1>2 DEF Key
  <1>4. receivedFiles \in Seq(File) /\ lastAck' \in [File -> Nat \cup {-1}]
    BY <1>1, <1>3 DEF ResumeInv, ReceiverOK, ReceiverTypeOK
  <1>5. rSaved' \in Seq(Nat)  BY <1>1, <1>4, ProgressType
  <1>6. ReceiverOK'
    BY <1>4, <1>5 DEF ReceiverAcksChunk, ResumeInv, ReceiverOK, ReceiverTypeOK, StoreTypeOK,
                      AssemblyTypeOK
  <1>7. currentFile' = currentFile /\ UNCHANGED senderVars
    BY DEF ReceiverAcksChunk, senderVars, sProgress
  <1>8. \A x : x = ChunkAck(w.key[1], w.key[2]) => ForSender(x)'
    BY <1>3, <1>7 DEF ChunkAck, ForSender
  <1>9. toReceiver' = toReceiver  BY DEF ReceiverAcksChunk
  <1>10. Delivers  BY <1>1, <1>2, <1>8, <1>9, SentFacts DEF Delivers
  <1>11. Ended' /\ Counted'
    BY <1>7 DEF ReceiverAcksChunk, ResumeInv, Ended, Counted, senderVars, sProgress
  <1> QED  BY <1>6, <1>7, <1>10, <1>11, ReceiverResumes

LEMMA CompleteResumes ==
  ASSUME ResumeInv, ReceiverHandlesComplete, UNCHANGED <<calls, answered>> PROVE ResumeInv'
  <1>1. TransferComplete \in BagToSet(toReceiver) /\ TransferComplete.type = "TRANSFER_COMPLETE"
    BY DEF ReceiverHandlesComplete, BagIn, TransferComplete
  <1>2. queueHead = NumFiles /\ IsABag(toReceiver) /\ IsABag(toSender)
    BY <1>1 DEF ResumeInv, Mail, ForReceiver
  <1>3. [pos |-> 1, content |-> <<>>, read |-> FALSE]
          \in [pos : Nat \ {0}, content : Seq(Key), read : BOOLEAN]
    <2>1. 1 \in Nat \ {0} /\ <<>> \in Seq(Key)  OBVIOUS
    <2> QED  BY <2>1, Zenon
  <1>4. AssemblyTypeOK'
    BY <1>3, AppendProperties
       DEF ReceiverHandlesComplete, ResumeInv, ReceiverOK, AssemblyTypeOK
  <1>5. ReceiverOK'
    BY <1>4 DEF ReceiverHandlesComplete, ResumeInv, ReceiverOK, ReceiverTypeOK, StoreTypeOK,
                storeVars, ManagerStates
  <1>6. Delivers
    BY <1>2, HandledFacts DEF ReceiverHandlesComplete, Delivers, Handled
  <1>7. UNCHANGED senderVars /\ Ended' /\ Counted'
    BY <1>2 DEF ReceiverHandlesComplete, ResumeInv, Ended, Counted, senderVars, sProgress
  <1> QED  BY <1>5, <1>6, <1>7, ReceiverResumes

\* A step of an assembly: it reads, deletes or delivers, and whatever it leaves has the type.
LEMMA AssemblyResumes ==
  ASSUME ResumeInv, assembling # <<>> \/ delivered # <<>>, AssemblyTypeOK', StoreTypeOK',
         UNCHANGED <<senderVars, toReceiver, toSender, receivedFiles, lastAck>>,
         rState' \in ManagerStates, rChannel' \in {"connecting", "open", "closed"},
         rSaved' \in Seq(Nat), UNCHANGED <<calls, answered>>
  PROVE  ResumeInv'
  <1>1. ReceiverOK'  BY DEF ResumeInv, ReceiverOK, ReceiverTypeOK
  <1>2. Delivers  BY SameMail DEF ResumeInv
  <1>3. queueHead' = NumFiles /\ UNCHANGED senderVars
    BY DEF ResumeInv, Ended, senderVars, sProgress
  <1>4. Ended' /\ Counted'  BY <1>3 DEF ResumeInv, Ended, Counted
  <1> QED  BY <1>1, <1>2, <1>3, <1>4, ReceiverResumes

Run == [pos : Nat \ {0}, content : Seq(Key), read : BOOLEAN]

\* What a run of the assembly is, and that one of them may be replaced.
LEMMA RunFacts ==
  ASSUME ResumeInv
  PROVE  /\ assembling \in Seq(Run) /\ \A n \in DOMAIN assembling : assembling[n] \in Run
         /\ assembling # <<>> \/ DOMAIN assembling = {}
         /\ \A n \in DOMAIN assembling, a \in Run : [assembling EXCEPT ![n] = a] \in Seq(Run)
         /\ \A n \in DOMAIN assembling :
              assembling[n].pos <= Len(receivedFiles) => FileOf(assembling[n]) \in File
  <1>1. assembling \in Seq(Run) /\ receivedFiles \in Seq(File)
    BY DEF ResumeInv, ReceiverOK, AssemblyTypeOK, ReceiverTypeOK, Run
  <1>2. \A n \in DOMAIN assembling : assembling[n] \in Run  BY <1>1
  <1>3. assembling # <<>> \/ DOMAIN assembling = {}  OBVIOUS
  <1>4. \A n \in DOMAIN assembling, a \in Run : [assembling EXCEPT ![n] = a] \in Seq(Run)
    BY <1>1, ExceptSeq
  <1>5. ASSUME NEW n \in DOMAIN assembling, assembling[n].pos <= Len(receivedFiles)
        PROVE  FileOf(assembling[n]) \in File
    <2>1. assembling[n].pos \in Nat \ {0}  BY <1>2 DEF Run
    <2> QED  BY <1>1, <1>5, <2>1 DEF FileOf
  <1> QED  BY <1>1, <1>2, <1>3, <1>4, <1>5

LEMMA NextFileType == ASSUME NEW a \in Run PROVE NextFile(a) \in Run
  <1>1. a.pos + 1 \in Nat \ {0} /\ <<>> \in Seq(Key)  BY DEF Run
  <1> QED  BY <1>1, Zenon DEF NextFile, Run

\* An assembly that gives a file up has reported one of the receiver's.
LEMMA GivesUpResumes ==
  ASSUME ResumeInv, NEW n \in DOMAIN assembling,
         assembling[n].pos <= Len(receivedFiles),
         NEW why \in {"missing", "rejected"}, GivesUp(n, why)
  PROVE  /\ \E a \in Run : assembling' = [assembling EXCEPT ![n] = a]
         /\ delivered' \in Seq([file : File, content : Seq(Key),
                                outcome : {"whole", "missing", "rejected"}])
  <1>1. assembling[n] \in Run /\ FileOf(assembling[n]) \in File  BY RunFacts
  <1>2. <<>> \in Seq(Key)  OBVIOUS
  <1>3. [file |-> FileOf(assembling[n]), content |-> <<>>, outcome |-> why]
          \in [file : File, content : Seq(Key), outcome : {"whole", "missing", "rejected"}]
    BY <1>1, <1>2
  <1>4. delivered' \in Seq([file : File, content : Seq(Key),
                            outcome : {"whole", "missing", "rejected"}])
    BY <1>3, AppendProperties DEF GivesUp, ResumeInv, ReceiverOK, AssemblyTypeOK
  <1> QED  BY <1>1, <1>4, NextFileType DEF GivesUp

LEMMA ReadsResumes ==
  ASSUME ResumeInv, ReceiverReadsChunk, UNCHANGED <<calls, answered>> PROVE ResumeInv'
  <1>1. PICK n \in Looking : ChunkFound(n) \/ ChunkMissing(n)  BY DEF ReceiverReadsChunk
  <1>2. n \in DOMAIN assembling /\ assembling[n] \in Run /\ assembling # <<>>
    BY <1>1, RunFacts DEF Looking
  <1>3. /\ \E a \in Run : assembling' = [assembling EXCEPT ![n] = a]
        /\ delivered' \in Seq([file : File, content : Seq(Key),
                               outcome : {"whole", "missing", "rejected"}])
    <2>1. CASE ChunkFound(n)
      <3>1. Wanted(assembling[n]) \in DOMAIN progressStore  BY <2>1 DEF ChunkFound
      <3>2. progressStore[Wanted(assembling[n])] \in Key
        BY <3>1 DEF ResumeInv, ReceiverOK, StoreTypeOK
      <3> DEFINE b == [assembling[n] EXCEPT
                         !.content = Append(@, progressStore[Wanted(assembling[n])]), !.read = TRUE]
      <3>3. Append(assembling[n].content, progressStore[Wanted(assembling[n])]) \in Seq(Key)
        BY <1>2, <3>2 DEF Run
      <3>4. b \in Run  BY <1>2, <3>3, Zenon DEF Run
      <3>5. assembling' = [assembling EXCEPT ![n] = b] /\ delivered' = delivered
        BY <2>1 DEF ChunkFound
      <3>6. delivered \in Seq([file : File, content : Seq(Key),
                               outcome : {"whole", "missing", "rejected"}])
        BY DEF ResumeInv, ReceiverOK, AssemblyTypeOK
      <3> QED  BY <3>4, <3>5, <3>6
    <2>2. CASE ChunkMissing(n)
      BY <1>1, <1>2, <2>2, GivesUpResumes DEF ChunkMissing, Looking
    <2> QED  BY <1>1, <2>1, <2>2
  <1>4. assembling' \in Seq(Run)  BY <1>2, <1>3, RunFacts
  <1>5. AssemblyTypeOK' /\ StoreTypeOK'
    BY <1>3, <1>4 DEF ReceiverReadsChunk, ResumeInv, ReceiverOK, AssemblyTypeOK,
                      StoreTypeOK, storeVars, Run
  <1> QED  BY <1>2, <1>5, AssemblyResumes
           DEF ReceiverReadsChunk, ResumeInv, ReceiverOK, ReceiverTypeOK

LEMMA ReadFailsResumes ==
  ASSUME ResumeInv, ReceiverReadFails, UNCHANGED <<calls, answered>> PROVE ResumeInv'
  <1>1. PICK n \in DOMAIN assembling :
          assembling[n].pos <= Len(receivedFiles) /\ GivesUp(n, "rejected")
    BY DEF ReceiverReadFails
  <1>3. /\ \E a \in Run : assembling' = [assembling EXCEPT ![n] = a]
        /\ delivered' \in Seq([file : File, content : Seq(Key),
                               outcome : {"whole", "missing", "rejected"}])
    BY <1>1, GivesUpResumes
  <1>4. assembling' \in Seq(Run) /\ assembling # <<>>  BY <1>3, RunFacts
  <1>5. AssemblyTypeOK' /\ StoreTypeOK'
    BY <1>3, <1>4 DEF ReceiverReadFails, ResumeInv, ReceiverOK, AssemblyTypeOK,
                      StoreTypeOK, storeVars, Run
  <1> QED  BY <1>4, <1>5, AssemblyResumes
           DEF ReceiverReadFails, ResumeInv, ReceiverOK, ReceiverTypeOK

LEMMA DeletesResumes ==
  ASSUME ResumeInv, ReceiverDeletesChunk, UNCHANGED <<calls, answered>> PROVE ResumeInv'
  <1>1. PICK n \in DOMAIN assembling :
          /\ assembling' = [assembling EXCEPT ![n] = [assembling[n] EXCEPT !.read = FALSE]]
          /\ \E S : progressStore' = [k \in DOMAIN progressStore \ S |-> progressStore[k]]
    BY DEF ReceiverDeletesChunk
  <1>2. assembling[n] \in Run /\ assembling # <<>>  BY RunFacts
  <1>3. [assembling[n] EXCEPT !.read = FALSE] \in Run  BY <1>2, Zenon DEF Run
  <1>4. assembling' \in Seq(Run)  BY <1>1, <1>3, RunFacts
  <1>5. StoreTypeOK'
    BY <1>1 DEF ReceiverDeletesChunk, ResumeInv, ReceiverOK, StoreTypeOK
  <1>6. AssemblyTypeOK'
    BY <1>4 DEF ReceiverDeletesChunk, ResumeInv, ReceiverOK, AssemblyTypeOK, Run
  <1> QED  BY <1>2, <1>5, <1>6, AssemblyResumes
           DEF ReceiverDeletesChunk, ResumeInv, ReceiverOK, ReceiverTypeOK

LEMMA DeliversFileResumes ==
  ASSUME ResumeInv, ReceiverDeliversFile, UNCHANGED <<calls, answered>> PROVE ResumeInv'
  <1>1. PICK n \in Looking :
          /\ delivered' = Append(delivered, [file |-> FileOf(assembling[n]),
                                             content |-> assembling[n].content,
                                             outcome |-> "whole"])
          /\ assembling' = [assembling EXCEPT ![n] = NextFile(assembling[n])]
    BY DEF ReceiverDeliversFile
  <1>2. /\ n \in DOMAIN assembling /\ assembling[n] \in Run /\ assembling # <<>>
        /\ FileOf(assembling[n]) \in File
    BY <1>1, RunFacts DEF Looking
  <1>3. assembling' \in Seq(Run)  BY <1>1, <1>2, NextFileType, RunFacts
  <1>4. delivered' \in Seq([file : File, content : Seq(Key),
                            outcome : {"whole", "missing", "rejected"}])
    <2>1. [file |-> FileOf(assembling[n]), content |-> assembling[n].content,
           outcome |-> "whole"]
            \in [file : File, content : Seq(Key), outcome : {"whole", "missing", "rejected"}]
      BY <1>2 DEF Run
    <2> QED  BY <1>1, <2>1, AppendProperties DEF ResumeInv, ReceiverOK, AssemblyTypeOK
  <1>5. AssemblyTypeOK' /\ StoreTypeOK'
    BY <1>3, <1>4 DEF ReceiverDeliversFile, ResumeInv, ReceiverOK, AssemblyTypeOK, StoreTypeOK,
                      storeVars, Run
  <1> QED  BY <1>2, <1>5, AssemblyResumes
           DEF ReceiverDeliversFile, ResumeInv, ReceiverOK, ReceiverTypeOK

LEMMA FinishesResumes ==
  ASSUME ResumeInv, ReceiverFinishes, UNCHANGED <<calls, answered>> PROVE ResumeInv'
  <1>1. PICK n \in DOMAIN assembling : assembling' = RemoveAt(assembling, n)
    BY DEF ReceiverFinishes
  <1>2. assembling \in Seq(Run) /\ assembling # <<>>  BY <1>1, RunFacts
  <1>3. n \in 1 .. Len(assembling) /\ Len(assembling) \in Nat  BY <1>1, <1>2
  <1>4. SubSeq(assembling, 1, n - 1) \in Seq(Run)
        /\ SubSeq(assembling, n + 1, Len(assembling)) \in Seq(Run)
    BY <1>2, <1>3, SubSeqProperties
  <1>5. assembling' \in Seq(Run)
    BY <1>1, <1>4, ConcatProperties DEF RemoveAt
  <1>6. AssemblyTypeOK' /\ StoreTypeOK'
    BY <1>5 DEF ReceiverFinishes, ResumeInv, ReceiverOK, AssemblyTypeOK, StoreTypeOK,
                storeVars, Run
  <1>7. <<>> \in Seq(Nat)  OBVIOUS
  <1> QED  BY <1>2, <1>6, <1>7, AssemblyResumes
           DEF ReceiverFinishes, ManagerStates, NoProgress

-----------------------------------------------------------------------------
(* Connections and pages *)

LEMMA ReceiverChannelResumes ==
  ASSUME ResumeInv, ReceiverChannelOpens \/ ReceiverCloses, Counted' PROVE ResumeInv'
  <1>1. /\ UNCHANGED <<senderVars, toReceiver, toSender, receivedFiles, lastAck, rSaved,
                       assembling, delivered, storeVars>>
        /\ rState' \in ManagerStates /\ rChannel' \in {"connecting", "open", "closed"}
    BY DEF ReceiverChannelOpens, ReceiverCloses, ManagerStates
  <1>2. ReceiverOK'
    BY <1>1 DEF ResumeInv, ReceiverOK, ReceiverTypeOK, StoreTypeOK, AssemblyTypeOK, storeVars
  <1>3. Delivers  BY <1>1, SameMail DEF ResumeInv
  <1>4. Ended'  BY <1>1 DEF ResumeInv, Ended, senderVars, sProgress
  <1> QED  BY <1>1, <1>2, <1>3, <1>4, ReceiverResumes

LEMMA SenderGoneResumes ==
  ASSUME ResumeInv, SenderCloses \/ SenderPageDies, UNCHANGED <<calls, answered>>
  PROVE  ResumeInv'
  <1> USE DEF ResumeInv
  <1>1. Onward
    BY DEF SenderCloses, SenderPageDies, Onward, SenderTypeOK, sProgress, ManagerStates
  <1>2. Delivers
    BY EmptyFacts DEF SenderCloses, SenderPageDies, Delivers, Mail
  <1>3. Mail'  BY <1>1, <1>2, MailStep
  <1>4. ReceiverOK'
    BY DEF SenderCloses, SenderPageDies, ReceiverOK, receiverVars, storeVars, ReceiverTypeOK,
           StoreTypeOK, AssemblyTypeOK
  <1>5. Ended' /\ Counted'
    BY DEF Ended, sProgress, receiverVars, SenderCloses, SenderPageDies, Counted
  <1> QED  BY <1>1, <1>3, <1>4, <1>5 DEF Onward

LEMMA ReceiverPageDiesResumes ==
  ASSUME ResumeInv, ReceiverPageDies, UNCHANGED <<calls, answered>> PROVE ResumeInv'
  <1>1. ReceiverOK'
    BY DEF ReceiverPageDies, ResumeInv, ReceiverOK, ReceiverTypeOK, StoreTypeOK,
           AssemblyTypeOK, ManagerStates
  <1>2. Delivers  BY EmptyFacts DEF ReceiverPageDies, ResumeInv, Mail, Delivers
  <1>3. UNCHANGED senderVars /\ Ended' /\ Counted'
    BY DEF ReceiverPageDies, ResumeInv, Ended, Counted, senderVars, sProgress
  <1> QED  BY <1>1, <1>2, <1>3, ReceiverResumes

LEMMA MessageLostResumes ==
  ASSUME ResumeInv, MessageLost, UNCHANGED <<calls, answered>> PROVE ResumeInv'
  <1>1. UNCHANGED <<senderVars, receiverVars, storeVars>>  BY DEF MessageLost
  <1>2. ReceiverOK' /\ Ended' /\ Counted'
    BY <1>1 DEF ResumeInv, ReceiverOK, ReceiverTypeOK, StoreTypeOK, AssemblyTypeOK, receiverVars,
                storeVars, Ended, Counted, senderVars, sProgress
  <1>3. Delivers
    BY HandledFacts DEF MessageLost, ResumeInv, Mail, Delivers, Handled
  <1> QED  BY <1>1, <1>2, <1>3, ReceiverResumes

LEMMA ReceiverStartsResumes ==
  ASSUME ResumeInv, ReceiverStarts \/ ReceiverSwitchesChannel PROVE ResumeInv'
  <1>1. Counted'
    BY DEF ReceiverStarts, ReceiverSwitchesChannel, ResumeInv, Counted
  <1>2. CASE ReceiverStarts
    BY <1>1, <1>2, ReceiverChannelResumes DEF ReceiverStarts
  <1>3. CASE ReceiverSwitchesChannel
    <2>1. ReceiverOK'
      BY <1>3 DEF ReceiverSwitchesChannel, ResumeInv, ReceiverOK, ReceiverTypeOK, StoreTypeOK,
                  AssemblyTypeOK, storeVars, ManagerStates
    <2>2. Delivers  BY <1>3, SameMail DEF ReceiverSwitchesChannel, ResumeInv
    <2>3. UNCHANGED senderVars /\ Ended'
      BY <1>3 DEF ReceiverSwitchesChannel, ResumeInv, Ended, senderVars, sProgress
    <2> QED  BY <1>1, <2>1, <2>2, <2>3, ReceiverResumes
  <1> QED  BY <1>2, <1>3

LEMMA RequestsResumeStep ==
  ASSUME ResumeInv, ReceiverRequestsResume PROVE ResumeInv'
  <1> DEFINE f == Last(receivedFiles)
  <1>1. f \in File /\ ResumeIndex(f) \in Nat \cup {-1}
    <2>1. receivedFiles \in Seq(File) /\ receivedFiles # <<>> /\ lastAck \in [File -> Nat \cup {-1}]
      BY DEF ReceiverRequestsResume, ResumeInv, ReceiverOK, ReceiverTypeOK
    <2>2. f \in File  BY <2>1 DEF Last
    <2> QED  BY <2>1, <2>2 DEF ResumeIndex
  <1>2. \A x : x = Resume(f, ResumeIndex(f)) => ForSender(x)'
    BY <1>1 DEF Resume, ForSender
  <1>3. toSender' = Sent(toSender, "open", Resume(f, ResumeIndex(f))) /\ UNCHANGED toReceiver
    BY DEF ReceiverRequestsResume
  <1>4. IsABag(toSender) /\ IsABag(toReceiver)  BY DEF ResumeInv, Mail
  <1>5. Delivers  BY <1>2, <1>3, <1>4, SentFacts DEF Delivers
  <1>6. ReceiverOK'
    BY DEF ReceiverRequestsResume, ResumeInv, ReceiverOK, ReceiverTypeOK, StoreTypeOK,
           AssemblyTypeOK, storeVars, ManagerStates
  <1>7. UNCHANGED senderVars /\ Ended' /\ Counted'
    BY DEF ReceiverRequestsResume, ResumeInv, Ended, Counted, senderVars, sProgress
  <1> QED  BY <1>5, <1>6, <1>7, ReceiverResumes

LEMMA StrayChunkStep ==
  ASSUME ResumeInv, ReceiverTakesStrayChunk PROVE ResumeInv'
  <1>1. PICK m \in Arrived(toReceiver, "FILE_CHUNK") : toReceiver' = Handled(toReceiver, m)
    BY DEF ReceiverTakesStrayChunk
  <1>2. currentFile # NoFile /\ IsABag(toSender) /\ IsABag(toReceiver)
    BY <1>1 DEF ResumeInv, Mail, Arrived, ForReceiver
  <1>3. \A x : x = ChunkAck(NoFile, 0) => ForSender(x)'
    BY <1>2 DEF ChunkAck, ForSender, ReceiverTakesStrayChunk, senderVars, sProgress
  <1>4. \/ toSender' = Sent(toSender, rChannel, ChunkAck(NoFile, 0))
        \/ toSender' = toSender
    BY DEF ReceiverTakesStrayChunk
  <1>5. Delivers
    BY <1>1, <1>2, <1>3, <1>4, SentFacts, HandledFacts DEF Delivers, Handled
  <1>6. <<>> \in Seq(File) /\ lastAck \in [File -> Nat \cup {-1}]
    BY DEF ResumeInv, ReceiverOK, ReceiverTypeOK
  <1>7. rSaved' \in Seq(Nat)
    BY <1>6, ProgressType DEF ReceiverTakesStrayChunk, ResumeInv, ReceiverOK, ReceiverTypeOK
  <1>8. ReceiverOK'
    BY <1>7 DEF ReceiverTakesStrayChunk, ResumeInv, ReceiverOK, ReceiverTypeOK, StoreTypeOK,
                AssemblyTypeOK, storeVars, ManagerStates
  <1>9. UNCHANGED senderVars /\ Ended' /\ Counted'
    BY DEF ReceiverTakesStrayChunk, ResumeInv, Ended, Counted, senderVars, sProgress
  <1> QED  BY <1>5, <1>8, <1>9, ReceiverResumes

LEMMA ReloadsStep ==
  ASSUME ResumeInv, ReceiverReloads PROVE ResumeInv'
  <1>1. rSaved \in Seq(Nat)  BY DEF ResumeInv, ReceiverOK, ReceiverTypeOK
  <1>2. ASSUME NEW f \in File PROVE RestoredAck(f) \in Nat \cup {-1}
    <2>1. CASE f + 1 \in DOMAIN rSaved
      <3>1. rSaved[f + 1] \in Nat  BY <1>1, <2>1
      <3> QED  BY <2>1, <3>1 DEF RestoredAck
    <2> QED  BY <2>1 DEF RestoredAck
  <1>3. lastAck' \in [File -> Nat \cup {-1}] /\ <<>> \in Seq(File)
    BY <1>2 DEF ReceiverReloads
  <1>4. ReceiverOK'
    BY <1>3 DEF ReceiverReloads, ResumeInv, ReceiverOK, ReceiverTypeOK, StoreTypeOK,
                AssemblyTypeOK, storeVars, ManagerStates
  <1>5. Delivers  BY EmptyFacts DEF ReceiverReloads, ResumeInv, Mail, Delivers
  <1>6. UNCHANGED senderVars /\ Ended' /\ Counted'
    BY DEF ReceiverReloads, ResumeInv, Ended, Counted, senderVars, sProgress
  <1> QED  BY <1>4, <1>5, <1>6, ReceiverResumes

-----------------------------------------------------------------------------
(* The theorems *)

LEMMA UnchangedResumes == ASSUME ResumeInv, UNCHANGED resumeVars PROVE ResumeInv'
  <1>1. UNCHANGED <<senderVars, toReceiver, toSender, receiverVars, storeVars, calls, answered>>
    BY DEF resumeVars, vars
  <1>2. Delivers  BY <1>1, SameMail DEF ResumeInv
  <1>3. ReceiverOK' /\ Ended' /\ Counted'
    BY <1>1 DEF ResumeInv, ReceiverOK, ReceiverTypeOK, StoreTypeOK, AssemblyTypeOK, receiverVars,
                storeVars, Ended, Counted, senderVars, sProgress
  <1> QED  BY <1>1, <1>2, <1>3, ReceiverResumes

LEMMA ProtocolResumes == ASSUME ResumeInv, Protocol PROVE ResumeInv'
  <1>1. UNCHANGED <<calls, answered>> /\ Counted'  BY DEF Protocol, ResumeInv, Counted
  <1>2. CASE SenderStep
    BY <1>1, <1>2, SenderChannelOpensResumes, SenderHandlesAckResumes DEF SenderStep
  <1>3. CASE ReceiverHandlesHeader \/ ReceiverTakesChunk \/ ReceiverStoresChunk \/ ReceiverAcksChunk
    BY <1>1, <1>3, HeaderResumes, TakesChunkResumes, StoreResumes, AcksChunkResumes
  <1>4. CASE \/ ReceiverHandlesComplete \/ ReceiverReadsChunk \/ ReceiverDeletesChunk
             \/ ReceiverDeliversFile \/ ReceiverFinishes
    BY <1>1, <1>4, CompleteResumes, ReadsResumes, DeletesResumes, DeliversFileResumes,
       FinishesResumes
  <1>5. CASE Disturbance
    BY <1>1, <1>5, StoreResumes, ReadFailsResumes, SenderGoneResumes, ReceiverChannelResumes,
       ReceiverPageDiesResumes, MessageLostResumes DEF Disturbance
  <1> QED  BY <1>2, <1>3, <1>4, <1>5 DEF Protocol

LEMMA NextResumeInv == ResumeInv /\ [ResumeNext]_resumeVars => ResumeInv'
  <1> SUFFICES ASSUME ResumeInv, [ResumeNext]_resumeVars PROVE ResumeInv'  OBVIOUS
  <1> QED  BY ProtocolResumes, SenderCallsAgainStep, SenderHandlesResumeStep,
              ReceiverStartsResumes, RequestsResumeStep, StrayChunkStep, ReloadsStep,
              UnchangedResumes DEF ResumeNext

LEMMA ResumeInvariance == ResumeSpec => []ResumeInv
  BY InitResumeInv, NextResumeInv, PTL DEF ResumeSpec

\* However often the sender calls, the variables of both sides keep their types: no message
\* names a file that is not there, no reload restores a count that could not be
\* (PeerTransferManager.ts, loadState and the RESUME handler).
THEOREM ResumeTypesHold == ResumeSpec => []ResumeTypeOK
  <1>1. ResumeInv => ResumeTypeOK
    BY DEF ResumeInv, ReceiverOK, Mail, Counted, ResumeTypeOK, TypeOK
  <1> QED  BY <1>1, ResumeInvariance, PTL

\* Whatever channels replace each other, no file is handed over before the sender has
\* announced the last one (sendNextFileHeader and assembleFiles).
THEOREM NothingIsDeliveredEarly == ResumeSpec => []NothingDeliveredEarly
  <1>1. ResumeInv => NothingDeliveredEarly
    BY DEF ResumeInv, Ended, NothingDeliveredEarly
  <1> QED  BY <1>1, ResumeInvariance, PTL
=============================================================================
