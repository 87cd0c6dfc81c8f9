---------------------------- MODULE BlockUpload ----------------------------
(***************************************************************************)
(* The upload of one encrypted file: the browser cuts it into blocks and   *)
(* runs a few of them at a time (useInitiateTransfer.tsx, concurrency.ts), *)
(* each block goes to the object store in parts, with retries of those that *)
(* failed (fileService.ts), and the server keeps the status of the blocks  *)
(* and of the file (file.controller.ts).                                   *)
(*                                                                         *)
(* Sizes are counted in units: a block of the file is encrypted into       *)
(* Overhead units more than it has, and its parts are laid out by the size  *)
(* it had.  Any call can be lost, before or after the server did its work, *)
(* and the server goes on with a call whose answer nobody waits for.       *)
(***************************************************************************)
EXTENDS Naturals, SequencesExt, BlockLayout

CONSTANTS Sizes,          \* the sizes a file may have
          MaxBlockSize,   \* MAX_BLOCK_SIZE
          MaxPartSize,    \* MAX_PART_SIZE
          Overhead,       \* what the encryption of a block adds to it
          Limit,          \* CONCURRENCY_LIMIT
          MaxRetries      \* MAX_UPLOAD_RETRIES

ASSUME UploadAssumption ==
  /\ Sizes \subseteq Nat /\ MaxRetries \in Nat
  /\ {MaxBlockSize, MaxPartSize, Overhead, Limit} \subseteq Nat \ {0}

VARIABLES
  size,         \* of the file
  \* the browser
  upload,       \* the mutation: "blocks", "done" or "failed"
  started,      \* currentIndex: the tasks started
  previousEnd,  \* where the next slice of the file begins
  stage,        \* of each block's task
  slice,        \* where each block's slice begins
  fate,         \* of each part that this try uploads: "flying", "ok" or "lost"
  retries,      \* retryCount of the block
  \* the server and the object store
  handler,      \* finalizeBlock: "no", "completing" or "recording"
  blockStatus, fileStatus,
  stored,       \* the part uploads: <<start, end>> in the encrypted block
  object        \* the finished object: its slice of the file and its parts

taskVars   == <<slice, fate, retries>>
serverVars == <<handler, blockStatus, fileStatus, stored, object>>
vars == <<size, upload, started, previousEnd, stage, taskVars, serverVars>>

NoPart == <<>>
NoSlice == <<0, 0>>

\* requestUpload: the blocks of the file
NumBlocks == Pieces(size, MaxBlockSize)
Block == 1..NumBlocks
BlockSize(b) == PieceSize(size, MaxBlockSize, b)

\* announceUpload: the parts of a block
Parts(b) == Pieces(BlockSize(b), MaxPartSize)
PartSize(b, k) == PieceSize(BlockSize(b), MaxPartSize, k)

Encrypted(b) == BlockSize(b) + Overhead

-----------------------------------------------------------------------------
(* Tasks: runInParallel *)

\* Mutated form of NextTask: no task beyond the first batch
NextTaskOfBatch == IF started < NumBlocks /\ started < Limit THEN {started + 1} ELSE {}

\* The task that the worker of a finished one goes on with
NextTask == IF started < NumBlocks THEN {started + 1} ELSE {}

\* Mutated form of SliceStart: the slice is cut when the blocks before are done
SliceStartOfDone == MaxBlockSize * Len(SelectSeq([b \in Block |-> stage[b]], LAMBDA s : s = "done"))

\* A task cuts its slice when it starts, before its first await.
SliceStart == previousEnd
SliceOf(b) == <<SliceStart, SliceStart + BlockSize(b)>>

\* Block b is done, its worker starts the next one.
Finishes(b) ==
  /\ stage' = [c \in Block |-> IF c = b THEN "done"
                               ELSE IF c \in NextTask THEN "announcing" ELSE stage[c]]
  /\ slice' = [c \in Block |-> IF c \in NextTask THEN SliceOf(c) ELSE slice[c]]
  /\ started' = IF NextTask = {} THEN started ELSE started + 1
  /\ previousEnd' = IF NextTask = {} THEN previousEnd ELSE SliceOf(started + 1)[2]
  /\ UNCHANGED <<size, upload, fate, retries>>

\* A rejected task ends its worker and, by Promise.all, the mutation; the other
\* workers go on.
Rejects(b) ==
  /\ stage' = [stage EXCEPT ![b] = "failed"]
  /\ upload' = "failed"
  /\ UNCHANGED <<size, started, previousEnd, taskVars>>

-----------------------------------------------------------------------------
(* A block: announceUpload, processBlockUpload, finalizeBlock *)

Announce(b) ==
  /\ stage[b] = "announcing" /\ blockStatus[b] = "PENDING"
  /\ blockStatus' = [blockStatus EXCEPT ![b] = "PROCESSING"]
  /\ stage' = [stage EXCEPT ![b] = "uploading"]
  /\ fate' = [fate EXCEPT ![b] = [k \in 1..Parts(b) |-> "flying"]]
  /\ UNCHANGED <<size, upload, started, previousEnd, slice, retries, handler, fileStatus, stored, object>>

\* The encryption or the call fails, before or after the server did its work.
AnnounceFails(b) ==
  /\ stage[b] = "announcing"
  /\ \/ UNCHANGED blockStatus
     \/ /\ blockStatus[b] = "PENDING"
        /\ blockStatus' = [blockStatus EXCEPT ![b] = "PROCESSING"]
  /\ Rejects(b)
  /\ UNCHANGED <<handler, fileStatus, stored, object>>

\* The parts of this try, in the order of their numbers
Todo(b) == DOMAIN fate[b]

\* The bytes sent for part k: previousEnd starts at 0 in each try, and the block's last
\* part goes to the end of the encrypted block.
CutBefore(b, k) == RunningSum([j \in Nat |-> IF j \in Todo(b) THEN PartSize(b, j) ELSE 0])[k - 1]
Chunk(b, k) ==
  <<CutBefore(b, k), IF k = Parts(b) THEN Encrypted(b) ELSE CutBefore(b, k) + PartSize(b, k)>>

\* The object store has part k; its answer may be lost.
PartArrives(b, k) ==
  /\ stage[b] = "uploading" /\ k \in Todo(b) /\ fate[b][k] = "flying"
  /\ stored' = [stored EXCEPT ![b][k] = Chunk(b, k)]
  /\ \E f \in {"ok", "lost"} : fate' = [fate EXCEPT ![b][k] = f]
  /\ UNCHANGED <<size, upload, started, previousEnd, stage, slice, retries, handler, blockStatus, fileStatus, object>>

PartLost(b, k) ==
  /\ stage[b] = "uploading" /\ k \in Todo(b) /\ fate[b][k] = "flying"
  /\ fate' = [fate EXCEPT ![b][k] = "lost"]
  /\ UNCHANGED <<size, upload, started, previousEnd, stage, slice, retries, serverVars>>

Settled(b) == stage[b] = "uploading" /\ \A k \in Todo(b) : fate[b][k] # "flying"

LostParts(b) == {k \in Todo(b) : fate[b][k] = "lost"}

\* Mutated form of Uploads: a try that settles ends the loop
UploadsOnce(b) ==
  /\ Settled(b)
  /\ stage' = [stage EXCEPT ![b] = "finalizing"]
  /\ UNCHANGED <<size, upload, started, previousEnd, taskVars, serverVars>>

\* Every part arrived
Uploads(b) ==
  /\ Settled(b) /\ LostParts(b) = {}
  /\ stage' = [stage EXCEPT ![b] = "finalizing"]
  /\ UNCHANGED <<size, upload, started, previousEnd, taskVars, serverVars>>

\* retryUpload: new addresses for the parts that failed
Retry(b) ==
  /\ Settled(b) /\ LostParts(b) # {} /\ retries[b] < MaxRetries /\ blockStatus[b] = "PROCESSING"
  /\ retries' = [retries EXCEPT ![b] = @ + 1]
  /\ fate' = [fate EXCEPT ![b] = [k \in LostParts(b) |-> "flying"]]
  /\ UNCHANGED <<size, upload, started, previousEnd, stage, slice, serverVars>>

\* No retry is left, or the call for one fails.
GivesUp(b) ==
  /\ Settled(b) /\ LostParts(b) # {}
  /\ Rejects(b)
  /\ UNCHANGED serverVars

\* finalizeBlock, up to the call to the object store
FinalizeBlock(b) ==
  /\ stage[b] = "finalizing" /\ handler[b] = "no" /\ blockStatus[b] = "PROCESSING"
  /\ handler' = [handler EXCEPT ![b] = "completing"]
  /\ UNCHANGED <<size, upload, started, previousEnd, stage, taskVars, blockStatus, fileStatus, stored, object>>

\* The call to finalizeBlock fails for the browser, whatever the server does.
FinalizeFails(b) ==
  /\ stage[b] = "finalizing"
  /\ Rejects(b)
  /\ UNCHANGED serverVars

\* The object as the object store puts it together
Assembled(b) == [slice |-> slice[b], parts |-> stored[b]]

CompleteObject(b) ==
  /\ handler[b] = "completing"
  /\ object' = [object EXCEPT ![b] = Assembled(b)]
  /\ handler' = [handler EXCEPT ![b] = "recording"]
  /\ UNCHANGED <<size, upload, started, previousEnd, stage, taskVars, blockStatus, fileStatus, stored>>

\* completeMultiPartUpload throws, perhaps after its work: the block is FAILED, unless
\* that update fails as well, and so is the call.
CompleteFails(b) ==
  /\ handler[b] = "completing"
  /\ handler' = [handler EXCEPT ![b] = "no"]
  /\ \E o \in {object[b], Assembled(b)} : object' = [object EXCEPT ![b] = o]
  /\ \E s \in {blockStatus[b], "FAILED"} : blockStatus' = [blockStatus EXCEPT ![b] = s]
  /\ IF stage[b] = "finalizing" THEN Rejects(b)
     ELSE UNCHANGED <<size, upload, started, previousEnd, stage, taskVars>>
  /\ UNCHANGED <<fileStatus, stored>>

\* The block is UPLOADED.
RecordBlock(b) ==
  /\ handler[b] = "recording"
  /\ handler' = [handler EXCEPT ![b] = "no"]
  /\ blockStatus' = [blockStatus EXCEPT ![b] = "UPLOADED"]
  /\ IF stage[b] = "finalizing" THEN Finishes(b)
     ELSE UNCHANGED <<size, upload, started, previousEnd, stage, taskVars>>
  /\ UNCHANGED <<fileStatus, stored, object>>

RecordFails(b) ==
  /\ handler[b] = "recording"
  /\ handler' = [handler EXCEPT ![b] = "no"]
  /\ IF stage[b] = "finalizing" THEN Rejects(b)
     ELSE UNCHANGED <<size, upload, started, previousEnd, stage, taskVars>>
  /\ UNCHANGED <<blockStatus, fileStatus, stored, object>>

-----------------------------------------------------------------------------
(* The file *)

AllDone == \A b \in Block : stage[b] = "done"

\* finalizeFile, one transaction
FinalizeFile ==
  /\ upload = "blocks" /\ AllDone
  /\ IF \A b \in Block : blockStatus[b] = "UPLOADED"
     THEN fileStatus' = "UPLOADED" /\ upload' = "done"
     ELSE fileStatus' = fileStatus /\ upload' = "failed"
  /\ UNCHANGED <<size, started, previousEnd, stage, taskVars, handler, blockStatus, stored, object>>

\* The call fails, before or after the transaction.
FinalizeFileFails ==
  /\ upload = "blocks" /\ AllDone
  /\ upload' = "failed"
  /\ \/ UNCHANGED fileStatus
     \/ /\ \A b \in Block : blockStatus[b] = "UPLOADED"
        /\ fileStatus' = "UPLOADED"
  /\ UNCHANGED <<size, started, previousEnd, stage, taskVars, handler, blockStatus, stored, object>>

-----------------------------------------------------------------------------
FirstBatch == IF Limit < NumBlocks THEN Limit ELSE NumBlocks

\* The slices of the first batch, cut one after the other
FirstSlice(b) == <<SizeUpTo(size, MaxBlockSize, b - 1), SizeUpTo(size, MaxBlockSize, b)>>

Init ==
  /\ size \in Sizes
  /\ upload = "blocks" /\ started = FirstBatch
  /\ previousEnd = SizeUpTo(size, MaxBlockSize, FirstBatch)
  /\ stage = [b \in Block |-> IF b <= FirstBatch THEN "announcing" ELSE "waiting"]
  /\ slice = [b \in Block |-> IF b <= FirstBatch THEN FirstSlice(b) ELSE NoSlice]
  /\ fate = [b \in Block |-> <<>>] /\ retries = [b \in Block |-> 0]
  /\ handler = [b \in Block |-> "no"]
  /\ blockStatus = [b \in Block |-> "PENDING"] /\ fileStatus = "PENDING"
  /\ stored = [b \in Block |-> [i \in 1..Parts(b) |-> NoPart]]
  /\ object = [b \in Block |-> [slice |-> NoSlice, parts |-> <<>>]]

Step(b) ==
  \/ Announce(b) \/ AnnounceFails(b)
  \/ \E k \in 1..Parts(b) : PartArrives(b, k) \/ PartLost(b, k)
  \/ Uploads(b) \/ Retry(b) \/ GivesUp(b)
  \/ FinalizeBlock(b) \/ FinalizeFails(b)
  \/ CompleteObject(b) \/ CompleteFails(b) \/ RecordBlock(b) \/ RecordFails(b)

Next == (\E b \in Block : Step(b)) \/ FinalizeFile \/ FinalizeFileFails

Spec == Init /\ [][Next]_vars

\* Every call is answered or fails in the end, and every handler ends.
FairSpec == Spec /\ WF_vars(Next)

-----------------------------------------------------------------------------
(* Properties *)

PartRanges(b) == {NoPart} \cup ((0..Encrypted(b)) \X (0..Encrypted(b)))

\* Every variable keeps its type.
UploadTypeOK ==
  /\ upload \in {"blocks", "done", "failed"} /\ fileStatus \in {"PENDING", "UPLOADED"}
  /\ size \in Sizes /\ started \in 0..NumBlocks /\ previousEnd \in 0..size
  /\ stage \in [Block -> {"waiting", "announcing", "uploading", "finalizing", "done", "failed"}]
  /\ slice \in [Block -> (0..size) \X (0..size)] /\ retries \in [Block -> 0..MaxRetries]
  /\ handler \in [Block -> {"no", "completing", "recording"}]
  /\ blockStatus \in [Block -> {"PENDING", "PROCESSING", "UPLOADED", "FAILED"}]
  /\ {DOMAIN fate, DOMAIN stored, DOMAIN object} = {Block}
  /\ \A b \in Block :
       /\ fate[b] \in [Todo(b) -> {"flying", "ok", "lost"}] /\ Todo(b) \subseteq 1..Parts(b)
       /\ stored[b] \in [1..Parts(b) -> PartRanges(b)]

\* The object of block b holds all of the encrypted block, from its first byte to its
\* last, in order.
Sound(b) ==
  LET parts == object[b].parts IN
  /\ parts # <<>> /\ NoPart \notin Range(parts)
  /\ parts[1][1] = 0 /\ parts[Len(parts)][2] = Encrypted(b)
  /\ \A i \in 1..(Len(parts) - 1) : parts[i][2] = parts[i + 1][1]

\* ... and the block is the one that the index says, from its first byte to its last:
\* the slices of the blocks cover the file.
Intact(b) ==
  /\ Sound(b)
  /\ object[b].slice[1] = MaxBlockSize * (b - 1)
  /\ object[b].slice[2] = (IF b = NumBlocks THEN size ELSE MaxBlockSize * b)

\* However the blocks and the parts overtake each other, and whichever blocks failed
\* before, a block whose parts went through without a retry is stored intact.
FirstTryIntact ==
  \A b \in Block : (object[b].parts # <<>> /\ retries[b] = 0) => Intact(b)

\* The server counts a block as uploaded only when its object is there with all of its
\* parts, and a file only when all of its blocks are: also when the browser has given up
\* on the call, and when the answer was lost.
RecordedIsStored ==
  /\ \A b \in Block : blockStatus[b] = "UPLOADED" =>
       DOMAIN object[b].parts = 1..Parts(b) /\ NoPart \notin Range(object[b].parts)
  /\ fileStatus = "UPLOADED" => \A b \in Block : blockStatus[b] = "UPLOADED"

\* A file that is UPLOADED is the file, as the end-to-end tests have it ("the raw bytes
\* match perfectly").  The code does not have this: a retry cuts the parts that
\* failed from the start of the block.
UploadedIntact == fileStatus = "UPLOADED" => \A b \in Block : Intact(b)
=============================================================================
