----------------------------- MODULE RoundTrip -----------------------------
(***************************************************************************)
(* A file from the disk of its owner to the disk of a recipient: the upload *)
(* of BlockUpload, and after it the download of that file, alone or in one  *)
(* archive with another file of the transfer, as in Downloads.              *)
(*                                                                         *)
(* The transfer can be downloaded once its upload is done: its commit and   *)
(* who may download it are the matter of the module Transfers.              *)
(***************************************************************************)
EXTENDS BlockUpload

CONSTANTS Sent,     \* the uploaded file
          Other,    \* another file of the transfer, uploaded before
          Chunks    \* messages that the body of a block takes

ASSUME RoundTripAssumption ==
  Chunks \in Nat /\ Sent # Other /\ "none" \notin {Sent, Other}

VARIABLES page, wanted, queue, urls, job, left, port, buffer, held, entry, written,
          archive, event

downloadVars == <<page, wanted, queue, urls, job, left, port, buffer, held, entry, written,
                  archive, event>>

-----------------------------------------------------------------------------
(* What the download finds in the object store *)

SentBlocks == [b \in Block |-> [slice |-> object[b].slice, sound |-> Sound(b)]]

\* The other file has one block.
OtherSlice == <<0, MaxBlockSize>>
OtherBlocks == <<[slice |-> OtherSlice, sound |-> TRUE]>>

Files  == <<Other, Sent>>
Active == upload = "done"
Ready  == IF fileStatus = "UPLOADED" THEN {Sent, Other} ELSE {Other}
Blocks == [f \in {Sent, Other} |-> IF f = Sent THEN SentBlocks ELSE OtherBlocks]

D == INSTANCE Downloads WITH
       FileOrder <- Files,
       HighWater <- 1,
       active <- Active,
       ready  <- Ready,
       blocks <- Blocks

RoundTripInit == Init /\ D!DownloadInit

Upload   == Next /\ UNCHANGED downloadVars
Download == D!DownloadNext /\ UNCHANGED vars

RoundTripNext == Upload \/ Download

\* Every call is answered or fails in the end, and every message is taken in the end.
RoundTripSpec ==
  RoundTripInit /\ [][RoundTripNext]_<<vars, downloadVars>>
                /\ WF_<<vars, downloadVars>>(RoundTripNext)

-----------------------------------------------------------------------------
(* Properties *)

\* Every variable keeps its type.
RoundTripTypeOK == UploadTypeOK /\ D!DownloadTypeOK

\* The files as their owner has them: the slices of their blocks
Original ==
  [f \in {Sent, Other} |->
     IF f = Sent
     THEN [b \in Block |-> <<MaxBlockSize * (b - 1), IF b = NumBlocks THEN size ELSE MaxBlockSize * b>>]
     ELSE <<OtherSlice>>]

\* Every chunk of these slices, in their order, and nothing else
IsCopy(content, slices) ==
  /\ Len(content) = Chunks * Len(slices)
  /\ \A b \in DOMAIN slices, i \in 1..Chunks : content[Chunks * (b - 1) + i] = <<slices[b], i>>

\* What the worker decrypts has arrived from its first chunk to its last.
BlockReadWhole ==
  job.stage = "reading" /\ port = "closed" => held = [i \in 1..Chunks |-> i]

\* What is saved as finished, the file on disk or its entry in the archive, is the file
\* its owner had, from its first byte to its last: whatever the upload did with its
\* retries, and wherever the download was interrupted.
SavedIsOriginal ==
  \A f \in {Sent, Other} : entry[f] = "closed" => IsCopy(written[f], Original[f])

\* Nobody is told that a download is finished while a file of it is missing: it resolves
\* with all files that were asked for, and an archive that was closed without one of them
\* belongs to a download that failed.
ShortArchiveIsTold ==
  (page = "resolved" \/ (archive = "closed" /\ page # "failed")) =>
    \A f \in Range(wanted) : entry[f] = "closed"

\* The upload ends: every block is started, every part settles, every retry is counted.
\* A download ends, unless its connection breaks in the middle of a block.
RoundTripEnds ==
  /\ <>(upload \in {"done", "failed"})
  /\ page = "running" ~> (page \in {"resolved", "failed"} \/ port = "broken")
=============================================================================
