----------------------------- MODULE Downloads -----------------------------
(***************************************************************************)
(* A page downloads files of a transfer: it asks for a token and for the    *)
(* addresses of every file's blocks (useDownloader.ts), then takes the files *)
(* one at a time (DownloadManager.ts), each block by block: the body of the *)
(* answer goes through a message port to a worker, which decrypts it, and   *)
(* what it has decrypted comes back through another port and is written to  *)
(* the file or, when there are several, to its entry of one archive         *)
(* (Downloader.ts, StreamBridge.ts).                                        *)
(*                                                                         *)
(* What the server has is given from outside: whether the transfer can be   *)
(* downloaded, the files it calls UPLOADED and the objects of their blocks. *)
(***************************************************************************)
EXTENDS Naturals, SequencesExt

CONSTANTS FileOrder,    \* the files of the transfer, in the order the server lists them
          Chunks,       \* how many messages the body of a block takes
          HighWater     \* how many of them a stream holds before it stops asking

VARIABLES active,       \* the transfer can be downloaded
          ready,        \* the files that are UPLOADED
          blocks        \* blocks[f]: of each block of f, its slice of the file, and
                        \* whether its object is all of what was encrypted

VARIABLES
  page,       \* downloadFiles: "idle", "urls", "running", "resolved" or "failed"
  wanted,     \* filesToDownload
  queue,      \* the files of the manager that no job has taken
  urls,       \* the files whose addresses the page has got
  job,        \* the running job: its file, its stage and its block
  left,       \* the chunks that the writing side of the port still has
  port,       \* "idle", "asked", "closed", or "broken": no answer will come
  buffer,     \* the stream on the reading side
  held,       \* what the worker has read of the block
  entry,      \* the file on disk or in the archive: "none", "open", "closed", "broken"
  written,    \* what was written to it
  archive,    \* "none", "open", "closing", "closed" or "broken"
  event       \* the entry in the downloads drawer: "none", "shown", "error", "gone"

bridgeVars == <<left, port, buffer, held>>
diskVars == <<entry, written>>
downloadVars == <<page, wanted, queue, urls, job, bridgeVars, diskVars, archive, event>>

File == Range(FileOrder)
NoJob == [file |-> "none", stage |-> "none", block |-> 0]
InArchive == Len(wanted) > 1

-----------------------------------------------------------------------------
(* The page: downloadFiles *)

\* filesToDownload: one or more of the files, in the order in which the server lists them
Selections ==
  LET Increasing(n) ==
        {at \in [1..n -> DOMAIN FileOrder] : \A i, j \in 1..n : i < j => at[i] < at[j]}
  IN UNION {{[i \in 1..n |-> FileOrder[at[i]]] : at \in Increasing(n)} : n \in 1..Len(FileOrder)}

\* requestDownload, and the choice
RequestDownload(chosen) ==
  /\ page = "idle" /\ active
  /\ wanted' = chosen
  /\ page' = "urls" /\ event' = "shown"
  /\ UNCHANGED <<queue, urls, job, bridgeVars, diskVars, archive>>

\* The request fails: there is no event yet that could show it.
RequestFails ==
  /\ page = "idle"
  /\ page' = "failed"
  /\ UNCHANGED <<wanted, queue, urls, job, bridgeVars, diskVars, archive, event>>

StartJob(f) ==
  /\ job' = [file |-> f, stage |-> "key", block |-> 1]
  /\ entry' = [entry EXCEPT ![f] = "open"]

\* getFileDownloadUrls: the file must be UPLOADED and must have blocks.
Downloadable(f) == f \in ready /\ blocks[f] # <<>>

\* The addresses of the next file; with those of the last one, startAll begins.
GetUrls ==
  LET f == wanted[urls + 1] IN
  /\ page = "urls" /\ Downloadable(f)
  /\ urls' = urls + 1
  /\ IF urls' < Len(wanted)
     THEN queue' = Append(queue, f) /\ UNCHANGED <<page, job, entry, archive>>
     ELSE /\ page' = "running"
          /\ queue' = Tail(wanted)
          /\ archive' = IF InArchive THEN "open" ELSE "none"
          /\ StartJob(Head(wanted))
  /\ UNCHANGED <<wanted, bridgeVars, written, event>>

\* The file cannot be downloaded, the token has expired, or the call is lost: nothing
\* was started yet.
UrlsFail ==
  /\ page = "urls"
  /\ page' = "failed" /\ event' = "error"
  /\ UNCHANGED <<wanted, queue, urls, job, bridgeVars, diskVars, archive>>

\* Five seconds after the end
RemoveEvent ==
  /\ page \in {"resolved", "failed"} /\ event \in {"shown", "error"}
  /\ event' = "gone"
  /\ UNCHANGED <<page, wanted, queue, urls, job, bridgeVars, diskVars, archive>>

-----------------------------------------------------------------------------
(* The manager *)

\* Mutated form of JobDone: the archive is finished with the first file
JobDoneClosesArchive ==
  /\ IF queue # <<>>
     THEN queue' = Tail(queue) /\ job' = [NoJob EXCEPT !.file = Head(queue), !.stage = "key", !.block = 1]
     ELSE queue' = queue /\ job' = NoJob
  /\ archive' = IF InArchive THEN "closing" ELSE "none"
  /\ page' = IF queue = <<>> /\ ~InArchive THEN "resolved" ELSE page
  /\ entry' = [f \in File |-> IF f = job.file THEN "closed"
                              ELSE IF f = job'.file THEN "open" ELSE entry[f]]

\* The job has closed its file: next() takes another one, or ends.
JobDone ==
  /\ IF queue # <<>>
     THEN /\ queue' = Tail(queue)
          /\ job' = [NoJob EXCEPT !.file = Head(queue), !.stage = "key", !.block = 1]
          /\ UNCHANGED <<page, archive>>
     ELSE /\ queue' = queue /\ job' = NoJob
          /\ IF InArchive THEN archive' = "closing" /\ page' = page
             ELSE archive' = archive /\ page' = "resolved"
  /\ entry' = [f \in File |-> IF f = job.file THEN "closed"
                              ELSE IF f = job'.file THEN "open" ELSE entry[f]]

\* The job rejects: the others are never started, and an archive is closed at once.
JobFails(left_behind) ==
  /\ job' = NoJob /\ page' = "failed" /\ event' = "error"
  /\ entry' = [entry EXCEPT ![job.file] = left_behind]
  /\ archive' = IF ~InArchive THEN "none" ELSE IF left_behind = "broken" THEN "broken" ELSE "closing"
  /\ UNCHANGED <<wanted, queue, urls, written>>

\* ZipWriter.close waits for the entries that are still being added.
ArchiveCloses ==
  /\ archive = "closing" /\ \A f \in File : entry[f] # "open"
  /\ archive' = "closed" /\ page' = IF page = "running" THEN "resolved" ELSE page
  /\ UNCHANGED <<wanted, queue, urls, job, bridgeVars, diskVars, event>>

\* An archive that cannot be finished is logged, and the download resolves.
ArchiveBreaks ==
  /\ archive = "closing" /\ page = "running"
  /\ archive' = "broken" /\ page' = "resolved"
  /\ UNCHANGED <<wanted, queue, urls, job, bridgeVars, diskVars, event>>

-----------------------------------------------------------------------------
(* A job: downloadAndAssemble *)

At(stage) == job.stage = stage
Here == blocks[job.file][job.block]

DecryptKey ==
  /\ At("key")
  /\ job' = [job EXCEPT !.stage = "fetch"]
  /\ UNCHANGED <<page, wanted, queue, urls, bridgeVars, diskVars, archive, event>>

\* The body of the block's answer, behind a new port
Fetch ==
  /\ At("fetch")
  /\ job' = [job EXCEPT !.stage = "reading"]
  /\ left' = Chunks /\ port' = "idle" /\ buffer' = <<>> /\ held' = <<>>
  /\ UNCHANGED <<page, wanted, queue, urls, diskVars, archive, event>>

\* The key is the wrong one, or the block cannot be fetched: the sink is neither closed
\* nor aborted.
KeyOrFetchFails ==
  /\ At("key") \/ At("fetch")
  /\ JobFails("open")
  /\ UNCHANGED bridgeVars

\* All of the block is with the worker: it is decrypted, and goes back through a port.
Decrypt ==
  /\ At("reading") /\ port = "closed" /\ buffer = <<>>
  /\ held = [i \in 1..Chunks |-> i] /\ Here.sound
  /\ job' = [job EXCEPT !.stage = "piping"]
  /\ left' = Chunks /\ port' = "idle" /\ held' = <<>>
  /\ UNCHANGED <<page, wanted, queue, urls, buffer, diskVars, archive, event>>

\* What the worker has read is not what was encrypted.
DecryptFails ==
  /\ At("reading") /\ port = "closed" /\ buffer = <<>>
  /\ ~(held = [i \in 1..Chunks |-> i] /\ Here.sound)
  /\ JobFails("open")
  /\ UNCHANGED bridgeVars

\* Mutated form of BlockWritten: the last block is not waited for
BlockWrittenButLast ==
  /\ At("piping") /\ port = "closed" /\ buffer = <<>>
  /\ job' = IF job.block + 1 < Len(blocks[job.file])
            THEN [job EXCEPT !.stage = "fetch", !.block = @ + 1]
            ELSE [job EXCEPT !.stage = "closing"]
  /\ UNCHANGED <<page, wanted, queue, urls, bridgeVars, diskVars, archive, event>>

\* pipeTo has written the block: on to the next one, or to closing the file.
BlockWritten ==
  /\ At("piping") /\ port = "closed" /\ buffer = <<>>
  /\ job' = IF job.block < Len(blocks[job.file])
            THEN [job EXCEPT !.stage = "fetch", !.block = @ + 1]
            ELSE [job EXCEPT !.stage = "closing"]
  /\ UNCHANGED <<page, wanted, queue, urls, bridgeVars, diskVars, archive, event>>

CloseFile ==
  /\ At("closing")
  /\ JobDone
  /\ UNCHANGED <<wanted, urls, bridgeVars, written, event>>

\* The user cancels the save, or the disk is full: the write or the close rejects.
SinkFails ==
  /\ (At("piping") /\ buffer # <<>>) \/ At("closing")
  /\ JobFails("broken")
  /\ UNCHANGED bridgeVars

-----------------------------------------------------------------------------
(* A port: StreamBridge *)

Streaming == At("reading") \/ At("piping")

\* pull: the stream holds less than it may, and asks for a chunk.
Pull ==
  /\ Streaming /\ port = "idle" /\ Len(buffer) < HighWater
  /\ port' = "asked"
  /\ UNCHANGED <<page, wanted, queue, urls, job, left, buffer, held, diskVars, archive, event>>

\* The writing side answers with a chunk.
Answer ==
  /\ Streaming /\ port = "asked" /\ left > 0
  /\ port' = "idle" /\ left' = left - 1
  /\ buffer' = Append(buffer, Chunks - left + 1)
  /\ UNCHANGED <<page, wanted, queue, urls, job, held, diskVars, archive, event>>

\* The writing side answers that there is nothing more.  The reading side closes the stream
\* and then enqueues, which throws: nobody hears of it when the stream holds nothing and is
\* closed already; otherwise what it holds is thrown away, and who reads it gets an error.
AnswerDone ==
  /\ Streaming /\ port = "asked" /\ left = 0
  /\ IF buffer = <<>>
     THEN port' = "closed" /\ UNCHANGED <<page, wanted, queue, urls, job, diskVars, archive, event>>
     ELSE port' = "broken" /\ JobFails(IF At("reading") THEN "open" ELSE "broken")
  /\ buffer' = <<>>
  /\ UNCHANGED <<left, held>>

\* The connection breaks: the read rejects and no answer is posted.
BodyBreaks ==
  /\ At("reading") /\ port = "asked"
  /\ port' = "broken"
  /\ UNCHANGED <<page, wanted, queue, urls, job, left, buffer, held, diskVars, archive, event>>

\* The reading side takes a chunk: openpgp, or the sink.
Take ==
  /\ Streaming /\ buffer # <<>>
  /\ buffer' = Tail(buffer)
  /\ IF At("reading")
     THEN held' = Append(held, Head(buffer)) /\ UNCHANGED written
     ELSE /\ written' = [written EXCEPT ![job.file] = Append(@, <<Here.slice, Head(buffer)>>)]
          /\ UNCHANGED held
  /\ UNCHANGED <<page, wanted, queue, urls, job, left, port, entry, archive, event>>

-----------------------------------------------------------------------------
DownloadInit ==
  /\ page = "idle" /\ wanted = <<>> /\ queue = <<>> /\ urls = 0 /\ job = NoJob
  /\ left = 0 /\ port = "idle" /\ buffer = <<>> /\ held = <<>>
  /\ entry = [f \in File |-> "none"] /\ written = [f \in File |-> <<>>]
  /\ archive = "none" /\ event = "none"

DownloadNext ==
  \/ \E chosen \in Selections : RequestDownload(chosen)
  \/ RequestFails \/ GetUrls \/ UrlsFail \/ RemoveEvent
  \/ DecryptKey \/ Fetch \/ KeyOrFetchFails \/ Decrypt \/ DecryptFails
  \/ BlockWritten \/ CloseFile \/ SinkFails
  \/ Pull \/ Answer \/ AnswerDone \/ BodyBreaks \/ Take
  \/ ArchiveCloses \/ ArchiveBreaks

-----------------------------------------------------------------------------
(* Properties *)

\* Every variable keeps its type.
DownloadTypeOK ==
  /\ page \in {"idle", "urls", "running", "resolved", "failed"}
  /\ Range(queue) \subseteq Range(wanted) /\ Range(wanted) \subseteq File
  /\ urls \in 0..Len(wanted) /\ left \in 0..Chunks /\ Len(held) <= Chunks
  /\ job.stage \in {"none", "key", "fetch", "reading", "piping", "closing"}
  /\ port \in {"idle", "asked", "closed", "broken"} /\ Len(buffer) <= HighWater
  /\ entry \in [File -> {"none", "open", "closed", "broken"}]
  /\ archive \in {"none", "open", "closing", "closed", "broken"}
  /\ event \in {"none", "shown", "error", "gone"}
=============================================================================
