------------------------------ MODULE UploadPage ------------------------------
(***************************************************************************)
(* The pages that start an upload (DashboardView.tsx,                       *)
(* FileRequestDetails.tsx) and the store with its progress                  *)
(* (uploadStore.ts), of which a browser tab has one.  A page shows its form *)
(* again when the upload it has started ends, or when it is left and opened *)
(* anew; the upload goes on then (useInitiateTransfer.tsx).                 *)
(*                                                                         *)
(* An upload has one file, of blocks of one part each.  What the uploads do *)
(* on the server is the matter of BlockUpload and Transfers.                *)
(***************************************************************************)
EXTENDS Integers, FiniteSetsExt

CONSTANTS Run,        \* runs of transfer() in the tab
          Part,
          PartSize,
          NoRun,
          MaxTotal    \* bound on totalUploaded, which uploads at once may drive up for ever

ASSUME UploadPageAssumption ==
  /\ NoRun \notin Run /\ IsFiniteSet(Part)
  /\ PartSize \in Nat \ {0} /\ MaxTotal \in Nat

VARIABLES
  chosen,     \* the form has files
  watching,   \* the run whose end the page waits for, or NoRun
  run,        \* of each run, where it is
  part,       \* of each run and part: "waiting", "flying" or "uploaded"
  \* the store
  uploading,  \* its status is "uploading"
  total,      \* totalUploaded
  mapped,     \* progressMap has the file
  loaded,     \* its parts: bytes loaded, or Absent while the block is not there
  \* history
  latest,     \* the run that was started last
  alone       \* no other run had tasks left when it was

storeVars  == <<uploading, total, mapped, loaded>>
uploadPageVars == <<chosen, watching, run, part, storeVars, latest, alone>>

Absent == -1
TotalSize == PartSize * Cardinality(Part)
Loaded(p) == IF loaded[p] = Absent THEN 0 ELSE loaded[p]

-----------------------------------------------------------------------------
(* The form *)

\* handleFileChange, handleFileRemove
ChangeFiles ==
  /\ watching = NoRun
  /\ chosen' = ~chosen
  /\ UNCHANGED <<watching, run, part, storeVars, latest, alone>>

HasTasks(u) == run[u] \in {"initiating", "running", "rejected"}

\* handleSubmit, handleFulfill: initializeUpload refuses while the status is "uploading",
\* and transfer() goes on nevertheless.
Upload(u) ==
  /\ watching = NoRun /\ chosen /\ run[u] = "idle"
  /\ watching' = u /\ latest' = u
  /\ alone' = \A v \in Run : ~HasTasks(v)
  /\ run' = [run EXCEPT ![u] = "initiating"]
  /\ IF uploading
     THEN UNCHANGED storeVars
     ELSE /\ uploading' = TRUE /\ total' = 0
          /\ mapped' = FALSE /\ loaded' = [p \in Part |-> Absent]
  /\ UNCHANGED <<chosen, part>>

\* The page is left and opened anew.
LeaveForm ==
  /\ watching # NoRun
  /\ watching' = NoRun /\ chosen' = FALSE
  /\ UNCHANGED <<run, part, storeVars, latest, alone>>

-----------------------------------------------------------------------------
(* A run *)

\* initializeFileProgressMap, after the transfer is initiated
BeginFile(u) ==
  /\ run[u] = "initiating"
  /\ run' = [run EXCEPT ![u] = "running"]
  /\ mapped' = TRUE /\ loaded' = [p \in Part |-> Absent]
  /\ UNCHANGED <<chosen, watching, part, uploading, total, latest, alone>>

\* initializeBlockProgressMap
BeginBlock(u, p) ==
  /\ run[u] \in {"running", "rejected"} /\ part[u][p] = "waiting"
  /\ part' = [part EXCEPT ![u][p] = "flying"]
  /\ loaded' = IF mapped THEN [loaded EXCEPT ![p] = 0] ELSE loaded
  /\ UNCHANGED <<chosen, watching, run, uploading, total, mapped, latest, alone>>

\* Mutated form of SetPart: what was counted before is forgotten
SetPartAnew(p, n) ==
  /\ total' = total + n
  /\ total' <= MaxTotal
  /\ loaded' = IF loaded[p] = Absent THEN loaded ELSE [loaded EXCEPT ![p] = n]
  /\ UNCHANGED <<uploading, mapped>>

\* setPartProgress: less than before is ignored, since a part that failed starts again.
SetPart(p, n) ==
  IF n < Loaded(p) THEN UNCHANGED storeVars
  ELSE /\ total' = total + n - Loaded(p)
       /\ total' <= MaxTotal
       /\ loaded' = IF loaded[p] = Absent THEN loaded ELSE [loaded EXCEPT ![p] = n]
       /\ UNCHANGED <<uploading, mapped>>

Flying(u, p) == run[u] \in {"running", "rejected"} /\ part[u][p] = "flying"

Progress(u, p) ==
  /\ Flying(u, p)
  /\ \E n \in 0..PartSize : SetPart(p, n)
  /\ UNCHANGED <<chosen, watching, run, part, latest, alone>>

\* The last event of a part that arrives
PartUploaded(u, p) ==
  /\ Flying(u, p)
  /\ part' = [part EXCEPT ![u][p] = "uploaded"]
  /\ SetPart(p, PartSize)
  /\ UNCHANGED <<chosen, watching, run, latest, alone>>

Ends(u, how) ==
  /\ run' = [run EXCEPT ![u] = how]
  /\ uploading' = FALSE
  /\ watching' = IF watching = u THEN NoRun ELSE watching
  /\ UNCHANGED <<part, total, mapped, loaded, latest, alone>>

\* onSuccess
Succeeds(u) ==
  /\ run[u] = "running" /\ \A p \in Part : part[u][p] = "uploaded"
  /\ Ends(u, "done")
  /\ chosen' = IF watching = u THEN FALSE ELSE chosen

\* onError.  Its controller is that of the last rendering, so that tasks of the run go on.
Rejected(u) ==
  /\ run[u] \in {"initiating", "running"}
  /\ Ends(u, IF run[u] = "running" THEN "rejected" ELSE "over")
  /\ UNCHANGED chosen

Settles(u) ==
  /\ run[u] = "rejected"
  /\ run' = [run EXCEPT ![u] = "over"]
  /\ UNCHANGED <<chosen, watching, part, storeVars, latest, alone>>

-----------------------------------------------------------------------------
UploadPageInit ==
  /\ chosen = FALSE /\ watching = NoRun
  /\ run = [u \in Run |-> "idle"]
  /\ part = [u \in Run |-> [p \in Part |-> "waiting"]]
  /\ uploading = FALSE /\ total = 0 /\ mapped = FALSE /\ loaded = [p \in Part |-> Absent]
  /\ latest = NoRun /\ alone = TRUE

UploadPageNext ==
  \/ ChangeFiles \/ LeaveForm
  \/ \E u \in Run :
       \/ Upload(u) \/ BeginFile(u) \/ Succeeds(u) \/ Rejected(u) \/ Settles(u)
       \/ \E p \in Part : BeginBlock(u, p) \/ Progress(u, p) \/ PartUploaded(u, p)

-----------------------------------------------------------------------------
(* Properties *)

UploadPageTypeOK ==
  /\ {chosen, uploading, mapped, alone} \subseteq BOOLEAN
  /\ {watching, latest} \subseteq Run \cup {NoRun}
  /\ run \in [Run -> {"idle", "initiating", "running", "done", "rejected", "over"}]
  /\ part \in [Run -> [Part -> {"waiting", "flying", "uploaded"}]]
  /\ total \in 0..MaxTotal /\ loaded \in [Part -> Absent..PartSize]

\* As long as the uploads of a tab do not overlap, the bytes shown are those of the parts,
\* each counted once however often it is tried, and all of them when the upload is done.
ProgressIsTrue ==
  (alone /\ latest # NoRun) =>
    /\ total = MapThenSumSet(Loaded, Part) /\ total <= TotalSize
    /\ run[latest] = "done" => total = TotalSize
=============================================================================
