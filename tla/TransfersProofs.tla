-------------------------- MODULE TransfersProofs --------------------------
(***************************************************************************)
(* Proofs about Transfers, for any number of tabs, recipients and files:   *)
(* what an ACTIVE transfer and a FULFILLED request promise.  The inductive *)
(* invariant IInv follows the files of a tab along its run (FilesFit),     *)
(* says who can have committed a transfer of his own (OwnCommits) and the  *)
(* transfer of a request (SharedCommits), what a request or a handler can  *)
(* be linked to (Linked, Aimed), and what a page can show (Fulfilled).     *)
(***************************************************************************)
EXTENDS Transfers, TLAPS

Early(t) == step[t] \in {"unused", "idle", "creating"}

\* The files of a tab, by how far its run has come
FilesFit ==
  \A t \in Tab :
    /\ Early(t) => files[t] = <<>> /\ status[t] = "none"
    /\ step[t] \in {"ready", "adding", "sealed", "counting", "committing", "done"} => Uploaded(t)
    /\ step[t] = "adding" => Len(files[t]) < NumFiles
    /\ step[t] = "uploading" =>
         Len(files[t]) > 0 /\ \A i \in 1 .. Len(files[t]) - 1 : files[t][i] = "UPLOADED"
    /\ step[t] \in {"sealed", "counting", "committing", "done"} => Len(files[t]) = NumFiles

\* A transfer that is not for the request is committed by its own tab.
OwnCommits ==
  \A t \in Tab : (Kind[t] # "request" /\ status[t] = "ACTIVE") => step[t] = "done" /\ KeysOpen(t)

\* The request and the handlers that commit it know transfers made for it.
Linked(u) == u \in Tab => Kind[u] = "request" /\ ~ Early(u)
Aimed ==
  /\ Linked(request.transfer)
  /\ \A t \in Tab :
       /\ Linked(target[t]) /\ (step[t] = "creating" => Kind[t] = "request")
       /\ (Kind[t] = "request" /\ step[t] \in {"counting", "committing"})
            => target[t] # None /\ request.transfer # None

\* A transfer for the request has keys, and if one tab alone fulfils it, its own.
SharedCommits ==
  \A t \in Tab : (Kind[t] = "request" /\ status[t] = "ACTIVE") =>
    /\ ownerKey[t] # None /\ recipientKey[t] # None
    /\ OneFulfiller => step[t] = "done" /\ KeysOpen(t)

Seen == {request} \cup ({shown[p] : p \in Tab \cup {List}} \ {None})
Fulfilled ==
  \A r \in Seen : (r.fulfilled /\ OneFulfiller) =>
    r.transfer \in Tab /\ Kind[r.transfer] = "request" /\ status[r.transfer] = "ACTIVE"

IInv ==
  /\ TransfersTypeOK
  /\ FilesFit /\ OwnCommits /\ Aimed /\ SharedCommits /\ Fulfilled

-----------------------------------------------------------------------------
(* A step *)

\* Steps beside the runs of transfer()
Aside ==
  \/ CreatesRequest \/ Lists \/ \E p \in Person : Registers(p)
  \/ \E t \in Tab : Shows(t) \/ Expires(t)
  \/ UNCHANGED vars

Begins(t) == Initiate(t) \/ ChecksRequest(t)

Proceeds(t) ==
  \/ CreatesFulfillment(t) \/ ChecksTransfer(t) \/ AddsFile(t) \/ FinalizesFile(t)
  \/ SealsKeys(t) \/ CommitsEmail(t) \/ ChecksLink(t) \/ CommitsLink(t)
  \/ ChecksFulfillment(t) \/ CountsFiles(t) \/ CommitsFulfillment(t) \/ Fails(t)

LEMMA Steps ==
  ASSUME [Next]_vars
  PROVE  Aside \/ \E t \in Tab : Begins(t) \/ Proceeds(t)
BY DEF Next, TabStep, Aside, Begins, Proceeds

\* What the steps aside leave alone
LEMMA AsideLeaves ==
  ASSUME Aside
  PROVE  UNCHANGED <<step, target, status, files, ownerKey, recipientKey, request, sealed, rows, keyed>>
BY DEF Aside, vars, CreatesRequest, Lists, Registers, Shows, Expires, keyVars, emailVars, pageVars

\* A run of transfer() does not go back: what has begun does not become idle again, what is
\* done stays done, and a request that two tabs have begun to fulfil stays so.
LEMMA NoWayBack ==
  ASSUME TransfersTypeOK, [Next]_vars
  PROVE  /\ \A t \in Tab : ~ Early(t) => ~ Early(t)'
         /\ \A t \in Tab : step[t] \notin {"unused", "idle"} => step'[t] \notin {"unused", "idle"}
         /\ \A t \in Tab : step[t] = "done" => step'[t] = "done"
         /\ OneFulfiller' => OneFulfiller
<1> USE DEF Early, Goes, TransfersTypeOK
<1> DEFINE Later == {"ready", "adding", "uploading", "sealed", "counting", "committing", "done", "failed"}
<1>1. /\ \A t \in Tab : ~ Early(t) => ~ Early(t)'
      /\ \A t \in Tab : step[t] \notin {"unused", "idle"} => step'[t] \notin {"unused", "idle"}
      /\ \A t \in Tab : step[t] = "done" => step'[t] = "done"
  <2>1. CASE Aside
    BY <2>1, AsideLeaves
  <2>2. ASSUME NEW t \in Tab, Begins(t)
        PROVE  step[t] = "idle" /\ \E s \in {"creating", "ready"} : Goes(t, s)
    BY <2>2 DEF Begins, Initiate, ChecksRequest
  <2>3. ASSUME NEW t \in Tab, Proceeds(t)
        PROVE  step[t] \notin {"unused", "idle", "done"} /\ \E s \in Later : Goes(t, s)
    BY <2>3 DEF Proceeds, CreatesFulfillment, ChecksTransfer, AddsFile, FinalizesFile,
       SealsKeys, CommitsEmail,
       ChecksLink, CommitsLink, ChecksFulfillment, CountsFiles, CommitsFulfillment, Fails, Filled
  <2> QED BY <2>1, <2>2, <2>3, Steps
<1>2. OneFulfiller' => OneFulfiller
  BY <1>1 DEF OneFulfiller
<1> QED BY <1>1, <1>2

-----------------------------------------------------------------------------
(* The parts of the invariant, each preserved by every step *)

\* Every variable keeps its type.
LEMMA Typing ==
  ASSUME TransfersTypeOK, FilesFit, [Next]_vars
  PROVE  TransfersTypeOK'
<1> USE TransfersAssumption DEF TransfersTypeOK, Goes, keyVars, pageVars, emailVars
<1>1. CASE UNCHANGED vars
  BY <1>1 DEF vars
<1>2. CASE CreatesRequest
  BY <1>2 DEF CreatesRequest
<1>3. CASE Lists
  BY <1>3 DEF Lists
<1>4. ASSUME NEW p \in Person, Registers(p)  PROVE TransfersTypeOK'
  BY <1>4 DEF Registers
<1>5. ASSUME NEW t \in Tab, Shows(t)  PROVE TransfersTypeOK'
  BY <1>5 DEF Shows
<1>6. ASSUME NEW t \in Tab, Initiate(t)  PROVE TransfersTypeOK'
  BY <1>6 DEF Initiate
<1>7. ASSUME NEW t \in Tab, ChecksRequest(t)  PROVE TransfersTypeOK'
  BY <1>7 DEF ChecksRequest
<1>8. ASSUME NEW t \in Tab, CreatesFulfillment(t)  PROVE TransfersTypeOK'
  BY <1>8 DEF CreatesFulfillment
<1>9. ASSUME NEW t \in Tab, ChecksTransfer(t)  PROVE TransfersTypeOK'
  BY <1>9 DEF ChecksTransfer
<1>10. ASSUME NEW t \in Tab, AddsFile(t)  PROVE TransfersTypeOK'
  <2>1. Append(files[t], "PENDING") \in Seq({"PENDING", "UPLOADED"})
        /\ Len(Append(files[t], "PENDING")) = Len(files[t]) + 1
    OBVIOUS
  <2>2. files' \in [Tab -> Seq({"PENDING", "UPLOADED"})] /\ \A u \in Tab : Len(files'[u]) <= NumFiles
    BY <1>10, <2>1 DEF AddsFile, FilesFit
  <2> QED BY <1>10, <2>2 DEF AddsFile
<1>11. ASSUME NEW t \in Tab, FinalizesFile(t)  PROVE TransfersTypeOK'
  <2> DEFINE fs == [files[t] EXCEPT ![Len(files[t])] = "UPLOADED"]
  <2>1. fs \in Seq({"PENDING", "UPLOADED"}) /\ Len(fs) = Len(files[t])
    <3>1. files[t] \in [1 .. Len(files[t]) -> {"PENDING", "UPLOADED"}] /\ Len(files[t]) \in Nat
      OBVIOUS
    <3>2. fs \in [1 .. Len(files[t]) -> {"PENDING", "UPLOADED"}]
      BY <3>1
    <3> QED BY <3>1, <3>2
  <2>2. files' = [files EXCEPT ![t] = fs]
    BY <1>11 DEF FinalizesFile
  <2>3. files' \in [Tab -> Seq({"PENDING", "UPLOADED"})] /\ \A u \in Tab : Len(files'[u]) <= NumFiles
    <3> HIDE DEF fs
    <3> QED BY <2>1, <2>2
  <2> QED BY <1>11, <2>3 DEF FinalizesFile
<1>12. ASSUME NEW t \in Tab, SealsKeys(t)  PROVE TransfersTypeOK'
  BY <1>12 DEF SealsKeys, Filled, Addressed
<1>13. ASSUME NEW t \in Tab, CommitsEmail(t)  PROVE TransfersTypeOK'
  BY <1>13 DEF CommitsEmail
<1>14. ASSUME NEW t \in Tab, ChecksLink(t)  PROVE TransfersTypeOK'
  BY <1>14 DEF ChecksLink
<1>15. ASSUME NEW t \in Tab, CommitsLink(t)  PROVE TransfersTypeOK'
  BY <1>15 DEF CommitsLink
<1>16. ASSUME NEW t \in Tab, ChecksFulfillment(t)  PROVE TransfersTypeOK'
  BY <1>16 DEF ChecksFulfillment
<1>17. ASSUME NEW t \in Tab, CountsFiles(t)  PROVE TransfersTypeOK'
  BY <1>17 DEF CountsFiles
<1>18. ASSUME NEW t \in Tab, CommitsFulfillment(t)  PROVE TransfersTypeOK'
  BY <1>18 DEF CommitsFulfillment
<1>19. ASSUME NEW t \in Tab, Fails(t)  PROVE TransfersTypeOK'
  BY <1>19 DEF Fails
<1>20. ASSUME NEW t \in Tab, Expires(t)  PROVE TransfersTypeOK'
  BY <1>20 DEF Expires
<1> QED
  BY <1>1, <1>2, <1>3, <1>4, <1>5, <1>6, <1>7, <1>8, <1>9, <1>10, <1>11, <1>12, <1>13, <1>14,
     <1>15, <1>16, <1>17, <1>18, <1>19, <1>20, Steps DEF Aside, Begins, Proceeds

\* The files of a tab keep to its run.
LEMMA FilesFollow ==
  ASSUME TransfersTypeOK, FilesFit, Aimed, [Next]_vars
  PROVE  FilesFit'
<1> USE DEF TransfersTypeOK, FilesFit, Goes, Early, Uploaded
<1>1. CASE Aside
  BY <1>1, AsideLeaves
<1>2. ASSUME NEW t \in Tab, Begins(t)  PROVE FilesFit'
  BY <1>2 DEF Begins, Initiate, ChecksRequest
<1>3. ASSUME NEW t \in Tab, CreatesFulfillment(t)  PROVE FilesFit'
  BY <1>3 DEF CreatesFulfillment
<1>4. ASSUME NEW t \in Tab, ChecksTransfer(t)  PROVE FilesFit'
  BY <1>4 DEF ChecksTransfer
<1>5. ASSUME NEW t \in Tab, AddsFile(t)  PROVE FilesFit'
  <2> DEFINE fs == Append(files[t], "PENDING")
  <2>1. Len(fs) > 0 /\ \A i \in 1 .. Len(fs) - 1 : fs[i] = "UPLOADED"
    BY <1>5 DEF AddsFile
  <2>2. files' = [files EXCEPT ![t] = fs] /\ step' = [step EXCEPT ![t] = "uploading"] /\ status' = status
    BY <1>5 DEF AddsFile
  <2> HIDE DEF fs
  <2> QED BY <2>1, <2>2
<1>6. ASSUME NEW t \in Tab, FinalizesFile(t)  PROVE FilesFit'
  <2> DEFINE fs == [files[t] EXCEPT ![Len(files[t])] = "UPLOADED"]
  <2>1. \A i \in DOMAIN fs : fs[i] = "UPLOADED"
    BY <1>6 DEF FinalizesFile
  <2>2. files' = [files EXCEPT ![t] = fs] /\ step' = [step EXCEPT ![t] = "ready"] /\ status' = status
    BY <1>6 DEF FinalizesFile
  <2> HIDE DEF fs
  <2> QED BY <2>1, <2>2
<1>7. ASSUME NEW t \in Tab, SealsKeys(t)  PROVE FilesFit'
  BY <1>7 DEF SealsKeys, Filled
<1>8. ASSUME NEW t \in Tab, CommitsEmail(t) \/ ChecksLink(t) \/ CommitsLink(t)  PROVE FilesFit'
  BY <1>8 DEF CommitsEmail, ChecksLink, CommitsLink
<1>9. ASSUME NEW t \in Tab, ChecksFulfillment(t) \/ CountsFiles(t)  PROVE FilesFit'
  BY <1>9 DEF ChecksFulfillment, CountsFiles
<1>10. ASSUME NEW t \in Tab, CommitsFulfillment(t)  PROVE FilesFit'
  BY <1>10 DEF CommitsFulfillment, Aimed, Linked
<1>11. ASSUME NEW t \in Tab, Fails(t)  PROVE FilesFit'
  BY <1>11 DEF Fails
<1> QED BY <1>1, <1>2, <1>3, <1>4, <1>5, <1>6, <1>7, <1>8, <1>9, <1>10, <1>11, Steps DEF Proceeds

\* A transfer of one's own is committed by its own tab, and stays as it was committed.
LEMMA OwnersCommit ==
  ASSUME TransfersTypeOK, FilesFit, OwnCommits, Aimed, [Next]_vars
  PROVE  OwnCommits'
<1> USE DEF TransfersTypeOK, OwnCommits, KeysOpen, Goes
<1>1. CASE Aside
  BY <1>1, AsideLeaves
<1>2. ASSUME NEW t \in Tab, Begins(t)  PROVE OwnCommits'
  BY <1>2 DEF Begins, Initiate, ChecksRequest, keyVars, emailVars
<1>3. ASSUME NEW t \in Tab, CreatesFulfillment(t)  PROVE OwnCommits'
  BY <1>3 DEF CreatesFulfillment, keyVars, emailVars
<1>4. ASSUME NEW t \in Tab, ChecksTransfer(t) \/ AddsFile(t) \/ FinalizesFile(t)  PROVE OwnCommits'
  BY <1>4 DEF ChecksTransfer, AddsFile, FinalizesFile, keyVars, emailVars
<1>5. ASSUME NEW t \in Tab, SealsKeys(t)  PROVE OwnCommits'
  BY <1>5 DEF SealsKeys, Filled, keyVars
<1>6. ASSUME NEW t \in Tab, CommitsEmail(t)  PROVE OwnCommits'
  BY <1>6 DEF CommitsEmail
<1>7. ASSUME NEW t \in Tab, ChecksLink(t) \/ CommitsLink(t)  PROVE OwnCommits'
  BY <1>7 DEF ChecksLink, CommitsLink, keyVars, emailVars
<1>8. ASSUME NEW t \in Tab, ChecksFulfillment(t) \/ CountsFiles(t)  PROVE OwnCommits'
  BY <1>8 DEF ChecksFulfillment, CountsFiles, keyVars, emailVars
<1>9. ASSUME NEW t \in Tab, CommitsFulfillment(t)  PROVE OwnCommits'
  BY <1>9 DEF CommitsFulfillment, Aimed, Linked, emailVars
<1>10. ASSUME NEW t \in Tab, Fails(t)  PROVE OwnCommits'
  BY <1>10 DEF Fails, keyVars, emailVars
<1> QED BY <1>1, <1>2, <1>3, <1>4, <1>5, <1>6, <1>7, <1>8, <1>9, <1>10, Steps DEF Proceeds

\* A handler that has read a transfer for the request has read one that is under way.
LEMMA AimStays ==
  ASSUME TransfersTypeOK, Aimed, [Next]_vars
  PROVE  Aimed'
<1> USE DEF Aimed, Linked
<1>1. /\ step \in [Tab -> {"unused", "idle", "creating", "ready", "adding", "uploading", "sealed", "counting",
                           "committing", "done", "failed"}]
      /\ target \in [Tab -> Tab \cup {None}] /\ None \notin Tab
      /\ request \in [transfer : Tab \cup {None}, fulfilled : BOOLEAN]
  BY TransfersAssumption DEF TransfersTypeOK
<1>2. \A u : Linked(u) => Linked(u)'
  BY NoWayBack
<1>3. CASE Aside
  BY <1>3, AsideLeaves DEF Early
<1>4. ASSUME NEW t \in Tab, Begins(t)  PROVE Aimed'
  BY <1>1, <1>2, <1>4 DEF Begins, Initiate, ChecksRequest, Goes
<1>5. ASSUME NEW t \in Tab, CreatesFulfillment(t)  PROVE Aimed'
  <2>1. request'.transfer = t /\ Linked(t)' /\ t # None
    BY <1>1, <1>5 DEF CreatesFulfillment, Goes, Early
  <2>2. UNCHANGED target /\ step' = [step EXCEPT ![t] = "ready"]
    BY <1>5 DEF CreatesFulfillment, Goes
  <2> QED BY <1>1, <1>2, <2>1, <2>2
<1>6. ASSUME NEW t \in Tab, ChecksTransfer(t) \/ AddsFile(t) \/ FinalizesFile(t)  PROVE Aimed'
  BY <1>1, <1>2, <1>6 DEF ChecksTransfer, AddsFile, FinalizesFile, Goes
<1>7. ASSUME NEW t \in Tab, SealsKeys(t) \/ CommitsEmail(t) \/ ChecksLink(t) \/ CommitsLink(t)  PROVE Aimed'
  BY <1>1, <1>2, <1>7 DEF SealsKeys, CommitsEmail, ChecksLink, CommitsLink, Goes
<1>8. ASSUME NEW t \in Tab, ChecksFulfillment(t)  PROVE Aimed'
  BY <1>1, <1>2, <1>8 DEF ChecksFulfillment, Goes
<1>9. ASSUME NEW t \in Tab, CountsFiles(t)  PROVE Aimed'
  BY <1>1, <1>2, <1>9 DEF CountsFiles, Goes
<1>10. ASSUME NEW t \in Tab, CommitsFulfillment(t)  PROVE Aimed'
  BY <1>1, <1>2, <1>10 DEF CommitsFulfillment, Goes
<1>11. ASSUME NEW t \in Tab, Fails(t)  PROVE Aimed'
  BY <1>1, <1>2, <1>11 DEF Fails, Goes
<1> QED BY <1>3, <1>4, <1>5, <1>6, <1>7, <1>8, <1>9, <1>10, <1>11, Steps DEF Proceeds

\* The transfer of a request is committed by the tab that made it, if that is the only one.
LEMMA FulfillersCommit ==
  ASSUME TransfersTypeOK, FilesFit, Aimed, SharedCommits, [Next]_vars
  PROVE  SharedCommits'
<1> USE DEF SharedCommits, KeysOpen
<1>1. /\ step \in [Tab -> {"unused", "idle", "creating", "ready", "adding", "uploading", "sealed", "counting",
                           "committing", "done", "failed"}]
      /\ target \in [Tab -> Tab \cup {None}] /\ None \notin Tab
      /\ status \in [Tab -> {"none", "PENDING", "ACTIVE"}]
      /\ ownerKey \in [Tab -> Tab \cup {None}] /\ recipientKey \in [Tab -> Tab \cup {None}]
  BY TransfersAssumption DEF TransfersTypeOK
<1>2. /\ \A t \in Tab : step[t] = "done" => step'[t] = "done"
      /\ OneFulfiller' => OneFulfiller
  BY NoWayBack
<1>3. CASE UNCHANGED <<status, ownerKey, recipientKey>>
  BY <1>1, <1>2, <1>3
<1>4. CASE Aside
  BY <1>3, <1>4, AsideLeaves
<1>5. ASSUME NEW t \in Tab, Begins(t)  PROVE SharedCommits'
  BY <1>1, <1>2, <1>5 DEF Begins, Initiate, ChecksRequest, keyVars
<1>6. ASSUME NEW t \in Tab, CreatesFulfillment(t)  PROVE SharedCommits'
  BY <1>1, <1>2, <1>6 DEF CreatesFulfillment, keyVars
<1>7. ASSUME NEW t \in Tab, CommitsEmail(t)  PROVE SharedCommits'
  BY <1>1, <1>2, <1>7 DEF CommitsEmail
<1>8. ASSUME NEW t \in Tab, CommitsLink(t)  PROVE SharedCommits'
  BY <1>1, <1>2, <1>8 DEF CommitsLink
<1>9. ASSUME NEW t \in Tab, CommitsFulfillment(t)  PROVE SharedCommits'
  <2>1. target[t] \in Tab /\ Kind[target[t]] = "request" /\ ~ Early(target[t])
    BY <1>1, <1>9 DEF CommitsFulfillment, Aimed, Linked
  <2>2. OneFulfiller' => target[t] = t
    BY <1>2, <1>9, <2>1 DEF CommitsFulfillment, OneFulfiller, Early
  <2> QED BY <1>1, <1>2, <1>9, <2>1, <2>2 DEF CommitsFulfillment, Goes
<1>10. ASSUME NEW t \in Tab,
              \/ ChecksTransfer(t) \/ AddsFile(t) \/ FinalizesFile(t) \/ SealsKeys(t) \/ ChecksLink(t)
              \/ ChecksFulfillment(t) \/ CountsFiles(t) \/ Fails(t)
       PROVE  SharedCommits'
  BY <1>3, <1>10 DEF ChecksTransfer, AddsFile, FinalizesFile, SealsKeys, ChecksLink,
     ChecksFulfillment, CountsFiles,
     Fails, keyVars
<1> QED BY <1>4, <1>5, <1>6, <1>7, <1>8, <1>9, <1>10, Steps DEF Proceeds

\* What a page can show as fulfilled is, if one tab alone fulfils the request.
LEMMA PagesShowTrue ==
  ASSUME TransfersTypeOK, FilesFit, Aimed, Fulfilled, [Next]_vars
  PROVE  Fulfilled'
<1> DEFINE Kept(r) == (r.fulfilled /\ OneFulfiller) =>
                         r.transfer \in Tab /\ Kind[r.transfer] = "request" /\ status[r.transfer] = "ACTIVE"
<1>1. /\ target \in [Tab -> Tab \cup {None}] /\ None \notin Tab
      /\ status \in [Tab -> {"none", "PENDING", "ACTIVE"}]
      /\ request \in [transfer : Tab \cup {None}, fulfilled : BOOLEAN]
      /\ DOMAIN shown = Tab \cup {List}
  BY TransfersAssumption DEF TransfersTypeOK
<1>2. OneFulfiller' => OneFulfiller
  BY NoWayBack
<1>3. \A r \in Seen : Kept(r)
  BY DEF Fulfilled
<1>4. \A u \in Tab : Early(u) => status[u] # "ACTIVE"
  BY DEF FilesFit
<1>5. CASE Seen' \subseteq Seen /\ \A u \in Tab : status[u] = "ACTIVE" => status'[u] = "ACTIVE"
  BY <1>2, <1>3, <1>5 DEF Fulfilled
<1>6. CASE UNCHANGED <<status, request, shown>>
  BY <1>5, <1>6 DEF Seen
<1>7. CASE Aside
  <2>1. ASSUME NEW p \in Tab \cup {List}, shown' = [shown EXCEPT ![p] = request], request' = request
        PROVE  Seen' \subseteq Seen
    BY <1>1, <2>1 DEF Seen
  <2>2. CASE \E p \in Tab \cup {List} : shown' = [shown EXCEPT ![p] = request]
    BY <1>5, <1>7, <2>1, <2>2, AsideLeaves
  <2>3. CASE UNCHANGED shown
    BY <1>6, <1>7, <2>3, AsideLeaves
  <2> QED
    BY <1>7, <2>2, <2>3 DEF Aside, vars, pageVars, CreatesRequest, Lists, Registers, Shows,
       Expires
<1>8. ASSUME NEW t \in Tab, Initiate(t) \/ CommitsEmail(t) \/ CommitsLink(t)  PROVE Fulfilled'
  <2>1. UNCHANGED <<request, shown>>
    BY <1>8 DEF Initiate, CommitsEmail, CommitsLink, pageVars
  <2>2. \A u \in Tab : status[u] = "ACTIVE" => status'[u] = "ACTIVE"
    BY <1>1, <1>4, <1>8 DEF Initiate, CommitsEmail, CommitsLink, Early
  <2> QED BY <1>5, <2>1, <2>2 DEF Seen
<1>9. ASSUME NEW t \in Tab, CreatesFulfillment(t)  PROVE Fulfilled'
  <2>1. /\ step[t] = "creating" /\ Kind[t] = "request" /\ Early(t)
        /\ request'.fulfilled = request.fulfilled /\ UNCHANGED shown
        /\ \A u \in Tab : status[u] = "ACTIVE" => status'[u] = "ACTIVE"
    BY <1>1, <1>4, <1>9 DEF CreatesFulfillment, Early, Aimed, pageVars
  <2>2. ~ (request'.fulfilled /\ OneFulfiller')
    <3> SUFFICES ASSUME request'.fulfilled, OneFulfiller'  PROVE FALSE
      OBVIOUS
    <3> DEFINE u == request.transfer
    <3>1. u \in Tab /\ Kind[u] = "request" /\ status[u] = "ACTIVE"
      BY <1>1, <1>2, <1>3, <2>1, TransfersAssumption DEF Seen
    <3>2. ~ Early(u) /\ u # t
      BY <1>4, <2>1, <3>1
    <3> QED BY <1>2, <2>1, <3>1, <3>2 DEF OneFulfiller, Early
  <2> QED BY <1>2, <1>3, <2>1, <2>2 DEF Fulfilled, Seen
<1>10. ASSUME NEW t \in Tab, CommitsFulfillment(t)  PROVE Fulfilled'
  <2>1. /\ step[t] = "committing" /\ Kind[t] = "request" /\ target[t] \in Tab
        /\ request'.transfer = request.transfer /\ UNCHANGED shown
        /\ status' = [status EXCEPT ![target[t]] = "ACTIVE"]
    BY <1>1, <1>10 DEF CommitsFulfillment, Aimed, pageVars
  <2>2. \A u \in {target[t], request.transfer} : u \in Tab /\ Kind[u] = "request" /\ ~ Early(u)
    BY <1>1, <2>1 DEF Aimed, Linked
  <2>3. OneFulfiller' => target[t] = t /\ request.transfer = t
    BY <1>2, <2>1, <2>2 DEF OneFulfiller, Early
  <2>4. \A u \in Tab : status[u] = "ACTIVE" => status'[u] = "ACTIVE"
    BY <1>1, <2>1
  <2> QED BY <1>1, <1>2, <1>3, <2>1, <2>3, <2>4 DEF Fulfilled, Seen
<1>11. ASSUME NEW t \in Tab,
              \/ ChecksRequest(t) \/ ChecksTransfer(t) \/ AddsFile(t) \/ FinalizesFile(t) \/ SealsKeys(t)
              \/ ChecksLink(t) \/ ChecksFulfillment(t) \/ CountsFiles(t) \/ Fails(t)
       PROVE  Fulfilled'
  BY <1>6, <1>11 DEF ChecksRequest, ChecksTransfer, AddsFile, FinalizesFile, SealsKeys, ChecksLink,
     ChecksFulfillment, CountsFiles, Fails, pageVars
<1> QED BY <1>7, <1>8, <1>9, <1>10, <1>11, Steps DEF Begins, Proceeds

-----------------------------------------------------------------------------
(* Theorems *)

LEMMA InitHolds ==
  ASSUME Init
  PROVE  IInv
<1> USE TransfersAssumption DEF Init, Early
<1>1. TransfersTypeOK
  <2>1. step \in [Tab -> {"unused", "idle", "creating", "ready", "adding", "uploading", "sealed", "counting",
                          "committing", "done", "failed"}]
    OBVIOUS
  <2>2. files \in [Tab -> Seq({"PENDING", "UPLOADED"})] /\ \A t \in Tab : Len(files[t]) <= NumFiles
    OBVIOUS
  <2>3. {sealed, rows, keyed} \subseteq [Tab -> SUBSET Person] /\ users \subseteq Person
    OBVIOUS
  <2> QED BY <2>1, <2>2, <2>3 DEF TransfersTypeOK
<1>2. FilesFit /\ OwnCommits /\ Aimed /\ SharedCommits
  BY DEF FilesFit, OwnCommits, Aimed, Linked, SharedCommits
<1>3. Fulfilled
  BY DEF Fulfilled, Seen
<1> QED BY <1>1, <1>2, <1>3 DEF IInv

LEMMA StepHolds ==
  ASSUME IInv, [Next]_vars
  PROVE  IInv'
BY Typing, FilesFollow, OwnersCommit, AimStays, FulfillersCommit, PagesShowTrue DEF IInv

\* The invariant holds throughout.
THEOREM Invariance == Spec => []IInv
BY InitHolds, StepHolds, PTL DEF Spec

\* Every variable keeps its type, however many tabs there are.
THEOREM TypesHold == Spec => []TransfersTypeOK
<1>1. IInv => TransfersTypeOK
  BY DEF IInv
<1> QED BY <1>1, Invariance, PTL

\* Whatever fails or stops, in whatever order the handlers of all tabs come: a transfer that
\* its recipients are let into has all of its files, unless two tabs fulfil its request.
THEOREM ActiveTransfersAreComplete == Spec => []ActiveIsComplete
<1>1. IInv => ActiveIsComplete
  BY DEF IInv, ActiveIsComplete, Undisturbed, OwnCommits, SharedCommits, FilesFit
<1> QED BY <1>1, Invariance, PTL

\* ... and a key for its owner and for each recipient that was addressed, of the session key
\* its files are encrypted with, whoever makes an account in the meantime.
THEOREM ActiveTransfersHaveTheirKeys == Spec => []ActiveHasItsKeys
<1>1. IInv => ActiveHasItsKeys
  BY TransfersAssumption
     DEF IInv, ActiveHasItsKeys, Undisturbed, KeysOpen, OwnCommits, SharedCommits
<1> QED BY <1>1, Invariance, PTL

\* A request that any page shows as FULFILLED, from data however old, leads to a transfer
\* that is open and that its requester has the key of, if one tab alone fulfils it.
THEOREM FulfilledRequestsAreActive == Spec => []FulfilledIsActive
<1>1. IInv => FulfilledIsActive
  <2>1. TransfersTypeOK => DOMAIN shown = Tab \cup {List}
    BY DEF TransfersTypeOK
  <2> QED BY <2>1, TransfersAssumption DEF IInv, FulfilledIsActive, Fulfilled, Seen, SharedCommits
<1> QED BY <1>1, Invariance, PTL
=============================================================================
