----------------------------- MODULE Transfers -----------------------------
(***************************************************************************)
(* The life of the transfers that go through the server: initiated, filled *)
(* with files, committed with the session key encrypted for owner and      *)
(* recipients (transfer.controller.ts, file.controller.ts), each by one    *)
(* run of transfer() in a tab of its owner (useInitiateTransfer.tsx).      *)
(*                                                                         *)
(* Tabs of kind "request" show and fulfil one and the same transfer request *)
(* (FileRequestDetails.tsx); each creates a transfer for it.  A transfer is *)
(* named by the tab that created it, a session key by the tab that         *)
(* generated it.  Every handler stops at its database awaits, and can fail *)
(* there; a transaction is one step.  BlockUpload is the inside of the     *)
(* upload of one file.                                                     *)
(***************************************************************************)
EXTENDS Naturals, Sequences, FiniteSets

CONSTANTS Tab,
          Kind,         \* "link", "email" or "request"
          Person,       \* recipients of an e-mail transfer, by their addresses
          NumFiles,     \* files of each tab
          List,         \* a page with the list of requests
          MaxRuns,      \* bound: tabs that run transfer()
          None          \* no tab, no data

ASSUME TransfersAssumption ==
  /\ Kind \in [Tab -> {"link", "email", "request"}]
  /\ {NumFiles, MaxRuns} \subseteq Nat /\ {None, List} \cap Tab = {} /\ None # List

VARIABLES
  \* a tab
  step,         \* where its run of transfer() is, or the handler it waits for
  target,       \* the transfer a handler of the tab has read
  sealed,       \* recipients for whom it has encrypted its session key
  \* the database
  status,       \* of each transfer: "none", "PENDING" or "ACTIVE"
  expired,      \* expiration_date has passed
  files,        \* the status of each file of the transfer
  ownerKey,     \* owner_file_key: whose session key it encrypts, or None
  recipientKey, \* file_key of the requester or the link: likewise
  users,        \* those of Person with an account, and so with a key
  rows,         \* e-mail transfers of each transfer; the other recipients have invites
  keyed,        \* those of them with a file_key
  asked,        \* the transfer request is in the database
  request,      \* its transfer_id and whether it is FULFILLED
  \* pages
  shown         \* the request as the list and the details of each tab show it, or None

keyVars == <<ownerKey, recipientKey>>
pageVars == <<asked, shown>>
emailVars == <<sealed, users, rows, keyed>>
vars == <<step, target, status, expired, files, keyVars, request, pageVars, emailVars>>

Goes(t, s) == step' = [step EXCEPT ![t] = s]
Uploaded(t) == \A i \in DOMAIN files[t] : files[t][i] = "UPLOADED"

-----------------------------------------------------------------------------
(* The request and the pages that show it *)

\* createTransferRequest
CreatesRequest ==
  /\ ~asked
  /\ asked' = TRUE
  /\ UNCHANGED <<step, target, status, expired, files, keyVars, request, shown, emailVars>>

\* getTransferRequests, whenever the list is mounted or gets the focus
Lists ==
  /\ asked
  /\ shown' = [shown EXCEPT ![List] = request]
  /\ UNCHANGED <<step, target, status, expired, files, keyVars, request, asked, emailVars>>

\* getTransferRequestDetails, the same for the details, and after a fulfilment
Shows(t) ==
  /\ asked /\ Kind[t] = "request" /\ step[t] # "unused"
  /\ shown' = [shown EXCEPT ![t] = request]
  /\ UNCHANGED <<step, target, status, expired, files, keyVars, request, asked, emailVars>>

-----------------------------------------------------------------------------
(* Initiation *)

\* initiateLinkTransfer, initiateEmailTransfer
Initiate(t) ==
  /\ step[t] = "idle" /\ Kind[t] # "request"
  /\ Goes(t, "ready")
  /\ status' = [status EXCEPT ![t] = "PENDING"]
  /\ rows' = IF Kind[t] = "email" THEN [rows EXCEPT ![t] = users] ELSE rows
  /\ UNCHANGED <<target, expired, files, keyVars, request, pageVars, sealed, users, keyed>>

\* A page shows the form while its data say that the request is not fulfilled.
ShowsForm(t) == shown[t] # None /\ ~ shown[t].fulfilled

\* initiateRequestFulfillment reads the request ...
ChecksRequest(t) ==
  /\ step[t] = "idle" /\ Kind[t] = "request" /\ ShowsForm(t)
  /\ ~ (request.fulfilled /\ request.transfer # None)
  /\ Goes(t, "creating")
  /\ UNCHANGED <<target, status, expired, files, keyVars, request, pageVars, emailVars>>

\* ... and in a transaction creates the transfer and links it to the request.
CreatesFulfillment(t) ==
  /\ step[t] = "creating"
  /\ Goes(t, "ready")
  /\ status' = [status EXCEPT ![t] = "PENDING"]
  /\ request' = [request EXCEPT !.transfer = t]
  /\ UNCHANGED <<target, expired, files, keyVars, pageVars, emailVars>>

-----------------------------------------------------------------------------
(* Files *)

\* Mutated form of ChecksTransfer: the loop over the files runs once more
ChecksTransferOnceMore(t) ==
  /\ step[t] = "ready" /\ Len(files[t]) <= NumFiles /\ status[t] = "PENDING"
  /\ Goes(t, "adding")
  /\ UNCHANGED <<target, status, expired, files, keyVars, request, pageVars, emailVars>>

\* requestUpload reads the transfer ...
ChecksTransfer(t) ==
  /\ step[t] = "ready" /\ Len(files[t]) < NumFiles /\ status[t] = "PENDING"
  /\ Goes(t, "adding")
  /\ UNCHANGED <<target, status, expired, files, keyVars, request, pageVars, emailVars>>

\* ... and creates the file.
AddsFile(t) ==
  /\ step[t] = "adding"
  /\ Goes(t, "uploading")
  /\ files' = [files EXCEPT ![t] = Append(@, "PENDING")]
  /\ UNCHANGED <<target, status, expired, keyVars, request, pageVars, emailVars>>

\* Its blocks are uploaded; finalizeFile.
FinalizesFile(t) ==
  /\ step[t] = "uploading"
  /\ Goes(t, "ready")
  /\ files' = [files EXCEPT ![t][Len(files[t])] = "UPLOADED"]
  /\ UNCHANGED <<target, status, expired, keyVars, request, pageVars, emailVars>>

-----------------------------------------------------------------------------
(* Commitment *)

\* Mutated form of Filled: the commit does not wait for the loop over the files
FilledSoFar(t) == step[t] = "ready"

\* transfer() has uploaded its files.
Filled(t) == step[t] = "ready" /\ Len(files[t]) = NumFiles

\* getPublicKeys: the recipients a key is found for
Addressed(t) == IF Kind[t] = "email" THEN users ELSE {}

\* transfer() encrypts the session key for the owner and for the link, the requester, or
\* these recipients.
SealsKeys(t) ==
  /\ Filled(t)
  /\ Goes(t, "sealed")
  /\ sealed' = [sealed EXCEPT ![t] = Addressed(t)]
  /\ UNCHANGED <<target, status, expired, files, keyVars, request, pageVars, users, rows, keyed>>

\* A recipient makes an account, as an invite asks or otherwise.
Registers(p) ==
  /\ p \notin users
  /\ users' = users \cup {p}
  /\ UNCHANGED <<step, target, status, expired, files, keyVars, request, pageVars, sealed, rows, keyed>>

\* Mutated form of CommitsEmail: the keys are taken for the first time one is sent
CommitsEmailForSealed(t) ==
  /\ step[t] = "sealed" /\ Kind[t] = "email" /\ status[t] = "PENDING" /\ Uploaded(t)
  /\ Goes(t, "done")
  /\ status' = [status EXCEPT ![t] = "ACTIVE"]
  /\ ownerKey' = [ownerKey EXCEPT ![t] = t]
  /\ keyed' = [keyed EXCEPT ![t] = sealed[t]]
  /\ UNCHANGED <<target, expired, files, recipientKey, request, pageVars, sealed, users, rows>>

\* commitEmailTransfer, a serializable transaction: no e-mail transfer may be without a
\* key, and a key without an e-mail transfer is left aside.
CommitsEmail(t) ==
  /\ step[t] = "sealed" /\ Kind[t] = "email" /\ status[t] = "PENDING" /\ Uploaded(t)
  /\ rows[t] \subseteq sealed[t]
  /\ Goes(t, "done")
  /\ status' = [status EXCEPT ![t] = "ACTIVE"]
  /\ ownerKey' = [ownerKey EXCEPT ![t] = t]
  /\ keyed' = [keyed EXCEPT ![t] = sealed[t] \cap rows[t]]
  /\ UNCHANGED <<target, expired, files, recipientKey, request, pageVars, sealed, users, rows>>

\* commitLinkTransfer reads the transfer and its files ...
ChecksLink(t) ==
  /\ step[t] = "sealed" /\ Kind[t] = "link" /\ status[t] # "ACTIVE"
  /\ \A i \in DOMAIN files[t] : files[t][i] # "PENDING"
  /\ Goes(t, "committing")
  /\ UNCHANGED <<target, status, expired, files, keyVars, request, pageVars, emailVars>>

\* ... and writes keys and status in one update.
CommitsLink(t) ==
  /\ step[t] = "committing" /\ Kind[t] = "link"
  /\ Goes(t, "done")
  /\ status' = [status EXCEPT ![t] = "ACTIVE"]
  /\ ownerKey' = [ownerKey EXCEPT ![t] = t]
  /\ recipientKey' = [recipientKey EXCEPT ![t] = t]
  /\ UNCHANGED <<target, expired, files, request, pageVars, emailVars>>

\* commitRequestFulfillment reads the request and its transfer, ...
ChecksFulfillment(t) ==
  /\ step[t] = "sealed" /\ Kind[t] = "request"
  /\ request.transfer # None /\ ~ request.fulfilled
  /\ status[request.transfer] = "PENDING" /\ ~ expired[request.transfer]
  /\ Goes(t, "counting")
  /\ target' = [target EXCEPT ![t] = request.transfer]
  /\ UNCHANGED <<status, expired, files, keyVars, request, pageVars, emailVars>>

\* ... counts the files that are not uploaded, ...
CountsFiles(t) ==
  /\ step[t] = "counting" /\ Uploaded(target[t])
  /\ Goes(t, "committing")
  /\ UNCHANGED <<target, status, expired, files, keyVars, request, pageVars, emailVars>>

\* Mutated form of CommitsFulfillment: the request is closed, its transfer stays PENDING
CommitsRequestOnly(t) ==
  /\ step[t] = "committing" /\ Kind[t] = "request"
  /\ Goes(t, "done")
  /\ ownerKey' = [ownerKey EXCEPT ![target[t]] = t]
  /\ recipientKey' = [recipientKey EXCEPT ![target[t]] = t]
  /\ request' = [request EXCEPT !.fulfilled = TRUE]
  /\ UNCHANGED <<target, status, expired, files, pageVars, emailVars>>

\* ... and writes keys and statuses in a transaction: the keys are the tab's, the
\* transfer the one that was read.
CommitsFulfillment(t) ==
  /\ step[t] = "committing" /\ Kind[t] = "request"
  /\ Goes(t, "done")
  /\ status' = [status EXCEPT ![target[t]] = "ACTIVE"]
  /\ ownerKey' = [ownerKey EXCEPT ![target[t]] = t]
  /\ recipientKey' = [recipientKey EXCEPT ![target[t]] = t]
  /\ request' = [request EXCEPT !.fulfilled = TRUE]
  /\ UNCHANGED <<target, expired, files, pageVars, emailVars>>

\* A handler refuses, the database fails, the tab is closed, or a call is lost: the
\* run ends, whatever is in the database stays.
Fails(t) ==
  /\ step[t] \notin {"unused", "idle", "done", "failed"}
  /\ Goes(t, "failed")
  /\ UNCHANGED <<target, status, expired, files, keyVars, request, pageVars, emailVars>>

Expires(t) ==
  /\ status[t] # "none" /\ ~ expired[t]
  /\ expired' = [expired EXCEPT ![t] = TRUE]
  /\ UNCHANGED <<step, target, status, files, keyVars, request, pageVars, emailVars>>

-----------------------------------------------------------------------------
Init ==
  /\ step \in [Tab -> {"unused", "idle"}] /\ Cardinality({t \in Tab : step[t] = "idle"}) = MaxRuns
  /\ target = [t \in Tab |-> None]
  /\ status = [t \in Tab |-> "none"] /\ expired = [t \in Tab |-> FALSE]
  /\ files = [t \in Tab |-> <<>>]
  /\ ownerKey = [t \in Tab |-> None] /\ recipientKey = [t \in Tab |-> None]
  /\ request = [transfer |-> None, fulfilled |-> FALSE]
  /\ users \in SUBSET Person
  /\ sealed = [t \in Tab |-> {}] /\ rows = [t \in Tab |-> {}] /\ keyed = [t \in Tab |-> {}]
  /\ asked = FALSE /\ shown = [p \in Tab \cup {List} |-> None]

TabStep(t) ==
  \/ Shows(t) \/ Initiate(t) \/ ChecksRequest(t) \/ CreatesFulfillment(t)
  \/ ChecksTransfer(t) \/ AddsFile(t) \/ FinalizesFile(t)
  \/ SealsKeys(t) \/ CommitsEmail(t) \/ ChecksLink(t) \/ CommitsLink(t)
  \/ ChecksFulfillment(t) \/ CountsFiles(t) \/ CommitsFulfillment(t)

Next ==
  \/ CreatesRequest \/ Lists
  \/ \E p \in Person : Registers(p)
  \/ \E t \in Tab : TabStep(t) \/ Fails(t) \/ Expires(t)

Spec == Init /\ [][Next]_vars

-----------------------------------------------------------------------------
(* Properties *)

\* Every variable keeps its type.
TransfersTypeOK ==
  /\ step \in [Tab -> {"unused", "idle", "creating", "ready", "adding", "uploading", "sealed", "counting",
                       "committing", "done", "failed"}]
  /\ target \in [Tab -> Tab \cup {None}]
  /\ status \in [Tab -> {"none", "PENDING", "ACTIVE"}] /\ expired \in [Tab -> BOOLEAN]
  /\ files \in [Tab -> Seq({"PENDING", "UPLOADED"})] /\ \A t \in Tab : Len(files[t]) <= NumFiles
  /\ ownerKey \in [Tab -> Tab \cup {None}] /\ recipientKey \in [Tab -> Tab \cup {None}]
  /\ LET Request == [transfer : Tab \cup {None}, fulfilled : BOOLEAN] IN
       request \in Request /\ shown \in [Tab \cup {List} -> Request \cup {None}]
  /\ asked \in BOOLEAN /\ users \subseteq Person
  /\ {sealed, rows, keyed} \subseteq [Tab -> SUBSET Person]

\* The request is fulfilled from one tab, now and before.
OneFulfiller ==
  \A t, u \in Tab : (t # u /\ Kind[t] = "request" /\ Kind[u] = "request")
                    => {"unused", "idle"} \cap {step[t], step[u]} # {}
Undisturbed(t) == Kind[t] = "request" => OneFulfiller

\* A recipient who is let in finds every file, each of them uploaded: wherever the run
\* of transfer() failed or stopped before, it did not commit.
ActiveIsComplete ==
  \A t \in Tab : (status[t] = "ACTIVE" /\ Undisturbed(t)) => (Len(files[t]) = NumFiles /\ Uploaded(t))

\* Owner and recipients get the key that the files were encrypted with, whoever signs up in
\* the meantime; in whatever order two tabs commit, a transfer is never open to its
\* recipients without a key for each.
KeysOpen(t) ==
  /\ ownerKey[t] = t
  /\ IF Kind[t] = "email" THEN keyed[t] = rows[t] ELSE recipientKey[t] = t
ActiveHasItsKeys ==
  \A t \in Tab : status[t] = "ACTIVE" =>
    /\ ownerKey[t] # None /\ (Kind[t] = "email" \/ recipientKey[t] # None)
    /\ Undisturbed(t) => KeysOpen(t)

\* A request that is FULFILLED, also in the data that a page still holds, leads to a
\* transfer its requester can open.
FulfilledIsActive ==
  \A r \in ({request} \cup {shown[p] : p \in DOMAIN shown}) \ {None} :
    (r.fulfilled /\ OneFulfiller) =>
      r.transfer # None /\ status[r.transfer] = "ACTIVE" /\ KeysOpen(r.transfer)

\* "Decrypts files locally": whoever commits, the keys of an ACTIVE transfer
\* open its files.  The code does not have this: a tab that commits the request
\* writes its keys to the transfer the request is linked to by then.
KeysOpenFiles ==
  \A t \in Tab : (status[t] = "ACTIVE" /\ files[t] # <<>>) => KeysOpen(t)
=============================================================================
