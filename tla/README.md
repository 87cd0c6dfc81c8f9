# BlackBridge in TLA+

BlackBridge moves end-to-end encrypted files between people: through the server
(blocks in an object store, keys in a database) or directly from browser to
browser (WebRTC). This directory specifies the protocols of both, the sessions,
keys and codes under them and the pages on top of them, as TLA+ modules
translated from the source. TLC checks them on small instances. TLAPS proves
every safety property that a passing run checks, for every value of the constants:
any number of pages, tabs, files, chunks, parts or retries.

File names without a directory are found under `src/frontend/src` (most) or
`src/backend/src` (`*.controller.ts`, `*.middleware.ts`, `signaling.ts`,
`ws.ts`, `cache.ts`, `db.ts`, `aws.ts`, `schema.prisma`). `PROJECT.json` has the
line range behind every definition.

    tlasany M.tla                  parse a module
    tlc -config X.cfg MCx.tla      check one of the runs listed below
    tlapm MProofs.tla              check the proofs about M (eight modules, 11624 obligations)

## 1. The system

### Components

| Component | State it keeps | Operations | Module |
|---|---|---|---|
| Peer-to-peer chunk protocol (`PeerTransferManager.ts`, `ProgressStore.ts`) | per side: manager state, channel, last acknowledged chunks; sender's queue; receiver's files, chunk store (IndexedDB), saved progress | header, chunk, acknowledgements, complete, assembly, close, reload and RESUME | `PeerTransfer`, `PeerResume` |
| Signaling and connection set-up (`signaling.ts`, `ws.ts`, the rest of `PeerTransferManager.ts`) | server: room, socket ids in the database; page: state, connection, candidate queue | join, offer, answer, candidates, leave, disconnect | `Signaling` |
| Peer transfer pages and sessions (`NewPeerTransfers.tsx`, `InitiatePeerTransferScreen.tsx`, `OutgoingPeerTransferScreen.tsx`, `PeerTransferSession.tsx`, `transfer.controller.ts`) | form and its files, session rows, a manager per page | pick and remove files, submit, show, visit, start, leave | `PeerSession` |
| File upload (`useInitiateTransfer.tsx`, `fileService.ts`, `concurrency.ts`, `file.controller.ts`, `aws.ts`) | browser: slice position, running tasks, parts to do; server: status of blocks and file; store: objects | announce, upload part, retry, complete, finalize block and file | `BlockUpload` |
| Block layout (`file.controller.ts`, `bucket.config.ts`) | none | sizes of blocks and parts | `BlockLayout` |
| Downloads (`useDownloader.ts`, `DownloadManager.ts`, `Downloader.ts`, `StreamBridge.ts`, `downloadStore.ts`) | queue of files, stream, ports, archive, event in the drawer | request, fetch and decrypt a block, write, close, fail | `Downloads` |
| Transfers: link, email, request (`transfer.controller.ts`, `file.controller.ts`) | rows of transfers, files, requests, e-mail transfers, session keys; request pages | initiate, add and finalize file, commit, expire, show a request | `Transfers` |
| Recipients: invitations, viewed marks (`useHandleGlobalAction.tsx`, `TransferDetailsView.tsx`, queries and mutations, `transfer.controller.ts`) | invite, e-mail transfer, a tab's cached answers and calls under way | offer, accept, approve, list, count, show, mark | `Recipients` |
| Link page (`PublicLinkView.tsx`, `auth.middleware.ts`) | query, fragment, password, keys tried | open, access check, try, edit | `LinkPage` |
| Upload pages and progress store (`DashboardView.tsx`, `FileRequestDetails.tsx`, `uploadStore.ts`) | form, status, total, bytes per part | submit, begin file and block, progress, success, error | `UploadPage` |
| Sessions (`API.ts`, `authStore.ts`, `auth.controller.ts`, `auth.middleware.ts`, `cache.ts`) | tab: queue of waiting requests, renewal flag; browser: cookies; server: sessions, cache | request, verify, renew, sign out, change password | `AuthSessions` |
| Custody of the private key (`authStore.ts`, `CryptoBridge.ts`, `KeyStore.ts`, `useResetPasswordMutation.ts`, `auth.controller.ts`) | verifier and sealed key; wrapped key in the browser, its fragment in the session; auth store and workers of each tab | sign-up, sign-in, reload, sign-out, change of password | `KeyCustody` |
| One-time codes (`auth.controller.ts`, `auth.middleware.ts`, `VerificationView.tsx`) | request, cool-down, token | ask, send, confirm, present, verify, consume | `Codes` |
| Images and brand settings (`image.controller.ts`, `user.controller.ts`, hooks) | columns with keys, objects | upload, confirm, replace, delete | `Images` |
| Worker pool (`CryptoWorkerPool.ts`, `CryptoBridge.ts`) | pool of workers, pending calls | get, call, clear | as its users see it, in `KeyCustody` |
| Lists, search, home and analytics | none | one read each | no |
| Notifications | none | mail | no |
| Saved peer-to-peer state and file handles | browser storage keys | save, load, remove | no |
| User interface | screens | calls into the others | no |
| Deployment, templates, end-to-end tests | none | | no |

### How they interact

* A **page** of a peer-to-peer session runs one `PeerTransferManager`
  (`PeerSession`). It joins a room of the server over a WebSocket; the server
  forwards `offer`, `answer` and `candidate` messages to the rest of the room
  until WebRTC is connected (`Signaling`). From then on everything goes over a
  data channel (`PeerTransfer`). The server stays a part of it, though: a page
  that leaves the room makes it send `peer-left`, which closes the other pages,
  and another page that joins makes the sender call again (`PeerResume`). "The
  Server is now entirely out of the loop" (README.md:133) holds for the data
  only.
* A **transfer through the server** is one run of `transfer()` in a tab
  (`useInitiateTransfer.tsx`): initiate, upload every file, commit
  (`Transfers`). The inside of the upload of one file is `BlockUpload`, laid
  out by `BlockLayout`; the page that started it and the progress it shows are
  `UploadPage`. Once it is ACTIVE, `Recipients` and `LinkPage` lead to it and
  `Downloads` gets its files. `RoundTrip` composes upload and download.
* Every call of a tab to the server passes `API.ts`, which renews the session
  on a 401 (`AuthSessions`). Signing in, reloading and signing out move the
  private key as well (`KeyCustody`). An account is verified, with a code,
  before it has any other page (`Settings` composes `Codes` and `Images`).
* Encryption runs in workers. It takes time, during which other handlers run:
  this is where most of the interleavings come from.

### What is hard here

* **Handlers interleave at awaits.** Node and the browser run one handler at a
  time, but each handler stops at every await: database, cache, worker,
  IndexedDB. State read before and used after an await is the main hazard
  (chunk index, candidate queue, transfer of a request, cached session, key of
  a picture).
* **Two halves in two places.** The stored key and its fragment, a column and
  its object, a request and its transfer are written by two calls, and the tab,
  or another tab, may come between.
* **Answers are old when they arrive.** Pages show cached answers; a mark, an
  upload or another tab has changed what they say.
* **Messages are handled out of order.** The data channel is ordered, but each
  message is decrypted in a pool of workers and handled when that is done.
* **Pages disappear** at any point, and come back with what they saved.
* **Calls are lost**, before or after the server did its work, and some are
  retried.
* **Nobody times out.** The peer-to-peer sides, and the two ends of a stream,
  wait for each other's next message; whether something always comes is a
  liveness question.

`PROJECT.json` lists each hazard at its line with the properties that cover it,
or the reason why none does.

### What makes each component correct

* Chunk protocol: a chunk is stored where it was cut from although it travels
  without a label; progress saved on either side never claims more than is
  stored; files are handed over complete, once, in order; the two sides never both
  wait; and every file arrives, or is reported as unreadable, unless somebody
  closes, dies or cannot store a chunk.
* Signaling: every candidate reaches the connection it is for; a sender who is
  first is connected to the receiver who comes; when a page leaves, the others
  learn of it.
* Peer transfer pages: whoever is told that a transfer is complete, and stays,
  gets the files that the session promised, or an error for each that is missing,
  if nobody joined a second time.
* Upload and download: what is UPLOADED is all there; what is saved is the
  original; an archive that lacks a file does not pass for the whole; both end.
* Transfers: what is ACTIVE has all its files, and the keys of its owner and of
  its recipients.
* Recipients: what is listed opens, what is marked is neither counted nor listed
  as new by an answer that came later, a guest's key stays. Link page: files that
  are shown open.
* Upload pages: the bytes shown are those uploaded, each counted once.
* Sessions: nobody is signed out without a cause; sign-out is thorough; what is
  dead stays dead; every waiting request is answered.
* Key custody: who is signed in has the key at hand, unless it was let in without
  a user or its sign-out failed half-way, and a reload finds it.
* Codes and pictures: an account gets verified in the end; a picture that is
  named is there.

## 2. The modules

A module names its actions after what the code does; the comment over each says
where it comes from. In every module an await of the code is the boundary
between two actions, and what runs between two awaits is one action with all
the state it changes. Operators that no action uses (for example
`AnnounceNextFileUnguarded`, `MatchesExactly`) are plausible mistakes in the
definition that follows them; they are there to show that the properties notice
(`mutants` in `PROJECT.json`).

    FileDelivery <- PeerTransfer <- PeerResume <- PeerTransferProofs
    BlockLayout <- BlockUpload, Downloads <- RoundTrip <- BlockUploadProofs
    Recipients, LinkPage, PeerSession, UploadPage -> Pages <- PagesProofs
    Codes, Images -> Settings <- SettingsProofs
    Signaling    <- SignalingProofs
    Transfers    <- TransfersProofs
    AuthSessions <- AuthSessionsProofs
    KeyCustody   <- KeyCustodyProofs

### FileDelivery: what a peer-to-peer transfer promises

Abstract specification, two variables: of each file, how many chunks the
receiver has taken; the files handed over. Chunks are taken one after the
other, files are handed over when all are there, in order, with every chunk in
place, or are given up when IndexedDB rejects a transaction on them. It may stop
anywhere.

### PeerTransfer: one call, both sides

The OfferPeer and the AnswerPeer once both are in the room. A file is its index
in the sender's list (the code's id). A chunk is the pair of file and index it
was cut from, so that a property can tell whether it ends up in its place; the
code sends no such label, and the receiver's place for it comes from the
receiver's own state. Each direction of
the channel is a bag of messages, since decryption may finish in any order.
State and code:

| Variables | Code |
|---|---|
| `sState`, `rState` | `manager.state` of either side, or GONE when its page is gone |
| `sChannel`, `rChannel` | `dataChannel.readyState` |
| `queueHead`, `currentFile`, `currentChunkIndex` | the sender's `fileQueue`, `currentFileId`, `currentChunkIndex` |
| `toReceiver`, `toSender` | what was sent and is not yet handled, including what a worker has |
| `receivedFiles`, `lastAck` | `receivedFilesMetadata` (in the order of insertion), `lastAcknowledgedChunk` |
| `writing`, `progressStore` | the chunk `processChunkQueue` has its lock for; the chunks in IndexedDB |
| `sSaved`, `rSaved` | the progress either side keeps in `localStorage` |
| `assembling`, `delivered` | the runs of `assembleFiles`; what `onFileReceived` was called with |

An assembly looks a chunk up and deletes it in two transactions; either may be
rejected, and the file is then given up (`ReceiverReadFails`) as it is when the
chunk is missing. The `outcome` of each delivery says which it was.
`SenderStep` and `ReceiverStep` are the handlers; `Disturbance` is what people
and the world do: close, page death, a store that fails, a message lost because
the channel closed.

### PeerResume: further calls

Extends `PeerTransfer` by the calls the sender makes whenever somebody joins
the room, the reload of the receiver's page, and RESUME. Every call replaces
`dataChannel` on both sides while the protocol is running.

### Signaling: until they are connected

Server handlers cut at `canUserAccessSession` and the other database awaits,
pages cut at workers and WebRTC. Candidates are one message per description
(they all take the same way). `MaxMishaps` bounds what goes wrong by itself
(socket drops, failed handlers, departures), `MaxStarted` the pages that take
part.

### PeerSession: the pages around a peer-to-peer transfer

`picked` is the file list of `NewPeerTransfers` (which the manager sends),
`listed` that of the form: removing a file changes only the second. `calls` are
the submissions, each with the files it described; the keys of several may be on
their way, and the callbacks that run are those of the last one that called
`mutate` (`mutated`), in whatever order they get there. A manager on either page
is one of a few states, and joins, is called, connects, announces file after file
(`queue`, `headed`), completes or closes as `Signaling` and `PeerTransfer` say. A
receiver assembles what was announced to its own page and no more. A sender who is
called for again (`recalled`) announces to the new page what is left of its queue,
and a header may get lost between two channels. A change of the session's data
runs the effect of the receiver's page again, which closes the manager and makes
no other (`guarded`).

### BlockLayout, BlockUpload: one file

`BlockLayout` cuts a length into pieces as `requestUpload` and `announceUpload`
do, with the remainder that may be 0. `BlockUpload` runs the tasks of the blocks
in a pool of `Limit`, with the shared slice position (`previousEnd`), parts with
their fates, retries, and the server's finalization. Sizes are chosen in the
initial state, in units; encryption adds `Overhead` units to a block whose parts
are laid out by the size before encryption, so the last part is longer than
planned. A block's content is the slice it was cut from and the range that was
put for each part, so a wrong cut is visible. Any call fails before or after the
server did its work. A lost PUT that arrives after its retry, and aborts, are
not distinguished from a lost or failed call.

### Downloads, RoundTrip: back to the disk

`Downloads` has what is UPLOADED and the objects of the blocks from outside
(`active`, `ready`, `blocks`). One job at a time takes a file through key,
fetch, the stream into the worker, the decryption, the stream back to the page
and the sink. Both bridges are the same port: `Pull` asks, `Answer` posts a
chunk, `AnswerDone` closes and then enqueues, as `StreamBridge.ts` does, which
errors a stream that still holds something; a read that rejects leaves the port
"broken" for good. An object whose bytes are not
those that were encrypted does not decrypt. `RoundTrip` extends `BlockUpload`
and instantiates `Downloads` with what the upload left: `active` is that the
upload is done, `ready` the status of its file.

### Transfers: the life of a transfer

One tab per transfer, the kinds link, email and request; tabs of kind request
show and fulfil the same request, and so does a list. Handlers are cut at their
database awaits; a transaction is one step. A session key is named by the tab
that generated it, which is what tells whether a key opens a file. A recipient
of the e-mail transfer may get an account at any time: `Initiate` makes an
e-mail transfer or an invite of each, `SealsKeys` encrypts for those whose public
keys the server has by then, `CommitsEmail` demands a key of each e-mail
transfer. `shown` is what a page has of the request, as old as it may be.

### Recipients, LinkPage: who is let in

`Recipients` takes one e-mail transfer from its commitment to the tabs of its
recipient, an account or a guest whose invite is offered, accepted and approved
(each as often as a page renders). A tab has cached answers (`cache`), answers
on their way (`fetch`) and marks; React Query decides when a query is repeated.
Details that arrive run the marking effect even when they differ by nothing but
the addresses of pictures. `overtaken` records, for the properties only, the lists
and counts that were under way when a mark was answered and that nothing asked
for again.
`LinkPage` is the public page: the access check of every kind of link, committed
or not, and of whoever visits it, its owner included; a query that outlives the
page, is repeated, and may turn from data into an error; the passphrase made of
fragment and password, the attempts to open the key in a worker, and the two
inputs changing meanwhile (`edited`).

### UploadPage: the form and its progress

The store of a tab, with what `initializeUpload`, the two `initialize...Map` and
`setPartProgress` do to it, and runs of `transfer()` that feed it. A page that is
left forgets its run, the run goes on; a run that is rejected still has tasks
(see section 4, observations).

### Pages: the composition of the last four

`Pages` extends `Recipients`, `LinkPage`, `PeerSession` and `UploadPage`. A
behaviour is that of one kind of transfer (`kind`): the pages share the router
and nothing else, so their interleaving would multiply states and show nothing.

### AuthSessions: renewal, sign-out, revocation

Tabs in browsers that share cookies, requests behind a renewal, the server's
renewal, verification and its cache, sign-out and change of password. Three
things in the code shape this module:

* Refresh tokens are compared by `bcrypt`, which reads 72 bytes only; the part
  of a token that differs lies behind them. So any refresh token of a session
  matches (`Matches`). That is why two tabs that renew at once do not sign each
  other out; with an exact comparison (`MatchesExactly`) `SignedOutForAReason`
  fails.
* `logout` deletes a cache key that `verifyToken` never writes
  (auth.controller.ts:525). A session that is gone can therefore stay in the
  cache, for `cacheTTL` (60 s) at most; `Dead` includes being out of the cache.
* `changePassword` answers before its transaction, and deletes from the cache
  before it commits, in two steps: what is cached between its scan and its
  deletion stays. `changer` is the browser that changes the password.

`logout` clears the cookies without the domain they were set with
(auth.controller.ts:373, 529): whether the browser forgets them depends on the
configuration, so `SignedOut` has both.

### KeyCustody: the private key in the browser

A tab runs one operation at a time, cut at each await of `authStore.ts`. The
wrapped key (`wrapped`, in IndexedDB, shared by the tabs) and the fragment it
opens with (`sessionKey`, in the session that the cookie names) are the two
halves; both are named by the fragment. A section is a stretch of an operation
over both halves; `alone` and `torn` record, for the properties only, whether
another tab's section met it or it was cut off. Transactions that go on after
their answer (`register`, `changePassword`) are in `writes`. Calls are refused or
get no answer; a 401, that of a wrong password too, passes the interceptor, which
signs out when it cannot renew. A sign-out clears the workers and then deletes the
wrapped key; when IndexedDB rejects that (`DeleteFails`), `signOut` swallows the
error and the tab stays signed in, without a key. `blind` has such tabs, and those
that `validateSession` let in without a user.

### Codes, Images, Settings: a new account

`Codes` is the verification of the account: each tab shows
`VerificationView`, asks, types, confirms, and presents the token; `troubles`
bounds what goes wrong (lost mails, expiries, failing calls). `Images` is the
three pictures, each a column and an object: presigned URL, PUT, confirmation
cut between the read of the old key and the update, deletion of the old object.
`Settings` composes them: a tab edits pictures once it has left the verification.

## 3. The runs

| Run | Expect | Instance | Properties |
|---|---|---|---|
| `MCPeerTransfer` | pass | 4 files of 3, 0, 2, 1 chunks, two with a short last chunk | `TypeOK`, `StopAndWait`, `ChunksInPlace`, `SenderNeverAhead`, `SavedProgressIsStored`, `CompletedMeansStored`, `SomebodyMoves`, `ImplementsDelivery`, `EventuallyDelivered` |
| `MCPeerResume` | pass | 2 files of 2 and 1 chunks, 2 calls | `ResumeTypeOK`, `NothingDeliveredEarly` |
| `MCPeerResumeMisplaced` | violation | the same | `ChunksInPlace` |
| `MCSignaling` | pass | a sender, two receiver pages, 2 of them started, 2 mishaps | `SignalingTypeOK`, `NoCandidateStranded`, `OneTabNeverFails`, `SenderFirstConnects`, `LeaveReachesRoom` |
| `MCTransfers` | pass | an email with 2 recipients, a link, two tabs with the same request; 2 files each, 2 runs | `TransfersTypeOK`, `ActiveIsComplete`, `ActiveHasItsKeys`, `FulfilledIsActive` |
| `MCTransfersTwoTabs` | violation | the same, 1 recipient, 1 file each, 2 runs | `KeysOpenFiles` |
| `MCRoundTrip` | pass | sizes 0, 6, 7 in blocks of 3 and parts of 2, overhead 1, limit 2, 1 retry; a second file in the archive, 2 chunks per block | `FirstTryIntact`, `RecordedIsStored`, `SavedIsOriginal`, `ShortArchiveIsTold`, `RoundTripEnds` |
| `MCBlockUploadRetry` | violation | the same upload, without the download | `UploadedIntact` |
| `MCAuthSessions` | pass | 2 browsers, 2 tabs and 2 requests in one of them, 1 expiry | `AuthTypeOK`, `SignedOutForAReason`, `SignOutIsThorough`, `DeadStaysDead`, `EveryRequestSettles` |
| `MCKeyCustody` | pass | 2 tabs, 2 passwords, 5 fragments, 1 transaction under way | `CustodyTypeOK`, `KeyAtHand`, `ReopensAlone` |
| `MCSettings` | pass | 2 tabs, 2 troubles, 3 pictures, 2 uploads | `PictureIsThere`, `VerifiedInTheEnd` |
| `MCPages` | pass | a tab of a recipient, 2 approvals, 2 marks, 1 offer of each kind; any link; 2 files and 2 submissions; 2 uploads of 2 parts | `MarksAndListsAgree`, `ShownOpens`, `PromisedFilesArrive`, `ProgressIsTrue`, `GuestKeysStay` |

### What they show, and why the bounds are enough

* **MCPeerTransfer.** Four files cover every way a file can end: by a short
  last chunk, by an exactly full one, as the empty file, as the only chunk; and
  an empty file both follows and precedes others. Closes, page deaths and store
  failures may come at any step. `ChunksInPlace` holds because of
  `StopAndWait`: never more than one message or chunk is under way, so there is
  nothing to reorder; `SomebodyMoves` is the other half, never fewer than one
  while both channels are open. `ImplementsDelivery` is the refinement of
  `FileDelivery`. `CompletedMeansStored` holds also of a side that goes from CLOSED
  to COMPLETED (see observations), which nothing forbids.
  Theorems (section 5) lift the safety part to any list of files.
* **MCPeerResume.** With two calls and a reload a second channel can open at
  every point of the first one. Nothing is handed over before the sender is
  through its queue. The violation is found on this same instance.
* **MCSignaling.** Two of three pages are enough for a sender and a receiver,
  or a receiver in two tabs, or two receivers' pages one after the other;
  two mishaps for a failure and its consequence.
  `SenderFirstConnects` is the liveness that does hold: of a receiver who comes
  second, when nothing went wrong. A receiver who comes first, or whose socket
  was dropped, is not connected, and no property says so. `LeaveReachesRoom`
  holds for any departure, that of an old tab and the drop of a socket
  included, which closes the other pages; the sender's wait for a RESUME
  (PeerTransferManager.ts:625) is thus hardly ever reached by a reload that the
  server notices.
* **MCTransfers.** Two tabs on one request are the smallest race; one transfer
  of each other kind; two recipients, so that one may have an account and one
  not; two files, so that a commit can find one of them missing. The properties
  about a request's keys are stated for requests that one tab fulfils
  (`OneFulfiller`); `MCTransfersTwoTabs` shows what happens otherwise. Two runs
  of `transfer()` are enough: a third tab meets either of the two in the same
  way. 742,600 states.
* **MCRoundTrip.** Sizes: no block at all, two full blocks, and three with a
  short last one. With limit 2 the third block starts when either of the others
  is done. A full block has two parts, the last block of 7 a
  single one: retries of the first, of the last, and of the only part. One retry
  (3 in the code) already shows a part cut wrongly; further retries repeat the
  step.
  The download takes either file or both; two chunks per block make a stream
  that is neither empty nor full. Downloads start when the upload is over, as
  nobody can ask for a transfer before its commit. 137,239 states.
* **MCAuthSessions.** Two tabs in a browser for the shared cookies, a second
  browser for the password change, two requests in one tab for the queue. One
  expiry of an access cookie starts the renewals; the change of password and
  sign-out come at any time. 1,020,914 states.
* **MCKeyCustody.** Two tabs for the crossing sections; two passwords for an old
  and a new one; five fragments are one more than there can be at once, so that a
  fresh one always exists (`CustodyAssumption`). One transaction under way at a
  time; it may still be under way when its user has signed out and in again.
  Nothing bounds the length of a behaviour: the instance is finite. Deadlock is
  checked. 2,477,660 states.
* **MCSettings.** Two tabs race for the cool-down, for the verification and for
  a column; two troubles are a lost mail and a second failure on the way out of
  it; two uploads are one to replace the other, three pictures each differ in
  what they check. 718,828 states.
* **MCPages.** One tab is enough for a recipient, as tabs share nothing but the
  database: another tab's mark is a row that is viewed already; two approvals
  are the smallest race of `approveInvite`; two submissions and two files
  make a session that promises something else than the next one; two runs of two
  parts overlap in every way. The properties except what the code gets wrong:
  `ProgressIsTrue` is for uploads that do not overlap (`alone`), `ShownOpens` for
  an address and a password that were not edited since they were tried (`edited`),
  `PromisedFilesArrive` for a sender who was called for once (`recalled`), and
  `MarksAndListsAgree` except for what a mark overtook (`overtaken`). `MaxTotal`
  bounds the bytes that overlapping uploads count.
  2,329,084 states.

`RoundTripTypeOK`, `BlockReadWhole`, `SettingsTypeOK` and `PagesTypeOK` hold on these
instances too; no run is spent on them, as they are proved (section 5).

`DeadStaysDead` is about sessions that are out of the database, of the cache and of
every handler that is about to cache them; a cached session outlives its row until
its entry expires. `RoundTripEnds` excepts a port that is broken.

Deadlock is not checked except in `MCKeyCustody`: in the other systems the pages
may all be closed, or the work done, and then nothing happens.

### Fairness

* `PeerTransfer`: weak fairness of the sender's handlers and of the receiver's. The
  event loop, the workers and IndexedDB answer. People and failures are under no
  fairness.
* `Signaling`: weak fairness of `Works` as a whole (server, pages, WebRTC).
  Every behaviour does only finitely much work, so no part is starved.
* `RoundTrip`: weak fairness of the next step. Every call is answered or fails,
  every message is taken, and behaviours are finite. A read that never answers
  (`port = "broken"`) is excepted by `RoundTripEnds`, as the code has no timeout
  there.
* `AuthSessions`: weak fairness of calls in general and of sign-outs, since a
  call is answered or given up (timeout of 10 s in `API.ts`). Expiry, sign-out
  by the user, and change of password need not happen.
* `Settings`: weak fairness of each tab's calls and of the end of the cool-down,
  which is a timer. Strong fairness of `Confirm` is an assumption about the user:
  who can again and again type a code that works does so at some time. No fairness
  is assumed of mails: that one arrives in the end comes from `MaxTroubles`.
* `Transfers`, `KeyCustody` and `Pages` have safety properties only.

## 4. Findings

Each is the counterexample of a run that checks this one property.

1. `ChunksInPlace` under further calls (PeerTransferManager.ts:1012). "We just
   trust the index we were given by our own state." (line 1038) is right as
   long as there is one call; when another join replaces the channel, a chunk of
   the old one can be stored in the place of another.
2. `UploadedIntact` (fileService.ts:155). A retry cuts its parts from the start
   of the block, as if the successful ones were not there; the file becomes
   UPLOADED with wrong contents. Its download does not decrypt
   (`SavedIsOriginal` holds).
3. `KeysOpenFiles` (transfer.controller.ts:1730). Two tabs that fulfil the same
   request: the one that commits may write its keys to the transfer of the
   other.

### Observations

Met while modelling. They are in the modules, unless marked (o), and no run is
spent on them.

Peer to peer:

* `sendNextFileHeader` sets COMPLETED whether or not `TRANSFER_COMPLETE` was sent
  (PeerTransferManager.ts:703): a channel that closes while the last
  acknowledgement is decrypted leaves "Transfer complete!" on the sender's screen
  and nothing assembled on the receiver's.
* `loadState` reconstructs metadata from a field the server does not return
  (line 934; transfer.controller.ts:1233), so a reloaded receiver asks for no
  RESUME and the sender waits for one. For the same reason its page is "Ready to
  receive 0 files" (o), and `useP2PResumeState`, its dialog and `fileHandleStore`
  are never reached (o).
* Only the page that is already in the room hears `peer-joined` (line 1278): a
  receiver who comes first and a sender who comes second wait for each other.
* A file removed from the form is still sent; the submit button stays enabled, so
  two clicks make two sessions and two mails, and the sender joins the room of
  the last.
* A repeated query whose presigned picture addresses differ closes a manager
  that was started, for good; leaving the page then closes nothing, and an error
  of a file that is assembled after that is shown to nobody.
* A state of CLOSED becomes COMPLETED when the last acknowledgement was in
  decryption while the channel closed.
* COMPLETED becomes CLOSED on the screen when the sender leaves; the backend's
  schema refuses empty files, which the form accepts (o).

Upload and download:

* `initializeUpload` refuses while another upload runs, and the transfer goes on:
  two uploads count into one total, beyond 100 %. `onError` aborts the controller
  of the last rendering, so tasks of the rejected run go on.
* A failed archive is still closed; `ArchiveBreaks` resolves as success; a stream
  that breaks hangs; a failed request shows no event. A file of size 0 is UPLOADED
  and has no download address (file.controller.ts:470).

Transfers, links and recipients:

* The details page of an e-mail transfer that was sent to guests only reads the
  first of an empty list (TransferDetailsView.tsx:97-105) (o).
* On the link page a corrected fragment decrypts, but `isKeyDecryptFailed` is
  never reset; a password edited while it is tried shows files that do not
  download.
* A first count that is under way when a mark is answered is not repeated; a list
  fetched before a mark may show the transfer as new until its next fetch.
* The API takes `logo` in the body of the brand settings (user.controller.ts:232,
  274); the app's form does not send it, and `Images` has what the app does (o).
* Search in the lists replaces the direction filter, and the status filter its
  exclusion of PENDING (o).

Accounts:

* `changePassword` and `register` do not await their transactions. A change may
  abort after it was announced, and revokes a newer session of the same browser.
* A sign-out whose `deleteWrappedKey` rejects (KeyStore.ts:41-50) leaves a tab that
  shows its user, with cleared workers and no cookie, until it is loaded again
  (authStore.ts:165 swallows the error).
* `logout` omits the cookies' domain when it clears them (auth.controller.ts:529).
* `primaryKeys` of the auth store is not renewed after a change: a second change
  in the same tab wants the password before the first.
* A `refreshUser` that fails leaves a tab authenticated without a user or key
  (`blind`). A sign-in whose `putLocalSessionKey` fails, or that another tab
  crosses, makes the next reload sign out with a valid session.
* Two tabs may get two codes in one cool-down; the verification page of a second
  tab stays after "already verified".
* `uploadImageToS3` does not look at the answer, so a refused PUT is confirmed
  (the logo mark's `axios.put` does look). A deletion that races an upload clears
  the new key.

## 5. What is proved

A theorem is about every value of the constants that its assumptions allow. Each
module of proofs is built alike: an inductive invariant (`IInv`, in `PeerTransferProofs`
also `ResumeInv`, in `BlockUploadProofs` also `WholeInv`); a lemma that the initial states satisfy it; a lemma per action or
group of actions, with a step per part that they can disturb; `Invariance`, the
temporal step; and the theorems below, which follow from it. TLC has checked every
one of these invariants on the instance of the module's run.

| Module | Theorem | Says |
|---|---|---|
| `PeerTransferProofs` | `TypeCorrect` | `Spec => []TypeOK` |
| | `OneAtATime` | `Spec => []StopAndWait` |
| | `NoChunkMisplaced` | `Spec => []ChunksInPlace` |
| | `SenderBehindStore` | `Spec => []SenderNeverAhead` |
| | `SavedBehindStore` | `Spec => []SavedProgressIsStored` |
| | `NeverBothWaiting` | `Spec => []SomebodyMoves` |
| | `NothingGarbled` | `Spec => []DeliveredIntact` |
| | `CompletedImpliesStored` | `Spec => CompletedMeansStored` (action property) |
| | `DeliversWhatWasSent` | `Spec => ImplementsDelivery` (refinement of `FileDelivery`) |
| | `ResumeTypesHold` | `ResumeSpec => []ResumeTypeOK` |
| | `NothingIsDeliveredEarly` | `ResumeSpec => []NothingDeliveredEarly` |
| `SignalingProofs` | `TypesHold` | `Spec => []SignalingTypeOK` |
| | `NoCandidateIsStranded` | `Spec => []NoCandidateStranded` |
| | `OnePairNeverFails` | `Spec => []OneTabNeverFails` |
| `BlockUploadProofs` | `PiecesCoverLength` | the pieces of a length add up to it |
| | `TypesHold` | `Spec => []UploadTypeOK` |
| | `RecordedBlocksAreStored` | `Spec => []RecordedIsStored` |
| | `FirstTriesAreIntact` | `Spec => []FirstTryIntact` |
| | `RoundTripInvariance` | `RoundTripSpec => []WholeInv` |
| | `SavedFilesAreOriginals` | `RoundTripSpec => []SavedIsOriginal` |
| | `ShortArchivesAreTold` | `RoundTripSpec => []ShortArchiveIsTold` |
| | `WholeBlocksAreDecrypted` | `RoundTripSpec => []BlockReadWhole` |
| | `RoundTripTypesHold` | `RoundTripSpec => []RoundTripTypeOK` |
| `TransfersProofs` | `TypesHold` | `Spec => []TransfersTypeOK` |
| | `ActiveTransfersAreComplete` | `Spec => []ActiveIsComplete` |
| | `ActiveTransfersHaveTheirKeys` | `Spec => []ActiveHasItsKeys` |
| | `FulfilledRequestsAreActive` | `Spec => []FulfilledIsActive` |
| `AuthSessionsProofs` | `TypesHold` | `Spec => []AuthTypeOK` |
| | `NobodyIsSignedOutUnasked` | `Spec => []SignedOutForAReason` |
| | `SignOutsAreThorough` | `Spec => []SignOutIsThorough` |
| | `TheDeadStayDead` | `Spec => DeadStaysDead` (action property) |
| `KeyCustodyProofs` | `TypesHold` | `Spec => []CustodyTypeOK` |
| | `TheKeyIsAtHand` | `Spec => []KeyAtHand` |
| | `ReloadsAloneReopen` | `Spec => ReopensAlone` (action property) |
| `PagesProofs` | `TypesHold` | `Spec => []PagesTypeOK` |
| | `MarksAndListsAgreeAlways` | `Spec => []MarksAndListsAgree` |
| | `ShownFilesOpen` | `Spec => []ShownOpens` |
| | `PromisesAreKept` | `Spec => []PromisedFilesArrive` |
| | `ProgressStaysTrue` | `Spec => []ProgressIsTrue` |
| | `GuestsKeepTheirKeys` | `Spec => GuestKeysStay` (action property) |
| `SettingsProofs` | `TypesHold` | `Spec => []SettingsTypeOK` |
| | `PicturesAreThere` | `Spec => []PictureIsThere` |

`DeliveredIntact` has no run of its own: `ImplementsDelivery`, which
`MCPeerTransfer` checks, contains it. What a property excepts its theorem excepts
too: `MarksAndListsAgreeAlways` the lists and counts that a mark overtook,
`ShownFilesOpen` what was edited since it was tried, `PromisesAreKept` a sender who
was called for again and a page that was left, `ProgressStaysTrue` uploads that
overlap, `TheKeyIsAtHand` the tabs in `blind`, `TheDeadStayDead` sessions that are
still cached. In the last column `Spec` is the specification of
the module that is proved about (`PagesSpec`, `SettingsSpec`).

### Assumptions

They are stated beside the constants and evaluated by the runs. Those that say more
than what a constant ranges over:

* `PeerTransfer`: at least one file (the screen starts no empty transfer); only a
  file with chunks can have a short last one.
* `BlockUpload`: blocks, parts, overhead and the limit of tasks are not 0.
* `KeyCustody`: finitely many tabs and more fragments than can be in use at once, as a
  new one is always found (it is random in the code).
* `RoundTrip`: the two files are different, and neither is "none", the name that a job
  without a file has.
* `Settings`: there is at least one picture. `UploadPage`: finitely many parts.
* `Signaling`: who calls is the sender (the screens decide both by the same field).

The bounds that keep the instances finite (`MaxCalls`, `MaxRuns`, `MaxMishaps`, ...) are
constants like the others: nothing is assumed of their size.

### PeerTransfer: where a chunk belongs

None of the invariants is inductive by itself. The place of a chunk depends on the
receiver's counters being those of the sender at the moment the chunk is handled, which
depends on nothing else being under way. `IInv` is `TypeOK` and:

* `Counts`: how the sender's place in its queue is related to the receiver's
  list of files and to the acknowledgements on both sides;
* `Flight`: the one message, chunk or handler at work that may be under way, and
  what the counters are while it is of each kind (at most one, therefore
  `StopAndWait`);
* `Stored`: what the receiver counts, and has not yet assembled, is in the store;
* `Saved`: what the saved progress claims is no more than that;
* `Assembled`: each run of the assembly holds a prefix of the file it is at,
  and the delivered files are whole.

Bag arithmetic is reduced to a few lemmas: adding to and removing from an empty
or a one-element bag. The refinement maps `acked` to the receiver's last
acknowledgements and `handed` to the delivered files; a step that acknowledges
a stored chunk is `ReceiveChunk`, a step that delivers is `HandOver`, everything
else stutters.

With further calls (`PeerResume`) most of this is no longer true: two channels' messages
are under way, and a chunk may land in the place of another (finding 1). `ResumeInv` is
what is left: types; the messages under way name files there are (`Mail`); who is
COMPLETED, has TRANSFER_COMPLETE under way or assembles belongs to a sender who is through
its queue, from which no call or RESUME takes it back (`Ended`); the number of calls
(`Counted`).

### Signaling: nothing waits for ever, and nobody is failed

A candidate that comes before the remote description is queued, and the queue is
drained by the handler of the offer or of the answer. The proof follows who may be where
(`RolesOfTasks`, `RolesOfMessages`: only one side calls), that a page with a remote
description and a queue is inside such a handler and will get to the end of it
(`Awaited`), and that a closed page does nothing (`Quiet`). `OneTabNeverFails` needs that
with a page of each user there is one call, which is in one place at a time (`OneCall`):
nowhere (`Silent`), an event that waits for a page (`Ringing`), a handler
(`Handling`), or with the server (`Relaying`).

### BlockUpload: every byte in its place

Tasks share `previousEnd`, each adding its block's size when it starts. `Slices`
says what that amounts to: it is the end of the last block that was started, so block
`b` begins at `MaxBlockSize * (b - 1)` whichever tasks go on first. That rests on lemmas
of `BlockLayout` (no piece is empty or too long, and `PiecesCoverLength`), which are
inductions; each is done without an induction theorem, from the least number for which
the claim would fail. `Arrived` relates what a task still has to do to the parts that have
arrived, and says of a block that was not retried that each part is the range it should
be; a retry breaks this (finding 2), not the rest. `Served` says that the server handles
and records blocks that are whole only, although their browser may have given up.

### RoundTrip: what is saved is what was sent

Once the upload is done, no task, retry or handler of it is left (`Finished`,
`FinishedStays`), and with `Served` and `Slices` its objects are the blocks of the
original file, in order (`Found`); from then on only the download moves. What it has
written of a file are all chunks of the blocks before the one at work and, while that is
being written, as many of its own as the port has passed on: `Copied` with the counts
that `JobOK` gives for each stage. The count of the port is what it was given, without
what its two sides still hold (`Taken`). It is exact because a port holds a chunk only
while nothing is asked for (`PortOK`): so the end of a stream, which errors one that
still holds something, finds nothing (`EndCloses`). That needs `HighWater` to be 1, as
it is in the code's streams. The place of a chunk, `Chunks * (b - 1) + i`, takes the
place of an induction over the blocks. On the way into the worker the same count gives
what it holds (`HeldOK`), hence `BlockReadWhole`: a download fails to decrypt only for a
key or an object that is not the right one, never for what a port did with its messages.

`PageOK` says where each wanted file is: closed, at work, or queued and untouched.
A running page has either a job or an archive that is closing, never neither; so when
a page resolves every file is closed, and an archive that closes without one of them
does so after the job has failed the download. Whether the files that the page wants
have blocks at all is known when the addresses have come, and before the first job.

### Transfers: what ACTIVE means

`FilesFit` follows the files of a tab along its run. `OwnCommits` says that a link or an
e-mail transfer is committed by its own tab, after its last file; `Aimed` that requests and
their handlers point to transfers made for them; `SharedCommits` that a request's transfer
has keys, and those of its own tab if one tab alone fulfils the request (otherwise
finding 3). `Fulfilled` covers what pages show of a request, however old.

### AuthSessions and KeyCustody: who is in, and with what key

`Gone` says that a cookie or token is missing only where the session is deleted, so a
renewal is refused only for a `Reasons` in the browser's past; `Loading` that a tab that
is being set up has nothing else under way. `DeadStaysDead` is then a matter of each
step: what is in neither database nor cache nor handler is put into none.

The two halves of the key belong together (`Paired`) when no section over them is under
way and none was cut off. That is kept because a section that is alone is the only one
that writes (`Secluded`), and has, by where it is, done its part (`Alone`). `KeyAtHand`
follows from what the auth store says at each stage of an operation (`Held`).

### Pages: answers that are old when they come

A step is one of a single kind of page, so `IInv` is the conjunction of four.
`EmailInv`: an answer on its way to a tab was given by a database that has not gone back
(`OnTheWay`), and what is under way without knowing of an answered mark is `overtaken`
(`Marked`). `LinkInv`: what is tried is what address and input hold, unless they were
edited (`Tried`). `PeerInv`: the files of a session are among those its page sends
(`Promised`), and as long as the sender was called for once, each of those is announced
to the page that is connected or still in the queue (`Announced`). `ProgressInv`: while
the runs do not overlap (`Own`), the bytes in the store are those of the parts of the
latest, each by its fate (`Counted`), and the total is their sum over the set of parts,
for which the effect of one part on a sum is proved by the same least-element argument.

### Settings: keys never come back

The key of an upload is in no column until the update that puts it there (`New`), and
once it is replaced it is in none again (`Replaced`, `OneColumn`): so the object that a
discarding tab deletes is named by nobody, whatever the other tabs are doing. `Stored` says
where the object of a key that is about to be confirmed is.

### Only model-checked

* Liveness: `EventuallyDelivered`, `SenderFirstConnects`, `LeaveReachesRoom`,
  `RoundTripEnds`, `EveryRequestSettles`, `VerifiedInTheEnd`. The
  prover handles neither fairness nor ENABLED.
* What the sums and folds are for a given input is proved where it is needed
  (`PiecesCoverLength`, the total of `UploadPage`), not as theorems about the library's
  operators.

## 6. What is abstracted or left out

* OpenPGP, SRP and bcrypt are exact and opaque, except for the 72 bytes above: a
  key opens with what it is sealed with, an object decrypts when it is all of
  what was encrypted, in order.
* zip.js and StreamSaver are their entries and sinks, which may break; the object
  store is a set of objects under keys, which may refuse; React Query is when it
  repeats, cancels and drops a query (marked external in the map).
* Chunk, part and block sizes are units.
* Speed and time left, buffering (`waitForBuffer` never waits for more
  than the one chunk `StopAndWait` allows), toasts, logs.
* The sender's own `loadState` finds no progress: no screen comes back to a session
  with its files at hand. `Init` is what it leaves then.
* Peer-to-peer: a page closed while `startTransfer` runs leaves a manager
  behind that goes on; a `joined` that arrives late can move a manager from
  CONNECTION_ESTABLISHED back to WAITING_FOR_PEER. Both are in `Signaling`,
  neither contradicts anything the code or its documents say.
* `PeerSession` takes the life of a connection as one step each (`Signaling`,
  `PeerTransfer` have its inside), and the page of a transfer that was left with
  its files still being assembled as the last one.
* One-time codes: the limit on confirmations and codes for a change of password
  (`KeyCustody` starts a change with a code that was confirmed).
* Worker pool: each call is one step. Workers that are cleared one await at a
  time while `getWorker` hands them out, and calls to a terminated worker that
  never settle, concern a user who signs out during a call and then sees no page
  that waits for it.
* Lists, search, filters, home, analytics, notifications: one read each, or mail
  sent after the state has changed, whose failure changes nothing.
* Saved peer-to-peer state and file handles: reached by no screen (see
  observations).
* Configuration, deployment, drawing: no state that steps can get wrong.

## 7. Plan

All components with a state of their own are modelled, and every safety property that a
passing run checks is proved. What would say more:

1. A `Downloads` whose streams hold any number of chunks: which answers may then be
   under way when the last one comes.
2. An abstract specification of `RoundTrip` (a file is sent, then it is saved or the
   recipient is told) as a refinement, as `FileDelivery` is for the way from browser to
   browser.
