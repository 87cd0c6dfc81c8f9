----------------------------- MODULE PagesProofs -----------------------------
(***************************************************************************)
(* Proofs about Pages, for any tabs, approvals, files, runs and parts.  A   *)
(* step is one of a single kind of page, so that the inductive invariant   *)
(* IInv is the conjunction of four, each kept by the steps of its own page  *)
(* and by those that leave its variables alone.                            *)
(***************************************************************************)
EXTENDS Pages, FiniteSetTheorems, SequenceTheorems, WellFoundedInduction, TLAPS

-----------------------------------------------------------------------------
(* The inductive invariant *)

\* A guest has accepted whatever approval is under way.
Accepted == approving # {} => invite = "ACCEPTED"

\* What is on its way to a tab is not listed or counted before it is received.
OnTheWay(t) ==
  \/ {fetch[t]["list"], fetch[t]["count"]} \cap {"viewed", "unviewed"} = {}
  \/ Received

\* Calls are bounded, and an answered one has marked the transfer; what is on its way and does
\* not know of that has been overtaken.
Marked(t) ==
  /\ Calls(marks[t]) <= MaxMarks
  /\ marks[t].answered > 0 => viewed
  /\ t \in told => viewed
  /\ \A q \in {"list", "count"} : t \in told /\ fetch[t][q] = "unviewed" => q \in overtaken[t]

\* What MarksAndListsAgree says of a tab
Agrees(t) ==
  /\ {cache[t]["list"], cache[t]["count"]} \cap {"viewed", "unviewed"} # {} => Received
  /\ t \in told /\ cache[t]["count"] = "unviewed" => t \in invalid \/ "count" \in overtaken[t]
  /\ t \in told /\ cache[t]["list"] = "unviewed" => "list" \in overtaken[t]
  /\ page[t] /\ cache[t]["details"] = "unviewed" /\ t \notin unlucky => Calls(marks[t]) > 0

TabInv(t) == OnTheWay(t) /\ Marked(t) /\ Agrees(t)

EmailInv == EmailTypeOK /\ Accepted /\ \A t \in Tab : TabInv(t)

\* A link without a password has no input for one.
Plain == ~link.protected => password = "none"

\* What is tried, or has opened the key, is what address and input hold, unless they were
\* changed.
Tried ==
  ~edited =>
    /\ \A c \in checks : c = <<fragment, password>>
    /\ decrypted /\ ~failed => Opening(<<fragment, password>>)

LinkInv == LinkTypeOK /\ Plain /\ Tried

\* What a session was made for is among the files of the sender's page, which no longer
\* change when there is a manager.
Promised ==
  /\ \A i \in DOMAIN calls : calls[i].files \subseteq picked
  /\ outgoing # "none" => screen # "form"
  /\ visiting => visited \in DOMAIN calls

\* As long as the sender was called for once, each file is announced to the page that is
\* connected, or still will be.
Announced ==
  ~recalled =>
    /\ outgoing \in {"joining", "waiting", "calling"} => queue = picked
    /\ outgoing = "open" /\ incoming = "connected" => picked \subseteq headed \cup queue
    /\ ending => outgoing \in {"completed", "closed"}
    /\ ending /\ incoming = "connected" => picked \subseteq headed

PeerInv == PeerSessionTypeOK /\ Promised /\ Announced /\ PromisedFilesArrive

\* A run has no part under way before its file is begun, and the store says "uploading" only
\* while some run is.
Begun ==
  /\ \A u \in Run : run[u] \in {"idle", "initiating"} => \A p \in Part : part[u][p] = "waiting"
  /\ uploading => \E u \in Run : run[u] \in {"initiating", "running"}

\* A part of the last run that was started: its bytes are in the store as long as it flies,
\* and all of them when it has been uploaded.
Counted(p) ==
  /\ part[latest][p] = "waiting" => loaded[p] = Absent
  /\ part[latest][p] = "flying" => loaded[p] # Absent
  /\ part[latest][p] = "uploaded" => loaded[p] = PartSize

AllLoaded == MapThenSumSet(Loaded, Part)

\* As long as that run is the only one with tasks
Own ==
  /\ \A v \in Run : v # latest => ~HasTasks(v)
  /\ run[latest] # "idle" /\ (run[latest] \in {"running", "rejected"} => mapped)
  /\ run[latest] = "done" => \A p \in Part : part[latest][p] = "uploaded"
  /\ \A p \in Part : Counted(p)
  /\ total = AllLoaded

ProgressInv == UploadPageTypeOK /\ Begun /\ (alone /\ latest # NoRun => Own)

IInv == EmailInv /\ LinkInv /\ PeerInv /\ ProgressInv

-----------------------------------------------------------------------------
(* The page of a link *)

LEMMA WhatIsTried ==
  ASSUME NEW data, NEW f, NEW before
  PROVE  /\ before \subseteq Tries(data, f, before)
         /\ \A c \in Tries(data, f, before) : c \in before \/ (c = <<f, "none">> /\ ~link.protected)
         /\ ~data => Tries(data, f, before) = before
BY DEF Tries

LEMMA LinkStep ==
  ASSUME LinkInv, LinkNext
  PROVE  LinkInv'
<1> USE DEF LinkInv, LinkTypeOK, Plain, Tried, Opening, Word, pageState, formVars
<1>1. ASSUME NEW f \in {"right", "wrong"}, OpenLink(f)  PROVE LinkInv'
  <2>1. \A c \in checks' : c = <<f, "none">> /\ ~link.protected
    BY <1>1, WhatIsTried DEF OpenLink
  <2>2. query' \in {query, "pending"} /\ asking' \in BOOLEAN /\ link' = link
    BY <1>1 DEF OpenLink
  <2>3. LinkTypeOK'
    <3>1. <<f, "none">> \in Word \X Word
      OBVIOUS
    <3>2. checks' \subseteq Word \X Word
      BY <2>1, <3>1
    <3> QED BY <1>1, <2>2, <3>2 DEF OpenLink
  <2> QED BY <1>1, <2>1, <2>2, <2>3 DEF OpenLink
<1>2. ASSUME NEW f \in {"right", "wrong"}, EditAddress(f)  PROVE LinkInv'
  <2>1. \A c \in checks' : c \in checks \/ (c = <<f, "none">> /\ ~link.protected)
    BY <1>2, WhatIsTried DEF EditAddress
  <2>2. LinkTypeOK' /\ edited'
    <3>1. f \in Word /\ <<f, "none">> \in Word \X Word
      OBVIOUS
    <3>2. checks' \subseteq Word \X Word
      BY <2>1, <3>1
    <3> QED BY <1>2, <3>1, <3>2 DEF EditAddress
  <2> QED BY <1>2, <2>2 DEF EditAddress
<1>3. ASSUME NEW p \in {"right", "wrong"}, TypePassword(p)  PROVE LinkInv'
  BY <1>3 DEF TypePassword
<1>4. CASE LinkFound
  <2>1. \A c \in checks' : c \in checks \/ (c = <<fragment, "none">> /\ ~link.protected)
    <3>1. checks' = Tries(TRUE, fragment, checks) \/ checks' = checks
      BY <1>4 DEF LinkFound
    <3>2. \A c \in Tries(TRUE, fragment, checks) :
            c \in checks \/ (c = <<fragment, "none">> /\ ~link.protected)
      BY WhatIsTried, Zenon
    <3> QED BY <3>1, <3>2
  <2>2. checks' \subseteq Word \X Word
    <3>1. <<fragment, "none">> \in Word \X Word
      OBVIOUS
    <3> QED BY <2>1, <3>1
  <2> QED BY <1>4, <2>1, <2>2 DEF LinkFound
<1>5. CASE LinkRefused
  <2>1. LinkAccess \in {"not found", "forbidden", "unauthorized", "data"}
    BY DEF LinkAccess
  <2> QED BY <1>5, <2>1 DEF LinkRefused
<1>6. CASE LinkBreaks
  BY <1>6 DEF LinkBreaks
<1>7. CASE Unlock
  <2>1. checks' = {<<fragment', password'>>} /\ ~decrypted' /\ link.protected
    BY <1>7 DEF Unlock
  <2>2. LinkTypeOK'
    <3>1. <<fragment, password>> \in Word \X Word
      OBVIOUS
    <3> QED BY <1>7, <3>1 DEF Unlock
  <2> QED BY <1>7, <2>1, <2>2 DEF Unlock
<1>8. ASSUME NEW c \in checks, CheckOpens(c)  PROVE LinkInv'
  <2>1. \A d \in checks' : d \in checks \/ (d = <<fragment, "none">> /\ ~link.protected)
    <3>1. checks' = Tries(query = "data" /\ ~decrypted, fragment, checks \ {c})
      BY <1>8 DEF CheckOpens
    <3>2. \A d \in checks' : d \in checks \ {c} \/ (d = <<fragment, "none">> /\ ~link.protected)
      BY <3>1, WhatIsTried, Zenon
    <3> QED BY <3>2
  <2>2. LinkTypeOK' /\ Plain'
    <3>1. checks' \subseteq Word \X Word
      <4>1. <<fragment, "none">> \in Word \X Word
        OBVIOUS
      <4> QED BY <2>1, <4>1
    <3> QED BY <1>8, <3>1 DEF CheckOpens
  <2>3. Tried'
    BY <1>8, <2>1 DEF CheckOpens
  <2> QED BY <2>2, <2>3
<1>9. ASSUME NEW c \in checks, CheckFails(c)  PROVE LinkInv'
  BY <1>9 DEF CheckFails
<1>10. CASE SignInFromLink \/ LeaveLink \/ LinkExpires
  <2>1. CASE SignInFromLink
    BY <2>1 DEF SignInFromLink
  <2>2. CASE LeaveLink
    BY <2>2 DEF LeaveLink
  <2>3. CASE LinkExpires
    BY <2>3 DEF LinkExpires
  <2> QED BY <1>10, <2>1, <2>2, <2>3
<1>11. CASE LinkCommits
  <2>1. link' = [link EXCEPT !.status = "ACTIVE"] /\ link'.protected = link.protected
    BY <1>11 DEF LinkCommits
  <2>2. LinkTypeOK'
    BY <1>11, <2>1 DEF LinkCommits
  <2> QED BY <1>11, <2>1, <2>2 DEF LinkCommits
<1> QED
  BY <1>1, <1>2, <1>3, <1>4, <1>5, <1>6, <1>7, <1>8, <1>9, <1>10, <1>11 DEF LinkNext

LEMMA LinkOpens ==
  ASSUME LinkInv
  PROVE  ShownOpens
BY DEF LinkInv, Tried, ShownOpens, Ready, OpensAnew

LEMMA LinkStill ==
  ASSUME LinkInv, UNCHANGED linkVars
  PROVE  LinkInv'
BY DEF LinkInv, LinkTypeOK, Plain, Tried, Opening, linkVars, pageState, formVars

-----------------------------------------------------------------------------
(* A session of two peers *)

LEMMA PeerStill ==
  ASSUME PeerInv, UNCHANGED peerVars
  PROVE  PeerInv'
BY DEF PeerInv, PeerSessionTypeOK, Promised, Announced, PromisedFilesArrive, peerVars, senderPage,
       receiverPage, formPageVars, visitVars, deliveryVars

\* The steps of the sender's page and of its manager
LEMMA SenderStep ==
  ASSUME PeerInv,
         \/ \E f \in File : PickFile(f) \/ RemoveFile(f)
         \/ ShowTransfer \/ JoinOutgoing \/ CloseOutgoing \/ LeaveSender
  PROVE  PeerInv'
<1> USE DEF PeerInv, PeerSessionTypeOK, Promised, Announced, PromisedFilesArrive, receiverPage,
            formPageVars, visitVars, deliveryVars
<1>1. ASSUME NEW f \in File, PickFile(f)  PROVE PeerInv'
  BY <1>1 DEF PickFile
<1>2. ASSUME NEW f \in File, RemoveFile(f)  PROVE PeerInv'
  BY <1>2 DEF RemoveFile
<1>3. CASE ShowTransfer
  BY <1>3 DEF ShowTransfer, Stored
<1>4. CASE JoinOutgoing \/ CloseOutgoing
  BY <1>4 DEF JoinOutgoing, CloseOutgoing
<1>5. CASE LeaveSender
  BY <1>5 DEF LeaveSender
<1> QED BY <1>1, <1>2, <1>3, <1>4, <1>5

\* The form's calls: an index that was in them still is, with the same files.
LEMMA CallStep ==
  ASSUME PeerInv, Submit \/ \E i \in DOMAIN calls : Mutate(i) \/ HandleCall(i)
  PROVE  PeerInv'
<1> DEFINE Call == [files : SUBSET File, stage : {"preparing", "sent", "stored", "failed"}]
<1> USE PeerSessionAssumption DEF PeerInv, PeerSessionTypeOK, Promised, Announced,
        PromisedFilesArrive, receiverPage, formPageVars, visitVars, deliveryVars
<1>1. CASE Submit
  <2>1. /\ Len(calls') = Len(calls) + 1 /\ Len(calls) \in Nat
        /\ \A i \in DOMAIN calls : i \in DOMAIN calls' /\ calls'[i] = calls[i]
        /\ \A i \in DOMAIN calls' : i \in DOMAIN calls \/ calls'[i].files = listed
    BY <1>1 DEF Submit
  <2>2. calls' \in Seq(Call)
    BY <1>1 DEF Submit
  <2>3. PeerSessionTypeOK'
    BY <1>1, <2>1, <2>2 DEF Submit
  <2> QED BY <1>1, <2>1, <2>3 DEF Submit
<1>2. ASSUME NEW i \in DOMAIN calls, Mutate(i) \/ HandleCall(i)  PROVE PeerInv'
  <2>1. PICK s \in {"sent", "stored", "failed"} : calls' = [calls EXCEPT ![i].stage = s]
    BY <1>2 DEF Mutate, HandleCall, Becomes
  <2>2. /\ DOMAIN calls' = DOMAIN calls /\ Len(calls') = Len(calls)
        /\ \A j \in DOMAIN calls : calls'[j].files = calls[j].files
    BY <2>1
  <2>3. calls' \in Seq(Call)
    <3>1. calls \in Seq(Call) /\ i \in 1..Len(calls)
      OBVIOUS
    <3>2. calls[i] \in Call
      <4> HIDE DEF Call
      <4> QED BY <3>1, ElementOfSeq
    <3>3. [calls[i] EXCEPT !.stage = s] \in Call
      BY <3>2
    <3> HIDE DEF Call
    <3>4. [calls EXCEPT ![i] = [calls[i] EXCEPT !.stage = s]] \in Seq(Call)
      BY <3>1, <3>3, ExceptSeq
    <3> QED BY <2>1, <3>4
  <2>4. /\ mutated' \in {mutated, i} /\ i \in 0..Len(calls)
        /\ UNCHANGED <<screen, picked, listed, mine, outgoing, queue, recalled, receiverPage>>
    BY <1>2 DEF Mutate, HandleCall
  <2>5. PeerSessionTypeOK'
    BY <2>2, <2>3, <2>4
  <2> QED BY <2>2, <2>4, <2>5
<1> QED BY <1>1, <1>2

\* The steps of the receiver's page and of its manager
LEMMA VisitStep ==
  ASSUME PeerInv,
         \/ \E i \in DOMAIN calls : Visit(i)
         \/ Start \/ JoinIncoming \/ DataChange \/ CloseIncoming \/ LeaveVisit \/ CloseVisit
  PROVE  PeerInv'
<1> USE DEF PeerInv, PeerSessionTypeOK, Promised, Announced, PromisedFilesArrive, senderPage,
            formPageVars, visitVars, deliveryVars
<1>1. ASSUME NEW i \in DOMAIN calls, Visit(i)  PROVE PeerInv'
  <2>1. visited' = i /\ i \in 0..Len(calls) /\ calls' = calls
    BY <1>1 DEF Visit
  <2>2. PeerSessionTypeOK'
    BY <1>1, <2>1 DEF Visit
  <2>3. Promised' /\ Announced' /\ PromisedFilesArrive'
    BY <1>1 DEF Visit
  <2> QED BY <2>2, <2>3
<1>2. CASE Start
  BY <1>2 DEF Start
<1>3. CASE JoinIncoming
  BY <1>3 DEF JoinIncoming
<1>4. CASE DataChange
  BY <1>4 DEF DataChange
<1>5. CASE CloseIncoming
  BY <1>5 DEF CloseIncoming
<1>6. CASE LeaveVisit
  BY <1>6 DEF LeaveVisit
<1>7. CASE CloseVisit
  BY <1>7 DEF CloseVisit
<1> QED BY <1>1, <1>2, <1>3, <1>4, <1>5, <1>6, <1>7

\* The steps of the two managers
LEMMA DeliveryStep ==
  ASSUME PeerInv,
         Connect \/ SendComplete \/ TakeComplete \/ \E f \in File : SendFile(f) \/ HandOverFile(f)
  PROVE  PeerInv'
<1> USE DEF PeerInv, PeerSessionTypeOK, Promised, Announced, PromisedFilesArrive, senderPage,
            formPageVars, visitVars, deliveryVars
<1>1. CASE Connect
  BY <1>1 DEF Connect
<1>2. ASSUME NEW f \in File, SendFile(f)  PROVE PeerInv'
  <2>1. ~recalled => headed' = headed \cup {f}
    BY <1>2 DEF SendFile
  <2>2. headed' \subseteq File /\ queue' \subseteq File
    BY <1>2 DEF SendFile
  <2> QED BY <1>2, <2>1, <2>2 DEF SendFile
<1>3. CASE SendComplete
  BY <1>3 DEF SendComplete
<1>4. CASE TakeComplete
  BY <1>4 DEF TakeComplete
<1>5. ASSUME NEW f \in File, HandOverFile(f)  PROVE PeerInv'
  <2>1. visiting => (assembling \cup handed \cup reported)' = assembling \cup handed \cup reported
    BY <1>5 DEF HandOverFile
  <2>2. (assembling \cup handed \cup reported)' \subseteq File
    BY <1>5 DEF HandOverFile
  <2> QED BY <1>5, <2>1, <2>2 DEF HandOverFile
<1> QED BY <1>1, <1>2, <1>3, <1>4, <1>5

LEMMA PeerStep ==
  ASSUME PeerInv, PeerNext
  PROVE  PeerInv'
BY SenderStep, CallStep, VisitStep, DeliveryStep DEF PeerNext

-----------------------------------------------------------------------------
(* A transfer by e-mail *)

LEMMA EmailStill ==
  ASSUME EmailInv, UNCHANGED emailVars
  PROVE  EmailInv'
BY DEF EmailInv, EmailTypeOK, Accepted, OnTheWay, Marked, Agrees, TabInv, Calls, Received,
       emailVars, serverVars, inviteVars, tabVars

\* The steps of the server, the owner and the guest: the tab stays as it is.
LEMMA ServerStep ==
  ASSUME EmailInv, Commit \/ Expire \/ InviteStep
  PROVE  EmailInv'
<1> USE RecipientsAssumption DEF EmailInv, EmailTypeOK, serverVars, inviteVars, tabVars
<1>1. ASSUME UNCHANGED tabVars, viewed' = viewed, Received => Received'
      PROVE  \A t \in Tab : TabInv(t)'
  BY <1>1 DEF TabInv, OnTheWay, Marked, Agrees, Calls
<1>2. CASE Commit
  <2>1. EmailTypeOK' /\ Accepted' /\ (Received => Received') /\ viewed' = viewed /\ UNCHANGED tabVars
    BY <1>2 DEF Commit, Accepted, Received
  <2> QED BY <1>1, <2>1
<1>3. CASE Expire
  <2>1. EmailTypeOK' /\ Accepted' /\ (Received => Received') /\ viewed' = viewed /\ UNCHANGED tabVars
    BY <1>3 DEF Expire, Accepted, Received
  <2> QED BY <1>1, <2>1
<1>4. ASSUME NEW what \in {"accept", "approve"}, Offer(what) \/ Dismiss(what)  PROVE EmailInv'
  <2>1. EmailTypeOK'
    BY <1>4 DEF Offer, Dismiss, Taken
  <2>2. Accepted' /\ (Received => Received') /\ viewed' = viewed /\ UNCHANGED tabVars
    BY <1>4 DEF Offer, Dismiss, Taken, Accepted, Received
  <2> QED BY <1>1, <2>1, <2>2
<1>5. CASE CheckAcceptance
  <2>1. EmailTypeOK'
    BY <1>5 DEF CheckAcceptance, Taken
  <2>2. Accepted' /\ (Received => Received') /\ viewed' = viewed /\ UNCHANGED tabVars
    BY <1>5 DEF CheckAcceptance, Taken, Accepted, Received
  <2> QED BY <1>1, <2>1, <2>2
<1>6. CASE Accept
  <2>1. EmailTypeOK' /\ Accepted' /\ (Received => Received') /\ viewed' = viewed /\ UNCHANGED tabVars
    BY <1>6 DEF Accept, Accepted, Received
  <2> QED BY <1>1, <2>1
<1>7. ASSUME NEW a \in Approval, CheckApproval(a)  PROVE EmailInv'
  <2>1. EmailTypeOK'
    BY <1>7 DEF CheckApproval, Taken
  <2>2. Accepted' /\ (Received => Received') /\ viewed' = viewed /\ UNCHANGED tabVars
    BY <1>7 DEF CheckApproval, Taken, Accepted, Received
  <2> QED BY <1>1, <2>1, <2>2
<1>8. ASSUME NEW a \in Approval, Approve(a)  PROVE EmailInv'
  <2>1. EmailTypeOK' /\ Accepted' /\ (Received => Received') /\ viewed' = viewed /\ UNCHANGED tabVars
    BY <1>8 DEF Approve, Accepted, Received
  <2> QED BY <1>1, <2>1
<1> QED BY <1>2, <1>3, <1>4, <1>5, <1>6, <1>7, <1>8 DEF InviteStep

LEMMA TabsAgree ==
  ASSUME EmailInv
  PROVE  MarksAndListsAgree
BY DEF EmailInv, EmailTypeOK, TabInv, Agrees, MarksAndListsAgree, ListedOpens,
   MarkedIsSeen, ShownIsMarked

\* A tab that a step leaves alone
LEMMA OtherTab ==
  ASSUME NEW u \in Tab, TabInv(u), Received => Received', viewed => viewed',
         page'[u] = page[u], cache'[u] = cache[u], fetch'[u] = fetch[u], marks'[u] = marks[u],
         u \in told' <=> u \in told, u \in invalid' <=> u \in invalid, u \in unlucky' <=> u \in unlucky,
         overtaken'[u] = overtaken[u]
  PROVE  TabInv(u)'
BY DEF TabInv, OnTheWay, Marked, Agrees, Calls

\* The calls of a tab stay within their bound.
LEMMA CallsAfter ==
  ASSUME NEW t, NEW isOpen, NEW data, NEW m \in [asked : 0..MaxMarks, answered : 0..MaxMarks],
         Calls(m) <= MaxMarks
  PROVE  LET n == MarkAfter(t, isOpen, data, m) IN
         /\ n \in [asked : 0..MaxMarks, answered : 0..MaxMarks]
         /\ Calls(n) <= MaxMarks /\ n.answered = m.answered /\ Calls(n) >= Calls(m)
         /\ isOpen /\ data # "none" /\ Calls(m) < MaxMarks => Calls(n) > 0
BY RecipientsAssumption DEF MarkAfter, Calls

\* The steps of a tab that move no call
LEMMA QueryStep ==
  ASSUME EmailInv, NEW t \in Tab,
         CloseDetails(t) \/ \E q \in Query : Ask(t, q) \/ FetchFails(t, q)
  PROVE  EmailInv'
<1> USE DEF EmailInv, EmailTypeOK, serverVars, inviteVars
<1>1. CASE CloseDetails(t)
  <2>1. EmailTypeOK' /\ Accepted'
    BY <1>1 DEF CloseDetails, Accepted
  <2>2. ASSUME NEW u \in Tab  PROVE TabInv(u)'
    BY <1>1 DEF CloseDetails, TabInv, OnTheWay, Marked, Agrees, Calls, Received
  <2> QED BY <2>1, <2>2
<1>2. ASSUME NEW q \in Query, Ask(t, q)  PROVE EmailInv'
  <2>1. Answer(q) \in {"refused", "absent", "unviewed", "viewed"}
    BY DEF Answer, DetailsAnswer, ListAnswer, CountAnswer, Seen, Query
  <2>2. fetch' = [fetch EXCEPT ![t][q] = Answer(q)]
    BY <1>2 DEF Ask
  <2>3. EmailTypeOK' /\ Accepted'
    BY <1>2, <2>1, <2>2 DEF Ask, Accepted
  <2>4. /\ q # "details" => Answer(q) \notin {"viewed", "unviewed"} \/ Received
        /\ q # "details" /\ viewed => Answer(q) # "unviewed"
    BY DEF Answer, ListAnswer, CountAnswer, Seen, Query
  <2>5. ASSUME NEW u \in Tab  PROVE TabInv(u)'
    <3>1. OnTheWay(u)'
      BY <1>2, <2>2, <2>4 DEF Ask, TabInv, OnTheWay, Received, Query
    <3>2. Marked(u)'
      BY <1>2, <2>2, <2>4 DEF Ask, TabInv, Marked, Calls, Query
    <3>3. Agrees(u)'
      BY <1>2 DEF Ask, TabInv, Agrees, Calls, Received
    <3> QED BY <3>1, <3>2, <3>3 DEF TabInv
  <2> QED BY <2>3, <2>5
<1>3. ASSUME NEW q \in Query, FetchFails(t, q)  PROVE EmailInv'
  <2>1. EmailTypeOK' /\ Accepted'
    BY <1>3 DEF FetchFails, Accepted
  <2>2. ASSUME NEW u \in Tab  PROVE TabInv(u)'
    BY <1>3 DEF FetchFails, TabInv, OnTheWay, Marked, Agrees, Calls, Received, Query
  <2> QED BY <2>1, <2>2
<1> QED BY <1>1, <1>2, <1>3

\* The page opens, or details arrive: the transfer may be marked.
LEMMA ShowStep ==
  ASSUME EmailInv, NEW t \in Tab, OpenDetails(t) \/ \E q \in Query : Arrive(t, q)
  PROVE  EmailInv'
<1> DEFINE M == [asked : 0..MaxMarks, answered : 0..MaxMarks]
<1> USE DEF EmailInv, EmailTypeOK, serverVars, inviteVars
<1>1. marks[t] \in M /\ Calls(marks[t]) <= MaxMarks
  BY DEF TabInv, Marked
<1>2. CASE OpenDetails(t)
  <2> DEFINE n == MarkAfter(t, TRUE, cache[t]["details"], marks[t])
  <2>1. /\ n \in M /\ Calls(n) <= MaxMarks /\ n.answered = marks[t].answered
        /\ cache[t]["details"] # "none" => Calls(n) > 0
    BY <1>1, <1>2, RecipientsAssumption DEF OpenDetails, MarkAfter, Calls
  <2>2. marks' = [marks EXCEPT ![t] = n]
    BY <1>2 DEF OpenDetails
  <2> HIDE DEF n
  <2>3. EmailTypeOK' /\ Accepted'
    BY <1>2, <2>1, <2>2 DEF OpenDetails, Accepted
  <2>4. \A u \in Tab : OnTheWay(u)'
    BY <1>2 DEF OpenDetails, TabInv, OnTheWay, Received
  <2>5. ASSUME NEW u \in Tab  PROVE Marked(u)'
    <3>1. Calls(marks'[u]) <= MaxMarks /\ marks'[u].answered = marks[u].answered
      BY <2>1, <2>2 DEF TabInv, Marked
    <3> QED BY <1>2, <3>1 DEF OpenDetails, TabInv, Marked
  <2>6. ASSUME NEW u \in Tab  PROVE Agrees(u)'
    <3>1. page'[u] /\ cache[u]["details"] = "unviewed" /\ u \notin unlucky => Calls(marks'[u]) > 0
      <4>1. CASE u = t
        BY <2>1, <2>2, <4>1
      <4>2. CASE u # t
        <5>1. page'[u] = page[u] /\ marks'[u] = marks[u]
          BY <1>2, <2>2, <4>2 DEF OpenDetails
        <5> QED BY <5>1 DEF TabInv, Agrees
      <4> QED BY <4>1, <4>2
    <3> QED BY <1>2, <3>1 DEF OpenDetails, TabInv, Agrees, Received
  <2> QED BY <2>3, <2>4, <2>5, <2>6 DEF TabInv
<1>3. ASSUME NEW q \in Query, Arrive(t, q)  PROVE EmailInv'
  <2> DEFINE n == MarkAfter(t, page[t], fetch[t][q], marks[t])
  <2>1. cache' = [cache EXCEPT ![t][q] = fetch[t][q]] /\ fetch[t][q] \in {"absent", "unviewed", "viewed"}
    BY <1>3 DEF Arrive
  <2>2. cache'[t][q] = fetch[t][q]
    BY <2>1
  <2>3. /\ n \in M /\ Calls(n) <= MaxMarks /\ n.answered = marks[t].answered
        /\ page[t] /\ Calls(marks[t]) < MaxMarks => Calls(n) > 0
    BY <1>1, <2>1, CallsAfter
  <2>4. \/ q = "details" /\ marks' = [marks EXCEPT ![t] = n]
        \/ (q # "details" \/ cache[t][q] = fetch[t][q]) /\ marks' = marks
    <3>1. \/ /\ q = "details"
             /\ marks' = [marks EXCEPT ![t] = MarkAfter(t, page[t], cache'[t][q], marks[t])]
          \/ (q # "details" \/ cache[t][q] = fetch[t][q]) /\ marks' = marks
      BY <1>3 DEF Arrive
    <3> QED BY <2>2, <3>1
  <2> HIDE DEF n
  <2>5. marks' \in [Tab -> M]
    BY <2>3, <2>4
  <2>6. EmailTypeOK' /\ Accepted'
    <3>1. overtaken' \in [Tab -> SUBSET Query]
      BY <1>3 DEF Arrive
    <3>2. cache' \in [Tab -> [Query -> {"none", "absent", "unviewed", "viewed"}]]
      BY <2>1
    <3>3. fetch' \in [Tab -> [Query -> {"no", "refused", "absent", "unviewed", "viewed"}]]
      BY <1>3 DEF Arrive
    <3> QED BY <1>3, <2>5, <3>1, <3>2, <3>3 DEF Arrive, Accepted
  <2>7. \A u \in Tab : OnTheWay(u)'
    BY <1>3 DEF Arrive, TabInv, OnTheWay, Received, Query
  <2>8. \A u \in Tab : Marked(u)'
    BY <1>3, <2>3, <2>4 DEF Arrive, TabInv, Marked, Calls, Query
  <2>9. ASSUME NEW u \in Tab  PROVE Agrees(u)'
    <3>1. {cache[u]["list"], cache[u]["count"]}' \cap {"viewed", "unviewed"} # {} => Received'
      BY <1>3, <2>1 DEF Arrive, TabInv, OnTheWay, Agrees, Received, Query
    <3>2. /\ u \in told' /\ cache'[u]["count"] = "unviewed" => u \in invalid' \/ "count" \in overtaken'[u]
          /\ u \in told' /\ cache'[u]["list"] = "unviewed" => "list" \in overtaken'[u]
      BY <1>3, <2>1 DEF Arrive, TabInv, Marked, Agrees, Query
    <3>3. page'[u] /\ cache'[u]["details"] = "unviewed" /\ u \notin unlucky' => Calls(marks'[u]) > 0
      <4>1. CASE q = "details" /\ u = t
        <5>1. page[t] /\ fetch[t]["details"] = "unviewed" /\ t \notin unlucky => Calls(marks'[t]) > 0
          <6>1. CASE marks' = [marks EXCEPT ![t] = n]
            <7>1. marks'[t] = n /\ Calls(marks[t]) < MaxMarks
              BY <1>3, <4>1, <6>1 DEF Arrive
            <7> QED BY <2>3, <7>1
          <6>2. CASE cache[t]["details"] = fetch[t]["details"] /\ marks' = marks
            BY <6>2 DEF TabInv, Agrees
          <6> QED BY <2>4, <4>1, <6>1, <6>2
        <5>2. page' = page /\ unlucky' = unlucky /\ cache'[t]["details"] = fetch[t]["details"]
          BY <1>3, <2>2, <4>1 DEF Arrive
        <5> QED BY <4>1, <5>1, <5>2
      <4>2. CASE ~ (q = "details" /\ u = t)
        <5>1. cache'[u]["details"] = cache[u]["details"] /\ marks'[u] = marks[u]
          BY <2>1, <2>4, <4>2 DEF Query
        <5> QED BY <1>3, <5>1 DEF Arrive, TabInv, Agrees
      <4> QED BY <4>1, <4>2
    <3> QED BY <3>1, <3>2, <3>3 DEF Agrees
  <2> QED BY <2>6, <2>7, <2>8, <2>9 DEF TabInv
<1> QED BY <1>2, <1>3

\* A call reaches the server, fails, or is answered.
LEMMA MarkStep ==
  ASSUME EmailInv, NEW t \in Tab, Mark(t) \/ MarkFails(t) \/ MarkAnswered(t)
  PROVE  EmailInv'
<1> DEFINE M == [asked : 0..MaxMarks, answered : 0..MaxMarks]
<1> USE DEF EmailInv, EmailTypeOK, serverVars, inviteVars
<1>1. marks[t] \in M /\ Calls(marks[t]) <= MaxMarks
  BY DEF TabInv, Marked
<1>2. CASE Mark(t)
  <2> DEFINE n == [marks[t] EXCEPT !.asked = @ - 1, !.answered = @ + 1]
  <2>1. n \in M /\ Calls(n) = Calls(marks[t])
    BY <1>1, <1>2, RecipientsAssumption DEF Mark, Calls
  <2>2. marks' = [marks EXCEPT ![t] = n]
    BY <1>2 DEF Mark
  <2> HIDE DEF n
  <2>3. EmailTypeOK' /\ Accepted'
    BY <1>2, <2>1, <2>2 DEF Mark, Accepted
  <2>4. \A u \in Tab : OnTheWay(u)'
    BY <1>2 DEF Mark, TabInv, OnTheWay, Received
  <2>5. \A u \in Tab : Calls(marks'[u]) = Calls(marks[u])
    BY <2>1, <2>2
  <2>6. \A u \in Tab : Marked(u)'
    BY <1>2, <2>5 DEF Mark, TabInv, Marked
  <2>7. \A u \in Tab : Agrees(u)'
    BY <1>2, <2>5 DEF Mark, TabInv, Agrees, Received
  <2> QED BY <2>3, <2>4, <2>6, <2>7 DEF TabInv
<1>3. CASE MarkFails(t)
  <2>1. PICK n \in M : /\ marks' = [marks EXCEPT ![t] = n]
                       /\ Calls(n) <= MaxMarks /\ n.answered <= marks[t].answered
    <3>1. CASE marks[t].asked > 0 /\ marks' = [marks EXCEPT ![t].asked = @ - 1]
      <4> DEFINE n == [marks[t] EXCEPT !.asked = @ - 1]
      <4>1. n \in M /\ Calls(n) <= MaxMarks /\ n.answered <= marks[t].answered
        BY <1>1, <3>1, RecipientsAssumption DEF Calls
      <4>2. marks' = [marks EXCEPT ![t] = n]
        BY <3>1
      <4> HIDE DEF n
      <4> QED BY <4>1, <4>2
    <3>2. CASE marks[t].answered > 0 /\ marks' = [marks EXCEPT ![t].answered = @ - 1]
      <4> DEFINE n == [marks[t] EXCEPT !.answered = @ - 1]
      <4>1. n \in M /\ Calls(n) <= MaxMarks /\ n.answered <= marks[t].answered
        BY <1>1, <3>2, RecipientsAssumption DEF Calls
      <4>2. marks' = [marks EXCEPT ![t] = n]
        BY <3>2
      <4> HIDE DEF n
      <4> QED BY <4>1, <4>2
    <3> QED BY <1>3, <3>1, <3>2 DEF MarkFails
  <2>2. EmailTypeOK' /\ Accepted'
    BY <1>3, <2>1 DEF MarkFails, Accepted
  <2>3. \A u \in Tab : OnTheWay(u)'
    BY <1>3 DEF MarkFails, TabInv, OnTheWay, Received
  <2>4. \A u \in Tab : Marked(u)'
    BY <1>1, <1>3, <2>1 DEF MarkFails, TabInv, Marked
  <2>5. \A u \in Tab : Agrees(u)'
    BY <1>3, <2>1 DEF MarkFails, TabInv, Agrees, Received
  <2> QED BY <2>2, <2>3, <2>4, <2>5 DEF TabInv
<1>4. CASE MarkAnswered(t)
  <2> DEFINE m == [marks[t] EXCEPT !.answered = @ - 1]
  <2> DEFINE n == IF cache[t]["details"] = "unviewed" THEN MarkAfter(t, page[t], "viewed", m) ELSE m
  <2>1. viewed /\ marks[t].answered > 0
    BY <1>4 DEF MarkAnswered, TabInv, Marked
  <2>2. m \in M /\ Calls(m) <= MaxMarks
    <3>1. marks[t].answered > 0 /\ marks[t] \in M /\ marks[t].asked + marks[t].answered <= MaxMarks
      BY <1>1, <2>1 DEF Calls
    <3>2. m.asked = marks[t].asked /\ m.answered = marks[t].answered - 1
      BY <3>1
    <3>3. m.answered \in 0..MaxMarks /\ m.asked + m.answered <= MaxMarks
      BY <3>1, <3>2, RecipientsAssumption
    <3>4. m \in M
      BY <3>1, <3>3
    <3> QED BY <3>3, <3>4 DEF Calls
  <2>3. n \in M /\ Calls(n) <= MaxMarks
    <3> HIDE DEF m
    <3> QED BY <2>2, CallsAfter
  <2>4. marks' = [marks EXCEPT ![t] = n]
    BY <1>4 DEF MarkAnswered
  <2> HIDE DEF m, n
  <2>5. fetch' = (IF Recounts(t) THEN [fetch EXCEPT ![t]["count"] = "absent"] ELSE fetch)
    BY <1>4, <2>1 DEF MarkAnswered, CountAnswer
  <2>6. cache' = [cache EXCEPT ![t]["details"] = IF @ = "none" THEN @ ELSE "viewed",
                               ![t]["list"] = IF @ = "unviewed" THEN "viewed" ELSE @]
    BY <1>4 DEF MarkAnswered
  <2>7. fetch' \in [Tab -> [Query -> {"no", "refused", "absent", "unviewed", "viewed"}]]
    BY <2>5 DEF Query
  <2>8. cache' \in [Tab -> [Query -> {"none", "absent", "unviewed", "viewed"}]]
    BY <2>6 DEF Query
  <2>9. marks' \in [Tab -> M]
    BY <2>3, <2>4
  <2>10. EmailTypeOK' /\ Accepted'
    BY <1>4, <2>7, <2>8, <2>9 DEF MarkAnswered, Accepted
  <2>11. ASSUME NEW u \in Tab  PROVE OnTheWay(u)'
    <3>1. fetch'[u]["list"] = fetch[u]["list"] /\ fetch'[u]["count"] \in {fetch[u]["count"], "absent"}
      BY <2>5 DEF Query
    <3> QED BY <1>4, <3>1 DEF MarkAnswered, TabInv, OnTheWay, Received
  <2>12. ASSUME NEW u \in Tab  PROVE Marked(u)'
    <3>1. Calls(marks'[u]) <= MaxMarks
      BY <2>3, <2>4 DEF TabInv, Marked
    <3>2. fetch'[u]["count"] = IF u = t /\ Recounts(t) THEN "absent" ELSE fetch[u]["count"]
      BY <2>5 DEF Query
    <3>3. /\ fetch'[u]["list"] = fetch[u]["list"] /\ overtaken[u] \subseteq overtaken'[u]
          /\ u = t /\ ~ Recounts(t) => "count" \in overtaken'[u]
          /\ u = t /\ fetch[t]["list"] # "no" => "list" \in overtaken'[u]
      BY <1>4, <2>5 DEF MarkAnswered, Recounts, Overtakes, Query
    <3>4. \A q \in {"list", "count"} : u \in told' /\ fetch'[u][q] = "unviewed" => q \in overtaken'[u]
      BY <1>4, <3>2, <3>3 DEF MarkAnswered, TabInv, Marked
    <3> QED BY <1>4, <2>1, <3>1, <3>4 DEF MarkAnswered, TabInv, Marked
  <2>13. ASSUME NEW u \in Tab  PROVE Agrees(u)'
    <3>1. CASE u = t
      <4>1. /\ cache'[t]["count"] = cache[t]["count"] /\ cache'[t]["details"] # "unviewed"
            /\ cache'[t]["list"] = cache[t]["list"] \/ cache[t]["list"] = "unviewed"
            /\ cache'[t]["list"] # "unviewed"
        BY <2>6 DEF Query
      <4> QED BY <1>4, <3>1, <4>1 DEF MarkAnswered, TabInv, Agrees, Received
    <3>2. CASE u # t
      <4>1. cache'[u] = cache[u] /\ marks'[u] = marks[u]
        BY <2>4, <2>6, <3>2
      <4> QED BY <1>4, <3>2, <4>1 DEF MarkAnswered, TabInv, Agrees, Received
    <3> QED BY <3>1, <3>2
  <2> QED BY <2>10, <2>11, <2>12, <2>13 DEF TabInv
<1> QED BY <1>2, <1>3, <1>4

-----------------------------------------------------------------------------
(* Induction over the naturals, from the fact that a set of them has a least element *)

LEMMA Least ==
  ASSUME NEW S \in SUBSET Nat, S # {}
  PROVE  \E x \in S : \A y \in S : x <= y
<1> DEFINE R == {ss \in Nat \X Nat : ss[1] < ss[2]}
<1>1. IsWellFoundedOn(R, Nat)
  BY NatLessThanWellFounded DEF OpToRel
<1>2. \A x, y \in Nat : x < y => <<x, y>> \in R
  OBVIOUS
<1> HIDE DEF R
<1>3. PICK x \in S : \A y \in S : ~ (<<y, x>> \in R)
  BY <1>1, WFMin
<1>4. ASSUME NEW y \in S  PROVE x <= y
  <2>1. ~ (y < x)
    BY <1>2, <1>3
  <2> QED BY <2>1
<1> QED BY <1>4

LEMMA Induct ==
  ASSUME NEW S, 0 \in S, \A n \in Nat : n \in S => n + 1 \in S
  PROVE  \A n \in Nat : n \in S
<1> SUFFICES ASSUME Nat \ S # {}  PROVE FALSE
  OBVIOUS
<1>1. PICK x \in Nat \ S : \A y \in Nat \ S : x <= y
  BY Least
<1>2. x - 1 \in Nat /\ x - 1 \notin S
  BY <1>1
<1> QED BY <1>1, <1>2

-----------------------------------------------------------------------------
(* Sums over a finite set, which MapThenSumSet takes member by member *)

\* f adds up what F gives for the members of any part of S, one member after the other.
AddsUp(f, F, S) ==
  \A s \in SUBSET S :
    f[s] = IF s = {} THEN 0 ELSE F[CHOOSE x \in s : TRUE] + f[s \ {CHOOSE x \in s : TRUE}]

IsSumOver(f, F, S) ==
  IsFiniteSet(S) /\ F \in [S -> Nat] /\ f \in [SUBSET S -> Nat] /\ AddsUp(f, F, S)

\* Facts about the subsets of a finite set, taken by their size
LEMMA Smaller ==
  ASSUME NEW S, IsFiniteSet(S), NEW s \in SUBSET S, s # {}
  PROVE  LET x == CHOOSE y \in s : TRUE IN
         /\ x \in s /\ s \ {x} \in SUBSET S
         /\ Cardinality(s) \in Nat \ {0} /\ Cardinality(s \ {x}) = Cardinality(s) - 1
<1> DEFINE x == CHOOSE y \in s : TRUE
<1>1. x \in s
  OBVIOUS
<1> HIDE DEF x
<1>2. IsFiniteSet(s)
  BY FS_Subset
<1>3. Cardinality(s) \in Nat /\ Cardinality(s) # 0
  BY <1>2, FS_CardinalityType, FS_EmptySet
<1>4. Cardinality(s \ {x}) = Cardinality(s) - 1
  BY <1>1, <1>2, FS_RemoveElement
<1> QED BY <1>1, <1>3, <1>4 DEF x

\* What every set has that the empty set has, and that a set has if it does without a member
LEMMA SetInduct ==
  ASSUME NEW S, IsFiniteSet(S), NEW Q \in SUBSET (SUBSET S), {} \in Q,
         \A s \in SUBSET S : s # {} /\ s \ {CHOOSE x \in s : TRUE} \in Q => s \in Q
  PROVE  \A s \in SUBSET S : s \in Q
<1> DEFINE N == {n \in Nat : \A s \in SUBSET S : Cardinality(s) = n => s \in Q}
<1>1. 0 \in N
  <2> SUFFICES ASSUME NEW s \in SUBSET S, Cardinality(s) = 0  PROVE s = {}
    OBVIOUS
  <2> QED BY Smaller
<1>2. ASSUME NEW n \in Nat, n \in N  PROVE n + 1 \in N
  <2> SUFFICES ASSUME NEW s \in SUBSET S, Cardinality(s) = n + 1  PROVE s \in Q
    OBVIOUS
  <2> DEFINE x == CHOOSE y \in s : TRUE
  <2>1. s # {}
    BY FS_EmptySet
  <2>2. s \ {x} \in SUBSET S /\ Cardinality(s \ {x}) = n
    BY <2>1, Smaller
  <2>3. s \ {x} \in Q
    BY <1>2, <2>2
  <2> QED BY <2>1, <2>3
<1>3. \A n \in Nat : n \in N
  <2> HIDE DEF N
  <2> QED BY <1>1, <1>2, Induct
<1>4. ASSUME NEW s \in SUBSET S  PROVE s \in Q
  <2>1. Cardinality(s) \in Nat
    BY FS_Subset, FS_CardinalityType
  <2> QED BY <1>3, <2>1
<1> QED BY <1>4

\* A sum is that of all members but one, and this one.
LEMMA SumExistsOn ==
  ASSUME NEW S, IsFiniteSet(S), NEW F \in [S -> Nat]
  PROVE  \E f \in [SUBSET S -> Nat] : AddsUp(f, F, S)
<1> DEFINE C(s) == CHOOSE x \in s : TRUE
           Eq(f, s) == f[s] = IF s = {} THEN 0 ELSE F[C(s)] + f[s \ {C(s)}]
           N == {n \in Nat : \E f \in [SUBSET S -> Nat] : \A s \in SUBSET S : Cardinality(s) <= n => Eq(f, s)}
<1>1. \A s \in SUBSET S :
        /\ Cardinality(s) \in Nat /\ Cardinality(s) <= Cardinality(S)
        /\ s # {} => /\ C(s) \in s /\ s \ {C(s)} \in SUBSET S
                     /\ Cardinality(s) > 0 /\ Cardinality(s \ {C(s)}) = Cardinality(s) - 1
  <2> TAKE s \in SUBSET S
  <2>1. Cardinality(s) \in Nat /\ Cardinality(s) <= Cardinality(S)
    BY FS_Subset, FS_CardinalityType
  <2> QED BY <2>1, Smaller
<1> HIDE DEF C
<1>2. 0 \in N
  <2> DEFINE f == [s \in SUBSET S |-> 0]
  <2>1. f \in [SUBSET S -> Nat] /\ \A s \in SUBSET S : f[s] = 0
    OBVIOUS
  <2> HIDE DEF f
  <2>2. ASSUME NEW s \in SUBSET S, Cardinality(s) <= 0  PROVE Eq(f, s)
    <3>1. s # {} => Cardinality(s) \in Nat /\ Cardinality(s) > 0
      BY <1>1, Zenon
    <3>2. ~ (s # {})
      BY <2>2, <3>1
    <3> QED BY <2>1, <3>2
  <2> QED BY <2>1, <2>2
<1>3. ASSUME NEW n \in Nat, n \in N  PROVE n + 1 \in N
  <2>1. PICK f \in [SUBSET S -> Nat] : \A s \in SUBSET S : Cardinality(s) <= n => Eq(f, s)
    BY <1>3
  <2> DEFINE g == [s \in SUBSET S |-> IF Cardinality(s) = n + 1 THEN F[C(s)] + f[s \ {C(s)}] ELSE f[s]]
  <2>2. g \in [SUBSET S -> Nat]
    <3>1. ASSUME NEW s \in SUBSET S
          PROVE  (IF Cardinality(s) = n + 1 THEN F[C(s)] + f[s \ {C(s)}] ELSE f[s]) \in Nat
      <4>1. CASE s = {}
        <5>1. Cardinality(s) = 0
          BY <4>1, FS_EmptySet
        <5> QED BY <5>1
      <4>2. CASE s # {}
        <5>1. C(s) \in S /\ s \ {C(s)} \in SUBSET S
          BY <1>1, <4>2
        <5>2. F[C(s)] \in Nat /\ f[s \ {C(s)}] \in Nat /\ f[s] \in Nat
          BY <5>1
        <5> QED BY <5>2
      <4> QED BY <4>1, <4>2
    <3> QED BY <3>1
  <2>3. \A s \in SUBSET S : g[s] = IF Cardinality(s) = n + 1 THEN F[C(s)] + f[s \ {C(s)}] ELSE f[s]
    OBVIOUS
  <2> HIDE DEF g
  <2>4. ASSUME NEW s \in SUBSET S, Cardinality(s) <= n + 1  PROVE Eq(g, s)
    <3>1. CASE s = {}
      <4>1. Cardinality(s) = 0
        BY <3>1, FS_EmptySet
      <4> QED BY <2>1, <2>3, <3>1, <4>1
    <3>2. CASE s # {}
      <4>1. /\ s \ {C(s)} \in SUBSET S /\ Cardinality(s) \in Nat
            /\ Cardinality(s \ {C(s)}) = Cardinality(s) - 1
        BY <1>1, <3>2
      <4>2. g[s \ {C(s)}] = f[s \ {C(s)}]
        <5> DEFINE r == s \ {C(s)}
        <5>1. r \in SUBSET S /\ Cardinality(r) # n + 1
          BY <2>4, <4>1
        <5> HIDE DEF r
        <5>2. g[r] = f[r]
          BY <2>3, <5>1
        <5> QED BY <5>2 DEF r
      <4>3. CASE Cardinality(s) = n + 1
        BY <2>3, <3>2, <4>2, <4>3
      <4>4. CASE Cardinality(s) <= n
        <5>1. g[s] = f[s] /\ Eq(f, s)
          BY <2>1, <2>3, <4>1, <4>4
        <5> QED BY <3>2, <4>2, <5>1
      <4> QED BY <2>4, <4>1, <4>3, <4>4
    <3> QED BY <3>1, <3>2
  <2> HIDE DEF Eq
  <2> QED BY <2>2, <2>4
<1>4. Cardinality(S) \in N
  <2>1. \A n \in Nat : n \in N
    <3> HIDE DEF N
    <3> QED BY <1>2, <1>3, Induct
  <2> QED BY <2>1, FS_CardinalityType
<1>5. PICK f \in [SUBSET S -> Nat] : \A s \in SUBSET S : Cardinality(s) <= Cardinality(S) => Eq(f, s)
  BY <1>4
<1> QED BY <1>1, <1>5 DEF AddsUp, C

\* Two sums of what differs at one member at most differ by that.
LEMMA SumsDiffer ==
  ASSUME NEW S, NEW F, NEW G, NEW f, NEW g, IsSumOver(f, F, S), IsSumOver(g, G, S),
         NEW p \in S, \A x \in S : x # p => G[x] = F[x]
  PROVE  g[S] = f[S] + G[p] - F[p]
<1> USE DEF IsSumOver
<1> DEFINE C(s) == CHOOSE x \in s : TRUE
           Q == {s \in SUBSET S : g[s] = f[s] + IF p \in s THEN G[p] - F[p] ELSE 0}
<1>1. \A s \in SUBSET S : s # {} => C(s) \in s /\ s \ {C(s)} \in SUBSET S
  OBVIOUS
<1>2. /\ f[{}] = 0 /\ g[{}] = 0
      /\ \A s \in SUBSET S : s # {} => /\ f[s] = F[C(s)] + f[s \ {C(s)}]
                                       /\ g[s] = G[C(s)] + g[s \ {C(s)}]
  BY DEF AddsUp
<1> HIDE DEF C
<1>3. {} \in Q
  BY <1>2
<1>4. ASSUME NEW s \in SUBSET S, s # {}, s \ {C(s)} \in Q  PROVE s \in Q
  <2> DEFINE r == s \ {C(s)}
  <2>1. C(s) \in S /\ r \in SUBSET S /\ f[s] = F[C(s)] + f[r] /\ g[s] = G[C(s)] + g[r]
    BY <1>1, <1>2, <1>4
  <2>2. g[r] = f[r] + IF p \in r THEN G[p] - F[p] ELSE 0
    BY <1>4
  <2>3. p \in r <=> p \in s /\ p # C(s)
    OBVIOUS
  <2>4. C(s) \in s
    BY <1>1, <1>4
  <2>5. f[r] \in Nat /\ F[C(s)] \in Nat /\ G[C(s)] \in Nat /\ F[p] \in Nat /\ G[p] \in Nat
    BY <2>1
  <2> HIDE DEF r
  <2>6. CASE p = C(s)
    BY <2>1, <2>2, <2>3, <2>4, <2>5, <2>6
  <2>7. CASE p # C(s)
    BY <2>1, <2>2, <2>3, <2>5, <2>7
  <2> QED BY <2>6, <2>7
<1>5. S \in Q
  <2>1. Q \in SUBSET (SUBSET S)
    OBVIOUS
  <2> HIDE DEF Q
  <2> QED BY <1>3, <1>4, <2>1, SetInduct DEF C
<1> QED BY <1>5

\* A sum of what is at most K, and of what is K
LEMMA SumsBound ==
  ASSUME NEW S, NEW F, NEW f, IsSumOver(f, F, S), NEW K \in Nat, \A x \in S : F[x] <= K
  PROVE  /\ f[S] <= K * Cardinality(S)
         /\ (\A x \in S : F[x] = K) => f[S] = K * Cardinality(S)
<1> USE DEF IsSumOver
<1> DEFINE C(s) == CHOOSE x \in s : TRUE
           all == \A x \in S : F[x] = K
           Q == {s \in SUBSET S : /\ f[s] <= K * Cardinality(s)
                                  /\ all => f[s] = K * Cardinality(s)}
<1>1. \A s \in SUBSET S : s # {} => /\ C(s) \in s /\ s \ {C(s)} \in SUBSET S
                                    /\ Cardinality(s) \in Nat /\ Cardinality(s \ {C(s)}) = Cardinality(s) - 1
  BY Smaller
<1>2. /\ f[{}] = 0
      /\ \A s \in SUBSET S : s # {} => f[s] = F[C(s)] + f[s \ {C(s)}]
  BY DEF AddsUp
<1> HIDE DEF C
<1>3. {} \in Q
  BY <1>2, FS_EmptySet
<1>4. ASSUME NEW s \in SUBSET S, s # {}, s \ {C(s)} \in Q  PROVE s \in Q
  <2> DEFINE r == s \ {C(s)}
             n == Cardinality(s)
  <2>1. C(s) \in S /\ r \in SUBSET S /\ f[s] = F[C(s)] + f[r] /\ n \in Nat /\ Cardinality(r) = n - 1
    BY <1>1, <1>2, <1>4
  <2>2. f[r] <= K * (n - 1) /\ (all => f[r] = K * (n - 1))
    BY <1>4, <2>1
  <2>3. f[r] \in Nat /\ F[C(s)] \in Nat /\ F[C(s)] <= K /\ (all => F[C(s)] = K)
    BY <2>1
  <2> HIDE DEF r, n, all
  <2>4. K * (n - 1) + K = K * n /\ K * n \in Nat /\ K * (n - 1) \in Int
    BY <2>1
  <2>5. f[s] <= K * n /\ (all => f[s] = K * n)
    BY <2>1, <2>2, <2>3, <2>4
  <2> QED BY <2>5 DEF n
<1>5. S \in Q
  <2>1. Q \in SUBSET (SUBSET S)
    OBVIOUS
  <2> HIDE DEF Q
  <2> QED BY <1>3, <1>4, <2>1, SetInduct DEF C
<1> QED BY <1>5

\* The bytes that the pages show are the sum that is meant.
LEMMA SumOfLoaded ==
  loaded \in [Part -> Absent..PartSize] =>
    \E f \in [SUBSET Part -> Nat] : AddsUp(f, [p \in Part |-> Loaded(p)], Part) /\ AllLoaded = f[Part]
<1> SUFFICES ASSUME loaded \in [Part -> Absent..PartSize]
             PROVE  \E f \in [SUBSET Part -> Nat] :
                      AddsUp(f, [p \in Part |-> Loaded(p)], Part) /\ AllLoaded = f[Part]
  OBVIOUS
<1> DEFINE F == [p \in Part |-> Loaded(p)]
           Is(h) == h = [s \in SUBSET Part |-> IF s = {} THEN 0 ELSE Loaded(CHOOSE x \in s : TRUE) + h[s \ {CHOOSE x \in s : TRUE}]]
<1>1. AllLoaded = (CHOOSE h : Is(h))[Part]
  BY Zenon DEF AllLoaded, MapThenSumSet, MapThenFoldSet
<1>2. F \in [Part -> Nat]
  BY UploadPageAssumption DEF Loaded, Absent
<1>3. PICK f \in [SUBSET Part -> Nat] : AddsUp(f, F, Part)
  BY <1>2, SumExistsOn, UploadPageAssumption
<1>4. Is(f)
  <2>1. \A s \in SUBSET Part : s # {} => F[CHOOSE x \in s : TRUE] = Loaded(CHOOSE x \in s : TRUE)
    OBVIOUS
  <2>2. f = [s \in SUBSET Part |-> f[s]]
    OBVIOUS
  <2> HIDE DEF F
  <2>3. \A s \in SUBSET Part : f[s] = IF s = {} THEN 0 ELSE Loaded(CHOOSE x \in s : TRUE) + f[s \ {CHOOSE x \in s : TRUE}]
    BY <1>3, <2>1 DEF AddsUp
  <2> QED BY <2>2, <2>3
<1> DEFINE sum == CHOOSE h : Is(h)
<1>5. Is(sum)
  <2> HIDE DEF Is
  <2> QED BY <1>4
<1> HIDE DEF sum
<1>6. \A s \in SUBSET Part : sum[s] = IF s = {} THEN 0 ELSE F[CHOOSE x \in s : TRUE] + sum[s \ {CHOOSE x \in s : TRUE}]
  BY <1>5
<1>7. sum = [s \in SUBSET Part |-> sum[s]]
  BY <1>5
<1>8. sum \in [SUBSET Part -> Nat]
  <2> DEFINE Q == {s \in SUBSET Part : sum[s] \in Nat}
  <2> HIDE DEF F, Is
  <2>1. {} \in Q
    <3>1. {} \in SUBSET Part
      OBVIOUS
    <3>2. sum[{}] = 0
      BY <1>6, <3>1, Zenon
    <3> QED BY <3>1, <3>2
  <2>2. ASSUME NEW s \in SUBSET Part, s # {}, s \ {CHOOSE x \in s : TRUE} \in Q  PROVE s \in Q
    <3>1. F[CHOOSE x \in s : TRUE] \in Nat
      BY <1>2, <2>2
    <3>2. sum[s] = F[CHOOSE x \in s : TRUE] + sum[s \ {CHOOSE x \in s : TRUE}]
      BY <1>6, <2>2, Zenon
    <3> QED BY <2>2, <3>1, <3>2
  <2>3. Q \in SUBSET (SUBSET Part)
    OBVIOUS
  <2>4. \A s \in SUBSET Part : s \in Q
    <3> HIDE DEF Q
    <3> QED BY <2>1, <2>2, <2>3, SetInduct, UploadPageAssumption
  <2> QED BY <1>7, <2>4
<1> QED BY <1>1, <1>6, <1>8 DEF AddsUp, sum

LoadedType == loaded \in [Part -> Absent..PartSize]
LoadedOf   == [p \in Part |-> Loaded(p)]

LEMMA LoadedInNat ==
  LoadedType => LoadedOf \in [Part -> Nat] /\ \A p \in Part : LoadedOf[p] <= PartSize
BY UploadPageAssumption DEF LoadedType, LoadedOf, Loaded, Absent

\* The sum is right, in any state and in the one after it.
Summed == \E f : IsSumOver(f, LoadedOf, Part) /\ AllLoaded = f[Part]

LEMMA SumNow == LoadedType => Summed
<1> SUFFICES ASSUME LoadedType  PROVE Summed
  OBVIOUS
<1>1. PICK f \in [SUBSET Part -> Nat] : AddsUp(f, LoadedOf, Part) /\ AllLoaded = f[Part]
  BY SumOfLoaded DEF LoadedType, LoadedOf
<1>2. IsSumOver(f, LoadedOf, Part)
  BY <1>1, LoadedInNat, UploadPageAssumption DEF IsSumOver
<1> QED BY <1>1, <1>2 DEF Summed

LEMMA SumNext == (LoadedType => Summed)'
BY SumNow, PTL

\* A step that changes one part at most moves the sum by that.
LEMMA SumMoves ==
  ASSUME LoadedType, LoadedType', NEW p \in Part, \A x \in Part : x # p => loaded'[x] = loaded[x]
  PROVE  AllLoaded' = AllLoaded + LoadedOf'[p] - LoadedOf[p]
<1>1. PICK F, G : F = LoadedOf /\ G = LoadedOf'
  OBVIOUS
<1>2. PICK f : IsSumOver(f, F, Part) /\ AllLoaded = f[Part]
  BY <1>1, SumNow DEF Summed
<1>3. PICK g : IsSumOver(g, G, Part) /\ AllLoaded' = g[Part]
  <2>1. Summed'
    BY SumNext
  <2> QED BY <1>1, <2>1 DEF Summed, IsSumOver, AddsUp
<1>4. \A x \in Part : x # p => G[x] = F[x]
  BY <1>1 DEF LoadedOf, Loaded
<1>5. g[Part] = f[Part] + G[p] - F[p]
  BY <1>2, <1>3, <1>4, SumsDiffer
<1> QED BY <1>1, <1>2, <1>3, <1>5

\* The sum of no parts, of all and of some
LEMMA SumBounds ==
  ASSUME LoadedType
  PROVE  /\ AllLoaded \in Nat /\ AllLoaded <= TotalSize
         /\ (\A p \in Part : loaded[p] = PartSize) => AllLoaded = TotalSize
         /\ (\A p \in Part : loaded[p] = Absent) => AllLoaded = 0
<1>1. PICK F : F = LoadedOf
  OBVIOUS
<1>2. PICK f : IsSumOver(f, F, Part) /\ AllLoaded = f[Part]
  BY <1>1, SumNow DEF Summed
<1>3. f[Part] \in Nat /\ PartSize \in Nat /\ \A p \in Part : F[p] <= PartSize
  BY <1>1, <1>2, LoadedInNat, UploadPageAssumption DEF IsSumOver
<1>4. f[Part] <= TotalSize /\ ((\A p \in Part : F[p] = PartSize) => f[Part] = TotalSize)
  BY <1>2, <1>3, SumsBound DEF TotalSize
<1>5. ASSUME \A p \in Part : loaded[p] = Absent  PROVE f[Part] = 0
  <2>1. \A p \in Part : F[p] = 0 /\ F[p] <= 0
    BY <1>1, <1>5 DEF LoadedOf, Loaded
  <2>2. f[Part] = 0 * Cardinality(Part)
    BY <1>2, <2>1, SumsBound
  <2>3. Cardinality(Part) \in Nat
    BY FS_CardinalityType, UploadPageAssumption
  <2> QED BY <2>2, <2>3
<1>6. (\A p \in Part : loaded[p] = PartSize) => \A p \in Part : F[p] = PartSize
  BY <1>1, UploadPageAssumption DEF LoadedOf, Loaded, Absent
<1> QED BY <1>2, <1>3, <1>4, <1>5, <1>6

LEMMA EmptySum == LoadedType /\ (\A p \in Part : loaded[p] = Absent) => AllLoaded = 0
BY SumBounds

LEMMA EmptySumNext == (LoadedType /\ (\A p \in Part : loaded[p] = Absent) => AllLoaded = 0)'
BY EmptySum, PTL

\* A step that changes no part
LEMMA SumStays ==
  ASSUME LoadedType, loaded' = loaded
  PROVE  AllLoaded' = AllLoaded
<1>1. LoadedType'
  BY DEF LoadedType
<1>2. CASE Part = {}
  <2>1. AllLoaded = 0
    BY <1>2, SumBounds
  <2>2. Summed'
    BY <1>1, SumNext
  <2>3. PICK f, F : IsSumOver(f, F, Part) /\ AllLoaded' = f[Part]
    BY <2>2 DEF Summed, IsSumOver, AddsUp
  <2>4. f[{}] = 0
    BY <2>3, {} \in SUBSET Part, Zenon DEF IsSumOver, AddsUp
  <2> QED BY <1>2, <2>1, <2>3, <2>4
<1>3. ASSUME NEW p \in Part  PROVE AllLoaded' = AllLoaded
  <2>1. LoadedOf' = LoadedOf /\ LoadedOf[p] \in Nat
    BY LoadedInNat DEF LoadedOf, Loaded
  <2>2. AllLoaded' = AllLoaded + LoadedOf'[p] - LoadedOf[p]
    BY <1>1, SumMoves
  <2>3. AllLoaded \in Nat
    BY SumBounds
  <2> QED BY <2>1, <2>2, <2>3
<1> QED BY <1>2, <1>3

-----------------------------------------------------------------------------
(* The progress of uploads *)

LEMMA SetPartType ==
  ASSUME UploadPageTypeOK, NEW p \in Part, NEW n \in 0..PartSize, SetPart(p, n)
  PROVE  /\ total' \in 0..MaxTotal /\ loaded' \in [Part -> Absent..PartSize]
         /\ uploading' = uploading /\ mapped' = mapped
         /\ \A x \in Part : x # p => loaded'[x] = loaded[x]
<1> USE UploadPageAssumption DEF SetPart, storeVars
<1>1. loaded[p] \in Absent..PartSize /\ total \in 0..MaxTotal /\ Loaded(p) \in Nat
  BY DEF UploadPageTypeOK, Loaded, Absent
<1>2. CASE n < Loaded(p)
  BY <1>2 DEF UploadPageTypeOK
<1>3. CASE ~ (n < Loaded(p))
  <2>1. total' = total + n - Loaded(p) /\ total' <= MaxTotal
    BY <1>3
  <2>2. total' \in 0..MaxTotal
    BY <1>1, <1>3, <2>1
  <2> QED BY <1>3, <2>2 DEF UploadPageTypeOK, Absent
<1> QED BY <1>2, <1>3

LEMMA UploadPageTypes ==
  ASSUME UploadPageTypeOK, UploadPageNext
  PROVE  UploadPageTypeOK'
<1> USE UploadPageAssumption DEF UploadPageTypeOK, storeVars
<1>1. CASE ChangeFiles
  BY <1>1 DEF ChangeFiles
<1>2. CASE LeaveForm
  BY <1>2 DEF LeaveForm
<1>3. ASSUME NEW u \in Run, Upload(u)  PROVE UploadPageTypeOK'
  <2>1. alone' \in BOOLEAN
    BY <1>3 DEF Upload
  <2>2. loaded' \in [Part -> Absent..PartSize]
    BY <1>3 DEF Upload, Absent
  <2>3. uploading' \in BOOLEAN /\ mapped' \in BOOLEAN /\ total' \in 0..MaxTotal
    <3>1. CASE uploading
      <4>1. UNCHANGED <<uploading, total, mapped>>
        BY <1>3, <3>1, Zenon DEF Upload
      <4> QED BY <4>1
    <3>2. CASE ~uploading
      <4>1. uploading' = TRUE /\ mapped' = FALSE /\ total' = 0
        BY <1>3, <3>2, Zenon DEF Upload
      <4>2. TRUE \in BOOLEAN /\ FALSE \in BOOLEAN /\ 0 \in 0..MaxTotal
        OBVIOUS
      <4> QED BY <4>1, <4>2, Zenon
    <3> QED BY <3>1, <3>2
  <2>4. run' \in [Run -> {"idle", "initiating", "running", "done", "rejected", "over"}]
    BY <1>3 DEF Upload
  <2> QED BY <1>3, <2>1, <2>2, <2>3, <2>4 DEF Upload
<1>4. ASSUME NEW u \in Run, BeginFile(u)  PROVE UploadPageTypeOK'
  <2>1. loaded' \in [Part -> Absent..PartSize]
    BY <1>4 DEF BeginFile, Absent
  <2> QED BY <1>4, <2>1 DEF BeginFile
<1>5. ASSUME NEW u \in Run, Succeeds(u)  PROVE UploadPageTypeOK'
  BY <1>5 DEF Succeeds, Ends
<1>6. ASSUME NEW u \in Run, Rejected(u)  PROVE UploadPageTypeOK'
  BY <1>6 DEF Rejected, Ends
<1>7. ASSUME NEW u \in Run, Settles(u)  PROVE UploadPageTypeOK'
  BY <1>7 DEF Settles
<1>8. ASSUME NEW u \in Run, NEW p \in Part, BeginBlock(u, p)  PROVE UploadPageTypeOK'
  <2>1. loaded' \in [Part -> Absent..PartSize]
    BY <1>8 DEF BeginBlock, Absent
  <2>2. part' \in [Run -> [Part -> {"waiting", "flying", "uploaded"}]]
    BY <1>8 DEF BeginBlock
  <2> QED BY <1>8, <2>1, <2>2 DEF BeginBlock
<1>9. ASSUME NEW u \in Run, NEW p \in Part, Progress(u, p)  PROVE UploadPageTypeOK'
  BY <1>9, SetPartType DEF Progress
<1>10. ASSUME NEW u \in Run, NEW p \in Part, PartUploaded(u, p)  PROVE UploadPageTypeOK'
  BY <1>10, SetPartType DEF PartUploaded
<1> QED
  BY <1>1, <1>2, <1>3, <1>4, <1>5, <1>6, <1>7, <1>8, <1>9, <1>10 DEF UploadPageNext

LEMMA BegunStep ==
  ASSUME UploadPageTypeOK, Begun, UploadPageNext
  PROVE  Begun'
<1> USE DEF UploadPageTypeOK, Begun, storeVars
<1>1. CASE ChangeFiles \/ LeaveForm
  BY <1>1 DEF ChangeFiles, LeaveForm
<1>2. ASSUME NEW u \in Run, Upload(u)  PROVE Begun'
  BY <1>2 DEF Upload
<1>3. ASSUME NEW u \in Run, BeginFile(u)  PROVE Begun'
  BY <1>3 DEF BeginFile
<1>4. ASSUME NEW u \in Run, Succeeds(u) \/ Rejected(u)  PROVE Begun'
  <2>1. ~uploading' /\ part' = part
    BY <1>4 DEF Succeeds, Rejected, Ends
  <2>2. \E how \in {"done", "rejected", "over"} : run' = [run EXCEPT ![u] = how]
    BY <1>4 DEF Succeeds, Rejected, Ends
  <2> QED BY <2>1, <2>2
<1>5. ASSUME NEW u \in Run, Settles(u)  PROVE Begun'
  BY <1>5 DEF Settles
<1>6. ASSUME NEW u \in Run, NEW p \in Part, BeginBlock(u, p)  PROVE Begun'
  BY <1>6 DEF BeginBlock
<1>7. ASSUME NEW u \in Run, NEW p \in Part, Progress(u, p) \/ PartUploaded(u, p)  PROVE Begun'
  <2>1. run' = run /\ uploading' = uploading
    BY <1>7, SetPartType, UploadPageAssumption DEF Progress, PartUploaded
  <2>2. run[u] \in {"running", "rejected"} /\ (part' = part \/ part' = [part EXCEPT ![u][p] = "uploaded"])
    BY <1>7 DEF Progress, PartUploaded, Flying
  <2>3. \A v \in Run : v = u \/ part'[v] = part[v]
    BY <2>2
  <2> QED BY <2>1, <2>2, <2>3
<1> QED BY <1>1, <1>2, <1>3, <1>4, <1>5, <1>6, <1>7 DEF UploadPageNext

\* A run starts alone from an empty store: nothing was uploading.
LEMMA StartsAlone ==
  ASSUME ProgressInv, NEW u \in Run, Upload(u), alone'
  PROVE  Own'
<1> USE DEF UploadPageTypeOK
<1>1. UploadPageTypeOK /\ Begun
  BY DEF ProgressInv
<1>2. \A v \in Run : ~HasTasks(v)
  <2>1. alone' = \A v \in Run : ~HasTasks(v)
    BY DEF Upload
  <2> QED BY <2>1
<1>3. ~uploading
  BY <1>1, <1>2 DEF Begun, HasTasks
<1>4. total' = 0 /\ loaded' = [p \in Part |-> Absent]
  BY <1>3 DEF Upload
<1>5. latest' = u /\ run' = [run EXCEPT ![u] = "initiating"] /\ part' = part /\ run[u] = "idle"
  BY DEF Upload
<1>6. LoadedType' /\ \A p \in Part : loaded'[p] = Absent
  BY <1>4, UploadPageAssumption DEF LoadedType, Absent
<1>7. AllLoaded' = 0
  BY <1>6, EmptySumNext
<1>8. \A p \in Part : Counted(p)'
  BY <1>1, <1>5, <1>6 DEF Begun, Counted
<1>9. \A v \in Run : v # u => ~HasTasks(v)'
  BY <1>1, <1>2, <1>5 DEF HasTasks
<1> QED BY <1>1, <1>4, <1>5, <1>7, <1>8, <1>9 DEF Own

\* What the other steps do to the parts and bytes of a run that is alone
LEMMA StaysOwn ==
  ASSUME ProgressInv, UploadPageTypeOK', Begun', UploadPageNext, alone, latest # NoRun,
         alone' = alone, latest' = latest
  PROVE  Own'
<1> USE UploadPageAssumption DEF UploadPageTypeOK, storeVars
<1>1. UploadPageTypeOK /\ Begun /\ Own /\ LoadedType /\ LoadedType' /\ latest \in Run
  BY DEF ProgressInv, LoadedType
<1> HIDE DEF UploadPageTypeOK
<1>2. ASSUME NEW u \in Run, Upload(u)  PROVE FALSE
  <2>1. u = latest /\ run[u] = "idle"
    BY <1>2 DEF Upload
  <2> QED BY <1>1, <2>1 DEF Own
<1>3. ASSUME \/ run' = run
             \/ /\ run[latest] = "running"
                /\ run' = [run EXCEPT ![latest] = "rejected"]
             \/ /\ run[latest] \in {"initiating", "rejected"}
                /\ run' = [run EXCEPT ![latest] = "over"],
             UNCHANGED <<part, total, mapped, loaded>>
      PROVE  Own'
  <2>1. AllLoaded' = AllLoaded
    BY <1>1, <1>3, SumStays
  <2>2. \A p \in Part : Counted(p)'
    BY <1>1, <1>3 DEF Own, Counted
  <2>3. run \in [Run -> {"idle", "initiating", "running", "done", "rejected", "over"}]
    BY <1>1 DEF UploadPageTypeOK
  <2>4. \A v \in Run : v # latest => run'[v] = run[v]
    BY <1>1, <1>3, <2>3
  <2>5. run'[latest] # "idle" /\ (run'[latest] \in {"running", "rejected"} => mapped)
    BY <1>1, <1>3, <2>3 DEF Own
  <2>6. run'[latest] = "done" => run[latest] = "done"
    BY <1>1, <1>3, <2>3
  <2> QED BY <1>1, <1>3, <2>1, <2>2, <2>4, <2>5, <2>6 DEF Own, HasTasks
<1>4. CASE ChangeFiles \/ LeaveForm
  <2>1. run' = run /\ UNCHANGED <<part, total, mapped, loaded>>
    BY <1>4 DEF ChangeFiles, LeaveForm
  <2> QED BY <1>3, <2>1
<1>5. ASSUME NEW u \in Run, Rejected(u) \/ Settles(u)  PROVE Own'
  <2>1. u = latest
    BY <1>1, <1>5 DEF Own, HasTasks, Rejected, Settles
  <2>2. UNCHANGED <<part, total, mapped, loaded>>
    BY <1>5 DEF Rejected, Settles, Ends
  <2>3. \/ run[u] = "running" /\ run' = [run EXCEPT ![u] = "rejected"]
        \/ run[u] \in {"initiating", "rejected"} /\ run' = [run EXCEPT ![u] = "over"]
    BY <1>5 DEF Rejected, Settles, Ends
  <2> QED BY <1>3, <2>1, <2>2, <2>3
<1>6. ASSUME NEW u \in Run, Succeeds(u)  PROVE Own'
  <2>1. u = latest /\ \A p \in Part : part[u][p] = "uploaded"
    BY <1>1, <1>6 DEF Own, HasTasks, Succeeds
  <2>2. run' = [run EXCEPT ![u] = "done"] /\ UNCHANGED <<part, total, mapped, loaded>>
    BY <1>6 DEF Succeeds, Ends
  <2>3. AllLoaded' = AllLoaded
    BY <1>1, <2>2, SumStays
  <2>4. run'[latest] = "done" /\ \A v \in Run : v # latest => run'[v] = run[v]
    BY <1>1, <2>1, <2>2 DEF UploadPageTypeOK
  <2> QED BY <1>1, <2>1, <2>2, <2>3, <2>4 DEF Own, Counted, HasTasks
<1>7. ASSUME NEW u \in Run, BeginFile(u)  PROVE Own'
  <2>1. u = latest
    BY <1>1, <1>7 DEF Own, HasTasks, BeginFile
  <2>2. /\ run[u] = "initiating" /\ run' = [run EXCEPT ![u] = "running"] /\ mapped'
        /\ loaded' = [p \in Part |-> Absent] /\ UNCHANGED <<part, total>>
    BY <1>7 DEF BeginFile
  <2>3. \A p \in Part : part[latest][p] = "waiting"
    BY <1>1, <2>1, <2>2 DEF Begun
  <2>4. \A p \in Part : loaded[p] = Absent /\ loaded'[p] = Absent
    BY <1>1, <2>2, <2>3 DEF Own, Counted
  <2>5. AllLoaded = 0 /\ AllLoaded' = 0
    BY <1>1, <2>4, EmptySum, EmptySumNext
  <2>6. run'[latest] = "running" /\ \A v \in Run : v # latest => run'[v] = run[v]
    BY <1>1, <2>1, <2>2 DEF UploadPageTypeOK
  <2> QED BY <1>1, <2>1, <2>2, <2>3, <2>4, <2>5, <2>6 DEF Own, Counted, HasTasks
<1>8. ASSUME NEW u \in Run, run[u] \in {"running", "rejected"}
      PROVE  u = latest /\ mapped /\ run[latest] # "done"
  BY <1>1, <1>8 DEF Own, HasTasks
<1>9. ASSUME run' = run, mapped' = mapped, run[latest] # "done", NEW p \in Part,
             \A x \in Part : x # p => loaded'[x] = loaded[x],
             \A x \in Part : x # p => part'[latest][x] = part[latest][x],
             Counted(p)', total' = AllLoaded'
      PROVE  Own'
  <2>1. \A x \in Part : Counted(x)'
    BY <1>1, <1>9 DEF Own, Counted
  <2> QED BY <1>1, <1>9, <2>1 DEF Own, HasTasks
<1>10. ASSUME NEW u \in Run, NEW p \in Part, BeginBlock(u, p)  PROVE Own'
  <2>1. u = latest /\ mapped /\ run[latest] # "done"
    BY <1>8, <1>10 DEF BeginBlock
  <2>2. /\ part[u][p] = "waiting" /\ part' = [part EXCEPT ![u][p] = "flying"]
        /\ loaded' = [loaded EXCEPT ![p] = 0] /\ UNCHANGED <<run, total, mapped>>
    BY <1>10, <2>1 DEF BeginBlock
  <2>3. loaded[p] = Absent /\ loaded'[p] = 0 /\ \A x \in Part : x # p => loaded'[x] = loaded[x]
    BY <1>1, <2>1, <2>2 DEF Own, Counted, LoadedType
  <2>4. part'[latest][p] = "flying" /\ \A x \in Part : x # p => part'[latest][x] = part[latest][x]
    BY <1>1, <2>1, <2>2 DEF UploadPageTypeOK
  <2>5. LoadedOf'[p] = 0 /\ LoadedOf[p] = 0
    BY <2>3 DEF LoadedOf, Loaded
  <2>6. AllLoaded' = AllLoaded
    <3>1. AllLoaded' = AllLoaded + LoadedOf'[p] - LoadedOf[p] /\ AllLoaded \in Nat
      BY <1>1, <2>3, SumMoves, SumBounds
    <3> QED BY <2>5, <3>1
  <2>7. Counted(p)' /\ total' = AllLoaded'
    BY <1>1, <2>2, <2>3, <2>4, <2>6 DEF Own, Counted, Absent
  <2> QED BY <1>9, <2>1, <2>2, <2>3, <2>4, <2>7
<1>11. ASSUME NEW p \in Part, NEW n \in 0..PartSize, SetPart(p, n), loaded[p] # Absent
       PROVE  /\ total' = AllLoaded' /\ loaded'[p] # Absent
              /\ n = PartSize => loaded'[p] = PartSize
              /\ mapped' = mapped /\ \A x \in Part : x # p => loaded'[x] = loaded[x]
  <2>1. mapped' = mapped /\ \A x \in Part : x # p => loaded'[x] = loaded[x]
    BY <1>1, <1>11, SetPartType
  <2>2. loaded[p] \in 0..PartSize /\ Loaded(p) = loaded[p] /\ LoadedOf[p] = loaded[p]
    BY <1>1, <1>11 DEF LoadedType, LoadedOf, Loaded, Absent
  <2>3. AllLoaded' = AllLoaded + LoadedOf'[p] - LoadedOf[p] /\ AllLoaded \in Nat /\ total = AllLoaded
    BY <1>1, <2>1, SumMoves, SumBounds DEF Own
  <2>4. CASE n < loaded[p]
    <3>1. UNCHANGED <<total, loaded>>
      BY <1>11, <2>2, <2>4 DEF SetPart
    <3>2. AllLoaded' = AllLoaded
      BY <1>1, <3>1, SumStays
    <3> QED BY <1>11, <2>1, <2>2, <2>3, <2>4, <3>1, <3>2
  <2>5. CASE n >= loaded[p]
    <3>1. total' = total + n - loaded[p] /\ loaded' = [loaded EXCEPT ![p] = n]
      BY <1>11, <2>2, <2>5 DEF SetPart
    <3>2. loaded'[p] = n /\ n # Absent
      BY <1>1, <3>1 DEF LoadedType, Absent
    <3>3. LoadedOf'[p] = n
      BY <3>2 DEF LoadedOf, Loaded
    <3> QED BY <2>1, <2>2, <2>3, <3>1, <3>2, <3>3
  <2> QED BY <2>2, <2>4, <2>5
<1>12. ASSUME NEW u \in Run, NEW p \in Part, Flying(u, p)
       PROVE  u = latest /\ loaded[p] # Absent /\ run[latest] # "done"
  <2>1. u = latest /\ run[latest] # "done" /\ part[u][p] = "flying"
    BY <1>8, <1>12 DEF Flying
  <2> QED BY <1>1, <2>1 DEF Own, Counted
<1>13. ASSUME NEW u \in Run, NEW p \in Part, Progress(u, p)  PROVE Own'
  <2>1. u = latest /\ loaded[p] # Absent /\ run[latest] # "done" /\ part[u][p] = "flying"
    BY <1>12, <1>13 DEF Progress, Flying
  <2>2. PICK n \in 0..PartSize : SetPart(p, n)
    BY <1>13 DEF Progress
  <2>3. /\ total' = AllLoaded' /\ loaded'[p] # Absent /\ mapped' = mapped
        /\ \A x \in Part : x # p => loaded'[x] = loaded[x]
    BY <1>11, <2>1, <2>2
  <2>4. run' = run /\ part' = part
    BY <1>13 DEF Progress
  <2>5. Counted(p)'
    BY <2>1, <2>3, <2>4 DEF Counted
  <2> QED BY <1>9, <2>1, <2>3, <2>4, <2>5
<1>14. ASSUME NEW u \in Run, NEW p \in Part, PartUploaded(u, p)  PROVE Own'
  <2>1. u = latest /\ loaded[p] # Absent /\ run[latest] # "done"
    BY <1>12, <1>14 DEF PartUploaded
  <2>2. PartSize \in 0..PartSize /\ SetPart(p, PartSize)
    BY <1>14 DEF PartUploaded
  <2>3. /\ total' = AllLoaded' /\ loaded'[p] = PartSize /\ mapped' = mapped
        /\ \A x \in Part : x # p => loaded'[x] = loaded[x]
    BY <1>11, <2>1, <2>2
  <2>4. run' = run /\ part' = [part EXCEPT ![u][p] = "uploaded"]
    BY <1>14 DEF PartUploaded
  <2>5. part'[latest][p] = "uploaded" /\ \A x \in Part : x # p => part'[latest][x] = part[latest][x]
    BY <1>1, <2>1, <2>4 DEF UploadPageTypeOK
  <2>6. Counted(p)'
    BY <2>3, <2>5 DEF Counted
  <2> QED BY <1>9, <2>1, <2>3, <2>4, <2>5, <2>6
<1> QED
  BY <1>2, <1>4, <1>5, <1>6, <1>7, <1>10, <1>13, <1>14 DEF UploadPageNext

LEMMA ProgressStep ==
  ASSUME ProgressInv, UploadPageNext
  PROVE  ProgressInv'
<1>1. UploadPageTypeOK' /\ Begun'
  BY UploadPageTypes, BegunStep DEF ProgressInv
<1>2. ASSUME alone', latest' # NoRun  PROVE Own'
  <2>1. CASE \E u \in Run : Upload(u)
    BY <1>2, <2>1, StartsAlone
  <2>2. CASE ~ \E u \in Run : Upload(u)
    <3>1. alone' = alone /\ latest' = latest
      BY <2>2 DEF UploadPageNext, ChangeFiles, LeaveForm, BeginFile, Succeeds, Rejected,
         Settles, Ends,
                  BeginBlock, Progress, PartUploaded
    <3> QED BY <1>1, <1>2, <3>1, StaysOwn
  <2> QED BY <2>1, <2>2
<1> QED BY <1>1, <1>2 DEF ProgressInv

LEMMA ProgressStill ==
  ASSUME ProgressInv, UNCHANGED uploadPageVars
  PROVE  ProgressInv'
<1> USE DEF uploadPageVars, storeVars
<1>1. UploadPageTypeOK' /\ Begun'
  BY DEF ProgressInv, UploadPageTypeOK, Begun
<1>2. ASSUME alone', latest' # NoRun  PROVE Own'
  <2>1. Own
    BY <1>2 DEF ProgressInv
  <2>2. AllLoaded' = AllLoaded
    BY SumStays DEF ProgressInv, UploadPageTypeOK, LoadedType
  <2> QED BY <2>1, <2>2 DEF Own, HasTasks, Counted
<1> QED BY <1>1, <1>2 DEF ProgressInv

LEMMA OwnIsTrue ==
  ASSUME ProgressInv
  PROVE  ProgressIsTrue
<1> SUFFICES ASSUME alone, latest # NoRun
             PROVE  /\ total = AllLoaded /\ total <= TotalSize
                    /\ run[latest] = "done" => total = TotalSize
  BY DEF ProgressIsTrue, AllLoaded
<1>1. Own /\ LoadedType
  BY DEF ProgressInv, UploadPageTypeOK, LoadedType
<1>2. run[latest] = "done" => \A p \in Part : loaded[p] = PartSize
  BY <1>1 DEF Own, Counted
<1> QED BY <1>1, <1>2, SumBounds DEF Own

-----------------------------------------------------------------------------
(* The pages together *)

LEMMA EmailStep ==
  ASSUME EmailInv, EmailNext
  PROVE  EmailInv'
BY ServerStep, QueryStep, ShowStep, MarkStep DEF EmailNext, TabStep

LEMMA Initially == Init => IInv
<1> SUFFICES ASSUME Init  PROVE IInv
  OBVIOUS
<1>1. EmailInv
  <2>1. EmailTypeOK
    <3> USE RecipientsAssumption DEF Init, EmailInit
    <3>1. /\ status \in {"PENDING", "ACTIVE"} /\ lapsed \in BOOLEAN /\ viewed \in BOOLEAN
          /\ invite \in {"none", "PENDING", "ACCEPTED"} /\ row \in {None, "first"} \cup Approval
      OBVIOUS
    <3>2. /\ offers \in [{"accept", "approve"} -> 0..MaxOffers]
          /\ accepting \in 0..MaxOffers /\ approving \subseteq Approval
      OBVIOUS
    <3>3. /\ page \in [Tab -> BOOLEAN] /\ invalid \cup told \cup unlucky \subseteq Tab
          /\ overtaken \in [Tab -> SUBSET Query]
      OBVIOUS
    <3>4. cache \in [Tab -> [Query -> {"none", "absent", "unviewed", "viewed"}]]
      BY DEF NothingAnswered
    <3>5. fetch \in [Tab -> [Query -> {"no", "refused", "absent", "unviewed", "viewed"}]]
      BY DEF NothingAsked
    <3>6. marks \in [Tab -> [asked : 0..MaxMarks, answered : 0..MaxMarks]]
      OBVIOUS
    <3> QED BY <3>1, <3>2, <3>3, <3>4, <3>5, <3>6 DEF EmailTypeOK
  <2>2. Accepted /\ \A t \in Tab : TabInv(t)
    BY RecipientsAssumption
       DEF Init, EmailInit, Accepted, TabInv, OnTheWay, Marked, Agrees, Calls, NothingAnswered, NothingAsked, Query
  <2> QED BY <2>1, <2>2 DEF EmailInv
<1>2. LinkInv
  BY DEF Init, LinkInit, LinkInv, LinkTypeOK, Plain, Tried, Word
<1>3. PeerInv
  <2>1. PeerSessionTypeOK
    <3>1. calls = <<>> /\ Len(calls) = 0 /\ 0 <= MaxCalls
      BY PeerSessionAssumption DEF Init, PeerInit
    <3>2. calls \in Seq([files : SUBSET File, stage : {"preparing", "sent", "stored", "failed"}])
      BY <3>1
    <3>3. {recalled, visiting, started, guarded, ending, informed} \subseteq BOOLEAN
      BY DEF Init, PeerInit
    <3>4. {mutated, mine, visited} \subseteq 0..Len(calls) /\ Len(calls) <= MaxCalls
      BY <3>1 DEF Init, PeerInit
    <3>5. /\ screen \in {"form", "transfer", "gone"} /\ listed \subseteq picked /\ picked \subseteq File
          /\ outgoing \in {"none", "joining", "waiting", "calling", "open", "completed", "closed"}
          /\ incoming \in {"none", "idle", "joining", "waiting", "connected", "completed", "closed"}
          /\ queue \cup headed \cup assembling \cup handed \cup reported \subseteq File
      BY DEF Init, PeerInit
    <3> QED BY <3>2, <3>3, <3>4, <3>5 DEF PeerSessionTypeOK
  <2>2. Promised /\ Announced /\ PromisedFilesArrive
    BY DEF Init, PeerInit, Promised, Announced, PromisedFilesArrive
  <2> QED BY <2>1, <2>2 DEF PeerInv
<1>4. ProgressInv
  <2>1. UploadPageTypeOK
    <3>1. /\ run \in [Run -> {"idle", "initiating", "running", "done", "rejected", "over"}]
          /\ part \in [Run -> [Part -> {"waiting", "flying", "uploaded"}]]
          /\ total \in 0..MaxTotal /\ loaded \in [Part -> Absent..PartSize]
      BY UploadPageAssumption DEF Init, UploadPageInit, Absent
    <3> QED BY <3>1 DEF Init, UploadPageInit, UploadPageTypeOK
  <2>2. Begun /\ latest = NoRun
    BY DEF Init, UploadPageInit, Begun
  <2> QED BY <2>1, <2>2 DEF ProgressInv
<1> QED BY <1>1, <1>2, <1>3, <1>4 DEF IInv

\* Every step of Pages is one of one kind of page, which leaves the variables of the others
\* alone, or changes nothing.
THEOREM Invariance == Spec => []IInv
<1>1. ASSUME IInv, [Next]_pageVars  PROVE IInv'
  <2>1. EmailInv'
    BY <1>1, EmailStep, EmailStill DEF IInv, Next, pageVars
  <2>2. LinkInv'
    BY <1>1, LinkStep, LinkStill DEF IInv, Next, pageVars
  <2>3. PeerInv'
    BY <1>1, PeerStep, PeerStill DEF IInv, Next, pageVars
  <2>4. ProgressInv'
    BY <1>1, ProgressStep, ProgressStill DEF IInv, Next, pageVars
  <2> QED BY <2>1, <2>2, <2>3, <2>4 DEF IInv
<1> QED BY <1>1, Initially, PTL DEF Spec

\* Every variable of the pages keeps its type.
THEOREM TypesHold == Spec => []PagesTypeOK
<1>1. IInv => PagesTypeOK
  BY DEF IInv, EmailInv, LinkInv, PeerInv, ProgressInv, PagesTypeOK
<1> QED BY <1>1, Invariance, PTL

\* What a tab lists or counts it can open; what it has marked it neither lists nor counts as
\* unviewed, except by an answer that was under way when the mark was answered; what it shows
\* as unviewed it marks, unless a mark has failed.  So it is however the queries, the marks and
\* the invitations of transfer.controller.ts and useMarkTransferAsViewedMutation.ts overtake
\* each other.
THEOREM MarksAndListsAgreeAlways == Spec => []MarksAndListsAgree
<1>1. IInv => MarksAndListsAgree
  BY TabsAgree DEF IInv
<1> QED BY <1>1, Invariance, PTL

\* Files that PublicLinkView.tsx shows open with the address and the password it has, unless
\* these were changed while they were tried, or since.
THEOREM ShownFilesOpen == Spec => []ShownOpens
<1>1. IInv => ShownOpens
  BY LinkOpens DEF IInv
<1> QED BY <1>1, Invariance, PTL

\* A receiver whose page (PeerTransferSession.tsx) is there and was told that the transfer is
\* complete gets every file the session was made for, or an error, if the sender was called
\* for only once.
THEOREM PromisesAreKept == Spec => []PromisedFilesArrive
<1>1. IInv => PromisedFilesArrive
  BY DEF IInv, PeerInv
<1> QED BY <1>1, Invariance, PTL

\* As long as no two uploads of a tab have overlapped, the progress that uploadStore.ts holds
\* is that of the parts: for any number and size of parts, however often each is tried.
THEOREM ProgressStaysTrue == Spec => []ProgressIsTrue
<1>1. IInv => ProgressIsTrue
  BY OwnIsTrue DEF IInv
<1> QED BY <1>1, Invariance, PTL

\* approveInvite gives a key only to a guest who has accepted, and never a second one.
THEOREM GuestsKeepTheirKeys == Spec => GuestKeysStay
<1>1. ASSUME IInv, [Next]_pageVars  PROVE row' # row => row = None /\ invite = "ACCEPTED"
  <2>1. ASSUME NEW a \in Approval, Approve(a)
        PROVE  row' # row => row = None /\ invite = "ACCEPTED"
    BY <1>1, <2>1 DEF IInv, EmailInv, Accepted, Approve
  <2>2. CASE EmailNext
    BY <2>1, <2>2 DEF EmailNext, Commit, Expire, InviteStep, Offer, Dismiss, CheckAcceptance,
       Accept,
         CheckApproval, TabStep, OpenDetails, CloseDetails, Ask, Arrive, FetchFails, Mark, MarkFails,
         MarkAnswered, serverVars
  <2>3. CASE UNCHANGED emailVars
    BY <2>3 DEF emailVars, serverVars
  <2> QED BY <1>1, <2>2, <2>3 DEF Next, pageVars
<1>2. IInv /\ [Next]_pageVars => [row' # row => row = None /\ invite = "ACCEPTED"]_pageVars
  BY <1>1
<1> QED BY <1>2, Invariance, PTL DEF Spec, GuestKeysStay
=============================================================================
