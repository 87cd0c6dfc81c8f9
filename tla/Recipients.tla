----------------------------- MODULE Recipients -----------------------------
(***************************************************************************)
(* A transfer that reaches its recipient by e-mail, in the pages of an      *)
(* account or of a guest who is invited and then approved                   *)
(* (transfer.controller.ts, useHandleGlobalAction.tsx,                      *)
(* TransferDetailsView.tsx, useMarkTransferAsViewedMutation.ts and the      *)
(* queries of the lists, the details and the count of unviewed transfers).  *)
(*                                                                         *)
(* A tab keeps the answers to its queries, and repeats a query at any time: *)
(* when a page mounts or the window gets the focus with the answer stale.   *)
(* How the transfer becomes ACTIVE is the matter of Transfers.              *)
(***************************************************************************)
EXTENDS Naturals

CONSTANTS Tab,
          Approval,    \* approvals that the owner's pages may send
          None,        \* no row
          MaxOffers,   \* bound on the toasts of one kind, and on the acceptances under way
          MaxMarks     \* bound on the calls of one tab that mark the transfer as viewed

ASSUME RecipientsAssumption ==
  MaxOffers \in Nat /\ MaxMarks \in Nat \ {0} /\ {None, "first"} \cap Approval = {}

VARIABLES
  \* the database
  status,       \* of the transfer
  lapsed,       \* its expiration_date has passed
  invite,       \* of the guest: "none" for a recipient with an account
  row,          \* the email transfer of the recipient: what made it
  viewed,       \* its column
  \* invitations
  offers,       \* toasts that offer to accept, to approve
  accepting,    \* acceptInvite handlers before their update
  approving,    \* approveInvite handlers before their insertion
  \* a tab
  page,         \* the details page is open
  cache,        \* the answers of its queries
  fetch,        \* the answers on their way, or "no"
  invalid,      \* the count is invalidated
  marks,        \* markTransferAsViewed calls, and answers to them on their way
  \* history
  told,         \* a mark was answered
  unlucky,      \* a mark failed
  overtaken     \* lists and counts that were under way, and not asked anew, when a mark was
                \* answered: until an answer that knows of it

serverVars == <<status, invite, row, viewed>>
inviteVars == <<offers, accepting, approving>>
tabVars    == <<page, cache, fetch, invalid, marks, told, unlucky, overtaken>>
emailVars  == <<serverVars, lapsed, inviteVars, tabVars>>

Valid == status = "ACTIVE" /\ ~lapsed

-----------------------------------------------------------------------------
(* The transfer *)

Commit ==
  /\ status = "PENDING"
  /\ status' = "ACTIVE"
  /\ UNCHANGED <<invite, row, viewed, inviteVars, tabVars, lapsed>>

Expire ==
  /\ ~lapsed
  /\ lapsed' = TRUE
  /\ UNCHANGED <<serverVars, inviteVars, tabVars>>

-----------------------------------------------------------------------------
(* Invitations.  Every rendering of Root runs the action of the address: the same   *)
(* offer may be made several times, and is not looked at again when it is taken.    *)

\* getInvitationDetailsFromToken, and the toast
Offer(what) ==
  /\ Valid /\ offers[what] < MaxOffers
  /\ invite = (IF what = "accept" THEN "PENDING" ELSE "ACCEPTED")
  /\ offers' = [offers EXCEPT ![what] = @ + 1]
  /\ UNCHANGED <<serverVars, accepting, approving, tabVars, lapsed>>

Taken(what) == offers[what] > 0 /\ offers' = [offers EXCEPT ![what] = @ - 1]

Dismiss(what) ==
  /\ Taken(what)
  /\ UNCHANGED <<serverVars, accepting, approving, tabVars, lapsed>>

\* acceptInvite up to its update, or its refusal
CheckAcceptance ==
  /\ Taken("accept") /\ accepting < MaxOffers
  /\ accepting' = IF invite = "PENDING" /\ Valid THEN accepting + 1 ELSE accepting
  /\ UNCHANGED <<serverVars, approving, tabVars, lapsed>>

Accept ==
  /\ accepting > 0
  /\ accepting' = accepting - 1
  /\ invite' \in {"ACCEPTED", invite}
  /\ UNCHANGED <<status, row, viewed, offers, approving, tabVars, lapsed>>

\* The owner's browser has sealed the key for the guest: approveInvite, up to its insertion,
\* or its refusal.
CheckApproval(a) ==
  /\ Taken("approve") /\ a \notin approving /\ row # a
  /\ approving' = IF invite = "ACCEPTED" /\ Valid /\ row = None THEN approving \cup {a} ELSE approving
  /\ UNCHANGED <<serverVars, accepting, tabVars, lapsed>>

\* Mutated form of Approve: a key that is there is replaced
ApproveAgain(a) ==
  /\ a \in approving
  /\ approving' = approving \ {a}
  /\ row' = a
  /\ UNCHANGED <<status, invite, viewed, offers, accepting, tabVars, lapsed>>

\* unique_recipient_per_transfer
Approve(a) ==
  /\ a \in approving
  /\ approving' = approving \ {a}
  /\ row' \in {IF row = None THEN a ELSE row, row}
  /\ UNCHANGED <<status, invite, viewed, offers, accepting, tabVars, lapsed>>

-----------------------------------------------------------------------------
(* What the queries answer *)

Seen == IF viewed THEN "viewed" ELSE "unviewed"
Received == row # None /\ status # "PENDING"

\* getTransferDetails, getTransfers, getUnviewedEmailTransfersCount: a count of 1 is "unviewed"
DetailsAnswer == IF Received THEN Seen ELSE "refused"
ListAnswer    == IF Received THEN Seen ELSE "absent"
CountAnswer   == IF Received /\ ~viewed THEN "unviewed" ELSE "absent"

Answer(q) == CASE q = "details" -> DetailsAnswer [] q = "list" -> ListAnswer [] q = "count" -> CountAnswer

Query == {"details", "list", "count"}

-----------------------------------------------------------------------------
(* A tab *)

Calls(m) == m.asked + m.answered

\* The effect of the details page, when it mounts and when its data change
MarkAfter(t, isOpen, data, m) ==
  IF isOpen /\ data # "none" /\ Calls(m) < MaxMarks THEN [m EXCEPT !.asked = @ + 1] ELSE m

OpenDetails(t) ==
  /\ ~page[t] /\ Calls(marks[t]) < MaxMarks
  /\ page' = [page EXCEPT ![t] = TRUE]
  /\ marks' = [marks EXCEPT ![t] = MarkAfter(t, TRUE, cache[t]["details"], @)]
  /\ UNCHANGED <<serverVars, inviteVars, cache, fetch, invalid, told, unlucky, lapsed, overtaken>>

CloseDetails(t) ==
  /\ page[t]
  /\ page' = [page EXCEPT ![t] = FALSE]
  /\ UNCHANGED <<serverVars, inviteVars, cache, fetch, invalid, marks, told, unlucky, lapsed, overtaken>>

\* The query is asked and read on the server: what comes between makes it a later one.
Ask(t, q) ==
  /\ fetch[t][q] = "no" /\ (q = "details" => page[t])
  /\ fetch' = [fetch EXCEPT ![t][q] = Answer(q)]
  /\ UNCHANGED <<serverVars, inviteVars, page, cache, invalid, marks, told, unlucky, lapsed, overtaken>>

\* Data that did not change cause no rendering, but details may differ in the addresses of
\* their pictures, which are signed anew for each answer.
Arrive(t, q) ==
  /\ fetch[t][q] \notin {"no", "refused"}
  /\ q = "details" => Calls(marks[t]) < MaxMarks
  /\ cache' = [cache EXCEPT ![t][q] = fetch[t][q]]
  /\ fetch' = [fetch EXCEPT ![t][q] = "no"]
  /\ \/ q = "details" /\ marks' = [marks EXCEPT ![t] = MarkAfter(t, page[t], cache'[t][q], @)]
     \/ (q # "details" \/ cache[t][q] = fetch[t][q]) /\ UNCHANGED marks
  /\ invalid' = IF q = "count" THEN invalid \ {t} ELSE invalid
  /\ overtaken' = [overtaken EXCEPT ![t] = IF fetch[t][q] = "unviewed" THEN @ ELSE @ \ {q}]
  /\ UNCHANGED <<serverVars, inviteVars, page, told, unlucky, lapsed>>

\* After its retries, a query keeps what it had.
FetchFails(t, q) ==
  /\ fetch[t][q] # "no"
  /\ fetch' = [fetch EXCEPT ![t][q] = "no"]
  /\ UNCHANGED <<serverVars, inviteVars, page, cache, invalid, marks, told, unlucky, lapsed, overtaken>>

\* markEmailTransferAsViewed
Mark(t) ==
  /\ marks[t].asked > 0 /\ row # None
  /\ viewed' = TRUE
  /\ marks' = [marks EXCEPT ![t].asked = @ - 1, ![t].answered = @ + 1]
  /\ UNCHANGED <<status, invite, row, inviteVars, page, cache, fetch, invalid, told, unlucky, lapsed, overtaken>>

MarkFails(t) ==
  /\ \/ marks[t].asked > 0 /\ marks' = [marks EXCEPT ![t].asked = @ - 1]
     \/ marks[t].answered > 0 /\ marks' = [marks EXCEPT ![t].answered = @ - 1]
  /\ unlucky' = unlucky \cup {t}
  /\ UNCHANGED <<serverVars, inviteVars, page, cache, fetch, invalid, told, lapsed, overtaken>>

\* invalidateQueries repeats a count that is under way, unless it is the first.
FirstCount(t) == cache[t]["count"] = "none" /\ fetch[t]["count"] # "no"

Recounts(t) == ~FirstCount(t)

Overtakes(t, q) ==
  \/ q = "list" /\ fetch[t][q] # "no"
  \/ q = "count" /\ FirstCount(t)

\* Mutated form of MarkAnswered: the count is not invalidated
MarkAnsweredAlone(t) ==
  /\ marks[t].answered > 0
  /\ cache' = [cache EXCEPT ![t]["details"] = IF @ = "none" THEN @ ELSE "viewed",
                            ![t]["list"] = IF @ = "unviewed" THEN "viewed" ELSE @]
  /\ marks' = LET m == [marks[t] EXCEPT !.answered = @ - 1] IN
              [marks EXCEPT ![t] =
                 IF cache[t]["details"] = "unviewed" THEN MarkAfter(t, page[t], "viewed", m) ELSE m]
  /\ told' = told \cup {t}
  /\ UNCHANGED <<serverVars, inviteVars, page, lapsed, fetch, invalid, unlucky, overtaken>>

MarkAnswered(t) ==
  /\ marks[t].answered > 0
  /\ fetch' = IF Recounts(t) THEN [fetch EXCEPT ![t]["count"] = CountAnswer] ELSE fetch
  /\ invalid' = invalid \cup {t}
  /\ cache' = [cache EXCEPT ![t]["details"] = IF @ = "none" THEN @ ELSE "viewed",
                            ![t]["list"] = IF @ = "unviewed" THEN "viewed" ELSE @]
  /\ marks' = LET m == [marks[t] EXCEPT !.answered = @ - 1] IN
              [marks EXCEPT ![t] =
                 IF cache[t]["details"] = "unviewed" THEN MarkAfter(t, page[t], "viewed", m) ELSE m]
  /\ told' = told \cup {t}
  /\ overtaken' = [overtaken EXCEPT ![t] = @ \cup {q \in Query : Overtakes(t, q)}]
  /\ UNCHANGED <<serverVars, inviteVars, page, lapsed, unlucky>>

-----------------------------------------------------------------------------
NothingAnswered == [q \in Query |-> "none"]
NothingAsked    == [q \in Query |-> "no"]

EmailInit ==
  /\ status = "PENDING" /\ lapsed = FALSE
  /\ \/ invite = "none" /\ row = "first"
     \/ invite = "PENDING" /\ row = None
  /\ viewed = FALSE
  /\ offers = [accept |-> 0, approve |-> 0] /\ accepting = 0 /\ approving = {}
  /\ page = [t \in Tab |-> FALSE]
  /\ cache = [t \in Tab |-> NothingAnswered]
  /\ fetch = [t \in Tab |-> NothingAsked]
  /\ invalid = {} /\ told = {} /\ unlucky = {} /\ overtaken = [t \in Tab |-> {}]
  /\ marks = [t \in Tab |-> [asked |-> 0, answered |-> 0]]

InviteStep ==
  \/ \E what \in {"accept", "approve"} : Offer(what) \/ Dismiss(what)
  \/ CheckAcceptance \/ Accept
  \/ \E a \in Approval : CheckApproval(a) \/ Approve(a)

TabStep(t) ==
  \/ OpenDetails(t) \/ CloseDetails(t)
  \/ \E q \in Query : Ask(t, q) \/ Arrive(t, q) \/ FetchFails(t, q)
  \/ Mark(t) \/ MarkFails(t) \/ MarkAnswered(t)

EmailNext == Commit \/ Expire \/ InviteStep \/ \E t \in Tab : TabStep(t)

-----------------------------------------------------------------------------
(* Properties *)

EmailTypeOK ==
  /\ status \in {"PENDING", "ACTIVE"} /\ lapsed \in BOOLEAN
  /\ invite \in {"none", "PENDING", "ACCEPTED"}
  /\ row \in {None, "first"} \cup Approval /\ viewed \in BOOLEAN
  /\ offers \in [{"accept", "approve"} -> 0..MaxOffers]
  /\ accepting \in 0..MaxOffers /\ approving \subseteq Approval
  /\ page \in [Tab -> BOOLEAN]
  /\ cache \in [Tab -> [Query -> {"none", "absent", "unviewed", "viewed"}]]
  /\ fetch \in [Tab -> [Query -> {"no", "refused", "absent", "unviewed", "viewed"}]]
  /\ marks \in [Tab -> [asked : 0..MaxMarks, answered : 0..MaxMarks]]
  /\ invalid \cup told \cup unlucky \subseteq Tab
  /\ overtaken \in [Tab -> SUBSET Query]

\* What a tab lists or counts it can open.
ListedOpens ==
  \A t \in Tab : {cache[t]["list"], cache[t]["count"]} \cap {"viewed", "unviewed"} # {} => Received

\* A transfer that a tab has marked is not counted or listed as unviewed by it, although
\* answers and marks overtake each other.  Excepted is a count that is to be repeated, and
\* what was under way when the mark was answered, which keeps the tab wrong until it asks again.
MarkedIsSeen ==
  \A t \in told :
    /\ cache[t]["count"] = "unviewed" => t \in invalid \/ "count" \in overtaken[t]
    /\ cache[t]["list"] = "unviewed" => "list" \in overtaken[t]

\* A page that shows the transfer as unviewed is about to mark it, also when old data arrive
\* after the mark.
ShownIsMarked ==
  \A t \in Tab : page[t] /\ cache[t]["details"] = "unviewed" /\ t \notin unlucky =>
                   Calls(marks[t]) > 0

\* The three together, in whatever order fetches, marks and invitations are answered.
MarksAndListsAgree == ListedOpens /\ MarkedIsSeen /\ ShownIsMarked

=============================================================================
