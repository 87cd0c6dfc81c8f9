----------------------------- MODULE Signaling -----------------------------
(***************************************************************************)
(* How the pages of one peer-to-peer session find each other: the socket   *)
(* handlers of the server (signaling.ts), and of each page the manager, its *)
(* signaling channel and its RTCPeerConnection up to the connection        *)
(* (PeerTransferManager.ts).  What is sent over it is PeerTransfer.        *)
(*                                                                         *)
(* Every handler stops at its awaits: the server's at the database, a      *)
(* page's at the crypto workers and at WebRTC.  In between, others run.    *)
(* A page is one manager: a reloaded page or a second tab is another page. *)
(***************************************************************************)
EXTENDS Naturals, Sequences, FiniteSets

CONSTANTS Page,
          Outgoing,     \* the pages in mode OUTGOING; the others are INCOMING
          User,         \* whose page it is: "sender" or "receiver"
          None,         \* no page
          MaxMishaps,   \* bound: how much goes wrong by itself
          MaxStarted    \* bound: how many pages take part

ASSUME PagesAssumption ==
  /\ Outgoing \subseteq Page /\ None \notin Page /\ MaxMishaps \in Nat /\ MaxStarted \in Nat
  /\ User \in [Page -> {"sender", "receiver"}]
  /\ \A p \in Outgoing : User[p] = "sender"

VARIABLES
  \* the server
  conn,         \* a page's first socket: "none", "up", "cut" (unnoticed), "down"
  joining,      \* its join handler: "no", "checking", "updating" or how it ended
  leaving,      \* its disconnect handler: "no", "busy" or how it ended
  room,         \* the pages whose socket is in the room
  socketId,     \* sender_socket_id and receiver_socket_id in the database
  relays,       \* messages under way, to the end of their handler's access check
  \* a page
  state,        \* manager.state
  inbox,        \* what the server has sent it, in order
  calls,        \* how often it ran createCall
  tasks,        \* its handlers, each at one of its awaits
  signal,       \* peer.signalingState
  remote,       \* whose description is peer.remoteDescription
  queue, added, \* whose candidates are in candidateQueue, and in the connection
  errors,       \* the pages that were told one of their messages was not sent
  \* WebRTC
  links         \* <<outgoing, incoming>>: the connections that came up

serverVars == <<joining, leaving, room, socketId>>
rtcVars    == <<calls, signal, remote, queue, added, errors, links>>
pageVars   == <<state, tasks, rtcVars>>
vars == <<conn, serverVars, relays, inbox, pageVars>>

Message(type, from, n) == [type |-> type, from |-> from, n |-> n]
Task(step, from, n)    == [step |-> step, from |-> from, n |-> n]

\* The pages and messages something has happened to: what happens by itself is
\* bounded by MaxMishaps.
MishapsLeft ==
  Cardinality({p \in Page : conn[p] \in {"cut", "down"} \/ (state[p] = "FAILED" /\ conn[p] = "none")})
  + Cardinality({p \in Page : joining[p] \in {"refused", "broken"}})
  + Cardinality({p \in Page : leaving[p] = "failed"}) + Cardinality(errors) < MaxMishaps

Live(p) == state[p] \notin {"IDLE", "CLOSED"}

-----------------------------------------------------------------------------
(* The server *)

\* Mutated form of Broadcast: io.to(room) for socket.to(room)
BroadcastToAll(from, msg) ==
  [q \in Page |-> IF q \in room /\ conn[q] = "up"
                  THEN Append(inbox[q], msg) ELSE inbox[q]]

\* socket.to(room).emit: everybody else in the room.  A socket that is cut gets
\* nothing more.
Broadcast(from, msg) ==
  [q \in Page |-> IF q \in room \ {from} /\ conn[q] = "up"
                  THEN Append(inbox[q], msg) ELSE inbox[q]]

Reply(p, boxes, msg) ==
  IF conn[p] = "up" THEN [boxes EXCEPT ![p] = Append(@, msg)] ELSE boxes

\* Mutated form of AdmitJoin: the room is joined under the user's id
AdmitJoinByUser(p) ==
  /\ joining[p] = "checking"
  /\ joining' = [joining EXCEPT ![p] = "updating"]
  /\ room' = IF conn[p] = "down" THEN room ELSE room \cup {User[p]}
  /\ UNCHANGED <<conn, leaving, socketId, relays, inbox, pageVars>>

\* joinSignalingSession after canUserAccessSession.  On a socket whose end the
\* server has noticed, join does nothing.
AdmitJoin(p) ==
  /\ joining[p] = "checking"
  /\ joining' = [joining EXCEPT ![p] = "updating"]
  /\ room' = IF conn[p] = "down" THEN room ELSE room \cup {p}
  /\ UNCHANGED <<conn, leaving, socketId, relays, inbox, pageVars>>

\* ... and after the socket id is in the database
AnnounceJoin(p) ==
  /\ joining[p] = "updating"
  /\ joining' = [joining EXCEPT ![p] = "done"]
  /\ socketId' = [socketId EXCEPT ![User[p]] = p]
  /\ inbox' = Reply(p, Broadcast(p, Message("peer-joined", p, 0)), Message("joined", p, 0))
  /\ UNCHANGED <<conn, leaving, room, relays, pageVars>>

\* The database fails at one of the two awaits: the page is told, and stays in
\* the room if it was put there.
JoinFails(p) ==
  /\ joining[p] \in {"checking", "updating"} /\ MishapsLeft
  /\ joining' = [joining EXCEPT ![p] = IF @ = "checking" THEN "refused" ELSE "broken"]
  /\ inbox' = Reply(p, inbox, Message("join-failed", p, 0))
  /\ UNCHANGED <<conn, leaving, room, socketId, relays, pageVars>>

\* handleOffer, handleAnswer and handleCandidates, after canUserAccessSession
Relay(m) ==
  /\ relays' = relays \ {m}
  /\ inbox' = Broadcast(m.from, m)
  /\ UNCHANGED <<conn, serverVars, pageVars>>

\* The database fails: the sender of the message is told.
RelayFails(m) ==
  /\ MishapsLeft
  /\ relays' = relays \ {m}
  /\ errors' = errors \cup {m.from}
  /\ UNCHANGED <<conn, serverVars, inbox, state, tasks, calls, signal, remote, queue, added, links>>

\* handleDisconnect, when socket.data says the page has joined.  Its socket has
\* left the room already.
ServerNotices(p) ==
  /\ conn[p] = "cut"
  /\ conn' = [conn EXCEPT ![p] = "down"]
  /\ room' = room \ {p}
  /\ leaving' = IF joining[p] \in {"updating", "broken", "done"}
                THEN [leaving EXCEPT ![p] = "busy"] ELSE leaving
  /\ UNCHANGED <<joining, socketId, relays, inbox, pageVars>>

\* Mutated form of AnnounceLeave: only for the socket the database knows
AnnounceLeaveOfKnown(p) ==
  /\ leaving[p] = "busy"
  /\ leaving' = [leaving EXCEPT ![p] = "done"]
  /\ socketId' = [socketId EXCEPT ![User[p]] = IF @ = p THEN None ELSE @]
  /\ inbox' = IF socketId[User[p]] = p THEN Broadcast(p, Message("peer-left", p, 0)) ELSE inbox
  /\ UNCHANGED <<conn, joining, room, relays, pageVars>>

AnnounceLeave(p) ==
  /\ leaving[p] = "busy"
  /\ leaving' = [leaving EXCEPT ![p] = "done"]
  /\ socketId' = [socketId EXCEPT ![User[p]] = None]
  /\ inbox' = Broadcast(p, Message("peer-left", p, 0))
  /\ UNCHANGED <<conn, joining, room, relays, pageVars>>

\* "Ignore errors during disconnect"
LeaveFails(p) ==
  /\ leaving[p] = "busy" /\ MishapsLeft
  /\ leaving' = [leaving EXCEPT ![p] = "failed"]
  /\ UNCHANGED <<conn, joining, room, socketId, relays, inbox, pageVars>>

-----------------------------------------------------------------------------
(* The manager of a page *)

\* startTransfer: the socket connects, the session key is decrypted, and the page
\* asks to join.
Start(p) ==
  /\ state[p] = "IDLE" /\ Cardinality({q \in Page : state[q] # "IDLE"}) < MaxStarted
  /\ conn' = [conn EXCEPT ![p] = "up"]
  /\ joining' = [joining EXCEPT ![p] = "checking"]
  /\ state' = [state EXCEPT ![p] = IF p \in Outgoing THEN "CONNECTING_SIGNALING"
                                   ELSE "CONNECTING_WEBRTC"]
  /\ UNCHANGED <<leaving, room, socketId, relays, inbox, tasks, rtcVars>>

\* connect_error, or a key that cannot be decrypted
StartFails(p) ==
  /\ state[p] = "IDLE" /\ MishapsLeft
  /\ state' = [state EXCEPT ![p] = "FAILED"]
  /\ UNCHANGED <<conn, serverVars, relays, inbox, tasks, rtcVars>>

\* manager.close.  What the page's handlers still do on a closed connection shows
\* nowhere but in its state.
ClosePage(p) ==
  /\ state' = [state EXCEPT ![p] = "CLOSED"]
  /\ conn' = [conn EXCEPT ![p] = IF @ = "up" THEN "cut" ELSE @]
  /\ tasks' = [tasks EXCEPT ![p] = {}]
  /\ inbox' = [inbox EXCEPT ![p] = <<>>]
  /\ UNCHANGED <<serverVars, relays, rtcVars>>

\* The user leaves, or the connection to the other page fails.
Leaves(p) == Live(p) /\ MishapsLeft /\ ClosePage(p)

\* channel.onclose, onconnectionstatechange
NoticesClose(p) ==
  /\ Live(p)
  /\ \E l \in links : p \in {l[1], l[2]} /\ "CLOSED" \in {state[l[1]], state[l[2]]}
  /\ ClosePage(p)

\* The signaling socket is lost.  The client connects a new one by itself, on which
\* it can send, but which has not joined the room.
SocketDrops(p) ==
  /\ Live(p) /\ conn[p] = "up" /\ MishapsLeft
  /\ conn' = [conn EXCEPT ![p] = "cut"]
  /\ inbox' = [inbox EXCEPT ![p] = <<>>]
  /\ UNCHANGED <<serverVars, relays, pageVars>>

\* The page takes the next event from the server, if it is one of these.
Hears(p, types) ==
  /\ Live(p) /\ inbox[p] # <<>> /\ Head(inbox[p]).type \in types
  /\ inbox' = [inbox EXCEPT ![p] = Tail(@)]
  /\ UNCHANGED <<conn, serverVars, relays, rtcVars>>

HearsJoined(p) ==
  /\ Hears(p, {"joined", "join-failed"})
  /\ state' = [state EXCEPT ![p] = IF Head(inbox[p]).type = "joined"
                                   THEN "WAITING_FOR_PEER" ELSE "FAILED"]
  /\ UNCHANGED tasks

\* Only an OUTGOING page listens: it makes a call.
HearsPeerJoined(p) ==
  /\ Live(p) /\ inbox[p] # <<>> /\ Head(inbox[p]).type = "peer-joined"
  /\ inbox' = [inbox EXCEPT ![p] = Tail(@)]
  /\ \/ /\ p \in Outgoing
        /\ state' = [state EXCEPT ![p] = "CONNECTING_WEBRTC"]
        /\ calls' = [calls EXCEPT ![p] = @ + 1]
        /\ tasks' = [tasks EXCEPT ![p] = @ \cup {Task("calling", p, calls[p] + 1)}]
     \/ /\ p \notin Outgoing
        /\ UNCHANGED <<state, calls, tasks>>
  /\ UNCHANGED <<conn, serverVars, relays, signal, remote, queue, added, errors, links>>

HearsPeerLeft(p) ==
  /\ Live(p) /\ inbox[p] # <<>> /\ Head(inbox[p]).type = "peer-left"
  /\ ClosePage(p)

\* An INCOMING page listens to offers, an OUTGOING one to answers, both to
\* candidates; each starts with a decryption.
Listens(p, type) ==
  \/ type = "offer" /\ p \notin Outgoing
  \/ type = "answer" /\ p \in Outgoing
  \/ type = "candidate"

HearsPeer(p) ==
  /\ Hears(p, {"offer", "answer", "candidate"})
  /\ LET m == Head(inbox[p]) IN
       tasks' = IF Listens(p, m.type)
                THEN [tasks EXCEPT ![p] = @ \cup {Task(m.type, m.from, m.n)}] ELSE tasks
  /\ UNCHANGED state

-----------------------------------------------------------------------------
(* The handlers of a page, from await to await *)

\* Task t gives way to the tasks in next.
Continues(p, t, next) == tasks' = [tasks EXCEPT ![p] = (@ \ {t}) \cup next]

\* sendOffer, sendAnswer and sendIceCandidates encrypt first: what p sends is under
\* way from here on, and overtaken by what else it sends.
Sends(p, type, n) == {Message(type, p, n)}

\* After each setLocalDescription onicecandidate fires, or a description repeats the
\* candidates.
Gathered(p) == Sends(p, "candidate", 0)

\* createCall: createOffer, setLocalDescription, sendOffer
Calls(p) ==
  \E t \in tasks[p] :
    /\ t.step = "calling"
    /\ signal' = [signal EXCEPT ![p] = "have-local-offer"]
    /\ relays' = relays \cup Sends(p, "offer", t.n) \cup Gathered(p)
    /\ Continues(p, t, {})
    /\ UNCHANGED <<conn, serverVars, inbox, state, calls, remote, queue, added, errors, links>>

\* The offer handler: setRemoteDescription, ...
TakesOffer(p) ==
  \E t \in tasks[p] :
    /\ t.step = "offer"
    /\ remote' = [remote EXCEPT ![p] = t.from]
    /\ signal' = [signal EXCEPT ![p] = "have-remote-offer"]
    /\ Continues(p, t, {[t EXCEPT !.step = "answering"]})
    /\ UNCHANGED <<conn, serverVars, relays, inbox, state, calls, queue, added, errors, links>>

\* ... createAnswer and setLocalDescription, which throw in the state "stable", ...
Answers(p) ==
  \E t \in tasks[p] :
    /\ t.step = "answering"
    /\ \/ /\ signal[p] = "have-remote-offer"
          /\ signal' = [signal EXCEPT ![p] = "stable"]
          /\ relays' = relays \cup Gathered(p)
          /\ Continues(p, t, {[t EXCEPT !.step = "answers"]})
          /\ UNCHANGED state
       \/ /\ signal[p] # "have-remote-offer"
          /\ state' = [state EXCEPT ![p] = "FAILED"]
          /\ Continues(p, t, {})
          /\ UNCHANGED <<signal, relays>>
    /\ UNCHANGED <<conn, serverVars, inbox, calls, remote, queue, added, errors, links>>

\* The candidates that came before the remote description are added.
DrainsQueue(p) ==
  /\ added' = [added EXCEPT ![p] = @ \cup queue[p]]
  /\ queue' = [queue EXCEPT ![p] = {}]

\* Mutated form of SendsAnswer: the queue is left to the answer handler of the other side
SendsAnswerOnly(p) ==
  \E t \in tasks[p] :
    /\ t.step = "answers"
    /\ relays' = relays \cup Sends(p, "answer", t.n)
    /\ Continues(p, t, {})
    /\ UNCHANGED <<conn, serverVars, inbox, state, rtcVars>>

\* ... and, with the answer encrypted, sendAnswer
SendsAnswer(p) ==
  \E t \in tasks[p] :
    /\ t.step = "answers"
    /\ relays' = relays \cup Sends(p, "answer", t.n)
    /\ DrainsQueue(p)
    /\ Continues(p, t, {})
    /\ UNCHANGED <<conn, serverVars, inbox, state, calls, signal, remote, errors, links>>

\* The answer handler: setRemoteDescription throws unless an offer is out.
TakesAnswer(p) ==
  \E t \in tasks[p] :
    /\ t.step = "answer"
    /\ \/ /\ signal[p] = "have-local-offer"
          /\ signal' = [signal EXCEPT ![p] = "stable"]
          /\ remote' = [remote EXCEPT ![p] = t.from]
          /\ DrainsQueue(p)
          /\ UNCHANGED state
       \/ /\ signal[p] # "have-local-offer"
          /\ state' = [state EXCEPT ![p] = "FAILED"]
          /\ UNCHANGED <<signal, remote, queue, added>>
    /\ Continues(p, t, {})
    /\ UNCHANGED <<conn, serverVars, relays, inbox, calls, errors, links>>

\* Mutated form of TakesCandidate: a candidate that comes too early is dropped
TakesCandidateInTime(p) ==
  \E t \in tasks[p] :
    /\ t.step = "candidate"
    /\ added' = IF remote[p] # None THEN [added EXCEPT ![p] = @ \cup {t.from}] ELSE added
    /\ Continues(p, t, {})
    /\ UNCHANGED <<conn, serverVars, relays, inbox, state, calls, signal, remote, queue, errors, links>>

\* The candidate handler, with the candidate decrypted
TakesCandidate(p) ==
  \E t \in tasks[p] :
    /\ t.step = "candidate"
    /\ \/ /\ remote[p] # None
          /\ added' = [added EXCEPT ![p] = @ \cup {t.from}]
          /\ UNCHANGED queue
       \/ /\ remote[p] = None
          /\ queue' = [queue EXCEPT ![p] = @ \cup {t.from}]
          /\ UNCHANGED added
    /\ Continues(p, t, {})
    /\ UNCHANGED <<conn, serverVars, relays, inbox, state, calls, signal, remote, errors, links>>

\* WebRTC brings the connection up once each side has the other's description and
\* candidate.  A page has one connection.
Linked(p) == \E l \in links : p \in {l[1], l[2]}

Connects(p, q) ==
  /\ p \in Outgoing /\ q \notin Outgoing /\ Live(p) /\ Live(q)
  /\ ~ Linked(p) /\ ~ Linked(q)
  /\ remote[p] = q /\ remote[q] = p /\ signal[q] = "stable"
  /\ q \in added[p] /\ p \in added[q]
  /\ links' = links \cup {<<p, q>>}
  /\ state' = [state EXCEPT ![p] = "CONNECTION_ESTABLISHED", ![q] = "CONNECTION_ESTABLISHED"]
  /\ UNCHANGED <<conn, serverVars, relays, inbox, tasks, calls, signal, remote, queue, added, errors>>

-----------------------------------------------------------------------------
Init ==
  /\ conn     = [p \in Page |-> "none"]
  /\ joining  = [p \in Page |-> "no"]
  /\ leaving  = [p \in Page |-> "no"]
  /\ room     = {}
  /\ socketId = [u \in {"sender", "receiver"} |-> None]
  /\ relays   = {}
  /\ state    = [p \in Page |-> "IDLE"]
  /\ inbox    = [p \in Page |-> <<>>]
  /\ calls    = [p \in Page |-> 0]
  /\ tasks    = [p \in Page |-> {}]
  /\ signal   = [p \in Page |-> "new"]
  /\ remote   = [p \in Page |-> None]
  /\ queue    = [p \in Page |-> {}]
  /\ added    = [p \in Page |-> {}]
  /\ errors   = {}
  /\ links    = {}

ServerStep ==
  \/ \E p \in Page : AdmitJoin(p) \/ AnnounceJoin(p) \/ JoinFails(p)
  \/ \E m \in relays : Relay(m) \/ RelayFails(m)
  \/ \E p \in Page : ServerNotices(p) \/ AnnounceLeave(p) \/ LeaveFails(p)

PageStep(p) ==
  \/ NoticesClose(p)
  \/ HearsJoined(p) \/ HearsPeerJoined(p) \/ HearsPeerLeft(p) \/ HearsPeer(p)
  \/ Calls(p) \/ TakesOffer(p) \/ Answers(p) \/ SendsAnswer(p) \/ TakesAnswer(p) \/ TakesCandidate(p)

\* What the system does by itself
Works == ServerStep \/ (\E p \in Page : PageStep(p)) \/ (\E p, q \in Page : Connects(p, q))

\* What the users and the network do
Disturbance == \E p \in Page : Start(p) \/ StartFails(p) \/ Leaves(p) \/ SocketDrops(p)

Next == Works \/ Disturbance

Spec == Init /\ [][Next]_vars

\* Node runs every handler that can go on, the browser every task, and WebRTC
\* connects what can be connected.  No behaviour goes on for ever, so this leaves
\* nothing of it undone.
FairSpec == Spec /\ WF_vars(Works)

-----------------------------------------------------------------------------
(* Properties *)

States == {"IDLE", "CONNECTING_SIGNALING", "WAITING_FOR_PEER", "CONNECTING_WEBRTC",
           "CONNECTION_ESTABLISHED", "FAILED", "CLOSED"}
Messages == [type : {"joined", "join-failed", "peer-joined", "peer-left", "offer",
                     "answer", "candidate"}, from : Page, n : Nat]
Tasks == [step : {"calling", "offer", "answering", "answers",
                  "answer", "candidate"}, from : Page, n : Nat]

\* Every variable keeps its type.
SignalingTypeOK ==
  /\ conn \in [Page -> {"none", "up", "cut", "down"}]
  /\ joining \in [Page -> {"no", "checking", "updating", "done", "refused", "broken"}]
  /\ leaving \in [Page -> {"no", "busy", "done", "failed"}]
  /\ room \subseteq Page /\ errors \subseteq Page
  /\ socketId \in [{"sender", "receiver"} -> Page \cup {None}]
  /\ relays \subseteq Messages
  /\ state \in [Page -> States]
  /\ inbox \in [Page -> Seq(Messages)]
  /\ calls \in [Page -> Nat]
  /\ tasks \in [Page -> SUBSET Tasks]
  /\ signal \in [Page -> {"new", "have-local-offer", "have-remote-offer", "stable"}]
  /\ remote \in [Page -> Page \cup {None}]
  /\ queue \in [Page -> SUBSET Page] /\ added \in [Page -> SUBSET Page]
  /\ links \subseteq Outgoing \X (Page \ Outgoing)

\* A candidate that was decrypted before the remote description was set waits in
\* candidateQueue for the handler that set it, and never longer: with no such
\* handler on its way the queue of a page with a remote description is empty.
NoCandidateStranded ==
  \A p \in Page :
    (/\ Live(p) /\ remote[p] # None
     /\ \A t \in tasks[p] : t.step \notin {"answering", "answers"})
    => queue[p] = {}

\* At most one page of each user was opened.
OneTabEach ==
  \A p, q \in Page : p # q /\ User[p] = User[q] => "IDLE" \in {state[p], state[q]}

\* With one page of each user, no order of the two joins, of the messages and of
\* the answers of the workers makes WebRTC refuse a description: a page only
\* fails when it could not connect or join.
OneTabNeverFails ==
  OneTabEach =>
    \A p \in Page : state[p] = "FAILED" =>
      conn[p] = "none" \/ joining[p] \in {"refused", "broken"}

\* What the users or the network may have done to the pages p and q
Trouble(p, q) ==
  \/ ~ OneTabEach \/ errors # {}
  \/ {state[p], state[q]} \cap {"FAILED", "CLOSED"} # {}
  \/ {conn[p], conn[q]} # {"up"}

\* A receiver who joins when the sender is in the room gets connected, in whatever
\* order offers, answers and candidates overtake each other, unless somebody leaves
\* or something fails.
SenderFirstConnects ==
  \A p \in Outgoing, q \in Page \ Outgoing :
    (p \in room /\ q \in room /\ joining[q] = "updating")
      ~> (<<p, q>> \in links \/ Trouble(p, q))

\* When the server sees a page go, every page that was with it in the room learns
\* it, also when the database names another socket of that user; only a failure of
\* the database keeps it from them.
LeaveReachesRoom ==
  \A p, q \in Page :
    (p # q /\ leaving[p] = "busy" /\ q \in room /\ conn[q] = "up" /\ Live(q))
      ~> (state[q] = "CLOSED" \/ conn[q] # "up" \/ leaving[p] = "failed")
=============================================================================
