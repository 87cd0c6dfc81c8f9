-------------------------- MODULE SignalingProofs --------------------------
(***************************************************************************)
(* That no candidate is stranded and no page of a pair is failed by        *)
(* WebRTC, for any set of pages and users, by an inductive invariant of    *)
(* Signaling.                                                              *)
(***************************************************************************)
EXTENDS Signaling, SequenceTheorems, TLAPS

\* A page that was not opened has done nothing; what a closed page was doing is over.
Quiet ==
  \A p \in Page :
    /\ state[p] = "IDLE" =>
         /\ conn[p] = "none" /\ joining[p] = "no" /\ p \notin room
         /\ inbox[p] = <<>> /\ signal[p] = "new" /\ remote[p] = None
    /\ ~ Live(p) => tasks[p] = {}

\* Who calls, and whom: an OUTGOING page calls and takes answers, an INCOMING one
\* takes offers and answers.
RolesOfTasks ==
  \A p \in Page : \A t \in tasks[p] :
    /\ t.step \in {"calling", "answer"} => p \in Outgoing
    /\ t.step \in {"offer", "answering", "answers"} => p \notin Outgoing

RolesOfMessages ==
  \A m \in relays :
    /\ m.type \in {"offer", "answer", "candidate"} /\ state[m.from] # "IDLE"
    /\ m.type = "offer" => m.from \in Outgoing
    /\ m.type = "answer" => m.from \notin Outgoing

\* Who has both a remote description and waiting candidates is in its offer handler,
\* which will get past setLocalDescription or has done so.
Awaited(p) ==
  Live(p) /\ remote[p] # None /\ queue[p] # {} =>
    /\ p \notin Outgoing
    /\ \/ \E t \in tasks[p] : t.step = "answers"
       \/ signal[p] = "have-remote-offer" /\ \E t \in tasks[p] : t.step = "answering"

\* A page is told that its join failed only when it did.
Refused(p) ==
  \A i \in DOMAIN inbox[p] :
    inbox[p][i].type = "join-failed" => joining[p] \in {"refused", "broken"}

-----------------------------------------------------------------------------
(* With one page of each user there is one call, which is in one place at a  *)
(* time: an event that waits for a page, a handler of a page, or a message   *)
(* that the server is checking.                                              *)

\* The event m is one of a call to page p.
Counts(p, m) == m.type \in {"offer", "answer"} \/ (m.type = "peer-joined" /\ p \in Outgoing)

NoBox  == \A p \in Page : \A i \in DOMAIN inbox[p] : ~ Counts(p, inbox[p][i])
NoTask == \A p \in Page : \A t \in tasks[p] : t.step = "candidate"
NoSent == \A m \in relays : m.type = "candidate"

OneBox ==
  \A p, q \in Page : \A i \in DOMAIN inbox[p], j \in DOMAIN inbox[q] :
    Counts(p, inbox[p][i]) /\ Counts(q, inbox[q][j]) => p = q /\ i = j
OneTask ==
  \A p, q \in Page : \A t \in tasks[p], u \in tasks[q] :
    t.step # "candidate" /\ u.step # "candidate" => p = q /\ t = u
OneSent ==
  \A m, n \in relays : m.type # "candidate" /\ n.type # "candidate" => m = n

\* The receiver has joined.
Announced == \E r \in Page : User[r] = "receiver" /\ joining[r] = "done"

\* An offer is out and was not answered.
Offered == \E s \in Outgoing : signal[s] = "have-local-offer"

\* No event, or handler, is one that comes after the offer.
PlainBox  == \A p \in Page : \A i \in DOMAIN inbox[p] : inbox[p][i].type \notin {"offer", "answer"}
PlainTask == \A p \in Page : \A t \in tasks[p] : t.step \in {"calling", "candidate"}

\* Who is answering has the offer.
Answerable ==
  \A p \in Page : \A t \in tasks[p] : t.step = "answering" => signal[p] = "have-remote-offer"

Silent   == NoBox /\ NoTask /\ NoSent
Ringing  == OneBox /\ NoTask /\ NoSent /\ Announced /\ (Offered \/ PlainBox)
Handling == NoBox /\ OneTask /\ NoSent /\ Announced /\ (Offered \/ PlainTask) /\ Answerable
Relaying == NoBox /\ NoTask /\ OneSent /\ Announced /\ Offered

OneCall == OneTabEach => Silent \/ Ringing \/ Handling \/ Relaying

IInv ==
  /\ SignalingTypeOK /\ Quiet /\ RolesOfTasks /\ RolesOfMessages
  /\ \A p \in Page : Awaited(p) /\ Refused(p)
  /\ OneCall
  /\ OneTabNeverFails

-----------------------------------------------------------------------------
(* Sequences and the boxes of the pages *)

LEMMA TailFacts ==
  ASSUME NEW S, NEW box \in Seq(S), box # <<>>
  PROVE  /\ Tail(box) \in Seq(S) /\ Head(box) \in S /\ Head(box) = box[1] /\ 1 \in DOMAIN box
         /\ \A i \in DOMAIN Tail(box) : i + 1 \in DOMAIN box /\ Tail(box)[i] = box[i + 1]
  <1>1. Len(box) \in Nat \ {0} /\ DOMAIN box = 1 .. Len(box) /\ box[1] \in S  BY EmptySeq, SMT
  <1>2. Tail(box) \in Seq(S) /\ Len(Tail(box)) = Len(box) - 1  BY <1>1, SMT
  <1>3. \A i \in 1 .. Len(Tail(box)) : Tail(box)[i] = box[i + 1]  BY <1>1, SMT
  <1> QED  BY <1>1, <1>2, <1>3, SMT

LEMMA AppendFacts ==
  ASSUME NEW S, NEW box \in Seq(S), NEW m \in S
  PROVE  /\ Append(box, m) \in Seq(S)
         /\ \A i \in DOMAIN Append(box, m) :
              \/ i \in DOMAIN box /\ Append(box, m)[i] = box[i]
              \/ i = Len(box) + 1 /\ i \notin DOMAIN box /\ Append(box, m)[i] = m
  BY SMT

\* What a broadcast does to a box: nothing, or one event more.
LEMMA BroadcastFacts ==
  ASSUME SignalingTypeOK, NEW from \in Page, NEW m \in Messages
  PROVE  /\ Broadcast(from, m) \in [Page -> Seq(Messages)]
         /\ \A q \in Page :
              \/ Broadcast(from, m)[q] = inbox[q]
              \/ q \in room \ {from} /\ Broadcast(from, m)[q] = Append(inbox[q], m)
  BY AppendFacts DEF Broadcast, SignalingTypeOK

LEMMA ReplyFacts ==
  ASSUME SignalingTypeOK, NEW p \in Page, NEW boxes \in [Page -> Seq(Messages)], NEW m \in Messages
  PROVE  /\ Reply(p, boxes, m) \in [Page -> Seq(Messages)]
         /\ \A q \in Page :
              \/ Reply(p, boxes, m)[q] = boxes[q]
              \/ q = p /\ conn[p] = "up" /\ Reply(p, boxes, m)[q] = Append(boxes[q], m)
  BY AppendFacts DEF Reply, SignalingTypeOK

-----------------------------------------------------------------------------
(* Types *)

LEMMA InitTypes == ASSUME Init PROVE SignalingTypeOK
  BY PagesAssumption DEF Init, SignalingTypeOK, States

\* The steps of the server keep the types.
LEMMA ServerTypes == ASSUME SignalingTypeOK, ServerStep PROVE SignalingTypeOK'
  <1>1. ASSUME NEW p \in Page, AdmitJoin(p) PROVE SignalingTypeOK'
    BY <1>1 DEF AdmitJoin, SignalingTypeOK, pageVars, rtcVars
  <1>2. ASSUME NEW p \in Page, AnnounceJoin(p) PROVE SignalingTypeOK'
    <2>1. Message("peer-joined", p, 0) \in Messages /\ Message("joined", p, 0) \in Messages
      BY DEF Message, Messages
    <2>2. inbox' \in [Page -> Seq(Messages)]
      BY <1>2, <2>1, BroadcastFacts, ReplyFacts DEF AnnounceJoin
    <2> QED  BY <1>2, <2>2, PagesAssumption DEF AnnounceJoin, SignalingTypeOK, pageVars, rtcVars
  <1>3. ASSUME NEW p \in Page, JoinFails(p) PROVE SignalingTypeOK'
    <2>1. Message("join-failed", p, 0) \in Messages /\ inbox \in [Page -> Seq(Messages)]
      BY DEF Message, Messages, SignalingTypeOK
    <2>2. inbox' \in [Page -> Seq(Messages)]  BY <1>3, <2>1, ReplyFacts DEF JoinFails
    <2> QED  BY <1>3, <2>2 DEF JoinFails, SignalingTypeOK, pageVars, rtcVars
  <1>4. ASSUME NEW m \in relays, Relay(m) PROVE SignalingTypeOK'
    <2>1. m \in Messages /\ m.from \in Page  BY DEF Messages, SignalingTypeOK
    <2>2. inbox' \in [Page -> Seq(Messages)]  BY <1>4, <2>1, BroadcastFacts DEF Relay
    <2> QED  BY <1>4, <2>2 DEF Relay, SignalingTypeOK, serverVars, pageVars, rtcVars
  <1>5. ASSUME NEW m \in relays, RelayFails(m) PROVE SignalingTypeOK'
    <2>1. m.from \in Page  BY DEF Messages, SignalingTypeOK
    <2> QED  BY <1>5, <2>1 DEF RelayFails, SignalingTypeOK, serverVars
  <1>6. ASSUME NEW p \in Page, ServerNotices(p) PROVE SignalingTypeOK'
    BY <1>6 DEF ServerNotices, SignalingTypeOK, pageVars, rtcVars
  <1>7. ASSUME NEW p \in Page, AnnounceLeave(p) PROVE SignalingTypeOK'
    <2>1. Message("peer-left", p, 0) \in Messages  BY DEF Message, Messages
    <2>2. inbox' \in [Page -> Seq(Messages)]  BY <1>7, <2>1, BroadcastFacts DEF AnnounceLeave
    <2> QED  BY <1>7, <2>2, PagesAssumption DEF AnnounceLeave, SignalingTypeOK, pageVars, rtcVars
  <1>8. ASSUME NEW p \in Page, LeaveFails(p) PROVE SignalingTypeOK'
    BY <1>8 DEF LeaveFails, SignalingTypeOK, pageVars, rtcVars
  <1> QED  BY <1>1, <1>2, <1>3, <1>4, <1>5, <1>6, <1>7, <1>8 DEF ServerStep

LEMMA CloseTypes ==
  ASSUME SignalingTypeOK, NEW p \in Page, ClosePage(p) PROVE SignalingTypeOK'
  <1>1. inbox' \in [Page -> Seq(Messages)]  BY EmptySeq DEF ClosePage, SignalingTypeOK
  <1> QED  BY <1>1 DEF ClosePage, SignalingTypeOK, States, serverVars, rtcVars

LEMMA Updated ==
  ASSUME NEW S, NEW f \in [Page -> SUBSET S], NEW p \in Page, NEW T \in SUBSET S
  PROVE  [f EXCEPT ![p] = T] \in [Page -> SUBSET S]
  OBVIOUS

\* What a page does when it hears from the server, or a handler of it goes on
LEMMA PageTypes ==
  ASSUME SignalingTypeOK, NEW p \in Page, PageStep(p) PROVE SignalingTypeOK'
  <1> USE DEF SignalingTypeOK
  <1>1. ASSUME inbox[p] # <<>> PROVE Head(inbox[p]) \in Messages /\ Tail(inbox[p]) \in Seq(Messages)
    BY <1>1, TailFacts
  <1>2. CASE NoticesClose(p) \/ HearsPeerLeft(p)
    BY <1>2, CloseTypes DEF NoticesClose, HearsPeerLeft
  <1>3. CASE HearsJoined(p)
    BY <1>1, <1>3 DEF HearsJoined, Hears, States, serverVars, rtcVars
  <1>4. CASE HearsPeerJoined(p)
    <2>1. Task("calling", p, calls[p] + 1) \in Tasks  BY DEF Task, Tasks
    <2>2. tasks' \in [Page -> SUBSET Tasks]
      <3>1. tasks[p] \cup {Task("calling", p, calls[p] + 1)} \in SUBSET Tasks  BY <2>1
      <3>2. [tasks EXCEPT ![p] = @ \cup {Task("calling", p, calls[p] + 1)}] \in [Page -> SUBSET Tasks]
        BY <3>1, Updated
      <3> QED  BY <1>4, <3>2 DEF HearsPeerJoined
    <2>3. state' \in [Page -> States]  BY <1>4, Zenon DEF HearsPeerJoined, States
    <2>5. calls' \in [Page -> Nat]
      <3>1. calls' = calls \/ calls' = [calls EXCEPT ![p] = calls[p] + 1]
        BY <1>4 DEF HearsPeerJoined
      <3>2. calls \in [Page -> Nat] /\ calls[p] + 1 \in Nat  OBVIOUS
      <3> HIDE DEF SignalingTypeOK
      <3> QED  BY <3>1, <3>2
    <2>4. inbox' \in [Page -> Seq(Messages)]  BY <1>1, <1>4 DEF HearsPeerJoined
    <2> QED  BY <1>4, <2>2, <2>3, <2>4, <2>5 DEF HearsPeerJoined, serverVars
  <1>5. CASE HearsPeer(p)
    <2>1. Task(Head(inbox[p]).type, Head(inbox[p]).from, Head(inbox[p]).n) \in Tasks
      BY <1>1, <1>5 DEF HearsPeer, Hears, Messages, Task, Tasks
    <2>2. tasks' \in [Page -> SUBSET Tasks]
      <3> DEFINE new == Task(Head(inbox[p]).type, Head(inbox[p]).from, Head(inbox[p]).n)
      <3>1. tasks' = tasks \/ tasks' = [tasks EXCEPT ![p] = @ \cup {new}]  BY <1>5 DEF HearsPeer
      <3>2. tasks[p] \cup {new} \in SUBSET Tasks  BY <2>1
      <3> HIDE DEF new
      <3> QED  BY <3>1, <3>2, Updated
    <2> QED  BY <1>1, <1>5, <2>2 DEF HearsPeer, Hears, serverVars, rtcVars
  <1>6. ASSUME NEW t \in tasks[p]
        PROVE  /\ t \in Tasks /\ t.from \in Page /\ t.n \in Nat
               /\ \A s \in {"answering", "answers"} : [t EXCEPT !.step = s] \in Tasks
               /\ \A type \in {"offer", "answer", "candidate"} : Message(type, p, t.n) \in Messages
               /\ Message("candidate", p, 0) \in Messages
    <2>1. t \in Tasks /\ t.from \in Page /\ t.n \in Nat  BY <1>6 DEF Tasks
    <2>2. \A s \in {"answering", "answers"} : [t EXCEPT !.step = s] \in Tasks  BY <2>1 DEF Tasks
    <2>3. \A type \in {"offer", "answer", "candidate"} : Message(type, p, t.n) \in Messages
      BY <2>1 DEF Messages, Message
    <2>4. Message("candidate", p, 0) \in Messages  BY DEF Messages, Message
    <2> QED  BY <2>1, <2>2, <2>3, <2>4
  <1>7. CASE Calls(p)
    <2>1. PICK t \in tasks[p] : /\ signal' = [signal EXCEPT ![p] = "have-local-offer"]
                               /\ relays' = relays \cup Sends(p, "offer", t.n) \cup Gathered(p)
                               /\ Continues(p, t, {})
                               /\ UNCHANGED <<conn, serverVars, inbox, state, calls, remote, queue, added, errors, links>>
      BY <1>7 DEF Calls
    <2>2. relays' \subseteq Messages  BY <1>6, <2>1 DEF Sends, Gathered
    <2> QED  BY <2>1, <2>2 DEF Continues, serverVars
  <1>8. CASE TakesOffer(p)
    <2>1. PICK t \in tasks[p] : /\ remote' = [remote EXCEPT ![p] = t.from]
                               /\ signal' = [signal EXCEPT ![p] = "have-remote-offer"]
                               /\ Continues(p, t, {[t EXCEPT !.step = "answering"]})
                               /\ UNCHANGED <<conn, serverVars, relays, inbox, state, calls, queue, added, errors, links>>
      BY <1>8 DEF TakesOffer
    <2>2. tasks' \in [Page -> SUBSET Tasks]  BY <1>6, <2>1 DEF Continues
    <2>3. remote' \in [Page -> Page \cup {None}]  BY <1>6, <2>1
    <2> QED  BY <2>1, <2>2, <2>3 DEF serverVars
  <1>9. CASE Answers(p)
    <2>1. PICK t \in tasks[p] :
             \/ /\ signal' = [signal EXCEPT ![p] = "stable"]
                /\ relays' = relays \cup Gathered(p)
                /\ Continues(p, t, {[t EXCEPT !.step = "answers"]})
                /\ UNCHANGED state
             \/ /\ state' = [state EXCEPT ![p] = "FAILED"]
                /\ Continues(p, t, {})
                /\ UNCHANGED <<signal, relays>>
      BY <1>9 DEF Answers
    <2>2. tasks' \in [Page -> SUBSET Tasks]
      <3>1. \E next \in SUBSET Tasks : tasks' = [tasks EXCEPT ![p] = (@ \ {t}) \cup next]
        <4>1. CASE Continues(p, t, {})  BY <4>1 DEF Continues
        <4>2. CASE Continues(p, t, {[t EXCEPT !.step = "answers"]})  BY <1>6, <4>2 DEF Continues
        <4> QED  BY <2>1, <4>1, <4>2
      <3> QED  BY <3>1
    <2>3. relays' \subseteq Messages
      <3>1. Gathered(p) \subseteq Messages  BY <1>6 DEF Sends, Gathered
      <3>2. relays' = relays \/ relays' = relays \cup Gathered(p)  BY <2>1
      <3> QED  BY <3>1, <3>2
    <2>5. state' \in [Page -> States]  BY <2>1 DEF States
    <2>4. signal' \in [Page -> {"new", "have-local-offer", "have-remote-offer", "stable"}]
      BY <2>1
    <2>6. UNCHANGED <<conn, serverVars, inbox, calls, remote, queue, added, errors, links>>
      BY <1>9 DEF Answers
    <2> QED  BY <2>2, <2>3, <2>4, <2>5, <2>6 DEF serverVars
  <1>10. CASE SendsAnswer(p)
    <2>1. PICK t \in tasks[p] : relays' = relays \cup Sends(p, "answer", t.n) /\ Continues(p, t, {})
      BY <1>10 DEF SendsAnswer
    <2>2. relays' \subseteq Messages /\ tasks' \in [Page -> SUBSET Tasks]
      BY <1>6, <2>1 DEF Sends, Continues
    <2>3. /\ added' = [added EXCEPT ![p] = added[p] \cup queue[p]]
          /\ queue' = [queue EXCEPT ![p] = {}]  BY <1>10 DEF SendsAnswer, DrainsQueue
    <2>4. added[p] \cup queue[p] \in SUBSET Page /\ {} \in SUBSET Page  OBVIOUS
    <2>5. queue' \in [Page -> SUBSET Page] /\ added' \in [Page -> SUBSET Page]
      BY <2>3, <2>4, Updated
    <2>6. UNCHANGED <<conn, serverVars, inbox, state, calls, signal, remote, errors, links>>
      BY <1>10 DEF SendsAnswer
    <2> QED  BY <2>2, <2>5, <2>6 DEF serverVars
  <1>11. CASE TakesAnswer(p)
    <2>1. PICK t \in tasks[p] :
             /\ \/ /\ signal' = [signal EXCEPT ![p] = "stable"]
                   /\ remote' = [remote EXCEPT ![p] = t.from]
                   /\ DrainsQueue(p)
                   /\ UNCHANGED state
                \/ /\ state' = [state EXCEPT ![p] = "FAILED"]
                   /\ UNCHANGED <<signal, remote, queue, added>>
             /\ Continues(p, t, {})
      BY <1>11 DEF TakesAnswer
    <2>2. tasks' \in [Page -> SUBSET Tasks] /\ state' \in [Page -> States]
      <3>1. (tasks[p] \ {t}) \cup {} \in SUBSET Tasks  OBVIOUS
      <3>2. tasks' \in [Page -> SUBSET Tasks]  BY <2>1, <3>1, Updated, Zenon DEF Continues
      <3>3. state' \in [Page -> States]  BY <2>1 DEF States
      <3> QED  BY <3>2, <3>3
    <2>3. signal' \in [Page -> {"new", "have-local-offer", "have-remote-offer", "stable"}]  BY <2>1
    <2>4. remote' \in [Page -> Page \cup {None}]  BY <1>6, <2>1
    <2>5. queue' \in [Page -> SUBSET Page] /\ added' \in [Page -> SUBSET Page]
      <3>1. added[p] \cup queue[p] \in SUBSET Page /\ {} \in SUBSET Page  OBVIOUS
      <3>2. /\ [added EXCEPT ![p] = added[p] \cup queue[p]] \in [Page -> SUBSET Page]
            /\ [queue EXCEPT ![p] = {}] \in [Page -> SUBSET Page]  BY <3>1, Updated
      <3>3. /\ added' = [added EXCEPT ![p] = added[p] \cup queue[p]] \/ added' = added
            /\ queue' = [queue EXCEPT ![p] = {}] \/ queue' = queue  BY <2>1 DEF DrainsQueue
      <3> QED  BY <3>2, <3>3
    <2> QED  BY <1>11, <2>2, <2>3, <2>4, <2>5 DEF TakesAnswer, serverVars
  <1>12. CASE TakesCandidate(p)
    <2>1. PICK t \in tasks[p] :
             /\ \/ added' = [added EXCEPT ![p] = @ \cup {t.from}] /\ UNCHANGED queue
                \/ queue' = [queue EXCEPT ![p] = @ \cup {t.from}] /\ UNCHANGED added
             /\ Continues(p, t, {})
      BY <1>12 DEF TakesCandidate
    <2>2. tasks' \in [Page -> SUBSET Tasks]  BY <2>1 DEF Continues
    <2>3. queue' \in [Page -> SUBSET Page] /\ added' \in [Page -> SUBSET Page]
      <3>1. added[p] \cup {t.from} \in SUBSET Page /\ queue[p] \cup {t.from} \in SUBSET Page
        BY <1>6
      <3>2. /\ [added EXCEPT ![p] = added[p] \cup {t.from}] \in [Page -> SUBSET Page]
            /\ [queue EXCEPT ![p] = queue[p] \cup {t.from}] \in [Page -> SUBSET Page]
              BY <3>1, Updated
      <3>3. /\ added' = [added EXCEPT ![p] = added[p] \cup {t.from}] \/ added' = added
            /\ queue' = [queue EXCEPT ![p] = queue[p] \cup {t.from}] \/ queue' = queue  BY <2>1
      <3> QED  BY <3>2, <3>3
    <2> QED  BY <1>12, <2>2, <2>3 DEF TakesCandidate, serverVars
  <1> QED  BY <1>2, <1>3, <1>4, <1>5, <1>7, <1>8, <1>9, <1>10, <1>11, <1>12 DEF PageStep

\* Connections, users and the network keep the types.
LEMMA OtherTypes ==
  ASSUME SignalingTypeOK, Disturbance \/ \E p, q \in Page : Connects(p, q)
  PROVE  SignalingTypeOK'
  <1> USE DEF SignalingTypeOK
  <1>1. ASSUME NEW p \in Page, NEW q \in Page, Connects(p, q) PROVE SignalingTypeOK'
    <2>1. state' \in [Page -> States]  BY <1>1 DEF Connects, States
    <2>2. links' \subseteq Outgoing \X (Page \ Outgoing)  BY <1>1 DEF Connects
    <2> QED  BY <1>1, <2>1, <2>2 DEF Connects, serverVars
  <1>2. ASSUME NEW p \in Page, Start(p) PROVE SignalingTypeOK'
    BY <1>2 DEF Start, States, rtcVars
  <1>3. ASSUME NEW p \in Page, StartFails(p) PROVE SignalingTypeOK'
    BY <1>3 DEF StartFails, States, serverVars, rtcVars
  <1>4. ASSUME NEW p \in Page, Leaves(p) PROVE SignalingTypeOK'
    BY <1>4, CloseTypes DEF Leaves
  <1>5. ASSUME NEW p \in Page, SocketDrops(p) PROVE SignalingTypeOK'
    <2>1. inbox' \in [Page -> Seq(Messages)]  BY <1>5, EmptySeq DEF SocketDrops
    <2> QED  BY <1>5, <2>1 DEF SocketDrops, serverVars, pageVars, rtcVars
  <1> QED  BY <1>1, <1>2, <1>3, <1>4, <1>5 DEF Disturbance

LEMMA NextTypes == ASSUME SignalingTypeOK, [Next]_vars PROVE SignalingTypeOK'
  <1>1. CASE UNCHANGED vars
    BY <1>1 DEF vars, SignalingTypeOK, serverVars, pageVars, rtcVars
  <1> QED  BY <1>1, ServerTypes, PageTypes, OtherTypes DEF Next, Works

-----------------------------------------------------------------------------
(* The tasks of a page *)

\* A task that is over, and nothing else
LEMMA TaskEnds ==
  ASSUME SignalingTypeOK, NEW p \in Page, NEW t, Continues(p, t, {})
  PROVE  \A q \in Page : \A u : u \in tasks'[q] <=> u \in tasks[q] /\ (q = p => u # t)
  BY DEF Continues, SignalingTypeOK

\* A task that goes on as another one
LEMMA TaskGoesOn ==
  ASSUME SignalingTypeOK, NEW p \in Page, NEW t, NEW n, Continues(p, t, {n})
  PROVE  \A q \in Page : \A u :
           u \in tasks'[q] <=> (u \in tasks[q] /\ (q = p => u # t)) \/ (q = p /\ u = n)
  BY DEF Continues, SignalingTypeOK

\* What a page that hears from its peer, or of it, has to do afterwards
LEMMA TaskBegins ==
  ASSUME SignalingTypeOK, NEW p \in Page, HearsPeer(p) \/ HearsPeerJoined(p)
  PROVE  LET m == Head(inbox[p]) IN
         \A q \in Page : \A u \in tasks'[q] :
           \/ u \in tasks[q]
           \/ /\ q = p /\ u.step = m.type /\ Listens(p, m.type)
              /\ m.type \in {"offer", "answer", "candidate"}
           \/ q = p /\ u.step = "calling" /\ p \in Outgoing /\ m.type = "peer-joined"
  <1>1. CASE HearsPeer(p)
    BY <1>1 DEF HearsPeer, Hears, Task, SignalingTypeOK
  <1>2. CASE HearsPeerJoined(p)
    <2>1. \/ UNCHANGED tasks
          \/ /\ p \in Outgoing
             /\ tasks' = [tasks EXCEPT ![p] = @ \cup {Task("calling", p, calls[p] + 1)}]
      BY <1>2 DEF HearsPeerJoined
    <2>2. Task("calling", p, calls[p] + 1).step = "calling"  BY DEF Task
    <2>3. Head(inbox[p]).type = "peer-joined"  BY <1>2 DEF HearsPeerJoined
    <2>4. tasks \in [Page -> SUBSET Tasks]  BY DEF SignalingTypeOK
    <2> QED  BY <2>1, <2>2, <2>3, <2>4
  <1> QED  BY <1>1, <1>2

-----------------------------------------------------------------------------
(* Pages that were not opened, and pages that are closed *)

\* No step gives a page that is not open anything to do.
LEMMA NextQuiet ==
  ASSUME SignalingTypeOK, Quiet, [Next]_vars
  PROVE  Quiet'
  <1>0. CASE UNCHANGED vars
    BY <1>0 DEF vars, serverVars, pageVars, rtcVars, Quiet, Live, SignalingTypeOK
  <1>1. ASSUME NEW p \in Page, AdmitJoin(p) PROVE Quiet'
    BY <1>1 DEF AdmitJoin, pageVars, rtcVars, Quiet, Live, SignalingTypeOK
  <1>2. ASSUME NEW p \in Page, AnnounceJoin(p) PROVE Quiet'
    <2>1. Message("peer-joined", p, 0) \in Messages /\ Message("joined", p, 0) \in Messages
      BY DEF Message, Messages
    <2> DEFINE boxes == Broadcast(p, Message("peer-joined", p, 0))
    <2>2. /\ boxes \in [Page -> Seq(Messages)]
          /\ \A q \in Page : q \in room \/ boxes[q] = inbox[q]
      BY <2>1, BroadcastFacts
    <2>3. inbox' = Reply(p, boxes, Message("joined", p, 0))  BY <1>2 DEF AnnounceJoin
    <2> HIDE DEF boxes
    <2>4. \A q \in Page : q \in room \/ conn[q] = "up" \/ inbox'[q] = inbox[q]
      BY <2>2, <2>3 DEF Reply
    <2> QED  BY <1>2, <2>4 DEF AnnounceJoin, pageVars, rtcVars, Quiet, Live
  <1>3. ASSUME NEW p \in Page, JoinFails(p) PROVE Quiet'
    <2>1. Message("join-failed", p, 0) \in Messages /\ inbox \in [Page -> Seq(Messages)]
      BY DEF Message, Messages, SignalingTypeOK
    <2>2. inbox' = Reply(p, inbox, Message("join-failed", p, 0))  BY <1>3 DEF JoinFails
    <2>3. \A q \in Page : conn[q] = "up" \/ inbox'[q] = inbox[q]
      BY <2>1, <2>2 DEF Reply
    <2> QED  BY <1>3, <2>3 DEF JoinFails, pageVars, rtcVars, Quiet, Live, SignalingTypeOK
  <1>4. ASSUME NEW m \in relays, Relay(m) PROVE Quiet'
    <2>1. m \in Messages /\ m.from \in Page  BY DEF Messages, SignalingTypeOK
    <2>2. \A q \in Page : q \in room \/ inbox'[q] = inbox[q]
      BY <1>4, <2>1, BroadcastFacts DEF Relay
    <2> QED  BY <1>4, <2>2 DEF Relay, serverVars, pageVars, rtcVars, Quiet, Live
  <1>5. ASSUME NEW m \in relays, RelayFails(m) PROVE Quiet'
    BY <1>5 DEF RelayFails, serverVars, Quiet, Live, SignalingTypeOK
  <1>6. ASSUME NEW p \in Page, ServerNotices(p) PROVE Quiet'
    BY <1>6 DEF ServerNotices, pageVars, rtcVars, Quiet, Live, SignalingTypeOK
  <1>7. ASSUME NEW p \in Page, AnnounceLeave(p) PROVE Quiet'
    <2>1. Message("peer-left", p, 0) \in Messages  BY DEF Message, Messages
    <2>2. \A q \in Page : q \in room \/ inbox'[q] = inbox[q]
      BY <1>7, <2>1, BroadcastFacts DEF AnnounceLeave
    <2> QED  BY <1>7, <2>2 DEF AnnounceLeave, pageVars, rtcVars, Quiet, Live
  <1>8. ASSUME NEW p \in Page, LeaveFails(p) PROVE Quiet'
    BY <1>8 DEF LeaveFails, pageVars, rtcVars, Quiet, Live, SignalingTypeOK
  <1>9. ASSUME NEW p \in Page, NoticesClose(p) PROVE Quiet'
    BY <1>9 DEF NoticesClose, ClosePage, serverVars, rtcVars, Quiet, Live, SignalingTypeOK
  <1>10. ASSUME NEW p \in Page, HearsJoined(p) PROVE Quiet'
    BY <1>10 DEF HearsJoined, Hears, serverVars, rtcVars, Quiet, Live, SignalingTypeOK
  <1>11. ASSUME NEW p \in Page, HearsPeerJoined(p) PROVE Quiet'
    BY <1>11 DEF HearsPeerJoined, serverVars, Quiet, Live, SignalingTypeOK
  <1>12. ASSUME NEW p \in Page, HearsPeerLeft(p) PROVE Quiet'
    BY <1>12 DEF HearsPeerLeft, ClosePage, serverVars, rtcVars, Quiet, Live, SignalingTypeOK
  <1>13. ASSUME NEW p \in Page, HearsPeer(p) PROVE Quiet'
    BY <1>13 DEF HearsPeer, Hears, serverVars, rtcVars, Quiet, Live, SignalingTypeOK
  <1>14. ASSUME NEW p \in Page, Calls(p) PROVE Quiet'
    BY <1>14 DEF Calls, Continues, serverVars, Quiet, Live, SignalingTypeOK
  <1>15. ASSUME NEW p \in Page, TakesOffer(p) PROVE Quiet'
    BY <1>15 DEF TakesOffer, Continues, serverVars, Quiet, Live, SignalingTypeOK
  <1>16. ASSUME NEW p \in Page, Answers(p) PROVE Quiet'
    <2>1. p \in Page /\ tasks[p] # {} /\ UNCHANGED <<conn, joining, room, inbox, remote>>
      BY <1>16 DEF Answers, serverVars
    <2>2. Live(p)  BY <2>1 DEF Quiet
    <2>3. \A q \in Page : q # p => state'[q] = state[q] /\ tasks'[q] = tasks[q] /\ signal'[q] = signal[q]
      BY <1>16 DEF Answers, Continues, SignalingTypeOK
    <2>4. state'[p] \in {state[p], "FAILED"}  BY <1>16 DEF Answers, SignalingTypeOK
    <2> QED  BY <2>1, <2>2, <2>3, <2>4 DEF Quiet, Live
  <1>17. ASSUME NEW p \in Page, SendsAnswer(p) PROVE Quiet'
    BY <1>17 DEF SendsAnswer, DrainsQueue, Continues, serverVars, Quiet, Live, SignalingTypeOK
  <1>18. ASSUME NEW p \in Page, TakesAnswer(p) PROVE Quiet'
    BY <1>18 DEF TakesAnswer, DrainsQueue, Continues, serverVars, Quiet, Live, SignalingTypeOK
  <1>19. ASSUME NEW p \in Page, TakesCandidate(p) PROVE Quiet'
    BY <1>19 DEF TakesCandidate, Continues, serverVars, Quiet, Live, SignalingTypeOK
  <1>20. ASSUME NEW p \in Page, NEW q \in Page, Connects(p, q) PROVE Quiet'
    BY <1>20 DEF Connects, serverVars, Quiet, Live, SignalingTypeOK
  <1>21. ASSUME NEW p \in Page, Start(p) PROVE Quiet'
    BY <1>21 DEF Start, rtcVars, Quiet, Live, SignalingTypeOK
  <1>22. ASSUME NEW p \in Page, StartFails(p) PROVE Quiet'
    BY <1>22 DEF StartFails, serverVars, rtcVars, Quiet, Live, SignalingTypeOK
  <1>23. ASSUME NEW p \in Page, Leaves(p) PROVE Quiet'
    BY <1>23 DEF Leaves, ClosePage, serverVars, rtcVars, Quiet, Live, SignalingTypeOK
  <1>24. ASSUME NEW p \in Page, SocketDrops(p) PROVE Quiet'
    BY <1>24 DEF SocketDrops, serverVars, pageVars, rtcVars, Quiet, Live, SignalingTypeOK
  <1> QED
    BY <1>0, <1>1, <1>2, <1>3, <1>4, <1>5, <1>6, <1>7, <1>8, <1>9, <1>10, <1>11, <1>12, <1>13,
       <1>14, <1>15, <1>16, <1>17, <1>18, <1>19, <1>20, <1>21, <1>22, <1>23, <1>24
           DEF Next, Works, ServerStep, PageStep, Disturbance

-----------------------------------------------------------------------------
(* The part of each side *)

\* No step gives a page a handler of the other side.
LEMMA NextTaskRoles ==
  ASSUME SignalingTypeOK, RolesOfTasks, [Next]_vars
  PROVE  RolesOfTasks'
  <1>0. CASE UNCHANGED vars
    BY <1>0 DEF vars, serverVars, pageVars, rtcVars, RolesOfTasks, SignalingTypeOK
  <1>1. ASSUME NEW p \in Page, AdmitJoin(p) PROVE RolesOfTasks'
    BY <1>1 DEF AdmitJoin, pageVars, rtcVars, RolesOfTasks, SignalingTypeOK
  <1>2. ASSUME NEW p \in Page, AnnounceJoin(p) PROVE RolesOfTasks'
    BY <1>2 DEF AnnounceJoin, pageVars, rtcVars, RolesOfTasks, SignalingTypeOK
  <1>3. ASSUME NEW p \in Page, JoinFails(p) PROVE RolesOfTasks'
    BY <1>3 DEF JoinFails, pageVars, rtcVars, RolesOfTasks, SignalingTypeOK
  <1>4. ASSUME NEW m \in relays, Relay(m) PROVE RolesOfTasks'
    BY <1>4 DEF Relay, serverVars, pageVars, rtcVars, RolesOfTasks, SignalingTypeOK
  <1>5. ASSUME NEW m \in relays, RelayFails(m) PROVE RolesOfTasks'
    BY <1>5 DEF RelayFails, serverVars, RolesOfTasks, SignalingTypeOK
  <1>6. ASSUME NEW p \in Page, ServerNotices(p) PROVE RolesOfTasks'
    BY <1>6 DEF ServerNotices, pageVars, rtcVars, RolesOfTasks, SignalingTypeOK
  <1>7. ASSUME NEW p \in Page, AnnounceLeave(p) PROVE RolesOfTasks'
    BY <1>7 DEF AnnounceLeave, pageVars, rtcVars, RolesOfTasks, SignalingTypeOK
  <1>8. ASSUME NEW p \in Page, LeaveFails(p) PROVE RolesOfTasks'
    BY <1>8 DEF LeaveFails, pageVars, rtcVars, RolesOfTasks, SignalingTypeOK
  <1>9. ASSUME NEW p \in Page, NoticesClose(p) PROVE RolesOfTasks'
    BY <1>9 DEF NoticesClose, ClosePage, serverVars, rtcVars, RolesOfTasks, SignalingTypeOK
  <1>10. ASSUME NEW p \in Page, HearsJoined(p) PROVE RolesOfTasks'
    BY <1>10 DEF HearsJoined, Hears, serverVars, rtcVars, RolesOfTasks, SignalingTypeOK
  <1>11. ASSUME NEW p \in Page, HearsPeerJoined(p) PROVE RolesOfTasks'
    BY <1>11, TaskBegins DEF Listens, RolesOfTasks
  <1>12. ASSUME NEW p \in Page, HearsPeerLeft(p) PROVE RolesOfTasks'
    BY <1>12 DEF HearsPeerLeft, ClosePage, serverVars, rtcVars, RolesOfTasks, SignalingTypeOK
  <1>13. ASSUME NEW p \in Page, HearsPeer(p) PROVE RolesOfTasks'
    BY <1>13, TaskBegins DEF Listens, RolesOfTasks
  <1>14. ASSUME NEW p \in Page, Calls(p) PROVE RolesOfTasks'
    <2>1. PICK t \in tasks[p] : Continues(p, t, {})  BY <1>14 DEF Calls
    <2> QED  BY <2>1, TaskEnds DEF RolesOfTasks
  <1>15. ASSUME NEW p \in Page, TakesOffer(p) PROVE RolesOfTasks'
    <2>1. PICK t \in tasks[p] : t.step = "offer" /\ Continues(p, t, {[t EXCEPT !.step = "answering"]})
      BY <1>15 DEF TakesOffer
    <2>2. t \in Tasks  BY DEF SignalingTypeOK
    <2>3. [t EXCEPT !.step = "answering"].step = "answering"  BY <2>2 DEF Tasks
    <2>4. p \notin Outgoing  BY <2>1 DEF RolesOfTasks
    <2> DEFINE next == [t EXCEPT !.step = "answering"]
    <2>5. Continues(p, t, {next}) /\ next.step = "answering"  BY <2>1, <2>3
    <2> HIDE DEF next
    <2>6. \A q \in Page : \A u \in tasks'[q] : u \in tasks[q] \/ (q = p /\ u = next)
      BY <2>5, TaskGoesOn
    <2> QED  BY <2>4, <2>5, <2>6 DEF RolesOfTasks
  <1>16. ASSUME NEW p \in Page, Answers(p) PROVE RolesOfTasks'
    <2>1. PICK t \in tasks[p] : /\ t.step = "answering"
                               /\ \/ Continues(p, t, {})
                                  \/ Continues(p, t, {[t EXCEPT !.step = "answers"]})
      BY <1>16 DEF Answers
    <2>2. t \in Tasks  BY DEF SignalingTypeOK
    <2>3. [t EXCEPT !.step = "answers"].step = "answers"  BY <2>2 DEF Tasks
    <2>4. p \notin Outgoing  BY <2>1 DEF RolesOfTasks
    <2>5. CASE Continues(p, t, {})  BY <2>5, TaskEnds DEF RolesOfTasks
    <2>6. CASE Continues(p, t, {[t EXCEPT !.step = "answers"]})
      <3> DEFINE next == [t EXCEPT !.step = "answers"]
      <3>1. Continues(p, t, {next}) /\ next.step = "answers"  BY <2>3, <2>6
      <3> HIDE DEF next
      <3>2. \A q \in Page : \A u \in tasks'[q] : u \in tasks[q] \/ (q = p /\ u = next)
        BY <3>1, TaskGoesOn
      <3> QED  BY <2>4, <3>1, <3>2 DEF RolesOfTasks
    <2> QED  BY <2>1, <2>5, <2>6
  <1>17. ASSUME NEW p \in Page, SendsAnswer(p) PROVE RolesOfTasks'
    <2>1. PICK t \in tasks[p] : Continues(p, t, {})  BY <1>17 DEF SendsAnswer
    <2> QED  BY <2>1, TaskEnds DEF RolesOfTasks
  <1>18. ASSUME NEW p \in Page, TakesAnswer(p) PROVE RolesOfTasks'
    <2>1. PICK t \in tasks[p] : Continues(p, t, {})  BY <1>18 DEF TakesAnswer
    <2> QED  BY <2>1, TaskEnds DEF RolesOfTasks
  <1>19. ASSUME NEW p \in Page, TakesCandidate(p) PROVE RolesOfTasks'
    <2>1. PICK t \in tasks[p] : Continues(p, t, {})  BY <1>19 DEF TakesCandidate
    <2> QED  BY <2>1, TaskEnds DEF RolesOfTasks
  <1>20. ASSUME NEW p \in Page, NEW q \in Page, Connects(p, q) PROVE RolesOfTasks'
    BY <1>20 DEF Connects, serverVars, RolesOfTasks, SignalingTypeOK
  <1>21. ASSUME NEW p \in Page, Start(p) PROVE RolesOfTasks'
    BY <1>21 DEF Start, rtcVars, RolesOfTasks, SignalingTypeOK
  <1>22. ASSUME NEW p \in Page, StartFails(p) PROVE RolesOfTasks'
    BY <1>22 DEF StartFails, serverVars, rtcVars, RolesOfTasks, SignalingTypeOK
  <1>23. ASSUME NEW p \in Page, Leaves(p) PROVE RolesOfTasks'
    BY <1>23 DEF Leaves, ClosePage, serverVars, rtcVars, RolesOfTasks, SignalingTypeOK
  <1>24. ASSUME NEW p \in Page, SocketDrops(p) PROVE RolesOfTasks'
    BY <1>24 DEF SocketDrops, serverVars, pageVars, rtcVars, RolesOfTasks, SignalingTypeOK
  <1> QED
    BY <1>0, <1>1, <1>2, <1>3, <1>4, <1>5, <1>6, <1>7, <1>8, <1>9, <1>10, <1>11, <1>12, <1>13,
       <1>14, <1>15, <1>16, <1>17, <1>18, <1>19, <1>20, <1>21, <1>22, <1>23, <1>24
           DEF Next, Works, ServerStep, PageStep, Disturbance

\* No step sends a message of the other side.
LEMMA NextMessageRoles ==
  ASSUME SignalingTypeOK, Quiet, RolesOfTasks, RolesOfMessages, [Next]_vars
  PROVE  RolesOfMessages'
  <1>0. CASE UNCHANGED vars
    BY <1>0 DEF vars, serverVars, pageVars, rtcVars, RolesOfMessages, SignalingTypeOK
  <1>1. ASSUME NEW p \in Page, AdmitJoin(p) PROVE RolesOfMessages'
    BY <1>1 DEF AdmitJoin, pageVars, rtcVars, RolesOfMessages, SignalingTypeOK
  <1>2. ASSUME NEW p \in Page, AnnounceJoin(p) PROVE RolesOfMessages'
    BY <1>2 DEF AnnounceJoin, pageVars, rtcVars, RolesOfMessages, SignalingTypeOK
  <1>3. ASSUME NEW p \in Page, JoinFails(p) PROVE RolesOfMessages'
    BY <1>3 DEF JoinFails, pageVars, rtcVars, RolesOfMessages, SignalingTypeOK
  <1>4. ASSUME NEW m \in relays, Relay(m) PROVE RolesOfMessages'
    BY <1>4 DEF Relay, serverVars, pageVars, rtcVars, RolesOfMessages, SignalingTypeOK
  <1>5. ASSUME NEW m \in relays, RelayFails(m) PROVE RolesOfMessages'
    BY <1>5 DEF RelayFails, serverVars, RolesOfMessages, SignalingTypeOK
  <1>6. ASSUME NEW p \in Page, ServerNotices(p) PROVE RolesOfMessages'
    BY <1>6 DEF ServerNotices, pageVars, rtcVars, RolesOfMessages, SignalingTypeOK
  <1>7. ASSUME NEW p \in Page, AnnounceLeave(p) PROVE RolesOfMessages'
    BY <1>7 DEF AnnounceLeave, pageVars, rtcVars, RolesOfMessages, SignalingTypeOK
  <1>8. ASSUME NEW p \in Page, LeaveFails(p) PROVE RolesOfMessages'
    BY <1>8 DEF LeaveFails, pageVars, rtcVars, RolesOfMessages, SignalingTypeOK
  <1>9. ASSUME NEW p \in Page, NoticesClose(p) PROVE RolesOfMessages'
    <2>1. \A q \in Page : state[q] # "IDLE" => state'[q] # "IDLE"
      BY <1>9 DEF NoticesClose, ClosePage, serverVars, rtcVars, SignalingTypeOK
    <2>2. \A m \in relays : m.from \in Page  BY DEF SignalingTypeOK, Messages
    <2>3. UNCHANGED relays  BY <1>9 DEF NoticesClose, ClosePage, serverVars, rtcVars
    <2> QED  BY <2>1, <2>2, <2>3 DEF RolesOfMessages
  <1>10. ASSUME NEW p \in Page, HearsJoined(p) PROVE RolesOfMessages'
    <2>1. \A q \in Page : state[q] # "IDLE" => state'[q] # "IDLE"
      BY <1>10 DEF HearsJoined, Hears, serverVars, rtcVars, SignalingTypeOK
    <2>2. \A m \in relays : m.from \in Page  BY DEF SignalingTypeOK, Messages
    <2>3. UNCHANGED relays  BY <1>10 DEF HearsJoined, Hears, serverVars, rtcVars
    <2> QED  BY <2>1, <2>2, <2>3 DEF RolesOfMessages
  <1>11. ASSUME NEW p \in Page, HearsPeerJoined(p) PROVE RolesOfMessages'
    <2>1. \A q \in Page : state[q] # "IDLE" => state'[q] # "IDLE"
      BY <1>11 DEF HearsPeerJoined, serverVars, SignalingTypeOK
    <2>2. \A m \in relays : m.from \in Page  BY DEF SignalingTypeOK, Messages
    <2>3. UNCHANGED relays  BY <1>11 DEF HearsPeerJoined, serverVars
    <2> QED  BY <2>1, <2>2, <2>3 DEF RolesOfMessages
  <1>12. ASSUME NEW p \in Page, HearsPeerLeft(p) PROVE RolesOfMessages'
    <2>1. \A q \in Page : state[q] # "IDLE" => state'[q] # "IDLE"
      BY <1>12 DEF HearsPeerLeft, ClosePage, serverVars, rtcVars, SignalingTypeOK
    <2>2. \A m \in relays : m.from \in Page  BY DEF SignalingTypeOK, Messages
    <2>3. UNCHANGED relays  BY <1>12 DEF HearsPeerLeft, ClosePage, serverVars, rtcVars
    <2> QED  BY <2>1, <2>2, <2>3 DEF RolesOfMessages
  <1>13. ASSUME NEW p \in Page, HearsPeer(p) PROVE RolesOfMessages'
    BY <1>13 DEF HearsPeer, Hears, serverVars, rtcVars, RolesOfMessages, SignalingTypeOK
  <1>14. ASSUME NEW p \in Page, Calls(p) PROVE RolesOfMessages'
    <2>1. PICK t \in tasks[p] : /\ t.step = "calling"
                               /\ relays' = relays \cup Sends(p, "offer", t.n) \cup Gathered(p)
      BY <1>14 DEF Calls
    <2>2. \A m \in relays' \ relays : /\ m.from = p /\ m.type \in {"offer", "candidate"}
                                      /\ m.type \in {"offer", "answer", "candidate"}
      BY <2>1 DEF Sends, Gathered, Message
    <2>3. Live(p)  BY DEF Quiet
    <2>4. p \in Outgoing  BY <2>1 DEF RolesOfTasks
    <2>5. UNCHANGED state  BY <1>14 DEF Calls
    <2> QED  BY <2>2, <2>3, <2>4, <2>5 DEF RolesOfMessages, Live
  <1>15. ASSUME NEW p \in Page, TakesOffer(p) PROVE RolesOfMessages'
    BY <1>15 DEF TakesOffer, Continues, serverVars, RolesOfMessages, SignalingTypeOK
  <1>16. ASSUME NEW p \in Page, Answers(p) PROVE RolesOfMessages'
    <2>1. relays' = relays \/ relays' = relays \cup Gathered(p)  BY <1>16 DEF Answers
    <2>2. \A m \in relays' \ relays : m.from = p /\ m.type = "candidate"
      BY <2>1 DEF Sends, Gathered, Message
    <2>3. Live(p)  BY <1>16 DEF Quiet, Answers
    <2>4. \A q \in Page : state'[q] \in {state[q], "FAILED"}  BY <1>16 DEF Answers, SignalingTypeOK
    <2>5. \A m \in relays : m.from \in Page  BY DEF SignalingTypeOK, Messages
    <2> QED  BY <2>1, <2>2, <2>3, <2>4, <2>5 DEF RolesOfMessages, Live
  <1>17. ASSUME NEW p \in Page, SendsAnswer(p) PROVE RolesOfMessages'
    <2>1. PICK t \in tasks[p] : /\ t.step = "answers"
                               /\ relays' = relays \cup Sends(p, "answer", t.n)
      BY <1>17 DEF SendsAnswer
    <2>2. \A m \in relays' \ relays : /\ m.from = p /\ m.type \in {"answer", "candidate"}
                                      /\ m.type \in {"offer", "answer", "candidate"}
      BY <2>1 DEF Sends, Gathered, Message
    <2>3. Live(p)  BY DEF Quiet
    <2>4. p \notin Outgoing  BY <2>1 DEF RolesOfTasks
    <2>5. UNCHANGED state  BY <1>17 DEF SendsAnswer
    <2> QED  BY <2>2, <2>3, <2>4, <2>5 DEF RolesOfMessages, Live
  <1>18. ASSUME NEW p \in Page, TakesAnswer(p) PROVE RolesOfMessages'
    <2>1. \A q \in Page : state[q] # "IDLE" => state'[q] # "IDLE"
      BY <1>18 DEF TakesAnswer, DrainsQueue, Continues, serverVars, SignalingTypeOK
    <2>2. \A m \in relays : m.from \in Page  BY DEF SignalingTypeOK, Messages
    <2>3. UNCHANGED relays  BY <1>18 DEF TakesAnswer, DrainsQueue, Continues, serverVars
    <2> QED  BY <2>1, <2>2, <2>3 DEF RolesOfMessages
  <1>19. ASSUME NEW p \in Page, TakesCandidate(p) PROVE RolesOfMessages'
    BY <1>19 DEF TakesCandidate, Continues, serverVars, RolesOfMessages, SignalingTypeOK
  <1>20. ASSUME NEW p \in Page, NEW q \in Page, Connects(p, q) PROVE RolesOfMessages'
    <2>1. \A r \in Page : state[r] # "IDLE" => state'[r] # "IDLE"
      BY <1>20 DEF Connects, serverVars, SignalingTypeOK
    <2>2. \A m \in relays : m.from \in Page  BY DEF SignalingTypeOK, Messages
    <2>3. UNCHANGED relays  BY <1>20 DEF Connects, serverVars
    <2> QED  BY <2>1, <2>2, <2>3 DEF RolesOfMessages
  <1>21. ASSUME NEW p \in Page, Start(p) PROVE RolesOfMessages'
    <2>1. \A q \in Page : state[q] # "IDLE" => state'[q] # "IDLE"
      BY <1>21 DEF Start, rtcVars, SignalingTypeOK
    <2>2. \A m \in relays : m.from \in Page  BY DEF SignalingTypeOK, Messages
    <2>3. UNCHANGED relays  BY <1>21 DEF Start, rtcVars
    <2> QED  BY <2>1, <2>2, <2>3 DEF RolesOfMessages
  <1>22. ASSUME NEW p \in Page, StartFails(p) PROVE RolesOfMessages'
    <2>1. \A q \in Page : state[q] # "IDLE" => state'[q] # "IDLE"
      BY <1>22 DEF StartFails, serverVars, rtcVars, SignalingTypeOK
    <2>2. \A m \in relays : m.from \in Page  BY DEF SignalingTypeOK, Messages
    <2>3. UNCHANGED relays  BY <1>22 DEF StartFails, serverVars, rtcVars
    <2> QED  BY <2>1, <2>2, <2>3 DEF RolesOfMessages
  <1>23. ASSUME NEW p \in Page, Leaves(p) PROVE RolesOfMessages'
    <2>1. \A q \in Page : state[q] # "IDLE" => state'[q] # "IDLE"
      BY <1>23 DEF Leaves, ClosePage, serverVars, rtcVars, SignalingTypeOK
    <2>2. \A m \in relays : m.from \in Page  BY DEF SignalingTypeOK, Messages
    <2>3. UNCHANGED relays  BY <1>23 DEF Leaves, ClosePage, serverVars, rtcVars
    <2> QED  BY <2>1, <2>2, <2>3 DEF RolesOfMessages
  <1>24. ASSUME NEW p \in Page, SocketDrops(p) PROVE RolesOfMessages'
    BY <1>24 DEF SocketDrops, serverVars, pageVars, rtcVars, RolesOfMessages, SignalingTypeOK
  <1> QED
    BY <1>0, <1>1, <1>2, <1>3, <1>4, <1>5, <1>6, <1>7, <1>8, <1>9, <1>10, <1>11, <1>12, <1>13,
       <1>14, <1>15, <1>16, <1>17, <1>18, <1>19, <1>20, <1>21, <1>22, <1>23, <1>24
           DEF Next, Works, ServerStep, PageStep, Disturbance

-----------------------------------------------------------------------------
(* Candidates that wait *)

\* No step leaves a candidate without a handler that is going to take it.
LEMMA NextAwaited ==
  ASSUME SignalingTypeOK, Quiet, RolesOfTasks, \A p \in Page : Awaited(p), [Next]_vars
  PROVE  \A r \in Page : Awaited(r)'
  <1>0. CASE UNCHANGED vars
    BY <1>0 DEF vars, serverVars, pageVars, rtcVars, Awaited, Live, Quiet, SignalingTypeOK
  <1>1. ASSUME NEW p \in Page, AdmitJoin(p) PROVE \A r \in Page : Awaited(r)'
    BY <1>1 DEF AdmitJoin, pageVars, rtcVars, Awaited, Live, Quiet, SignalingTypeOK
  <1>2. ASSUME NEW p \in Page, AnnounceJoin(p) PROVE \A r \in Page : Awaited(r)'
    BY <1>2 DEF AnnounceJoin, pageVars, rtcVars, Awaited, Live, Quiet, SignalingTypeOK
  <1>3. ASSUME NEW p \in Page, JoinFails(p) PROVE \A r \in Page : Awaited(r)'
    BY <1>3 DEF JoinFails, pageVars, rtcVars, Awaited, Live, Quiet, SignalingTypeOK
  <1>4. ASSUME NEW m \in relays, Relay(m) PROVE \A r \in Page : Awaited(r)'
    BY <1>4 DEF Relay, serverVars, pageVars, rtcVars, Awaited, Live, Quiet, SignalingTypeOK
  <1>5. ASSUME NEW m \in relays, RelayFails(m) PROVE \A r \in Page : Awaited(r)'
    BY <1>5 DEF RelayFails, serverVars, Awaited, Live, Quiet, SignalingTypeOK
  <1>6. ASSUME NEW p \in Page, ServerNotices(p) PROVE \A r \in Page : Awaited(r)'
    BY <1>6 DEF ServerNotices, pageVars, rtcVars, Awaited, Live, Quiet, SignalingTypeOK
  <1>7. ASSUME NEW p \in Page, AnnounceLeave(p) PROVE \A r \in Page : Awaited(r)'
    BY <1>7 DEF AnnounceLeave, pageVars, rtcVars, Awaited, Live, Quiet, SignalingTypeOK
  <1>8. ASSUME NEW p \in Page, LeaveFails(p) PROVE \A r \in Page : Awaited(r)'
    BY <1>8 DEF LeaveFails, pageVars, rtcVars, Awaited, Live, Quiet, SignalingTypeOK
  <1>9. ASSUME NEW p \in Page, NoticesClose(p) PROVE \A r \in Page : Awaited(r)'
    BY <1>9 DEF NoticesClose, ClosePage, serverVars, rtcVars, Awaited, Live, Quiet, SignalingTypeOK
  <1>10. ASSUME NEW p \in Page, HearsJoined(p) PROVE \A r \in Page : Awaited(r)'
    BY <1>10 DEF HearsJoined, Hears, serverVars, rtcVars, Awaited, Live, Quiet, SignalingTypeOK
  <1>11. ASSUME NEW p \in Page, HearsPeerJoined(p) PROVE \A r \in Page : Awaited(r)'
    <2>1. \A q \in Page : tasks[q] \subseteq tasks'[q]  
      <3>1. tasks' = tasks \/ tasks' = [tasks EXCEPT ![p] = @ \cup {Task("calling", p, calls[p] + 1)}]
        BY <1>11 DEF HearsPeerJoined
      <3> QED  BY <3>1 DEF SignalingTypeOK
    <2>2. \A q \in Page : state'[q] # state[q] => Live(q)
      BY <1>11 DEF HearsPeerJoined, Live, SignalingTypeOK
    <2>3. UNCHANGED <<signal, remote, queue>>  BY <1>11 DEF HearsPeerJoined, rtcVars
    <2> QED  BY <2>1, <2>2, <2>3 DEF Awaited, Live
  <1>12. ASSUME NEW p \in Page, HearsPeerLeft(p) PROVE \A r \in Page : Awaited(r)'
    BY <1>12 DEF HearsPeerLeft, ClosePage, serverVars, rtcVars, Awaited, Live, Quiet,
       SignalingTypeOK
  <1>13. ASSUME NEW p \in Page, HearsPeer(p) PROVE \A r \in Page : Awaited(r)'
    <2>1. \A q \in Page : tasks[q] \subseteq tasks'[q]
      BY <1>13 DEF HearsPeer, Hears, SignalingTypeOK
    <2>2. \A q \in Page : state'[q] # state[q] => Live(q)
      BY <1>13 DEF HearsPeer, Hears, Live, SignalingTypeOK
    <2>3. UNCHANGED <<signal, remote, queue>>  BY <1>13 DEF HearsPeer, Hears, rtcVars
    <2> QED  BY <2>1, <2>2, <2>3 DEF Awaited, Live
  <1>14. ASSUME NEW p \in Page, Calls(p) PROVE \A r \in Page : Awaited(r)'
    <2>1. PICK t \in tasks[p] : t.step = "calling" /\ Continues(p, t, {})  BY <1>14 DEF Calls
    <2>2. \A q \in Page : \A u \in tasks[q] : u.step # "calling" => u \in tasks'[q]
      BY <2>1, TaskEnds
    <2>3. p \in Page /\ Live(p)  BY <1>14, <2>1 DEF Quiet
    <2>4. p \in Outgoing  BY <2>1 DEF RolesOfTasks
    <2>5. \A q \in Page : q # p => signal'[q] = signal[q]  BY <1>14 DEF Calls, SignalingTypeOK
    <2>6. UNCHANGED <<state, remote, queue>>  BY <1>14 DEF Calls
    <2> QED  BY <2>2, <2>3, <2>4, <2>5, <2>6 DEF Awaited, Live
  <1>15. ASSUME NEW p \in Page, TakesOffer(p) PROVE \A r \in Page : Awaited(r)'
    <2>1. PICK t \in tasks[p] : /\ t.step = "offer" /\ Continues(p, t, {[t EXCEPT !.step = "answering"]})
                               /\ signal' = [signal EXCEPT ![p] = "have-remote-offer"]
      BY <1>15 DEF TakesOffer
    <2>2. p \notin Outgoing  BY <2>1 DEF RolesOfTasks
    <2>3. [t EXCEPT !.step = "answering"].step = "answering"  BY DEF Tasks, SignalingTypeOK
    <2> DEFINE next == [t EXCEPT !.step = "answering"]
    <2>4. Continues(p, t, {next}) /\ next.step = "answering"  BY <2>1, <2>3
    <2> HIDE DEF next
    <2>5. /\ next \in tasks'[p]
          /\ \A q \in Page : \A u \in tasks[q] : q # p => u \in tasks'[q]  BY <2>4, TaskGoesOn
    <2>6. signal'[p] = "have-remote-offer" /\ \A q \in Page : q # p => signal'[q] = signal[q]
      BY <2>1 DEF SignalingTypeOK
    <2>7. \A q \in Page : q # p => remote'[q] = remote[q]  BY <1>15 DEF TakesOffer, SignalingTypeOK
    <2>8. UNCHANGED <<state, queue>>  BY <1>15 DEF TakesOffer
    <2> QED  BY <2>2, <2>4, <2>5, <2>6, <2>7, <2>8 DEF Awaited, Live
  <1>16. ASSUME NEW p \in Page, Answers(p) PROVE \A r \in Page : Awaited(r)'
    <2>1. PICK t \in tasks[p] :
            /\ t.step = "answering"
            /\ \/ /\ signal' = [signal EXCEPT ![p] = "stable"]
                  /\ Continues(p, t, {[t EXCEPT !.step = "answers"]})
               \/ /\ signal[p] # "have-remote-offer" /\ UNCHANGED signal
                  /\ Continues(p, t, {})
      BY <1>16 DEF Answers
    <2>2. p \notin Outgoing /\ Live(p)  BY <2>1 DEF RolesOfTasks, Quiet
    <2>3. [t EXCEPT !.step = "answers"].step = "answers"  BY DEF Tasks, SignalingTypeOK
    <2>4. \A q \in Page : q # p => state'[q] = state[q]  BY <1>16 DEF Answers, SignalingTypeOK
    <2>5. UNCHANGED <<remote, queue>>  BY <1>16 DEF Answers
    <2>6. CASE Continues(p, t, {[t EXCEPT !.step = "answers"]}) /\ signal' = [signal EXCEPT ![p] = "stable"]
      <3> DEFINE next == [t EXCEPT !.step = "answers"]
      <3>1. Continues(p, t, {next}) /\ next.step = "answers"  BY <2>3, <2>6
      <3> HIDE DEF next
      <3>2. /\ next \in tasks'[p]
            /\ \A q \in Page : \A u \in tasks[q] : q # p => u \in tasks'[q]  BY <3>1, TaskGoesOn
      <3>3. \A q \in Page : q # p => signal'[q] = signal[q]  BY <2>6 DEF SignalingTypeOK
      <3> QED  BY <2>2, <2>4, <2>5, <3>1, <3>2, <3>3 DEF Awaited, Live
    <2>7. CASE Continues(p, t, {}) /\ signal[p] # "have-remote-offer" /\ UNCHANGED signal
      <3>1. \A q \in Page : \A u \in tasks[q] : u.step # "answering" \/ q # p => u \in tasks'[q]
        BY <2>1, <2>7, TaskEnds
      <3> QED  BY <2>2, <2>4, <2>5, <2>7, <3>1 DEF Awaited, Live
    <2> QED  BY <2>1, <2>6, <2>7
  <1>17. ASSUME NEW p \in Page, SendsAnswer(p) PROVE \A r \in Page : Awaited(r)'
    <2>1. PICK t \in tasks[p] : Continues(p, t, {})  BY <1>17 DEF SendsAnswer
    <2>2. \A q \in Page : \A u \in tasks[q] : q # p => u \in tasks'[q]  BY <2>1, TaskEnds
    <2>3. queue'[p] = {} /\ \A q \in Page : q # p => queue'[q] = queue[q]
      BY <1>17 DEF SendsAnswer, DrainsQueue, SignalingTypeOK
    <2>4. UNCHANGED <<state, signal, remote>>  BY <1>17 DEF SendsAnswer
    <2> QED  BY <2>2, <2>3, <2>4 DEF Awaited, Live
  <1>18. ASSUME NEW p \in Page, TakesAnswer(p) PROVE \A r \in Page : Awaited(r)'
    <2>1. PICK t \in tasks[p] : t.step = "answer" /\ Continues(p, t, {})  BY <1>18 DEF TakesAnswer
    <2>2. \A q \in Page : \A u \in tasks[q] : u.step # "answer" => u \in tasks'[q]
      BY <2>1, TaskEnds
    <2>3. p \in Page /\ Live(p)  BY <1>18, <2>1 DEF Quiet
    <2>4. \/ queue'[p] = {}
          \/ queue'[p] = queue[p] /\ remote'[p] = remote[p]
      BY <1>18 DEF TakesAnswer, DrainsQueue, SignalingTypeOK
    <2>5. \A q \in Page : q # p => /\ state'[q] = state[q] /\ signal'[q] = signal[q]
                                  /\ remote'[q] = remote[q] /\ queue'[q] = queue[q]
      BY <1>18 DEF TakesAnswer, DrainsQueue, SignalingTypeOK
    <2>6. p \in Outgoing  BY <2>1 DEF RolesOfTasks
    <2> QED  BY <2>2, <2>3, <2>4, <2>5, <2>6 DEF Awaited, Live
  <1>19. ASSUME NEW p \in Page, TakesCandidate(p) PROVE \A r \in Page : Awaited(r)'
    <2>1. PICK t \in tasks[p] : t.step = "candidate" /\ Continues(p, t, {})
      BY <1>19 DEF TakesCandidate
    <2>2. \A q \in Page : \A u \in tasks[q] : u.step # "candidate" => u \in tasks'[q]
      BY <2>1, TaskEnds
    <2>3. p \in Page /\ Live(p)  BY <1>19, <2>1 DEF Quiet
    <2>4. remote[p] = None \/ queue'[p] = queue[p]  BY <1>19 DEF TakesCandidate
    <2>5. \A q \in Page : q # p => queue'[q] = queue[q]
      BY <1>19 DEF TakesCandidate, SignalingTypeOK
    <2>6. UNCHANGED <<state, signal, remote>>  BY <1>19 DEF TakesCandidate
    <2> QED  BY <2>2, <2>3, <2>4, <2>5, <2>6 DEF Awaited, Live
  <1>20. ASSUME NEW p \in Page, NEW q \in Page, Connects(p, q) PROVE \A r \in Page : Awaited(r)'
    BY <1>20 DEF Connects, serverVars, Awaited, Live, Quiet, SignalingTypeOK
  <1>21. ASSUME NEW p \in Page, Start(p) PROVE \A r \in Page : Awaited(r)'
    BY <1>21 DEF Start, rtcVars, Awaited, Live, Quiet, SignalingTypeOK
  <1>22. ASSUME NEW p \in Page, StartFails(p) PROVE \A r \in Page : Awaited(r)'
    BY <1>22 DEF StartFails, serverVars, rtcVars, Awaited, Live, Quiet, SignalingTypeOK
  <1>23. ASSUME NEW p \in Page, Leaves(p) PROVE \A r \in Page : Awaited(r)'
    BY <1>23 DEF Leaves, ClosePage, serverVars, rtcVars, Awaited, Live, Quiet, SignalingTypeOK
  <1>24. ASSUME NEW p \in Page, SocketDrops(p) PROVE \A r \in Page : Awaited(r)'
    BY <1>24 DEF SocketDrops, serverVars, pageVars, rtcVars, Awaited, Live, Quiet, SignalingTypeOK
  <1> QED
    BY <1>0, <1>1, <1>2, <1>3, <1>4, <1>5, <1>6, <1>7, <1>8, <1>9, <1>10, <1>11, <1>12, <1>13,
       <1>14, <1>15, <1>16, <1>17, <1>18, <1>19, <1>20, <1>21, <1>22, <1>23, <1>24
           DEF Next, Works, ServerStep, PageStep, Disturbance

-----------------------------------------------------------------------------
(* What waits for a page *)

\* A page takes an event: the others move up.
LEMMA EventTaken ==
  ASSUME SignalingTypeOK, NEW p \in Page, inbox[p] # <<>>, inbox' = [inbox EXCEPT ![p] = Tail(@)]
  PROVE  /\ \A q \in Page : q # p => inbox'[q] = inbox[q]
         /\ \A i \in DOMAIN inbox'[p] : i + 1 \in DOMAIN inbox[p] /\ inbox'[p][i] = inbox[p][i + 1]
         /\ 1 \in DOMAIN inbox[p] /\ Head(inbox[p]) = inbox[p][1]
         /\ DOMAIN inbox'[p] \subseteq Nat \ {0}
  <1>1. inbox[p] \in Seq(Messages)  BY DEF SignalingTypeOK
  <1>2. /\ inbox'[p] = Tail(inbox[p])
        /\ \A q \in Page : q # p => inbox'[q] = inbox[q]  BY DEF SignalingTypeOK
  <1>3. /\ Tail(inbox[p]) \in Seq(Messages) /\ Head(inbox[p]) = inbox[p][1] /\ 1 \in DOMAIN inbox[p]
        /\ \A i \in DOMAIN Tail(inbox[p]) : i + 1 \in DOMAIN inbox[p] /\ Tail(inbox[p])[i] = inbox[p][i + 1]
    BY <1>1, TailFacts
  <1>4. DOMAIN Tail(inbox[p]) \subseteq Nat \ {0}  BY <1>3
  <1> QED  BY <1>2, <1>3, <1>4

\* A page is sent an event of its own: it comes last.
Sent(msg) ==
  \A q \in Page : inbox'[q] = inbox[q] \/ inbox'[q] = Append(inbox[q], msg[q])

LEMMA EventSent ==
  ASSUME SignalingTypeOK, NEW msg \in [Page -> Messages], Sent(msg), NEW q \in Page, NEW i \in DOMAIN inbox'[q]
  PROVE  \/ i \in DOMAIN inbox[q] /\ inbox'[q][i] = inbox[q][i]
         \/ inbox'[q] # inbox[q] /\ i = Len(inbox[q]) + 1 /\ inbox'[q][i] = msg[q]
  <1>1. inbox[q] \in Seq(Messages) /\ msg[q] \in Messages  BY DEF SignalingTypeOK
  <1>2. CASE inbox'[q] = inbox[q]  BY <1>2
  <1>3. CASE inbox'[q] # inbox[q] /\ inbox'[q] = Append(inbox[q], msg[q])
    BY <1>1, <1>3, AppendFacts
  <1> QED  BY <1>2, <1>3 DEF Sent

\* The server's handlers send events of these types; the last part says to whom.
LEMMA JoinSends ==
  ASSUME SignalingTypeOK, NEW p \in Page, AnnounceJoin(p)
  PROVE  \E msg \in [Page -> Messages] :
           /\ Sent(msg)
           /\ \A q \in Page : msg[q].type = IF q = p THEN "joined" ELSE "peer-joined"
           /\ \A q \in Page : q = p \/ q \in room \/ inbox'[q] = inbox[q]
  <1> DEFINE msg == [q \in Page |-> IF q = p THEN Message("joined", p, 0) ELSE Message("peer-joined", p, 0)]
  <1>1. Message("peer-joined", p, 0) \in Messages /\ Message("joined", p, 0) \in Messages
    BY DEF Message, Messages
  <1>2. msg \in [Page -> Messages]  BY <1>1
  <1>3. \A q \in Page : msg[q].type = IF q = p THEN "joined" ELSE "peer-joined"  BY DEF Message
  <1> DEFINE boxes == Broadcast(p, Message("peer-joined", p, 0))
  <1>4. /\ boxes \in [Page -> Seq(Messages)]
        /\ \A q \in Page :
             \/ boxes[q] = inbox[q]
             \/ q \in room \ {p} /\ boxes[q] = Append(inbox[q], Message("peer-joined", p, 0))
    BY <1>1, BroadcastFacts
  <1>5. inbox' = Reply(p, boxes, Message("joined", p, 0))  BY DEF AnnounceJoin
  <1> HIDE DEF boxes
  <1>6. boxes[p] = inbox[p]  BY <1>4
  <1>7. \A q \in Page : q # p => inbox'[q] = boxes[q]  BY <1>4, <1>5 DEF Reply
  <1>8. inbox'[p] = inbox[p] \/ inbox'[p] = Append(inbox[p], Message("joined", p, 0))
    BY <1>4, <1>5, <1>6 DEF Reply
  <1>9. Sent(msg)  BY <1>4, <1>7, <1>8 DEF Sent
  <1>10. \A q \in Page : q = p \/ q \in room \/ inbox'[q] = inbox[q]  BY <1>4, <1>7
  <1> HIDE DEF msg
  <1> QED  BY <1>2, <1>3, <1>9, <1>10

LEMMA RefusalSends ==
  ASSUME SignalingTypeOK, NEW p \in Page, JoinFails(p)
  PROVE  \E msg \in [Page -> Messages] :
           /\ Sent(msg)
           /\ \A q \in Page : msg[q].type = "join-failed" /\ (q # p => inbox'[q] = inbox[q])
  <1> DEFINE msg == [q \in Page |-> Message("join-failed", p, 0)]
  <1>1. Message("join-failed", p, 0) \in Messages  BY DEF Message, Messages
  <1>2. msg \in [Page -> Messages]  BY <1>1
  <1>3. \A q \in Page : msg[q].type = "join-failed"  BY DEF Message
  <1>4. inbox' = Reply(p, inbox, Message("join-failed", p, 0)) /\ inbox \in [Page -> Seq(Messages)]
    BY DEF JoinFails, SignalingTypeOK
  <1>5. \A q \in Page : q # p => inbox'[q] = inbox[q]  BY <1>4 DEF Reply
  <1>6. inbox'[p] = inbox[p] \/ inbox'[p] = Append(inbox[p], Message("join-failed", p, 0))
    BY <1>4 DEF Reply
  <1>7. Sent(msg)  BY <1>5, <1>6 DEF Sent
  <1> HIDE DEF msg
  <1> QED  BY <1>2, <1>3, <1>5, <1>7

LEMMA BroadcastSends ==
  ASSUME SignalingTypeOK, NEW p \in Page, NEW m \in Messages, inbox' = Broadcast(p, m)
  PROVE  \E msg \in [Page -> Messages] :
           /\ Sent(msg)
           /\ \A q \in Page : msg[q] = m /\ (q \in room \ {p} \/ inbox'[q] = inbox[q])
  <1> DEFINE msg == [q \in Page |-> m]
  <1>1. msg \in [Page -> Messages] /\ \A q \in Page : msg[q] = m  OBVIOUS
  <1>2. \A q \in Page :
          \/ inbox'[q] = inbox[q]
          \/ q \in room \ {p} /\ inbox'[q] = Append(inbox[q], m)
    BY BroadcastFacts
  <1>3. Sent(msg)  BY <1>1, <1>2 DEF Sent
  <1> HIDE DEF msg
  <1> QED  BY <1>1, <1>2, <1>3

LEMMA LeaveSends ==
  ASSUME SignalingTypeOK, NEW p \in Page, AnnounceLeave(p)
  PROVE  \E msg \in [Page -> Messages] : Sent(msg) /\ \A q \in Page : msg[q].type = "peer-left"
  <1>1. Message("peer-left", p, 0) \in Messages /\ Message("peer-left", p, 0).type = "peer-left"
    BY DEF Message, Messages
  <1>2. inbox' = Broadcast(p, Message("peer-left", p, 0))  BY DEF AnnounceLeave
  <1> QED  BY <1>1, <1>2, BroadcastSends

-----------------------------------------------------------------------------
(* Joins that failed *)

\* No step tells a page that its join failed when it did not.
LEMMA NextRefused ==
  ASSUME SignalingTypeOK, Quiet, RolesOfMessages, \A p \in Page : Refused(p), [Next]_vars
  PROVE  \A r \in Page : Refused(r)'
  <1>0. CASE UNCHANGED vars
    BY <1>0 DEF vars, serverVars, pageVars, rtcVars, Refused, SignalingTypeOK
  <1>1. ASSUME NEW p \in Page, AdmitJoin(p) PROVE \A r \in Page : Refused(r)'
    BY <1>1 DEF AdmitJoin, pageVars, rtcVars, Refused, SignalingTypeOK
  <1>2. ASSUME NEW p \in Page, AnnounceJoin(p) PROVE \A r \in Page : Refused(r)'
    <2>1. PICK msg \in [Page -> Messages] : Sent(msg) /\ \A q \in Page : msg[q].type = IF q = p THEN "joined" ELSE "peer-joined"
      BY <1>2, JoinSends
    <2>2. \A q \in Page : \A i \in DOMAIN inbox'[q] :
            \/ i \in DOMAIN inbox[q] /\ inbox'[q][i] = inbox[q][i]
            \/ inbox'[q][i].type # "join-failed"
      BY <2>1, EventSent
    <2>3. \A q \in Page : joining[q] \in {"refused", "broken"} => joining'[q] \in {"refused", "broken"}
      BY <1>2 DEF AnnounceJoin, SignalingTypeOK
    <2> QED  BY <2>2, <2>3 DEF Refused
  <1>3. ASSUME NEW p \in Page, JoinFails(p) PROVE \A r \in Page : Refused(r)'
    <2>1. PICK msg \in [Page -> Messages] : Sent(msg) /\ \A q \in Page : msg[q].type = "join-failed" /\ (q # p => inbox'[q] = inbox[q])
      BY <1>3, RefusalSends
    <2>2. \A q \in Page : \A i \in DOMAIN inbox'[q] :
            \/ i \in DOMAIN inbox[q] /\ inbox'[q][i] = inbox[q][i]
            \/ q = p
      BY <2>1, EventSent
    <2>3. \A q \in Page : joining[q] \in {"refused", "broken"} => joining'[q] \in {"refused", "broken"}
      BY <1>3 DEF JoinFails, SignalingTypeOK
    <2>4. joining'[p] \in {"refused", "broken"}  BY <1>3 DEF JoinFails, SignalingTypeOK
    <2> QED  BY <2>2, <2>3, <2>4 DEF Refused
  <1>4. ASSUME NEW m \in relays, Relay(m) PROVE \A r \in Page : Refused(r)'
    <2>1. /\ m \in Messages /\ m.from \in Page /\ m.type # "join-failed"
          /\ inbox' = Broadcast(m.from, m)
      BY <1>4 DEF Messages, SignalingTypeOK, RolesOfMessages, Relay
    <2>2. PICK msg \in [Page -> Messages] : Sent(msg) /\ \A q \in Page : msg[q] = m
      BY <2>1, BroadcastSends
    <2>3. \A q \in Page : \A i \in DOMAIN inbox'[q] :
            \/ i \in DOMAIN inbox[q] /\ inbox'[q][i] = inbox[q][i]
            \/ inbox'[q][i].type # "join-failed"
      BY <2>1, <2>2, EventSent
    <2>4. UNCHANGED joining  BY <1>4 DEF Relay, serverVars
    <2> QED  BY <2>3, <2>4 DEF Refused
  <1>5. ASSUME NEW m \in relays, RelayFails(m) PROVE \A r \in Page : Refused(r)'
    BY <1>5 DEF RelayFails, serverVars, Refused, SignalingTypeOK
  <1>6. ASSUME NEW p \in Page, ServerNotices(p) PROVE \A r \in Page : Refused(r)'
    BY <1>6 DEF ServerNotices, pageVars, rtcVars, Refused, SignalingTypeOK
  <1>7. ASSUME NEW p \in Page, AnnounceLeave(p) PROVE \A r \in Page : Refused(r)'
    <2>1. PICK msg \in [Page -> Messages] : Sent(msg) /\ \A q \in Page : msg[q].type = "peer-left"
      BY <1>7, LeaveSends
    <2>2. \A q \in Page : \A i \in DOMAIN inbox'[q] :
            \/ i \in DOMAIN inbox[q] /\ inbox'[q][i] = inbox[q][i]
            \/ inbox'[q][i].type # "join-failed"
      BY <2>1, EventSent
    <2>3. \A q \in Page : joining[q] \in {"refused", "broken"} => joining'[q] \in {"refused", "broken"}
      BY <1>7 DEF AnnounceLeave, serverVars, SignalingTypeOK
    <2> QED  BY <2>2, <2>3 DEF Refused
  <1>8. ASSUME NEW p \in Page, LeaveFails(p) PROVE \A r \in Page : Refused(r)'
    BY <1>8 DEF LeaveFails, pageVars, rtcVars, Refused, SignalingTypeOK
  <1>9. ASSUME NEW p \in Page, NoticesClose(p) PROVE \A r \in Page : Refused(r)'
    <2>1. UNCHANGED joining /\ \A q \in Page : inbox'[q] \in {inbox[q], <<>>}
      BY <1>9 DEF NoticesClose, ClosePage, serverVars, rtcVars, SignalingTypeOK
    <2> QED  BY <2>1 DEF Refused
  <1>10. ASSUME NEW p \in Page, HearsJoined(p) PROVE \A r \in Page : Refused(r)'
    <2>1. inbox[p] # <<>> /\ inbox' = [inbox EXCEPT ![p] = Tail(@)] /\ UNCHANGED joining
      BY <1>10 DEF HearsJoined, Hears, serverVars
    <2>2. \A q \in Page : \A i \in DOMAIN inbox'[q] : \E j \in DOMAIN inbox[q] : inbox'[q][i] = inbox[q][j]
      BY <2>1, EventTaken
    <2> QED  BY <2>1, <2>2 DEF Refused
  <1>11. ASSUME NEW p \in Page, HearsPeerJoined(p) PROVE \A r \in Page : Refused(r)'
    <2>1. inbox[p] # <<>> /\ inbox' = [inbox EXCEPT ![p] = Tail(@)] /\ UNCHANGED joining
      BY <1>11 DEF HearsPeerJoined, Hears, serverVars
    <2>2. \A q \in Page : \A i \in DOMAIN inbox'[q] : \E j \in DOMAIN inbox[q] : inbox'[q][i] = inbox[q][j]
      BY <2>1, EventTaken
    <2> QED  BY <2>1, <2>2 DEF Refused
  <1>12. ASSUME NEW p \in Page, HearsPeerLeft(p) PROVE \A r \in Page : Refused(r)'
    <2>1. UNCHANGED joining /\ \A q \in Page : inbox'[q] \in {inbox[q], <<>>}
      BY <1>12 DEF HearsPeerLeft, ClosePage, serverVars, rtcVars, SignalingTypeOK
    <2> QED  BY <2>1 DEF Refused
  <1>13. ASSUME NEW p \in Page, HearsPeer(p) PROVE \A r \in Page : Refused(r)'
    <2>1. inbox[p] # <<>> /\ inbox' = [inbox EXCEPT ![p] = Tail(@)] /\ UNCHANGED joining
      BY <1>13 DEF HearsPeer, Hears, serverVars
    <2>2. \A q \in Page : \A i \in DOMAIN inbox'[q] : \E j \in DOMAIN inbox[q] : inbox'[q][i] = inbox[q][j]
      BY <2>1, EventTaken
    <2> QED  BY <2>1, <2>2 DEF Refused
  <1>14. ASSUME NEW p \in Page, Calls(p) PROVE \A r \in Page : Refused(r)'
    BY <1>14 DEF Calls, Continues, serverVars, Refused, SignalingTypeOK
  <1>15. ASSUME NEW p \in Page, TakesOffer(p) PROVE \A r \in Page : Refused(r)'
    BY <1>15 DEF TakesOffer, Continues, serverVars, Refused, SignalingTypeOK
  <1>16. ASSUME NEW p \in Page, Answers(p) PROVE \A r \in Page : Refused(r)'
    BY <1>16 DEF Answers, Continues, serverVars, Refused, SignalingTypeOK
  <1>17. ASSUME NEW p \in Page, SendsAnswer(p) PROVE \A r \in Page : Refused(r)'
    BY <1>17 DEF SendsAnswer, DrainsQueue, Continues, serverVars, Refused, SignalingTypeOK
  <1>18. ASSUME NEW p \in Page, TakesAnswer(p) PROVE \A r \in Page : Refused(r)'
    BY <1>18 DEF TakesAnswer, DrainsQueue, Continues, serverVars, Refused, SignalingTypeOK
  <1>19. ASSUME NEW p \in Page, TakesCandidate(p) PROVE \A r \in Page : Refused(r)'
    BY <1>19 DEF TakesCandidate, Continues, serverVars, Refused, SignalingTypeOK
  <1>20. ASSUME NEW p \in Page, NEW q \in Page, Connects(p, q) PROVE \A r \in Page : Refused(r)'
    BY <1>20 DEF Connects, serverVars, Refused, SignalingTypeOK
  <1>21. ASSUME NEW p \in Page, Start(p) PROVE \A r \in Page : Refused(r)'
    <2>1. inbox[p] = <<>> /\ UNCHANGED inbox /\ \A q \in Page : q # p => joining'[q] = joining[q]
      BY <1>21 DEF Start, Quiet, SignalingTypeOK
    <2> QED  BY <2>1 DEF Refused
  <1>22. ASSUME NEW p \in Page, StartFails(p) PROVE \A r \in Page : Refused(r)'
    BY <1>22 DEF StartFails, serverVars, rtcVars, Refused, SignalingTypeOK
  <1>23. ASSUME NEW p \in Page, Leaves(p) PROVE \A r \in Page : Refused(r)'
    <2>1. UNCHANGED joining /\ \A q \in Page : inbox'[q] \in {inbox[q], <<>>}
      BY <1>23 DEF Leaves, ClosePage, serverVars, rtcVars, SignalingTypeOK
    <2> QED  BY <2>1 DEF Refused
  <1>24. ASSUME NEW p \in Page, SocketDrops(p) PROVE \A r \in Page : Refused(r)'
    <2>1. UNCHANGED joining /\ \A q \in Page : inbox'[q] \in {inbox[q], <<>>}
      BY <1>24 DEF SocketDrops, serverVars, pageVars, rtcVars, SignalingTypeOK
    <2> QED  BY <2>1 DEF Refused
  <1> QED
    BY <1>0, <1>1, <1>2, <1>3, <1>4, <1>5, <1>6, <1>7, <1>8, <1>9, <1>10, <1>11, <1>12, <1>13,
       <1>14, <1>15, <1>16, <1>17, <1>18, <1>19, <1>20, <1>21, <1>22, <1>23, <1>24
           DEF Next, Works, ServerStep, PageStep, Disturbance

-----------------------------------------------------------------------------
(* The call: how its places change.  What only takes away from a place keeps *)
(* what is said of it.                                                       *)

BoxKept   == (NoBox => NoBox') /\ (OneBox => OneBox') /\ (PlainBox => PlainBox')
TaskKept  == (NoTask => NoTask') /\ (OneTask => OneTask') /\ (PlainTask => PlainTask')
SentKept  == (NoSent => NoSent') /\ (OneSent => OneSent')

LEMMA BoxesKept ==
  ASSUME \A q \in Page : inbox'[q] = inbox[q] \/ inbox'[q] = <<>>
  PROVE  BoxKept
  <1>1. \A q \in Page : \A i \in DOMAIN inbox'[q] : i \in DOMAIN inbox[q] /\ inbox'[q][i] = inbox[q][i]
    OBVIOUS
  <1> QED  BY <1>1 DEF BoxKept, NoBox, OneBox, PlainBox, Counts

LEMMA BoxesTaken ==
  ASSUME SignalingTypeOK, NEW p \in Page, inbox[p] # <<>>, inbox' = [inbox EXCEPT ![p] = Tail(@)]
  PROVE  /\ BoxKept
         /\ OneBox /\ Counts(p, Head(inbox[p])) => NoBox'
  <1>1. /\ \A q \in Page : q # p => inbox'[q] = inbox[q]
        /\ \A i \in DOMAIN inbox'[p] : i + 1 \in DOMAIN inbox[p] /\ inbox'[p][i] = inbox[p][i + 1]
        /\ 1 \in DOMAIN inbox[p] /\ Head(inbox[p]) = inbox[p][1]
        /\ DOMAIN inbox'[p] \subseteq Nat \ {0}
    BY EventTaken
  <1>2. NoBox => NoBox'  BY <1>1 DEF NoBox, Counts
  <1>3. PlainBox => PlainBox'  BY <1>1 DEF PlainBox
  <1>4. ASSUME OneBox PROVE OneBox'
    <2> SUFFICES ASSUME NEW q \in Page, NEW r \in Page, NEW i \in DOMAIN inbox'[q], NEW j \in DOMAIN inbox'[r],
                        Counts(q, inbox'[q][i]), Counts(r, inbox'[r][j])
                 PROVE  q = r /\ i = j
      BY DEF OneBox, Counts
    <2>1. CASE q = p /\ r = p
      <3>1. /\ i \in Nat /\ i + 1 \in DOMAIN inbox[p] /\ Counts(p, inbox[p][i + 1])
            /\ j \in Nat /\ j + 1 \in DOMAIN inbox[p] /\ Counts(p, inbox[p][j + 1])
        BY <1>1, <2>1
      <3>2. i + 1 = j + 1  BY <1>4, <3>1 DEF OneBox
      <3> QED  BY <2>1, <3>1, <3>2
    <2>2. CASE q # p /\ r # p  BY <1>1, <1>4, <2>2 DEF OneBox
    <2>3. CASE q = p /\ r # p  BY <1>1, <1>4, <2>3 DEF OneBox
    <2>4. CASE q # p /\ r = p  BY <1>1, <1>4, <2>4 DEF OneBox
    <2> QED  BY <2>1, <2>2, <2>3, <2>4
  <1>5. ASSUME OneBox, Counts(p, inbox[p][1]) PROVE NoBox'
    <2> SUFFICES ASSUME NEW q \in Page, NEW i \in DOMAIN inbox'[q], Counts(q, inbox'[q][i]) PROVE FALSE
      BY DEF NoBox, Counts
    <2>1. CASE q = p
      <3>1. i + 1 = 1 /\ i \in Nat \ {0}  BY <1>1, <1>5, <2>1 DEF OneBox
      <3> QED  BY <3>1
    <2>2. CASE q # p  BY <1>1, <1>5, <2>2 DEF OneBox
    <2> QED  BY <2>1, <2>2
  <1> QED  BY <1>1, <1>2, <1>3, <1>4, <1>5 DEF BoxKept

\* A page is sent an event of a call.
Rings(q, msg) == Counts(q, msg[q]) /\ inbox'[q] # inbox[q]

\* Events that are not of a call keep the boxes; an event of one that reaches one page,
\* when there was none, is the only one.
LEMMA BoxesSent ==
  ASSUME SignalingTypeOK, NEW msg \in [Page -> Messages], Sent(msg)
  PROVE  /\ (\A q \in Page : ~ Rings(q, msg)) => BoxKept
         /\ NoBox /\ (\A q, r \in Page : Rings(q, msg) /\ Rings(r, msg) => q = r) => OneBox'
         /\ PlainBox /\ (\A q \in Page : msg[q].type \notin {"offer", "answer"}) => PlainBox'
  <1>1. \A q \in Page : \A i \in DOMAIN inbox'[q] :
          \/ i \in DOMAIN inbox[q] /\ inbox'[q][i] = inbox[q][i]
          \/ inbox'[q] # inbox[q] /\ i = Len(inbox[q]) + 1 /\ inbox'[q][i] = msg[q]
    BY EventSent
  <1>2. ASSUME \A q \in Page : ~ Rings(q, msg) PROVE BoxKept
    <2>1. \A q \in Page : \A i \in DOMAIN inbox'[q] :
            \/ i \in DOMAIN inbox[q] /\ inbox'[q][i] = inbox[q][i]
            \/ ~ Counts(q, inbox'[q][i])
      BY <1>1, <1>2 DEF Rings
    <2>2. NoBox => NoBox'  BY <2>1 DEF NoBox, Counts
    <2>3. OneBox => OneBox'  BY <2>1 DEF OneBox, Counts
    <2>4. PlainBox => PlainBox'  BY <2>1 DEF PlainBox, Counts
    <2> QED  BY <2>2, <2>3, <2>4 DEF BoxKept
  <1>3. ASSUME NoBox, \A q, r \in Page : Rings(q, msg) /\ Rings(r, msg) => q = r
        PROVE  OneBox'
    <2>1. \A q \in Page : \A i \in DOMAIN inbox'[q] : Counts(q, inbox'[q][i]) =>
            Rings(q, msg) /\ i = Len(inbox[q]) + 1
      BY <1>1, <1>3 DEF NoBox, Rings
    <2> QED  BY <1>3, <2>1 DEF OneBox, Counts
  <1>4. ASSUME PlainBox, \A q \in Page : msg[q].type \notin {"offer", "answer"} PROVE PlainBox'
    BY <1>1, <1>4 DEF PlainBox
  <1> QED  BY <1>2, <1>3, <1>4

LEMMA TasksKept ==
  ASSUME \A q \in Page : \A u \in tasks'[q] : u \in tasks[q] \/ u.step = "candidate"
  PROVE  TaskKept
  BY DEF TaskKept, NoTask, OneTask, PlainTask

LEMMA RelaysKept ==
  ASSUME \A m \in relays' : m \in relays \/ m.type = "candidate"
  PROVE  SentKept
  BY DEF SentKept, NoSent, OneSent

\* The last task of a call is over.
LEMMA TaskOver ==
  ASSUME SignalingTypeOK, OneTask, NEW p \in Page, NEW t \in tasks[p], t.step # "candidate", Continues(p, t, {})
  PROVE  NoTask'
  <1>1. \A q \in Page : \A u \in tasks'[q] : u \in tasks[q] /\ (q = p => u # t)  BY TaskEnds
  <1> QED  BY <1>1 DEF OneTask, NoTask

\* It goes on as another one.
LEMMA TaskMoves ==
  ASSUME SignalingTypeOK, OneTask, NEW p \in Page, NEW t \in tasks[p], t.step # "candidate",
         NEW n, Continues(p, t, {n})
  PROVE  /\ OneTask'
         /\ \A q \in Page : \A u \in tasks'[q] : u.step = "candidate" \/ (q = p /\ u = n)
  <1>1. \A q \in Page : \A u \in tasks'[q] : (u \in tasks[q] /\ (q = p => u # t)) \/ (q = p /\ u = n)
    BY TaskGoesOn
  <1>2. \A q \in Page : \A u \in tasks[q] : u.step = "candidate" \/ (q = p /\ u = t)  BY DEF OneTask
  <1>3. \A q \in Page : \A u \in tasks'[q] : u.step = "candidate" \/ (q = p /\ u = n)  BY <1>1, <1>2
  <1> QED  BY <1>3 DEF OneTask

\* The first task of a call
LEMMA TaskStarts ==
  ASSUME SignalingTypeOK, NoTask, NEW p \in Page, HearsPeer(p) \/ HearsPeerJoined(p)
  PROVE  /\ OneTask'
         /\ \A q \in Page : \A u \in tasks'[q] :
              \/ u.step \in {"candidate", "calling"}
              \/ u.step \in {"offer", "answer"} /\ u.step = Head(inbox[p]).type
  <1>1. CASE HearsPeer(p)
    <2> DEFINE m == Head(inbox[p])
    <2>1. tasks' = tasks \/ tasks' = [tasks EXCEPT ![p] = @ \cup {Task(m.type, m.from, m.n)}]
      BY <1>1 DEF HearsPeer
    <2>2. Task(m.type, m.from, m.n).step = m.type  BY DEF Task
    <2>3. m.type \in {"offer", "answer", "candidate"}  BY <1>1 DEF HearsPeer, Hears
    <2>4. \A q \in Page : \A u \in tasks'[q] :
            u.step = "candidate" \/ (q = p /\ u = Task(m.type, m.from, m.n))
      BY <2>1 DEF NoTask, SignalingTypeOK
    <2> QED  BY <2>2, <2>3, <2>4 DEF OneTask
  <1>2. CASE HearsPeerJoined(p)
    <2>1. tasks' = tasks \/ tasks' = [tasks EXCEPT ![p] = @ \cup {Task("calling", p, calls[p] + 1)}]
      BY <1>2 DEF HearsPeerJoined
    <2>2. Task("calling", p, calls[p] + 1).step = "calling"  BY DEF Task
    <2>3. \A q \in Page : \A u \in tasks'[q] :
            u.step = "candidate" \/ (q = p /\ u = Task("calling", p, calls[p] + 1))
      BY <2>1 DEF NoTask, SignalingTypeOK
    <2> QED  BY <2>2, <2>3 DEF OneTask
  <1> QED  BY <1>1, <1>2

\* A message of a call that is sent is the only one.
LEMMA RelayStarts ==
  ASSUME NoSent, NEW o, \A m \in relays' : m \in relays \/ m.type = "candidate" \/ m = o
  PROVE  OneSent'
  BY DEF NoSent, OneSent

\* Who was opened stays so, and who joined has joined.
Lasts ==
  \A q \in Page :
    (state[q] # "IDLE" => state'[q] # "IDLE") /\ (joining[q] = "done" => joining'[q] = "done")

LEMMA Lasting ==
  ASSUME SignalingTypeOK, Quiet, [Next]_vars
  PROVE  Lasts
  <1>0. CASE UNCHANGED vars
    BY <1>0 DEF vars, serverVars, pageVars, rtcVars, SignalingTypeOK, Quiet, Lasts
  <1>1. ASSUME NEW p \in Page, AdmitJoin(p) PROVE Lasts
    BY <1>1 DEF AdmitJoin, pageVars, rtcVars, SignalingTypeOK, Quiet, Lasts
  <1>2. ASSUME NEW p \in Page, AnnounceJoin(p) PROVE Lasts
    BY <1>2 DEF AnnounceJoin, pageVars, rtcVars, SignalingTypeOK, Quiet, Lasts
  <1>3. ASSUME NEW p \in Page, JoinFails(p) PROVE Lasts
    BY <1>3 DEF JoinFails, pageVars, rtcVars, SignalingTypeOK, Quiet, Lasts
  <1>4. ASSUME NEW m \in relays, Relay(m) PROVE Lasts
    BY <1>4 DEF Relay, serverVars, pageVars, rtcVars, SignalingTypeOK, Quiet, Lasts
  <1>5. ASSUME NEW m \in relays, RelayFails(m) PROVE Lasts
    BY <1>5 DEF RelayFails, serverVars, SignalingTypeOK, Quiet, Lasts
  <1>6. ASSUME NEW p \in Page, ServerNotices(p) PROVE Lasts
    BY <1>6 DEF ServerNotices, pageVars, rtcVars, SignalingTypeOK, Quiet, Lasts
  <1>7. ASSUME NEW p \in Page, AnnounceLeave(p) PROVE Lasts
    BY <1>7 DEF AnnounceLeave, pageVars, rtcVars, SignalingTypeOK, Quiet, Lasts
  <1>8. ASSUME NEW p \in Page, LeaveFails(p) PROVE Lasts
    BY <1>8 DEF LeaveFails, pageVars, rtcVars, SignalingTypeOK, Quiet, Lasts
  <1>9. ASSUME NEW p \in Page, NoticesClose(p) PROVE Lasts
    BY <1>9 DEF NoticesClose, ClosePage, serverVars, rtcVars, SignalingTypeOK, Quiet, Lasts
  <1>10. ASSUME NEW p \in Page, HearsJoined(p) PROVE Lasts
    BY <1>10 DEF HearsJoined, Hears, serverVars, rtcVars, SignalingTypeOK, Quiet, Lasts
  <1>11. ASSUME NEW p \in Page, HearsPeerJoined(p) PROVE Lasts
    BY <1>11 DEF HearsPeerJoined, serverVars, SignalingTypeOK, Quiet, Lasts
  <1>12. ASSUME NEW p \in Page, HearsPeerLeft(p) PROVE Lasts
    BY <1>12 DEF HearsPeerLeft, ClosePage, serverVars, rtcVars, SignalingTypeOK, Quiet, Lasts
  <1>13. ASSUME NEW p \in Page, HearsPeer(p) PROVE Lasts
    BY <1>13 DEF HearsPeer, Hears, serverVars, rtcVars, SignalingTypeOK, Quiet, Lasts
  <1>14. ASSUME NEW p \in Page, Calls(p) PROVE Lasts
    BY <1>14 DEF Calls, Continues, serverVars, SignalingTypeOK, Quiet, Lasts
  <1>15. ASSUME NEW p \in Page, TakesOffer(p) PROVE Lasts
    BY <1>15 DEF TakesOffer, Continues, serverVars, SignalingTypeOK, Quiet, Lasts
  <1>16. ASSUME NEW p \in Page, Answers(p) PROVE Lasts
    BY <1>16 DEF Answers, Continues, serverVars, SignalingTypeOK, Quiet, Lasts
  <1>17. ASSUME NEW p \in Page, SendsAnswer(p) PROVE Lasts
    BY <1>17 DEF SendsAnswer, DrainsQueue, Continues, serverVars, SignalingTypeOK, Quiet, Lasts
  <1>18. ASSUME NEW p \in Page, TakesAnswer(p) PROVE Lasts
    BY <1>18 DEF TakesAnswer, DrainsQueue, Continues, serverVars, SignalingTypeOK, Quiet, Lasts
  <1>19. ASSUME NEW p \in Page, TakesCandidate(p) PROVE Lasts
    BY <1>19 DEF TakesCandidate, Continues, serverVars, SignalingTypeOK, Quiet, Lasts
  <1>20. ASSUME NEW p \in Page, NEW q \in Page, Connects(p, q) PROVE Lasts
    BY <1>20 DEF Connects, serverVars, SignalingTypeOK, Quiet, Lasts
  <1>21. ASSUME NEW p \in Page, Start(p) PROVE Lasts
    BY <1>21 DEF Start, rtcVars, SignalingTypeOK, Quiet, Lasts
  <1>22. ASSUME NEW p \in Page, StartFails(p) PROVE Lasts
    BY <1>22 DEF StartFails, serverVars, rtcVars, SignalingTypeOK, Quiet, Lasts
  <1>23. ASSUME NEW p \in Page, Leaves(p) PROVE Lasts
    BY <1>23 DEF Leaves, ClosePage, serverVars, rtcVars, SignalingTypeOK, Quiet, Lasts
  <1>24. ASSUME NEW p \in Page, SocketDrops(p) PROVE Lasts
    BY <1>24 DEF SocketDrops, serverVars, pageVars, rtcVars, SignalingTypeOK, Quiet, Lasts
  <1> QED
    BY <1>0, <1>1, <1>2, <1>3, <1>4, <1>5, <1>6, <1>7, <1>8, <1>9, <1>10, <1>11, <1>12, <1>13,
       <1>14, <1>15, <1>16, <1>17, <1>18, <1>19, <1>20, <1>21, <1>22, <1>23, <1>24
           DEF Next, Works, ServerStep, PageStep, Disturbance

-----------------------------------------------------------------------------
(* One call at a time *)

\* A step that brings no event, handler or message of a call, and leaves the
\* descriptions alone, keeps what is said of it.
Aside ==
  /\ BoxKept /\ TaskKept /\ SentKept
  /\ \A q \in Page : \A u \in tasks'[q] : u.step = "answering" => u \in tasks[q]
  /\ UNCHANGED signal

LEMMA CallKept ==
  ASSUME SignalingTypeOK, Lasts, Aside, Silent \/ Ringing \/ Handling \/ Relaying
  PROVE  (Silent \/ Ringing \/ Handling \/ Relaying)'
  <1>1. Announced => Announced'  BY DEF Lasts, Announced
  <1>2. Offered' = Offered  BY DEF Aside, Offered
  <1>3. Answerable => Answerable'  BY DEF Aside, Answerable
  <1> QED  BY <1>1, <1>2, <1>3
           DEF Aside, BoxKept, TaskKept, SentKept, Silent, Ringing, Handling, Relaying

\* With one tab each, who is open and of the same user is the same page.
LEMMA OneTab ==
  ASSUME OneTabEach, NEW p \in Page, NEW q \in Page, User[p] = User[q], state[p] # "IDLE", state[q] # "IDLE"
  PROVE  p = q
  BY DEF OneTabEach

LEMMA TabsBefore ==
  ASSUME Lasts, OneTabEach' PROVE OneTabEach
  BY DEF Lasts, OneTabEach

\* Whoever has an offer out is open, and a sender.
LEMMA WhoOffers ==
  ASSUME SignalingTypeOK, Quiet, Offered
  PROVE  \E s \in Outgoing : /\ signal[s] = "have-local-offer" /\ s \in Page
                             /\ state[s] # "IDLE" /\ User[s] = "sender"
  BY PagesAssumption DEF Quiet, Offered

CallInv == SignalingTypeOK /\ Quiet /\ RolesOfTasks /\ RolesOfMessages /\ Lasts

\* A receiver who joins rings at the sender's page, if that is there; nothing else does.
LEMMA JoinCalls ==
  ASSUME CallInv, OneTabEach, Silent \/ Ringing \/ Handling \/ Relaying,
         NEW p \in Page, AnnounceJoin(p)
  PROVE  (Silent \/ Ringing \/ Handling \/ Relaying)'
  <1> USE DEF CallInv
  <1>1. PICK msg \in [Page -> Messages] :
           /\ Sent(msg)
           /\ \A q \in Page : msg[q].type = IF q = p THEN "joined" ELSE "peer-joined"
           /\ \A q \in Page : q = p \/ q \in room \/ inbox'[q] = inbox[q]
    BY JoinSends
  <1>2. joining[p] = "updating" /\ state[p] # "IDLE" /\ joining'[p] = "done"
        /\ UNCHANGED <<signal, tasks, relays>>
    BY DEF AnnounceJoin, Quiet, SignalingTypeOK, pageVars, rtcVars
  <1>3. \A q \in Page : Counts(q, msg[q]) => q # p /\ q \in Outgoing /\ User[q] = "sender"
    BY <1>1, PagesAssumption DEF Counts
  <1>4. \A q \in room : q \in Page /\ state[q] # "IDLE"  BY DEF Quiet, SignalingTypeOK
  <1>5. User[p] \in {"sender", "receiver"}  BY PagesAssumption
  <1>6. CASE User[p] = "sender"
    <2>1. \A q \in Page : ~ Rings(q, msg)
      BY <1>1, <1>2, <1>3, <1>4, <1>6, OneTab DEF Rings
    <2>2. BoxKept  BY <1>1, <2>1, BoxesSent
    <2>3. Aside  BY <1>2, <2>2, TasksKept, RelaysKept DEF Aside
    <2> QED  BY <2>3, CallKept
  <1>7. CASE User[p] = "receiver"
    <2>1. ~ Announced
      <3> SUFFICES ASSUME NEW r \in Page, User[r] = "receiver", joining[r] = "done" PROVE FALSE
        BY DEF Announced
      <3>1. state[r] # "IDLE"  BY DEF Quiet
      <3> QED  BY <1>2, <1>7, <3>1, OneTab
    <2>2. NoBox /\ NoTask /\ NoSent /\ PlainBox
      BY <2>1 DEF Silent, Ringing, Handling, Relaying, NoBox, PlainBox, Counts
    <2>3. \A q, r \in Page : Rings(q, msg) /\ Rings(r, msg) => q = r
      BY <1>1, <1>3, <1>4, OneTab DEF Rings
    <2>4. OneBox'  BY <1>1, <2>2, <2>3, BoxesSent
    <2>5. PlainBox'  BY <1>1, <2>2, BoxesSent
    <2>6. NoTask' /\ NoSent'  BY <1>2, <2>2 DEF NoTask, NoSent
    <2>7. Announced'  BY <1>2, <1>7 DEF Announced
    <2> QED  BY <2>4, <2>5, <2>6, <2>7 DEF Ringing
  <1> QED  BY <1>5, <1>6, <1>7

\* A message of the call reaches the other of the two pages that are open.
LEMMA RelayCalls ==
  ASSUME CallInv, OneTabEach, Silent \/ Ringing \/ Handling \/ Relaying,
         NEW m \in relays, Relay(m)
  PROVE  (Silent \/ Ringing \/ Handling \/ Relaying)'
  <1> USE DEF CallInv
  <1>1. m \in Messages /\ m.from \in Page /\ inbox' = Broadcast(m.from, m)
    BY DEF SignalingTypeOK, Messages, Relay
  <1>2. PICK msg \in [Page -> Messages] :
           /\ Sent(msg)
           /\ \A q \in Page : msg[q] = m /\ (q \in room \ {m.from} \/ inbox'[q] = inbox[q])
    BY <1>1, BroadcastSends
  <1>3. relays' = relays \ {m} /\ UNCHANGED <<signal, tasks, joining>>
    BY DEF Relay, serverVars, pageVars, rtcVars
  <1>4. CASE m.type = "candidate"
    <2>1. \A q \in Page : ~ Rings(q, msg)  BY <1>2, <1>4 DEF Counts, Rings
    <2>2. BoxKept  BY <1>2, <2>1, BoxesSent
    <2>3. Aside  BY <1>3, <2>2, TasksKept, RelaysKept DEF Aside
    <2> QED  BY <2>3, CallKept
  <1>5. CASE m.type # "candidate"
    <2>1. Relaying  BY <1>5 DEF Silent, Ringing, Handling, NoSent
    <2>2. NoTask' /\ NoSent' /\ Announced' /\ Offered'
      BY <1>3, <1>5, <2>1 DEF Relaying, NoTask, NoSent, OneSent, Announced, Offered
    <2>3. PICK s \in Outgoing : s \in Page /\ state[s] # "IDLE" /\ User[s] = "sender"
      BY <2>1, WhoOffers DEF Relaying
    <2>4. \A q \in room : q \in Page /\ state[q] # "IDLE" /\ User[q] \in {"sender", "receiver"}
      BY PagesAssumption DEF Quiet, SignalingTypeOK
    <2>5. m.type \in {"offer", "answer"} /\ state[m.from] # "IDLE"
          /\ (m.type = "offer" => m.from \in Outgoing) /\ (m.type = "answer" => m.from \notin Outgoing)
      BY <1>5 DEF RolesOfMessages
    <2>6. \A q \in room \ {m.from} : m.type = "offer" => User[q] = "receiver"
      BY <1>1, <2>4, <2>5, OneTab, PagesAssumption
    <2>7. \A q \in room \ {m.from} : m.type = "answer" => q = s
      <3>1. m.type = "answer" => User[m.from] = "receiver"
        BY <1>1, <2>3, <2>5, OneTab, PagesAssumption
      <3> QED  BY <1>1, <2>3, <2>4, <2>5, <3>1, OneTab
    <2>8. \A q, r \in room \ {m.from} : q = r  BY <2>4, <2>5, <2>6, <2>7, OneTab
    <2>9. OneBox'
      <3>1. \A q, r \in Page : Rings(q, msg) /\ Rings(r, msg) => q = r  BY <1>2, <2>8 DEF Rings
      <3> QED  BY <1>2, <2>1, <3>1, BoxesSent DEF Relaying
    <2> QED  BY <2>2, <2>9 DEF Ringing
  <1> QED  BY <1>4, <1>5

\* A page that hears of the call has it from then on, or lets it go.
LEMMA HearingCalls ==
  ASSUME CallInv, Silent \/ Ringing \/ Handling \/ Relaying,
         NEW p \in Page, HearsPeer(p) \/ HearsPeerJoined(p)
  PROVE  (Silent \/ Ringing \/ Handling \/ Relaying)'
  <1> USE DEF CallInv
  <1>1. inbox[p] # <<>> /\ inbox' = [inbox EXCEPT ![p] = Tail(@)] /\ UNCHANGED <<signal, relays, joining>>
    BY DEF HearsPeer, HearsPeerJoined, Hears, serverVars, rtcVars
  <1>2. BoxKept /\ (OneBox /\ Counts(p, Head(inbox[p])) => NoBox')  BY <1>1, BoxesTaken
  <1>3. SentKept  BY <1>1, RelaysKept
  <1>4. CASE Counts(p, Head(inbox[p]))
    <2>1. ~ NoBox  BY <1>1, <1>4, EventTaken DEF NoBox
    <2>2. Ringing  BY <2>1 DEF Silent, Handling, Relaying
    <2>3. NoBox' /\ NoSent' /\ Announced'
      BY <1>1, <1>2, <1>3, <1>4, <2>2 DEF Ringing, SentKept, Announced
    <2>4. /\ OneTask'
          /\ \A q \in Page : \A u \in tasks'[q] :
               \/ u.step \in {"candidate", "calling"}
               \/ u.step \in {"offer", "answer"} /\ u.step = Head(inbox[p]).type
      BY <2>2, TaskStarts DEF Ringing
    <2>5. Answerable'  BY <2>4 DEF Answerable
    <2>6. Offered' \/ PlainTask'
      <3>1. Head(inbox[p]).type \in {"offer", "answer"} => ~ PlainBox
        BY <1>1, EventTaken DEF PlainBox
      <3>2. Head(inbox[p]).type \in {"offer", "answer"} => Offered'
        BY <1>1, <2>2, <3>1 DEF Ringing, Offered
      <3>3. Head(inbox[p]).type \notin {"offer", "answer"} => PlainTask'  BY <2>4 DEF PlainTask
      <3> QED  BY <3>2, <3>3
    <2> QED  BY <2>3, <2>4, <2>5, <2>6 DEF Handling
  <1>5. CASE ~ Counts(p, Head(inbox[p]))
    <2>1. \A q \in Page : \A u \in tasks'[q] : u \in tasks[q] \/ u.step = "candidate"
      BY <1>5, TaskBegins DEF Counts, HearsPeer
    <2>2. Aside  BY <1>1, <1>2, <1>3, <2>1, TasksKept DEF Aside
    <2> QED  BY <2>2, CallKept
  <1> QED  BY <1>4, <1>5

\* Each handler hands the call on; WebRTC takes each description.
LEMMA HandlersCall ==
  ASSUME CallInv, OneTabEach, Silent \/ Ringing \/ Handling \/ Relaying, NEW p \in Page,
         Calls(p) \/ TakesOffer(p) \/ Answers(p) \/ SendsAnswer(p) \/ TakesAnswer(p)
  PROVE  /\ (Silent \/ Ringing \/ Handling \/ Relaying)'
         /\ UNCHANGED <<state, conn, joining>>
  <1> USE DEF CallInv
  <1>1. UNCHANGED <<inbox, conn, joining>>
    BY DEF Calls, TakesOffer, Answers, SendsAnswer, TakesAnswer, serverVars
  <1>2. BoxKept  BY <1>1, BoxesKept
  <1>3. tasks[p] \subseteq Tasks /\ signal \in [Page -> {"new", "have-local-offer", "have-remote-offer", "stable"}]
    BY DEF SignalingTypeOK
  <1>4. ASSUME NEW t \in tasks[p], t.step # "candidate" PROVE Handling
    BY <1>4 DEF Silent, Ringing, Relaying, NoTask
  <1>5. CASE Calls(p)
    <2>1. PICK t \in tasks[p] :
             /\ t.step = "calling" /\ Continues(p, t, {})
             /\ signal' = [signal EXCEPT ![p] = "have-local-offer"]
             /\ relays' = relays \cup Sends(p, "offer", t.n) \cup Gathered(p)
             /\ UNCHANGED state
      BY <1>5 DEF Calls
    <2>2. Handling /\ p \in Outgoing  BY <1>4, <2>1 DEF RolesOfTasks
    <2>3. NoTask'  BY <2>1, <2>2, TaskOver DEF Handling
    <2>4. \A m \in relays' : m \in relays \/ m.type = "candidate" \/ m = Message("offer", p, t.n)
      BY <2>1 DEF Sends, Gathered, Message
    <2>5. OneSent'  BY <2>2, <2>4, RelayStarts DEF Handling
    <2>6. Offered'  BY <1>3, <2>1, <2>2 DEF Offered
    <2> QED  BY <1>1, <1>2, <2>1, <2>2, <2>3, <2>5, <2>6 DEF Handling, Relaying, BoxKept, Announced
  <1>6. CASE TakesOffer(p)
    <2>1. PICK t \in tasks[p] :
             /\ t.step = "offer" /\ Continues(p, t, {[t EXCEPT !.step = "answering"]})
             /\ signal' = [signal EXCEPT ![p] = "have-remote-offer"]
             /\ UNCHANGED <<state, relays>>
      BY <1>6 DEF TakesOffer
    <2>2. Handling /\ p \notin Outgoing  BY <1>4, <2>1 DEF RolesOfTasks
    <2> DEFINE next == [t EXCEPT !.step = "answering"]
    <2>3. next.step = "answering" /\ Continues(p, t, {next})  BY <1>3, <2>1 DEF Tasks
    <2> HIDE DEF next
    <2>4. /\ OneTask'
          /\ \A q \in Page : \A u \in tasks'[q] : u.step = "candidate" \/ (q = p /\ u = next)
      BY <2>1, <2>2, <2>3, TaskMoves DEF Handling
    <2>5. Answerable'  BY <1>3, <2>1, <2>3, <2>4 DEF Answerable
    <2>6. Offered'
      <3>1. Offered  BY <2>1, <2>2 DEF Handling, PlainTask
      <3> QED  BY <1>3, <2>1, <2>2, <3>1, PagesAssumption DEF Offered
    <2>7. NoSent'  BY <2>1, <2>2 DEF Handling, NoSent
    <2> QED  BY <1>1, <1>2, <2>1, <2>2, <2>4, <2>5, <2>6, <2>7 DEF Handling, BoxKept, Announced
  <1>7. CASE Answers(p)
    <2>1. PICK t \in tasks[p] :
             /\ t.step = "answering"
             /\ \/ /\ signal' = [signal EXCEPT ![p] = "stable"]
                   /\ relays' = relays \cup Gathered(p)
                   /\ Continues(p, t, {[t EXCEPT !.step = "answers"]})
                   /\ UNCHANGED state
                \/ signal[p] # "have-remote-offer"
      BY <1>7 DEF Answers
    <2>2. Handling /\ p \notin Outgoing  BY <1>4, <2>1 DEF RolesOfTasks
    <2>3. signal[p] = "have-remote-offer"  BY <2>1, <2>2 DEF Handling, Answerable
    <2> DEFINE next == [t EXCEPT !.step = "answers"]
    <2>4. next.step = "answers" /\ Continues(p, t, {next})  BY <1>3, <2>1, <2>3 DEF Tasks
    <2> HIDE DEF next
    <2>5. /\ OneTask'
          /\ \A q \in Page : \A u \in tasks'[q] : u.step = "candidate" \/ (q = p /\ u = next)
      BY <2>1, <2>2, <2>4, TaskMoves DEF Handling
    <2>6. Answerable'  BY <2>4, <2>5 DEF Answerable
    <2>7. Offered'
      <3>1. Offered  BY <2>1, <2>2 DEF Handling, PlainTask
      <3> QED  BY <1>3, <2>1, <2>2, <2>3, <3>1, PagesAssumption DEF Offered
    <2>8. NoSent'
      <3>1. \A m \in relays' : m \in relays \/ m.type = "candidate"
        BY <2>1, <2>3 DEF Sends, Gathered, Message
      <3> QED  BY <2>2, <3>1 DEF Handling, NoSent
    <2> QED
      BY <1>1, <1>2, <2>1, <2>2, <2>3, <2>5, <2>6, <2>7, <2>8 DEF Handling, BoxKept, Announced
  <1>8. CASE SendsAnswer(p)
    <2>1. PICK t \in tasks[p] :
             /\ t.step = "answers" /\ Continues(p, t, {})
             /\ relays' = relays \cup Sends(p, "answer", t.n)
             /\ UNCHANGED <<state, signal>>
      BY <1>8 DEF SendsAnswer
    <2>2. Handling  BY <1>4, <2>1
    <2>3. NoTask'  BY <2>1, <2>2, TaskOver DEF Handling
    <2>4. \A m \in relays' : m \in relays \/ m.type = "candidate" \/ m = Message("answer", p, t.n)
      BY <2>1 DEF Sends
    <2>5. OneSent'  BY <2>2, <2>4, RelayStarts DEF Handling
    <2>6. Offered'  BY <2>1, <2>2 DEF Handling, PlainTask, Offered
    <2> QED  BY <1>1, <1>2, <2>1, <2>2, <2>3, <2>5, <2>6 DEF Handling, Relaying, BoxKept, Announced
  <1>9. CASE TakesAnswer(p)
    <2>1. PICK t \in tasks[p] :
             /\ t.step = "answer" /\ Continues(p, t, {})
             /\ UNCHANGED state \/ signal[p] # "have-local-offer"
             /\ UNCHANGED relays
      BY <1>9 DEF TakesAnswer
    <2>2. Handling /\ p \in Outgoing  BY <1>4, <2>1 DEF RolesOfTasks
    <2>3. NoTask'  BY <2>1, <2>2, TaskOver DEF Handling
    <2>4. NoBox' /\ NoSent'  BY <1>2, <2>1, <2>2 DEF Handling, BoxKept, NoSent
    <2>5. signal[p] = "have-local-offer"
      <3>1. Offered  BY <2>1, <2>2 DEF Handling, PlainTask
      <3>2. PICK s \in Outgoing : /\ signal[s] = "have-local-offer" /\ s \in Page
                                 /\ state[s] # "IDLE" /\ User[s] = "sender"
        BY <3>1, WhoOffers
      <3>3. state[p] # "IDLE" /\ User[p] = "sender"
        BY <2>1, <2>2, PagesAssumption DEF Quiet, Live
      <3> QED  BY <3>2, <3>3, OneTab
    <2> QED  BY <1>1, <2>1, <2>3, <2>4, <2>5 DEF Silent
  <1> QED  BY <1>5, <1>6, <1>7, <1>8, <1>9

\* One call stays one, whatever is done.
LEMMA NextCall ==
  ASSUME SignalingTypeOK, Quiet, RolesOfTasks, RolesOfMessages, OneCall, [Next]_vars
  PROVE  OneCall'
  <1>1. Lasts  BY Lasting
  <1> SUFFICES ASSUME OneTabEach', OneTabEach, Silent \/ Ringing \/ Handling \/ Relaying
               PROVE  (Silent \/ Ringing \/ Handling \/ Relaying)'
    BY <1>1, TabsBefore DEF OneCall
  <1>2. CallInv  BY <1>1 DEF CallInv
  <1>3. Aside => (Silent \/ Ringing \/ Handling \/ Relaying)'  BY <1>1, CallKept
  <1>4. CASE UNCHANGED <<signal, tasks, relays, inbox>>
    BY <1>3, <1>4, BoxesKept, TasksKept, RelaysKept DEF Aside
  <1>5. ASSUME NEW p \in Page, JoinFails(p) PROVE Aside
    <2>1. PICK msg \in [Page -> Messages] : Sent(msg) /\ \A q \in Page : msg[q].type = "join-failed"
      BY <1>5, RefusalSends
    <2>2. \A q \in Page : ~ Rings(q, msg)  BY <2>1 DEF Rings, Counts
    <2>3. BoxKept  BY <2>1, <2>2, BoxesSent
    <2>4. UNCHANGED <<signal, tasks, relays>>  BY <1>5 DEF JoinFails, pageVars, rtcVars
    <2> QED  BY <2>3, <2>4, TasksKept, RelaysKept DEF Aside
  <1>6. ASSUME NEW p \in Page, AnnounceLeave(p) PROVE Aside
    <2>1. PICK msg \in [Page -> Messages] : Sent(msg) /\ \A q \in Page : msg[q].type = "peer-left"
      BY <1>6, LeaveSends
    <2>2. \A q \in Page : ~ Rings(q, msg)  BY <2>1 DEF Rings, Counts
    <2>3. BoxKept  BY <2>1, <2>2, BoxesSent
    <2>4. UNCHANGED <<signal, tasks, relays>>  BY <1>6 DEF AnnounceLeave, pageVars, rtcVars
    <2> QED  BY <2>3, <2>4, TasksKept, RelaysKept DEF Aside
  <1>7. ASSUME NEW m \in relays, RelayFails(m) PROVE Aside
    <2>1. relays' \subseteq relays /\ UNCHANGED <<signal, tasks, inbox>>  BY <1>7 DEF RelayFails
    <2> QED  BY <2>1, BoxesKept, TasksKept, RelaysKept DEF Aside
  <1>8. ASSUME NEW p \in Page, ClosePage(p) PROVE Aside
    <2>1. /\ UNCHANGED <<signal, relays>>
          /\ \A q \in Page : tasks'[q] \in {tasks[q], {}} /\ inbox'[q] \in {inbox[q], <<>>}
      BY <1>8 DEF ClosePage, rtcVars, SignalingTypeOK
    <2> QED  BY <2>1, BoxesKept, TasksKept, RelaysKept DEF Aside
  <1>9. ASSUME NEW p \in Page, SocketDrops(p) PROVE Aside
    <2>1. /\ UNCHANGED <<signal, tasks, relays>>
          /\ \A q \in Page : inbox'[q] \in {inbox[q], <<>>}
      BY <1>9 DEF SocketDrops, pageVars, rtcVars, SignalingTypeOK
    <2> QED  BY <2>1, BoxesKept, TasksKept, RelaysKept DEF Aside
  <1>10. ASSUME NEW p \in Page, HearsJoined(p) PROVE Aside
    <2>1. /\ inbox[p] # <<>> /\ inbox' = [inbox EXCEPT ![p] = Tail(@)]
          /\ UNCHANGED <<signal, tasks, relays>>
      BY <1>10 DEF HearsJoined, Hears, rtcVars
    <2> QED  BY <2>1, BoxesTaken, TasksKept, RelaysKept DEF Aside
  <1>11. ASSUME NEW p \in Page, TakesCandidate(p) PROVE Aside
    <2>1. PICK t \in tasks[p] : Continues(p, t, {})  BY <1>11 DEF TakesCandidate
    <2>2. \A q \in Page : \A u \in tasks'[q] : u \in tasks[q]  BY <2>1, TaskEnds
    <2>3. UNCHANGED <<signal, relays, inbox>>  BY <1>11 DEF TakesCandidate
    <2> QED  BY <2>2, <2>3, BoxesKept, TasksKept, RelaysKept DEF Aside
  <1>12. ASSUME ServerStep PROVE (Silent \/ Ringing \/ Handling \/ Relaying)'
    <2>1. ASSUME NEW p \in Page, AdmitJoin(p) \/ ServerNotices(p) \/ LeaveFails(p)
          PROVE  UNCHANGED <<signal, tasks, relays, inbox>>
      BY <2>1 DEF AdmitJoin, ServerNotices, LeaveFails, pageVars, rtcVars
    <2> QED
      BY <1>2, <1>3, <1>4, <1>5, <1>6, <1>7, <1>12, <2>1, JoinCalls, RelayCalls DEF ServerStep
  <1>13. ASSUME NEW p \in Page, PageStep(p) PROVE (Silent \/ Ringing \/ Handling \/ Relaying)'
    <2>1. NoticesClose(p) \/ HearsPeerLeft(p) => ClosePage(p)  BY DEF NoticesClose, HearsPeerLeft
    <2> QED  BY <1>2, <1>3, <1>8, <1>10, <1>11, <1>13, <2>1, HearingCalls, HandlersCall DEF PageStep
  <1>14. ASSUME NEW p \in Page, NEW q \in Page, Connects(p, q) PROVE UNCHANGED <<signal, tasks, relays, inbox>>
    BY <1>14 DEF Connects
  <1>15. ASSUME Disturbance PROVE (Silent \/ Ringing \/ Handling \/ Relaying)'
    <2>1. ASSUME NEW p \in Page, Start(p) \/ StartFails(p) PROVE UNCHANGED <<signal, tasks, relays, inbox>>
      BY <2>1 DEF Start, StartFails, rtcVars
    <2>2. ASSUME NEW p \in Page, Leaves(p) PROVE Aside  BY <1>8, <2>2 DEF Leaves
    <2> QED  BY <1>3, <1>4, <1>9, <1>15, <2>1, <2>2 DEF Disturbance
  <1>16. CASE UNCHANGED vars  BY <1>4, <1>16 DEF vars, pageVars, rtcVars
  <1> QED  BY <1>4, <1>12, <1>13, <1>14, <1>15, <1>16 DEF Next, Works

-----------------------------------------------------------------------------
(* The theorems *)

\* How a page comes to be failed, and what excuses it from then on.
Excusing ==
  \A q \in Page :
    /\ joining[q] \in {"refused", "broken"} => joining'[q] \in {"refused", "broken"}
    /\ state[q] = "FAILED" /\ conn[q] = "none" => conn'[q] = "none"
    /\ state'[q] = "FAILED" /\ state[q] # "FAILED" =>
         \/ HearsJoined(q) /\ Head(inbox[q]).type = "join-failed"
         \/ StartFails(q) \/ Answers(q) \/ TakesAnswer(q)

\* A page fails when its join does, or its connection, or in a handler of the call.
LEMMA NextExcuses ==
  ASSUME SignalingTypeOK, Quiet, [Next]_vars
  PROVE  Excusing
  <1>0. CASE UNCHANGED vars
    BY <1>0 DEF vars, serverVars, pageVars, rtcVars, Excusing, Quiet, SignalingTypeOK
  <1>1. ASSUME NEW p \in Page, AdmitJoin(p) PROVE Excusing
    BY <1>1 DEF AdmitJoin, pageVars, rtcVars, Excusing, Quiet, SignalingTypeOK
  <1>2. ASSUME NEW p \in Page, AnnounceJoin(p) PROVE Excusing
    BY <1>2 DEF AnnounceJoin, pageVars, rtcVars, Excusing, Quiet, SignalingTypeOK
  <1>3. ASSUME NEW p \in Page, JoinFails(p) PROVE Excusing
    BY <1>3 DEF JoinFails, pageVars, rtcVars, Excusing, Quiet, SignalingTypeOK
  <1>4. ASSUME NEW m \in relays, Relay(m) PROVE Excusing
    BY <1>4 DEF Relay, serverVars, pageVars, rtcVars, Excusing, Quiet, SignalingTypeOK
  <1>5. ASSUME NEW m \in relays, RelayFails(m) PROVE Excusing
    BY <1>5 DEF RelayFails, serverVars, Excusing, Quiet, SignalingTypeOK
  <1>6. ASSUME NEW p \in Page, ServerNotices(p) PROVE Excusing
    BY <1>6 DEF ServerNotices, pageVars, rtcVars, Excusing, Quiet, SignalingTypeOK
  <1>7. ASSUME NEW p \in Page, AnnounceLeave(p) PROVE Excusing
    BY <1>7 DEF AnnounceLeave, pageVars, rtcVars, Excusing, Quiet, SignalingTypeOK
  <1>8. ASSUME NEW p \in Page, LeaveFails(p) PROVE Excusing
    BY <1>8 DEF LeaveFails, pageVars, rtcVars, Excusing, Quiet, SignalingTypeOK
  <1>9. ASSUME NEW p \in Page, NoticesClose(p) PROVE Excusing
    BY <1>9 DEF NoticesClose, ClosePage, serverVars, rtcVars, Excusing, Quiet, SignalingTypeOK
  <1>10. ASSUME NEW p \in Page, HearsJoined(p) PROVE Excusing
    <2>1. /\ \A q \in Page : state'[q] = "FAILED" /\ state[q] # "FAILED" =>
               q = p /\ Head(inbox[p]).type = "join-failed"
          /\ UNCHANGED <<joining, conn>>
      BY <1>10 DEF HearsJoined, Hears, serverVars, SignalingTypeOK
    <2> QED  BY <1>10, <2>1 DEF Excusing
  <1>11. ASSUME NEW p \in Page, HearsPeerJoined(p) PROVE Excusing
    BY <1>11 DEF HearsPeerJoined, serverVars, Excusing, Quiet, SignalingTypeOK
  <1>12. ASSUME NEW p \in Page, HearsPeerLeft(p) PROVE Excusing
    BY <1>12 DEF HearsPeerLeft, ClosePage, serverVars, rtcVars, Excusing, Quiet, SignalingTypeOK
  <1>13. ASSUME NEW p \in Page, HearsPeer(p) PROVE Excusing
    BY <1>13 DEF HearsPeer, Hears, serverVars, rtcVars, Excusing, Quiet, SignalingTypeOK
  <1>14. ASSUME NEW p \in Page, Calls(p) PROVE Excusing
    BY <1>14 DEF Calls, Continues, serverVars, Excusing, Quiet, SignalingTypeOK
  <1>15. ASSUME NEW p \in Page, TakesOffer(p) PROVE Excusing
    BY <1>15 DEF TakesOffer, Continues, serverVars, Excusing, Quiet, SignalingTypeOK
  <1>16. ASSUME NEW p \in Page, Answers(p) PROVE Excusing
    <2>1. /\ \A q \in Page : q # p => state'[q] = state[q]
          /\ UNCHANGED <<joining, conn>>
      BY <1>16 DEF Answers, serverVars, SignalingTypeOK
    <2> QED  BY <1>16, <2>1 DEF Excusing
  <1>17. ASSUME NEW p \in Page, SendsAnswer(p) PROVE Excusing
    BY <1>17 DEF SendsAnswer, DrainsQueue, Continues, serverVars, Excusing, Quiet, SignalingTypeOK
  <1>18. ASSUME NEW p \in Page, TakesAnswer(p) PROVE Excusing
    <2>1. /\ \A q \in Page : q # p => state'[q] = state[q]
          /\ UNCHANGED <<joining, conn>>
      BY <1>18 DEF TakesAnswer, serverVars, SignalingTypeOK
    <2> QED  BY <1>18, <2>1 DEF Excusing
  <1>19. ASSUME NEW p \in Page, TakesCandidate(p) PROVE Excusing
    BY <1>19 DEF TakesCandidate, Continues, serverVars, Excusing, Quiet, SignalingTypeOK
  <1>20. ASSUME NEW p \in Page, NEW q \in Page, Connects(p, q) PROVE Excusing
    BY <1>20 DEF Connects, serverVars, Excusing, Quiet, SignalingTypeOK
  <1>21. ASSUME NEW p \in Page, Start(p) PROVE Excusing
    BY <1>21 DEF Start, rtcVars, Excusing, Quiet, SignalingTypeOK
  <1>22. ASSUME NEW p \in Page, StartFails(p) PROVE Excusing
    <2>1. /\ \A q \in Page : q # p => state'[q] = state[q]
          /\ UNCHANGED <<joining, conn>>
      BY <1>22 DEF StartFails, serverVars, SignalingTypeOK
    <2> QED  BY <1>22, <2>1 DEF Excusing
  <1>23. ASSUME NEW p \in Page, Leaves(p) PROVE Excusing
    BY <1>23 DEF Leaves, ClosePage, serverVars, rtcVars, Excusing, Quiet, SignalingTypeOK
  <1>24. ASSUME NEW p \in Page, SocketDrops(p) PROVE Excusing
    BY <1>24 DEF SocketDrops, serverVars, pageVars, rtcVars, Excusing, Quiet, SignalingTypeOK
  <1> QED
    BY <1>0, <1>1, <1>2, <1>3, <1>4, <1>5, <1>6, <1>7, <1>8, <1>9, <1>10, <1>11, <1>12, <1>13,
       <1>14, <1>15, <1>16, <1>17, <1>18, <1>19, <1>20, <1>21, <1>22, <1>23, <1>24
           DEF Next, Works, ServerStep, PageStep, Disturbance

\* A step leaves no page failed but one that could not connect or join.
LEMMA NextNeverFails ==
  ASSUME SignalingTypeOK, Quiet, RolesOfTasks, RolesOfMessages, \A p \in Page : Refused(p),
         OneCall, OneTabNeverFails, [Next]_vars
  PROVE  OneTabNeverFails'
  <1>1. Lasts  BY Lasting
  <1> DEFINE Excused(q) == conn[q] = "none" \/ joining[q] \in {"refused", "broken"}
  <1> SUFFICES ASSUME OneTabEach', OneTabEach, NEW q \in Page, state'[q] = "FAILED",
                      state[q] = "FAILED" => Excused(q), Silent \/ Ringing \/ Handling \/ Relaying
               PROVE  Excused(q)'
    BY <1>1, TabsBefore DEF OneTabNeverFails, OneCall
  <1>2. CallInv  BY <1>1 DEF CallInv
  <1>6. Excusing  BY NextExcuses
  <1>3. state[q] = "FAILED" /\ Excused(q) => Excused(q)'
    <2>1. joining[q] \in {"refused", "broken"} => joining'[q] \in {"refused", "broken"}
      BY <1>6 DEF Excusing
    <2>2. state[q] = "FAILED" /\ conn[q] = "none" => conn'[q] = "none"
      BY <1>6 DEF Excusing
    <2> QED  BY <2>1, <2>2
  <1>4. CASE state[q] = "FAILED"  BY <1>3, <1>4
  <1>5. CASE state[q] # "FAILED"
    <2>1. \/ HearsJoined(q) /\ Head(inbox[q]).type = "join-failed"
          \/ StartFails(q)
          \/ Answers(q) \/ TakesAnswer(q)
      BY <1>5, <1>6 DEF Excusing
    <2>2. CASE HearsJoined(q) /\ Head(inbox[q]).type = "join-failed"
      <3>1. inbox[q] # <<>> /\ UNCHANGED joining  BY <2>2 DEF HearsJoined, Hears, serverVars
      <3>2. inbox[q] \in Seq(Messages)  BY DEF SignalingTypeOK
      <3>3. 1 \in DOMAIN inbox[q] /\ Head(inbox[q]) = inbox[q][1]  BY <3>1, <3>2, TailFacts
      <3> QED  BY <2>2, <3>1, <3>3 DEF Refused
    <2>3. CASE StartFails(q)  BY <2>3 DEF StartFails, Quiet
    <2>4. CASE Answers(q) \/ TakesAnswer(q)
      <3>1. UNCHANGED state  BY <1>2, <2>4, HandlersCall
      <3> QED  BY <1>5, <3>1
    <2> QED  BY <2>1, <2>2, <2>3, <2>4
  <1> QED  BY <1>4, <1>5

\* The initial states satisfy the invariant.
LEMMA InitIInv == ASSUME Init PROVE IInv
  <1>1. SignalingTypeOK  BY InitTypes
  <1>2. Quiet /\ RolesOfTasks /\ RolesOfMessages
    BY DEF Init, Quiet, Live, RolesOfTasks, RolesOfMessages
  <1>3. \A p \in Page : Awaited(p) /\ Refused(p)  BY DEF Init, Awaited, Refused
  <1>4. OneCall  BY DEF Init, OneCall, Silent, NoBox, NoTask, NoSent
  <1>5. OneTabNeverFails  BY DEF Init, OneTabNeverFails
  <1> QED  BY <1>1, <1>2, <1>3, <1>4, <1>5 DEF IInv

LEMMA NextIInv == ASSUME IInv, [Next]_vars PROVE IInv'
  <1> USE DEF IInv
  <1>1. SignalingTypeOK'  BY NextTypes
  <1>2. Quiet'  BY NextQuiet
  <1>3. RolesOfTasks'  BY NextTaskRoles
  <1>4. RolesOfMessages'  BY NextMessageRoles
  <1>5. \A p \in Page : Awaited(p)'  BY NextAwaited
  <1>6. \A p \in Page : Refused(p)'  BY NextRefused
  <1>7. OneCall'  BY NextCall
  <1>8. OneTabNeverFails'  BY NextNeverFails
  <1> QED  BY <1>1, <1>2, <1>3, <1>4, <1>5, <1>6, <1>7, <1>8

\* IInv holds in every reachable state.
THEOREM Invariance == Spec => []IInv
  BY InitIInv, NextIInv, PTL DEF Spec

\* Every variable of the server and the pages keeps its type.
THEOREM TypesHold == Spec => []SignalingTypeOK
  <1>1. IInv => SignalingTypeOK  BY DEF IInv
  <1> QED  BY <1>1, Invariance, PTL

\* No candidate waits in candidateQueue when no handler will take it out any more
\* (PeerTransferManager.ts, the offer and answer handlers), whatever overtakes what.
THEOREM NoCandidateIsStranded == Spec => []NoCandidateStranded
  <1>1. IInv => NoCandidateStranded  BY DEF IInv, Awaited, NoCandidateStranded
  <1> QED  BY <1>1, Invariance, PTL

\* With one page of each user WebRTC refuses no description of either
\* (setLocalDescription, setRemoteDescription).
THEOREM OnePairNeverFails == Spec => []OneTabNeverFails
  <1>1. IInv => OneTabNeverFails  BY DEF IInv
  <1> QED  BY <1>1, Invariance, PTL
=============================================================================
