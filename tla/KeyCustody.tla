----------------------------- MODULE KeyCustody -----------------------------
(***************************************************************************)
(* The private key of a user in one browser: sign-up, sign-in, reload,      *)
(* sign-out and change of password in its tabs (authStore.ts,               *)
(* useResetPasswordMutation.ts, CryptoBridge.ts, KeyStore.ts), with the     *)
(* endpoints they call (auth.controller.ts, user.controller.ts).            *)
(*                                                                         *)
(* The server has the key sealed with the password.  A tab that has         *)
(* unsealed it makes a fragment, stores the key wrapped with it in the      *)
(* browser, for all tabs, and puts the fragment into the session that the   *)
(* browser's cookie names, so that a reload finds both halves.  Of the      *)
(* sessions only that one matters: nobody uses another.  Renewal of cookies *)
(* is in AuthSessions: here the cookie is good for as long as its session.  *)
(* A call that is refused does not wait for the sign-out that it starts;    *)
(* here its tab does nothing else until that is over.                       *)
(***************************************************************************)
EXTENDS Naturals, FiniteSets

CONSTANTS Tab, Password,
          Fragment,      \* more than there can be at once
          None,          \* no password, no fragment
          MaxWrites      \* bound on the transactions under way

ASSUME CustodyAssumption ==
  /\ None \notin Password \cup Fragment
  /\ IsFiniteSet(Tab) /\ IsFiniteSet(Fragment)
  /\ Cardinality(Fragment) > Cardinality(Tab) + 2

VARIABLES
  \* the server
  verifier,      \* the password that the SRP verifier was made of, None before sign-up
  sealed,        \* the password that the primary key is sealed with
  writes,        \* transactions that go on after their answer
  sessionKey,    \* the fragment in the session that the cookie names
  \* the browser
  cookie,        \* "none", or what has become of its session: "live", "revoked", "gone"
  wrapped,       \* the fragment that the stored key is wrapped with
  \* a tab
  op,            \* its sign-up, sign-in, reload, sign-out or change
  store,         \* its auth store, and whether its workers hold the key
  \* history
  blind,         \* tabs that validateSession let in without a user, or whose sign-out
                 \* failed after it had cleared the workers
  alone,         \* tabs whose section over the two halves met no other's
  torn           \* a section was cut off, or met another, and none has ended since

accountVars == <<verifier, sealed, writes>>
halves      == <<cookie, sessionKey, wrapped>>
pastVars    == <<blind, alone, torn>>
vars == <<accountVars, halves, op, store, pastVars>>

\* Where an operation is, the password it works with, the one behind the challenge or the
\* key that it was sent, and the fragment it made or fetched
Idle(s) == [at |-> s, typed |-> None, seen |-> None, fragment |-> None]
At(t, ss) == op[t].at \in ss
Goes(t, s) == op' = [op EXCEPT ![t].at = s]
Ends(t, s) == op' = [op EXCEPT ![t] = Idle(s)]

\* snapshot: the password that sealed the primaryKeys
SignedOut == [authenticated |-> FALSE, user |-> FALSE, opened |-> FALSE, snapshot |-> None]

\* Where a tab is when its operation is over
Rest(t) == IF store[t].authenticated THEN "in" ELSE "out"

\* verifyToken lets it in
Admitted == cookie = "live"

-----------------------------------------------------------------------------
(* Sections over the two halves *)

Writing(t) == At(t, {"proved", "reading", "unsealed", "stored", "changed", "leaving",
                     "clearing", "deleting"})
Reading(t) == At(t, {"refreshed", "fetching", "fetched"})
OtherWrites(t) == \E u \in Tab \ {t} : Writing(u)

BeginsToWrite(t) ==
  /\ alone' = IF OtherWrites(t) THEN {} ELSE {u \in alone : ~Reading(u)} \cup {t}
  /\ UNCHANGED <<blind, torn>>

BeginsToRead(t) ==
  /\ alone' = IF OtherWrites(t) THEN alone \ {t} ELSE alone \cup {t}
  /\ UNCHANGED <<blind, torn>>

EndsWell(t) == torn' = (t \notin alone) /\ UNCHANGED <<blind, alone>>
IsCutOff(t) == torn' = (torn \/ Writing(t)) /\ UNCHANGED <<blind, alone>>

-----------------------------------------------------------------------------
(* Sign-up and sign-in *)

Types(t, p) == op' = [op EXCEPT ![t] = [Idle("typed") EXCEPT !.typed = p]]

\* register answers inside its transaction, before that commits.
SignUp(t, p) ==
  /\ At(t, {"out"}) /\ verifier = None /\ Cardinality(writes) < MaxWrites
  /\ writes' = writes \cup {[password |-> p, by |-> "register"]}
  /\ Types(t, p)
  /\ UNCHANGED <<verifier, sealed, halves, store, pastVars>>

SignIn(t, p) ==
  /\ At(t, {"out"})
  /\ Types(t, p)
  /\ UNCHANGED <<accountVars, halves, store, pastVars>>

\* challenge, or "User not found"
Challenge(t) ==
  /\ At(t, {"typed"})
  /\ IF verifier = None
       THEN Ends(t, "out")
       ELSE op' = [op EXCEPT ![t].at = "challenged", ![t].seen = verifier]
  /\ UNCHANGED <<accountVars, halves, store, pastVars>>

ProofHolds(t) == op[t].typed = verifier /\ op[t].seen = verifier

\* The answer brings a cookie; a transaction keeps its session, no longer this one.
Prove(t) ==
  /\ At(t, {"challenged"}) /\ ProofHolds(t)
  /\ Goes(t, "proved")
  /\ cookie' = "live"
  /\ sessionKey' = None
  /\ writes' = {[w EXCEPT !.by = IF @ = "this session" THEN "another" ELSE @] : w \in writes}
  /\ BeginsToWrite(t)
  /\ UNCHANGED <<verifier, sealed, wrapped, store>>

\* 401: the interceptor renews the session and asks again, to the same answer, or has
\* none to renew and signs out.
ProofFails(t) ==
  /\ At(t, {"challenged"}) /\ ~ProofHolds(t)
  /\ \/ Admitted /\ Ends(t, "out") /\ UNCHANGED pastVars
     \/ ~Admitted /\ Ends(t, "leaving") /\ BeginsToWrite(t)
  /\ UNCHANGED <<accountVars, halves, store>>

\* GET /me, by the cookie the browser has now
ReadKeys(t) ==
  /\ At(t, {"proved"}) /\ Admitted
  /\ op' = [op EXCEPT ![t].at = "reading", ![t].seen = sealed]
  /\ UNCHANGED <<accountVars, halves, store, pastVars>>

\* A fragment that is nowhere else
Fresh ==
  CHOOSE f \in Fragment : f \notin {wrapped, sessionKey} \cup {op[t].fragment : t \in Tab}

\* CryptoBridge.initialize: the workers are cleared, import the key, make a fragment.
Unseal(t) ==
  /\ At(t, {"reading", "changed"}) /\ op[t].typed = op[t].seen
  /\ op' = [op EXCEPT ![t].at = "unsealed", ![t].fragment = Fresh]
  /\ store' = [store EXCEPT ![t].opened = TRUE]
  /\ UNCHANGED <<accountVars, halves, pastVars>>

\* The password was changed between the proof and the keys.
UnsealFails(t) ==
  /\ At(t, {"reading"}) /\ op[t].typed # op[t].seen
  /\ Ends(t, "out")
  /\ store' = [store EXCEPT ![t].opened = FALSE]
  /\ IsCutOff(t)
  /\ UNCHANGED <<accountVars, halves>>

\* KeyStore.putWrappedKey
Store(t) ==
  /\ At(t, {"unsealed"})
  /\ wrapped' = op[t].fragment
  /\ Goes(t, "stored")
  /\ UNCHANGED <<accountVars, cookie, sessionKey, store, pastVars>>

\* Mutated form of PutSessionKey: the fragment that a change makes is not sent
PutSessionKeyAtSignIn(t) ==
  /\ At(t, {"stored"}) /\ Admitted
  /\ sessionKey' = IF store[t].authenticated THEN sessionKey ELSE op[t].fragment
  /\ Ends(t, "in")
  /\ store' = IF store[t].authenticated
                THEN store
                ELSE [store EXCEPT ![t] = [authenticated |-> TRUE, user |-> TRUE,
                                           opened |-> @.opened, snapshot |-> op[t].seen]]
  /\ EndsWell(t)
  /\ UNCHANGED <<accountVars, cookie, wrapped>>

\* putLocalSessionKey.  The end of a sign-in fills the auth store, that of a change does not.
PutSessionKey(t) ==
  /\ At(t, {"stored"}) /\ Admitted
  /\ sessionKey' = op[t].fragment
  /\ Ends(t, "in")
  /\ store' = IF store[t].authenticated
                THEN store
                ELSE [store EXCEPT ![t] = [authenticated |-> TRUE, user |-> TRUE,
                                           opened |-> @.opened, snapshot |-> op[t].seen]]
  /\ EndsWell(t)
  /\ UNCHANGED <<accountVars, cookie, wrapped>>

-----------------------------------------------------------------------------
(* Reload: validateSession *)

Reload(t) ==
  /\ ~At(t, {"loading"})
  /\ Ends(t, "loading")
  /\ store' = [store EXCEPT ![t] = SignedOut]
  /\ blind' = blind \ {t}
  /\ torn' = (torn \/ Writing(t))
  /\ UNCHANGED <<accountVars, halves, alone>>

Refresh(t) ==
  /\ At(t, {"loading"}) /\ Admitted
  /\ Goes(t, "refreshed")
  /\ BeginsToRead(t)
  /\ UNCHANGED <<accountVars, halves, store>>

LearnsUser(t) == store' = [store EXCEPT ![t].user = TRUE, ![t].snapshot = sealed]

\* A failure of refreshUser is swallowed.
RefreshUser(t) ==
  /\ At(t, {"refreshed"})
  /\ Goes(t, "fetching")
  /\ (Admitted /\ LearnsUser(t)) \/ UNCHANGED store
  /\ UNCHANGED <<accountVars, halves, pastVars>>

FetchSessionKey(t) ==
  /\ At(t, {"fetching"}) /\ Admitted
  /\ op' = [op EXCEPT ![t].at = "fetched", ![t].fragment = sessionKey]
  /\ UNCHANGED <<accountVars, halves, store, pastVars>>

Opens(t) == wrapped # None /\ op[t].fragment = wrapped

\* Mutated form of OpenLocal: a failure is swallowed
OpenLocalAnyway(t) ==
  /\ At(t, {"fetched"})
  /\ Ends(t, "in")
  /\ store' = [store EXCEPT ![t].authenticated = TRUE, ![t].opened = store[t].user /\ Opens(t)]
  /\ blind' = IF store[t].user THEN blind ELSE blind \cup {t}
  /\ UNCHANGED <<accountVars, halves, alone, torn>>

\* CryptoBridge.initializeFromLocal, if there is a user
OpenLocal(t) ==
  /\ At(t, {"fetched"}) /\ (store[t].user => Opens(t))
  /\ Ends(t, "in")
  /\ store' = [store EXCEPT ![t].authenticated = TRUE, ![t].opened = store[t].user]
  /\ blind' = IF store[t].user THEN blind ELSE blind \cup {t}
  /\ UNCHANGED <<accountVars, halves, alone, torn>>

OpenLocalFails(t) ==
  /\ At(t, {"fetched"}) /\ store[t].user /\ ~Opens(t)
  /\ Ends(t, "leaving")
  /\ BeginsToWrite(t)
  /\ UNCHANGED <<accountVars, halves, store>>

\* useVerifyAccountMutation calls refreshUser when an account has been verified.
AccountVerified(t) ==
  /\ At(t, {"in"}) /\ ~store[t].user /\ Admitted
  /\ LearnsUser(t)
  /\ UNCHANGED <<accountVars, halves, op, pastVars>>

-----------------------------------------------------------------------------
(* Change of password: useResetPasswordMutation and changePassword *)

\* A code has been confirmed, and the key of the auth store opens with the password given
\* as the current one.  That key is not renewed after a change.
Change(t, current, new) ==
  /\ At(t, {"in"}) /\ store[t].user /\ store[t].opened
  /\ current = store[t].snapshot /\ new # current
  /\ op' = [op EXCEPT ![t] = [Idle("changing") EXCEPT !.typed = new, !.seen = new]]
  /\ UNCHANGED <<accountVars, halves, store, pastVars>>

\* The answer does not wait for the transaction, and may get lost.
ChangePassword(t) ==
  /\ At(t, {"changing"}) /\ Admitted /\ Cardinality(writes) < MaxWrites
  /\ writes' = writes \cup {[password |-> op[t].typed, by |-> "this session"]}
  /\ \/ Goes(t, "changed") /\ BeginsToWrite(t)
     \/ Ends(t, "in") /\ UNCHANGED pastVars
  /\ UNCHANGED <<verifier, sealed, halves, store>>

\* The transaction of register, or of changePassword, which revokes the other sessions
Commit(w) ==
  /\ w \in writes
  /\ w.by = "register" => verifier = None
  /\ writes' = writes \ {w}
  /\ verifier' = w.password
  /\ sealed' = w.password
  /\ cookie' = IF w.by = "another" /\ cookie = "live" THEN "revoked" ELSE cookie
  /\ UNCHANGED <<sessionKey, wrapped, op, store, pastVars>>

Abort(w) ==
  /\ w \in writes
  /\ writes' = writes \ {w}
  /\ UNCHANGED <<verifier, sealed, halves, op, store, pastVars>>

-----------------------------------------------------------------------------
(* Sign-out *)

SignOut(t) ==
  /\ At(t, {"in"})
  /\ Goes(t, "leaving")
  /\ BeginsToWrite(t)
  /\ UNCHANGED <<accountVars, halves, store>>

\* Mutated form of Forgets: primaryKeys is deleted from the store
ForgetsKeys(t) ==
  /\ Ends(t, "out")
  /\ store' = [store EXCEPT ![t] = [authenticated |-> FALSE, user |-> FALSE, opened |-> @.opened]]
  /\ torn' = (t \notin alone)
  /\ blind' = blind \ {t}
  /\ UNCHANGED alone

Forgets(t) ==
  /\ Ends(t, "out")
  /\ store' = [store EXCEPT ![t] = [SignedOut EXCEPT !.opened = store[t].opened]]
  /\ torn' = (t \notin alone)
  /\ blind' = blind \ {t}
  /\ UNCHANGED alone

\* What a cookie names once its session is deleted
Outlived == IF cookie = "none" THEN "none" ELSE "gone"

\* logout; without a user there is nothing to terminate.  It clears the cookies without
\* the domain they were set with: where there is one they stay, of a session that is gone.
Logout(t) ==
  /\ At(t, {"leaving"})
  /\ cookie' \in {"none", Outlived}
  /\ sessionKey' = None
  /\ IF store[t].user THEN Goes(t, "clearing") /\ UNCHANGED <<store, pastVars>>
                      ELSE Forgets(t)
  /\ UNCHANGED <<accountVars, wrapped>>

\* A failure is swallowed, and the tab stays as it was.  The session may have ended.
LogoutFails(t) ==
  /\ At(t, {"leaving"})
  /\ cookie' \in {cookie, Outlived}
  /\ Ends(t, Rest(t))
  /\ IsCutOff(t)
  /\ UNCHANGED <<accountVars, sessionKey, wrapped, store>>

\* CryptoBridge.terminate: the workers, then the stored key
ClearWorkers(t) ==
  /\ At(t, {"clearing"})
  /\ store' = [store EXCEPT ![t].opened = FALSE]
  /\ Goes(t, "deleting")
  /\ UNCHANGED <<accountVars, halves, pastVars>>

DeleteWrapped(t) ==
  /\ At(t, {"deleting"})
  /\ wrapped' = None
  /\ Forgets(t)
  /\ UNCHANGED <<accountVars, cookie, sessionKey>>

\* KeyStore.deleteWrappedKey rejects, and signOut swallows that too: the tab stays signed
\* in, without the key.
DeleteFails(t) ==
  /\ At(t, {"deleting"})
  /\ Ends(t, Rest(t))
  /\ blind' = IF store[t].authenticated THEN blind \cup {t} ELSE blind
  /\ torn' = TRUE
  /\ UNCHANGED <<accountVars, halves, store, alone>>

-----------------------------------------------------------------------------
(* Failures *)

\* A call gets no answer, or an error, before it has changed anything, or what it did in
\* the database stays (signIn's session, which nobody has a cookie for).
CallFails(t) ==
  /\ At(t, {"typed", "challenged", "proved", "unsealed", "stored", "changing"})
  /\ Ends(t, Rest(t))
  /\ IsCutOff(t)
  /\ UNCHANGED <<accountVars, halves, store>>

\* putLocalSessionKey is done, and its answer is lost.
PutAnswerLost(t) ==
  /\ At(t, {"stored"}) /\ Admitted
  /\ sessionKey' = op[t].fragment
  /\ Ends(t, Rest(t))
  /\ IsCutOff(t)
  /\ UNCHANGED <<accountVars, cookie, wrapped, store>>

\* It is answered 401, /refresh too, and the interceptor signs out.
CallRefused(t) ==
  /\ At(t, {"proved", "stored", "changing"}) /\ ~Admitted
  /\ Ends(t, "leaving")
  /\ alone' = {}
  /\ torn' = (torn \/ Writing(t))
  /\ UNCHANGED <<accountVars, halves, store, blind>>

\* validateSession is refused or gets no answer, or getWrappedKey rejects.
LoadFails(t) ==
  /\ At(t, {"loading", "fetching"}) \/ (At(t, {"fetched"}) /\ store[t].user)
  /\ Ends(t, "leaving")
  /\ BeginsToWrite(t)
  /\ UNCHANGED <<accountVars, halves, store>>

-----------------------------------------------------------------------------
Init ==
  /\ verifier = None /\ sealed = None /\ writes = {}
  /\ cookie = "none" /\ sessionKey = None /\ wrapped = None
  /\ op = [t \in Tab |-> Idle("out")]
  /\ store = [t \in Tab |-> SignedOut]
  /\ blind = {} /\ alone = {} /\ torn = FALSE

Next ==
  \/ \E t \in Tab :
       \/ \E p \in Password : SignUp(t, p) \/ SignIn(t, p)
       \/ \E p, q \in Password : Change(t, p, q)
       \/ SignOut(t) \/ Reload(t) \/ AccountVerified(t)
       \/ Challenge(t) \/ Prove(t) \/ ProofFails(t) \/ ReadKeys(t)
       \/ Unseal(t) \/ UnsealFails(t) \/ Store(t) \/ PutSessionKey(t)
       \/ Refresh(t) \/ RefreshUser(t) \/ FetchSessionKey(t) \/ OpenLocal(t) \/ OpenLocalFails(t)
       \/ ChangePassword(t)
       \/ Logout(t) \/ LogoutFails(t) \/ ClearWorkers(t) \/ DeleteWrapped(t)
       \/ DeleteFails(t)
       \/ CallFails(t) \/ PutAnswerLost(t) \/ CallRefused(t) \/ LoadFails(t)
  \/ \E w \in writes : Commit(w) \/ Abort(w)

Spec == Init /\ [][Next]_vars

-----------------------------------------------------------------------------
(* Properties *)

Stage == {"out", "typed", "challenged", "proved", "reading", "unsealed", "stored", "in",
          "loading", "refreshed", "fetching", "fetched", "changing", "changed",
          "leaving", "clearing", "deleting"}

\* Every variable keeps its type.
CustodyTypeOK ==
  LET SomePassword == Password \cup {None}
      SomeFragment == Fragment \cup {None}
  IN /\ {verifier, sealed} \subseteq SomePassword
     /\ writes \subseteq [password : Password, by : {"register", "this session", "another"}]
     /\ cookie \in {"none", "live", "revoked", "gone"}
     /\ {sessionKey, wrapped} \subseteq SomeFragment
     /\ op \in [Tab -> [at : Stage, typed : SomePassword, seen : SomePassword,
                         fragment : SomeFragment]]
     /\ store \in [Tab -> [authenticated : BOOLEAN, user : BOOLEAN, opened : BOOLEAN,
                            snapshot : SomePassword]]
     /\ blind \subseteq Tab /\ alone \subseteq Tab /\ torn \in BOOLEAN

\* A tab that shows a signed-in user can decrypt: its workers hold the key.  Two kinds of
\* tab are excepted, which hold none until they are loaded again or signed out: one that
\* validateSession let in without a user, and one whose sign-out failed half-way, its
\* workers cleared.
KeyAtHand ==
  \A t \in Tab : At(t, {"in"}) /\ store[t].user /\ t \notin blind => store[t].opened

\* A reload fails on the halves of the key only if the reload met a sign-in, a sign-out or
\* a change in another tab, or the last of these was cut off or met another.
ReopensAlone ==
  [][\A t \in Tab : OpenLocalFails(t) => torn \/ t \notin alone]_vars
=============================================================================
