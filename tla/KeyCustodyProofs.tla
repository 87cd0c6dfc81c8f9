-------------------------- MODULE KeyCustodyProofs --------------------------
(***************************************************************************)
(* Proofs about KeyCustody, for any tabs and passwords and any number of    *)
(* transactions under way.  The inductive invariant IInv adds to the types  *)
(* what the auth store of a tab says by where its operation is (Held), and  *)
(* how the two halves of the key relate: while no section over them was cut *)
(* off or met another, they belong together (Paired), because a section     *)
(* that is alone is the only one that writes (Secluded).                    *)
(***************************************************************************)
EXTENDS KeyCustody, FiniteSetTheorems, TLAPS

\* The store of a tab: one that is in without a user, or with a user and without the key, is
\* blind; the workers of every other one hold the key until it signs out.
Held(t) ==
  /\ At(t, {"in", "changing", "changed"}) => store[t].authenticated
  /\ store[t].authenticated =>
       At(t, {"unsealed", "stored", "in", "changing", "changed", "leaving", "clearing", "deleting"})
  /\ store[t].authenticated /\ ~ store[t].user => t \in blind
  /\ store[t].authenticated /\ store[t].user /\ t \notin blind /\ ~ At(t, {"deleting"}) => store[t].opened
  /\ At(t, {"unsealed", "stored"}) => store[t].opened /\ op[t].fragment \in Fragment
  /\ At(t, {"changing", "changed"}) => op[t].typed \in Password
  /\ At(t, {"typed", "challenged", "proved", "reading"}) => op[t].typed \in Password

\* Nobody else writes while a section is alone.
Secluded == \A t \in alone : Writing(t) \/ Reading(t) => ~ OtherWrites(t)

\* What a section that is alone has brought about
Alone(t) ==
  /\ At(t, {"stored"}) => wrapped = op[t].fragment
  /\ At(t, {"clearing", "deleting"}) => cookie # "live"
  /\ ~ torn /\ At(t, {"fetched"}) => wrapped # None /\ op[t].fragment = wrapped

\* The fragment in a session that the cookie opens is the one that the key is wrapped with.
Paired ==
  ~ torn /\ cookie = "live" /\ (\A t \in Tab : ~ Writing(t)) => wrapped # None /\ sessionKey = wrapped

IInv ==
  /\ CustodyTypeOK
  /\ \A t \in Tab : Held(t)
  /\ Secluded /\ (\A t \in alone : Alone(t)) /\ Paired

-----------------------------------------------------------------------------
(* Types *)

SomePassword == Password \cup {None}
SomeFragment == Fragment \cup {None}
Ops == [at : Stage, typed : SomePassword, seen : SomePassword, fragment : SomeFragment]
Stores == [authenticated : BOOLEAN, user : BOOLEAN, opened : BOOLEAN, snapshot : SomePassword]

\* The type invariant, without its local names
LEMMA CustodyTypes ==
  CustodyTypeOK <=>
    /\ verifier \in SomePassword /\ sealed \in SomePassword
    /\ writes \subseteq [password : Password, by : {"register", "this session", "another"}]
    /\ cookie \in {"none", "live", "revoked", "gone"}
    /\ sessionKey \in SomeFragment /\ wrapped \in SomeFragment
    /\ op \in [Tab -> Ops] /\ store \in [Tab -> Stores]
    /\ blind \subseteq Tab /\ alone \subseteq Tab /\ torn \in BOOLEAN
BY DEF CustodyTypeOK, SomePassword, SomeFragment, Ops, Stores

\* One more element
LEMMA AddOne ==
  ASSUME NEW S, IsFiniteSet(S), NEW x
  PROVE  /\ IsFiniteSet(S \cup {x}) /\ Cardinality(S) \in Nat /\ Cardinality(S \cup {x}) \in Nat
         /\ Cardinality(S \cup {x}) <= Cardinality(S) + 1
<1>1. Cardinality(S) \in Nat
  BY FS_CardinalityType
<1>2. IsFiniteSet(S \cup {x}) /\ Cardinality(S \cup {x}) = IF x \in S THEN Cardinality(S) ELSE Cardinality(S) + 1
  BY FS_AddElement
<1> QED BY <1>1, <1>2

\* There are fragments enough for one that is nowhere else.
LEMMA FreshExists ==
  /\ Fresh \in Fragment
  /\ Fresh # wrapped /\ Fresh # sessionKey /\ \A t \in Tab : Fresh # op[t].fragment
<1> DEFINE f == [t \in Tab |-> op[t].fragment]
           R == {op[t].fragment : t \in Tab}
           Used == (R \cup {wrapped}) \cup {sessionKey}
<1>1. IsFiniteSet(R) /\ Cardinality(R) <= Cardinality(Tab)
  <2>1. f \in [Tab -> R] /\ \A x \in R : \E t \in Tab : f[t] = x
    OBVIOUS
  <2> HIDE DEF f, R
  <2>2. f \in Surjection(Tab, R) /\ IsFiniteSet(Tab)
    BY <2>1, CustodyAssumption DEF Surjection
  <2> QED BY <2>2, FS_Surjection
<1>2. IsFiniteSet(Used) /\ Cardinality(Used) <= Cardinality(Tab) + 2
  <2> HIDE DEF R
  <2>1. /\ IsFiniteSet(R \cup {wrapped})
        /\ Cardinality(R \cup {wrapped}) <= Cardinality(R) + 1
        /\ Cardinality(R) \in Nat /\ Cardinality(R \cup {wrapped}) \in Nat
    BY <1>1, AddOne
  <2>2. /\ IsFiniteSet(Used) /\ Cardinality(Used) <= Cardinality(R \cup {wrapped}) + 1
        /\ Cardinality(Used) \in Nat
    BY <2>1, AddOne
  <2>3. Cardinality(Tab) \in Nat
    BY CustodyAssumption, FS_CardinalityType
  <2> QED BY <1>1, <2>1, <2>2, <2>3
<1>3. \E g \in Fragment : g \notin Used
  <2> SUFFICES ASSUME Fragment \subseteq Used  PROVE FALSE
    OBVIOUS
  <2> HIDE DEF Used
  <2>1. Cardinality(Fragment) <= Cardinality(Used)
    BY <1>2, FS_Subset
  <2>2. Cardinality(Fragment) \in Nat /\ Cardinality(Used) \in Nat /\ Cardinality(Tab) \in Nat
    BY <1>2, CustodyAssumption, FS_CardinalityType
  <2> QED BY <1>2, <2>1, <2>2, CustodyAssumption
<1>4. \E g \in Fragment : g \notin {wrapped, sessionKey} \cup R
  BY <1>3
<1>5. Fresh \in Fragment /\ Fresh \notin {wrapped, sessionKey} \cup R
  BY <1>4 DEF Fresh
<1> QED BY <1>5

LEMMA RecordTypes ==
  ASSUME NEW t \in Tab, op \in [Tab -> Ops], store \in [Tab -> Stores]
  PROVE  /\ \A s \in Stage : Goes(t, s) => op' \in [Tab -> Ops]
         /\ \A s \in Stage : Ends(t, s) => op' \in [Tab -> Ops]
         /\ \A p \in Password : Types(t, p) => op' \in [Tab -> Ops]
         /\ \A b \in BOOLEAN : [store EXCEPT ![t].opened = b] \in [Tab -> Stores]
         /\ SignedOut \in Stores /\ Rest(t) \in Stage
         /\ op[t] \in Ops /\ store[t] \in Stores
<1>1. op[t] \in Ops /\ store[t] \in Stores
  OBVIOUS
<1>2. ASSUME NEW s \in Stage, Goes(t, s)  PROVE op' \in [Tab -> Ops]
  <2>1. [op[t] EXCEPT !.at = s] \in Ops
    BY <1>1 DEF Ops
  <2> QED BY <1>2, <2>1 DEF Goes
<1>3. ASSUME NEW s \in Stage, Ends(t, s)  PROVE op' \in [Tab -> Ops]
  <2>1. Idle(s) \in Ops
    BY DEF Idle, Ops, SomePassword, SomeFragment
  <2> QED BY <1>3, <2>1 DEF Ends
<1>4. ASSUME NEW p \in Password, Types(t, p)  PROVE op' \in [Tab -> Ops]
  <2>1. [Idle("typed") EXCEPT !.typed = p] \in Ops
    BY DEF Idle, Ops, SomePassword, SomeFragment, Stage
  <2> QED BY <1>4, <2>1 DEF Types
<1>5. ASSUME NEW b \in BOOLEAN  PROVE [store EXCEPT ![t].opened = b] \in [Tab -> Stores]
  BY <1>1 DEF Stores
<1>6. SignedOut \in Stores /\ Rest(t) \in Stage
  BY DEF SignedOut, Rest, Stores, SomePassword, Stage
<1> QED BY <1>1, <1>2, <1>3, <1>4, <1>5, <1>6

Past == blind \subseteq Tab /\ alone \subseteq Tab /\ torn \in BOOLEAN

LEMMA PastTypes ==
  ASSUME CustodyTypeOK, NEW t \in Tab,
         BeginsToWrite(t) \/ BeginsToRead(t) \/ EndsWell(t) \/ IsCutOff(t) \/ UNCHANGED pastVars
  PROVE  Past'
BY DEF CustodyTypeOK, BeginsToWrite, BeginsToRead, EndsWell, IsCutOff, pastVars, Past, Writing, At

\* A step of tab t
Acts(t) ==
  \/ \E p \in Password : SignUp(t, p) \/ SignIn(t, p)
  \/ \E p, q \in Password : Change(t, p, q)
  \/ SignOut(t) \/ Reload(t) \/ AccountVerified(t)
  \/ Challenge(t) \/ Prove(t) \/ ProofFails(t) \/ ReadKeys(t)
  \/ Unseal(t) \/ UnsealFails(t) \/ Store(t) \/ PutSessionKey(t)
  \/ Refresh(t) \/ RefreshUser(t) \/ FetchSessionKey(t) \/ OpenLocal(t) \/ OpenLocalFails(t)
  \/ ChangePassword(t)
  \/ Logout(t) \/ LogoutFails(t) \/ ClearWorkers(t) \/ DeleteWrapped(t)
  \/ DeleteFails(t)
  \/ CallFails(t) \/ PutAnswerLost(t) \/ CallRefused(t) \/ LoadFails(t)

LEMMA Steps ==
  ASSUME [Next]_vars
  PROVE  \/ \E t \in Tab : Acts(t)
         \/ \E w \in writes : Commit(w) \/ Abort(w)
         \/ UNCHANGED vars
BY DEF Next, Acts

LEMMA TypesStay ==
  ASSUME CustodyTypeOK, \A t \in Tab : Held(t), [Next]_vars
  PROVE  CustodyTypeOK'
<1> DEFINE Server == /\ verifier \in SomePassword /\ sealed \in SomePassword
                     /\ writes \subseteq [password : Password, by : {"register", "this session", "another"}]
           Halves == /\ cookie \in {"none", "live", "revoked", "gone"}
                     /\ sessionKey \in SomeFragment /\ wrapped \in SomeFragment
<1>1. /\ Server /\ Halves /\ op \in [Tab -> Ops] /\ store \in [Tab -> Stores] /\ Past
  BY CustodyTypes DEF Past
<1>2. (Server' /\ Halves' /\ op' \in [Tab -> Ops] /\ store' \in [Tab -> Stores] /\ Past') => CustodyTypeOK'
  BY DEF CustodyTypeOK, SomePassword, SomeFragment, Ops, Stores, Past
<1>3. ASSUME NEW t \in Tab, Acts(t)  PROVE CustodyTypeOK'
  <2>0. /\ \A s \in Stage : Goes(t, s) => op' \in [Tab -> Ops]
        /\ \A s \in Stage : Ends(t, s) => op' \in [Tab -> Ops]
        /\ \A p \in Password : Types(t, p) => op' \in [Tab -> Ops]
        /\ \A b \in BOOLEAN : [store EXCEPT ![t].opened = b] \in [Tab -> Stores]
        /\ SignedOut \in Stores /\ Rest(t) \in Stage
        /\ op[t] \in Ops /\ store[t] \in Stores
    BY <1>1, RecordTypes
  <2>1. /\ op[t].typed \in SomePassword /\ op[t].seen \in SomePassword /\ op[t].fragment \in SomeFragment
        /\ {"out", "typed", "challenged", "proved", "reading", "unsealed", "stored", "in", "loading", "refreshed",
            "fetching", "fetched", "changing", "changed", "leaving", "clearing", "deleting"} = Stage
    BY <2>0 DEF Ops, Stage
  <2>2. None \in SomePassword /\ None \in SomeFragment /\ Password \subseteq SomePassword
    BY DEF SomePassword, SomeFragment
  <2> USE DEF accountVars, halves, pastVars
  <2>3. CASE /\ UNCHANGED <<accountVars, halves>>
             /\ op' \in [Tab -> Ops] /\ store' \in [Tab -> Stores] /\ Past'
    BY <1>1, <1>2, <2>3
  <2>4. CASE \E p \in Password : SignUp(t, p) \/ SignIn(t, p)
    <3>1. op' \in [Tab -> Ops] /\ UNCHANGED <<halves, store, pastVars, verifier, sealed>>
      BY <2>0, <2>4 DEF SignUp, SignIn
    <3>2. writes' \subseteq [password : Password, by : {"register", "this session", "another"}]
      <4>1. PICK p \in Password : SignUp(t, p) \/ SignIn(t, p)
        BY <2>4
      <4>2. [password |-> p, by |-> "register"] \in [password : Password, by : {"register", "this session", "another"}]
        OBVIOUS
      <4>3. writes' = writes \/ writes' = writes \cup {[password |-> p, by |-> "register"]}
        BY <4>1 DEF SignUp, SignIn
      <4> QED BY <1>1, <4>2, <4>3
    <3> QED BY <1>1, <1>2, <3>1, <3>2 DEF Past
  <2>5. CASE \E p, q \in Password : Change(t, p, q)
    <3>1. \A q \in Password : [Idle("changing") EXCEPT !.typed = q, !.seen = q] \in Ops
      BY <2>1, <2>2 DEF Idle, Ops
    <3> QED BY <1>1, <2>3, <2>5, <3>1 DEF Change, Past
  <2>6. CASE SignOut(t) \/ OpenLocalFails(t) \/ LoadFails(t)
    <3>1. op' \in [Tab -> Ops] /\ Past'
      BY <2>0, <2>1, <2>6, PastTypes DEF SignOut, OpenLocalFails, LoadFails
    <3> QED BY <1>1, <2>3, <2>6, <3>1 DEF SignOut, OpenLocalFails, LoadFails
  <2>7. CASE Reload(t)
    <3>1. op' \in [Tab -> Ops] /\ Past' /\ store' \in [Tab -> Stores]
      BY <1>1, <2>0, <2>1, <2>7 DEF Reload, Past, Writing, At
    <3> QED BY <2>3, <2>7, <3>1 DEF Reload
  <2>8. CASE AccountVerified(t) \/ RefreshUser(t)
    <3>1. op' \in [Tab -> Ops] /\ UNCHANGED <<accountVars, halves, pastVars>>
      BY <1>1, <2>0, <2>1, <2>8 DEF AccountVerified, RefreshUser
    <3>2. store' \in [Tab -> Stores]
      <4>1. [store[t] EXCEPT !.user = TRUE, !.snapshot = sealed] \in Stores
        BY <1>1, <2>0 DEF Stores
      <4>2. LearnsUser(t) => store' = [store EXCEPT ![t] = [store[t] EXCEPT !.user = TRUE, !.snapshot = sealed]]
        BY <1>1 DEF LearnsUser
      <4> QED BY <1>1, <2>8, <4>1, <4>2 DEF AccountVerified, RefreshUser
    <3> QED BY <1>1, <2>3, <3>1, <3>2 DEF Past
  <2>9. CASE Challenge(t)
    <3>1. [op[t] EXCEPT !.at = "challenged", !.seen = verifier] \in Ops
      BY <1>1, <2>0, <2>1 DEF Ops
    <3>2. op' \in [Tab -> Ops]
      <4>1. CASE verifier = None
        BY <2>0, <2>1, <2>9, <4>1 DEF Challenge
      <4>2. CASE verifier # None
        BY <1>1, <2>9, <3>1, <4>2 DEF Challenge
      <4> QED BY <4>1, <4>2
    <3> QED BY <1>1, <2>3, <2>9, <3>2 DEF Challenge, Past
  <2>10. CASE Prove(t)
    <3>1. op' \in [Tab -> Ops] /\ Past'
      BY <2>0, <2>1, <2>10, PastTypes DEF Prove
    <3>2. writes' \subseteq [password : Password, by : {"register", "this session", "another"}]
      <4>1. writes' = {[w EXCEPT !.by = IF w.by = "this session" THEN "another" ELSE w.by] : w \in writes}
        BY <2>10 DEF Prove
      <4> QED BY <1>1, <4>1
    <3> QED BY <1>1, <1>2, <2>2, <2>10, <3>1, <3>2 DEF Prove
  <2>11. CASE ProofFails(t)
    <3>1. op' \in [Tab -> Ops] /\ Past'
      BY <2>0, <2>1, <2>11, PastTypes DEF ProofFails
    <3> QED BY <1>1, <2>3, <2>11, <3>1 DEF ProofFails
  <2>12. CASE ReadKeys(t) \/ FetchSessionKey(t)
    <3>1. /\ [op[t] EXCEPT !.at = "reading", !.seen = sealed] \in Ops
          /\ [op[t] EXCEPT !.at = "fetched", !.fragment = sessionKey] \in Ops
      BY <1>1, <2>0, <2>1 DEF Ops
    <3>2. op' \in [Tab -> Ops]
      BY <1>1, <2>12, <3>1 DEF ReadKeys, FetchSessionKey
    <3> QED BY <1>1, <2>3, <2>12, <3>2 DEF ReadKeys, FetchSessionKey, Past
  <2>13. CASE Unseal(t)
    <3>1. [op[t] EXCEPT !.at = "unsealed", !.fragment = Fresh] \in Ops
      BY <2>0, <2>1, FreshExists DEF Ops, SomeFragment
    <3>2. op' \in [Tab -> Ops]
      BY <1>1, <2>13, <3>1 DEF Unseal
    <3> QED BY <1>1, <2>0, <2>3, <2>13, <3>2 DEF Unseal, Past
  <2>14. CASE UnsealFails(t)
    <3>1. op' \in [Tab -> Ops] /\ Past' /\ store' \in [Tab -> Stores]
      BY <2>0, <2>1, <2>14, PastTypes DEF UnsealFails
    <3> QED BY <2>3, <2>14, <3>1 DEF UnsealFails
  <2>15. CASE Store(t)
    <3>1. op' \in [Tab -> Ops]
      BY <2>0, <2>1, <2>15 DEF Store
    <3> QED BY <1>1, <1>2, <2>1, <2>15, <3>1 DEF Store, Past
  <2>16. CASE PutSessionKey(t)
    <3>1. op' \in [Tab -> Ops] /\ Past'
      BY <2>0, <2>1, <2>16, PastTypes DEF PutSessionKey
    <3>2. store' \in [Tab -> Stores]
      <4>1. [authenticated |-> TRUE, user |-> TRUE, opened |-> store[t].opened, snapshot |-> op[t].seen] \in Stores
        BY <2>0, <2>1 DEF Stores
      <4> QED BY <1>1, <2>16, <4>1 DEF PutSessionKey
    <3> QED BY <1>1, <1>2, <2>1, <2>16, <3>1, <3>2 DEF PutSessionKey
  <2>17. CASE Refresh(t)
    <3>1. op' \in [Tab -> Ops] /\ Past'
      BY <2>0, <2>1, <2>17, PastTypes DEF Refresh
    <3> QED BY <1>1, <2>3, <2>17, <3>1 DEF Refresh
  <2>18. CASE OpenLocal(t)
    <3>1. op' \in [Tab -> Ops] /\ Past'
      BY <1>1, <2>0, <2>1, <2>18 DEF OpenLocal, Past
    <3>2. store' \in [Tab -> Stores]
      <4>1. [store[t] EXCEPT !.authenticated = TRUE, !.opened = store[t].user] \in Stores
        BY <2>0 DEF Stores
      <4> QED BY <1>1, <2>18, <4>1 DEF OpenLocal
    <3> QED BY <2>3, <2>18, <3>1, <3>2 DEF OpenLocal
  <2>19. CASE ChangePassword(t)
    <3>1. op' \in [Tab -> Ops] /\ Past'
      BY <2>0, <2>1, <2>19, PastTypes DEF ChangePassword
    <3>2. op[t].typed \in Password
      BY <1>3, <2>19 DEF ChangePassword, Held, At
    <3>3. writes' \subseteq [password : Password, by : {"register", "this session", "another"}]
      <4>1. [password |-> op[t].typed, by |-> "this session"]
              \in [password : Password, by : {"register", "this session", "another"}]
        BY <3>2
      <4>2. writes' = writes \cup {[password |-> op[t].typed, by |-> "this session"]}
        BY <2>19 DEF ChangePassword
      <4> QED BY <1>1, <4>1, <4>2
    <3> QED BY <1>1, <1>2, <2>19, <3>1, <3>3 DEF ChangePassword
  <2>20. CASE Logout(t) \/ DeleteWrapped(t)
    <3>1. [SignedOut EXCEPT !.opened = store[t].opened] \in Stores
      BY <2>0 DEF Stores
    <3>2. Forgets(t) => op' \in [Tab -> Ops] /\ store' \in [Tab -> Stores] /\ Past'
      BY <1>1, <2>0, <2>1, <3>1 DEF Forgets, Past
    <3>3. op' \in [Tab -> Ops] /\ store' \in [Tab -> Stores] /\ Past'
      BY <1>1, <2>0, <2>1, <2>20, <3>2, PastTypes DEF Logout, DeleteWrapped
    <3>4. Server' /\ Halves'
      BY <1>1, <2>2, <2>20 DEF Logout, DeleteWrapped, Outlived
    <3> QED BY <1>2, <3>3, <3>4
  <2>21. CASE LogoutFails(t)
    <3>1. op' \in [Tab -> Ops] /\ Past'
      BY <2>0, <2>21, PastTypes DEF LogoutFails
    <3> QED BY <1>1, <1>2, <2>21, <3>1 DEF LogoutFails, Outlived
  <2>22. CASE ClearWorkers(t)
    <3>1. op' \in [Tab -> Ops] /\ store' \in [Tab -> Stores]
      BY <2>0, <2>1, <2>22 DEF ClearWorkers
    <3> QED BY <1>1, <2>3, <2>22, <3>1 DEF ClearWorkers, Past
  <2>23. CASE CallFails(t) \/ PutAnswerLost(t)
    <3>1. op' \in [Tab -> Ops] /\ Past'
      BY <2>0, <2>23, PastTypes DEF CallFails, PutAnswerLost
    <3> QED BY <1>1, <1>2, <2>1, <2>23, <3>1 DEF CallFails, PutAnswerLost
  <2>24. CASE CallRefused(t)
    <3>1. op' \in [Tab -> Ops] /\ Past'
      BY <1>1, <2>0, <2>1, <2>24 DEF CallRefused, Past, Writing, At
    <3> QED BY <1>1, <2>3, <2>24, <3>1 DEF CallRefused
  <2>25. CASE DeleteFails(t)
    <3>1. op' \in [Tab -> Ops] /\ Past'
      BY <1>1, <2>0, <2>25 DEF DeleteFails, Past
    <3> QED BY <1>1, <2>3, <2>25, <3>1 DEF DeleteFails
  <2> QED
    BY <1>3, <2>4, <2>5, <2>6, <2>7, <2>8, <2>9, <2>10, <2>11, <2>12, <2>13, <2>14, <2>15,
       <2>16, <2>17,
             <2>18, <2>19, <2>20, <2>21, <2>22, <2>23, <2>24, <2>25 DEF Acts
<1>4. CASE \E w \in writes : Commit(w) \/ Abort(w)
  <2>1. PICK w \in writes : Commit(w) \/ Abort(w)
    BY <1>4
  <2>2. w.password \in SomePassword
    BY <1>1 DEF SomePassword
  <2>3. CASE Commit(w)
    <3>1. UNCHANGED <<sessionKey, wrapped, op, store, pastVars>>
      BY <2>3 DEF Commit
    <3>2. Server' /\ cookie' \in {"none", "live", "revoked", "gone"}
      BY <1>1, <2>2, <2>3 DEF Commit
    <3> QED BY <1>1, <1>2, <3>1, <3>2 DEF Past, pastVars
  <2>4. CASE Abort(w)
    <3>1. Server' /\ UNCHANGED <<halves, op, store, pastVars>>
      BY <1>1, <2>4 DEF Abort
    <3> QED BY <1>1, <1>2, <3>1 DEF Past, pastVars, halves
  <2> QED BY <2>1, <2>3, <2>4
<1>5. CASE UNCHANGED vars
  BY <1>1, <1>2, <1>5 DEF vars, accountVars, halves, pastVars, Past
<1> QED BY <1>3, <1>4, <1>5, Steps

-----------------------------------------------------------------------------
(* The store of a tab *)

\* The parts of a tab that a step may set, as they are after it
LEMMA Sets ==
  ASSUME CustodyTypeOK, NEW t \in Tab
  PROVE  /\ \A s : Goes(t, s) => op'[t] = [op[t] EXCEPT !.at = s] /\ op'[t].at = s
         /\ \A s : Ends(t, s) => op'[t] = Idle(s) /\ op'[t].at = s
         /\ \A p : Types(t, p) => op'[t].at = "typed" /\ op'[t].typed = p
         /\ op[t].at \in Stage
<1>1. op \in [Tab -> Ops] /\ op[t] \in Ops
  BY CustodyTypes
<1> QED BY <1>1 DEF Goes, Ends, Types, Idle, Ops

\* A step of one tab leaves the others as they are.
LEMMA OtherTabs ==
  ASSUME NEW t \in Tab, Acts(t), CustodyTypeOK, NEW u \in Tab, u # t
  PROVE  op'[u] = op[u] /\ store'[u] = store[u] /\ (u \in blind' <=> u \in blind)
<1>1. DOMAIN op = Tab /\ DOMAIN store = Tab
  BY CustodyTypes
<1> USE <1>1 DEF Goes, Ends, Types, pastVars, BeginsToWrite, BeginsToRead, EndsWell, IsCutOff
<1>2. CASE (\E p \in Password : SignUp(t, p) \/ SignIn(t, p)) \/ (\E p, q \in Password : Change(t, p, q))
  BY <1>2 DEF SignUp, SignIn, Change
<1>3. CASE SignOut(t) \/ Reload(t) \/ AccountVerified(t) \/ Challenge(t) \/ Prove(t) \/ ProofFails(t) \/ ReadKeys(t)
  BY <1>3 DEF SignOut, Reload, AccountVerified, LearnsUser, Challenge, Prove, ProofFails, ReadKeys
<1>4. CASE Unseal(t) \/ UnsealFails(t) \/ Store(t) \/ PutSessionKey(t)
  BY <1>4 DEF Unseal, UnsealFails, Store, PutSessionKey
<1>5. CASE Refresh(t) \/ RefreshUser(t) \/ FetchSessionKey(t) \/ OpenLocal(t) \/ OpenLocalFails(t)
  BY <1>5 DEF Refresh, RefreshUser, LearnsUser, FetchSessionKey, OpenLocal, OpenLocalFails
<1>6. CASE ChangePassword(t) \/ LogoutFails(t) \/ ClearWorkers(t) \/ DeleteFails(t)
  BY <1>6 DEF ChangePassword, LogoutFails, ClearWorkers, DeleteFails
<1>7. CASE Logout(t) \/ DeleteWrapped(t)
  BY <1>7 DEF Logout, DeleteWrapped, Forgets
<1>8. CASE CallFails(t) \/ PutAnswerLost(t) \/ CallRefused(t) \/ LoadFails(t)
  BY <1>8 DEF CallFails, PutAnswerLost, CallRefused, LoadFails
<1> QED BY <1>2, <1>3, <1>4, <1>5, <1>6, <1>7, <1>8 DEF Acts

LEMMA OwnHeld ==
  ASSUME CustodyTypeOK, NEW t \in Tab, Held(t), Acts(t)
  PROVE  Held(t)'
<1>0. /\ \A s : Goes(t, s) => op'[t] = [op[t] EXCEPT !.at = s] /\ op'[t].at = s
      /\ \A s : Ends(t, s) => op'[t] = Idle(s) /\ op'[t].at = s
      /\ \A p : Types(t, p) => op'[t].at = "typed" /\ op'[t].typed = p
      /\ op[t].at \in Stage
  BY Sets
<1>1. /\ op[t] \in Ops /\ store[t] \in Stores /\ op \in [Tab -> Ops] /\ store \in [Tab -> Stores]
      /\ t \in DOMAIN op /\ t \in DOMAIN store
  BY CustodyTypes
<1> USE <1>0, <1>1 DEF At, pastVars, BeginsToWrite, BeginsToRead, EndsWell, IsCutOff, Rest
<1>2. CASE \E p \in Password : SignUp(t, p) \/ SignIn(t, p)
  BY <1>2 DEF SignUp, SignIn, Held
<1>3. CASE \E p, q \in Password : Change(t, p, q)
  <2>1. PICK q \in Password : op' = [op EXCEPT ![t] = [Idle("changing") EXCEPT !.typed = q, !.seen = q]]
    BY <1>3 DEF Change
  <2>2. op'[t].at = "changing" /\ op'[t].typed = q
    BY <2>1 DEF Idle
  <2> QED BY <1>3, <2>2 DEF Change, Held
<1>4. CASE SignOut(t) \/ OpenLocalFails(t) \/ LoadFails(t) \/ CallRefused(t)
  <2>1. op[t].at # "deleting" /\ op'[t].at = "leaving" /\ store' = store /\ blind' = blind
    BY <1>4 DEF SignOut, OpenLocalFails, LoadFails, CallRefused
  <2> QED BY <2>1 DEF Held
<1>5. CASE Reload(t)
  <2>1. op'[t].at = "loading" /\ store'[t] = SignedOut
    BY <1>5 DEF Reload
  <2> QED BY <2>1 DEF Held, SignedOut
<1>6. CASE AccountVerified(t) \/ RefreshUser(t)
  <2>1. blind' = blind /\ (LearnsUser(t) => store'[t] = [store[t] EXCEPT !.user = TRUE, !.snapshot = sealed])
    BY <1>6 DEF AccountVerified, RefreshUser, LearnsUser
  <2>2. CASE AccountVerified(t)
    <3>1. op' = op /\ op[t].at = "in" /\ ~ store[t].user /\ LearnsUser(t)
      BY <2>2 DEF AccountVerified
    <3>2. store'[t].authenticated = store[t].authenticated /\ t \in blind'
      BY <2>1, <3>1 DEF Held, Stores
    <3> QED BY <3>1, <3>2 DEF Held
  <2>3. CASE RefreshUser(t)
    <3>1. op[t].at = "refreshed" /\ op'[t].at = "fetching"
      BY <2>3 DEF RefreshUser
    <3>2. store'[t].authenticated = store[t].authenticated
      BY <2>1, <2>3 DEF RefreshUser, Stores
    <3> QED BY <3>1, <3>2 DEF Held
  <2> QED BY <1>6, <2>2, <2>3
<1>7. CASE Challenge(t)
  <2>1. CASE verifier = None
    BY <1>7, <2>1 DEF Challenge, Held
  <2>2. CASE verifier # None
    <3>1. op'[t].at = "challenged" /\ op'[t].typed = op[t].typed
      BY <1>7, <2>2 DEF Challenge, Ops
    <3> QED BY <1>7, <3>1 DEF Challenge, Held
  <2> QED BY <2>1, <2>2
<1>8. CASE Prove(t) \/ ProofFails(t)
  <2>1. op[t].at = "challenged" /\ store' = store
    BY <1>8 DEF Prove, ProofFails
  <2>2. op'[t].at \in {"out", "leaving"} \/ (op'[t].at = "proved" /\ op'[t].typed = op[t].typed)
    BY <1>8 DEF Prove, ProofFails, Ops
  <2> QED BY <2>1, <2>2 DEF Held
<1>9. CASE ReadKeys(t)
  <2>1. op'[t].at = "reading" /\ op'[t].typed = op[t].typed
    BY <1>9 DEF ReadKeys, Ops
  <2> QED BY <1>9, <2>1 DEF ReadKeys, Held
<1>10. CASE Unseal(t)
  <2>1. op'[t].at = "unsealed" /\ op'[t].fragment \in Fragment
    BY <1>10, FreshExists DEF Unseal, Ops
  <2>2. store'[t] = [store[t] EXCEPT !.opened = TRUE] /\ blind' = blind
    BY <1>10 DEF Unseal
  <2> QED BY <1>10, <2>1, <2>2 DEF Unseal, Held, Stores
<1>11. CASE UnsealFails(t)
  BY <1>11 DEF UnsealFails, Held, Stores
<1>12. CASE Store(t)
  <2>1. op'[t].at = "stored" /\ op'[t].fragment = op[t].fragment
    BY <1>12 DEF Store, Ops
  <2> QED BY <1>12, <2>1 DEF Store, Held
<1>13. CASE PutSessionKey(t)
  BY <1>13 DEF PutSessionKey, Held, Stores
<1>14. CASE Refresh(t)
  <2>1. op[t].at = "loading" /\ op'[t].at = "refreshed" /\ store' = store
    BY <1>14 DEF Refresh
  <2> QED BY <2>1 DEF Held
<1>15. CASE FetchSessionKey(t)
  <2>1. op'[t].at = "fetched"
    BY <1>15 DEF FetchSessionKey, Ops
  <2> QED BY <1>15, <2>1 DEF FetchSessionKey, Held
<1>16. CASE OpenLocal(t)
  <2>1. op'[t].at = "in" /\ store'[t] = [store[t] EXCEPT !.authenticated = TRUE, !.opened = store[t].user]
    BY <1>16 DEF OpenLocal
  <2> QED BY <1>16, <2>1 DEF OpenLocal, Held, Stores
<1>17. CASE ChangePassword(t)
  <2>1. op[t].at = "changing" /\ store' = store /\ blind' = blind
    BY <1>17 DEF ChangePassword
  <2>2. op'[t].at = "in" \/ (op'[t].at = "changed" /\ op'[t].typed = op[t].typed)
    BY <1>17 DEF ChangePassword, Ops
  <2> QED BY <2>1, <2>2 DEF Held
<1>18. CASE Logout(t) \/ DeleteWrapped(t)
  <2>1. Forgets(t) => op'[t].at = "out" /\ store'[t].authenticated = FALSE
    BY DEF Forgets, SignedOut
  <2>2. \/ Forgets(t)
        \/ op[t].at = "leaving" /\ op'[t].at = "clearing" /\ store' = store /\ blind' = blind
    BY <1>18 DEF Logout, DeleteWrapped
  <2>3. CASE Forgets(t)
    BY <2>1, <2>3 DEF Held
  <2>4. CASE op[t].at = "leaving" /\ op'[t].at = "clearing" /\ store' = store /\ blind' = blind
    BY <2>4 DEF Held
  <2> QED BY <2>2, <2>3, <2>4
<1>19. CASE LogoutFails(t)
  BY <1>19 DEF LogoutFails, Held, Stores
<1>20. CASE ClearWorkers(t)
  <2>1. op[t].at = "clearing" /\ op'[t].at = "deleting" /\ blind' = blind
    BY <1>20 DEF ClearWorkers
  <2>2. store'[t].authenticated = store[t].authenticated /\ store'[t].user = store[t].user
    BY <1>20 DEF ClearWorkers, Stores
  <2> QED BY <2>1, <2>2 DEF Held
<1>21. CASE CallFails(t) \/ PutAnswerLost(t)
  BY <1>21 DEF CallFails, PutAnswerLost, Held, Stores
<1>22. CASE DeleteFails(t)
  <2>1. op'[t].at \in {"in", "out"} /\ (op'[t].at = "in" <=> store[t].authenticated) /\ store' = store
    BY <1>22 DEF DeleteFails
  <2>2. store[t].authenticated => t \in blind'
    BY <1>22 DEF DeleteFails
  <2> QED BY <2>1, <2>2 DEF Held
<1> QED
  BY <1>2, <1>3, <1>4, <1>5, <1>6, <1>7, <1>8, <1>9, <1>10, <1>11, <1>12, <1>13, <1>14, <1>15,
     <1>16, <1>17,
           <1>18, <1>19, <1>20, <1>21, <1>22 DEF Acts

LEMMA HeldStays ==
  ASSUME CustodyTypeOK, \A t \in Tab : Held(t), [Next]_vars
  PROVE  \A t \in Tab : Held(t)'
<1>1. ASSUME NEW t \in Tab, Acts(t), NEW u \in Tab  PROVE Held(u)'
  <2>1. CASE u = t
    BY <1>1, <2>1, OwnHeld
  <2>2. CASE u # t
    <3>1. op'[u] = op[u] /\ store'[u] = store[u] /\ (u \in blind' <=> u \in blind) /\ Held(u)
      BY <1>1, <2>2, OtherTabs
    <3> QED BY <3>1 DEF Held, At
  <2> QED BY <2>1, <2>2
<1>2. CASE (\E w \in writes : Commit(w) \/ Abort(w)) \/ UNCHANGED vars
  <2>1. UNCHANGED <<op, store, blind>>
    BY <1>2 DEF Commit, Abort, vars, pastVars
  <2> QED BY <2>1 DEF Held, At
<1> QED BY <1>1, <1>2, Steps

-----------------------------------------------------------------------------
(* Sections over the two halves *)

\* How a step of tab t begins or leaves a section
LEMMA Sections ==
  ASSUME CustodyTypeOK, NEW t \in Tab, Acts(t)
  PROVE  \/ alone' = alone /\ (Writing(t)' => Writing(t)) /\ (Reading(t)' => Reading(t))
         \/ BeginsToWrite(t) /\ Writing(t)'
         \/ BeginsToRead(t) /\ ~ Writing(t)'
         \/ alone' = {}
<1>0. /\ \A s : Goes(t, s) => op'[t].at = s
      /\ \A s : Ends(t, s) => op'[t].at = s
      /\ \A p : Types(t, p) => op'[t].at = "typed"
      /\ op[t] \in Ops /\ t \in DOMAIN op
  BY Sets, CustodyTypes
<1> USE <1>0 DEF Writing, Reading, At, pastVars, Rest, EndsWell, IsCutOff
<1>1. CASE (\E p \in Password : SignUp(t, p) \/ SignIn(t, p))
  BY <1>1 DEF SignUp, SignIn
<1>2. CASE \E p, q \in Password : Change(t, p, q)
  <2>1. op'[t].at = "changing" /\ alone' = alone
    BY <1>2 DEF Change, Idle
  <2> QED BY <2>1
<1>3. CASE SignOut(t) \/ OpenLocalFails(t) \/ LoadFails(t) \/ Prove(t) \/ ProofFails(t)
  BY <1>3 DEF SignOut, OpenLocalFails, LoadFails, Prove, ProofFails
<1>4. CASE Refresh(t) \/ CallRefused(t)
  BY <1>4 DEF Refresh, CallRefused
<1>5. CASE Reload(t) \/ AccountVerified(t) \/ RefreshUser(t) \/ OpenLocal(t)
  BY <1>5 DEF Reload, AccountVerified, RefreshUser, OpenLocal
<1>6. CASE Challenge(t)
  <2>1. op'[t].at \in {"out", "challenged"} /\ alone' = alone
    BY <1>6 DEF Challenge, Ops
  <2> QED BY <2>1
<1>7. CASE ReadKeys(t) \/ FetchSessionKey(t) \/ Unseal(t)
  <2>1. op'[t].at \in {"reading", "fetched", "unsealed"} /\ alone' = alone
    BY <1>7 DEF ReadKeys, FetchSessionKey, Unseal, Ops
  <2>2. (Writing(t)' => Writing(t)) /\ (Reading(t)' => Reading(t))
    BY <1>7 DEF ReadKeys, FetchSessionKey, Unseal, Ops
  <2> QED BY <2>1, <2>2
<1>8. CASE UnsealFails(t) \/ Store(t) \/ PutSessionKey(t)
  BY <1>8 DEF UnsealFails, Store, PutSessionKey
<1>9. CASE ChangePassword(t)
  BY <1>9 DEF ChangePassword
<1>10. CASE Logout(t) \/ ClearWorkers(t) \/ DeleteWrapped(t) \/ DeleteFails(t)
  BY <1>10 DEF Logout, ClearWorkers, DeleteWrapped, DeleteFails, Forgets
<1>11. CASE LogoutFails(t) \/ CallFails(t) \/ PutAnswerLost(t)
  BY <1>11 DEF LogoutFails, CallFails, PutAnswerLost
<1> QED BY <1>1, <1>2, <1>3, <1>4, <1>5, <1>6, <1>7, <1>8, <1>9, <1>10, <1>11 DEF Acts

\* A section that is alone stays the only one that writes.
LEMMA SecludedStays ==
  ASSUME CustodyTypeOK, Secluded, NEW t \in Tab, Acts(t)
  PROVE  Secluded' /\ \A u \in alone' : u # t => u \in alone
<1>1. alone \subseteq Tab
  BY CustodyTypes
<1>2. \A u \in Tab : u # t => (Writing(u)' <=> Writing(u)) /\ (Reading(u)' <=> Reading(u))
  BY OtherTabs DEF Writing, Reading, At
<1>3. CASE alone' = alone /\ (Writing(t)' => Writing(t)) /\ (Reading(t)' => Reading(t))
  BY <1>1, <1>2, <1>3 DEF Secluded, OtherWrites
<1>4. CASE BeginsToWrite(t) /\ Writing(t)'
  BY <1>1, <1>2, <1>4 DEF Secluded, OtherWrites, BeginsToWrite
<1>5. CASE BeginsToRead(t) /\ ~ Writing(t)'
  BY <1>1, <1>2, <1>5 DEF Secluded, OtherWrites, BeginsToRead
<1>6. CASE alone' = {}
  BY <1>6 DEF Secluded
<1> QED BY <1>3, <1>4, <1>5, <1>6, Sections

\* Whoever does not write leaves the halves alone.
LEMMA Quiet ==
  ASSUME CustodyTypeOK, NEW t \in Tab, Acts(t), ~ Writing(t), ~ Writing(t)'
  PROVE  UNCHANGED <<cookie, sessionKey, wrapped, torn>>
<1>0. /\ \A s : Goes(t, s) => op'[t].at = s
      /\ \A s : Ends(t, s) => op'[t].at = s
      /\ torn \in BOOLEAN
  BY Sets, CustodyTypes
<1> USE <1>0 DEF Writing, At, pastVars, halves, EndsWell, IsCutOff, BeginsToWrite, BeginsToRead
<1>1. CASE (\E p \in Password : SignUp(t, p) \/ SignIn(t, p)) \/ (\E p, q \in Password : Change(t, p, q))
  BY <1>1 DEF SignUp, SignIn, Change
<1>2. CASE SignOut(t) \/ Reload(t) \/ AccountVerified(t) \/ Challenge(t) \/ ProofFails(t) \/ ReadKeys(t)
  BY <1>2 DEF SignOut, Reload, AccountVerified, Challenge, ProofFails, ReadKeys
<1>3. CASE Prove(t)
  BY <1>3 DEF Prove
<1>4. CASE Unseal(t) \/ UnsealFails(t) \/ Store(t) \/ PutSessionKey(t)
  BY <1>4 DEF Unseal, UnsealFails, Store, PutSessionKey
<1>5. CASE Refresh(t) \/ RefreshUser(t) \/ FetchSessionKey(t) \/ OpenLocal(t) \/ OpenLocalFails(t)
  BY <1>5 DEF Refresh, RefreshUser, FetchSessionKey, OpenLocal, OpenLocalFails
<1>6. CASE ChangePassword(t)
  BY <1>6 DEF ChangePassword
<1>7. CASE Logout(t) \/ LogoutFails(t) \/ ClearWorkers(t) \/ DeleteWrapped(t) \/ DeleteFails(t)
  BY <1>7 DEF Logout, LogoutFails, ClearWorkers, DeleteWrapped, DeleteFails
<1>8. CASE CallFails(t) \/ PutAnswerLost(t) \/ CallRefused(t) \/ LoadFails(t)
  BY <1>8 DEF CallFails, PutAnswerLost, CallRefused, LoadFails
<1> QED BY <1>1, <1>2, <1>3, <1>4, <1>5, <1>6, <1>7, <1>8 DEF Acts

\* The steps that bring a tab to the places that Alone speaks of
LEMMA Arrivals ==
  ASSUME CustodyTypeOK, NEW t \in Tab, Acts(t)
  PROVE  /\ op'[t].at = "stored" => Store(t)
         /\ op'[t].at = "clearing" => Logout(t) /\ cookie' # "live"
         /\ op'[t].at = "deleting" => ClearWorkers(t)
         /\ op'[t].at = "fetched" => FetchSessionKey(t)
<1>0. /\ \A s : Goes(t, s) => op'[t].at = s
      /\ \A s : Ends(t, s) => op'[t].at = s
      /\ \A p : Types(t, p) => op'[t].at = "typed"
      /\ op[t] \in Ops /\ t \in DOMAIN op
  BY Sets, CustodyTypes
<1> USE <1>0 DEF At, Rest
<1>1. CASE (\E p \in Password : SignUp(t, p) \/ SignIn(t, p))
  BY <1>1 DEF SignUp, SignIn
<1>2. CASE \E p, q \in Password : Change(t, p, q)
  <2>1. op'[t].at = "changing"
    BY <1>2 DEF Change, Idle
  <2> QED BY <2>1
<1>3. CASE SignOut(t) \/ OpenLocalFails(t) \/ LoadFails(t) \/ Prove(t) \/ Refresh(t) \/ CallRefused(t)
  BY <1>3 DEF SignOut, OpenLocalFails, LoadFails, Prove, Refresh, CallRefused
<1>4. CASE Reload(t) \/ AccountVerified(t) \/ ProofFails(t) \/ RefreshUser(t) \/ OpenLocal(t)
  BY <1>4 DEF Reload, AccountVerified, ProofFails, RefreshUser, OpenLocal
<1>5. CASE Challenge(t)
  <2>1. op'[t].at \in {"out", "challenged"}
    BY <1>5 DEF Challenge, Ops
  <2> QED BY <2>1
<1>6. CASE ReadKeys(t) \/ Unseal(t)
  <2>1. op'[t].at \in {"reading", "unsealed"}
    BY <1>6 DEF ReadKeys, Unseal, Ops
  <2> QED BY <2>1
<1>7. CASE FetchSessionKey(t)
  <2>1. op'[t].at = "fetched"
    BY <1>7 DEF FetchSessionKey, Ops
  <2> QED BY <1>7, <2>1
<1>8. CASE UnsealFails(t) \/ Store(t) \/ PutSessionKey(t) \/ ChangePassword(t)
  BY <1>8 DEF UnsealFails, Store, PutSessionKey, ChangePassword
<1>9. CASE Logout(t) \/ ClearWorkers(t) \/ DeleteWrapped(t) \/ DeleteFails(t)
  BY <1>9 DEF Logout, Outlived, ClearWorkers, DeleteWrapped, DeleteFails, Forgets
<1>10. CASE LogoutFails(t) \/ CallFails(t) \/ PutAnswerLost(t)
  BY <1>10 DEF LogoutFails, CallFails, PutAnswerLost
<1> QED BY <1>1, <1>2, <1>3, <1>4, <1>5, <1>6, <1>7, <1>8, <1>9, <1>10 DEF Acts

\* What a section has brought about while it was alone stays so as long as it is.
LEMMA AloneStays ==
  ASSUME CustodyTypeOK, Secluded, \A u \in alone : Alone(u), Paired, NEW t \in Tab, Acts(t)
  PROVE  \A u \in alone' : Alone(u)'
<1>1. /\ alone \subseteq Tab /\ op[t] \in Ops /\ t \in DOMAIN op
      /\ Secluded' /\ \A u \in alone' : u # t => u \in alone
  BY CustodyTypes, SecludedStays
<1>2. ASSUME NEW u \in alone', u # t  PROVE Alone(u)'
  <2>1. u \in alone /\ u \in Tab /\ op'[u] = op[u] /\ Alone(u)
    BY <1>1, <1>2, OtherTabs
  <2>2. CASE Writing(u) \/ Reading(u)
    <3>1. Writing(u)' \/ Reading(u)'
      BY <2>1, <2>2 DEF Writing, Reading, At
    <3>2. ~ Writing(t) /\ ~ Writing(t)'
      BY <1>1, <1>2, <2>1, <2>2, <3>1 DEF Secluded, OtherWrites
    <3>3. UNCHANGED <<cookie, wrapped, torn>>
      BY <3>2, Quiet
    <3> QED BY <2>1, <3>3 DEF Alone, At
  <2>3. CASE ~ Writing(u) /\ ~ Reading(u)
    BY <2>1, <2>3 DEF Alone, At, Writing, Reading
  <2> QED BY <2>2, <2>3
<1>3. ASSUME t \in alone'  PROVE Alone(t)'
  <2>1. CASE op'[t].at = "stored"
    <3>1. Store(t)
      BY <2>1, Arrivals
    <3>2. wrapped' = op[t].fragment /\ op'[t].fragment = op[t].fragment
      BY <1>1, <3>1 DEF Store, Goes, Ops
    <3> QED BY <2>1, <3>2 DEF Alone, At
  <2>2. CASE op'[t].at = "clearing"
    <3>1. cookie' # "live"
      BY <2>2, Arrivals
    <3> QED BY <2>2, <3>1 DEF Alone, At
  <2>3. CASE op'[t].at = "deleting"
    <3>1. ClearWorkers(t)
      BY <2>3, Arrivals
    <3>2. t \in alone /\ op[t].at = "clearing" /\ cookie' = cookie
      BY <1>3, <3>1 DEF ClearWorkers, pastVars, halves, At
    <3> QED BY <2>3, <3>2 DEF Alone, At
  <2>4. CASE op'[t].at = "fetched"
    <3>1. FetchSessionKey(t)
      BY <2>4, Arrivals
    <3>2. /\ t \in alone /\ op[t].at = "fetching" /\ cookie = "live" /\ UNCHANGED <<torn, wrapped>>
          /\ op'[t].fragment = sessionKey
      BY <1>1, <1>3, <3>1 DEF FetchSessionKey, Admitted, pastVars, halves, At, Ops
    <3>3. \A u \in Tab : ~ Writing(u)
      BY <3>2 DEF Secluded, OtherWrites, Writing, Reading, At
    <3>4. ~ torn' => wrapped' # None /\ op'[t].fragment = wrapped'
      BY <3>2, <3>3 DEF Paired
    <3> QED BY <2>4, <3>4 DEF Alone, At
  <2>5. CASE op'[t].at \notin {"stored", "clearing", "deleting", "fetched"}
    BY <2>5 DEF Alone, At
  <2> QED BY <2>1, <2>2, <2>3, <2>4, <2>5
<1> QED BY <1>2, <1>3

\* The only good end of a section, with a cookie, is that of PutSessionKey.
LEMMA GoodEnd ==
  ASSUME CustodyTypeOK, NEW t \in Tab, Acts(t), \A u \in alone : Alone(u),
         Writing(t), ~ Writing(t)', ~ torn', cookie' = "live"
  PROVE  PutSessionKey(t) /\ t \in alone
<1>0. /\ \A s : Goes(t, s) => op'[t].at = s
      /\ \A s : Ends(t, s) => op'[t].at = s
      /\ op[t] \in Ops /\ t \in DOMAIN op
  BY Sets, CustodyTypes
<1> USE <1>0 DEF Writing, At, pastVars, halves, EndsWell, IsCutOff, BeginsToWrite, BeginsToRead
<1>1. CASE (\E p \in Password : SignUp(t, p) \/ SignIn(t, p)) \/ (\E p, q \in Password : Change(t, p, q))
  BY <1>1 DEF SignUp, SignIn, Change
<1>2. CASE SignOut(t) \/ Reload(t) \/ AccountVerified(t) \/ Challenge(t) \/ ProofFails(t) \/ Prove(t)
  BY <1>2 DEF SignOut, Reload, AccountVerified, Challenge, ProofFails, Prove
<1>3. CASE ReadKeys(t) \/ Unseal(t)
  <2>1. op'[t].at \in {"reading", "unsealed"}
    BY <1>3 DEF ReadKeys, Unseal, Ops
  <2> QED BY <2>1
<1>4. CASE UnsealFails(t) \/ Store(t) \/ PutSessionKey(t)
  BY <1>4 DEF UnsealFails, Store, PutSessionKey
<1>5. CASE Refresh(t) \/ RefreshUser(t) \/ FetchSessionKey(t) \/ OpenLocal(t) \/ OpenLocalFails(t)
  BY <1>5 DEF Refresh, RefreshUser, FetchSessionKey, OpenLocal, OpenLocalFails
<1>6. CASE ChangePassword(t)
  BY <1>6 DEF ChangePassword
<1>7. CASE Logout(t) \/ LogoutFails(t) \/ ClearWorkers(t) \/ DeleteFails(t)
  BY <1>7 DEF Logout, Outlived, LogoutFails, ClearWorkers, DeleteFails
<1>8. CASE DeleteWrapped(t)
  <2>1. t \in alone /\ op[t].at = "deleting" /\ cookie' = cookie
    BY <1>8 DEF DeleteWrapped, Forgets
  <2> QED BY <2>1 DEF Alone
<1>9. CASE CallFails(t) \/ PutAnswerLost(t) \/ CallRefused(t) \/ LoadFails(t)
  BY <1>9 DEF CallFails, PutAnswerLost, CallRefused, LoadFails
<1> QED BY <1>1, <1>2, <1>3, <1>4, <1>5, <1>6, <1>7, <1>8, <1>9 DEF Acts

\* The halves belong together again after each section that was alone.
LEMMA PairedStays ==
  ASSUME CustodyTypeOK, \A u \in Tab : Held(u), Secluded, \A u \in alone : Alone(u), Paired, NEW t \in Tab, Acts(t)
  PROVE  Paired'
<1> SUFFICES ASSUME ~ torn', cookie' = "live", \A u \in Tab : ~ Writing(u)'
             PROVE  wrapped' # None /\ sessionKey' = wrapped'
  BY DEF Paired
<1>1. \A u \in Tab : u # t => ~ Writing(u)
  BY OtherTabs DEF Writing, At
<1>2. CASE Writing(t)
  <2>1. PutSessionKey(t) /\ t \in alone
    BY <1>2, GoodEnd
  <2>2. wrapped = op[t].fragment /\ op[t].fragment \in Fragment
    BY <2>1 DEF PutSessionKey, Alone, Held, At
  <2> QED BY <2>1, <2>2, CustodyAssumption DEF PutSessionKey
<1>3. CASE ~ Writing(t)
  <2>1. UNCHANGED <<cookie, sessionKey, wrapped, torn>>
    BY <1>3, Quiet
  <2> QED BY <1>1, <1>3, <2>1 DEF Paired
<1> QED BY <1>2, <1>3

-----------------------------------------------------------------------------
(* The invariant, and what follows from it *)

LEMMA InitHolds ==
  ASSUME Init
  PROVE  IInv
<1>1. CustodyTypeOK
  BY CustodyTypes DEF Init, SomePassword, SomeFragment, Ops, Stores, Idle, SignedOut, Stage
<1>2. (\A t \in Tab : Held(t)) /\ Secluded /\ (\A t \in alone : Alone(t)) /\ Paired
  BY DEF Init, Held, Secluded, Paired, At, Idle, SignedOut
<1> QED BY <1>1, <1>2 DEF IInv

LEMMA StepHolds ==
  ASSUME IInv, [Next]_vars
  PROVE  IInv'
<1>1. /\ CustodyTypeOK /\ (\A t \in Tab : Held(t)) /\ Secluded /\ (\A t \in alone : Alone(t)) /\ Paired
  BY DEF IInv
<1>2. CustodyTypeOK' /\ \A t \in Tab : Held(t)'
  BY <1>1, TypesStay, HeldStays
<1>3. ASSUME NEW t \in Tab, Acts(t)
      PROVE  Secluded' /\ (\A u \in alone' : Alone(u)') /\ Paired'
  BY <1>1, <1>3, SecludedStays, AloneStays, PairedStays
<1>4. CASE \E w \in writes : Commit(w) \/ Abort(w)
  <2>1. UNCHANGED <<sessionKey, wrapped, op, alone, torn>> /\ (cookie' = "live" => cookie = "live")
    BY <1>4 DEF Commit, Abort, halves, pastVars
  <2>2. Secluded' /\ (\A u \in alone' : Alone(u)') /\ Paired'
    BY <1>1, <2>1 DEF Secluded, OtherWrites, Alone, Paired, Writing, Reading, At
  <2> QED BY <1>2, <2>2 DEF IInv
<1>5. CASE UNCHANGED vars
  <2>1. UNCHANGED <<sessionKey, wrapped, op, alone, torn, cookie>>
    BY <1>5 DEF vars, halves, pastVars
  <2>2. Secluded' /\ (\A u \in alone' : Alone(u)') /\ Paired'
    BY <1>1, <2>1 DEF Secluded, OtherWrites, Alone, Paired, Writing, Reading, At
  <2> QED BY <1>2, <2>2 DEF IInv
<1>6. CASE \E t \in Tab : Acts(t)
  BY <1>2, <1>3, <1>6 DEF IInv
<1> QED BY <1>4, <1>5, <1>6, Steps

\* The invariant holds all along.
THEOREM Invariance == Spec => []IInv
<1>1. Init => IInv
  BY InitHolds
<1>2. IInv /\ [Next]_vars => IInv'
  BY StepHolds
<1> QED BY <1>1, <1>2, PTL DEF Spec

\* Every variable keeps its type: there is always a fragment that is nowhere else, and no
\* change of password brings an empty one into the database.
THEOREM TypesHold == Spec => []CustodyTypeOK
<1>1. IInv => CustodyTypeOK
  BY DEF IInv
<1> QED BY <1>1, Invariance, PTL

\* A tab that shows a signed-in user can decrypt, whatever the other tabs do, unless
\* validateSession let it in without a user or its sign-out failed after it had cleared its
\* workers (signIn, validateSession, useResetPasswordMutation, signOut).
THEOREM TheKeyIsAtHand == Spec => []KeyAtHand
<1>1. IInv => KeyAtHand
  BY DEF IInv, KeyAtHand, Held, At
<1> QED BY <1>1, Invariance, PTL

\* A reload fails on the halves of the key only if it met a section of another tab, or if
\* the last of these was cut off or met another (validateSession, initializeFromLocal).
THEOREM ReloadsAloneReopen == Spec => ReopensAlone
<1>1. ASSUME IInv, NEW t \in Tab, OpenLocalFails(t)
      PROVE  torn \/ t \notin alone
  BY <1>1 DEF IInv, Alone, OpenLocalFails, Opens, At
<1>2. IInv /\ [Next]_vars => [\A t \in Tab : OpenLocalFails(t) => torn \/ t \notin alone]_vars
  BY <1>1
<1> QED BY <1>2, Invariance, PTL DEF Spec, ReopensAlone
=============================================================================
