------------------------- MODULE AuthSessionsProofs -------------------------
(***************************************************************************)
(* Proofs about AuthSessions, for any browsers, tabs and requests.  The    *)
(* inductive invariant IInv adds to the types what a tab that is loading   *)
(* may have under way (Loading), that a cookie or a token is missing only   *)
(* where the session has been deleted (Gone), and for what reasons a        *)
(* session, a renewal or a tab can end (Reasons).                          *)
(***************************************************************************)
EXTENDS AuthSessions, TLAPS

\* A tab that is loading has sent no request and renews for none; it signs out only when
\* its renewal is over.
Loading ==
  /\ \A t \in Tab : refresher[t] # None => Sender[refresher[t]] = t
  /\ \A t \in Tab : tab[t] = "loading" => refresher[t] = None /\ (refresh[t] = "no" \/ logout[t] = "no")
  /\ \A r \in Request : tab[Sender[r]] = "loading" => req[r] = "idle"

\* The session is gone where a cookie or a token is missing, and where a sign-out was answered.
Gone ==
  /\ \A b \in Browser : cookie[b] = "none" => b \notin sessions
  /\ \A t \in Tab : refresh[t] # "no" /\ token[t] = "none" => Home[t] \notin sessions
  /\ SignOutIsThorough

Reasons ==
  /\ Browser \ sessions \subseteq troubled /\ revoked \subseteq troubled
  /\ \A t \in Tab : refresh[t] = "refused" \/ logout[t] # "no" => Home[t] \in troubled
  /\ SignedOutForAReason

IInv == AuthTypeOK /\ Loading /\ Gone /\ Reasons

-----------------------------------------------------------------------------
(* The steps, by what they move *)

\* A step of a request that is neither a renewal nor the answer to one
Moves(r) ==
  Send(r) \/ LooksInCache(r) \/ LooksInDatabase(r) \/ CachesSession(r) \/ HearsAnswer(r) \/ LosesRequest(r)

\* A step of a tab
Acts(t) ==
  \/ RefreshReads(t) \/ RefreshWrites(t) \/ Refreshed(t) \/ NotRefreshed(t) \/ LosesRefresh(t)
  \/ UserSignsOut(t) \/ LogoutDeletes(t) \/ SignedOut(t) \/ LosesLogout(t)

Changes == (\E b \in Browser : ChangeBegins(b)) \/ ChangeForgets \/ ChangeCommits \/ ChangeFails

LEMMA Steps ==
  ASSUME [Next]_vars
  PROVE  \/ \E r \in Request : Moves(r) \/ HearsUnauthorized(r)
         \/ \E t \in Tab : Acts(t)
         \/ \E b \in Browser : CacheExpires(b) \/ AccessExpires(b)
         \/ Changes
         \/ UNCHANGED vars
BY DEF Next, Calls, Logouts, Mishaps, Moves, Acts, Changes

Stages == {"idle", "sent", "looking", "caching", "passed", "forbidden",
           "unauthorized", "refreshing", "queued", "ok", "failed"}

\* Such a request moves alone, and is not one of a tab that is loading.
LEMMA MovesAlone ==
  ASSUME AuthTypeOK, NEW r \in Request, Moves(r)
  PROVE  /\ UNCHANGED <<tabVars, retried, changeVars, cookieVars, expiries, sessionVars, troubled>>
         /\ cached' \in {cached, cached \cup {BrowserOf(r)}}
         /\ req[r] # "idle" \/ tab[Sender[r]] = "open"
         /\ \E s \in Stages : req' = [req EXCEPT ![r] = s]
<1>1. req \in [Request -> Stages] /\ access \in [Browser -> BOOLEAN]
  BY DEF AuthTypeOK, Stages
<1>2. CASE Send(r)
  <2>1. /\ UNCHANGED <<tabVars, retried, changeVars, cookieVars, expiries, sessionVars, cached, troubled>>
        /\ tab[Sender[r]] = "open"
    BY <1>2 DEF Send, cookieVars
  <2>2. req' = [q \in Request |-> IF q # r THEN req[q]
                                 ELSE IF access'[BrowserOf(r)] THEN "sent" ELSE "unauthorized"]
    BY <1>2 DEF Send, Sent
  <2>3. \E s \in {"sent", "unauthorized"} : req' = [req EXCEPT ![r] = s]
    <3>1. CASE access'[BrowserOf(r)]
      BY <1>1, <2>2, <3>1
    <3>2. CASE ~ access'[BrowserOf(r)]
      BY <1>1, <2>2, <3>2
    <3> QED BY <3>1, <3>2
  <2> QED BY <2>1, <2>3 DEF Stages
<1>3. CASE LooksInCache(r) \/ LooksInDatabase(r) \/ HearsAnswer(r) \/ LosesRequest(r)
  BY <1>3 DEF LooksInCache, LooksInDatabase, HearsAnswer, LosesRequest, Becomes, Stages
<1>4. CASE CachesSession(r)
  BY <1>4 DEF CachesSession, Becomes, Stages
<1> QED BY <1>2, <1>3, <1>4 DEF Moves

-----------------------------------------------------------------------------
(* Each part of the invariant *)

LEMMA InitHolds ==
  ASSUME Init
  PROVE  IInv
<1> USE AuthAssumption
<1>1. AuthTypeOK
  BY DEF Init, AuthTypeOK
<1>2. Loading /\ Gone /\ Reasons
  BY DEF Init, Loading, Gone, Reasons, SignOutIsThorough, SignedOutForAReason
<1> QED BY <1>1, <1>2 DEF IInv

LEMMA TypesStay ==
  ASSUME AuthTypeOK, Loading, [Next]_vars
  PROVE  AuthTypeOK'
<1> USE AuthAssumption DEF tabVars, reqVars, cookieVars, changeVars, sessionVars
<1>1. ASSUME NEW r \in Request, Moves(r)  PROVE AuthTypeOK'
  <2>1. /\ UNCHANGED <<tabVars, retried, changeVars, cookieVars, expiries, sessionVars, troubled>>
        /\ cached' \in {cached, cached \cup {BrowserOf(r)}}
        /\ \E s \in Stages : req' = [req EXCEPT ![r] = s]
    BY <1>1, MovesAlone
  <2>2. BrowserOf(r) \in Browser
    BY DEF BrowserOf
  <2>3. req' \in [Request -> Stages] /\ cached' \subseteq Browser
    BY <2>1, <2>2 DEF AuthTypeOK, Stages
  <2> QED BY <2>1, <2>3 DEF AuthTypeOK, Stages
<1>2. ASSUME NEW r \in Request, HearsUnauthorized(r)  PROVE AuthTypeOK'
  <2>1. Sender[r] \in Tab /\ Home[Sender[r]] \in Browser /\ r # None /\ tab[Sender[r]] # "loading"
    BY <1>2 DEF HearsUnauthorized, Loading
  <2>2. \E s \in {"failed", "queued", "refreshing"} : req' = [req EXCEPT ![r] = s]
    BY <1>2 DEF HearsUnauthorized, Becomes
  <2>3. /\ UNCHANGED <<tab, logout, changeVars, cookieVars, expiries, sessionVars, cached, troubled>>
        /\ \/ UNCHANGED <<tabVars, retried>>
           \/ /\ retried' = [retried EXCEPT ![r] = TRUE]
              /\ refresher' = [refresher EXCEPT ![Sender[r]] = r]
              /\ refresh' = [refresh EXCEPT ![Sender[r]] = "reading"]
              /\ token' = [token EXCEPT ![Sender[r]] = cookie[Home[Sender[r]]]]
    BY <1>2 DEF HearsUnauthorized, Becomes, CallsRefresh
  <2>4. req' \in [Request -> Stages]
    BY <2>2 DEF AuthTypeOK, Stages
  <2>5. CASE UNCHANGED <<tabVars, retried>>
    BY <2>3, <2>4, <2>5 DEF AuthTypeOK, Stages
  <2>6. CASE /\ retried' = [retried EXCEPT ![r] = TRUE]
             /\ refresher' = [refresher EXCEPT ![Sender[r]] = r]
             /\ refresh' = [refresh EXCEPT ![Sender[r]] = "reading"]
             /\ token' = [token EXCEPT ![Sender[r]] = cookie[Home[Sender[r]]]]
    <3>1. /\ retried' \in [Request -> BOOLEAN] /\ refresher' \in [Tab -> Request \cup {None}]
          /\ refresh' \in [Tab -> {"no", "reading", "writing", "answered", "refused"}]
          /\ token' \in [Tab -> {"none", "earlier", "last"}]
      BY <2>1, <2>6 DEF AuthTypeOK
    <3>2. \A t \in Tab : tab'[t] # "loading" => (refresh'[t] = "no" <=> refresher'[t] = None)
      BY <2>1, <2>3, <2>6 DEF AuthTypeOK
    <3> QED BY <2>3, <2>4, <3>1, <3>2 DEF AuthTypeOK, Stages
  <2> QED BY <2>3, <2>5, <2>6
<1>3. ASSUME NEW t \in Tab, Acts(t)  PROVE AuthTypeOK'
  <2>1. Home[t] \in Browser
    OBVIOUS
  <2>2. CASE RefreshReads(t)
    BY <2>2 DEF RefreshReads, AuthTypeOK
  <2>3. CASE RefreshWrites(t)
    <3>1. CASE Home[t] \in sessions
      BY <2>1, <2>3, <3>1 DEF RefreshWrites, NewToken, AuthTypeOK
    <3>2. CASE Home[t] \notin sessions
      BY <2>3, <3>2 DEF RefreshWrites, AuthTypeOK
    <3> QED BY <3>1, <3>2
  <2>4. CASE Refreshed(t)
    <3>1. req' \in [Request -> Stages]
      BY <2>4 DEF Refreshed, Sent, AuthTypeOK, Stages
    <3> QED BY <2>1, <2>4, <3>1 DEF Refreshed, AuthTypeOK, Stages
  <2>5. CASE NotRefreshed(t)
    <3>1. req' \in [Request -> Stages]
      BY <2>5 DEF NotRefreshed, AuthTypeOK, Stages
    <3> QED BY <2>5, <3>1 DEF NotRefreshed, SignsOut, AuthTypeOK, Stages
  <2>6. CASE LosesRefresh(t)
    BY <2>1, <2>6 DEF LosesRefresh, AuthTypeOK
  <2>7. CASE UserSignsOut(t)
    BY <2>1, <2>7 DEF UserSignsOut, SignsOut, AuthTypeOK
  <2>8. CASE LogoutDeletes(t)
    BY <2>8 DEF LogoutDeletes, AuthTypeOK
  <2>9. CASE SignedOut(t)
    <3>1. access' \in [Browser -> BOOLEAN] /\ cookie' \in [Browser -> {"none", "earlier", "last"}]
      <4>1. CASE UNCHANGED cookieVars
        BY <4>1 DEF AuthTypeOK
      <4>2. CASE /\ access' = [access EXCEPT ![Home[t]] = FALSE]
                 /\ cookie' = [cookie EXCEPT ![Home[t]] = "none"]
        BY <4>2 DEF AuthTypeOK
      <4> QED BY <2>9, <4>1, <4>2 DEF SignedOut
    <3>2. /\ tab' = [tab EXCEPT ![t] = "out"] /\ logout' = [logout EXCEPT ![t] = "no"]
          /\ tab[t] # "loading" \/ (refresher[t] = None /\ refresh[t] = "no")
          /\ UNCHANGED <<refresher, refresh, token, reqVars, changeVars, expiries, sessionVars, cached, troubled>>
      BY <2>9 DEF SignedOut, Loading, AuthTypeOK
    <3>3. \A u \in Tab : tab'[u] # "loading" => (refresh'[u] = "no" <=> refresher'[u] = None)
      BY <3>2 DEF AuthTypeOK
    <3> QED BY <3>1, <3>2, <3>3 DEF AuthTypeOK
  <2>10. CASE LosesLogout(t)
    BY <2>1, <2>10 DEF LosesLogout, AuthTypeOK, Loading
  <2> QED BY <1>3, <2>2, <2>3, <2>4, <2>5, <2>6, <2>7, <2>8, <2>9, <2>10 DEF Acts
<1>4. ASSUME NEW b \in Browser, CacheExpires(b) \/ AccessExpires(b)  PROVE AuthTypeOK'
  <2>1. CASE CacheExpires(b)
    BY <2>1 DEF CacheExpires, AuthTypeOK
  <2>2. CASE AccessExpires(b)
    <3>1. access' \in [Browser -> BOOLEAN]
      BY <2>2 DEF AccessExpires, AuthTypeOK
    <3>2. expiries' \in [Browser -> 0..MaxExpiries]
      <4>1. expiries[b] \in 0..MaxExpiries /\ expiries[b] + 1 \in 0..MaxExpiries
        BY <2>2 DEF AccessExpires, AuthTypeOK
      <4> QED BY <2>2, <4>1 DEF AccessExpires, AuthTypeOK
    <3> QED BY <2>2, <3>1, <3>2 DEF AccessExpires, AuthTypeOK
  <2> QED BY <1>4, <2>1, <2>2
<1>5. CASE Changes
  <2>1. ASSUME NEW b \in Browser, ChangeBegins(b)  PROVE AuthTypeOK'
    BY <2>1 DEF ChangeBegins, AuthTypeOK
  <2>2. CASE ChangeForgets
    BY <2>2 DEF ChangeForgets, AuthTypeOK
  <2>3. CASE ChangeCommits
    BY <2>3 DEF ChangeCommits, AuthTypeOK
  <2>4. CASE ChangeFails
    BY <2>4 DEF ChangeFails, AuthTypeOK
  <2> QED BY <1>5, <2>1, <2>2, <2>3, <2>4 DEF Changes
<1>6. CASE UNCHANGED vars
  BY <1>6 DEF vars, AuthTypeOK
<1> QED BY <1>1, <1>2, <1>3, <1>4, <1>5, <1>6, Steps

LEMMA LoadingStays ==
  ASSUME AuthTypeOK, Loading, [Next]_vars
  PROVE  Loading'
<1> USE AuthAssumption DEF tabVars, reqVars, cookieVars, changeVars, sessionVars
<1>1. ASSUME NEW r \in Request, Moves(r)  PROVE Loading'
  <2>1. /\ UNCHANGED <<tab, refresher, refresh, logout>> /\ tab[Sender[r]] # "loading"
        /\ \E s \in Stages : req' = [req EXCEPT ![r] = s]
    <3>1. /\ UNCHANGED <<tab, refresher, refresh, logout>>
          /\ req[r] # "idle" \/ tab[Sender[r]] = "open"
          /\ \E s \in Stages : req' = [req EXCEPT ![r] = s]
      BY <1>1, MovesAlone
    <3> QED BY <3>1 DEF Loading
  <2> QED BY <2>1 DEF Loading, AuthTypeOK
<1>2. ASSUME NEW r \in Request, HearsUnauthorized(r)  PROVE Loading'
  <2>1. Sender[r] \in Tab /\ r # None /\ tab[Sender[r]] # "loading" /\ UNCHANGED <<tab, logout>>
    BY <1>2 DEF HearsUnauthorized, Loading
  <2>2. \E s \in {"failed", "queued", "refreshing"} : req' = [req EXCEPT ![r] = s]
    BY <1>2 DEF HearsUnauthorized, Becomes
  <2>3. \/ UNCHANGED <<refresher, refresh>>
        \/ /\ refresher' = [refresher EXCEPT ![Sender[r]] = r]
           /\ refresh' = [refresh EXCEPT ![Sender[r]] = "reading"]
    BY <1>2 DEF HearsUnauthorized, Becomes, CallsRefresh
  <2> QED BY <2>1, <2>2, <2>3 DEF Loading, AuthTypeOK
<1>3. ASSUME NEW t \in Tab, Acts(t)  PROVE Loading'
  <2>1. CASE Refreshed(t)
    <3>1. \A r \in Request : r \notin Waiting(t) \cup ({refresher[t]} \ {None}) => req'[r] = req[r]
      BY <2>1 DEF Refreshed, Sent
    <3>2. \A r \in Waiting(t) \cup ({refresher[t]} \ {None}) : Sender[r] = t
      BY DEF Waiting, Loading
    <3>3. /\ tab' = [tab EXCEPT ![t] = IF @ = "loading" THEN "open" ELSE @]
          /\ refresh' = [refresh EXCEPT ![t] = "no"] /\ refresher' = [refresher EXCEPT ![t] = None]
          /\ logout' = logout
      BY <2>1 DEF Refreshed
    <3> QED BY <3>1, <3>2, <3>3 DEF Loading, AuthTypeOK
  <2>2. CASE NotRefreshed(t)
    <3>1. \A r \in Request : req[r] = "idle" /\ r # refresher[t] => req'[r] = "idle"
      BY <2>2 DEF NotRefreshed, Waiting
    <3>2. /\ tab' = tab /\ \A u \in Tab \ {t} : logout'[u] = logout[u]
          /\ refresh' = [refresh EXCEPT ![t] = "no"] /\ refresher' = [refresher EXCEPT ![t] = None]
      BY <2>2 DEF NotRefreshed, SignsOut
    <3> QED BY <3>1, <3>2 DEF Loading, AuthTypeOK
  <2>3. CASE RefreshReads(t) \/ RefreshWrites(t) \/ LosesRefresh(t)
    BY <2>3 DEF RefreshReads, RefreshWrites, LosesRefresh, Loading, AuthTypeOK
  <2>4. CASE UserSignsOut(t) \/ LogoutDeletes(t) \/ SignedOut(t) \/ LosesLogout(t)
    BY <2>4 DEF UserSignsOut, SignsOut, LogoutDeletes, SignedOut, LosesLogout, Loading, AuthTypeOK
  <2> QED BY <1>3, <2>1, <2>2, <2>3, <2>4 DEF Acts
<1>4. CASE (\E b \in Browser : CacheExpires(b) \/ AccessExpires(b)) \/ Changes \/ UNCHANGED vars
  BY <1>4 DEF CacheExpires, AccessExpires, Changes, ChangeBegins, ChangeForgets, ChangeCommits,
     ChangeFails,
              vars, Loading
<1> QED BY <1>1, <1>2, <1>3, <1>4, Steps

LEMMA GoneStays ==
  ASSUME AuthTypeOK, Gone, [Next]_vars
  PROVE  Gone'
<1> USE AuthAssumption DEF tabVars, reqVars, cookieVars, changeVars, sessionVars, SignOutIsThorough
<1>1. ASSUME NEW r \in Request, Moves(r)  PROVE Gone'
  BY <1>1, MovesAlone DEF Gone
<1>2. ASSUME NEW r \in Request, HearsUnauthorized(r)  PROVE Gone'
  BY <1>2 DEF HearsUnauthorized, Becomes, CallsRefresh, Gone, AuthTypeOK
<1>3. ASSUME NEW t \in Tab, Acts(t)  PROVE Gone'
  <2>1. Home[t] \in Browser
    OBVIOUS
  <2>2. CASE RefreshReads(t) \/ LosesRefresh(t)
    BY <2>2 DEF RefreshReads, LosesRefresh, Gone, AuthTypeOK
  <2>3. CASE RefreshWrites(t)
    BY <2>1, <2>3 DEF RefreshWrites, NewToken, Gone, AuthTypeOK
  <2>4. CASE Refreshed(t)
    BY <2>1, <2>4 DEF Refreshed, Gone, AuthTypeOK
  <2>5. CASE NotRefreshed(t) \/ UserSignsOut(t)
    BY <2>5 DEF NotRefreshed, UserSignsOut, SignsOut, Gone, AuthTypeOK
  <2>6. CASE LogoutDeletes(t)
    BY <2>1, <2>6 DEF LogoutDeletes, Gone, AuthTypeOK
  <2>7. CASE SignedOut(t) \/ LosesLogout(t)
    BY <2>1, <2>7 DEF SignedOut, LosesLogout, Gone, AuthTypeOK
  <2> QED BY <1>3, <2>2, <2>3, <2>4, <2>5, <2>6, <2>7 DEF Acts
<1>4. CASE (\E b \in Browser : CacheExpires(b) \/ AccessExpires(b)) \/ Changes \/ UNCHANGED vars
  BY <1>4 DEF CacheExpires, AccessExpires, Changes, ChangeBegins, ChangeForgets, ChangeCommits,
     ChangeFails,
              vars, Gone
<1> QED BY <1>1, <1>2, <1>3, <1>4, Steps

LEMMA ReasonsStay ==
  ASSUME AuthTypeOK, Gone, Reasons, [Next]_vars
  PROVE  Reasons'
<1> USE AuthAssumption DEF tabVars, reqVars, cookieVars, changeVars, sessionVars, SignedOutForAReason
<1>1. ASSUME NEW r \in Request, Moves(r)  PROVE Reasons'
  BY <1>1, MovesAlone DEF Reasons
<1>2. ASSUME NEW r \in Request, HearsUnauthorized(r)  PROVE Reasons'
  BY <1>2 DEF HearsUnauthorized, Becomes, CallsRefresh, Reasons, AuthTypeOK
<1>3. ASSUME NEW t \in Tab, Acts(t)  PROVE Reasons'
  <2>1. Home[t] \in Browser
    OBVIOUS
  <2>2. CASE RefreshReads(t)
    <3>1. ~(Live(Home[t]) /\ Matches(token[t])) => Home[t] \in troubled
      BY <2>1, <2>2 DEF RefreshReads, Live, Matches, Gone, Reasons
    <3> QED BY <2>2, <3>1 DEF RefreshReads, Reasons, AuthTypeOK
  <2>3. CASE RefreshWrites(t)
    BY <2>1, <2>3 DEF RefreshWrites, Reasons, AuthTypeOK
  <2>4. CASE LosesRefresh(t) \/ LosesLogout(t) \/ UserSignsOut(t)
    BY <2>1, <2>4 DEF LosesRefresh, LosesLogout, UserSignsOut, SignsOut, Reasons, AuthTypeOK
  <2>5. CASE Refreshed(t) \/ NotRefreshed(t)
    BY <2>5 DEF Refreshed, NotRefreshed, SignsOut, Reasons, AuthTypeOK
  <2>6. CASE LogoutDeletes(t) \/ SignedOut(t)
    BY <2>1, <2>6 DEF LogoutDeletes, SignedOut, Reasons, AuthTypeOK
  <2> QED BY <1>3, <2>2, <2>3, <2>4, <2>5, <2>6 DEF Acts
<1>4. CASE Changes
  BY <1>4 DEF Changes, ChangeBegins, ChangeForgets, ChangeCommits, ChangeFails, Reasons, AuthTypeOK
<1>5. CASE (\E b \in Browser : CacheExpires(b) \/ AccessExpires(b)) \/ UNCHANGED vars
  BY <1>5 DEF CacheExpires, AccessExpires, vars, Reasons
<1> QED BY <1>1, <1>2, <1>3, <1>4, <1>5, Steps

\* The invariant holds all along.
THEOREM Invariance == Spec => []IInv
<1>1. Init => IInv
  BY InitHolds
<1>2. IInv /\ [Next]_vars => IInv'
  BY TypesStay, LoadingStays, GoneStays, ReasonsStay DEF IInv
<1> QED BY <1>1, <1>2, PTL DEF Spec

-----------------------------------------------------------------------------
(* What follows from it *)

\* Every variable keeps its type, and a tab that is not loading has a call to /refresh under
\* way exactly as long as a request of its own waits for it (isRefreshingRef).
THEOREM TypesHold == Spec => []AuthTypeOK
<1>1. IInv => AuthTypeOK
  BY DEF IInv
<1> QED BY <1>1, Invariance, PTL

\* Nobody is signed out unasked, however many tabs of however many browsers renew at the
\* same time (refreshToken, the interceptor).
THEOREM NobodyIsSignedOutUnasked == Spec => []SignedOutForAReason
<1>1. IInv => SignedOutForAReason
  BY DEF IInv, Reasons
<1> QED BY <1>1, Invariance, PTL

\* Once the server has answered a sign-out, the session is not in the database, whatever
\* other tabs were renewing meanwhile (logout, refreshToken).
THEOREM SignOutsAreThorough == Spec => []SignOutIsThorough
<1>1. IInv => SignOutIsThorough
  BY DEF IInv, Gone
<1> QED BY <1>1, Invariance, PTL

\* A session that was deleted or revoked, and that neither the cache nor a handler has for
\* valid any more, lets nobody in again (verifyToken, refreshToken, changePassword).
THEOREM TheDeadStayDead == Spec => DeadStaysDead
<1>1. ASSUME IInv, [Next]_vars, NEW b \in Browser, Dead(b)
      PROVE  Dead(b)'
  <2> USE AuthAssumption DEF tabVars, reqVars, cookieVars, changeVars, sessionVars
  <2>1. AuthTypeOK
    BY <1>1 DEF IInv
  <2>2. sessions' \subseteq sessions /\ revoked \subseteq revoked'
    <3>1. ASSUME NEW r \in Request, Moves(r)  PROVE UNCHANGED sessionVars
      BY <2>1, <3>1, MovesAlone
    <3>2. ASSUME NEW r \in Request, HearsUnauthorized(r)  PROVE UNCHANGED sessionVars
      BY <3>2 DEF HearsUnauthorized
    <3>3. ASSUME NEW t \in Tab, Acts(t)  PROVE sessions' \subseteq sessions /\ revoked' = revoked
      BY <3>3 DEF Acts, RefreshReads, RefreshWrites, Refreshed, NotRefreshed, LosesRefresh,
         UserSignsOut,
                  LogoutDeletes, SignedOut, LosesLogout
    <3>4. CASE (\E c \in Browser : CacheExpires(c) \/ AccessExpires(c)) \/ Changes \/ UNCHANGED vars
      BY <3>4 DEF CacheExpires, AccessExpires, Changes, ChangeBegins, ChangeForgets,
         ChangeCommits, ChangeFails, vars
    <3> QED BY <1>1, <3>1, <3>2, <3>3, <3>4, Steps
  <2>3. /\ b \notin cached'
        /\ \A q \in Request : BrowserOf(q) = b => req'[q] # "caching"
    <3>1. /\ b \notin cached /\ ~ Live(b)
          /\ \A q \in Request : BrowserOf(q) = b => req[q] # "caching"
      BY <1>1 DEF Dead
    <3>2. ASSUME NEW r \in Request, Moves(r)
          PROVE  /\ b \notin cached'
                 /\ \A q \in Request : BrowserOf(q) = b => req'[q] # "caching"
      <4>1. req \in [Request -> Stages]
        BY <2>1 DEF AuthTypeOK, Stages
      <4>2. CASE Send(r)
        BY <3>1, <4>2 DEF Send, Sent
      <4>3. CASE LooksInCache(r) \/ HearsAnswer(r) \/ LosesRequest(r)
        BY <3>1, <4>1, <4>3 DEF LooksInCache, HearsAnswer, LosesRequest, Becomes
      <4>4. CASE LooksInDatabase(r)
        BY <3>1, <4>1, <4>4 DEF LooksInDatabase, Becomes
      <4>5. CASE CachesSession(r)
        BY <3>1, <4>1, <4>5 DEF CachesSession, Becomes
      <4> QED BY <3>2, <4>2, <4>3, <4>4, <4>5 DEF Moves
    <3>3. ASSUME NEW r \in Request, HearsUnauthorized(r)
          PROVE  /\ b \notin cached'
                 /\ \A q \in Request : BrowserOf(q) = b => req'[q] # "caching"
      BY <2>1, <3>1, <3>3 DEF HearsUnauthorized, Becomes, AuthTypeOK
    <3>4. ASSUME NEW t \in Tab, Acts(t)
          PROVE  cached' = cached /\ \A q \in Request : req'[q] = "caching" => req[q] = "caching"
      <4>1. CASE Refreshed(t)
        BY <4>1 DEF Refreshed, Sent
      <4>2. CASE NotRefreshed(t)
        BY <4>2 DEF NotRefreshed
      <4> QED BY <3>4, <4>1, <4>2 DEF Acts, RefreshReads, RefreshWrites, LosesRefresh, UserSignsOut,
                  LogoutDeletes, SignedOut, LosesLogout
    <3>5. CASE (\E c \in Browser : CacheExpires(c) \/ AccessExpires(c)) \/ Changes \/ UNCHANGED vars
      BY <3>1, <3>5 DEF CacheExpires, AccessExpires, Changes, ChangeBegins, ChangeForgets,
         ChangeCommits,
                        ChangeFails, vars
    <3> QED BY <1>1, <3>1, <3>2, <3>3, <3>4, <3>5, Steps
  <2> QED BY <1>1, <2>2, <2>3 DEF Dead, Live, BrowserOf
<1>2. IInv /\ [Next]_vars => [\A b \in Browser : Dead(b) => Dead(b)']_vars
  BY <1>1
<1> QED BY <1>2, Invariance, PTL DEF Spec, DeadStaysDead
=============================================================================
