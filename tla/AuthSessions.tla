---------------------------- MODULE AuthSessions ----------------------------
(***************************************************************************)
(* Sessions of one user who is signed in from several browsers, with       *)
(* several tabs each.  A tab renews the access cookie when a request is    *)
(* answered 401, and makes the others wait meanwhile (API.ts); it does so  *)
(* once when it is loaded (validateSession in authStore.ts).  The server   *)
(* keeps sessions in the database and caches those it has let in           *)
(* (auth.middleware.ts); renewal, sign-out and change of password          *)
(* (auth.controller.ts) stop at each of their awaits.                      *)
(*                                                                         *)
(* The tabs of a browser share its cookies and its session, which bears    *)
(* the browser's name here.  A refresh token is the "last" of its session, *)
(* whose hash the database has, or an "earlier" one.  Sessions that nobody  *)
(* uses for days, one-time codes and sign-in are left out.                 *)
(***************************************************************************)
EXTENDS Naturals

CONSTANTS Browser, Tab, Request,
          Home,         \* the browser of a tab
          Sender,       \* the tab of a request
          None,         \* no request, or no browser
          MaxExpiries   \* bound on the expiries of access cookies

ASSUME AuthAssumption ==
  /\ Home \in [Tab -> Browser] /\ Sender \in [Request -> Tab]
  /\ None \notin Request
  /\ MaxExpiries \in Nat

VARIABLES
  \* a tab
  tab,          \* "loading", "open" or "out"
  refresher,    \* the request whose 401 the tab is renewing for (isRefreshingRef), or None
  refresh,      \* the call to /refresh: "no" or where it is
  token,        \* the refresh token that this call brings, then that it gets, else "none"
  logout,       \* the call to /logout: "no" or where it is
  \* a request
  req,          \* "idle", where it is, "queued" (failedQueueRef), "ok" or "failed"
  retried,      \* originalRequest._retry
  \* a browser
  access,       \* its access cookie is there and valid
  cookie,       \* its refresh cookie: "none", "earlier" or "last"
  expiries,
  \* the database and the cache
  sessions,     \* the browsers whose session exists
  revoked,      \* those whose session is revoked
  cached,       \* the browsers whose session is in the cache
  change,       \* the transaction of changePassword: "no", "forgetting", "committing" or "over"
  changer,      \* the browser that changes the password, or None
  found,        \* the cached sessions that it has found
  \* history
  troubled      \* the browsers that a user signed out, or revoked, or that lost a call

tabVars == <<tab, refresher, refresh, token, logout>>
reqVars == <<req, retried>>
cookieVars == <<access, cookie>>
changeVars == <<change, changer, found>>
sessionVars == <<sessions, revoked>>
vars == <<tabVars, reqVars, changeVars, cookieVars, expiries, sessionVars, cached, troubled>>

BrowserOf(r) == Home[Sender[r]]
Waiting(t) == {r \in Request : Sender[r] = t /\ req[r] = "queued"}
Live(b) == b \in sessions \ revoked

\* Mutated form of Matches: all bytes are compared
MatchesExactly(n) == n = "last"

\* bcrypt compares the first 72 bytes only, which a JWT has spent before it comes to
\* anything but its header and half the user's id: all tokens of a user match.
Matches(n) == n # "none"

-----------------------------------------------------------------------------
(* Requests: verifyToken *)

\* With the access cookie of then; without one the answer is "No Auth Cookie", or
\* "Invalid token".
Sent(rs) ==
  req' = [r \in Request |-> IF r \notin rs THEN req[r]
                            ELSE IF access'[BrowserOf(r)] THEN "sent" ELSE "unauthorized"]

Send(r) ==
  /\ req[r] = "idle" /\ tab[Sender[r]] = "open"
  /\ UNCHANGED access
  /\ Sent({r})
  /\ UNCHANGED <<tabVars, retried, changeVars, cookie, expiries, sessionVars, cached, troubled>>

Becomes(r, s) ==
  /\ req' = [req EXCEPT ![r] = s]
  /\ UNCHANGED retried

LooksInCache(r) ==
  /\ req[r] = "sent"
  /\ Becomes(r, IF BrowserOf(r) \in cached THEN "passed" ELSE "looking")
  /\ UNCHANGED <<tabVars, changeVars, cookieVars, expiries, sessionVars, cached, troubled>>

LooksInDatabase(r) ==
  /\ req[r] = "looking"
  /\ Becomes(r, IF Live(BrowserOf(r)) THEN "caching" ELSE "forbidden")
  /\ UNCHANGED <<tabVars, changeVars, cookieVars, expiries, sessionVars, cached, troubled>>

CachesSession(r) ==
  /\ req[r] = "caching"
  /\ cached' = cached \cup {BrowserOf(r)}
  /\ Becomes(r, "passed")
  /\ UNCHANGED <<tabVars, changeVars, cookieVars, expiries, sessionVars, troubled>>

\* cacheTTL
CacheExpires(b) ==
  /\ b \in cached
  /\ cached' = cached \ {b}
  /\ UNCHANGED <<tabVars, reqVars, changeVars, cookieVars, expiries, sessionVars, troubled>>

-----------------------------------------------------------------------------
(* A change of password *)

\* The request has passed verifyToken and requireOtp some time ago.  The transaction revokes
\* the other sessions, not yet for others to see; then deleteUserSessions looks for the keys
\* of the user's sessions, and deletes those it has found.
ChangeBegins(b) ==
  /\ change = "no"
  /\ change' = "forgetting" /\ changer' = b /\ found' = cached
  /\ UNCHANGED <<tabVars, reqVars, cookieVars, expiries, sessionVars, cached, troubled>>

ChangeForgets ==
  /\ change = "forgetting"
  /\ change' = "committing" /\ found' = {}
  /\ cached' = cached \ found
  /\ UNCHANGED <<tabVars, reqVars, changer, cookieVars, expiries, sessionVars, troubled>>

ChangeCommits ==
  /\ change = "committing"
  /\ change' = "over" /\ changer' = None
  /\ revoked' = revoked \cup (sessions \ {changer})
  /\ troubled' = troubled \cup (Browser \ {changer})
  /\ UNCHANGED <<tabVars, reqVars, found, cookieVars, expiries, sessions, cached>>

ChangeFails ==
  /\ change \in {"forgetting", "committing"}
  /\ change' = "over" /\ changer' = None /\ found' = {}
  /\ UNCHANGED <<tabVars, reqVars, cookieVars, expiries, sessionVars, cached, troubled>>

-----------------------------------------------------------------------------
(* Answers: the interceptor *)

HearsAnswer(r) ==
  /\ req[r] \in {"passed", "forbidden"}
  /\ Becomes(r, IF req[r] = "passed" THEN "ok" ELSE "failed")
  /\ UNCHANGED <<tabVars, changeVars, cookieVars, expiries, sessionVars, cached, troubled>>

CallsRefresh(t) ==
  /\ refresh' = [refresh EXCEPT ![t] = "reading"]
  /\ token' = [token EXCEPT ![t] = cookie[Home[t]]]

HearsUnauthorized(r) ==
  /\ req[r] = "unauthorized"
  /\ LET t == Sender[r]
     IN  \/ /\ retried[r]
            /\ Becomes(r, "failed")
            /\ UNCHANGED tabVars
         \/ /\ ~ retried[r] /\ refresher[t] # None
            /\ Becomes(r, "queued")
            /\ UNCHANGED tabVars
         \/ /\ ~ retried[r] /\ refresher[t] = None
            /\ req' = [req EXCEPT ![r] = "refreshing"]
            /\ retried' = [retried EXCEPT ![r] = TRUE]
            /\ refresher' = [refresher EXCEPT ![t] = r]
            /\ CallsRefresh(t)
            /\ UNCHANGED <<tab, logout>>
  /\ UNCHANGED <<changeVars, cookieVars, expiries, sessionVars, cached, troubled>>

\* The call or its answer is lost, or times out.
LosesRequest(r) ==
  /\ req[r] \in {"sent", "passed", "forbidden", "unauthorized"}
  /\ Becomes(r, "failed")
  /\ UNCHANGED <<tabVars, changeVars, cookieVars, expiries, sessionVars, cached, troubled>>

-----------------------------------------------------------------------------
(* /refresh *)

RefreshReads(t) ==
  /\ refresh[t] = "reading"
  /\ refresh' = [refresh EXCEPT ![t] =
       IF Live(Home[t]) /\ Matches(token[t]) THEN "writing" ELSE "refused"]
  /\ UNCHANGED <<tab, refresher, token, logout, reqVars, changeVars, cookieVars, expiries, sessionVars, cached, troubled>>

\* The hash of the last token is replaced.
NewToken(t) ==
  /\ token' = [u \in Tab |-> IF u = t THEN "last"
                            ELSE IF Home[u] = Home[t] /\ token[u] = "last" THEN "earlier" ELSE token[u]]
  /\ cookie' = [cookie EXCEPT ![Home[t]] = IF @ = "last" THEN "earlier" ELSE @]

\* Mutated form of RefreshWrites: the session is created if it is not there
RefreshUpserts(t) ==
  /\ refresh[t] = "writing"
  /\ sessions' = sessions \cup {Home[t]}
  /\ NewToken(t)
  /\ refresh' = [refresh EXCEPT ![t] = "answered"]
  /\ UNCHANGED <<tab, refresher, logout, reqVars, changeVars, access, expiries, revoked, cached, troubled>>

\* The update fails if the session has been deleted in the meantime.
RefreshWrites(t) ==
  /\ refresh[t] = "writing"
  /\ IF Home[t] \in sessions
     THEN /\ NewToken(t)
          /\ refresh' = [refresh EXCEPT ![t] = "answered"]
     ELSE /\ refresh' = [refresh EXCEPT ![t] = "refused"]
          /\ UNCHANGED <<token, cookie>>
  /\ UNCHANGED <<tab, refresher, logout, reqVars, changeVars, access, expiries, sessionVars, cached, troubled>>

\* The call or its answer is lost, or its handler fails; so may the calls be that
\* follow it when the tab is loaded.
LosesRefresh(t) ==
  /\ refresh[t] \in {"reading", "writing", "answered"}
  /\ refresh' = [refresh EXCEPT ![t] = "refused"]
  /\ troubled' = troubled \cup {Home[t]}
  /\ UNCHANGED <<tab, refresher, token, logout, reqVars, changeVars, cookieVars, expiries, sessionVars, cached>>

\* The tab has the new cookies: processQueue(null), and the request again.
Refreshed(t) ==
  /\ refresh[t] = "answered"
  /\ refresh' = [refresh EXCEPT ![t] = "no"]
  /\ refresher' = [refresher EXCEPT ![t] = None]
  /\ tab' = [tab EXCEPT ![t] = IF @ = "loading" THEN "open" ELSE @]
  /\ access' = [access EXCEPT ![Home[t]] = TRUE]
  /\ cookie' = [cookie EXCEPT ![Home[t]] = token[t]]
  /\ token' = [token EXCEPT ![t] = "none"]
  /\ Sent(Waiting(t) \cup ({refresher[t]} \ {None}))
  /\ UNCHANGED <<logout, retried, changeVars, expiries, sessionVars, cached, troubled>>

SignsOut(t) == logout' = [logout EXCEPT ![t] = IF @ = "no" THEN "deleting" ELSE @]

\* Mutated form of NotRefreshed: signOut ends it, the queue is left as it is
NotRefreshedQueueKept(t) ==
  /\ refresh[t] = "refused"
  /\ refresh' = [refresh EXCEPT ![t] = "no"]
  /\ refresher' = [refresher EXCEPT ![t] = None]
  /\ token' = [token EXCEPT ![t] = "none"]
  /\ SignsOut(t)
  /\ req' = [r \in Request |-> IF r = refresher[t] THEN "failed" ELSE req[r]]
  /\ UNCHANGED <<tab, retried, changeVars, cookieVars, expiries, sessionVars, cached, troubled>>

\* Mutated form of NotRefreshed: isRefreshingRef stays set
NotRefreshedFlagKept(t) ==
  /\ refresh[t] = "refused"
  /\ refresh' = [refresh EXCEPT ![t] = "no"]
  /\ token' = [token EXCEPT ![t] = "none"]
  /\ SignsOut(t)
  /\ req' = [r \in Request |-> IF r \in Waiting(t) \cup {refresher[t]} THEN "failed" ELSE req[r]]
  /\ UNCHANGED <<tab, refresher, retried, changeVars, cookieVars, expiries, sessionVars, cached, troubled>>

\* signOut, processQueue(err)
NotRefreshed(t) ==
  /\ refresh[t] = "refused"
  /\ refresh' = [refresh EXCEPT ![t] = "no"]
  /\ refresher' = [refresher EXCEPT ![t] = None]
  /\ token' = [token EXCEPT ![t] = "none"]
  /\ SignsOut(t)
  /\ req' = [r \in Request |-> IF r \in Waiting(t) \cup {refresher[t]} THEN "failed" ELSE req[r]]
  /\ UNCHANGED <<tab, retried, changeVars, cookieVars, expiries, sessionVars, cached, troubled>>

AccessExpires(b) ==
  /\ access[b] /\ expiries[b] < MaxExpiries
  /\ access' = [access EXCEPT ![b] = FALSE]
  /\ expiries' = [expiries EXCEPT ![b] = @ + 1]
  /\ UNCHANGED <<tabVars, reqVars, changeVars, cookie, sessionVars, cached, troubled>>

-----------------------------------------------------------------------------
(* /logout *)

UserSignsOut(t) ==
  /\ tab[t] = "open" /\ logout[t] = "no"
  /\ SignsOut(t)
  /\ troubled' = troubled \cup {Home[t]}
  /\ UNCHANGED <<tab, refresher, refresh, token, reqVars, changeVars, cookieVars, expiries, sessionVars, cached>>

\* Mutated form of LogoutDeletes: the cookies are cleared, the session stays
LogoutKeeps(t) ==
  /\ logout[t] = "deleting"
  /\ logout' = [logout EXCEPT ![t] = "answered"]
  /\ UNCHANGED <<tab, refresher, refresh, token, reqVars, changeVars, cookieVars, expiries, sessionVars, cached, troubled>>

\* The cached session stays: the key that is deleted is not the one of verifyToken.
LogoutDeletes(t) ==
  /\ logout[t] = "deleting"
  /\ logout' = [logout EXCEPT ![t] = "answered"]
  /\ sessions' = IF cookie[Home[t]] # "none" THEN sessions \ {Home[t]} ELSE sessions
  /\ UNCHANGED <<tab, refresher, refresh, token, reqVars, changeVars, cookieVars, expiries, revoked, cached, troubled>>

\* clearCookie names no domain: it misses cookies that were set with COOKIE_DOMAIN.
SignedOut(t) ==
  /\ logout[t] = "answered"
  /\ logout' = [logout EXCEPT ![t] = "no"]
  /\ tab' = [tab EXCEPT ![t] = "out"]
  /\ \/ /\ access' = [access EXCEPT ![Home[t]] = FALSE]
        /\ cookie' = [cookie EXCEPT ![Home[t]] = "none"]
     \/ UNCHANGED cookieVars
  /\ UNCHANGED <<refresher, refresh, token, reqVars, changeVars, expiries, sessionVars, cached, troubled>>

\* signOut logs the failure: the tab goes on as it was, or is initialized without a user.
LosesLogout(t) ==
  /\ logout[t] # "no"
  /\ logout' = [logout EXCEPT ![t] = "no"]
  /\ tab' = [tab EXCEPT ![t] = IF @ = "loading" THEN "out" ELSE @]
  /\ troubled' = troubled \cup {Home[t]}
  /\ UNCHANGED <<refresher, refresh, token, reqVars, changeVars, cookieVars, expiries, sessionVars, cached>>

-----------------------------------------------------------------------------
\* Tabs that are just loaded, in browsers that have a session
Init ==
  /\ tab = [t \in Tab |-> "loading"] /\ refresher = [t \in Tab |-> None]
  /\ refresh = [t \in Tab |-> "reading"] /\ token = [t \in Tab |-> "last"]
  /\ logout = [t \in Tab |-> "no"]
  /\ req = [r \in Request |-> "idle"]
  /\ retried = [r \in Request |-> FALSE]
  /\ change = "no" /\ changer = None /\ found = {}
  /\ access = [b \in Browser |-> FALSE] /\ cookie = [b \in Browser |-> "last"]
  /\ expiries = [b \in Browser |-> 0]
  /\ sessions = Browser /\ revoked = {}
  /\ cached = {} /\ troubled = {}

Calls ==
  \/ \E r \in Request : \/ LooksInCache(r) \/ LooksInDatabase(r) \/ CachesSession(r)
                        \/ HearsAnswer(r) \/ HearsUnauthorized(r)
  \/ \E t \in Tab : RefreshReads(t) \/ RefreshWrites(t) \/ Refreshed(t) \/ NotRefreshed(t)

Logouts == \E t \in Tab : LogoutDeletes(t) \/ SignedOut(t)

Mishaps ==
  \/ \E r \in Request : LosesRequest(r)
  \/ \E t \in Tab : LosesRefresh(t) \/ LosesLogout(t)
  \/ ChangeFails

Next ==
  \/ Calls \/ Logouts \/ Mishaps
  \/ \E r \in Request : Send(r)
  \/ \E b \in Browser : CacheExpires(b) \/ AccessExpires(b) \/ ChangeBegins(b)
  \/ ChangeForgets \/ ChangeCommits
  \/ \E t \in Tab : UserSignsOut(t)

Spec == Init /\ [][Next]_vars

\* A call is answered in the end, or lost.
FairSpec == Spec /\ WF_vars(Calls) /\ WF_vars(Logouts)

-----------------------------------------------------------------------------
(* Properties *)

\* Every variable keeps its type; a tab has a call to /refresh under way while it
\* renews, and only then.
AuthTypeOK ==
  /\ tab \in [Tab -> {"loading", "open", "out"}]
  /\ refresher \in [Tab -> Request \cup {None}]
  /\ refresh \in [Tab -> {"no", "reading", "writing", "answered", "refused"}]
  /\ \A t \in Tab : tab[t] # "loading" => (refresh[t] = "no" <=> refresher[t] = None)
  /\ token \in [Tab -> {"none", "earlier", "last"}] /\ cookie \in [Browser -> {"none", "earlier", "last"}]
  /\ logout \in [Tab -> {"no", "deleting", "answered"}]
  /\ req \in [Request -> {"idle", "sent", "looking", "caching", "passed", "forbidden",
                          "unauthorized", "refreshing", "queued", "ok", "failed"}]
  /\ retried \in [Request -> BOOLEAN]
  /\ change \in {"no", "forgetting", "committing", "over"}
  /\ changer \in Browser \cup {None}
  /\ access \in [Browser -> BOOLEAN] /\ expiries \in [Browser -> 0..MaxExpiries]
  /\ sessions \subseteq Browser /\ revoked \subseteq Browser
  /\ found \cup cached \subseteq Browser /\ troubled \subseteq Browser

\* Nobody is signed out unasked: tabs of a browser that renew at the same time, each
\* with the cookie it has, do not refuse one another.
SignedOutForAReason == \A t \in Tab : tab[t] = "out" => Home[t] \in troubled

\* Once the server has answered a sign-out the session is not in the database, also if
\* another tab was renewing it meanwhile.
SignOutIsThorough == \A t \in Tab : logout[t] = "answered" => Home[t] \notin sessions

\* Neither the database nor the cache nor a handler has the session for valid.
Dead(b) ==
  /\ ~ Live(b) /\ b \notin cached
  /\ \A r \in Request : BrowserOf(r) = b => req[r] # "caching"

\* A session that was deleted or revoked, and forgotten by the cache, lets nobody in
\* again, whatever was under way.
DeadStaysDead == [][\A b \in Browser : Dead(b) => Dead(b)']_vars

\* A request that waits for a renewal, its own or another's, is answered in the end.
EveryRequestSettles ==
  \A r \in Request : req[r] # "idle" ~> req[r] \in {"ok", "failed"}
=============================================================================
