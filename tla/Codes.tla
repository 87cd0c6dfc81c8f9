------------------------------- MODULE Codes -------------------------------
(***************************************************************************)
(* The verification of a new account by a code that is mailed               *)
(* (VerificationView.tsx, useVerifyAccountMutation.ts), with the endpoints   *)
(* that give out codes and tokens (auth.controller.ts), requireOtp           *)
(* (auth.middleware.ts) and verifyCurrentUserAccount (user.controller.ts).   *)
(* Requests, tokens and the cool-down live in the cache until they expire.   *)
(*                                                                         *)
(* A view is the page in one tab.  Only the view that asked for a code can   *)
(* name its request, and only the one that confirmed it has the token: what  *)
(* the cache has of either is kept with the view.  The limit on              *)
(* confirmations only lets time pass, and is left out.                      *)
(***************************************************************************)
EXTENDS Naturals

CONSTANTS Tab,
          MaxTroubles   \* bound on the calls that fail, mails that get lost and codes that expire

ASSUME CodesAssumption == MaxTroubles \in Nat

VARIABLES
  at,         \* where the view and its call are
  request,    \* the request that it names (requestId): "none", "live" or "gone" from the cache
  mailed,     \* its code has arrived
  token,      \* the token that it holds: "none", "live" or "gone" from the cache
  cooldown,   \* the cool-down is in the cache
  verified,   \* the column of the user
  troubles    \* what has gone wrong so far

viewVars == <<request, mailed, token>>
codeVars == <<at, viewVars, cooldown, verified, troubles>>

Trouble == troubles < MaxTroubles /\ troubles' = troubles + 1

Becomes(v, s) == at' = [at EXCEPT ![v] = s]

-----------------------------------------------------------------------------
(* requestVerification *)

\* On mount, or by "Resend OTP"
Ask(v) ==
  /\ at[v] \in {"closed", "entering"}
  /\ Becomes(v, "asking")
  /\ UNCHANGED <<viewVars, cooldown, verified, troubles>>

\* 429 while the cool-down is on: the view keeps the request it had.
CoolingDown(v) ==
  /\ at[v] = "asking" /\ cooldown
  /\ Becomes(v, "entering")
  /\ UNCHANGED <<viewVars, cooldown, verified, troubles>>

FindNoCooldown(v) ==
  /\ at[v] = "asking" /\ ~cooldown
  /\ Becomes(v, "storing")
  /\ UNCHANGED <<viewVars, cooldown, verified, troubles>>

\* The request is stored, then the cool-down.
StartCooldown(v) ==
  /\ at[v] = "storing"
  /\ cooldown' = TRUE
  /\ Becomes(v, "sending")
  /\ UNCHANGED <<viewVars, verified, troubles>>

\* Mutated form of Send: a code that is sent again does not renew the request
SendKeepsRequest(v, arrives) ==
  /\ at[v] = "sending"
  /\ request' = [request EXCEPT ![v] = IF @ = "none" THEN "live" ELSE @]
  /\ mailed' = [mailed EXCEPT ![v] = arrives]
  /\ Becomes(v, "entering")
  /\ IF arrives THEN UNCHANGED troubles ELSE Trouble
  /\ UNCHANGED <<token, cooldown, verified>>

\* The mail may not arrive: nobody is told.
Send(v, arrives) ==
  /\ at[v] = "sending"
  /\ request' = [request EXCEPT ![v] = "live"]
  /\ mailed' = [mailed EXCEPT ![v] = arrives]
  /\ Becomes(v, "entering")
  /\ IF arrives THEN UNCHANGED troubles ELSE Trouble
  /\ UNCHANGED <<token, cooldown, verified>>

CooldownEnds ==
  /\ cooldown
  /\ cooldown' = FALSE
  /\ UNCHANGED <<at, viewVars, verified, troubles>>

RequestExpires(v) ==
  /\ Trouble
  /\ request[v] = "live"
  /\ request' = [request EXCEPT ![v] = "gone"]
  /\ UNCHANGED <<at, mailed, token, cooldown, verified>>

TokenExpires(v) ==
  /\ Trouble
  /\ token[v] = "live"
  /\ token' = [token EXCEPT ![v] = "gone"]
  /\ UNCHANGED <<at, request, mailed, cooldown, verified>>

-----------------------------------------------------------------------------
(* confirmVerification, then the verification of the account *)

\* The user types the code that was mailed; the cached request is read.
Confirm(v) ==
  /\ at[v] = "entering" /\ mailed[v] /\ request[v] = "live"
  /\ Becomes(v, "confirming")
  /\ UNCHANGED <<viewVars, cooldown, verified, troubles>>

\* The token is cached, then the request deleted.
IssueToken(v) ==
  /\ at[v] = "confirming"
  /\ token' = [token EXCEPT ![v] = "live"]
  /\ request' = [request EXCEPT ![v] = "gone"]
  /\ Becomes(v, "holding")
  /\ UNCHANGED <<mailed, cooldown, verified, troubles>>

\* requireOtp
PresentToken(v) ==
  /\ at[v] = "holding" /\ token[v] = "live"
  /\ Becomes(v, "admitted")
  /\ UNCHANGED <<viewVars, cooldown, verified, troubles>>

TokenRefused(v) ==
  /\ at[v] = "holding" /\ token[v] # "live"
  /\ Becomes(v, "entering")
  /\ UNCHANGED <<viewVars, cooldown, verified, troubles>>

\* Two views may both find the account not verified.
FindUnverified(v) ==
  /\ at[v] = "admitted" /\ ~verified
  /\ Becomes(v, "verifying")
  /\ UNCHANGED <<viewVars, cooldown, verified, troubles>>

\* "User is already verified": the view stays.
FindVerified(v) ==
  /\ at[v] = "admitted" /\ verified
  /\ Becomes(v, "entering")
  /\ UNCHANGED <<viewVars, cooldown, verified, troubles>>

Verify(v) ==
  /\ at[v] = "verifying"
  /\ verified' = TRUE
  /\ Becomes(v, "consuming")
  /\ UNCHANGED <<viewVars, cooldown, troubles>>

Leaves(v) ==
  /\ Becomes(v, "left")
  /\ request' = [request EXCEPT ![v] = "none"]
  /\ token' = [token EXCEPT ![v] = "none"]
  /\ mailed' = [mailed EXCEPT ![v] = FALSE]

\* consumeOtpToken; the answer makes the view learn the user, and it leaves.
Consume(v) ==
  /\ at[v] = "consuming"
  /\ Leaves(v)
  /\ UNCHANGED <<cooldown, verified, troubles>>

\* A call fails, or its answer does not come: the user finds the form as it was.
CodeCallFails(v) ==
  /\ Trouble
  /\ at[v] \in {"asking", "storing", "sending", "confirming", "holding", "admitted", "verifying",
                "consuming"}
  /\ Becomes(v, "entering")
  /\ UNCHANGED <<viewVars, cooldown, verified>>

-----------------------------------------------------------------------------
Goes(v) ==
  \/ Ask(v) \/ CoolingDown(v) \/ FindNoCooldown(v) \/ StartCooldown(v) \/ Send(v, TRUE)
  \/ IssueToken(v) \/ PresentToken(v) \/ TokenRefused(v)
  \/ FindUnverified(v) \/ FindVerified(v) \/ Verify(v) \/ Consume(v)

CodesInit ==
  /\ at = [v \in Tab |-> "closed"]
  /\ request = [v \in Tab |-> "none"] /\ token = request
  /\ mailed = [v \in Tab |-> FALSE]
  /\ cooldown = FALSE /\ verified = FALSE /\ troubles = 0

CodesNext ==
  \/ \E v \in Tab :
       \/ Goes(v) \/ Confirm(v) \/ Send(v, FALSE)
       \/ RequestExpires(v) \/ TokenExpires(v) \/ CodeCallFails(v)
  \/ CooldownEnds

\* Calls are answered, the cool-down ends, and the user, who may ask for another code at any
\* time, does at some time type one that works.
CodesFairness ==
  /\ \A v \in Tab : WF_codeVars(Goes(v)) /\ SF_codeVars(Confirm(v))
  /\ WF_codeVars(CooldownEnds)

CodesTypeOK ==
  /\ at \in [Tab -> {"closed", "asking", "storing", "sending", "entering", "confirming",
                      "holding", "admitted", "verifying", "consuming", "left"}]
  /\ {request, token} \subseteq [Tab -> {"none", "live", "gone"}]
  /\ mailed \in [Tab -> BOOLEAN]
  /\ cooldown \in BOOLEAN /\ verified \in BOOLEAN /\ troubles \in 0..MaxTroubles
=============================================================================
