------------------------------ MODULE LinkPage ------------------------------
(***************************************************************************)
(* The page of a link (PublicLinkView.tsx), with what the server checks     *)
(* before it answers (verifyLinkAccess in auth.middleware.ts and            *)
(* getLinkTransfer in transfer.controller.ts).                              *)
(*                                                                         *)
(* The key of the transfer opens with the fragment of the link's address,   *)
(* and for a protected link with the password appended to it: a passphrase  *)
(* is the pair of the two.  Whether it opens is found out in a worker,      *)
(* while the visitor may go on typing.                                      *)
(***************************************************************************)
EXTENDS Naturals

VARIABLES
  link,        \* its transfer's status, access_control, is_password_protected, and what
               \* the visitor is to it
  expired,     \* expiration_date has passed
  signedIn,    \* the visitor has a session
  \* the page
  shown,       \* it is open
  query,       \* the query of the link's details, which outlives the page: "pending" before
               \* its first answer, or what the last answer was
  asking,      \* an answer is awaited
  fragment,    \* in the address: the "right" one or a "wrong" one
  password,    \* in the input
  checks,      \* passphrases that checkKey tries
  decrypted,   \* isKeyDecrypted
  failed,      \* isKeyDecryptFailed
  \* history
  edited       \* address or password changed while, or since, they were tried

formVars == <<fragment, password, checks, decrypted, failed, edited>>
pageState == <<shown, query, asking, formVars>>
linkVars == <<link, expired, signedIn, pageState>>

Word == {"none", "right", "wrong"}

\* The passphrase that opens the key
Opening(passphrase) ==
  passphrase = <<"right", IF link.protected THEN "right" ELSE "none">>

-----------------------------------------------------------------------------
(* The address, and the answers to it *)

\* The effect of PublicLinkView: without a password to ask for, the key is tried at once,
\* when data or an error come, when the address changes, and when the key has opened.
Tries(data, f, before) ==
  IF data /\ ~link.protected THEN before \cup {<<f, "none">>} ELSE before

\* The page starts from nothing, on the first visit and after the redirect of a sign-in.
\* The query may still have data, which are asked for anew when they are stale, or an error.
OpenLink(f) ==
  /\ ~shown
  /\ shown' = TRUE
  /\ query' \in {query, "pending"} /\ asking' \in BOOLEAN /\ (query' = "data" \/ asking')
  /\ fragment' = f /\ password' = "none"
  /\ decrypted' = FALSE /\ failed' = FALSE /\ edited' = FALSE
  /\ checks' = Tries(query' = "data", f, {})
  /\ UNCHANGED <<link, expired, signedIn>>

\* verifyLinkAccess, and the clause of getLinkTransfer about the date
LinkAccess ==
  CASE link.status = "missing" -> "not found"
    [] link.status = "PENDING" -> "forbidden"
    [] link.status = "ACTIVE" /\ link.access # "PUBLIC" /\ ~signedIn -> "unauthorized"
    [] link.status = "ACTIVE" /\ link.access = "PRIVATE" /\ signedIn
         /\ link.visitor \notin {"owner", "listed"} -> "forbidden"
    [] OTHER -> IF expired THEN "not found" ELSE "data"

\* Data that differ by the addresses of pictures run the effect again, others do not.
LinkFound ==
  /\ asking /\ LinkAccess = "data"
  /\ query' = "data" /\ asking' = FALSE
  /\ \/ checks' = Tries(TRUE, fragment, checks)
     \/ query = "data" /\ UNCHANGED checks
  /\ UNCHANGED <<link, expired, signedIn, shown, fragment, password, decrypted, failed, edited>>

LinkRefused ==
  /\ asking /\ LinkAccess # "data"
  /\ query' = LinkAccess /\ asking' = FALSE
  /\ UNCHANGED <<link, expired, signedIn, shown, formVars>>

\* After its retries
LinkBreaks ==
  /\ asking
  /\ query' = "broken" /\ asking' = FALSE
  /\ UNCHANGED <<link, expired, signedIn, shown, formVars>>

-----------------------------------------------------------------------------
(* The key *)

EditAddress(f) ==
  /\ shown /\ f # fragment
  /\ fragment' = f
  /\ checks' = Tries(query = "data", f, checks)
  /\ edited' = TRUE
  /\ UNCHANGED <<link, expired, signedIn, shown, query, asking, password, decrypted, failed>>

\* The input takes what is typed, also while it is tried.
TypePassword(p) ==
  /\ shown /\ query = "data" /\ link.protected /\ ~decrypted /\ p # password
  /\ password' = p
  /\ edited' = (edited \/ checks # {})
  /\ UNCHANGED <<link, expired, signedIn, shown, query, asking, fragment, checks, decrypted, failed>>

\* Mutated form of Unlock: the button stays enabled while a password is tried
UnlockAgain ==
  /\ shown /\ query = "data" /\ link.protected /\ ~decrypted /\ password # "none"
  /\ checks' = checks \cup {<<fragment, password>>}
  /\ failed' = FALSE /\ edited' = FALSE
  /\ UNCHANGED <<link, expired, signedIn, shown, query, asking, fragment, password, decrypted>>

\* handlePasswordSubmit
Unlock ==
  /\ shown /\ query = "data" /\ link.protected /\ ~decrypted /\ password # "none" /\ checks = {}
  /\ checks' = {<<fragment, password>>}
  /\ failed' = FALSE /\ edited' = FALSE
  /\ UNCHANGED <<link, expired, signedIn, shown, query, asking, fragment, password, decrypted>>

CheckOpens(c) ==
  /\ c \in checks /\ Opening(c)
  /\ decrypted' = TRUE
  /\ checks' = Tries(query = "data" /\ ~decrypted, fragment, checks \ {c})
  /\ UNCHANGED <<link, expired, signedIn, shown, query, asking, fragment, password, failed, edited>>

CheckFails(c) ==
  /\ c \in checks /\ ~Opening(c)
  /\ failed' = TRUE
  /\ checks' = checks \ {c}
  /\ UNCHANGED <<link, expired, signedIn, shown, query, asking, fragment, password, decrypted, edited>>

-----------------------------------------------------------------------------
(* Sessions and time *)

\* handleAuthRedirect, the sign-in, and back
SignInFromLink ==
  /\ shown /\ query = "unauthorized"
  /\ signedIn' = TRUE /\ shown' = FALSE /\ asking' = FALSE /\ checks' = {}
  /\ UNCHANGED <<link, expired, query, fragment, password, decrypted, failed, edited>>

\* To another page, with or without a sign-out.  A query that nobody waits for is cancelled.
LeaveLink ==
  /\ shown
  /\ shown' = FALSE /\ asking' = FALSE /\ checks' = {}
  /\ signedIn' \in {signedIn, FALSE}
  /\ UNCHANGED <<link, expired, query, fragment, password, decrypted, failed, edited>>

LinkCommits ==
  /\ link.status = "PENDING"
  /\ link' = [link EXCEPT !.status = "ACTIVE"]
  /\ UNCHANGED <<expired, signedIn, pageState>>

LinkExpires ==
  /\ ~expired
  /\ expired' = TRUE
  /\ UNCHANGED <<link, signedIn, pageState>>

LinkInit ==
  /\ link \in [status : {"missing", "PENDING", "ACTIVE"}, access : {"PUBLIC", "REQUIRE_AUTH", "PRIVATE"},
               protected : BOOLEAN, visitor : {"owner", "listed", "other"}]
  /\ expired = FALSE /\ signedIn \in BOOLEAN
  /\ shown = FALSE /\ query = "pending" /\ asking = FALSE
  /\ fragment = "none" /\ password = "none" /\ checks = {}
  /\ decrypted = FALSE /\ failed = FALSE /\ edited = FALSE

LinkNext ==
  \/ \E f \in {"right", "wrong"} : OpenLink(f) \/ EditAddress(f) \/ TypePassword(f)
  \/ LinkFound \/ LinkRefused \/ LinkBreaks \/ Unlock
  \/ \E c \in checks : CheckOpens(c) \/ CheckFails(c)
  \/ SignInFromLink \/ LeaveLink \/ LinkCommits \/ LinkExpires

LinkTypeOK ==
  /\ link \in [status : {"missing", "PENDING", "ACTIVE"}, access : {"PUBLIC", "REQUIRE_AUTH", "PRIVATE"},
               protected : BOOLEAN, visitor : {"owner", "listed", "other"}]
  /\ {expired, signedIn, shown, asking, decrypted, failed, edited} \subseteq BOOLEAN
  /\ query \in {"pending", "data", "unauthorized", "forbidden", "not found", "broken"}
  /\ {fragment, password} \subseteq Word /\ checks \subseteq Word \X Word

\* readyToView
Ready == shown /\ query = "data" /\ decrypted /\ ~failed

\* A download opens the key anew, with what the address and the input say then.
OpensAnew == Opening(<<fragment, password>>)

\* Files that are shown can be downloaded, whatever order tries, answers and errors come in.
\* Excepted is an address or a password that was changed while it was tried, or since: the
\* page goes by the try, and its files cannot be downloaded then.
ShownOpens == Ready /\ ~edited => OpensAnew
=============================================================================
