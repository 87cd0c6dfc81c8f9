----------------------------- MODULE SettingsProofs -----------------------------
(***************************************************************************)
(* That a picture that is named is there, for any tabs, columns and number *)
(* of uploads, by an inductive invariant of Settings.  A key is new until  *)
(* its upload puts it into its column; replaced there, it never comes      *)
(* back, so that its object may be deleted.                                *)
(***************************************************************************)
EXTENDS Settings, TLAPS

\* The upload of t has a key that was in no column yet.
Fresh(t) == edit[t].at \in {"putting", "confirming", "updating"}

\* Keys that were given out
Given ==
  /\ \A t \in Tab : edit[t].key <= stamp /\ edit[t].old <= stamp
  /\ \A p \in Place : column[p] <= stamp

\* A new key is that of one tab, in no column, and nobody is to delete its object.
New(t) ==
  Fresh(t) =>
    /\ edit[t].key # 0
    /\ \A p \in Place : column[p] # edit[t].key
    /\ \A u \in Tab : edit[u].old # edit[t].key
    /\ \A u \in Tab : Fresh(u) /\ edit[u].key = edit[t].key => u = t

\* What an upload replaces is in no other column, and what it has replaced in none.  A
\* deletion has found a picture.
Replaced(t) ==
  /\ edit[t].at = "updating" =>
       \A p \in Place : column[p] = edit[t].old /\ column[p] # 0 => p = edit[t].place
  /\ edit[t].at = "discarding" => \A p \in Place : column[p] # edit[t].old \/ column[p] = 0
  /\ edit[t].at = "erasing" => edit[t].old # 0

OneColumn == \A p, q \in Place : column[p] = column[q] /\ column[p] # 0 => p = q

There == objects \cup refused \cup disowned

\* An upload that is past its PUT has its object, or nobody expects it.
Stored(t) == edit[t].at \in {"confirming", "updating"} => edit[t].key \in There

IInv ==
  /\ SettingsTypeOK /\ Given /\ OneColumn
  /\ \A t \in Tab : New(t) /\ Replaced(t) /\ Stored(t)
  /\ PictureIsThere

Edits == [at : {"idle", "putting", "confirming", "updating", "discarding", "erasing", "clearing"},
          place : Place, key : I!Key \cup {0}, old : I!Key \cup {0}, found : BOOLEAN]

-----------------------------------------------------------------------------
(* The verification *)

LEMMA InitCodes == ASSUME CodesInit PROVE CodesTypeOK
  <1>1. mailed \in [Tab -> BOOLEAN] /\ cooldown \in BOOLEAN /\ verified \in BOOLEAN
    BY Zenon DEF CodesInit
  <1>2. request \in [Tab -> {"none", "live", "gone"}] /\ token = request  BY DEF CodesInit
  <1>3. at \in [Tab -> {"closed"}] /\ troubles \in 0 .. MaxTroubles
    BY CodesAssumption DEF CodesInit
  <1>4. at \in [Tab -> {"closed", "asking", "storing", "sending", "entering", "confirming",
                      "holding", "admitted", "verifying", "consuming", "left"}]
    BY <1>3
  <1> QED  BY <1>1, <1>2, <1>3, <1>4, Zenon DEF CodesTypeOK

LEMMA CodesTypes ==
  ASSUME CodesTypeOK, CodesNext \/ (\E t \in Tab : Reload(t)) \/ UNCHANGED codeVars
  PROVE  CodesTypeOK'
  <1> USE CodesAssumption DEF CodesTypeOK, viewVars, Becomes
  <1>1. ASSUME NEW v \in Tab, Goes(v) PROVE CodesTypeOK'
    <2>1. CASE Ask(v) \/ CoolingDown(v) \/ FindNoCooldown(v) \/ StartCooldown(v)
      BY <2>1 DEF Ask, CoolingDown, FindNoCooldown, StartCooldown
    <2>2. CASE Send(v, TRUE)
      <3>1. mailed' \in [Tab -> BOOLEAN]  BY <2>2, Zenon DEF Send
      <3> QED  BY <2>2, <3>1 DEF Send
    <2>3. CASE IssueToken(v)  BY <2>3 DEF IssueToken
    <2>4. CASE PresentToken(v) \/ TokenRefused(v) \/ FindUnverified(v) \/ FindVerified(v)
      BY <2>4 DEF PresentToken, TokenRefused, FindUnverified, FindVerified
    <2>5. CASE Verify(v)  BY <2>5 DEF Verify
    <2>6. CASE Consume(v)  BY <2>6 DEF Consume, Leaves
    <2> QED  BY <1>1, <2>1, <2>2, <2>3, <2>4, <2>5, <2>6 DEF Goes
  <1>2. ASSUME NEW v \in Tab,
               \/ Confirm(v) \/ Send(v, FALSE)
               \/ RequestExpires(v) \/ TokenExpires(v) \/ CodeCallFails(v)
        PROVE  CodesTypeOK'
    <2>1. CASE Confirm(v)  BY <2>1 DEF Confirm
    <2>2. CASE Send(v, FALSE)
      <3>1. mailed' \in [Tab -> BOOLEAN]  BY <2>2, Zenon DEF Send
      <3> QED  BY <2>2, <3>1 DEF Send, Trouble
    <2>3. CASE RequestExpires(v) \/ TokenExpires(v)
      BY <2>3 DEF RequestExpires, TokenExpires, Trouble
    <2>4. CASE CodeCallFails(v)  BY <2>4 DEF CodeCallFails, Trouble
    <2> QED  BY <1>2, <2>1, <2>2, <2>3, <2>4
  <1>3. CASE CooldownEnds  BY <1>3 DEF CooldownEnds
  <1>4. ASSUME NEW t \in Tab, Reload(t) PROVE CodesTypeOK'
    BY <1>4 DEF Reload, Leaves
  <1>5. CASE UNCHANGED codeVars  BY <1>5 DEF codeVars
  <1> QED  BY <1>1, <1>2, <1>3, <1>4, <1>5 DEF CodesNext

-----------------------------------------------------------------------------
(* The pictures *)

LEMMA KeysOfEdits ==
  /\ \A k \in I!Key \cup {0} : k \in Nat
  /\ 0 \notin I!Key
  /\ \A e \in Edits : e.key \in I!Key \cup {0} /\ e.old \in I!Key \cup {0} /\ e.place \in Place
  /\ \A e \in Edits : e.key \in Nat /\ e.old \in Nat
  <1>1. 0 \notin I!Key /\ \A k \in I!Key \cup {0} : k \in Nat  BY ImagesAssumption DEF I!Key
  <1>2. \A e \in Edits : e.key \in I!Key \cup {0} /\ e.old \in I!Key \cup {0} /\ e.place \in Place
    BY Zenon DEF Edits
  <1> QED  BY <1>1, <1>2, Zenon

LEMMA IdleEdit ==
  /\ I!NoEdit \in Edits
  /\ I!NoEdit.at = "idle" /\ I!NoEdit.key = 0 /\ I!NoEdit.old = 0
  <1>1. (CHOOSE p \in Place : TRUE) \in Place  BY ImagesAssumption
  <1> QED  BY <1>1 DEF Edits, I!NoEdit

\* What a step of t leaves of its edit
LEMMA EditFacts ==
  ASSUME I!ImagesTypeOK, NEW t \in Tab, NEW e \in Edits, edit' = [edit EXCEPT ![t] = e]
  PROVE  /\ edit' \in [Tab -> Edits] /\ edit'[t] = e
         /\ \A u \in Tab : u # t => edit'[u] = edit[u]
  BY DEF I!ImagesTypeOK, Edits

Pictures ==
  /\ I!ImagesTypeOK /\ Given /\ OneColumn
  /\ \A t \in Tab : New(t) /\ Replaced(t) /\ Stored(t)
  /\ PictureIsThere

LEMMA InitPictures == ASSUME I!ImagesInit PROVE Pictures
  <1>1. edit \in [Tab -> Edits] /\ \A t \in Tab : edit[t] = I!NoEdit
    BY IdleEdit DEF I!ImagesInit
  <1>2. stamp = 0 /\ column = [p \in Place |-> 0] /\ \A p \in Place : column[p] = 0
    BY DEF I!ImagesInit
  <1>3. I!ImagesTypeOK
    <2>1. settings \in BOOLEAN  BY DEF I!ImagesInit
    <2>2. column \in [Place -> I!Key \cup {0}] /\ stamp \in I!Key \cup {0}  BY <1>2
    <2> QED  BY <1>1, <2>1, <2>2, Zenon DEF I!ImagesTypeOK, I!ImagesInit, Edits
  <1>4. Given  BY <1>1, <1>2, IdleEdit DEF Given
  <1>5. OneColumn  BY <1>2 DEF OneColumn
  <1>6. ASSUME NEW t \in Tab PROVE New(t) /\ Replaced(t) /\ Stored(t)
    <2>1. edit[t].at = "idle"  BY <1>1, IdleEdit
    <2> QED  BY <2>1 DEF New, Replaced, Stored, Fresh
  <1>7. PictureIsThere  BY <1>2 DEF PictureIsThere, I!PictureIsThere
  <1> QED  BY <1>3, <1>4, <1>5, <1>6, <1>7 DEF Pictures

\* A step of t that leaves the columns alone: it must keep what is said of t, make no key
\* of another tab its own, and take no object that somebody counts on.
LEMMA EditStep ==
  ASSUME Pictures, NEW t \in Tab, NEW e \in Edits, edit' = [edit EXCEPT ![t] = e],
         UNCHANGED column, settings' \in BOOLEAN, stamp' \in I!Key \cup {0}, stamp <= stamp',
         objects' \subseteq I!Key, refused' \subseteq I!Key, disowned' \subseteq I!Key,
         e.key <= stamp', e.old <= stamp',
         e.old # 0 => \A u \in Tab : Fresh(u) => edit[u].key # e.old,
         Fresh(t)' => \/ Fresh(t) /\ e.key = edit[t].key
                      \/ e.key = stamp' /\ stamp' # stamp /\ e.old = 0,
         Replaced(t)',
         Stored(t)',
         \A k \in There \ There' : /\ \A p \in Place : column[p] # k
                                   /\ \A u \in Tab : Fresh(u) => edit[u].key # k
  PROVE  Pictures'
  <1> USE DEF Pictures
  <1>1. /\ edit' \in [Tab -> Edits] /\ edit'[t] = e
        /\ \A u \in Tab : u # t => edit'[u] = edit[u]
    BY EditFacts
  <1>2. /\ edit \in [Tab -> Edits] /\ column \in [Place -> I!Key \cup {0}]
        /\ stamp \in I!Key \cup {0}
    BY KeysOfEdits DEF I!ImagesTypeOK, Edits
  <1>3. I!ImagesTypeOK'  BY <1>1 DEF I!ImagesTypeOK, Edits
  <1>4. /\ \A u \in Tab : edit[u].key \in Nat /\ edit[u].old \in Nat
        /\ e.key \in Nat /\ e.old \in Nat /\ stamp \in Nat /\ stamp' \in Nat
        /\ \A p \in Place : column[p] \in Nat
    <2>1. \A u \in Tab : edit[u] \in Edits  BY <1>2
    <2>2. \A p \in Place : column[p] \in I!Key \cup {0}  BY <1>2
    <2> QED  BY <1>2, <2>1, <2>2, KeysOfEdits, Zenon
  <1>5. Given'  BY <1>1, <1>4 DEF Given
  <1>6. OneColumn'  BY DEF OneColumn
  <1>7. ASSUME NEW u \in Tab PROVE New(u)'
    <2> SUFFICES ASSUME Fresh(u)'
        PROVE  /\ edit'[u].key # 0
               /\ \A p \in Place : column[p] # edit'[u].key
               /\ \A v \in Tab : edit'[v].old # edit'[u].key
               /\ \A v \in Tab : Fresh(v)' /\ edit'[v].key = edit'[u].key => v = u
      BY DEF New
    <2>1. \A v \in Tab : v # t => (Fresh(v)' <=> Fresh(v))  BY <1>1 DEF Fresh
    <2>2. CASE u # t \/ (Fresh(t) /\ e.key = edit[t].key)
      <3>1. Fresh(u) /\ edit'[u].key = edit[u].key  BY <1>1, <2>1, <2>2
      <3>2. New(u) /\ edit[u].key # 0  BY <3>1 DEF New
      <3>3. e.old # edit[u].key  BY <3>1, <3>2
      <3>4. \A v \in Tab : edit'[v].old # edit'[u].key
        BY <1>1, <3>1, <3>2, <3>3 DEF New
      <3>5. ASSUME NEW v \in Tab, Fresh(v)', edit'[v].key = edit'[u].key PROVE v = u
        <4>1. CASE v # t \/ (Fresh(t) /\ e.key = edit[t].key)
          BY <1>1, <2>1, <3>1, <3>2, <3>5, <4>1 DEF New
        <4>2. CASE v = t /\ e.key = stamp' /\ stamp' # stamp
          BY <1>1, <1>4, <3>1, <3>5, <4>2 DEF Given
        <4> QED  BY <3>5, <4>1, <4>2
      <3> QED  BY <3>1, <3>2, <3>4, <3>5 DEF New
    <2>3. CASE u = t /\ e.key = stamp' /\ stamp' # stamp /\ e.old = 0
      <3>1. edit'[u].key = stamp' /\ stamp' > stamp  BY <1>1, <1>4, <2>3
      <3>2. /\ \A v \in Tab : edit[v].key < stamp' /\ edit[v].old < stamp'
            /\ \A p \in Place : column[p] < stamp'
        BY <1>4, <3>1 DEF Given
      <3> QED  BY <1>1, <1>4, <2>1, <2>3, <3>1, <3>2
    <2> QED  BY <2>2, <2>3
  <1>8. ASSUME NEW u \in Tab PROVE Replaced(u)' /\ Stored(u)'
    <2>1. CASE u = t  BY <2>1
    <2>2. CASE u # t
      <3>1. edit'[u] = edit[u] /\ Replaced(u) /\ Stored(u)  BY <1>1, <2>2
      <3>2. Replaced(u)'  BY <3>1 DEF Replaced
      <3>3. edit[u].at \in {"confirming", "updating"} => edit[u].key \in There'
        BY <3>1 DEF Stored, Fresh
      <3> QED  BY <3>1, <3>2, <3>3 DEF Stored
    <2> QED  BY <2>1, <2>2
  <1>9. PictureIsThere'
    <2>1. \A p \in Place : column[p] = 0 \/ column[p] \in There
      BY DEF PictureIsThere, I!PictureIsThere, There
    <2>2. \A p \in Place : column[p] = 0 \/ column[p] \in There'  BY <2>1
    <2> QED  BY <2>2 DEF PictureIsThere, I!PictureIsThere, There
  <1> QED  BY <1>3, <1>5, <1>6, <1>7, <1>8, <1>9

\* The types of the pictures, one by one
LEMMA PictureTypes ==
  ASSUME Pictures
  PROVE  /\ edit \in [Tab -> Edits] /\ \A t \in Tab : edit[t] \in Edits
         /\ column \in [Place -> I!Key \cup {0}] /\ settings \in BOOLEAN
         /\ stamp \in I!Key \cup {0}
         /\ objects \subseteq I!Key /\ refused \subseteq I!Key /\ disowned \subseteq I!Key
         /\ \A t \in Tab : /\ edit[t].key \in Nat /\ edit[t].old \in Nat
                           /\ edit[t].key <= stamp /\ edit[t].old <= stamp
         /\ \A p \in Place : column[p] \in Nat /\ column[p] <= stamp
         /\ stamp \in Nat
  <1>1. /\ edit \in [Tab -> Edits] /\ column \in [Place -> I!Key \cup {0}] /\ settings \in BOOLEAN
        /\ stamp \in I!Key \cup {0}
        /\ objects \subseteq I!Key /\ refused \subseteq I!Key /\ disowned \subseteq I!Key
    BY DEF Pictures, I!ImagesTypeOK, Edits
  <1>2. \A t \in Tab : edit[t] \in Edits  BY <1>1
  <1>3. \A t \in Tab : edit[t].key \in Nat /\ edit[t].old \in Nat  BY <1>2, KeysOfEdits
  <1>4. \A p \in Place : column[p] \in I!Key \cup {0}  BY <1>1
  <1>5. stamp \in Nat /\ \A p \in Place : column[p] \in Nat
    BY <1>1, <1>4, KeysOfEdits, Zenon
  <1>6. Given  BY DEF Pictures
  <1> QED  BY <1>1, <1>2, <1>3, <1>5, <1>6 DEF Given

\* An operation ends, and nothing else changes.
LEMMA DoneStep ==
  ASSUME Pictures, NEW t \in Tab, I!Done(t),
         UNCHANGED <<column, settings, stamp, refused, disowned>>,
         objects' \subseteq objects,
         \A k \in objects \ objects' : /\ \A p \in Place : column[p] # k
                                       /\ \A u \in Tab : Fresh(u) => edit[u].key # k
  PROVE  Pictures'
  <1>1. edit' = [edit EXCEPT ![t] = I!NoEdit]  BY DEF I!Done
  <1>2. edit'[t] = I!NoEdit  BY <1>1, PictureTypes
  <1>3. ~ Fresh(t)' /\ Replaced(t)' /\ Stored(t)'
    BY <1>2, IdleEdit DEF Fresh, Replaced, Stored
  <1>4. \A k \in There \ There' : k \in objects \ objects'  BY DEF There
  <1>5. stamp \in I!Key \cup {0} /\ stamp <= stamp' /\ 0 <= stamp'  BY PictureTypes
  <1> QED  BY <1>1, <1>3, <1>4, <1>5, IdleEdit, PictureTypes, EditStep

LEMMA GetUrlStep ==
  ASSUME Pictures, NEW t \in Tab, NEW p \in Place, I!GetUrl(t, p) PROVE Pictures'
  <1> DEFINE e == [I!NoEdit EXCEPT !.at = "putting", !.place = p, !.key = stamp + 1]
  <1>1. stamp + 1 \in I!Key /\ stamp < stamp + 1 /\ stamp' = stamp + 1 /\ stamp + 1 # stamp
    BY PictureTypes, ImagesAssumption DEF I!GetUrl, I!Key
  <1>2. e \in Edits /\ e.at = "putting" /\ e.key = stamp + 1 /\ e.old = 0
    BY <1>1, IdleEdit DEF Edits
  <1>3. edit' = [edit EXCEPT ![t] = e] /\ edit'[t] = e
    BY <1>1, PictureTypes DEF I!GetUrl
  <1>4. There' = There /\ UNCHANGED <<column, settings, objects, refused, disowned>>
    BY DEF I!GetUrl, There
  <1> HIDE DEF e
  <1>5. Replaced(t)' /\ Stored(t)'  BY <1>2, <1>3 DEF Replaced, Stored
  <1>6. e.key <= stamp' /\ e.old <= stamp' /\ stamp <= stamp'
    BY <1>1, <1>2, PictureTypes
  <1>7. \A k \in There \ There' : FALSE  BY <1>4
  <1>8. e.key = stamp' /\ stamp' # stamp /\ e.old = 0 /\ stamp' \in I!Key  BY <1>1, <1>2
  <1> QED  BY <1>2, <1>3, <1>4, <1>5, <1>6, <1>7, <1>8, PictureTypes, EditStep

\* A step of an edit that keeps its key and what else there is
LEMMA SameKeyStep ==
  ASSUME Pictures, NEW t \in Tab, NEW e \in Edits, edit' = [edit EXCEPT ![t] = e],
         e.key = edit[t].key, e.old = edit[t].old,
         UNCHANGED <<column, settings, stamp>>,
         objects' \subseteq I!Key, refused' \subseteq I!Key, disowned' \subseteq I!Key,
         Fresh(t)' => Fresh(t), Replaced(t)', Stored(t)', There \subseteq There'
  PROVE  Pictures'
  <1>1. e.old # 0 => \A u \in Tab : Fresh(u) => edit[u].key # e.old
    BY DEF Pictures, New
  <1>2. e.key <= stamp' /\ e.old <= stamp' /\ stamp <= stamp' /\ settings' \in BOOLEAN
        /\ stamp' \in I!Key \cup {0}
    BY PictureTypes
  <1>3. \A k \in There \ There' : FALSE  OBVIOUS
  <1> QED  BY <1>1, <1>2, <1>3, EditStep

\* The edit of t at another of its places
LEMMA AtFacts ==
  ASSUME Pictures, NEW t \in Tab,
         NEW s \in {"idle", "putting", "confirming", "updating", "discarding", "erasing", "clearing"}
  PROVE  LET e == [edit[t] EXCEPT !.at = s] IN
         /\ e \in Edits /\ e.at = s /\ e.key = edit[t].key /\ e.old = edit[t].old
         /\ e.place = edit[t].place
  <1>1. edit[t] \in Edits  BY PictureTypes
  <1> QED  BY <1>1, Zenon DEF Edits

LEMMA PutStep ==
  ASSUME Pictures, NEW t \in Tab, I!Put(t) PROVE Pictures'
  <1> DEFINE e == [edit[t] EXCEPT !.at = "confirming"]
  <1>1. /\ e \in Edits /\ e.at = "confirming" /\ e.key = edit[t].key /\ e.old = edit[t].old
    BY AtFacts
  <1>2. edit' = [edit EXCEPT ![t] = e]  BY DEF I!Put, I!Steps
  <1> HIDE DEF e
  <1>3. edit'[t] = e  BY <1>2, PictureTypes
  <1>4. Fresh(t) /\ UNCHANGED <<column, settings, stamp, disowned>>  BY DEF I!Put, Fresh
  <1>5. edit[t].key \in I!Key
    <2>1. edit[t].key # 0  BY <1>4 DEF Pictures, New
    <2> QED  BY <2>1, PictureTypes, KeysOfEdits
  <1>6. /\ objects' \subseteq I!Key /\ refused' \subseteq I!Key
        /\ There \subseteq There' /\ edit[t].key \in There'
    <2>1. CASE objects' = objects \cup {edit[t].key} /\ UNCHANGED refused
      BY <1>4, <1>5, <2>1, PictureTypes DEF There
    <2>2. CASE refused' = refused \cup {edit[t].key} /\ UNCHANGED objects
      BY <1>4, <1>5, <2>2, PictureTypes DEF There
    <2> QED  BY <2>1, <2>2 DEF I!Put
  <1>7. Replaced(t)' /\ Stored(t)'  BY <1>1, <1>3, <1>6 DEF Replaced, Stored
  <1>8. disowned' \subseteq I!Key  BY <1>4, PictureTypes
  <1> QED  BY <1>1, <1>2, <1>4, <1>6, <1>7, <1>8, SameKeyStep

LEMMA ReadOldStep ==
  ASSUME Pictures, NEW t \in Tab, I!ReadOld(t) PROVE Pictures'
  <1> DEFINE e == [edit[t] EXCEPT !.at = "updating", !.old = column[edit[t].place],
                                  !.found = I!RowExists(edit[t].place)]
  <1>1. edit[t] \in Edits /\ edit[t].place \in Place  BY PictureTypes, KeysOfEdits
  <1>2. column[edit[t].place] \in I!Key \cup {0} /\ column[edit[t].place] <= stamp
    BY <1>1, PictureTypes
  <1>3. I!RowExists(edit[t].place) \in BOOLEAN
    <2>1. settings \in BOOLEAN  BY PictureTypes
    <2> QED  BY <2>1, Zenon DEF I!RowExists
  <1>4. /\ e \in Edits /\ e.at = "updating" /\ e.key = edit[t].key
        /\ e.old = column[edit[t].place] /\ e.place = edit[t].place
    BY <1>1, <1>2, <1>3, Zenon DEF Edits
  <1>5. edit' = [edit EXCEPT ![t] = e]  BY DEF I!ReadOld
  <1> HIDE DEF e
  <1>6. edit'[t] = e  BY <1>5, PictureTypes
  <1>7. Fresh(t) /\ UNCHANGED <<column, settings, objects, stamp, refused, disowned>>
    BY DEF I!ReadOld, Fresh
  <1>8. \A u \in Tab : Fresh(u) => edit[u].key # e.old
    BY <1>1, <1>4 DEF Pictures, New
  <1>9. Replaced(t)'
    BY <1>1, <1>4, <1>6, <1>7 DEF Replaced, Pictures, OneColumn
  <1>10. Stored(t)'
    <2>1. edit[t].key \in There  BY DEF I!ReadOld, Pictures, Stored
    <2> QED  BY <1>4, <1>6, <1>7, <2>1 DEF Stored, There
  <1>11. e.key <= stamp' /\ e.old <= stamp' /\ stamp <= stamp'
    BY <1>2, <1>4, <1>7, PictureTypes
  <1>12. \A k \in There \ There' : FALSE  BY <1>7 DEF There
  <1>13. Fresh(t)' => Fresh(t) /\ e.key = edit[t].key  BY <1>4, <1>7
  <1>14. /\ settings' \in BOOLEAN /\ stamp' \in I!Key \cup {0}
         /\ objects' \subseteq I!Key /\ refused' \subseteq I!Key /\ disowned' \subseteq I!Key
    BY <1>7, PictureTypes
  <1> QED  BY <1>4, <1>5, <1>7, <1>8, <1>9, <1>10, <1>11, <1>12, <1>13, <1>14, EditStep

LEMMA RowMadeMeanwhileStep ==
  ASSUME Pictures, NEW t \in Tab, I!RowMadeMeanwhile(t) \/ I!ImageCallFails(t) PROVE Pictures'
  <1>1. I!Done(t) /\ UNCHANGED <<column, settings, objects, stamp, refused, disowned>>
    BY DEF I!RowMadeMeanwhile, I!ImageCallFails
  <1> QED  BY <1>1, DoneStep

LEMMA DiscardStep ==
  ASSUME Pictures, NEW t \in Tab, I!Discard(t) PROVE Pictures'
  <1>1. /\ I!Done(t) /\ UNCHANGED <<column, settings, stamp, refused, disowned>>
        /\ objects' \in {objects, objects \ {edit[t].old}} /\ edit[t].at = "discarding"
    BY DEF I!Discard
  <1>2. ASSUME NEW k \in objects \ objects'
        PROVE  /\ \A p \in Place : column[p] # k
               /\ \A u \in Tab : Fresh(u) => edit[u].key # k
    <2>1. k = edit[t].old /\ k # 0  BY <1>1, <1>2, PictureTypes, KeysOfEdits
    <2>2. Replaced(t) /\ \A u \in Tab : New(u)  BY DEF Pictures
    <2> QED  BY <1>1, <2>1, <2>2 DEF Replaced, New
  <1> QED  BY <1>1, <1>2, DoneStep

LEMMA FindPictureStep ==
  ASSUME Pictures, NEW t \in Tab, NEW p \in Place, I!FindPicture(t, p) PROVE Pictures'
  <1> DEFINE e == [I!NoEdit EXCEPT !.at = "erasing", !.place = p, !.old = column[p]]
  <1>1. column[p] \in I!Key \cup {0} /\ column[p] <= stamp  BY PictureTypes
  <1>2. e \in Edits /\ e.at = "erasing" /\ e.key = 0 /\ e.old = column[p]
    BY <1>1, IdleEdit, Zenon DEF Edits
  <1>3. edit' = [edit EXCEPT ![t] = e]  BY DEF I!FindPicture
  <1> HIDE DEF e
  <1>4. edit'[t] = e  BY <1>3, PictureTypes
  <1>5. UNCHANGED <<column, settings, objects, stamp, refused, disowned>> /\ column[p] # 0
    BY DEF I!FindPicture
  <1>6. ~ Fresh(t)' /\ Replaced(t)' /\ Stored(t)'
    BY <1>2, <1>4, <1>5 DEF Fresh, Replaced, Stored
  <1>7. \A u \in Tab : Fresh(u) => edit[u].key # e.old  BY <1>2 DEF Pictures, New
  <1>8. e.key <= stamp' /\ e.old <= stamp' /\ stamp <= stamp'
    BY <1>1, <1>2, <1>5, PictureTypes, KeysOfEdits
  <1>9. \A k \in There \ There' : FALSE  BY <1>5 DEF There
  <1>10. /\ settings' \in BOOLEAN /\ stamp' \in I!Key \cup {0}
         /\ objects' \subseteq I!Key /\ refused' \subseteq I!Key /\ disowned' \subseteq I!Key
    BY <1>5, PictureTypes
  <1> QED  BY <1>2, <1>3, <1>5, <1>6, <1>7, <1>8, <1>9, <1>10, EditStep

LEMMA EraseStep ==
  ASSUME Pictures, NEW t \in Tab, I!Erase(t) PROVE Pictures'
  <1> DEFINE e == [edit[t] EXCEPT !.at = "clearing"]
  <1>1. /\ e \in Edits /\ e.at = "clearing" /\ e.key = edit[t].key /\ e.old = edit[t].old
    BY AtFacts
  <1>2. edit' = [edit EXCEPT ![t] = e]  BY DEF I!Erase, I!Steps
  <1> HIDE DEF e
  <1>3. edit'[t] = e  BY <1>2, PictureTypes
  <1>4. UNCHANGED <<column, settings, stamp, refused>>  BY DEF I!Erase
  <1>5. ~ Fresh(t)' /\ Replaced(t)' /\ Stored(t)'
    BY <1>1, <1>3 DEF Fresh, Replaced, Stored
  <1>6. edit[t].old \in I!Key
    <2>1. edit[t].old # 0  BY DEF I!Erase, Pictures, Replaced
    <2> QED  BY <2>1, PictureTypes, KeysOfEdits
  <1>7. /\ objects' = objects \ {edit[t].old} /\ disowned' = disowned \cup {edit[t].old}
    BY DEF I!Erase
  <1>8. /\ objects' \subseteq I!Key /\ refused' \subseteq I!Key /\ disowned' \subseteq I!Key
        /\ There \subseteq There'
    BY <1>4, <1>6, <1>7, PictureTypes DEF There
  <1> QED  BY <1>1, <1>2, <1>4, <1>5, <1>8, SameKeyStep

-----------------------------------------------------------------------------
(* The steps that change a column *)

\* The column that t edits gets k, which is none or its new key.
LEMMA ColumnStep ==
  ASSUME Pictures, NEW t \in Tab, NEW e \in Edits, edit' = [edit EXCEPT ![t] = e],
         NEW k \in I!Key \cup {0}, column' = [column EXCEPT ![edit[t].place] = k],
         k = 0 \/ (Fresh(t) /\ k = edit[t].key /\ k \in There),
         ~ Fresh(t)', e.key <= stamp, e.old <= stamp, e.old \in {0, edit[t].old},
         Replaced(t)',
         settings' \in BOOLEAN, UNCHANGED <<stamp, objects, refused, disowned>>
  PROVE  Pictures'
  <1> USE DEF Pictures
  <1>1. /\ edit' \in [Tab -> Edits] /\ edit'[t] = e
        /\ \A u \in Tab : u # t => edit'[u] = edit[u]
    BY EditFacts
  <1>2. edit[t].place \in Place /\ column \in [Place -> I!Key \cup {0}]
    BY PictureTypes, KeysOfEdits
  <1>3. /\ column' \in [Place -> I!Key \cup {0}] /\ column'[edit[t].place] = k
        /\ \A p \in Place : p # edit[t].place => column'[p] = column[p]
    BY <1>2
  <1>4. I!ImagesTypeOK'
    BY <1>1, <1>3, PictureTypes, Zenon DEF I!ImagesTypeOK, Edits
  <1>5. k <= stamp
    <2>1. 0 <= stamp /\ edit[t].key <= stamp  BY PictureTypes
    <2> QED  BY <2>1
  <1>6. Given'
    <2>1. \A u \in Tab : edit'[u].key <= stamp /\ edit'[u].old <= stamp
      BY <1>1 DEF Given
    <2>2. \A p \in Place : column'[p] <= stamp
      BY <1>3, <1>5 DEF Given
    <2> QED  BY <2>1, <2>2 DEF Given
  <1>7. k # 0 => /\ Fresh(t) /\ k = edit[t].key /\ k \in There
                 /\ \A p \in Place : column[p] # k
                 /\ \A u \in Tab : edit[u].old # k
                 /\ \A u \in Tab : Fresh(u) /\ edit[u].key = k => u = t
    BY DEF New
  <1>8. OneColumn'  BY <1>3, <1>7 DEF OneColumn
  <1>9. ASSUME NEW u \in Tab PROVE New(u)'
    <2>1. CASE u = t  BY <2>1 DEF New
    <2>2. CASE u # t
      <3>1. edit'[u] = edit[u] /\ (Fresh(u)' <=> Fresh(u))  BY <1>1, <2>2 DEF Fresh
      <3> SUFFICES ASSUME Fresh(u) PROVE New(u)'
        BY <3>1 DEF New
      <3>2. /\ edit[u].key # 0
            /\ \A p \in Place : column[p] # edit[u].key
            /\ \A v \in Tab : edit[v].old # edit[u].key
            /\ \A v \in Tab : Fresh(v) /\ edit[v].key = edit[u].key => v = u
        BY DEF New
      <3>3. edit[u].key # k  BY <1>7, <2>2, <3>2
      <3>4. \A p \in Place : column'[p] # edit[u].key  BY <1>3, <3>2, <3>3
      <3>5. \A v \in Tab : edit'[v].old # edit[u].key  BY <1>1, <3>2
      <3>6. \A v \in Tab : Fresh(v)' /\ edit'[v].key = edit[u].key => v = u
        <4>1. \A v \in Tab : v # t => (Fresh(v)' <=> Fresh(v))  BY <1>1 DEF Fresh
        <4> QED  BY <1>1, <3>2, <4>1
      <3> QED  BY <3>1, <3>2, <3>4, <3>5, <3>6 DEF New
    <2> QED  BY <2>1, <2>2
  <1>10. ASSUME NEW u \in Tab PROVE Replaced(u)' /\ Stored(u)'
    <2>1. CASE u = t  BY <2>1 DEF Stored, Fresh
    <2>2. CASE u # t
      <3>1. edit'[u] = edit[u] /\ Replaced(u) /\ Stored(u)  BY <1>1, <2>2
      <3>2. Stored(u)'  BY <3>1 DEF Stored, There
      <3>3. \A p \in Place : column'[p] = edit[u].old /\ column'[p] # 0 =>
                               column'[p] = column[p]
        BY <1>3, <1>7
      <3>4. Replaced(u)'  BY <3>1, <3>3 DEF Replaced
      <3> QED  BY <3>2, <3>4
    <2> QED  BY <2>1, <2>2
  <1>11. PictureIsThere'
    <2>1. \A p \in Place : column[p] = 0 \/ column[p] \in There
      BY DEF PictureIsThere, I!PictureIsThere, There
    <2>2. There' = There  BY DEF There
    <2>3. \A p \in Place : column'[p] = 0 \/ column'[p] \in There'
      BY <1>3, <1>7, <2>1, <2>2
    <2> QED  BY <2>3 DEF PictureIsThere, I!PictureIsThere, There
  <1> QED  BY <1>4, <1>6, <1>8, <1>9, <1>10, <1>11

LEMMA UpdateStep ==
  ASSUME Pictures, NEW t \in Tab, I!Update(t) PROVE Pictures'
  <1> DEFINE e == [edit[t] EXCEPT !.at = "discarding"]
  <1>1. /\ e \in Edits /\ e.at = "discarding" /\ e.key = edit[t].key /\ e.old = edit[t].old
    BY AtFacts
  <1>2. edit' = [edit EXCEPT ![t] = e]  BY DEF I!Update, I!Steps
  <1> HIDE DEF e
  <1>3. edit'[t] = e  BY <1>2, PictureTypes
  <1>4. /\ edit[t].at = "updating" /\ Fresh(t)
        /\ column' = [column EXCEPT ![edit[t].place] = edit[t].key]
        /\ UNCHANGED <<stamp, objects, refused, disowned>>
    BY DEF I!Update, Fresh
  <1>5. settings' \in BOOLEAN
    <2>1. settings \in BOOLEAN /\ edit[t].found \in BOOLEAN
      <3>1. edit[t] \in Edits  BY PictureTypes
      <3> QED  BY <3>1, PictureTypes, Zenon DEF Edits
    <2> QED  BY <2>1, Zenon DEF I!Update
  <1>6. edit[t].key \in I!Key \cup {0} /\ edit[t].place \in Place /\ column \in [Place -> I!Key \cup {0}]
    BY PictureTypes, KeysOfEdits
  <1>7. edit[t].key \in There  BY <1>4 DEF Pictures, Stored
  <1>8. ~ Fresh(t)'  BY <1>1, <1>3 DEF Fresh
  <1>9. Replaced(t)'
    <2>1. edit[t].key # edit[t].old  BY <1>4 DEF Pictures, New
    <2>2. \A p \in Place : column'[p] = IF p = edit[t].place THEN edit[t].key ELSE column[p]
      BY <1>4, <1>6
    <2>3. \A p \in Place : column[p] = edit[t].old /\ column[p] # 0 => p = edit[t].place
      BY <1>4 DEF Pictures, Replaced
    <2> QED  BY <1>1, <1>3, <2>1, <2>2, <2>3 DEF Replaced
  <1>10. e.key <= stamp /\ e.old <= stamp /\ e.old \in {0, edit[t].old}
    BY <1>1, PictureTypes
  <1> QED  BY <1>1, <1>2, <1>4, <1>5, <1>6, <1>7, <1>8, <1>9, <1>10, ColumnStep

LEMMA ClearStep ==
  ASSUME Pictures, NEW t \in Tab, I!Clear(t) PROVE Pictures'
  <1>1. edit' = [edit EXCEPT ![t] = I!NoEdit]  BY DEF I!Clear, I!Done
  <1>2. edit'[t] = I!NoEdit  BY <1>1, PictureTypes
  <1>3. ~ Fresh(t)' /\ Replaced(t)'
    BY <1>2, IdleEdit DEF Fresh, Replaced
  <1>4. /\ column' = [column EXCEPT ![edit[t].place] = 0] /\ settings' = settings
        /\ UNCHANGED <<stamp, objects, refused, disowned>>
    BY DEF I!Clear
  <1>5. settings' \in BOOLEAN /\ 0 <= stamp /\ 0 \in I!Key \cup {0}
    BY <1>4, PictureTypes
  <1> QED  BY <1>1, <1>3, <1>4, <1>5, IdleEdit, ColumnStep

LEMMA SamePictures ==
  ASSUME Pictures, UNCHANGED <<edit, column, objects, stamp, refused, disowned>>,
         settings' \in BOOLEAN
  PROVE  Pictures'
  BY DEF Pictures, I!ImagesTypeOK, Given, OneColumn, New, Replaced, Stored, Fresh, There,
         PictureIsThere, I!PictureIsThere

LEMMA ImageSteps ==
  ASSUME Pictures, NEW t \in Tab, I!ImageStep(t) PROVE Pictures'
  <1>1. CASE \E p \in Place : I!GetUrl(t, p) \/ I!FindPicture(t, p)
    BY <1>1, GetUrlStep, FindPictureStep
  <1>2. CASE I!Put(t) \/ I!ReadOld(t) \/ I!Update(t) \/ I!RowMadeMeanwhile(t) \/ I!Discard(t)
    BY <1>2, PutStep, ReadOldStep, UpdateStep, RowMadeMeanwhileStep, DiscardStep
  <1>3. CASE I!Erase(t) \/ I!Clear(t) \/ I!ImageCallFails(t)
    BY <1>3, EraseStep, ClearStep, RowMadeMeanwhileStep
  <1>4. CASE I!CreateSettings(t)
    <2>1. settings' \in BOOLEAN  BY <1>4 DEF I!CreateSettings
    <2> QED  BY <1>4, <2>1, SamePictures DEF I!CreateSettings
  <1> QED  BY <1>1, <1>2, <1>3, <1>4 DEF I!ImageStep

-----------------------------------------------------------------------------
(* The theorems *)

LEMMA InitIInv == SettingsInit => IInv
  BY InitCodes, InitPictures DEF SettingsInit, IInv, SettingsTypeOK, Pictures

LEMMA NextIInv == IInv /\ [SettingsNext]_<<codeVars, pictureVars>> => IInv'
  <1> SUFFICES ASSUME IInv, [SettingsNext]_<<codeVars, pictureVars>> PROVE IInv'
    OBVIOUS
  <1>1. CodesTypeOK /\ Pictures  BY DEF IInv, SettingsTypeOK, Pictures
  <1>2. settings \in BOOLEAN  BY <1>1, PictureTypes
  <1>3. CodesTypeOK' /\ Pictures'
    <2>1. CASE CodesNext /\ UNCHANGED pictureVars
      BY <1>1, <1>2, <2>1, CodesTypes, SamePictures DEF pictureVars
    <2>2. ASSUME NEW t \in Tab, Reload(t) PROVE CodesTypeOK' /\ Pictures'
      BY <1>1, <1>2, <2>2, CodesTypes, SamePictures DEF Reload, pictureVars
    <2>3. ASSUME NEW t \in Tab, Edit(t) PROVE CodesTypeOK' /\ Pictures'
      BY <1>1, <2>3, CodesTypes, ImageSteps DEF Edit
    <2>4. CASE UNCHANGED <<codeVars, pictureVars>>
      BY <1>1, <1>2, <2>4, CodesTypes, SamePictures DEF pictureVars
    <2> QED  BY <2>1, <2>2, <2>3, <2>4 DEF SettingsNext
  <1> QED  BY <1>3 DEF IInv, SettingsTypeOK, Pictures

\* IInv holds in every reachable state of verification and pictures.
THEOREM Invariance == SettingsSpec => []IInv
  BY InitIInv, NextIInv, PTL DEF SettingsSpec

\* Every variable of views, codes and pictures keeps its type.
THEOREM TypesHold == SettingsSpec => []SettingsTypeOK
  <1>1. IInv => SettingsTypeOK  BY DEF IInv
  <1> QED  BY <1>1, Invariance, PTL

\* The key in a column names an object that is there, or one that the store refused or a
\* user began to delete, in whatever order several tabs upload, replace and delete
\* (image.controller.ts, confirm and delete handlers).
THEOREM PicturesAreThere == SettingsSpec => []PictureIsThere
  <1>1. IInv => PictureIsThere  BY DEF IInv
  <1> QED  BY <1>1, Invariance, PTL
====
