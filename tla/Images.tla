------------------------------- MODULE Images -------------------------------
(***************************************************************************)
(* The pictures of an account: profile picture, brand logo and logo mark,    *)
(* uploaded and deleted from the settings pages in several tabs              *)
(* (imageService.ts and its hooks, image.controller.ts, user.controller.ts). *)
(*                                                                         *)
(* A picture is an object under a key that bears the time of the request,   *)
(* and a column that holds the key: of the user, or of the brand settings,  *)
(* a row that the first upload of a logo makes if the form has not.  Keys   *)
(* are counted here; two of one millisecond are not considered.             *)
(***************************************************************************)
EXTENDS Naturals

CONSTANTS Tab,
          Place,       \* the columns
          Brand,       \* those of them in the brand settings
          Unchecked,   \* those whose upload does not look at the object store's answer
          MaxUploads   \* bound on the uploads

VARIABLES
  edit,       \* the operation of a tab: where it is, its column, its key, the key it found,
              \*   and whether it found the row
  column,     \* [Place -> the key in the database, 0 for null]
  settings,   \* the row of the brand settings is there
  objects,    \* keys in the object store
  stamp,      \* the last key given out
  \* history
  refused,    \* keys that the object store refused to store, and nobody looked
  disowned    \* keys whose deletion a user began

imageVars == <<edit, column, settings, objects, stamp, refused, disowned>>

Key    == 1..MaxUploads
NoEdit == [at |-> "idle", place |-> CHOOSE p \in Place : TRUE, key |-> 0, old |-> 0, found |-> TRUE]

Steps(t, s) == edit' = [edit EXCEPT ![t].at = s]
Done(t) == edit' = [edit EXCEPT ![t] = NoEdit]

-----------------------------------------------------------------------------
(* Upload: presigned URL, PUT, confirm *)

GetUrl(t, p) ==
  /\ edit[t].at = "idle" /\ stamp < MaxUploads
  /\ stamp' = stamp + 1
  /\ edit' = [edit EXCEPT ![t] = [NoEdit EXCEPT !.at = "putting", !.place = p, !.key = stamp']]
  /\ UNCHANGED <<column, settings, objects, refused, disowned>>

Put(t) ==
  /\ edit[t].at = "putting"
  /\ \/ objects' = objects \cup {edit[t].key} /\ UNCHANGED refused
     \/ /\ edit[t].place \in Unchecked
        /\ refused' = refused \cup {edit[t].key} /\ UNCHANGED objects
  /\ Steps(t, "confirming")
  /\ UNCHANGED <<column, settings, stamp, disowned>>

RowExists(p) == p \in Brand => settings

ReadOld(t) ==
  /\ edit[t].at = "confirming"
  /\ edit' = [edit EXCEPT ![t].at = "updating", ![t].old = column[edit[t].place],
                          ![t].found = RowExists(edit[t].place)]
  /\ UNCHANGED <<column, settings, objects, stamp, refused, disowned>>

\* Mutated form of Update: the key to discard is read after the update
UpdateThenRead(t) ==
  /\ edit[t].at = "updating"
  /\ edit[t].found \/ ~settings
  /\ column' = [column EXCEPT ![edit[t].place] = edit[t].key]
  /\ settings' = (settings \/ ~edit[t].found)
  /\ edit' = [edit EXCEPT ![t].at = "discarding", ![t].old = column'[edit[t].place]]
  /\ UNCHANGED <<objects, stamp, refused, disowned>>

\* The row is updated, or made; it can be made once.
Update(t) ==
  /\ edit[t].at = "updating"
  /\ edit[t].found \/ ~settings
  /\ column' = [column EXCEPT ![edit[t].place] = edit[t].key]
  /\ settings' = (settings \/ ~edit[t].found)
  /\ Steps(t, "discarding")
  /\ UNCHANGED <<objects, stamp, refused, disowned>>

RowMadeMeanwhile(t) ==
  /\ edit[t].at = "updating" /\ ~edit[t].found /\ settings
  /\ Done(t)
  /\ UNCHANGED <<column, settings, objects, stamp, refused, disowned>>

\* A failure to delete the old object is only logged.
Discard(t) ==
  /\ edit[t].at = "discarding"
  /\ objects' \in {objects, objects \ {edit[t].old}}
  /\ Done(t)
  /\ UNCHANGED <<column, settings, stamp, refused, disowned>>

-----------------------------------------------------------------------------
(* Deletion, and the form of the brand settings *)

FindPicture(t, p) ==
  /\ edit[t].at = "idle" /\ column[p] # 0
  /\ edit' = [edit EXCEPT ![t] = [NoEdit EXCEPT !.at = "erasing", !.place = p, !.old = column[p]]]
  /\ UNCHANGED <<column, settings, objects, stamp, refused, disowned>>

Erase(t) ==
  /\ edit[t].at = "erasing"
  /\ objects' = objects \ {edit[t].old}
  /\ disowned' = disowned \cup {edit[t].old}
  /\ Steps(t, "clearing")
  /\ UNCHANGED <<column, settings, stamp, refused>>

\* Whatever the column holds by now
Clear(t) ==
  /\ edit[t].at = "clearing"
  /\ column' = [column EXCEPT ![edit[t].place] = 0]
  /\ Done(t)
  /\ UNCHANGED <<settings, objects, stamp, refused, disowned>>

\* The app's form sends the name and the colours, never a logo.
CreateSettings(t) ==
  /\ edit[t].at = "idle" /\ ~settings
  /\ settings' = TRUE
  /\ UNCHANGED <<edit, column, objects, stamp, refused, disowned>>

ImageCallFails(t) ==
  /\ edit[t].at \notin {"idle", "discarding"}
  /\ Done(t)
  /\ UNCHANGED <<column, settings, objects, stamp, refused, disowned>>

-----------------------------------------------------------------------------
ImagesInit ==
  /\ edit = [t \in Tab |-> NoEdit]
  /\ column = [p \in Place |-> 0]
  /\ settings = FALSE /\ objects = {} /\ stamp = 0
  /\ refused = {} /\ disowned = {}

ImageStep(t) ==
  \/ \E p \in Place : GetUrl(t, p) \/ FindPicture(t, p)
  \/ Put(t) \/ ReadOld(t) \/ Update(t) \/ RowMadeMeanwhile(t) \/ Discard(t)
  \/ Erase(t) \/ Clear(t) \/ CreateSettings(t) \/ ImageCallFails(t)

ImagesTypeOK ==
  /\ edit \in [Tab -> [at : {"idle", "putting", "confirming", "updating", "discarding", "erasing",
                             "clearing"},
                       place : Place, key : Key \cup {0}, old : Key \cup {0}, found : BOOLEAN]]
  /\ column \in [Place -> Key \cup {0}]
  /\ settings \in BOOLEAN /\ objects \subseteq Key /\ stamp \in Key \cup {0}
  /\ refused \subseteq Key /\ disowned \subseteq Key

-----------------------------------------------------------------------------
(* Properties *)

\* The key in a column names an object, whatever other tabs uploaded and deleted meanwhile
\* and whichever call failed: only a key that was refused, or that a user began to delete,
\* does not.
PictureIsThere ==
  \A p \in Place : column[p] \in {0} \cup objects \cup refused \cup disowned
=============================================================================
