------------------------------ MODULE Settings ------------------------------
(***************************************************************************)
(* A new account in the tabs of its browser: each shows the verification     *)
(* page until it learns that the account is verified, and the settings      *)
(* after that.                                                              *)
(***************************************************************************)
EXTENDS Codes

CONSTANTS Place, Brand, Unchecked, MaxUploads

ASSUME ImagesAssumption ==
  /\ Place # {} /\ Brand \subseteq Place /\ Unchecked \subseteq Place
  /\ MaxUploads \in Nat

VARIABLES edit, column, settings, objects, stamp, refused, disowned

pictureVars == <<edit, column, settings, objects, stamp, refused, disowned>>

I == INSTANCE Images

\* A tab that is loaded again finds the account verified.
Reload(t) ==
  /\ at[t] \in {"closed", "entering"} /\ verified
  /\ Leaves(t)
  /\ UNCHANGED <<cooldown, verified, troubles, pictureVars>>

Edit(t) == at[t] = "left" /\ I!ImageStep(t) /\ UNCHANGED codeVars

SettingsInit == CodesInit /\ I!ImagesInit
SettingsNext ==
  \/ CodesNext /\ UNCHANGED pictureVars
  \/ \E t \in Tab : Reload(t) \/ Edit(t)
SettingsSpec ==
  SettingsInit /\ [][SettingsNext]_<<codeVars, pictureVars>> /\ CodesFairness

-----------------------------------------------------------------------------
(* Properties *)

\* Every variable keeps its type.
SettingsTypeOK == CodesTypeOK /\ I!ImagesTypeOK

\* A new account gets verified, though mails get lost, codes and tokens expire while they
\* are typed or used, requests of two tabs run into one cool-down, and calls fail.
VerifiedInTheEnd == <>verified

\* Of the pictures, see the module Images.
PictureIsThere == I!PictureIsThere
=============================================================================
