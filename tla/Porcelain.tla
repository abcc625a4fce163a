------------------------------ MODULE Porcelain ------------------------------
(***************************************************************************)
(* One terminal, which runs the commands of one family: LocalGit's,        *)
(* Releases', WebLogin's, FanOut's, Edits', Drafts' or DefaultRepo's.      *)
(* They share no state, so they are checked side by side, not interleaved. *)
(***************************************************************************)
EXTENDS LocalGit, Releases, WebLogin, FanOut, Edits, Drafts, DefaultRepo

VARIABLE family

porcelainVars == <<family, gitVars, releaseVars, loginVars, fanVars, editVars, draftVars, contextVars>>

(* Where it matters, git starts anywhere; beside the others, in one place. *)
PorcelainInit ==
  /\ GitInit /\ ReleasesInit /\ WebLoginInit /\ FanOutInit /\ EditsInit /\ DraftsInit /\ ContextInit
  /\ \/ family = "git"
     \/ family = "none" /\ head = CHOOSE b \in Branch : TRUE

Only(f) == family \in {"none", f} /\ family' = f

Git == Only("git") /\ GitNext
  /\ UNCHANGED <<releaseVars, loginVars, fanVars, editVars, draftVars, contextVars>>
Release == Only("release") /\ ReleasesNext
  /\ UNCHANGED <<gitVars, loginVars, fanVars, editVars, draftVars, contextVars>>
Login == Only("login") /\ WebLoginNext
  /\ UNCHANGED <<gitVars, releaseVars, fanVars, editVars, draftVars, contextVars>>
Fan == Only("fan") /\ FanOutNext
  /\ UNCHANGED <<gitVars, releaseVars, loginVars, editVars, draftVars, contextVars>>
Editing == Only("edit") /\ EditsNext
  /\ UNCHANGED <<gitVars, releaseVars, loginVars, fanVars, draftVars, contextVars>>
Drafting == Only("draft") /\ DraftsNext
  /\ UNCHANGED <<gitVars, releaseVars, loginVars, fanVars, editVars, contextVars>>
Choosing == Only("context") /\ ContextNext
  /\ UNCHANGED <<gitVars, releaseVars, loginVars, fanVars, editVars, draftVars>>

PorcelainNext == Git \/ Release \/ Login \/ Fan \/ Editing \/ Drafting \/ Choosing
PorcelainSpec == PorcelainInit /\ [][PorcelainNext]_porcelainVars

(* The listener polls, its clock runs, and the server answers or the       *)
(* connection breaks.                                                      *)
FairPorcelainSpec == PorcelainSpec /\ WF_loginVars(LoginProgress /\ Only("login"))
=============================================================================
