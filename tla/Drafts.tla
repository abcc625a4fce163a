------------------------------- MODULE Drafts -------------------------------
(***************************************************************************)
(* `fjo pr create`, over the API or by an AGit push, and the file in which *)
(* it keeps the title and body until the pull request is there.  Any step  *)
(* may fail, an answer may be lost, the command may be killed, and the     *)
(* user runs it again, with --recover or without, from any branch.         *)
(***************************************************************************)
EXTENDS FiniteSets

CONSTANTS
  Prose,     \* what the user writes
  Heads      \* the branches, and the topics given by name

VARIABLES
  saved,     \* the recovery file of this repository, "none" or "torn"
  pulls,     \* the pull requests on the server
  opened,    \* history: what was ever published
  create,    \* the running command
  advice     \* history: what the last run that failed said it had saved

draftVars == <<saved, pulls, opened, create, advice>>

Flow == {"classic", "agit"}
Idle == [flow |-> "none", step |-> "idle"]
NoAdvice == [text |-> "none", done |-> FALSE]

(* `kept`: the draft was saved; `done`: the server has taken the pull request. *)
Creating == [flow : Flow, text : Prose, head : Heads, dry : BOOLEAN, kept : BOOLEAN, done : BOOLEAN,
            step : {"save", "look", "send", "locate", "close", "review"}]

DraftsTypeOK ==
  /\ saved \in Prose \union {"none", "torn"}
  /\ pulls \subseteq [flow : Flow, head : Heads, topic : Heads]
  /\ opened \subseteq Prose
  /\ create \in Creating \union {Idle}
  /\ advice \in [text : Prose, done : BOOLEAN] \union {NoAdvice}

DraftsInit == saved = "none" /\ pulls = {} /\ opened = {} /\ create = Idle /\ advice = NoAdvice

-----------------------------------------------------------------------------
(* The draft is what the file has, or written anew. *)
Assemble(flow, text, head, dry, recover) ==
  /\ create = Idle
  /\ recover => saved = text
  /\ create' = [flow |-> flow, text |-> text, head |-> head, dry |-> dry,
                kept |-> FALSE, done |-> FALSE, step |-> "save"]
  /\ UNCHANGED <<saved, pulls, opened, advice>>

Reached(step) == create.step = step
To(step) == create' = [create EXCEPT !.step = step] /\ UNCHANGED advice

(* The file is cut and written; that it cannot be is not fatal. *)
SaveDraft ==
  /\ Reached("save")
  /\ \/ saved' = create.text /\ create' = [create EXCEPT !.kept = TRUE, !.step = "look"]
     \/ saved' \in {saved, "torn"} /\ create' = [create EXCEPT !.step = "look"]
  /\ UNCHANGED <<pulls, opened, advice>>

(* A run that fails says what it saved. *)
Fail ==
  /\ create' = Idle
  /\ advice' = IF create.kept THEN [text |-> create.text, done |-> create.done] ELSE NoAdvice

(* Users, labels and the milestone, or the topic and the remote, are       *)
(* looked up; a dry run ends there, as one that has sent does.             *)
LookUp ==
  /\ Reached("look")
  /\ Fail \/ To(IF create.dry THEN "close" ELSE "send")
  /\ UNCHANGED <<saved, pulls, opened>>

\* Mutant: every push has a topic of its own.
TopicNew == <<create.head, Cardinality(pulls)>>

(* What the server knows a pull request by: the same topic updates it. *)
Topic == create.head
Pull == [flow |-> create.flow, head |-> create.head, topic |-> Topic]

(* The server (external) takes one pull request from a branch by the API,  *)
(* and a push to a topic that has one for an update.                       *)
Publish ==
  /\ create.flow = "classic" => Pull \notin pulls
  /\ pulls' = pulls \union {Pull}
  /\ opened' = opened \union {create.text}

Accepted ==
  /\ Reached("send") /\ Publish
  /\ create' = [create EXCEPT !.done = TRUE, !.step = IF create.flow = "agit" THEN "locate" ELSE "close"]
  /\ UNCHANGED <<saved, advice>>

(* Refused, or the answer is lost. *)
Rejected ==
  /\ Reached("send") /\ Fail
  /\ Publish \/ UNCHANGED <<pulls, opened>>
  /\ UNCHANGED saved

\* Mutant: the pull request must be read back.
LocateOrFail == Reached("locate") /\ (Fail \/ To("close")) /\ UNCHANGED <<saved, pulls, opened>>

(* What a push made is looked for; that it is not found is a warning. *)
Locate == Reached("locate") /\ To("close") /\ UNCHANGED <<saved, pulls, opened>>

(* The file goes, if it was written and can be removed. *)
Close ==
  /\ Reached("close") /\ To("review")
  /\ saved' \in IF create.kept THEN {saved, "none"} ELSE {saved}
  /\ UNCHANGED <<pulls, opened>>

(* Reviews are asked for, which may fail without advice; or a kill. *)
Leave ==
  /\ create # Idle /\ create' = Idle
  /\ UNCHANGED <<saved, pulls, opened, advice>>

DraftsNext ==
  \/ \E flow \in Flow, text \in Prose, head \in Heads, dry, recover \in BOOLEAN :
       Assemble(flow, text, head, dry, recover)
  \/ SaveDraft \/ LookUp \/ Accepted \/ Rejected \/ Locate \/ Close \/ Leave

DraftsSpec == DraftsInit /\ [][DraftsNext]_draftVars

-----------------------------------------------------------------------------
(* create.rs 533-536, agit.rs 24-26: who is told to run it again with      *)
(* --recover is not told so of a pull request the server is known to have, *)
(* and running it again, after a lost answer too, opens no second one.     *)
RerunSafe ==
  /\ ~advice.done
  /\ \A p, q \in pulls : p.flow = q.flow /\ p.head = q.head => p = q

(* create.rs 211: "your title and body were saved; re-run with --recover   *)
(* to reuse them".  The file that was named goes only when a pull request  *)
(* carries what was in it.                                                 *)
SavedUntilOpened ==
  [][advice # NoAdvice /\ saved = advice.text /\ saved' = "none" => saved \in opened']_draftVars
=============================================================================
