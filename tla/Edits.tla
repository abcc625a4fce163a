------------------------------- MODULE Edits -------------------------------
(***************************************************************************)
(* Editing what others edit too: `fjo issue edit`, `fjo pr edit`,          *)
(* `fjo topic` and `fjo webhook edit`.  Some of it has a request of its    *)
(* own for each name put on or taken off; for the rest Forgejo takes only  *)
(* a whole set, so the command reads, changes and sends it.  Any request   *)
(* may be refused, or be carried out and its answer lost.                  *)
(***************************************************************************)
CONSTANTS Label, Person

VARIABLES
  held,    \* the item's labels (or topics, or events) and its assignees
  edit,    \* the running command
  since    \* what others changed since the command read the item

editVars == <<held, edit, since>>

Sets == [labels : SUBSET Label, people : SUBSET Person]
Names == [labels |-> Label, people |-> Person]
Nothing == [labels |-> {}, people |-> {}]
NoEdit == [op |-> "none", add |-> Nothing, remove |-> Nothing, seen |-> Nothing, todo |-> {}, step |-> "idle"]

EditsTypeOK ==
  /\ held \in Sets
  /\ edit \in [op : {"issue", "pull", "topics", "setTopics", "hook", "none"},
               add : Sets, remove : Sets, seen : Sets, todo : SUBSET Label,
               step : {"read", "add", "remove", "patch", "idle"}]
  /\ since \in Sets

EditsInit == held = Nothing /\ edit = NoEdit /\ since = Nothing

-----------------------------------------------------------------------------
Edit(op, add, remove, step) ==
  /\ edit = NoEdit
  /\ edit' = [op |-> op, add |-> add, remove |-> remove, seen |-> Nothing,
              todo |-> IF op = "topics" THEN add.labels \union remove.labels ELSE remove.labels,
              step |-> step]
  /\ since' = Nothing
  /\ UNCHANGED held

Asked(field) == edit.add[field] # {} \/ edit.remove[field] # {}

(* The issue is read only for the sake of its assignees. *)
EditIssue(add, remove) ==
  Edit("issue", add, remove, IF add.people \union remove.people # {} THEN "read" ELSE "add")
EditPull(add, remove) == Edit("pull", add, remove, "read")

(* One request for each topic; `topic set` sends the list as it is. *)
AddTopics(names) == Edit("topics", [Nothing EXCEPT !.labels = names], Nothing, "add")
RemoveTopics(names) == Edit("topics", Nothing, [Nothing EXCEPT !.labels = names], "remove")
SetTopics(names) ==
  Edit("setTopics", [Nothing EXCEPT !.labels = names], [Nothing EXCEPT !.labels = Label \ names], "patch")

EditHook(add, remove) ==
  Edit("hook", [Nothing EXCEPT !.labels = add], [Nothing EXCEPT !.labels = remove], "read")

Goes(next) == edit' \in {next, NoEdit} /\ UNCHANGED since
Interrupted == edit # NoEdit /\ edit' = NoEdit /\ UNCHANGED <<held, since>>

Read ==
  /\ edit.step = "read"
  /\ edit' = [edit EXCEPT !.seen = held, !.step = IF edit.op = "issue" THEN "add" ELSE "patch"]
  /\ since' = Nothing
  /\ UNCHANGED held

(* All labels in one request, none for no label; topics one by one. *)
AddLabels ==
  /\ edit.op = "issue" /\ edit.step = "add"
  /\ held' = [held EXCEPT !.labels = @ \union edit.add.labels]
  /\ Goes([edit EXCEPT !.step = "remove"])

AddTopic(name) ==
  /\ edit.op = "topics" /\ edit.step = "add" /\ name \in edit.todo
  /\ held' = [held EXCEPT !.labels = @ \union {name}]
  /\ Goes([edit EXCEPT !.todo = @ \ {name}])

RemoveLabel(name) ==
  /\ edit.step = "remove" /\ name \in edit.todo
  /\ held' = [held EXCEPT !.labels = @ \ {name}]
  /\ Goes([edit EXCEPT !.todo = @ \ {name}])

NoMore ==
  /\ edit.step \in {"add", "remove"} /\ edit.todo = {}
  /\ edit.op = "issue" => edit.step = "remove"
  /\ edit' = IF edit.op = "issue" /\ Asked("people") THEN [edit EXCEPT !.step = "patch"] ELSE NoEdit
  /\ UNCHANGED <<held, since>>

\* Mutant: a field that nobody asked to change is sent as it was read.
SendsAll(field) == TRUE

(* What the request carries: a webhook's fields are all sent, the others   *)
(* only where something was asked.                                         *)
Sends(field) ==
  CASE edit.op = "hook" -> TRUE
    [] edit.op = "issue" -> field = "people" /\ Asked(field)
    [] OTHER -> Asked(field)

\* Mutant: the names asked for are sent alone.
Replaced(field) == edit.add[field]

(* `mutate` of pr edit takes off and then puts on, the others the other    *)
(* way round.                                                              *)
Mutate(field) ==
  LET add == edit.add[field]
      remove == edit.remove[field]
      current == edit.seen[field]
  IN  CASE edit.op = "setTopics" -> add
        [] edit.op = "pull" -> (current \ remove) \union add
        [] OTHER -> (current \union add) \ remove

Patch ==
  /\ edit.step = "patch"
  /\ held' = [field \in DOMAIN held |-> IF Sends(field) THEN Mutate(field) ELSE held[field]]
  /\ Goes(NoEdit)

EditSteps ==
  \/ Read \/ AddLabels \/ NoMore \/ Patch \/ Interrupted
  \/ \E name \in Label : AddTopic(name) \/ RemoveLabel(name)

(* A colleague puts a name on, or takes it off. *)
Others ==
  /\ \E field \in DOMAIN held : \E name \in Names[field] :
       /\ \/ held' = [held EXCEPT ![field] = @ \union {name}]
          \/ held' = [held EXCEPT ![field] = @ \ {name}]
       /\ since' = [since EXCEPT ![field] = @ \union {name}]
  /\ UNCHANGED edit

EditsNext ==
  \/ \E add, remove \in Sets : EditIssue(add, remove) \/ EditPull(add, remove)
  \/ \E names \in SUBSET Label : AddTopics(names) \/ RemoveTopics(names) \/ SetTopics(names)
  \/ \E add, remove \in SUBSET Label : EditHook(add, remove)
  \/ EditSteps \/ Others

EditsSpec == EditsInit /\ [][EditsNext]_editVars

-----------------------------------------------------------------------------
Changed(field) == (held[field] \ held'[field]) \union (held'[field] \ held[field])

(* A set that this command sends whole: what others change between the     *)
(* read and the request is overwritten.  Forgejo has no other request for  *)
(* a webhook's events and for assignees.  It has one for labels, which     *)
(* `issue edit` uses to avoid this loss (state.rs 18-20), and `pr edit`    *)
(* does not; the loss there is the code's choice and is not judged here.   *)
Overwritten(field) ==
  CASE edit.op = "hook" -> since[field]
    [] edit.op = "pull" \/ (edit.op = "issue" /\ field = "people") ->
         IF Asked(field) THEN since[field] ELSE {}
    [] OTHER -> {}

(* ops.rs 637-638, state.rs 18-21: an edit puts on and takes off what it   *)
(* was asked to and leaves the rest as others made it, whatever they did   *)
(* since it began; where only whole sets can be sent, it undoes nothing    *)
(* that was done before it read them.                                      *)
OthersKept ==
  [][EditSteps => \A field \in DOMAIN held :
       Changed(field) \subseteq edit.add[field] \union edit.remove[field] \union Overwritten(field)]_editVars
=============================================================================
