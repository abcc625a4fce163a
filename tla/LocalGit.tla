------------------------------ MODULE LocalGit ------------------------------
(***************************************************************************)
(* The commands that change the user's checkout: `fjo pr checkout`,        *)
(* `fjo repo sync` and `fjo pr merge -d`, one git call at a time, while    *)
(* the user edits, commits and switches, other programs fetch, and         *)
(* colleagues push to the server and force-push there.                     *)
(*                                                                         *)
(* A history is the set of the changes in it: one is an ancestor of        *)
(* another when it is a subset.  The server answers a fetch with any       *)
(* history of published changes, so every force-push is covered.           *)
(***************************************************************************)
CONSTANTS Change, Branch

Detached == "detached"

ASSUME LocalGitAssumption == Detached \notin Branch

VARIABLES
  branches,    \* the local branches
  tip,         \* their histories, {} for a name that is no branch
  head,        \* the branch checked out
  tree,        \* uncommitted changes of the work tree
  fetchHead,   \* FETCH_HEAD, which every fetch of any program replaces
  tracking,    \* <remote>/<branch> of the branch being synced
  published,   \* the changes the server has had
  late,        \* what the user worked on since the command began
  cmd          \* the running command, its arguments and its next step

gitVars == <<branches, tip, head, tree, fetchHead, tracking, published, late, cmd>>
worldVars == <<branches, tip, head, tree, fetchHead, tracking, published>>

History == SUBSET Change
NoCommand == [op |-> "none", branch |-> Detached, force |-> FALSE, step |-> "idle"]
Command == [op : {"checkout", "detach", "sync", "merge", "none"},
            branch : Branch \union {Detached}, force : BOOLEAN,
            step : {"look", "fetchHead", "compare", "fetch", "replace", "switch", "fastForward",
                    "status", "hard", "prune", "idle"}]

GitTypeOK ==
  /\ branches \subseteq Branch
  /\ tip \in [Branch -> History]
  /\ head \in Branch \union {Detached}
  /\ {tree, fetchHead, tracking, published, late} \subseteq History
  /\ cmd \in Command

(* A clone with one branch, in sync with the server. *)
GitInit ==
  /\ branches \in {{b} : b \in Branch}
  /\ head \in branches
  /\ tip = [b \in Branch |-> {}]
  /\ tree = {} /\ fetchHead = {} /\ tracking = {} /\ published = {} /\ late = {}
  /\ cmd = NoCommand

-----------------------------------------------------------------------------
(* The commands. *)

Begins(op, b, force, step) ==
  /\ cmd = NoCommand
  /\ cmd' = [op |-> op, branch |-> b, force |-> force, step |-> step]
  /\ late' = {}
  /\ UNCHANGED worldVars

At(op, step) == cmd.op = op /\ cmd.step = step
Goto(step) == cmd' = [cmd EXCEPT !.step = step] /\ UNCHANGED late
Ends == cmd' = NoCommand /\ UNCHANGED late

(* git refuses a ref update that loses history unless it is forced, and    *)
(* always refuses to fetch into the branch that is checked out.            *)
Accepts(b, h, forced) ==
  /\ b # head
  /\ b \in branches /\ ~forced => tip[b] \subseteq h

FetchInto(b, forced, next) ==
  \E h \in SUBSET published :
    /\ fetchHead' = h
    /\ IF Accepts(b, h, forced)
       THEN /\ branches' = branches \union {b}
            /\ tip' = [tip EXCEPT ![b] = h]
            /\ next
       ELSE Ends /\ UNCHANGED <<branches, tip>>
    /\ UNCHANGED <<head, tree, tracking, published>>

(* An interrupt, or a git call that fails. *)
Killed == cmd # NoCommand /\ Ends /\ UNCHANGED worldVars

\* pr checkout
Checkout(b, force) == Begins("checkout", b, force, "look")

(* A branch that is not there yet is fetched without force. *)
Look ==
  /\ At("checkout", "look")
  /\ Goto(IF cmd.branch \in branches /\ ~cmd.force THEN "fetchHead" ELSE "fetch")
  /\ UNCHANGED worldVars

FetchHead ==
  /\ At("checkout", "fetchHead")
  /\ fetchHead' \in SUBSET published
  /\ Goto("compare")
  /\ UNCHANGED <<branches, tip, head, tree, tracking, published>>

\* Mutant: the tip is fetched and not compared.
AncestorAssumed(b) == TRUE

IsAncestor(b) == tip[b] \subseteq fetchHead

(* The branch has nothing that the pull request lacks: the fetch may then  *)
(* be forced.                                                              *)
Compare ==
  /\ At("checkout", "compare")
  /\ IF IsAncestor(cmd.branch)
     THEN Goto("replace")
     ELSE Ends
  /\ UNCHANGED worldVars

FetchBranch ==
  /\ \/ At("checkout", "fetch") /\ FetchInto(cmd.branch, cmd.force, Goto("switch"))
     \/ At("checkout", "replace") /\ FetchInto(cmd.branch, TRUE, Goto("switch"))

(* git refuses to switch when that would overwrite uncommitted changes.    *)
SwitchTo ==
  /\ At("checkout", "switch")
  /\ head' \in {head, cmd.branch}
  /\ Ends
  /\ UNCHANGED <<branches, tip, tree, fetchHead, tracking, published>>

\* pr checkout --detach
CheckoutDetached == Begins("detach", Detached, FALSE, "fetchHead")

FetchDetached ==
  /\ At("detach", "fetchHead")
  /\ fetchHead' \in SUBSET published
  /\ Goto("switch")
  /\ UNCHANGED <<branches, tip, head, tree, tracking, published>>

Detach ==
  /\ At("detach", "switch")
  /\ head' \in {head, Detached}
  /\ Ends
  /\ UNCHANGED <<branches, tip, tree, fetchHead, tracking, published>>

\* repo sync
Sync(b, force) == Begins("sync", b, force, "look")

\* Mutant: --force is always passed.
ForcedAlways == TRUE

SyncForced == cmd.force

(* A branch that is not checked out is updated by the fetch alone.         *)
SyncOther ==
  /\ At("sync", "look") /\ cmd.branch # head
  /\ FetchInto(cmd.branch, SyncForced, Ends)

SyncCurrent ==
  /\ At("sync", "look") /\ cmd.branch = head
  /\ \E h \in SUBSET published : fetchHead' = h /\ tracking' = h
  /\ Goto("fastForward")
  /\ UNCHANGED <<branches, tip, head, tree, published>>

(* What is merged into is whatever is checked out by now; git refuses a    *)
(* merge that loses history or overwrites uncommitted changes.             *)
FastForward ==
  /\ At("sync", "fastForward") /\ head \in Branch
  /\ tip[head] \subseteq tracking
  /\ tip' = [tip EXCEPT ![head] = tracking]
  /\ Ends
  /\ UNCHANGED <<branches, head, tree, fetchHead, tracking, published>>

CannotFastForward ==
  /\ At("sync", "fastForward")
  /\ head \in Branch /\ tip[head] \subseteq tracking => tree # {}
  /\ IF cmd.force THEN Goto("status") ELSE Ends
  /\ UNCHANGED worldVars

\* Mutant: -f is taken to mean the work tree too.
DirtyIgnored == FALSE

Dirty == tree # {}

Status ==
  /\ At("sync", "status")
  /\ IF Dirty THEN Ends ELSE Goto("hard")
  /\ UNCHANGED worldVars

ResetHard ==
  /\ At("sync", "hard") /\ head \in Branch
  /\ tip' = [tip EXCEPT ![head] = tracking]
  /\ tree' = {}
  /\ Ends
  /\ UNCHANGED <<branches, head, fetchHead, tracking, published>>

\* pr merge -d, whose pull request comes from the branch b
Merge(b) == Begins("merge", b, FALSE, "prune")

(* The branch to delete is left first; git deletes none that is checked    *)
(* out.                                                                    *)
Prune ==
  /\ At("merge", "prune")
  /\ head' \in IF head = cmd.branch THEN branches ELSE {head}
  /\ LET gone == IF head \in Branch /\ head' # cmd.branch THEN {cmd.branch} ELSE {}
     IN  /\ branches' = branches \ gone
         /\ tip' = [b \in Branch |-> IF b \in gone THEN {} ELSE tip[b]]
  /\ Ends
  /\ UNCHANGED <<tree, fetchHead, tracking, published>>

Fjo ==
  \/ \E b \in Branch, force \in BOOLEAN : Checkout(b, force) \/ Sync(b, force)
  \/ \E b \in Branch : Merge(b)
  \/ CheckoutDetached
  \/ Look \/ FetchHead \/ Compare \/ FetchBranch \/ SwitchTo
  \/ FetchDetached \/ Detach
  \/ SyncOther \/ SyncCurrent \/ FastForward \/ CannotFastForward \/ Status \/ ResetHard
  \/ Prune \/ Killed

-----------------------------------------------------------------------------
(* The user, at another terminal, and everybody else. *)

Held == tree \union UNION {tip[b] : b \in Branch}

Edits ==
  /\ \E c \in Change \ (Held \union published) :
       tree' = tree \union {c} /\ late' = late \union {c}
  /\ UNCHANGED <<branches, tip, head, fetchHead, tracking, published, cmd>>

Commits ==
  /\ head \in branches
  /\ tip' = [tip EXCEPT ![head] = @ \union tree]
  /\ tree' = {} /\ late' = late \union tree
  /\ UNCHANGED <<branches, head, fetchHead, tracking, published, cmd>>

(* `git switch`, with -c for a new branch. *)
Switches ==
  /\ \E b \in Branch :
       /\ head' = b /\ branches' = branches \union {b}
       /\ tip' = IF b \in branches \/ head = Detached THEN tip
                 ELSE [tip EXCEPT ![b] = tip[head]]
       /\ late' = late \union tip'[b]
  /\ UNCHANGED <<tree, fetchHead, tracking, published, cmd>>

(* The user's own pushes and those of colleagues. *)
Pushes ==
  /\ \E h \in {tip[b] : b \in Branch} \union {{c} : c \in Change \ Held} :
       published' = published \union h
  /\ UNCHANGED <<branches, tip, head, tree, fetchHead, tracking, late, cmd>>

(* An editor's background fetch, say. *)
OtherFetch ==
  /\ fetchHead' \in SUBSET published
  /\ tracking' \in {tracking, fetchHead'}
  /\ UNCHANGED <<branches, tip, head, tree, published, late, cmd>>

GitNext == Fjo \/ Edits \/ Commits \/ Switches \/ Pushes \/ OtherFetch
GitSpec == GitInit /\ [][GitNext]_gitVars

-----------------------------------------------------------------------------
(* What the command line gave up: the branch, by -f, or by merge -d.       *)
GivenUp == IF cmd.op = "merge" \/ cmd.force THEN tip[cmd.branch] ELSE {}

(* checkout.rs 114-126, sync.rs 163-167, 192-203: no command takes away a  *)
(* change that no server has, whatever the server and other fetches do     *)
(* between its git calls.  Given up are the commits of the branch under    *)
(* -f, never uncommitted changes; at risk is only what the user himself    *)
(* edits, commits or switches to while the command runs.                   *)
WorkKept ==
  [][Held \ Held' \subseteq published \union late \union GivenUp]_gitVars
=============================================================================
