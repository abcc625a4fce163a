--------------------------- MODULE CheckoutProofs ---------------------------
(***************************************************************************)
(* Proofs about a checkout: LocalGit, for every set of changes and of      *)
(* branches, and RepoContext with DefaultRepo, for every set of hosts,     *)
(* repositories, remotes and records the user writes.                      *)
(*                                                                         *)
(* A step can take away a branch's changes only where git is told to       *)
(* force.  It is so told in "replace", which follows a comparison: all     *)
(* that the branch has is published but for what the user committed since  *)
(* (Compared); in "hard", where HEAD is still the branch that was named or *)
(* one that the user went to, and the work tree is clean but for what he   *)
(* edited since (OnBranch, Clean); and where -f was typed.                 *)
(***************************************************************************)
EXTENDS LocalGit, DefaultRepo, TLAPS

(* FETCH_HEAD and the tracking branch are histories of some server. *)
Fetched == fetchHead \subseteq published /\ tracking \subseteq published

(* A name that is no branch has no history. *)
NoBranchNoHistory == \A b \in Branch \ branches : tip[b] = {}

Compared ==
  cmd.op = "checkout" /\ cmd.step = "replace" =>
    tip[cmd.branch] \subseteq published \union late

OnBranch ==
  cmd.op = "sync" /\ cmd.step \in {"fastForward", "status", "hard"} =>
    head \in Branch /\ (head = cmd.branch \/ tip[head] \subseteq late)

Forced == cmd.op = "sync" /\ cmd.step \in {"status", "hard"} => cmd.force

Clean == cmd.step = "hard" => tree \subseteq late

Named == cmd.op \in {"checkout", "sync", "merge"} => cmd.branch \in Branch

Existing == head \in branches \union {Detached}

Switchable ==
  cmd.op = "checkout" /\ cmd.step = "switch" => cmd.branch \in branches

Steps == Switchable /\ Compared /\ OnBranch /\ Forced /\ Clean /\ Named


IInv == GitTypeOK /\ Fetched /\ NoBranchNoHistory /\ Existing /\ Steps

-----------------------------------------------------------------------------
(* A command that ends promises nothing any more. *)
LEMMA Ended ==
  ASSUME cmd' = NoCommand
  PROVE  cmd' \in Command /\ Steps'
  BY DEF NoCommand, Command, Steps, Switchable, Compared, OnBranch, Forced, Clean, Named

(* A command that goes on is the same command. *)
LEMMA GoesOn ==
  ASSUME cmd \in Command,
         NEW step \in {"fetchHead", "compare", "fetch", "replace", "switch",
                       "fastForward", "status", "hard"},
         Goto(step)
  PROVE  /\ cmd' \in Command /\ late' = late
         /\ cmd'.op = cmd.op /\ cmd'.branch = cmd.branch /\ cmd'.force = cmd.force
         /\ cmd'.step = step
  BY DEF Goto, Command

(* A command that begins has compared and switched nothing yet. *)
LEMMA Begun ==
  ASSUME IInv, NEW op \in {"checkout", "detach", "sync", "merge"},
         NEW b \in Branch \union {Detached}, NEW force \in BOOLEAN,
         NEW step \in {"look", "fetchHead", "prune"},
         op # "detach" => b \in Branch,
         Begins(op, b, force, step)
  PROVE  IInv'
<1>1. /\ cmd' \in Command
      /\ cmd'.op = op /\ cmd'.branch = b /\ cmd'.step = step
  BY DEF Begins, Command
<1>2. Steps'
  BY <1>1 DEF Steps, Switchable, Compared, OnBranch, Forced, Clean, Named
<1> QED
  BY <1>1, <1>2 DEF Begins, worldVars, IInv, GitTypeOK, Fetched, NoBranchNoHistory, Existing, History

(* Moving one branch leaves the others. *)
LEMMA Moves ==
  ASSUME GitTypeOK, NEW b \in Branch, NEW h \in History, tip' = [tip EXCEPT ![b] = h]
  PROVE  /\ tip' \in [Branch -> History] /\ tip'[b] = h
         /\ \A c \in Branch \ {b} : tip'[c] = tip[c]
  BY DEF GitTypeOK

(* A fetch into a branch moves that branch, to what some server has, or    *)
(* moves nothing.                                                          *)
LEMMA FetchIntoKeeps ==
  ASSUME IInv, cmd.branch \in Branch, NEW forced,
         \/ FetchInto(cmd.branch, forced, Goto("switch"))
         \/ FetchInto(cmd.branch, forced, Ends)
  PROVE  IInv'
<1> DEFINE b == cmd.branch
<1>1. PICK h \in SUBSET published :
        /\ fetchHead' = h
        /\ IF Accepts(b, h, forced)
           THEN /\ branches' = branches \union {b}
                /\ tip' = [tip EXCEPT ![b] = h]
                /\ Goto("switch") \/ Ends
           ELSE Ends /\ UNCHANGED <<branches, tip>>
        /\ UNCHANGED <<head, tree, tracking, published>>
  BY DEF FetchInto
<1>2. h \in History
  BY <1>1 DEF IInv, GitTypeOK, History
<1>3. /\ branches' \subseteq Branch /\ tip' \in [Branch -> History]
      /\ NoBranchNoHistory'
  <2>1. CASE Accepts(b, h, forced)
    BY <1>1, <1>2, <2>1, Moves DEF IInv, GitTypeOK, NoBranchNoHistory
  <2>2. CASE ~Accepts(b, h, forced)
    BY <1>1, <2>2 DEF IInv, GitTypeOK, NoBranchNoHistory
  <2> QED
    BY <2>1, <2>2
<1>4. late' = late /\ cmd' \in Command /\ Steps'
  <2>1. Goto("switch") \/ Ends
    BY <1>1
  <2>2. CASE Ends
    BY <2>2, Ended DEF Ends
  <2>3. CASE Goto("switch") /\ ~Ends
    BY <1>1, <2>3, GoesOn DEF IInv, GitTypeOK, Steps, Switchable, Compared, OnBranch, Forced, Clean, Named
  <2> QED
    BY <2>1, <2>2, <2>3
<1> QED
  BY <1>1, <1>2, <1>3, <1>4 DEF IInv, GitTypeOK, Fetched, Existing, History

-----------------------------------------------------------------------------
LEMMA Initially == GitInit => IInv
  BY DEF GitInit, IInv, GitTypeOK, Fetched, NoBranchNoHistory, Existing, Steps, Switchable, Compared, OnBranch, Forced, Clean, Named,
         Command, NoCommand, History

(* What fjo does. *)
LEMMA FjoKeeps == IInv /\ Fjo => IInv'
<1> SUFFICES ASSUME IInv, Fjo PROVE IInv'
  OBVIOUS
<1> USE LocalGitAssumption
<1>1. ASSUME NEW b \in Branch, NEW force \in BOOLEAN, Checkout(b, force) \/ Sync(b, force)
      PROVE  IInv'
  BY <1>1, Begun DEF Checkout, Sync
<1>2. ASSUME NEW b \in Branch, Merge(b) PROVE IInv'
  BY <1>2, Begun DEF Merge
<1>3. CASE CheckoutDetached
  BY <1>3, Begun DEF CheckoutDetached
<1>4. CASE Look
  BY <1>4, GoesOn DEF Look, At, worldVars, IInv, GitTypeOK, Fetched, NoBranchNoHistory, Existing,
                      Steps, Switchable, Compared, OnBranch, Forced, Clean, Named
<1>5. CASE FetchHead \/ FetchDetached
  <2>1. Goto("compare") \/ Goto("switch")
    BY <1>5 DEF FetchHead, FetchDetached
  <2>2. cmd' \in Command /\ late' = late /\ Steps'
    BY <1>5, <2>1, GoesOn DEF FetchHead, FetchDetached, At, IInv, GitTypeOK,
                        Steps, Switchable, Compared, OnBranch, Forced, Clean, Named
  <2> QED
    BY <1>5, <2>2 DEF FetchHead, FetchDetached, IInv, GitTypeOK, Fetched, NoBranchNoHistory, Existing, History
<1>6. CASE Compare
  <2>1. CASE IsAncestor(cmd.branch)
    <3>1. Goto("replace")
      BY <1>6, <2>1 DEF Compare
    <3>2. Steps'
      BY <1>6, <2>1, <3>1, GoesOn DEF Compare, At, worldVars, IsAncestor, IInv, GitTypeOK, Fetched,
                        Steps, Switchable, Compared, OnBranch, Forced, Clean, Named
    <3> QED
      BY <1>6, <3>1, <3>2, GoesOn DEF Compare, worldVars, IInv, GitTypeOK, Fetched, NoBranchNoHistory, Existing
  <2>2. CASE ~IsAncestor(cmd.branch)
    BY <1>6, <2>2, Ended DEF Compare, Ends, worldVars, IInv, GitTypeOK, Fetched, NoBranchNoHistory, Existing
  <2> QED
    BY <2>1, <2>2
<1>7. CASE FetchBranch
  <2>1. cmd.branch \in Branch
    BY <1>7 DEF FetchBranch, At, IInv, Steps, Named
  <2> QED
    BY <1>7, <2>1, FetchIntoKeeps DEF FetchBranch, At
<1>8. CASE SwitchTo \/ Detach
  <2>1. head' \in branches \union {Detached}
    BY <1>8 DEF SwitchTo, Detach, At, IInv, GitTypeOK, Existing, Steps, Switchable
  <2> QED
    BY <1>8, <2>1, Ended DEF SwitchTo, Detach, Ends, IInv, GitTypeOK, Fetched, NoBranchNoHistory, Existing
<1>9. CASE SyncOther
  BY <1>9, FetchIntoKeeps DEF SyncOther, At, IInv, Steps, Named
<1>10. CASE SyncCurrent
  <2>1. Goto("fastForward")
    BY <1>10 DEF SyncCurrent
  <2>2. Steps'
    BY <1>10, <2>1, GoesOn DEF SyncCurrent, At, IInv, GitTypeOK,
                        Steps, Switchable, Compared, OnBranch, Forced, Clean, Named
  <2> QED
    BY <1>10, <2>1, <2>2, GoesOn DEF SyncCurrent, IInv, GitTypeOK, Fetched, NoBranchNoHistory, Existing, History
<1>11. CASE FastForward \/ ResetHard
  <2>1. tracking \in History /\ head \in Branch /\ tip' = [tip EXCEPT ![head] = tracking]
    BY <1>11 DEF FastForward, ResetHard, IInv, GitTypeOK
  <2>2. head \in branches
    BY <1>11, <2>1, LocalGitAssumption DEF IInv, Existing
  <2>3. tip' \in [Branch -> History] /\ NoBranchNoHistory'
    BY <1>11, <2>1, <2>2, Moves DEF FastForward, ResetHard, IInv, GitTypeOK, NoBranchNoHistory
  <2> QED
    BY <1>11, <2>3, Ended DEF FastForward, ResetHard, Ends, IInv, GitTypeOK, Fetched, Existing, History
<1>12. CASE CannotFastForward
  <2>1. CASE cmd.force
    <3>1. Goto("status")
      BY <1>12, <2>1 DEF CannotFastForward
    <3>2. Steps'
      BY <1>12, <2>1, <3>1, GoesOn DEF CannotFastForward, At, worldVars, IInv, GitTypeOK,
                        Steps, Switchable, Compared, OnBranch, Forced, Clean, Named
    <3> QED
      BY <1>12, <3>1, <3>2, GoesOn DEF CannotFastForward, worldVars, IInv, GitTypeOK, Fetched, NoBranchNoHistory, Existing
  <2>2. CASE ~cmd.force
    BY <1>12, <2>2, Ended DEF CannotFastForward, Ends, worldVars, IInv, GitTypeOK, Fetched, NoBranchNoHistory, Existing
  <2> QED
    BY <2>1, <2>2
<1>13. CASE Status
  <2>1. CASE ~Dirty
    <3>1. Goto("hard")
      BY <1>13, <2>1 DEF Status
    <3>2. Steps'
      BY <1>13, <2>1, <3>1, GoesOn DEF Status, At, worldVars, Dirty, IInv, GitTypeOK,
                        Steps, Switchable, Compared, OnBranch, Forced, Clean, Named
    <3> QED
      BY <1>13, <3>1, <3>2, GoesOn DEF Status, worldVars, IInv, GitTypeOK, Fetched, NoBranchNoHistory, Existing
  <2>2. CASE Dirty
    BY <1>13, <2>2, Ended DEF Status, Ends, worldVars, IInv, GitTypeOK, Fetched, NoBranchNoHistory, Existing
  <2> QED
    BY <2>1, <2>2
<1>14. CASE Prune
  <2>1. tip' \in [Branch -> History] /\ NoBranchNoHistory'
    BY <1>14 DEF Prune, IInv, GitTypeOK, NoBranchNoHistory, History
  <2> QED
    BY <1>14, <2>1, Ended DEF Prune, Ends, IInv, GitTypeOK, Fetched, Existing
<1>15. CASE Killed
  BY <1>15, Ended DEF Killed, Ends, worldVars, IInv, GitTypeOK, Fetched, NoBranchNoHistory, Existing
<1> QED
  BY <1>1, <1>2, <1>3, <1>4, <1>5, <1>6, <1>7, <1>8, <1>9, <1>10, <1>11, <1>12, <1>13, <1>14, <1>15 DEF Fjo

(* What the user and other programs do, at any step of it. *)
LEMMA OthersKeep ==
  IInv /\ (Edits \/ Commits \/ Switches \/ Pushes \/ OtherFetch \/ UNCHANGED gitVars) => IInv'
<1> SUFFICES ASSUME IInv, Edits \/ Commits \/ Switches \/ Pushes \/ OtherFetch \/ UNCHANGED gitVars
             PROVE  IInv'
  OBVIOUS
<1> USE DEF IInv, GitTypeOK, Fetched, NoBranchNoHistory, Existing, Steps, Switchable, Compared, OnBranch, Forced, Clean, Named, History
<1>1. CASE Edits
  BY <1>1 DEF Edits
<1>2. CASE Commits
  BY <1>2 DEF Commits
<1>3. CASE Switches
  BY <1>3, LocalGitAssumption DEF Switches
<1>4. CASE Pushes
  BY <1>4 DEF Pushes
<1>5. CASE OtherFetch
  BY <1>5 DEF OtherFetch
<1>6. CASE UNCHANGED gitVars
  BY <1>6 DEF gitVars
<1> QED
  BY <1>1, <1>2, <1>3, <1>4, <1>5, <1>6

(* The inductive invariant: the promises a command has made good so far.   *)
THEOREM GitInvariance == GitSpec => []IInv
<1>1. IInv /\ [GitNext]_gitVars => IInv'
  BY FjoKeeps, OthersKeep DEF GitNext
<1> QED
  BY Initially, <1>1, PTL DEF GitSpec

(* Every command line and every step of it stays within the commands of    *)
(* checkout.rs, sync.rs and merge.rs.                                      *)
THEOREM GitTyping == GitSpec => []GitTypeOK
<1>1. IInv => GitTypeOK
  BY DEF IInv
<1> QED
  BY GitInvariance, <1>1, PTL

-----------------------------------------------------------------------------
LEMMA NothingMoves == tip' = tip /\ tree' = tree => Held' = Held
  BY DEF Held

(* Moving one branch can take away only what that branch had. *)
LEMMA MoveLoses ==
  ASSUME GitTypeOK, NEW b \in Branch, NEW h \in History, tip' = [tip EXCEPT ![b] = h]
  PROVE  Held \ Held' \subseteq (tip[b] \ h) \union (tree \ tree')
<1>1. ASSUME NEW c \in Held, c \notin Held' PROVE c \in (tip[b] \ h) \union (tree \ tree')
  <2>1. CASE c \in tree
    BY <1>1, <2>1 DEF Held
  <2>2. CASE c \notin tree
    <3>1. PICK d \in Branch : c \in tip[d]
      BY <1>1, <2>2 DEF Held
    <3>2. c \notin tip'[d] /\ c \notin tip'[b]
      BY <1>1 DEF Held
    <3> QED
      BY <3>1, <3>2, Moves
  <2> QED
    BY <2>1, <2>2
<1> QED
  BY <1>1

LEMMA FetchIntoLoses ==
  ASSUME IInv, cmd.branch \in Branch, NEW forced \in BOOLEAN,
         \/ FetchInto(cmd.branch, forced, Goto("switch"))
         \/ FetchInto(cmd.branch, forced, Ends)
  PROVE  Held \ Held' \subseteq IF forced THEN tip[cmd.branch] ELSE {}
<1> DEFINE b == cmd.branch
<1>1. PICK h \in SUBSET published :
        /\ IF Accepts(b, h, forced)
           THEN tip' = [tip EXCEPT ![b] = h]
           ELSE tip' = tip
        /\ tree' = tree
  BY DEF FetchInto
<1>2. CASE Accepts(b, h, forced)
  <2>1. h \in History
    BY DEF IInv, GitTypeOK, History
  <2>2. Held \ Held' \subseteq tip[b] \ h
    BY <1>1, <1>2, <2>1, MoveLoses DEF IInv
  <2> QED
    BY <1>2, <2>2 DEF Accepts, IInv, NoBranchNoHistory
<1>3. CASE ~Accepts(b, h, forced)
  BY <1>1, <1>3, NothingMoves
<1> QED
  BY <1>2, <1>3

Allowed == published \union late \union GivenUp

LEMMA NoStepLoses == IInv /\ [GitNext]_gitVars => Held \ Held' \subseteq Allowed
<1> SUFFICES ASSUME IInv, [GitNext]_gitVars PROVE Held \ Held' \subseteq Allowed
  OBVIOUS
<1>1. CASE FetchBranch
  <2>1. cmd.branch \in Branch /\ cmd.force \in BOOLEAN /\ cmd.op = "checkout"
    BY <1>1 DEF FetchBranch, At, IInv, GitTypeOK, Command, Steps, Named
  <2>2. CASE FetchInto(cmd.branch, cmd.force, Goto("switch"))
    BY <2>1, <2>2, FetchIntoLoses DEF Allowed, GivenUp
  <2>3. CASE cmd.step = "replace" /\ FetchInto(cmd.branch, TRUE, Goto("switch"))
    <3>1. Held \ Held' \subseteq tip[cmd.branch]
      BY <2>1, <2>3, FetchIntoLoses
    <3> QED
      BY <2>1, <2>3, <3>1 DEF IInv, Steps, Compared, Allowed
  <2> QED
    BY <1>1, <2>2, <2>3 DEF FetchBranch, At
<1>2. CASE SyncOther
  <2>1. cmd.branch \in Branch /\ cmd.force \in BOOLEAN
    BY <1>2 DEF SyncOther, At, IInv, GitTypeOK, Command, Steps, Named
  <2> QED
    BY <1>2, <2>1, FetchIntoLoses DEF SyncOther, SyncForced, Allowed, GivenUp
<1>3. CASE FastForward
  BY <1>3, MoveLoses DEF FastForward, IInv, GitTypeOK
<1>4. CASE ResetHard
  <2>1. Held \ Held' \subseteq tip[head] \union tree
    BY <1>4, MoveLoses DEF ResetHard, IInv, GitTypeOK
  <2>2. tree \subseteq late
    BY <1>4 DEF ResetHard, At, IInv, Steps, Clean
  <2>3. tip[head] \subseteq late \union GivenUp
    BY <1>4 DEF ResetHard, At, IInv, Steps, OnBranch, Forced, GivenUp
  <2> QED
    BY <2>1, <2>2, <2>3 DEF Allowed
<1>5. CASE Prune
  <2>1. tree' = tree /\ \A b \in Branch : b # cmd.branch => tip'[b] = tip[b]
    BY <1>5 DEF Prune
  <2>2. Held \ Held' \subseteq tip[cmd.branch]
    BY <2>1 DEF Held
  <2> QED
    BY <1>5, <2>2 DEF Prune, At, Allowed, GivenUp
<1>6. CASE Commits
  <2>1. head \in Branch /\ tree \in History /\ tip[head] \in History
    BY <1>6 DEF Commits, IInv, GitTypeOK
  <2>2. tip' = [tip EXCEPT ![head] = tip[head] \union tree] /\ tip[head] \union tree \in History
    BY <1>6, <2>1 DEF Commits, History
  <2>3. Held \ Held' \subseteq tree
    BY <1>6, <2>1, <2>2, MoveLoses DEF Commits, IInv
  <2>4. tree \subseteq Held'
    <3>1. tip'[head] = tip[head] \union tree
      BY <2>1, <2>2, Moves DEF IInv
    <3> QED
      BY <2>1, <3>1 DEF Held
  <2> QED
    BY <2>3, <2>4
<1>7. CASE Switches
  <2>1. tree' = tree
    BY <1>7 DEF Switches
  <2>2. CASE tip' = tip
    BY <2>1, <2>2, NothingMoves
  <2>3. CASE tip' # tip
    <3>1. PICK b \in Branch \ branches : tip' = [tip EXCEPT ![b] = tip[head]] /\ head \in Branch
      BY <1>7, <2>3 DEF Switches, IInv, GitTypeOK
    <3>2. tip[b] = {} /\ tip[head] \in History
      BY <3>1 DEF IInv, NoBranchNoHistory, GitTypeOK
    <3> QED
      BY <2>1, <3>1, <3>2, MoveLoses DEF IInv
  <2> QED
    BY <2>2, <2>3
<1>8. CASE Edits
  BY <1>8 DEF Edits, Held
<1>9. CASE tip' = tip /\ tree' = tree
  BY <1>9, NothingMoves
<1> QED
  BY <1>1, <1>2, <1>3, <1>4, <1>5, <1>6, <1>7, <1>8, <1>9
     DEF GitNext, Fjo, Checkout, Sync, Merge, CheckoutDetached, Begins, Look, FetchHead, Compare,
         SwitchTo, FetchDetached, Detach, SyncCurrent, CannotFastForward, Status, Killed,
         Pushes, OtherFetch, worldVars, gitVars

(* No command of fjo takes away work that no server has, for any number of *)
(* changes and of branches and whatever the user, other programs and the   *)
(* servers do between its git calls.                                       *)
THEOREM GitKeepsWork == GitSpec => WorkKept
<1>1. IInv /\ [GitNext]_gitVars => [Held \ Held' \subseteq published \union late \union GivenUp]_gitVars
  BY NoStepLoses DEF Allowed
<1> QED
  BY GitInvariance, <1>1, PTL DEF GitSpec, WorkKept

-----------------------------------------------------------------------------
(* The repository context.  That the two walks agree needs only the types  *)
(* and the order of the remotes: the first record that answers for the     *)
(* host is at or after the first that decides the repository, and what     *)
(* lies between names no host.  That a choice is kept, that an opt-out     *)
(* stops every guess and that a killed wiring can be run again need what   *)
(* the commands leave behind: the conjuncts of ContextInv.                 *)

(* What stands between a command and what it has recorded. *)
Outside == ~inTree => \A n \in RemoteNames : remotes[n] = NoRemote
Busy == ~inTree \/ job # NoWiring => want = Unknown

NamesUrl(n, url) == remotes[n].fetch = url \/ remotes[n].push = url

Wired ==
  /\ job # NoWiring => inTree /\ job.source # job.fork /\ halfway = Junk
  /\ job.at = "upstream" => remotes[Upstream] = NoRemote /\ ~job.lone
  /\ job.at \in {"fork", "record"} => Upstream \in Remotes /\ NamesUrl(Upstream, job.source)

(* The wiring of the only remote of its source leaves it the only one. *)
Lone ==
  /\ job.lone => Naming(job.source) = {Upstream}
  /\ halfway # Junk => Naming(halfway) = {Upstream}

(* A record of a slug is on a remote, and says or names that slug. *)
Slugged ==
  want.kind = "slug" =>
    /\ want.remote \in Remotes /\ want.slug \in Slugs
    /\ \/ resolved[want.remote] = Ref(NoHost, want.slug)
       \/ /\ resolved[want.remote] = Base
          /\ \E host \in Known : NamesUrl(want.remote, Url(host, want.slug))

(* An opt-out is on the remote that comes first among those with a record. *)
OptedOut ==
  want.kind = "none" =>
    /\ want.remote \in Remotes /\ resolved[want.remote] = None
    /\ \A m \in RemoteNames : by_preference(m, want.remote) => resolved[m] = Absent

ContextInv == ContextTypeOK /\ Outside /\ Busy /\ Wired /\ Lone /\ Slugged /\ OptedOut

-----------------------------------------------------------------------------
(* The first of some remotes is one of them, and before all the others. *)
LEMMA FirstIsFirst ==
  ASSUME NEW S \in SUBSET RemoteNames, S # {}
  PROVE  First(S) \in S /\ \A b \in S \ {First(S)} : by_preference(First(S), b)
  BY ContextAssumption DEF First

LEMMA ScoreIsNat == \A n \in RemoteNames : remote_score(n) \in Nat
  BY DEF remote_score

(* No two remotes are before each other. *)
LEMMA Asymmetric ==
  ASSUME NEW a \in RemoteNames, NEW b \in RemoteNames, by_preference(a, b), by_preference(b, a)
  PROVE  FALSE
  BY ContextAssumption, ScoreIsNat DEF by_preference

(* A remote before all others of a set is its first. *)
LEMMA FirstIsUnique ==
  ASSUME NEW S \in SUBSET RemoteNames, NEW a \in S, \A b \in S \ {a} : by_preference(a, b)
  PROVE  First(S) = a
  BY FirstIsFirst, Asymmetric

LEMMA OnTyped ==
  ASSUME ContextTypeOK, NEW n \in Matched
  PROVE  On(n, Known).host \in Known /\ On(n, Known).slug \in Slugs
         /\ On(n, Known) = Url(On(n, Known).host, On(n, Known).slug)
  <1>1. n \in Remotes /\ remotes[n] \in Remote /\ On(n, Known) # Junk
    BY DEF Matched, Remotes, ContextTypeOK
  <1>2. On(n, Known) \in Urls /\ On(n, Known).host \in Known
    BY <1>1 DEF On, Remote
  <1> QED BY <1>1, <1>2, ContextAssumption DEF Urls, Junk, Url

LEMMA RecordTyped ==
  ASSUME ContextTypeOK, NEW n \in RemoteNames
  PROVE  /\ resolved[n] \in Records \union {Absent}
         /\ resolved[n].kind \in {"ref", "base", "NONE", "malformed", "absent"}
         /\ resolved[n].kind = "absent" => resolved[n] = Absent
         /\ resolved[n].kind = "ref" => resolved[n].host \in Known \union Foreign \union {NoHost}
                                        /\ resolved[n].slug \in Slugs
  BY DEF ContextTypeOK, Records, Refs, Ref, Absent, Base, None, Malformed, Word

(* The walk for a host names a configured one or none. *)
LEMMA WalkTyped == ASSUME ContextTypeOK PROVE host_from_remotes \in Known \union {NoHost}
  <1>1. CASE Answers # {}
    <2>1. First(Answers) \in Answers
      BY <1>1, FirstIsFirst DEF Answers, Remotes
    <2> QED BY <1>1, <2>1, OnTyped DEF host_from_remotes, Answer, Answers
  <1>2. CASE Answers = {} /\ Matched # {}
    <2>1. First(Matched) \in Matched
      BY <1>2, FirstIsFirst DEF Matched, Remotes
    <2> QED BY <1>2, <2>1, OnTyped DEF host_from_remotes
  <1> QED BY <1>1, <1>2 DEF host_from_remotes

LEMMA PrefTyped == ASSUME ContextTypeOK PROVE host_from_pref(NoHost) \in Known
  BY WalkTyped, ContextAssumption DEF host_from_pref, resolve_host

LEMMA FinishIs == \A host, slug : finish(host, slug) # Failed => finish(host, slug) = Url(host, slug) /\ host \in Known
  BY DEF finish

-----------------------------------------------------------------------------
(* The two walks: what the first answers, the second does not contradict. *)

LEMMA AnswersAreDecided == ASSUME ContextTypeOK PROVE Answers \subseteq Decided
  BY DEF Answers, Decided

LEMMA ConfigAgrees ==
  ASSUME ContextTypeOK, inTree, Decided # {}, FromConfig(Bare, First(Decided)) # Failed
  PROVE  host_from_pref(NoHost) = FromConfig(Bare, First(Decided)).host
  <1> DEFINE n == First(Decided)
  <1>1. n \in Decided /\ \A b \in Decided \ {n} : by_preference(n, b)
    BY FirstIsFirst DEF Decided, Remotes
  <1>2. n \in RemoteNames /\ n \in Remotes
    BY <1>1 DEF Decided, Remotes
  <1>3. ASSUME n \in Answers PROVE First(Answers) = n
    BY <1>1, <1>3, AnswersAreDecided, FirstIsUnique DEF Answers, Remotes
  <1>4. CASE resolved[n].kind = "base" /\ n \in Matched
    <2>1. FromConfig(Bare, n).host = On(n, Known).host
      BY <1>4, OnTyped DEF FromConfig, finish, explicit_or, Bare, Url
    <2>2. n \in Answers
      BY <1>2, <1>4 DEF Answers
    <2>3. host_from_remotes = On(n, Known).host
      BY <1>3, <1>4, <2>2 DEF host_from_remotes, Answer
    <2> QED BY <2>1, <2>3, <1>4, OnTyped, ContextAssumption DEF host_from_pref
  <1>5. CASE resolved[n].kind = "ref" /\ resolved[n].host = NoHost
    BY <1>5, PrefTyped DEF FromConfig, FromRef, finish, Bare, Url
  <1>6. CASE resolved[n].kind = "ref" /\ resolved[n].host # NoHost
    <2>1. resolved[n].host \in Known /\ FromConfig(Bare, n).host = resolved[n].host
      BY <1>6 DEF FromConfig, FromRef, finish, Url
    <2>2. n \in Answers
      BY <1>2, <1>6, <2>1 DEF Answers
    <2>3. host_from_remotes = resolved[n].host
      BY <1>3, <1>6, <2>2 DEF host_from_remotes, Answer
    <2> QED BY <2>1, <2>3, ContextAssumption DEF host_from_pref
  <1> QED BY <1>4, <1>5, <1>6 DEF FromConfig

LEMMA RemotesAgree ==
  ASSUME ContextTypeOK, inTree, Decided = {}, FromRemotes(Bare) # Failed
  PROVE  host_from_pref(NoHost) = FromRemotes(Bare).host
  <1>1. Answers = {}
    BY AnswersAreDecided
  <1>2. PICK n \in Top : Top = {n}
    BY DEF FromRemotes
  <1>3. n \in Matched /\ Matched \subseteq RemoteNames
    BY <1>2 DEF Top, Matched, Remotes
  <1>4. FromRemotes(Bare).host = On(n, Known).host
    <2>1. (CHOOSE m \in Top : TRUE) = n
      BY <1>2
    <2> QED BY <1>2, <1>3, <2>1, OnTyped DEF FromRemotes, finish, explicit_or, Bare, Url
  <1>5. First(Matched) = n
    <2> DEFINE f == First(Matched)
    <2>1. f \in Matched /\ \A b \in Matched \ {f} : by_preference(f, b)
      BY <1>3, FirstIsFirst
    <2>2. \A m \in Matched : remote_score(m) <= remote_score(f)
      BY <1>3, <2>1, ScoreIsNat DEF by_preference
    <2> QED BY <1>2, <2>1, <2>2 DEF Top
  <1>6. host_from_remotes = On(n, Known).host
    BY <1>1, <1>3, <1>5 DEF host_from_remotes
  <1> QED BY <1>3, <1>4, <1>6, OnTyped, ContextAssumption DEF host_from_pref

LEMMA TypedAgrees == ASSUME ContextTypeOK PROVE SameServer
  <1> SUFFICES ASSUME resolve_repo(Bare) # Failed, NEW slug \in Slugs
               PROVE  resolve_repo([Bare EXCEPT !.repo = Ref(NoHost, slug)])
                        = Url(resolve_repo(Bare).host, slug)
    BY DEF SameServer
  <1>1. inTree /\ resolve_repo(Bare)
                    = IF Decided # {} THEN FromConfig(Bare, First(Decided)) ELSE FromRemotes(Bare)
    BY DEF resolve_repo, Bare
  <1>2. host_from_pref(NoHost) = resolve_repo(Bare).host
    BY <1>1, ConfigAgrees, RemotesAgree
  <1>3. resolve_repo([Bare EXCEPT !.repo = Ref(NoHost, slug)]) = finish(host_from_pref(NoHost), slug)
    BY DEF resolve_repo, FromFlag, Bare, Ref, Absent, Word
  <1> QED BY <1>2, <1>3, PrefTyped DEF finish

-----------------------------------------------------------------------------
LEMMA TypedSends == ASSUME ContextTypeOK PROVE OneServer
  <1> SUFFICES ASSUME NEW q \in Requests, \A n \in RemoteNames : resolved[n].host = NoHost,
                      q.host # NoHost, q.env.host = NoHost, resolve_repo(q) # Failed
               PROVE  client_host(q) = resolve_repo(q).host
    BY DEF OneServer
  <1>1. client_host(q) = resolve_host(q.host) /\ host_from_pref(q.host) = resolve_host(q.host)
    BY DEF client_host, host_from_pref
  <1>2. CASE q.repo # Absent
    <2>1. resolve_repo(q) = FromFlag(q)
      BY <1>2 DEF resolve_repo
    <2> QED BY <1>1, <2>1 DEF FromFlag, finish, Url, resolve_host
  <1>3. CASE q.repo = Absent /\ q.env # Absent
    <2>1. resolve_repo(q) = FromEnv(q)
      BY <1>3 DEF resolve_repo
    <2> QED BY <1>1, <2>1 DEF FromEnv, FromRef, finish, Url
  <1>4. CASE q.repo = Absent /\ q.env = Absent /\ Decided # {}
    <2>1. resolve_repo(q) = FromConfig(q, First(Decided)) /\ First(Decided) \in RemoteNames
      BY <1>4, FirstIsFirst DEF resolve_repo, Decided, Remotes
    <2> QED BY <1>1, <2>1 DEF FromConfig, FromRef, finish, explicit_or, Url
  <1>5. CASE q.repo = Absent /\ q.env = Absent /\ Decided = {}
    <2>1. resolve_repo(q) = FromRemotes(q)
      BY <1>5 DEF resolve_repo
    <2> QED BY <1>1, <2>1 DEF FromRemotes, finish, explicit_or, Url
  <1> QED BY <1>2, <1>3, <1>4, <1>5

-----------------------------------------------------------------------------
(* Every remote and every record the commands and the user write is one.   *)

LEMMA Constants ==
  /\ Remote \intersect {NoRemote} = {}
  /\ \A host \in Known, slug \in Slugs : Url(host, slug) \in Urls /\ Url(host, slug) # Junk
  /\ \A host \in Known, slug \in Slugs :
       Both(Url(host, slug)) \in Remote /\ Url(host, slug) \in [host : Known, slug : Slugs]
  /\ [host : Known, slug : Slugs] \subseteq Urls
  /\ Junk \notin [host : Known, slug : Slugs]
  <1>1. \A u \in Urls : u # Unset
    <2>1. NoHost # "unset"
      BY DEF NoHost
    <2>2. \A u \in Urls : u.host \in Known \union Foreign \union {NoHost}
      BY DEF Urls, Junk, Url
    <2>3. Unset.host = "unset"
      BY DEF Unset
    <2> QED BY <2>1, <2>2, <2>3, ContextAssumption
  <1>2. Remote \intersect {NoRemote} = {}
    BY <1>1 DEF Remote, NoRemote
  <1>3. \A host \in Known, slug \in Slugs :
          Url(host, slug) \in Urls /\ Url(host, slug) \in [host : Known, slug : Slugs]
    BY DEF Urls, Url
  <1>4. [host : Known, slug : Slugs] \subseteq Urls
    BY DEF Urls
  <1>5. Junk \notin [host : Known, slug : Slugs]
    BY ContextAssumption DEF Junk, Url
  <1>6. \A host \in Known, slug \in Slugs : Both(Url(host, slug)) \in Remote
    BY <1>3 DEF Both, Remote
  <1> QED BY <1>2, <1>3, <1>4, <1>5, <1>6

LEMMA TypingInit == ContextInit => ContextTypeOK
  BY DEF ContextInit, ContextTypeOK, Remotes

(* A remote set or added leaves the others and the records as they are. *)
LEMMA PutTyped ==
  ASSUME ContextTypeOK, NEW n \in RemoteNames, NEW r \in Remote,
         remotes' = [remotes EXCEPT ![n] = r], UNCHANGED resolved
  PROVE  /\ remotes' \in [RemoteNames -> Remote \union {NoRemote}]
         /\ resolved' \in [RemoteNames -> Records \union {Absent}]
         /\ \A m \in RemoteNames \ Remotes' : resolved'[m] = Absent
         /\ Remotes' = Remotes \union {n}
  <1>1. r # NoRemote
    BY Constants
  <1>2. Remotes' = Remotes \union {n}
    BY <1>1 DEF ContextTypeOK, Remotes
  <1> QED BY <1>2 DEF ContextTypeOK

LEMMA WriteTyped ==
  ASSUME ContextTypeOK, NEW n \in Remotes, NEW v \in Records, Write(n, v), UNCHANGED remotes
  PROVE  /\ resolved' \in [RemoteNames -> Records \union {Absent}]
         /\ \A m \in RemoteNames \ Remotes' : resolved'[m] = Absent
         /\ Remotes' = Remotes
         /\ resolved'[n] = v
         /\ \A m \in RemoteNames \ {n} : resolved'[m] = resolved[m]
  BY DEF ContextTypeOK, Remotes, Write

LEMMA ValuesTyped ==
  Base \in Records /\ None \in Records /\ \A slug \in Slugs : Ref(NoHost, slug) \in Records
  BY DEF Records, Refs

LEMMA RenameTyped ==
  ASSUME ContextTypeOK, NEW from \in Remotes, NEW to \in RemoteNames, to # from, to \notin Remotes,
         remote_rename(from, to)
  PROVE  /\ remotes' \in [RemoteNames -> Remote \union {NoRemote}]
         /\ resolved' \in [RemoteNames -> Records \union {Absent}]
         /\ \A m \in RemoteNames \ Remotes' : resolved'[m] = Absent
         /\ Remotes' = (Remotes \ {from}) \union {to}
         /\ remotes'[to] = remotes[from]
  <1>1. from \in RemoteNames /\ remotes[from] \in Remote /\ remotes[from] # NoRemote
    BY DEF ContextTypeOK, Remotes
  <1>2. \A m \in RemoteNames : /\ remotes'[m] = IF m = from THEN NoRemote
                                         ELSE IF m = to THEN remotes[from] ELSE remotes[m]
                         /\ resolved'[m] = IF m = from THEN Absent
                                          ELSE IF m = to THEN resolved[from] ELSE resolved[m]
    BY <1>1 DEF ContextTypeOK, remote_rename
  <1>3. Remotes' = (Remotes \ {from}) \union {to}
    BY <1>1, <1>2 DEF Remotes
  <1>4. /\ remotes' \in [RemoteNames -> Remote \union {NoRemote}]
        /\ resolved' \in [RemoteNames -> Records \union {Absent}]
    BY <1>1 DEF ContextTypeOK, remote_rename
  <1> QED BY <1>1, <1>2, <1>3, <1>4 DEF ContextTypeOK

(* The remote that is found for a repository names it. *)
LEMMA Found ==
  ASSUME NEW url, Naming(url) # {}
  PROVE  remote_for(url) \in Naming(url) /\ remote_for(url) \in Remotes /\ remote_for(url) \in RemoteNames
  <1>1. Naming(url) \in SUBSET RemoteNames /\ Naming(url) \subseteq Remotes
    BY DEF Naming, Remotes
  <1>2. \E n \in Naming(url) : \A m \in Naming(url) : Place[n] <= Place[m]
    BY <1>1, ContextAssumption
  <1> QED BY <1>1, <1>2 DEF remote_for

(* One call to git makes Upstream name the source. *)
LEMMA MadeUpstream ==
  ASSUME ContextTypeOK, NEW source \in [host : Known, slug : Slugs],
         ~Taken(source), MakeUpstream(source)
  PROVE  /\ remotes' \in [RemoteNames -> Remote \union {NoRemote}]
         /\ resolved' \in [RemoteNames -> Records \union {Absent}]
         /\ \A m \in RemoteNames \ Remotes' : resolved'[m] = Absent
         /\ Upstream \in Remotes' /\ NamesUrl(Upstream, source)'
         /\ (\A m, n \in Naming(source) : m = n) => Naming(source)' = {Upstream}
  <1>0. Upstream \in RemoteNames /\ Both(source) \in Remote /\ source \in Urls
    <2>1. PICK host \in Known, slug \in Slugs : source = Url(host, slug)
      BY DEF Url
    <2> QED BY <2>1, Constants, WiringAssumption
  <1>1. CASE Naming(source) # {} /\ remote_for(source) = Upstream /\ UNCHANGED <<remotes, resolved>>
    <2>1. Upstream \in Naming(source)
      BY <1>1, Found
    <2>2. Remotes' = Remotes /\ Naming(source)' = Naming(source)
      BY <1>1 DEF Remotes, Naming
    <2> QED BY <1>1, <2>1, <2>2 DEF ContextTypeOK, Naming, NamesUrl
  <1>2. CASE Naming(source) # {} /\ remote_for(source) # Upstream
             /\ remote_rename(remote_for(source), Upstream)
    <2> DEFINE from == remote_for(source)
    <2>1. from \in Naming(source) /\ from \in Remotes /\ Upstream \notin Remotes
      BY <1>2, Found DEF Taken
    <2>2. /\ remotes' \in [RemoteNames -> Remote \union {NoRemote}]
          /\ resolved' \in [RemoteNames -> Records \union {Absent}]
          /\ \A m \in RemoteNames \ Remotes' : resolved'[m] = Absent
          /\ Remotes' = (Remotes \ {from}) \union {Upstream}
          /\ remotes'[Upstream] = remotes[from]
      BY <1>0, <1>2, <2>1, RenameTyped
    <2>3. \A n \in RemoteNames \ {from, Upstream} : remotes'[n] = remotes[n]
      BY <1>2 DEF remote_rename, ContextTypeOK
    <2>4. (\A m, n \in Naming(source) : m = n) => Naming(source)' = {Upstream}
      BY <2>1, <2>2, <2>3 DEF Naming, Remotes
    <2> QED BY <2>1, <2>2, <2>4 DEF Naming, NamesUrl
  <1>3. CASE Naming(source) = {} /\ remotes' = [remotes EXCEPT ![Upstream] = Both(source)]
             /\ UNCHANGED resolved
    <2>1. Remotes' = Remotes \union {Upstream} /\ remotes'[Upstream] = Both(source)
      BY <1>0, <1>3, PutTyped DEF ContextTypeOK
    <2>2. Naming(source)' = {Upstream}
      <3>1. \A n \in RemoteNames \ {Upstream} : remotes'[n] = remotes[n]
        BY <1>3 DEF ContextTypeOK
      <3> QED BY <1>0, <1>3, <2>1, <3>1 DEF Naming, Both, Remotes
    <2> QED BY <1>0, <1>3, <2>1, <2>2, PutTyped DEF NamesUrl, Both
  <1> QED BY <1>1, <1>2, <1>3 DEF MakeUpstream

-----------------------------------------------------------------------------
Repos == [host : Known, slug : Slugs]

LEMMA ContextInvInit == ContextInit => ContextInv
  <1> SUFFICES ASSUME ContextInit PROVE ContextInv
    OBVIOUS
  <1>1. Unknown.kind = "unknown" /\ NoWiring.at = "idle" /\ NoWiring.lone = FALSE
    BY DEF Unknown, NoWiring
  <1> QED BY <1>1, TypingInit DEF ContextInit, ContextInv, Outside, Busy, Wired, Lone, Slugged, OptedOut

(* The commands of set-default, and what the user records. *)
LEMMA RecordStep ==
  ASSUME ContextInv, NEW n \in Remotes, NEW v \in Records, job = NoWiring, inTree,
         Write(n, v), UNCHANGED <<inTree, remotes, job>>, halfway' = Junk,
         \/ want' = Unknown
         \/ /\ want' = Wanted("slug", want'.slug, n) /\ want'.slug \in Slugs
            /\ \/ v = Ref(NoHost, want'.slug)
               \/ v = Base /\ \E host \in Known : NamesUrl(n, Url(host, want'.slug))
         \/ /\ want' = Wanted("none", NoSlug, n) /\ v = None
            /\ \A m \in Remotes \ {n} : by_preference(n, m)
  PROVE  ContextInv'
  <1>1. /\ resolved' \in [RemoteNames -> Records \union {Absent}]
        /\ \A m \in RemoteNames \ Remotes' : resolved'[m] = Absent
        /\ Remotes' = Remotes /\ resolved'[n] = v
    BY WriteTyped DEF ContextInv
  <1>2. n \in RemoteNames
    BY DEF Remotes
  <1>3. ContextTypeOK'
    BY <1>1, <1>2 DEF ContextInv, ContextTypeOK, Wanted
  <1>4. Outside' /\ Busy' /\ Wired'
    BY <1>1 DEF ContextInv, Outside, Busy, Wired, NamesUrl
  <1>5. Lone'
    BY DEF ContextInv, Lone, Naming, Remotes, NoWiring
  <1>6. Slugged'
    BY <1>1 DEF Slugged, Unknown, Wanted, NamesUrl
  <1>7. OptedOut'
    <2> SUFFICES ASSUME want'.kind = "none" PROVE OptedOut'
      BY DEF OptedOut
    <2>1. want'.remote = n /\ v = None /\ \A m \in Remotes \ {n} : by_preference(n, m)
      BY DEF Unknown, Wanted
    <2>2. \A m \in RemoteNames : by_preference(m, n) => resolved'[m] = Absent
      <3> SUFFICES ASSUME NEW m \in RemoteNames, by_preference(m, n) PROVE m \notin Remotes
        BY <1>1
      <3>1. m # n
        BY <1>2, Asymmetric
      <3> QED BY <1>2, <2>1, <3>1, Asymmetric
    <2> QED BY <1>1, <2>1, <2>2 DEF OptedOut
  <1> QED BY <1>3, <1>4, <1>5, <1>6, <1>7 DEF ContextInv

LEMMA CandidateNames ==
  ASSUME NEW host \in Known, NEW slug \in Slugs, NEW n \in Candidates(host, slug)
  PROVE  n \in Remotes /\ NamesUrl(n, Url(host, slug))
  <1>1. On(n, {host}) = Url(host, slug) /\ n \in Remotes
    BY DEF Candidates
  <1>2. Url(host, slug) # Junk
    BY Constants
  <1> QED BY <1>1, <1>2 DEF On, NamesUrl

LEMMA SetDefaultStep ==
  ASSUME ContextInv, NEW host \in Known, NEW slug \in Slugs, SetDefault(host, slug)
  PROVE  ContextInv'
  <1>1. CASE Candidates(host, slug) # {}
    <2> DEFINE n == First(Candidates(host, slug))
    <2>1. n \in Candidates(host, slug)
      BY <1>1, FirstIsFirst DEF Candidates, Remotes
    <2>2. n \in Remotes /\ NamesUrl(n, Url(host, slug))
      BY <2>1, CandidateNames
    <2>3. Write(n, Base) /\ want' = Wanted("slug", slug, n)
      BY <1>1 DEF SetDefault, record
    <2>4. want'.slug = slug /\ Base \in Records
      BY <2>3, ValuesTyped DEF Wanted
    <2> QED BY <2>2, <2>3, <2>4, RecordStep DEF SetDefault
  <1>2. CASE Candidates(host, slug) = {}
    <2> DEFINE n == First(Remotes)
    <2>1. n \in Remotes
      BY FirstIsFirst DEF Remotes, SetDefault
    <2>2. Write(n, Ref(NoHost, slug)) /\ want' = Wanted("slug", slug, n)
      BY <1>2 DEF SetDefault, record
    <2>3. want'.slug = slug /\ Ref(NoHost, slug) \in Records
      BY <2>2, ValuesTyped DEF Wanted
    <2> QED BY <2>1, <2>2, <2>3, RecordStep DEF SetDefault
  <1> QED BY <1>1, <1>2

LEMMA PickNoneStep == ASSUME ContextInv, PickNone PROVE ContextInv'
  <1>1. First(Remotes) \in Remotes /\ \A m \in Remotes \ {First(Remotes)} : by_preference(First(Remotes), m)
    BY FirstIsFirst DEF PickNone, Remotes
  <1> QED BY <1>1, ValuesTyped, RecordStep DEF PickNone

LEMMA HandRecordStep ==
  ASSUME ContextInv, NEW n \in RemoteNames, NEW v \in ByHand, HandRecord(n, v) PROVE ContextInv'
  <1>1. n \in Remotes /\ v \in Records /\ inTree
    BY UserAssumption DEF HandRecord, ContextInv, Outside, Remotes
  <1> QED BY <1>1, RecordStep DEF HandRecord

LEMMA UnsetStep == ASSUME ContextInv, unset PROVE ContextInv'
  <1>1. ContextTypeOK'
    BY DEF ContextInv, ContextTypeOK, unset, Remotes
  <1>2. Outside' /\ Busy' /\ Wired' /\ Slugged' /\ OptedOut'
    BY DEF ContextInv, unset, Outside, Busy, Wired, NamesUrl, Remotes, Slugged, OptedOut, Unknown
  <1>3. Lone'
    BY DEF ContextInv, Lone, Naming, Remotes, NoWiring, unset
  <1> QED BY <1>1, <1>2, <1>3 DEF ContextInv

-----------------------------------------------------------------------------
(* The wiring. *)

LEMMA CloneStep ==
  ASSUME ContextInv, NEW s \in Repos, NEW f \in Repos, s # f, NEW isFork \in BOOLEAN,
         clone(s, f, isFork)
  PROVE  ContextInv'
  <1>1. Origin \in RemoteNames /\ Upstream \in RemoteNames /\ Origin # Upstream /\ Both(f) \in Remote
    <2>1. PICK host \in Known, slug \in Slugs : f = Url(host, slug)
      BY DEF Repos, Url
    <2> QED BY <2>1, Constants, WiringAssumption
  <1>2. /\ remotes' \in [RemoteNames -> Remote \union {NoRemote}]
        /\ resolved' \in [RemoteNames -> Records \union {Absent}]
        /\ \A m \in RemoteNames \ Remotes' : resolved'[m] = Absent
        /\ remotes'[Upstream] = NoRemote
    BY <1>1, PutTyped DEF clone, ContextInv, Outside, ContextTypeOK
  <1>3. /\ job' = NoWiring \/ job' = Wiring("upstream", s, f, FALSE)
        /\ inTree' = TRUE /\ want = Unknown /\ UNCHANGED <<want, halfway>>
    BY DEF clone, ContextInv, Busy
  <1>4. ContextTypeOK'
    <2>1. Wiring("upstream", s, f, FALSE)
            \in [at : {"upstream", "fork", "record"}, source : Repos, fork : Repos, lone : BOOLEAN]
      BY DEF Wiring
    <2> QED BY <1>2, <1>3, <2>1 DEF ContextInv, ContextTypeOK, Repos
  <1>6. halfway = Junk
    <2>1. Remotes = {}
      BY DEF clone, ContextInv, Outside, Remotes
    <2>2. Naming(halfway) # {Upstream}
      BY <2>1 DEF Naming
    <2> QED BY <2>2 DEF ContextInv, Lone
  <1>5. Outside' /\ Busy' /\ Slugged' /\ OptedOut'
    BY <1>3 DEF Outside, Busy, Slugged, OptedOut, Unknown
  <1>8. Wired'
    BY <1>2, <1>3, <1>6 DEF Wired, Wiring, NoWiring
  <1>7. Lone'
    BY <1>3, <1>6 DEF Lone, Wiring, NoWiring
  <1> QED BY <1>4, <1>5, <1>7, <1>8 DEF ContextInv

LEMMA RewireStep ==
  ASSUME ContextInv, NEW s \in Repos, NEW f \in Repos, s # f, rewire_here(s, f)
  PROVE  ContextInv'
  <1>1. /\ remotes' \in [RemoteNames -> Remote \union {NoRemote}]
        /\ resolved' \in [RemoteNames -> Records \union {Absent}]
        /\ \A m \in RemoteNames \ Remotes' : resolved'[m] = Absent
        /\ Upstream \in Remotes' /\ NamesUrl(Upstream, s)'
        /\ (\A m, n \in Naming(s) : m = n) => Naming(s)' = {Upstream}
    BY MadeUpstream DEF rewire_here, ContextInv, Repos
  <1>2. /\ job' = Wiring("fork", s, f, \A m, n \in Naming(s) : m = n)
        /\ want' = Unknown /\ halfway' = Junk /\ inTree' = inTree /\ inTree
    BY DEF rewire_here
  <1>3. job'.at = "fork" /\ job'.source = s /\ job'.fork = f
        /\ job'.lone = (\A m, n \in Naming(s) : m = n)
    BY <1>2 DEF Wiring
  <1>4. ContextTypeOK'
    BY <1>1, <1>2 DEF ContextInv, ContextTypeOK, Wiring, Repos
  <1>5. Outside' /\ Busy' /\ Slugged' /\ OptedOut'
    BY <1>2 DEF Outside, Busy, Slugged, OptedOut, Unknown
  <1>6. Wired'
    BY <1>1, <1>2, <1>3 DEF Wired, NamesUrl
  <1>7. Lone'
    BY <1>1, <1>2, <1>3 DEF Lone, Naming
  <1> QED BY <1>4, <1>5, <1>6, <1>7 DEF ContextInv

(* Adding a remote of another name leaves Upstream and what names a        *)
(* repository as they are, unless the new one names it.                    *)
LEMMA AddParentStep == ASSUME ContextInv, AddParent PROVE ContextInv'
  <1>1. /\ job # NoWiring /\ job.source \in Repos /\ Both(job.source) \in Remote
        /\ Upstream \in RemoteNames /\ Upstream \notin Remotes /\ ~job.lone /\ want = Unknown /\ inTree
    <2>1. job # NoWiring /\ job.source \in Repos
      BY DEF AddParent, ContextInv, ContextTypeOK, NoWiring, Repos
    <2>2. PICK host \in Known, slug \in Slugs : job.source = Url(host, slug)
      BY <2>1 DEF Repos, Url
    <2> QED BY <2>1, <2>2, Constants, WiringAssumption DEF AddParent, ContextInv, Wired, Busy, Remotes
  <1>2. remotes' = [remotes EXCEPT ![Upstream] = Both(job.source)] /\ UNCHANGED resolved
    BY <1>1 DEF AddParent
  <1>3. /\ remotes' \in [RemoteNames -> Remote \union {NoRemote}]
        /\ resolved' \in [RemoteNames -> Records \union {Absent}]
        /\ \A m \in RemoteNames \ Remotes' : resolved'[m] = Absent
        /\ Remotes' = Remotes \union {Upstream}
        /\ remotes'[Upstream] = Both(job.source)
    BY <1>1, <1>2, PutTyped DEF ContextInv, ContextTypeOK
  <1>4. /\ job' = [job EXCEPT !.at = "record"] /\ UNCHANGED <<inTree, want, halfway>>
        /\ job'.at = "record" /\ job'.source = job.source /\ job'.fork = job.fork
        /\ job'.lone = job.lone
    BY <1>1 DEF AddParent, ContextInv, ContextTypeOK
  <1>5. ContextTypeOK'
    BY <1>1, <1>3, <1>4 DEF ContextInv, ContextTypeOK
  <1>6. Outside' /\ Busy' /\ Slugged' /\ OptedOut'
    BY <1>1, <1>4 DEF Outside, Busy, Slugged, OptedOut, Unknown
  <1>7. Wired'
    BY <1>1, <1>3, <1>4 DEF Wired, NamesUrl, Both, ContextInv
  <1>8. Lone'
    <2>1. halfway = Junk
      BY <1>1 DEF ContextInv, Lone, Naming
    <2> QED BY <1>1, <1>4, <2>1 DEF Lone
  <1> QED BY <1>5, <1>6, <1>7, <1>8 DEF ContextInv

LEMMA AddForkStep == ASSUME ContextInv, AddFork PROVE ContextInv'
  <1>1. /\ job # NoWiring /\ job.fork \in Repos /\ job.source # job.fork /\ Both(job.fork) \in Remote
        /\ Origin \in RemoteNames /\ Upstream \in Remotes /\ NamesUrl(Upstream, job.source)
        /\ want = Unknown /\ inTree /\ halfway = Junk
    <2>1. job # NoWiring /\ job.fork \in Repos
      BY DEF AddFork, ContextInv, ContextTypeOK, NoWiring, Repos
    <2>2. PICK host \in Known, slug \in Slugs : job.fork = Url(host, slug)
      BY <2>1 DEF Repos, Url
    <2> QED BY <2>1, <2>2, Constants, WiringAssumption DEF AddFork, ContextInv, Wired, Busy
  <1>2. /\ job' = [job EXCEPT !.at = "record"] /\ UNCHANGED <<inTree, resolved, want, halfway>>
        /\ job'.at = "record" /\ job'.source = job.source /\ job'.fork = job.fork
        /\ job'.lone = job.lone
    BY <1>1 DEF AddFork, ContextInv, ContextTypeOK
  <1>3. /\ remotes' \in [RemoteNames -> Remote \union {NoRemote}]
        /\ \A m \in RemoteNames \ Remotes' : resolved'[m] = Absent
        /\ Upstream \in Remotes' /\ remotes'[Upstream] = remotes[Upstream]
        /\ Naming(job.source)' = Naming(job.source)
    <2>1. CASE Origin \in Remotes
      <3>1. UNCHANGED <<remotes, resolved>>
        BY <2>1 DEF AddFork
      <3>2. Remotes' = Remotes /\ Naming(job.source)' = Naming(job.source)
        BY <1>2, <3>1 DEF Remotes, Naming
      <3> QED BY <1>1, <3>1, <3>2 DEF ContextInv, ContextTypeOK
    <2>2. CASE Origin \notin Remotes
      <3>1. remotes' = [remotes EXCEPT ![Origin] = Both(job.fork)]
        BY <2>2 DEF AddFork
      <3>2. /\ Remotes' = Remotes \union {Origin}
            /\ remotes' \in [RemoteNames -> Remote \union {NoRemote}]
            /\ \A m \in RemoteNames \ Remotes' : resolved'[m] = Absent
        BY <1>1, <1>2, <3>1, PutTyped DEF ContextInv
      <3>3. \A n \in RemoteNames \ {Origin} : remotes'[n] = remotes[n]
        BY <3>1 DEF ContextInv, ContextTypeOK
      <3>4. remotes'[Origin] = Both(job.fork) /\ Both(job.fork).fetch # job.source
            /\ Both(job.fork).push # job.source
        BY <1>1, <3>1 DEF ContextInv, ContextTypeOK, Both
      <3>5. Naming(job.source)' = Naming(job.source)
        BY <1>2, <2>2, <3>2, <3>3, <3>4 DEF Naming, Remotes
      <3> QED BY <1>1, <2>2, <3>2, <3>3, <3>5 DEF Remotes
    <2> QED BY <2>1, <2>2
  <1>4. ContextTypeOK'
    BY <1>1, <1>2, <1>3 DEF ContextInv, ContextTypeOK
  <1>5. Outside' /\ Busy' /\ Slugged' /\ OptedOut'
    BY <1>1, <1>2 DEF Outside, Busy, Slugged, OptedOut, Unknown
  <1>6. Wired'
    <2>1. Upstream \in Remotes' /\ NamesUrl(Upstream, job.source)'
      BY <1>1, <1>2, <1>3 DEF NamesUrl
    <2> QED BY <1>1, <1>2, <2>1 DEF Wired
  <1>7. Lone'
    <2>1. job.lone => Naming(job.source) = {Upstream}
      BY DEF ContextInv, Lone
    <2> QED BY <1>1, <1>2, <1>3, <2>1 DEF Lone
  <1> QED BY <1>4, <1>5, <1>6, <1>7 DEF ContextInv

LEMMA RecordUpstreamStep == ASSUME ContextInv, RecordUpstream PROVE ContextInv'
  <1>1. /\ job # NoWiring /\ job.source \in Repos /\ inTree /\ halfway = Junk
        /\ Upstream \in Remotes /\ NamesUrl(Upstream, job.source) /\ Upstream \in RemoteNames
    BY WiringAssumption DEF RecordUpstream, ContextInv, ContextTypeOK, Wired, NoWiring, Repos
  <1>2. /\ job' = NoWiring /\ UNCHANGED <<inTree, remotes, halfway>> /\ Write(Upstream, Base)
        /\ want' = Wanted("slug", job.source.slug, Upstream)
    BY DEF RecordUpstream
  <1>3. /\ resolved' \in [RemoteNames -> Records \union {Absent}]
        /\ \A m \in RemoteNames \ Remotes' : resolved'[m] = Absent
        /\ Remotes' = Remotes /\ resolved'[Upstream] = Base
    BY <1>1, <1>2, ValuesTyped, WriteTyped DEF ContextInv
  <1>4. ContextTypeOK'
    BY <1>1, <1>2, <1>3 DEF ContextInv, ContextTypeOK, Wanted, Repos
  <1>5. Outside' /\ Busy' /\ Wired' /\ OptedOut'
    BY <1>1, <1>2 DEF Outside, Busy, Wired, OptedOut, Wanted, NoWiring
  <1>6. Lone'
    BY <1>1, <1>2 DEF Lone, NoWiring
  <1>7. Slugged'
    <2>1. PICK host \in Known, slug \in Slugs : job.source = Url(host, slug)
      BY <1>1 DEF Repos, Url
    <2>2. want'.remote = Upstream /\ want'.slug = slug
      BY <1>2, <2>1 DEF Wanted, Url
    <2>3. NamesUrl(Upstream, Url(host, slug))'
      BY <1>1, <1>2, <2>1 DEF NamesUrl
    <2> QED BY <1>1, <1>3, <2>1, <2>2, <2>3 DEF Slugged, NamesUrl
  <1> QED BY <1>4, <1>5, <1>6, <1>7 DEF ContextInv

LEMMA StopStep == ASSUME ContextInv, Stop PROVE ContextInv'
  <1>1. /\ job # NoWiring /\ job.source \in Repos /\ inTree /\ want = Unknown
        /\ job.lone => Naming(job.source) = {Upstream}
    BY DEF Stop, ContextInv, ContextTypeOK, Wired, Busy, Lone, NoWiring, Repos
  <1>2. /\ job' = NoWiring /\ UNCHANGED <<inTree, remotes, resolved, want>>
        /\ halfway' = IF job.lone THEN job.source ELSE Junk
    BY DEF Stop
  <1>3. Remotes' = Remotes /\ \A url : Naming(url)' = Naming(url)
    BY <1>2 DEF Remotes, Naming
  <1>4. ContextTypeOK'
    BY <1>1, <1>2, <1>3 DEF ContextInv, ContextTypeOK, Repos
  <1>5. Outside' /\ Busy' /\ Wired' /\ Slugged' /\ OptedOut'
    BY <1>1, <1>2 DEF Outside, Busy, Wired, Slugged, OptedOut, Unknown, NoWiring
  <1>6. Lone'
    <2>1. (halfway # Junk => Naming(halfway) = {Upstream})'
      BY <1>1, <1>2 DEF Naming, Remotes
    <2> QED BY <1>2, <2>1 DEF Lone, NoWiring
  <1> QED BY <1>4, <1>5, <1>6 DEF ContextInv

-----------------------------------------------------------------------------
(* The user. *)

LEMMA NewTreeStep == ASSUME ContextInv, NewTree PROVE ContextInv'
  <1>1. job = NoWiring /\ want = Unknown
    BY DEF ContextInv, Wired, Busy, NewTree
  <1>2. inTree' /\ UNCHANGED <<remotes, resolved, job, want, halfway>>
    BY DEF NewTree
  <1>3. ContextTypeOK'
    BY <1>2 DEF ContextInv, ContextTypeOK, Remotes
  <1>4. Outside' /\ Busy' /\ Wired' /\ Slugged' /\ OptedOut'
    BY <1>1, <1>2 DEF Outside, Busy, Wired, Slugged, OptedOut, Unknown, NoWiring
  <1>5. Lone'
    BY <1>2 DEF ContextInv, Lone, Naming, Remotes
  <1> QED BY <1>3, <1>4, <1>5 DEF ContextInv

(* What was recorded on a remote stands while other remotes change.        *)
LEMMA OtherRemote ==
  ASSUME ContextInv, NEW n \in RemoteNames, want' = Unknown \/ (want' = want /\ want.remote # n),
         \A m \in RemoteNames \ {n} : remotes'[m] = remotes[m] /\ resolved'[m] = resolved[m],
         resolved'[n] = resolved[n] \/ resolved'[n] = Absent
  PROVE  Slugged' /\ OptedOut'
  <1>1. CASE want' = Unknown
    BY <1>1 DEF Slugged, OptedOut, Unknown
  <1>2. CASE want' = want /\ want.remote # n
    <2>1. Slugged'
      <3> SUFFICES ASSUME want.kind = "slug" PROVE Slugged'
        BY <1>2 DEF Slugged
      <3>1. /\ want.remote \in Remotes /\ want.slug \in Slugs
            /\ \/ resolved[want.remote] = Ref(NoHost, want.slug)
               \/ /\ resolved[want.remote] = Base
                  /\ \E host \in Known : NamesUrl(want.remote, Url(host, want.slug))
        BY DEF ContextInv, Slugged
      <3>2. want.remote \in RemoteNames \ {n}
        BY <1>2, <3>1 DEF Remotes
      <3>3. /\ remotes'[want.remote] = remotes[want.remote]
            /\ resolved'[want.remote] = resolved[want.remote]
        BY <3>2
      <3> QED BY <1>2, <3>1, <3>2, <3>3 DEF Slugged, NamesUrl, Remotes
    <2>2. OptedOut'
      <3> SUFFICES ASSUME want.kind = "none" PROVE OptedOut'
        BY <1>2 DEF OptedOut
      <3>1. /\ want.remote \in Remotes /\ resolved[want.remote] = None
            /\ \A m \in RemoteNames : by_preference(m, want.remote) => resolved[m] = Absent
        BY DEF ContextInv, OptedOut
      <3>2. want.remote \in RemoteNames \ {n}
        BY <1>2, <3>1 DEF Remotes
      <3>3. /\ remotes'[want.remote] = remotes[want.remote]
            /\ resolved'[want.remote] = resolved[want.remote]
        BY <3>2
      <3>4. \A m \in RemoteNames : by_preference(m, want.remote) => resolved'[m] = Absent
        BY <3>1
      <3> QED BY <1>2, <3>1, <3>2, <3>3, <3>4 DEF OptedOut, Remotes
    <2> QED BY <2>1, <2>2
  <1> QED BY <1>1, <1>2

(* A remote put in place between two commands. *)
LEMMA PutStep ==
  ASSUME ContextInv, NEW n \in RemoteNames, NEW urls \in Given, job = NoWiring, inTree,
         remotes' = [remotes EXCEPT ![n] = urls], UNCHANGED <<inTree, resolved, job>>,
         halfway' = Junk, want' = Unknown \/ (want' = want /\ want.remote # n)
  PROVE  ContextInv'
  <1>1. urls \in Remote
    BY UserAssumption
  <1>2. /\ remotes' \in [RemoteNames -> Remote \union {NoRemote}]
        /\ resolved' \in [RemoteNames -> Records \union {Absent}]
        /\ \A m \in RemoteNames \ Remotes' : resolved'[m] = Absent
    BY <1>1, PutTyped DEF ContextInv
  <1>3. want' \in [kind : {"slug", "none"}, slug : Slugs \union {NoSlug}, remote : RemoteNames] \union {Unknown}
    BY DEF ContextInv, ContextTypeOK
  <1>4. ContextTypeOK'
    BY <1>2, <1>3 DEF ContextInv, ContextTypeOK
  <1>5. Outside' /\ Busy' /\ Wired' /\ Lone'
    BY DEF Outside, Busy, Wired, Lone, NoWiring
  <1>6. \A m \in RemoteNames \ {n} : remotes'[m] = remotes[m] /\ resolved'[m] = resolved[m]
    BY DEF ContextInv, ContextTypeOK
  <1>7. Slugged' /\ OptedOut'
    BY <1>6, OtherRemote
  <1> QED BY <1>4, <1>5, <1>7 DEF ContextInv

(* What is said of a remote that is not there is nothing. *)
LEMMA RemoteAddStep ==
  ASSUME ContextInv, NEW n \in RemoteNames, NEW urls \in Given, RemoteAdd(n, urls)
  PROVE  ContextInv'
  <1>1. want = Unknown \/ want.remote # n
    BY DEF ContextInv, ContextTypeOK, Slugged, OptedOut, RemoteAdd
  <1> QED BY <1>1, PutStep DEF RemoteAdd

LEMMA SetUrlStep ==
  ASSUME ContextInv, NEW n \in RemoteNames, NEW urls \in Given, SetUrl(n, urls)
  PROVE  ContextInv'
  <1>1. inTree
    BY DEF ContextInv, Outside, SetUrl, Remotes
  <1>2. want' = Unknown \/ (want' = want /\ want.remote # n)
    BY DEF SetUrl, Forget
  <1> QED BY <1>1, <1>2, PutStep DEF SetUrl

LEMMA RemoteRemoveStep == ASSUME ContextInv, NEW n \in RemoteNames, RemoteRemove(n) PROVE ContextInv'
  <1>1. inTree /\ job = NoWiring
    BY DEF ContextInv, Outside, RemoteRemove, Remotes
  <1>2. want' = Unknown \/ (want' = want /\ want.remote # n)
    BY DEF RemoteRemove, Forget
  <1>3. \A m \in RemoteNames : /\ remotes'[m] = IF m = n THEN NoRemote ELSE remotes[m]
                         /\ resolved'[m] = IF m = n THEN Absent ELSE resolved[m]
    BY DEF RemoteRemove, ContextInv, ContextTypeOK
  <1>4. /\ remotes' \in [RemoteNames -> Remote \union {NoRemote}]
        /\ resolved' \in [RemoteNames -> Records \union {Absent}]
    BY DEF RemoteRemove, ContextInv, ContextTypeOK
  <1>5. \A m \in RemoteNames \ Remotes' : resolved'[m] = Absent
    BY <1>3 DEF Remotes, ContextInv, ContextTypeOK
  <1>6. ContextTypeOK'
    BY <1>2, <1>4, <1>5 DEF ContextInv, ContextTypeOK, RemoteRemove
  <1>7. Outside' /\ Busy' /\ Wired' /\ Lone'
    BY <1>1 DEF RemoteRemove, Outside, Busy, Wired, Lone, NoWiring
  <1>8. Slugged' /\ OptedOut'
    BY <1>2, <1>3, OtherRemote
  <1> QED BY <1>6, <1>7, <1>8 DEF ContextInv

LEMMA ContextInvStep == ContextInv /\ [ContextNext]_contextVars => ContextInv'
  <1> SUFFICES ASSUME ContextInv, [ContextNext]_contextVars PROVE ContextInv'
    OBVIOUS
  <1>1. CASE UNCHANGED contextVars
    BY <1>1 DEF contextVars, ContextInv, ContextTypeOK, Outside, Busy, Wired, NamesUrl, Lone,
                Naming, Remotes, Slugged, OptedOut
  <1>2. ASSUME NEW host \in Known, NEW slug \in Slugs, SetDefault(host, slug) PROVE ContextInv'
    BY <1>2, SetDefaultStep
  <1>3. ASSUME NEW host \in Known, NEW s \in Slugs, NEW f \in Slugs, s # f,
               \/ \E isFork \in BOOLEAN : clone(Url(host, s), Url(host, f), isFork)
               \/ rewire_here(Url(host, s), Url(host, f))
        PROVE  ContextInv'
    <2>1. Url(host, s) \in Repos /\ Url(host, f) \in Repos /\ Url(host, s) # Url(host, f)
      BY <1>3 DEF Repos, Url
    <2> QED BY <1>3, <2>1, CloneStep, RewireStep
  <1>4. CASE User
    BY <1>4, NewTreeStep, RemoteRemoveStep, RemoteAddStep, SetUrlStep, HandRecordStep DEF User
  <1> QED BY <1>1, <1>2, <1>3, <1>4, PickNoneStep, UnsetStep, AddParentStep, AddForkStep,
             RecordUpstreamStep, StopStep DEF ContextNext, Commands

-----------------------------------------------------------------------------
(* What holds of every state the invariant describes. *)

(* A remote with a record, and none before it, is where the walk stops.    *)
LEMMA StopsAt ==
  ASSUME ContextTypeOK, NEW S \in SUBSET Remotes, NEW n \in S,
         \A m \in S : resolved[m] # Absent,
         \A m \in RemoteNames : by_preference(m, n) => resolved[m] = Absent
  PROVE  First(S) = n
  <1>1. S \in SUBSET RemoteNames /\ First(S) \in S
    BY FirstIsFirst DEF Remotes
  <1>2. \A b \in S \ {First(S)} : by_preference(First(S), b)
    BY <1>1, FirstIsFirst
  <1> QED BY <1>1, <1>2

LEMMA InTree == ASSUME ContextInv, want # Unknown PROVE inTree
  BY DEF ContextInv, Busy

LEMMA KeepsChoice == ASSUME ContextInv PROVE ChoiceKept
  <1> DEFINE n == want.remote
  <1> SUFFICES ASSUME want.kind = "slug", Plain(n),
                      \A m \in RemoteNames : by_preference(m, n) => resolved[m] = Absent
               PROVE  resolve_repo(Bare).slug = want.slug
    BY DEF ChoiceKept
  <1>1. /\ n \in Remotes /\ want.slug \in Slugs
        /\ \/ resolved[n] = Ref(NoHost, want.slug)
           \/ resolved[n] = Base /\ \E host \in Known : NamesUrl(n, Url(host, want.slug))
    BY DEF ContextInv, Slugged
  <1>2. inTree
    BY InTree DEF Unknown
  <1>3. ASSUME n \in Decided PROVE resolve_repo(Bare) = FromConfig(Bare, n)
    <2>1. \A m \in Decided : resolved[m] # Absent
      BY DEF Decided, Absent, Word
    <2>2. First(Decided) = n
      BY <1>3, <2>1, StopsAt DEF Decided, ContextInv
    <2> QED BY <1>2, <1>3, <2>2 DEF resolve_repo, Bare
  <1>4. CASE resolved[n] = Ref(NoHost, want.slug)
    <2>1. resolved[n].kind = "ref" /\ resolved[n].host = NoHost /\ resolved[n].slug = want.slug
      BY <1>4 DEF Ref
    <2>2. n \in Decided
      BY <1>1, <2>1 DEF Decided
    <2> QED BY <1>3, <2>1, <2>2, PrefTyped DEF FromConfig, FromRef, finish, Bare, Url, ContextInv
  <1>5. CASE resolved[n] = Base /\ \E host \in Known : NamesUrl(n, Url(host, want.slug))
    <2>1. PICK host \in Known : NamesUrl(n, Url(host, want.slug))
      BY <1>5
    <2>2. On(n, Known) = Url(host, want.slug)
      <3>1. Junk.host \notin Known /\ Url(host, want.slug).host = host
        BY ContextAssumption DEF Junk, Url
      <3> QED BY <2>1, <3>1 DEF Plain, On, NamesUrl
    <2>3. On(n, Known) # Junk
      BY <1>1, <2>2, Constants
    <2>4. n \in Matched /\ resolved[n].kind = "base"
      BY <1>1, <1>5, <2>3 DEF Matched, Base, Word
    <2>5. n \in Decided
      BY <1>1, <2>4 DEF Decided
    <2> QED BY <1>3, <2>2, <2>4, <2>5 DEF FromConfig, finish, explicit_or, Bare, Url
  <1> QED BY <1>1, <1>4, <1>5

LEMMA StopsGuess == ASSUME ContextInv PROVE OptOutStops
  <1> DEFINE n == want.remote
  <1> SUFFICES ASSUME want.kind = "none"
               PROVE  resolve_repo(Bare) = Failed /\ host_from_remotes = NoHost
    BY DEF OptOutStops
  <1>1. /\ n \in Remotes /\ resolved[n] = None
        /\ \A m \in RemoteNames : by_preference(m, n) => resolved[m] = Absent
    BY DEF ContextInv, OptedOut
  <1>2. inTree
    BY InTree DEF Unknown
  <1>3. resolved[n].kind = "NONE"
    BY <1>1 DEF None, Word
  <1>4. n \in Answers /\ n \in Decided
    BY <1>1, <1>3 DEF Answers, Decided
  <1>5. First(Decided) = n
    <2>1. \A m \in Decided : resolved[m] # Absent
      BY DEF Decided, Absent, Word
    <2> QED BY <1>1, <1>4, <2>1, StopsAt DEF Decided, ContextInv
  <1>6. First(Answers) = n
    <2>1. \A m \in Answers : resolved[m] # Absent
      BY DEF Answers, Absent, Word
    <2> QED BY <1>1, <1>4, <2>1, StopsAt DEF Answers, ContextInv
  <1>7. resolve_repo(Bare) = FromConfig(Bare, n)
    BY <1>2, <1>4, <1>5 DEF resolve_repo, Bare
  <1> QED BY <1>2, <1>3, <1>4, <1>6, <1>7 DEF FromConfig, host_from_remotes, Answer

LEMMA Resumes == ASSUME ContextInv PROVE WiringResumes
  <1> SUFFICES ASSUME halfway # Junk PROVE ~Taken(halfway)
    BY DEF WiringResumes
  <1>1. Naming(halfway) = {Upstream}
    BY DEF ContextInv, Lone
  <1> QED BY <1>1, Found DEF Taken

-----------------------------------------------------------------------------
(* Throughout any sequence of set-default, clone, fork --remote and edits  *)
(* by hand, the invariant holds.                                           *)
THEOREM ContextHolds == ContextSpec => []ContextInv
  BY ContextInvInit, ContextInvStep, PTL DEF ContextSpec

(* No command leaves a record on a remote that is not there, and no wiring *)
(* of a fork is under way with a step or a repository the code has not.    *)
THEOREM ContextTyped == ContextSpec => []ContextTypeOK
  <1>1. ContextInv => ContextTypeOK
    BY DEF ContextInv
  <1> QED BY <1>1, ContextHolds, PTL

(* The walk that names only the host agrees with the one that names the    *)
(* repository, whatever the remotes and the records.                       *)
THEOREM WalksAgree == ContextSpec => []SameServer
  <1>1. ContextInv => SameServer
    BY TypedAgrees DEF ContextInv
  <1> QED BY <1>1, ContextHolds, PTL

(* With --host a repository is looked for on the host it was resolved for, *)
(* as long as no reference outside -R names a host.                        *)
THEOREM SentWhereResolved == ContextSpec => []OneServer
  <1>1. ContextInv => OneServer
    BY TypedSends DEF ContextInv
  <1> QED BY <1>1, ContextHolds, PTL

(* What set-default, clone or fork recorded is what later commands use,    *)
(* unless a remote the walk reaches before has a record of its own.        *)
THEOREM ChoicesKept == ContextSpec => []ChoiceKept
  <1>1. ContextInv => ChoiceKept
    BY KeepsChoice
  <1> QED BY <1>1, ContextHolds, PTL

(* After the picker's `none`, neither walk answers from the remotes.       *)
THEOREM OptOutsStop == ContextSpec => []OptOutStops
  <1>1. ContextInv => OptOutStops
    BY StopsGuess
  <1> QED BY <1>1, ContextHolds, PTL

(* A killed `fork --remote` can be run again. *)
THEOREM WiringsResume == ContextSpec => []WiringResumes
  <1>1. ContextInv => WiringResumes
    BY Resumes
  <1> QED BY <1>1, ContextHolds, PTL
=============================================================================
