---------------------------- MODULE DefaultRepo ----------------------------
(***************************************************************************)
(* The commands that decide what later commands are about: `repo           *)
(* set-default`, and `repo clone` and `repo fork --remote` for a fork,     *)
(* which wire two remotes and record the parent one git call at a time.    *)
(* The user edits the same remotes and the same config with git.           *)
(***************************************************************************)
EXTENDS RepoContext

CONSTANTS
  Upstream,  \* --upstream-name
  Origin,    \* --remote-name, and what git calls a clone's remote
  Given,     \* the remotes users set up
  ByHand     \* the records users write themselves

VARIABLES
  job,       \* the wiring of a fork that is under way
  want,      \* history: what the last command recorded, and on which remote
  halfway    \* history: the wiring killed last, nothing changed since

contextVars == <<inTree, remotes, resolved, job, want, halfway>>

ASSUME WiringAssumption == Upstream \in RemoteNames /\ Origin \in RemoteNames /\ Upstream # Origin
ASSUME UserAssumption == Given \subseteq Remote /\ ByHand \subseteq Records

NoWiring == [at |-> "idle", source |-> Junk, fork |-> Junk, lone |-> FALSE]
Unknown == [kind |-> "unknown", slug |-> NoSlug, remote |-> "none"]
Wanted(kind, slug, n) == [kind |-> kind, slug |-> slug, remote |-> n]

ContextTypeOK ==
  /\ inTree \in BOOLEAN
  /\ remotes \in [RemoteNames -> Remote \union {NoRemote}]
  /\ resolved \in [RemoteNames -> Records \union {Absent}]
  /\ \A n \in RemoteNames \ Remotes : resolved[n] = Absent
  /\ job \in [at : {"upstream", "fork", "record"}, source : [host : Known, slug : Slugs],
              fork : [host : Known, slug : Slugs], lone : BOOLEAN] \union {NoWiring}
  /\ want \in [kind : {"slug", "none"}, slug : Slugs \union {NoSlug}, remote : RemoteNames]
              \union {Unknown}
  /\ halfway \in [host : Known, slug : Slugs] \union {Junk}

ContextInit ==
  /\ inTree = FALSE
  /\ remotes = [n \in RemoteNames |-> NoRemote]
  /\ resolved = [n \in RemoteNames |-> Absent]
  /\ job = NoWiring /\ want = Unknown /\ halfway = Junk

-----------------------------------------------------------------------------
(* set-default. *)

(* The remotes whose URL on the command's host is this repository. *)
Candidates(host, slug) == {n \in Remotes : On(n, {host}) = Url(host, slug)}

Write(n, value) == resolved' = [resolved EXCEPT ![n] = value]

(* `base` where a remote names the repository, else the slug itself where  *)
(* the walk gets first.                                                    *)
record(host, slug) ==
  \/ /\ Candidates(host, slug) # {}
     /\ LET n == First(Candidates(host, slug))
        IN Write(n, Base) /\ want' = Wanted("slug", slug, n)
  \/ /\ Candidates(host, slug) = {}
     /\ LET n == First(Remotes)
        IN Write(n, Ref(NoHost, slug)) /\ want' = Wanted("slug", slug, n)

(* Any configured host may be the command's: --host says so.               *)
SetDefault(host, slug) ==
  /\ job = NoWiring /\ inTree /\ Remotes # {}
  /\ record(host, slug)
  /\ halfway' = Junk
  /\ UNCHANGED <<inTree, remotes, job>>

(* The last entry of the picker. *)
PickNone ==
  /\ job = NoWiring /\ inTree /\ Remotes # {}
  /\ Write(First(Remotes), None)
  /\ want' = Wanted("none", NoSlug, First(Remotes))
  /\ halfway' = Junk
  /\ UNCHANGED <<inTree, remotes, job>>

(* One git call per record, in any order: all of them, or those before the *)
(* call that fails.                                                        *)
unset ==
  /\ job = NoWiring /\ inTree
  /\ \E gone \in SUBSET Remotes \ {{}} :
       /\ \A n \in gone : resolved[n] # Absent
       /\ resolved' = [n \in RemoteNames |-> IF n \in gone THEN Absent ELSE resolved[n]]
  /\ want' = Unknown /\ halfway' = Junk
  /\ UNCHANGED <<inTree, remotes, job>>

-----------------------------------------------------------------------------
(* The wiring of a fork. *)
Both(url) == [fetch |-> url, push |-> url]
Wiring(at, source, fork, lone) == [at |-> at, source |-> source, fork |-> fork, lone |-> lone]

(* git clone, of a fork or of what is none. *)
clone(source, fork, isFork) ==
  /\ job = NoWiring /\ ~inTree
  /\ inTree' = TRUE
  /\ remotes' = [remotes EXCEPT ![Origin] = Both(fork)]
  /\ job' = IF isFork THEN Wiring("upstream", source, fork, FALSE) ELSE NoWiring
  /\ UNCHANGED <<resolved, want, halfway>>

AddParent ==
  /\ job.at = "upstream"
  /\ remotes' = IF Upstream \in Remotes THEN remotes
                ELSE [remotes EXCEPT ![Upstream] = Both(job.source)]
  /\ job' = [job EXCEPT !.at = "record"]
  /\ UNCHANGED <<inTree, resolved, want, halfway>>

(* The remotes that name a repository, and the one that is found. *)
Naming(url) == {n \in Remotes : remotes[n].fetch = url \/ remotes[n].push = url}
remote_for(url) == CHOOSE n \in Naming(url) : \A m \in Naming(url) : Place[n] <= Place[m]

\* Mutant: the old name stays.
remote_copy(from, to) ==
  /\ remotes' = [remotes EXCEPT ![to] = remotes[from]]
  /\ UNCHANGED resolved

(* A rename takes the remote's section of the config with it. *)
remote_rename(from, to) ==
  /\ remotes' = [remotes EXCEPT ![to] = remotes[from], ![from] = NoRemote]
  /\ resolved' = [resolved EXCEPT ![to] = resolved[from], ![from] = Absent]

(* What refuses: the name is taken, and not by the source. *)
Taken(source) ==
  /\ Upstream \in Remotes
  /\ Naming(source) = {} \/ remote_for(source) # Upstream

(* fork --remote makes its parent Upstream, in one git call or none. *)
MakeUpstream(source) ==
  \/ /\ Naming(source) # {} /\ remote_for(source) = Upstream
     /\ UNCHANGED <<remotes, resolved>>
  \/ /\ Naming(source) # {} /\ remote_for(source) # Upstream
     /\ remote_rename(remote_for(source), Upstream)
  \/ /\ Naming(source) = {}
     /\ remotes' = [remotes EXCEPT ![Upstream] = Both(source)]
     /\ UNCHANGED resolved

rewire_here(source, fork) ==
  /\ job = NoWiring /\ inTree
  /\ ~Taken(source)
  /\ MakeUpstream(source)
  /\ job' = Wiring("fork", source, fork, \A m, n \in Naming(source) : m = n)
  /\ want' = Unknown /\ halfway' = Junk
  /\ UNCHANGED inTree

AddFork ==
  /\ job.at = "fork"
  /\ remotes' = IF Origin \in Remotes THEN remotes
                ELSE [remotes EXCEPT ![Origin] = Both(job.fork)]
  /\ job' = [job EXCEPT !.at = "record"]
  /\ UNCHANGED <<inTree, resolved, want, halfway>>

RecordUpstream ==
  /\ job.at = "record"
  /\ Write(Upstream, Base)
  /\ want' = Wanted("slug", job.source.slug, Upstream)
  /\ job' = NoWiring
  /\ UNCHANGED <<inTree, remotes, halfway>>

(* A call to git fails, or the command is killed. *)
Stop ==
  /\ job # NoWiring
  /\ job' = NoWiring
  /\ halfway' = IF job.lone THEN job.source ELSE Junk
  /\ UNCHANGED <<inTree, remotes, resolved, want>>

-----------------------------------------------------------------------------
(* The user, with git (external). *)
NewTree ==
  /\ ~inTree /\ inTree' = TRUE
  /\ UNCHANGED <<remotes, resolved, job, want, halfway>>

(* What is said of a remote is over when the user changes that remote. *)
Forget(n) == want' = IF n = want.remote THEN Unknown ELSE want

RemoteAdd(n, urls) ==
  /\ job = NoWiring /\ inTree /\ n \notin Remotes
  /\ remotes' = [remotes EXCEPT ![n] = urls]
  /\ halfway' = Junk
  /\ UNCHANGED <<inTree, resolved, job, want>>

SetUrl(n, urls) ==
  /\ job = NoWiring /\ n \in Remotes
  /\ remotes' = [remotes EXCEPT ![n] = urls]
  /\ Forget(n) /\ halfway' = Junk
  /\ UNCHANGED <<inTree, resolved, job>>

RemoteRemove(n) ==
  /\ job = NoWiring /\ n \in Remotes
  /\ remotes' = [remotes EXCEPT ![n] = NoRemote]
  /\ resolved' = [resolved EXCEPT ![n] = Absent]
  /\ Forget(n) /\ halfway' = Junk
  /\ UNCHANGED <<inTree, job>>

HandRecord(n, value) ==
  /\ job = NoWiring /\ n \in Remotes
  /\ Write(n, value)
  /\ want' = Unknown /\ halfway' = Junk
  /\ UNCHANGED <<inTree, remotes, job>>

-----------------------------------------------------------------------------
Commands ==
  \/ \E host \in Known, slug \in Slugs : SetDefault(host, slug)
  \/ PickNone
  \/ unset
  \/ \E host \in Known, s \in Slugs, f \in Slugs : 
       s # f /\ \/ \E isFork \in BOOLEAN : clone(Url(host, s), Url(host, f), isFork)
                \/ rewire_here(Url(host, s), Url(host, f))
  \/ AddParent \/ AddFork \/ RecordUpstream \/ Stop

User ==
  \/ NewTree
  \/ \E n \in RemoteNames : \/ RemoteRemove(n)
                      \/ \E urls \in Given : RemoteAdd(n, urls) \/ SetUrl(n, urls)
                      \/ \E value \in ByHand : HandRecord(n, value)

ContextNext == Commands \/ User

ContextSpec == ContextInit /\ [][ContextNext]_contextVars

-----------------------------------------------------------------------------
(* `-R owner/name` typed in a checkout goes to the server of the           *)
(* repository the checkout itself stands for: the two walks, which stop at *)
(* different records, never name different hosts.                          *)
SameServer ==
  resolve_repo(Bare) # Failed =>
    \A slug \in Slugs :
      resolve_repo([Bare EXCEPT !.repo = Ref(NoHost, slug)]) = Url(resolve_repo(Bare).host, slug)

(* With --host, too, a slug is sent to the host it was resolved for,       *)
(* whatever mixture of flag, environment, records and remotes decided it,  *)
(* as long as no reference outside -R names a host of its own.             *)
OneServer ==
  (\A n \in RemoteNames : resolved[n].host = NoHost) =>
    \A q \in Requests :
      q.host # NoHost /\ q.env.host = NoHost /\ resolve_repo(q) # Failed =>
        client_host(q) = resolve_repo(q).host

(* The remote's URLs, where they name anything, name one repository. *)
Plain(n) == remotes[n].fetch = remotes[n].push \/ Junk \in {remotes[n].fetch, remotes[n].push}

(* What the last command recorded is what later commands are about,        *)
(* whatever the user does to other remotes, unless a remote the walk       *)
(* reaches before has a record.                                            *)
ChoiceKept ==
  /\ want.kind = "slug" /\ Plain(want.remote)
  /\ \A m \in RemoteNames : by_preference(m, want.remote) => resolved[m] = Absent
  => resolve_repo(Bare).slug = want.slug

(* After the picker's `none` no command guesses a repository or a host     *)
(* from the remotes, whichever remotes the user adds.                      *)
OptOutStops ==
  want.kind = "none" => resolve_repo(Bare) = Failed /\ host_from_remotes = NoHost

(* Running `fork --remote` again after it was killed is not refused for    *)
(* what it left.                                                           *)
WiringResumes == halfway # Junk => ~Taken(halfway)

(* What the commands promise: the recorded repository is the one in use.   *)
TakesEffect ==
  want.kind = "slug" /\ Plain(want.remote) => resolve_repo(Bare).slug = want.slug
=============================================================================
