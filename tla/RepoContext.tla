---------------------------- MODULE RepoContext ----------------------------
(***************************************************************************)
(* Which repository, and which server, a command is about: the walk over a *)
(* checkout's remotes that names the repository, the second walk that      *)
(* names only the host, and the host the client is built for.  What the    *)
(* three read is state: the remotes, and the choices git config records.   *)
(***************************************************************************)
EXTENDS Integers, FiniteSets

CONSTANTS
  RemoteNames,     \* the names of remotes
  Place,     \* the place of each in the alphabet
  Known,     \* the hosts of hosts.toml
  Foreign,   \* the hosts that are not there
  Slugs,     \* owner/name
  Active     \* the active host

VARIABLES
  inTree,    \* whether there is a work tree
  remotes,   \* the fetch and push URL of each remote
  resolved   \* remote.<name>.fjo-resolved

NoHost == "no host"
NoSlug == "no slug"

(* A URL is what it names; a path on disk names nothing. *)
Url(host, slug) == [host |-> host, slug |-> slug]
Junk == Url(NoHost, NoSlug)
Urls == [host : Known \union Foreign, slug : Slugs] \union {Junk}
Remote == [fetch : Urls, push : Urls]
Unset == [host |-> "unset", slug |-> NoSlug]
NoRemote == [fetch |-> Unset, push |-> Unset]

(* A reference names a slug, and maybe a host; the same values are what    *)
(* git config records.                                                     *)
Ref(host, slug) == [kind |-> "ref", host |-> host, slug |-> slug]
Word(kind) == [kind |-> kind, host |-> NoHost, slug |-> NoSlug]
Absent == Word("absent")
Base == Word("base")
None == Word("NONE")
Malformed == Word("malformed")
Refs == {Ref(host, slug) : host \in Known \union Foreign \union {NoHost}, slug \in Slugs}
Records == Refs \union {Base, None, Malformed}

(* What the user gives: -R, $FJO_REPO, and --host or $FJO_HOST. *)
Requests == [repo : Refs \union {Absent}, env : Refs \union {Absent, Malformed},
             host : Known \union Foreign \union {NoHost}]
Bare == [repo |-> Absent, env |-> Absent, host |-> NoHost]

-----------------------------------------------------------------------------
remote_score(name) ==
  IF name = "upstream" THEN 3
  ELSE IF name \in {"forgejo", "codeberg"} THEN 2
  ELSE IF name = "origin" THEN 1 ELSE 0

by_preference(a, b) ==
  \/ remote_score(a) > remote_score(b)
  \/ remote_score(a) = remote_score(b) /\ Place[a] < Place[b]

First(S) == CHOOSE a \in S : \A b \in S \ {a} : by_preference(a, b)

(* The order is total: every set of remotes has a first. *)
ASSUME ContextAssumption ==
  /\ Active \in Known
  /\ NoHost \notin Known \union Foreign /\ "unset" \notin Known \union Foreign
  /\ Known \intersect Foreign = {}
  /\ NoSlug \notin Slugs
  /\ \A a \in RemoteNames : Place[a] \in Nat
  /\ \A S \in SUBSET RemoteNames : S # {} => /\ \E a \in S : \A b \in S \ {a} : by_preference(a, b)
                                    /\ \E a \in S : \A b \in S : Place[a] <= Place[b]

Remotes == {n \in RemoteNames : remotes[n] # NoRemote}

(* The first URL of a remote, fetch before push, on one of these hosts. *)
On(n, hosts) ==
  IF remotes[n].fetch.host \in hosts THEN remotes[n].fetch
  ELSE IF remotes[n].push.host \in hosts THEN remotes[n].push ELSE Junk

Matched == {n \in Remotes : On(n, Known) # Junk}

-----------------------------------------------------------------------------
(* The host alone. *)

\* Mutant: `none` is no answer.
AnswersNoOptOut == {n \in Remotes : \/ resolved[n].kind = "base" /\ n \in Matched
                                    \/ resolved[n].kind = "ref" /\ resolved[n].host \in Known}

(* The records that answer it; a slug without a host is no answer. *)
Answers == {n \in Remotes : \/ resolved[n].kind = "NONE"
                            \/ resolved[n].kind = "base" /\ n \in Matched
                            \/ resolved[n].kind = "ref" /\ resolved[n].host \in Known}

Answer(n) ==
  IF resolved[n].kind = "base" THEN On(n, Known).host
  ELSE IF resolved[n].kind = "ref" THEN resolved[n].host ELSE NoHost

\* Mutant: the records are not read.
host_by_score ==
  IF ~inTree \/ Matched = {} THEN NoHost ELSE On(First(Matched), Known).host

host_from_remotes ==
  IF ~inTree THEN NoHost
  ELSE IF Answers # {} THEN Answer(First(Answers))
  ELSE IF Matched # {} THEN On(First(Matched), Known).host
  ELSE NoHost

(* NoHost is a failure here. *)
resolve_host(host) ==
  IF host = NoHost THEN Active ELSE IF host \in Known THEN host ELSE NoHost

host_from_pref(host) ==
  IF host = NoHost /\ host_from_remotes # NoHost THEN host_from_remotes ELSE resolve_host(host)

\* Mutant: a URL's host is the repository's, --host or not.
named_only(host, named) == named

explicit_or(host, named) == IF host = NoHost THEN named ELSE resolve_host(host)

-----------------------------------------------------------------------------
(* The repository. *)
Failed == Url(NoHost, NoSlug)
finish(host, slug) == IF host \in Known THEN Url(host, slug) ELSE Failed

FromFlag(q) ==
  IF q.repo.host = NoHost THEN finish(host_from_pref(q.host), q.repo.slug)
  ELSE IF q.host \in {NoHost, q.repo.host} THEN finish(q.repo.host, q.repo.slug)
  ELSE Failed

(* A reference that is not the flag's: its own host, whatever --host says. *)
FromRef(q, ref) ==
  finish(IF ref.host = NoHost THEN host_from_pref(q.host) ELSE ref.host, ref.slug)

FromEnv(q) == IF q.env.kind = "ref" THEN FromRef(q, q.env) ELSE Failed

(* The records the walk stops at; `base` on a remote none of whose URLs    *)
(* names a host is passed over.                                            *)
Strange(n) == remotes[n].fetch.host \in Foreign \/ remotes[n].push.host \in Foreign

\* Mutant: `base` is read for the host only.
DecidedByName == {n \in Remotes : resolved[n].kind \in {"NONE", "ref", "malformed"}}

Decided == {n \in Remotes : \/ resolved[n].kind \in {"NONE", "ref", "malformed"}
                            \/ resolved[n].kind = "base" /\ (n \in Matched \/ Strange(n))}

FromConfig(q, n) ==
  IF resolved[n].kind = "base" /\ n \in Matched
  THEN finish(explicit_or(q.host, On(n, Known).host), On(n, Known).slug)
  ELSE IF resolved[n].kind = "ref" THEN FromRef(q, resolved[n]) ELSE Failed

Top == {n \in Matched : \A m \in Matched : remote_score(m) <= remote_score(n)}

(* Two remotes at the top are not guessed between. *)
FromRemotes(q) ==
  IF \E n \in Top : Top = {n}
  THEN LET n == CHOOSE n \in Top : TRUE
       IN finish(explicit_or(q.host, On(n, Known).host), On(n, Known).slug)
  ELSE Failed

resolve_repo(q) ==
  IF q.repo # Absent THEN FromFlag(q)
  ELSE IF q.env # Absent THEN FromEnv(q)
  ELSE IF ~inTree THEN Failed
  ELSE IF Decided # {} THEN FromConfig(q, First(Decided))
  ELSE FromRemotes(q)

(* Where the client sends, and so where the slug goes. *)
client_host(q) ==
  LET context == resolve_repo(q)
  IN IF q.host # NoHost THEN resolve_host(q.host)
     ELSE IF context # Failed THEN context.host ELSE resolve_host(NoHost)
=============================================================================
