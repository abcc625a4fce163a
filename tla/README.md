# A specification of fjo

`fjo` is a command line client for Forgejo, written in Rust. One invocation is
one short process: it reads `hosts.toml`, finds a credential, renews it if it
is an OAuth session about to lapse, sends some HTTP requests, prints, and ends.
What makes it hard is not one process but several: invocations run side by side
(a shell loop, a git credential helper, a prompt left open in another window),
share a file, an OS keyring and a server-side session, hold no lock, and may be
killed, refused or left without an answer at any step. The commands built on
that core send several requests or git calls each, and everything they looked at
may have changed by the time they act on it.

These modules model both: the life of a credential, the integrity of
`hosts.toml` down to the system calls that replace it, a paginated walk, a
request with its retries and the cache of what an instance can do; and then the
commands that change a checkout, a release, an item that others edit too, or a
pull request, with the browser login, the bounded fan-out of requests, and the choice of
the repository and the server that a command is about. TLC
checks them on small instances; TLAPS proves the most important invariants for
every value of the constants.

Paths below are relative to `src/crates/`; `core/` is `forgejo-core/src/` and
`fjo/` is `fjo/src/`.

## Inventory

| Component | State | Operations | Talks to |
|---|---|---|---|
| Credential search and storage, `core/config/secrets.rs` | the OS keyring, the token fields of `hosts.toml`, the environment | `token`, `read_order`, `store`, `forget`, `with_timeout` | keyring (in a thread it may abandon), `Hosts` |
| Session renewal, `core/oauth_refresh.rs`, `core/oauth/` | the session document: access token, refresh token, expiry | `refresh_blocking`, `is_expiring`, `post_token` | token endpoint, `Credentials::store`, `Hosts::save` |
| `hosts.toml`, `core/config/hosts.rs` | the file; a loaded copy with a dirty flag; active host, active login, cached store | add/remove/activate a host or login, `set_cached_store`, `resolve_host`, `resolve_login`, `adopt_env_host`, `save` | the file system |
| Auth commands, `fjo/cmd/auth/` | none of their own | login (token, browser), logout, switch, status, token, git-credential | all of the above, prompts |
| Runtime, `fjo/runtime.rs` | the resolved host, login and credential | `Runtime::new` | `Hosts`, `Credentials`, renewal |
| Pagination, `core/http/paginate.rs`, `core/http/mod.rs`, `fjo/api/paginate.rs` | `Paginator`: pages and items seen, first page size, total | `keep`, `advance`, the two drivers | `Client::send` |
| Request dispatch, `core/http/retry.rs`, `core/http/mod.rs`, `core/http/transport.rs` | attempt number | `dispatch`, `on_status`, `on_transport`, `backoff`, `wait` | the network |
| Capabilities, `core/capabilities.rs`, `core/http/mod.rs` | a cache slot with a TTL behind a gate | `probe`, `cached_caps` | `/settings/api`, `/nodeinfo` |
| Browser callback, `fjo/cmd/auth/callback.rs`, `web_login.rs` | a listener with a deadline | `bind`, `wait`, `handle`, paste | the browser, the token endpoint |
| Atomic replacement, `core/config/mod.rs` | a temporary file | `write_atomic` | the file system |
| Checkout, sync, merge, `fjo/cmd/pr/`, `fjo/cmd/repo/sync.rs`, `core/context/git/` | the user's branches, work tree, `FETCH_HEAD` | `pr checkout`, `repo sync`, `pr merge -d` | git, the server through it |
| Releases, `fjo/cmd/release.rs` | the release, its assets, a folder of downloads | `create`, `upload`, `download`, `delete`, `delete-asset` | `Client` |
| Fan-out, `fjo/cmd/notification.rs` | a window of requests | `mark_each` | `Client` |
| Edits, `fjo/cmd/issue/`, `pr/state.rs`, `topic.rs`, `webhook.rs` | labels, assignees, topics, events on the server | `issue edit`, `pr edit`, `topic`, `webhook edit` | `Client`, whoever else edits |
| Pull request creation, `fjo/cmd/pr/create.rs` | a recovery file, the pull requests | `pr create`, over the API or AGit | `Client`, git |
| Repository context, `core/context/` | none; it reads the remotes and the records of a checkout | which host and repository a command is about | git remotes and config, `Hosts` |
| Default repository, `fjo/cmd/repo/set_default.rs`, `clone.rs`, `fork.rs` | a checkout's remotes, `remote.<name>.fjo-resolved` | `set-default`, `clone`, `fork --clone`, `fork --remote` | git, the repository context |
| Errors, output | none | classification, rendering | |
| Other commands, `fjo/cmd/` | none | runs, workflows, labels, repositories | `Client` |
| Generated client and models | none | | |

What makes each correct, and what could break it:

- **Credentials.** A session that the server has rotated must not be lost: its
  new document must be durable before it is used, and the next run must find a
  document that the server still renews. Dangers: the process dies between the
  server's rotation and the save; one of two writes fails; another invocation
  overwrites the file with an older copy; a keyring call that was given up on
  lands later; "no token" is reported although a store has one.
- **`hosts.toml`.** No reference dangles, whichever of two writers wins and
  wherever one of them stops; a command changes what it is about and nothing else.
- **Pagination.** Nothing lost, nothing twice, whatever headers a proxy drops and
  whatever page size the server clamps to; an end, and an error where the end is
  not a real one.
- **Dispatch.** What may not be repeated is carried out once, what may be repeated
  is tried as often as it was allowed to be.
- **Capabilities.** However many tasks ask a cold cache and however many of them are
  dropped, one probe; what the slot claims is what the instance said; the error
  path of the probe does not wait for the probe.
- **Browser callback.** The browser's answer is heard whoever else connects, as long as those
  before it are done by the deadline, and the wait ends whoever keeps connecting.
- **Atomic replacement.** Old file or new, never a torn one and never a readable
  token, whatever is killed and wherever the power goes.
- **Checkout, sync, merge.** The user's commits and edits survive unless given up by
  name. Dangers: `FETCH_HEAD` belongs to every program that fetches; the work tree
  and `HEAD` are looked at before a fetch that takes its time.
- **Releases.** No two assets of one name and no success with a file missing,
  whatever an earlier command left half done. Dangers: a request that was given up on is carried
  out after all; a listing is out of date when a name is looked up in it; two paths end alike.
- **Fan-out.** Answers come in any order; the report is the one a loop would give.
- **Edits.** What others did in the meantime stays, wherever the API allows it.
- **Pull request creation.** The text the user wrote survives a failure, and running
  the command again does not make a second pull request.
- **Repository context.** One host for one command, however it was decided: the walk that names
  only the host, the walk that names the repository and the client agree. Dangers: the walks
  stop at different records, and flags, environment and records may each name a host.
- **Default repository.** What the user chose, or refused, is what later commands use, and a `fork
  --remote` killed between two git calls can be run again.

`PROJECT.json` lists each hazard at its line with the properties that would catch it.

## Modules

    TokenCustody            abstract: mint, record, use
        ^ refined by
    Session                 one OAuth login, all the invocations that touch it

    HostsFile               = Hosts          hosts.toml with several hosts and accounts
                            + WriteAtomic    write_atomic over inodes, names and a disk,
                                             which refines
                                             AtomicFile: replaced in one step
    Client                  = Dispatch       one request and its retries
                            + Capabilities   the cache, its gate and its probes
                            + Paginate       one walk over a collection
    Porcelain               = LocalGit       checkout, sync and merge
                            + Releases       a release and its assets
                            + WebLogin       the loopback listener
                            + FanOut         mark_each
                            + Edits          sets that others edit too
                            + Drafts         pr create and its recovery file
                            + DefaultRepo    what changes the answers of
                                             RepoContext: the walks over remotes

    MC*                     values and symmetry for TLC
    *Proofs                 theorems

`Session` and `Hosts` look at the same commands from two sides. `Session` keeps
one host and one login and follows the *document*: generations, rotation,
durability, keyring timeouts. `Hosts` keeps several hosts and accounts and follows
the *structure* of the file; tokens there are present or absent. Together they
would be too large to check, and neither set of properties needs the other's state.
Both take a save for one step, which is what `WriteAtomic` shows of it.

The parts of `HostsFile`, of `Client` and of `Porcelain` share no state in the code: they
are levels or families of which one moves at a time, put together so that one run checks
them all. A behaviour picks a part and stays with it; the others rest in one of their initial states.

### Session

A document is its generation number: the server's first is 1. `disk` is the
file on disk, `mem[p]` the copy invocation `p` loaded and its dirty flag,
`keyring` the keyring entry, `honoured` the documents whose refresh token the
server still accepts, `1..lapsed` the documents whose access token is within the
renewal margin, `recorded` (history) the documents that ever became durable, and
`late[p]` a keyring write that `with_timeout` gave up on but whose thread still
runs. `pc[p]` is a point between two effects that another process could see.

| Actions | Code |
|---|---|
| `Load` | `Hosts::load_at`, the head of `Runtime::new` and of each auth command |
| `SearchFound`, `SearchMissing`, `SearchUnavailable`, `SearchExhausted` | one round of the loop in `Credentials::token`, with `set_cached_store` |
| `SaveProbe` | `save_if_dirty` after the search |
| `ServerRotates`, `RefreshRefused`, `AnswerLost`, `TokensReceived` | `refresh_blocking` up to `add_login` |
| `Authorised`, `AuthoriseFails` | `auth login` in the browser, up to the code |
| `StoreToKeyring`, `StoreUnavailable`, `StoreToFile`, `StoreToEnv` | `Credentials::store` |
| `SaveFresh`, `SaveFreshFails`, `SaveActive` | the saves after it |
| `Forget`, `SaveForget`, `SaveRemoved` | `auth logout` |
| `Switch`, `Decline` | `auth switch`; an unanswered or negative prompt |
| `SendRequests`, `Exit`, `Crash` | the rest of the run |
| `LateWriteLands`, `Lapse` | an abandoned keyring thread; time |

The keyring, the token endpoint and time are outside `src/`'s control and are
modelled from how it calls them. A save replaces the whole file atomically, which is what
`write_atomic` does with its rename. A late keyring write can only land while
its process is alive, because the thread dies with it.

`TokenCustody` is what all this is for, in three steps: a document is minted, it
becomes durable, it is used. `Session` implements it with `using` mapped to the
credential of the invocations that are sending requests.

### Hosts

`disk` and each `mem[p].file` are values of the same type: the active host, the
listed hosts, and for each its logins, its active login, the logins with a token in
the file, and the cached store. The operations of `hosts.rs` are operators on such
values (`AddHost`, `RemoveHost`, `AddLogin`, `RemoveLogin`, ...), and the commands
are actions that load, apply operators in the code's order, and save. `auth login`
and `auth logout` save twice, and another command, or death, may come between the
two. Names are numbers because `hosts.toml` is a `BTreeMap`: the successor of a
removed host or login is the first in order. `Search` walks all the stores in one
step, since other processes see none of it until the save; the walk itself, with
a keyring that changes under it, is in `Session`.

### Paginate

One walk: `Paginator`'s four fields, the page to ask for, and the items kept. An item
is its position in the collection. `Fetch` is one round of a driver: the request, the answer (with
or without each of its two headers), `keep` and `advance`. The drivers differ as the
code's do: `ItemStream` follows a `Link` to the page after the one it came
with and stops early when `--limit` is already satisfied; `fjo api --paginate` only
counts. The server clamps `limit`, may ignore `?page`, may sit behind a proxy that
strips both headers always or sometimes, and its collection grows at the end while
the walk is on.

### Dispatch

One request. `attempt`, `phase` and `outcome` are the client's view; `fate[a]` is
what became of each attempt at the server, which the client may never learn: an
attempt is on the wire, carried out, refused before any handler ran, or lost, and it may settle after
the client has given up on it. `MayRepeat`, `Retried`, `Backoff` and `Waits` are
`RetryPolicy`. Jitter is a percentage, as in the code; the three values checked are
its extremes and none.

### Capabilities

`slot` is `Inner::caps`, `gate` the holder of `Inner::caps_gate`. A caller that finds no
fresh entry waits for the gate (`Ask`), looks at the slot again (`Acquire`) and, if it
still must, sends the two requests of a probe; each is answered, refused or lost
(`Replies`, `Lose`), and when both are (`Join`) the entry is written and the gate opens
(`Finish`). `Drop` is a future that is no longer polled, anywhere. `missed` remembers which
answers the probe behind the slot lost. `Replies` for a refusal goes through `error_from`, which
reads the slot while the gate is held.

### WriteAtomic

An inode has a document, how much of it is written, whether that is on disk, and a
mode; `entry` is the directory, `durable` the inode that the directory on disk names.
`Open`, `WriteSome`, `WriteRest`, `Sync`, `Rename` are the system calls of `write_atomic`,
each of which can fail (a full disk) or be the last (`Stops`); process ids are reused, so a
leftover may be opened again. `Flush` writes the directory back, `PowerCut` loses what was
not, `Read` opens the current file and keeps it. `AtomicFile` has the content of
the name and what is safe on disk: `Replace`, `Flush`, `PowerCut`.

### LocalGit

A history is the set of changes in it, so "is an ancestor" is "is a subset", and a
fetch returns any history of changes the server has had: every force-push is in it. `cmd`
is the running command and its next git call. `Look`, `FetchHead`, `Compare`, `FetchBranch`, `SwitchTo`
are `pr checkout`; `SyncCurrent`, `FastForward`, `CannotFastForward`, `Status`, `ResetHard`
are `repo sync`; `Prune` is the local half of `pr merge -d`. Between any two, the user
edits, commits and switches (what he touches is in `late`), another program fetches, and
a colleague pushes.

### Releases

`assets` are what the server has, each with an id and a name. A file is a path and `BaseName` its last
component, so that two files of a command may want one name: nothing in the code compares them. Each
request may be refused (`Abandon`), be carried out and its answer lost (`Proceeds`), or, an upload, be given up on
and carried out at any time later (`Stray`, `Land`), and the next command starts from whatever is
there. `Listed` is what `upload_one` is told of the release, all of a command's files the same; `DeleteOld` and
`Send` are `upload_one`, `Open` and `WriteStream` the download of one asset. `doubtful` (history) has the names
that a command gave to two files and those that a late upload took.

### WebLogin

Time goes in steps of `PER_CONNECTION`. A connection is what it carries (our reply, a refusal, a reply
of another login, a query, a favicon, nothing) and how long it takes to; one is read at a time
(`Accept`, `Pass`, `Handle`), and the deadline is looked at between them (`Late`). `PER_CONNECTION` limits each read and not
the connection, so one may take as many steps as a request has reads. `BindFailed` is a socket
that cannot be had, and any error of `accept` but the two that are tried again. `inTime` marks our
browser's reply when everything ahead of it can be read before the deadline.

### FanOut

`futures::stream::buffered(Width)`: `started` requests are out, `taken` results were handed
on in the order of the listing, `answer` and `marked` are what came back and what was
done, in any order. `buffered` fills its window before it yields, which is `Room`.

### Edits

`held` is the item's two sets, `since` what others changed since the command read it.
Labels of an issue and topics are put on and taken off by requests of their own;
assignees, everything of a pull request, and a webhook's events are read, changed (`Mutate`) and sent
whole (`Sends`, `Patch`). `Overwritten` in the property names exactly these.

### Drafts

`saved` is the recovery file of the repository, `pulls` and `opened` what the server has,
`advice` what the last failing run printed. `SaveDraft` can fail or tear the file, `LookUp` covers
everything between it and the request, `Accepted` and `Rejected` the API call or the
AGit push (a lost answer is a rejection that may have been carried out), `Locate` the reading back
of what a push made. The server, external, takes one pull request from a branch and treats a push to a known
topic as an update, as `agit.rs` says.

### RepoContext and DefaultRepo

`RepoContext` has the state that resolution reads (`inTree`, `remotes`, `resolved`) and the
functions of `core/context/mod.rs` over it, under their names: `host_from_remotes`,
`host_from_pref`, `explicit_or`, `resolve_repo`, with `client_host` of `runtime.rs`. A loop over the ordered
remotes that returns at the first record it can use is `First` of the set of such remotes: `Answers`
for the host, `Decided` for the repository. They differ, as the code's do: a slug without a host decides the
repository and not the host, and a `base` that names nothing is passed over.

A URL is the host and the repository it names, or `Junk` (a path, an SSH alias, a path that is no
repository's); a remote has a fetch and a push URL. `--host`, `$FJO_HOST` and `$FORGEJO_HOST` are one preference, `$FJO_REPO` and
`$FORGEJO_REPO` one reference, and the active host is configured.

`DefaultRepo` adds what writes that state. `SetDefault`, `PickNone` and `unset` are `set-default`
(`record` inside it); `clone` with `AddParent` are `repo clone` and `repo fork --clone`; `rewire_here` with
`AddFork` is `repo fork --remote`, whose rename takes the record of the remote with it, as git's does;
`RecordUpstream` ends both, and `Stop` is a git call that fails or a kill between two. `RemoteAdd`, `SetUrl`,
`RemoteRemove`, `HandRecord` and `NewTree` are the user with git. `want` (history) is what was last recorded, until its remote is
changed by hand; `halfway` is the source of the wiring that was killed last, while nothing has changed since.
The parent is on the server of the fork, `--upstream-name` and `--remote-name` differ, and a clone's own remote is called
`Origin`, as `clone.defaultRemoteName` allows.

## Runs

| Run | Shows | Bounds |
|---|---|---|
| `session_solo` | With one invocation at a time and no faults, over all commands and all five ways to choose a store: a listed session always leads the next run to a document the server renews (`SessionRenewable`), a search that finds nothing is right (`NoneMeansNowhere`), a logout that completes leaves nothing (`LogoutLeavesNothing`). | 5 documents: a login, renewals into each store in turn, and another login |
| `session_keyring` | With a keyring that works, two invocations that interleave freely, and saves of `hosts.toml` that fail: the session is still never lost, and the document never gets into the file (`FileOnlyIfChosen`). | 2 slots, 3 documents: a login, and two racing renewals |
| `session_faults` | With every fault and two invocations: no access token is used before its document is durable, `Session` implements `TokenCustody`, and an invocation that was started ends, prompts aside (`EveryRunFinishes`). | 2 slots, 2 documents; the safety part is proved for all |
| `session_stale_snapshot` | *Violation.* See findings. | |
| `hosts` | Two commands overwrite each other's file, die, or fail to save between their two saves: no dangling reference, a plain command resolves a host and a login, a login that saved takes effect (`LoginTakesEffect`), and each command leaves the tokens and the listing of other logins alone (`OthersUntouched`). Below them, `write_atomic` implements `AtomicFile`, no reader sees a torn file (`NoTornRead`), and no byte of a token is ever readable by others (`NeverExposed`). | 2 slots; 2 hosts, one with 2 accounts: an active one and another, a last one and not the last. 2 writers and 2 process ids, so that one is reused; 4 inodes: a temporary file each, the file, and one it replaced that the disk or a reader still holds. This level is proved for all |
| `hosts_shared_cache` | *Violation.* See findings. | |
| `paginate_from_page` | *Violation.* See findings. | |
| `client` | A `POST` or `PATCH` is carried out at most once and, if it ended rate limited, not at all; a body that cannot be read again is sent once; an idempotent request uses all its attempts. One probe per time to live (`OneProbePerTTL`), a slot that says what is served (`WhatIsServedIsLearnt`), every call returns (`EveryCallReturns`). A walk loses nothing (`NothingLost`), repeats nothing (`EachOnce`), respects `--limit` over all pages, ends (`Ends`), and in an error rather than a truncated success (`RunawayIsAnError`). | 4 attempts, so that two lie between the first and the last; 3 tasks, so that one waits behind another's probe while a third is dropped; a clock in which two entries lapse; 5 pages, 5 items, a clamp of 2, page sizes below, at and above it, limits of 0 and in mid-page |
| `porcelain` | No change of the user's is lost (`WorkKept`); two assets of a name only from files of one name or a late upload (`OneAssetPerName`), and no hollow success (`OkMeansDone`); a reply that can be read in time is heard (`ReplyHeard`) and the wait ends (`WaitEnds`); the first failure is the one reported (`ReportsTheFirst`); others' edits stay (`OthersKept`); running `pr create` again is safe (`RerunSafe`). The two walks name one server (`SameServer`) and a slug is sent where it was resolved (`OneServer`); a choice stands (`ChoiceKept`), an opt-out stops every guess (`OptOutStops`), a killed `fork --remote` can be run again (`WiringResumes`). | see below |
| `drafts_dry_run` | *Violation.* See findings. | |
| `default_repo_ignored` | *Violation.* See findings. | |
| `release_twins` | *Violation.* See findings. | |

`porcelain`'s bounds: 2 branches and 2 changes (one the server has and one it has not; the branch of
the command and the one the user goes to); 3 files, two of them of one name, and 3 asset ids (a name
attached, its successor and another's), with 1 upload that lands late; a wait of 3 steps, connections of up to 2 and a backlog of 2 (one may be read past the
deadline with another behind it); 5 items with a window of 3 (it fills, moves and drains); 2 labels and
1 assignee; 2 texts and 2 branches to write for; 3 remotes, two of equal score and one above them, 2 configured
hosts, neither the default of the other, and 1 that is not (a path on disk answers as it does), 2 repositories, one
remote fetched from one repository and pushed to another, and one record by hand that names a host. All but `WaitEnds` is proved for every value.

Two slots suffice for the races: a slot is reused, so any number of invocations follow one
another, and each race here is one invocation's stale copy against one write of
another. `MaxGen`, `MaxItems`, `MaxPages`, `MaxTime`, `MaxReads`, `Backlog` and `Strays` are bounds of
the models; `MaxPages` is also the code's own ceiling (10000), which the checks make small
enough to meet. Slots are interchangeable, and symmetry is used only in runs without
liveness. Deadlock is checked except in `Client`, `Paginate`, `Porcelain` and `Releases`, whose walk,
request or command ends, and in `DefaultRepo`, where a user need do nothing more.

What the runs do **not** claim: `session_solo` and `session_keyring` are the two
situations in which a session is safe. With the file store and two processes it is
not (`session_stale_snapshot`). With a keyring that fails now and then, a search is not reliable: after one
failure the fallback store is cached and `read_order` does not go back to the keyring, so
`NoneMeansNowhere` is claimed of a keyring that works or does not. `OneServer` leaves out references outside `-R` that
name a host while `--host` names another, and `ChoiceKept` leaves out choices behind a record that the walk
reaches before (`default_repo_ignored`); `OneAssetPerName` leaves out the names in `doubtful` (`release_twins`); `ReplyHeard` promises
nothing for a reply behind another reply or behind a connection that is read beyond the deadline, nor when `accept` fails; `OthersKept` does not judge
what a set that is sent whole overwrites, although `pr edit` need not send its labels so. What each of these
leaves out, the code does: see the findings. Adoption of a host from the
environment is not exercised by `hosts` (`EnvTokens` is `FALSE` there), only by the proofs. Faults are
named in the constant `Faults` so that a configuration says which it assumes.

### Fairness

- `Session!FairSpec` has weak fairness of `Advance(p)` for each slot: the operating
  system schedules a started process, and every call it makes returns (keyring calls
  have `with_timeout`; the token endpoint answers, refuses or fails). No fairness for
  `Prompt`, `Load`, `Lapse`, `Crash` or `LateWriteLands`: nobody need answer a prompt, and
  `EveryRunFinishes` leaves out invocations that sit at one.
- `Client!FairClientSpec` has strong fairness of `Acquire(t)`, because tokio's mutex serves its queue in
  order and another task can take the gate in between but not for ever, and weak fairness of the
  replies, of `Finish` and of a driver's round, a loop that only awaits its request. None for `Drop`, `Lose`,
  `Tick`, `AdminEdits`, `Grow` or `FetchFails`.
- `Porcelain!FairPorcelainSpec` has weak fairness of the login's progress, the listener's poll,
  its clock and the exchange: `wait` is a loop over a non-blocking `accept` and a sleep. None for whoever connects.
- `Dispatch` has none, and no progress is claimed for a request: no caller sets a
  request timeout, so a server that accepts and never answers holds a command for ever.

## Findings

Six disagreements with what the repository says of itself, each a run that TLC
violates:

1. `session_stale_snapshot` (`core/config/hosts.rs` 441): `save` replaces the file by a copy
   loaded earlier. A run that renewed the session in between has its document
   overwritten by the spent one.
2. `hosts_shared_cache` (`core/config/hosts.rs` 526): the store that answered is cached per
   host and tokens are per login, so where one account's token is hides another's.
3. `paginate_from_page` (`fjo/api/paginate.rs` 56): the walk counts pages from 1
   although the endpoint may carry a `page` of its own, and delivers page 2 twice.
4. `drafts_dry_run` (`fjo/cmd/pr/create.rs` 220): a run that failed told the user that its title and body were
   saved and to run again with `--recover`; `--recover --dry-run`, which sends nothing, ends well and
   removes the file.
5. `default_repo_ignored` (`fjo/cmd/repo/set_default.rs` 155): a choice is recorded and choices on other remotes are left in
   place. A clone of a fork has `base` on `upstream`, where the walk stops, so `set-default me/fork` after it says
   "recorded" and nothing changes until `--unset`.
6. `release_twins` (`fjo/cmd/release.rs` 427): a file's asset is named after the last component of its path, and no two files of a
   command are compared. `create` looks nothing up, `upload` (628) looks every file up in the listing from before the first, so
   `release create v1 linux/fjo mac/fjo` ends well with two assets `fjo`, "worse than a failed upload" (675).
   `--clobber` then replaces one of them.

Three more, which have no run of their own:

- `core/context/mod.rs` 278: the module says (33-36) that `--host` wins everywhere and that a host inside
  `$FJO_REPO` that disagrees is an error. It is taken, and so is one inside a record (374), while the client is built for `--host`:
  `OneServer` leaves it out.
- `fjo/cmd/auth/callback.rs` 130: `PER_CONNECTION` is said (30-32) to be how long one connection may take, so that a
  slow one cannot "consume the whole deadline". It is the timeout of each read, and a connection has up to 8 KiB of them: one that
  sends a byte every second uses up the wait, and the browser's reply behind it is not heard. `Connection` has these, and
  `ReplyHeard` leaves out what is behind one.
- `fjo/cmd/pr/state.rs` 18-20: adding and removing is there so that an edit does not discard labels "somebody else
  added between your read and your write". `pr edit` reads the labels before it opens the editor and sends the whole set
  after, so a label added in between is lost; `issue edit` uses the label endpoints and loses none. `Overwritten` leaves it out.

Seen while reading, and left to the list of hazards: `issue create` saves its draft only when the
request itself fails, not when a label or a milestone cannot be looked up after the editor was closed.
`set-default` with `--host` forgets that
host when it records a slug that no remote names. `pr merge -d` deletes the local branch with `-D`, unpushed commits
included: `WorkKept` counts that branch as given up.

## Proofs

All with TLAPS, for every value of the constants that satisfies the module's named
assumption (`SessionAssumption`, `HostsAssumption`, `PaginateAssumption`, `DispatchAssumption`,
`CapabilitiesAssumption`, `WriteAtomicAssumption`, `LocalGitAssumption`, `ReleasesAssumption`,
`FanOutAssumption`, `WebLoginAssumption`, `ContextAssumption`, `WiringAssumption`, `UserAssumption`). The assumptions say only which sets the parameters come from, that "nobody",
"none" and the like are not among the things they stand beside, (Hosts) that names are
positive numbers, and (RepoContext) that the order of remotes has a first in every set. The parts of `HostsFile`, `Client` and `Porcelain` are proved about one by one, as their own
specifications; `Levels`, `SideBySide` and `Families` show that the composed specification, which is the one the runs
check, implements each of them, so that what is proved of a part holds of the whole (`HostsSafe`, `ProbesSafe`, `PorcelainSafe`).
Five theorems about `Session` and one about `Paginate` have hypotheses of their own, because what they say is not true without them; they are named below.

**`SessionProofs`.** `Typing` is `Spec => []TypeOK`, action by action. `Custodial` is
`Spec => []NewTokenRecordedBeforeUse`. It is not inductive alone: that what a run
holds was durable needs to be known from the moment it was *found*, and what it finds
comes out of the keyring or of a copy of the file. The strengthening says that every
document in the keyring, in the file and in hand was recorded, and that a copy holds
a document that was recorded or the fresh one that its own save is about to record.
`Refinement` is `Spec => ImplementsCustody`: each step mints, records, uses, stops or stutters.

`OnlyIfChosen` is `Spec => []FileOnlyIfChosen` where the keyring works (`"keyring"` is no fault; when it fails, the code
falls back to the file and says so). The invariant `FileFree` says it of every copy, and that no
invocation has chosen the file or is about to write to it.

The other four say when a session is safe, in the two situations that the findings leave.

- *Invocations follow one another* (`Proc` has one slot, which is reused; every command and every
  choice of a store). `RenewableAlone` (`[]SessionRenewable`, no faults), `NowhereAlone` (`[]NoneMeansNowhere`) and
  `LogoutAlone` (`LogoutLeavesNothing`), the last two also where the server's answers are lost. The invariant `Solo` has one clause
  for each phase of an invocation (`Phase`). Between invocations the cached store of a listed login has a document the server honours
  (`Usable`), so a search finds it in the first store it asks, and without a listed login no store has one
  (`Bare`). While an invocation replaces the document, the old one is spent and the new one is in hand, so that `Usable` is
  suspended until the save (`Replacing`). What a search has still to ask is a clause of its own (`Asking`), because one that is restricted to
  a store says nothing about the others.
- *Any number side by side*, of any commands but `logout`, where nobody chooses the file, the keyring works and saves of `hosts.toml` may fail
  (`Shared`). `RenewableTogether` (`[]SessionRenewable`). Of two renewals the server refuses one, so the danger is
  in between: the keyring's document is spent while its successor is in the hands of one invocation. `SharedInv` says that then some
  invocation is about to put a document there (`Renewable`), that it is honoured and nobody else has or could spend it (`Apart`), and that no copy, however
  old, sends a search elsewhere than to the keyring (`Keeps`, `Steered`). `logout` is left out because a copy from before it
  lists the login again when it is saved, with nothing in the keyring; a crash, because it takes the successor with it.

`Bounded` and `Forward` are the safety half of `EveryRunFinishes`, with no hypotheses. What an invocation has left (`Left`: its
place in the order of a command's steps, and the stores it has still to search) is at most 13, is lowered by every step it takes
and is left alone by everybody else's. So no refusal, fallback or failed save leads back to a step already taken; what is left to TLC is
that a step that is possible is taken, and that one always is.

**`HostsProofs`.** `Typing`, `Integrity` (`[]DiskIntegral`) and `Resolvable`
(`[]AlwaysResolvable`). The file on disk is sound because every copy that may still
be saved is: the invariant adds, for each label of a command, what its copy satisfies
there. Between `add_host` and the first save of a login the copy has a host without a
login, and is not saved; after `forget`, the login is listed and has no token; the
host of a run was adopted and is unsaved, or it is listed. That a removed host or login
is replaced by one that exists needs the first element of a non-empty set of names,
which comes from the well-foundedness of `<` on the naturals.

Two are about steps. `LoginSteers` (`Spec => LoginTakesEffect`): after its first save a login's copy has its host active and its
login current (`Chosen`), and no other command touches that copy. `OthersKept` (`Spec => OthersUntouched`) compares a copy
before and after each operation of `config/hosts.rs` (`AgreeWith`, `AgreeChoices`, `AgreeLogins`). Only `remove_host` drops a whole
entry, and it is there that the invariant is needed: the file is sound, so a host without a login has no token either
(`AgreeHostGone`).

**`DispatchProofs`.** `Typing`, `Once`, `Untouched`, `SentOnce`, `AllAttempts` and `Capped`, for every number
of attempts. The invariant says that for a method that is not idempotent every
attempt before the current one was *refused*, since only a 429 lets another follow; that
later attempts are unsent; and that a body that cannot be read again never gets past attempt 1.

**`PaginateProofs`.** `Complete` (`[]NothingLost`), `Limits`, `Runaway`, `Typing`, and
`Delivery` (`[]EachOnce`) for walks that start at the first page; the finding above is why
that is assumed. The invariant compares the items received with the boundary of the pages
seen, `pages * Size`: they are equal, or a page came short, and then the items received
include everything that was there at the start. So whichever of the five reasons ends the walk, and
whatever the headers said, nothing is missing.

**`CapabilitiesProofs`.** `OneProbe` needs that the holder of the gate, and only it, probes, and that while it
does the slot is expired: time only moves on and nobody else writes. From the same invariant,
`GateOpens`: a gate that is held has its prober, so a call that is dropped or refused does not lock it. `Learnt` needs that what a probe in flight
has heard so far is true of what the instance serves.

**`WriteAtomicProofs`.** The invariant says that no two names mean one file, that a temporary file is not what
the disk or a reader holds, that a process owns the file of its id (so a leftover that is opened again
is nobody's), how far each has got, and that what the name, the disk and readers hold is whole and
synced. `Untorn`, `Unexposed` and `Replacement` (`WriteSpec => ImplementsAtomicFile`) follow: only `Rename`,
`Flush` and `PowerCut` are seen from outside, and they map to the abstract steps.

**`CheckoutProofs`.** `GitKeepsWork` (`GitSpec => WorkKept`). A step can take away a branch's changes only where git is
told to force, so the invariant carries, to each such step, what was established before it: that all the
branch has was compared with what the server had, but for what the user did since (`Compared`); that `HEAD` is
the branch that was named or one the user went to (`OnBranch`); that the work tree was clean but for his later
edits (`Clean`); and that `-f` was typed (`Forced`).

In the same module, of `DefaultRepo`: `WalksAgree` and `SentWhereResolved` need no more than the types, because
every record that answers for the host also decides the repository (`AnswersAreDecided`), so the first that decides is the first
that answers, or says a slug alone and takes its host from the other walk. `ChoicesKept`, `OptOutsStop` and
`WiringsResume` need what commands leave behind (`ContextInv`): a recorded remote exists and its record
says or names the slug (`Slugged`), an opt-out is before every other record (`OptedOut`), and while a wiring is under way
`upstream` names its source, alone if it was alone (`Wired`, `Lone`).

**`CommandsProofs`.** `FirstFailure`: the requests out are those whose result was taken and at most `Width` more
(`Window`). `TwinsHaveACause` and `SuccessMeansDone`: of a name that is not doubtful, what is attached
is in the listing while a file of that name is to do (`Seen`), and nothing is by the time it is sent (`Cleared`); the files
done are attached under the ids that were sent, and no id in use is given again (`UploadedSoFar`, `NewIds`). `EditsKeepOthers`: what was read differs from what
is held only by what others did since (`ReadIsRecent`). `RerunsSafe`: a pull request is known by its branch, and
nothing after the request fails with advice.

In the same module, of `WebLogin`: `ReplyIsHeard` (`[]ReplyHeard`). While `accept` does not fail, a reply that came in time waits behind connections of which
none is a reply and which can be read before the deadline, is being read, or was heard (`Heard`, `Coming`). What is ahead is counted in
steps, `ReadSteps`, of which each accepted connection takes its own (`ReadStepsTail`, by a bijection) and a later one none
(`ReadStepsAppend`). `WaitIsBounded`: the wait outlasts its deadline by less than one connection, whoever keeps
connecting. That is the safety half of `WaitEnds`, and shows that the model's bound on the clock stops nothing.

That every variable keeps its type is a theorem of each of these modules (`Typing`, `GitTyping`, `ContextTyped`, or
a part of the invariant), so the runs do not check it again; nor that no wait passes its cap (`Capped`).

Only model-checked:

- liveness (`EveryRunFinishes`, `Ends`, `EveryCallReturns`, `WaitEnds`), which needs fairness and `ENABLED`;
- the violations: a counterexample is TLC's to find.

## Not modelled

Abstracted inside the modelled parts: token and document contents, URL
normalisation, parsing of `Link`, `Retry-After`, request lines and TOML, wording and logging.
Refresh is attempted once a run, as in the code. Several requests of one command are atomic at
the server each, and one whose answer was lost is carried out before the next is sent, not after; uploads may
come later (`Releases`), and any one request does in `Dispatch`, but a deletion or a creation in `Releases` and the requests
of the other commands do not. A download goes into one directory, under the asset's name: `-O` and stdout are left out.

Not modelled, and why:

- redirects and the scope of a credential in `transport.rs`, downloads and decoding in the HTTP client: no
  state outlives the request;
- the classification of errors: a pure function of strings, which unit
  tests enumerate; a model would repeat the table;
- the login attached to a resolved context, the parsing of remote URLs and references, and the request that makes a
  fork or adopts one that exists;
- `run watch`, a poll without a bound or a state, and commands that are one request and its table;
- titles, bodies, milestones and the other fields of edits, worktrees, submodules and branch
  configuration of a checkout, server-side sync, editing releases and their tags: left out of the
  modules that have the rest of their command;
- rendering and output; the generated client and models, and the generator, whose correctness is a matter of the
  Swagger document.
