------------------------------- MODULE Session -------------------------------
(***************************************************************************)
(* One OAuth login on one host, and every invocation of fjo that reads,    *)
(* renews, replaces or removes it.  The credential is one document (access *)
(* token, refresh token, expiry) kept in the OS keyring or in hosts.toml;  *)
(* a document is abstracted to its generation number, 1 being the first    *)
(* one the server minted.  Invocations are separate operating system       *)
(* processes: they share the file, the keyring and the server and hold no  *)
(* lock, so every step of one may fall between two steps of another.       *)
(***************************************************************************)
EXTENDS Integers, Sequences, FiniteSets

CONSTANTS
  Proc,        \* slots in which invocations run; a slot is reused
  MaxGen,      \* bound: how many documents the server mints
  Commands,    \* which commands are run, a subset of AllCommands
  Choices,     \* values of FJO_CREDENTIAL_STORE / --insecure-storage met
  EnvTokens,   \* is FJO_TOKEN exported: a subset of BOOLEAN
  Preference,  \* config.toml credential_store
  Invalidate,  \* the instance's INVALIDATE_REFRESH_TOKENS
  Faults       \* which things may go wrong, a subset of AllFaults

Store == {"keyring", "file", "env"}
AllCommands == {"run", "git", "status", "login", "logout", "switch"}
AllChoices == Store \union {"none", "insecure"}
AllFaults == {"keyring", "late", "save", "answer", "crash"}

ASSUME SessionAssumption ==
  /\ MaxGen \in Nat
  /\ Commands \subseteq AllCommands
  /\ Choices \subseteq AllChoices
  /\ EnvTokens \subseteq BOOLEAN
  /\ Preference \in {"keyring", "file"}
  /\ Invalidate \in BOOLEAN
  /\ Faults \subseteq AllFaults

VARIABLES
  disk,      \* hosts.toml: is the login listed, the cached store, its token
  keyring,   \* the document in the OS keyring, 0 if it has none
  minted,    \* how many documents the server has minted
  honoured,  \* documents whose refresh token the server still accepts
  lapsed,    \* documents 1..lapsed have an access token within SKEW of expiry
  recorded,  \* history: documents that reached the keyring or the file
  pc,        \* where each invocation is
  job,       \* the command of each invocation and how it was called
  mem,       \* the Hosts value each invocation loaded, with its dirty flag
  todo,      \* stores an invocation has still to search
  held,      \* the credential an invocation has in hand
  fresh,     \* the document the server just sent it
  late       \* what its abandoned keyring thread has still to write

server == <<minted, honoured, lapsed>>
vars == <<disk, keyring, minted, honoured, lapsed, recorded,
          pc, job, mem, todo, held, fresh, late>>

Gen == 1..MaxGen
NoDoc == 0
EnvToken == -1      \* a token from the environment: never renewed or stored
NoWrite == -1       \* no keyring write outstanding

HostsFile == [listed : BOOLEAN, cached : Store \union {"unset"}, doc : 0..MaxGen]
NoHosts == [listed |-> FALSE, cached |-> "unset", doc |-> NoDoc]
NoJob == [cmd |-> "run", choice |-> "none", env |-> FALSE]

PC == {"idle", "search", "probed", "refresh", "answer", "store", "storeFile",
       "saveFresh", "saveActive", "ready", "use", "authorise",
       "confirm", "saveForget", "saveRemoved", "choose"}

TypeOK ==
  /\ disk \in HostsFile
  /\ keyring \in 0..MaxGen
  /\ minted \in 0..MaxGen
  /\ honoured \subseteq Gen
  /\ lapsed \in 0..MaxGen
  /\ recorded \subseteq Gen
  /\ pc \in [Proc -> PC]
  /\ job \in [Proc -> [cmd : AllCommands, choice : AllChoices, env : BOOLEAN]]
  /\ mem \in [Proc -> [file : HostsFile, dirty : BOOLEAN]]
  /\ todo \in [Proc -> Seq(Store)]
  /\ held \in [Proc -> -1..MaxGen]
  /\ fresh \in [Proc -> 0..MaxGen]
  /\ late \in [Proc -> -1..MaxGen]

Init ==
  /\ disk = NoHosts
  /\ keyring = NoDoc
  /\ minted = 0
  /\ honoured = {}
  /\ lapsed = 0
  /\ recorded = {}
  /\ pc = [p \in Proc |-> "idle"]
  /\ job = [p \in Proc |-> NoJob]
  /\ mem = [p \in Proc |-> [file |-> NoHosts, dirty |-> FALSE]]
  /\ todo = [p \in Proc |-> <<>>]
  /\ held = [p \in Proc |-> NoDoc]
  /\ fresh = [p \in Proc |-> NoDoc]
  /\ late = [p \in Proc |-> NoWrite]

-----------------------------------------------------------------------------
(* Helpers shared by the commands. *)

\* Mutant: the cached head is the only store asked.
ReadOrderHeadOnly(choice, cached) ==
  IF choice \in Store THEN <<choice>>
  ELSE IF cached \in {"unset", "file"} THEN <<"keyring", "env">>
  ELSE <<cached>>

(* Credentials::read_order: one forced store, or the chain keyring, file,  *)
(* env from the cached store (before any probe: the preference) on.        *)
Chain(first) ==
  CASE first = "keyring" -> <<"keyring", "file", "env">>
    [] first = "file"    -> <<"file", "env">>
    [] first = "env"     -> <<"env">>

ReadOrder(choice, cached) ==
  IF choice \in Store THEN <<choice>>
  ELSE IF choice = "insecure" THEN Chain("file")
  ELSE Chain(IF cached = "unset" THEN Preference ELSE cached)

(* What store k answers invocation p: the file is the loaded snapshot. *)
Content(p, k) ==
  CASE k = "keyring" -> keyring
    [] k = "file"    -> mem[p].file.doc
    [] k = "env"     -> IF job[p].env THEN EnvToken ELSE NoDoc

(* Hosts::set_cached_store, which the search skips for a store that was    *)
(* chosen for this run, and which does nothing for an unknown host.        *)
Cached(p, k) ==
  IF job[p].choice = "none" /\ mem[p].file.listed /\ mem[p].file.cached # k
  THEN [file |-> [mem[p].file EXCEPT !.cached = k], dirty |-> TRUE]
  ELSE mem[p]

\* Mutant: an ordinary login falls back to the file without asking.
TargetFile(choice) == IF choice = "none" THEN "file" ELSE "keyring"

(* Where Credentials::store puts a token: never the cached store. *)
Target(choice) ==
  CASE choice = "none"     -> Preference
    [] choice = "insecure" -> "file"
    [] OTHER               -> choice

Durable(docs) == recorded' = recorded \union (docs \ {NoDoc})

(* Hosts::save replaces the whole file by this invocation's snapshot. *)
WriteFile(p, file) == disk' = file /\ Durable({file.doc})

(* The end of an invocation; a keyring thread it abandoned dies with it. *)
Finish(p) ==
  /\ pc' = [pc EXCEPT ![p] = "idle"]
  /\ job' = [job EXCEPT ![p] = NoJob]
  /\ mem' = [mem EXCEPT ![p] = [file |-> NoHosts, dirty |-> FALSE]]
  /\ todo' = [todo EXCEPT ![p] = <<>>]
  /\ held' = [held EXCEPT ![p] = NoDoc]
  /\ fresh' = [fresh EXCEPT ![p] = NoDoc]
  /\ late' = [late EXCEPT ![p] = NoWrite]

Goto(p, label) == pc' = [pc EXCEPT ![p] = label]
Clean(p) == mem' = [mem EXCEPT ![p].dirty = FALSE]

-----------------------------------------------------------------------------
(* Loading, and the search for a credential. *)

(* Every command begins by reading hosts.toml.  A command that needs the   *)
(* login and does not find it stops there, which is no step.  With no      *)
(* login recorded a run asks the environment alone.                        *)
Load(p) ==
  /\ pc[p] = "idle"
  /\ \E c \in Commands, choice \in Choices, env \in EnvTokens :
       /\ disk.listed \/ c \in {"run", "login"}
       /\ choice = "insecure" => c = "login"
       /\ job' = [job EXCEPT ![p] = [cmd |-> c, choice |-> choice, env |-> env]]
       /\ Goto(p, CASE c = "login"  -> "authorise"
                    [] c = "logout" -> "confirm"
                    [] c = "switch" -> "choose"
                    [] OTHER        -> "search")
       /\ todo' = [todo EXCEPT ![p] =
                     IF c \notin {"run", "git", "status"} THEN <<>>
                     ELSE IF disk.listed THEN ReadOrder(choice, disk.cached)
                     ELSE <<"env">>]
  /\ mem' = [mem EXCEPT ![p] = [file |-> disk, dirty |-> FALSE]]
  /\ UNCHANGED <<disk, keyring, server, recorded, held, fresh, late>>

(* The first store that has a token ends the search and is remembered. *)
SearchFound(p) ==
  /\ pc[p] = "search" /\ todo[p] # <<>>
  /\ Content(p, Head(todo[p])) # NoDoc
  /\ held' = [held EXCEPT ![p] = Content(p, Head(todo[p]))]
  /\ mem' = [mem EXCEPT ![p] = Cached(p, Head(todo[p]))]
  /\ todo' = [todo EXCEPT ![p] = <<>>]
  /\ Goto(p, "probed")
  /\ UNCHANGED <<disk, keyring, server, recorded, job, fresh, late>>

(* An empty keyring is remembered too: it works, it has nothing. *)
SearchMissing(p) ==
  /\ pc[p] = "search" /\ todo[p] # <<>>
  /\ Content(p, Head(todo[p])) = NoDoc
  /\ mem' = [mem EXCEPT ![p] = IF Head(todo[p]) = "keyring"
                               THEN Cached(p, "keyring") ELSE @]
  /\ todo' = [todo EXCEPT ![p] = Tail(@)]
  /\ UNCHANGED <<disk, keyring, server, recorded, pc, job, held, fresh, late>>

(* A keyring that is absent, locked or too slow: the fallback is cached. *)
SearchUnavailable(p) ==
  /\ "keyring" \in Faults
  /\ pc[p] = "search" /\ todo[p] # <<>> /\ Head(todo[p]) = "keyring"
  /\ mem' = [mem EXCEPT ![p] = Cached(p, "file")]
  /\ todo' = [todo EXCEPT ![p] = Tail(@)]
  /\ UNCHANGED <<disk, keyring, server, recorded, pc, job, held, fresh, late>>

SearchExhausted(p) ==
  /\ pc[p] = "search" /\ todo[p] = <<>>
  /\ Goto(p, "probed")
  /\ UNCHANGED <<disk, keyring, server, recorded, job, mem, todo, held, fresh, late>>

(* After the search: a session about to lapse is renewed, by the commands  *)
(* that renew at all, when there is a login to file the result under.      *)
AfterProbe(p) ==
  IF job[p].cmd # "status" /\ mem[p].file.listed /\ held[p] \in 1..lapsed
  THEN "refresh" ELSE "ready"

(* Saving what the search learned.  The git helper does not; for the       *)
(* others a failure is only a warning.                                     *)
SaveProbe(p) ==
  /\ pc[p] = "probed"
  /\ Goto(p, AfterProbe(p))
  /\ \/ /\ job[p].cmd # "git" /\ mem[p].dirty
        /\ WriteFile(p, mem[p].file)
        /\ Clean(p)
     \/ /\ job[p].cmd = "git" \/ ~mem[p].dirty \/ "save" \in Faults
        /\ UNCHANGED <<disk, recorded, mem>>
  /\ UNCHANGED <<keyring, server, job, todo, held, fresh, late>>

-----------------------------------------------------------------------------
(* The instance's token endpoint (external), and the calls on it. *)

(* A new document; on an instance that invalidates, its predecessor dies. *)
Mint(p, spent) ==
  /\ minted < MaxGen
  /\ minted' = minted + 1
  /\ honoured' = (honoured \union {minted + 1})
                   \ (IF Invalidate THEN {spent} ELSE {})
  /\ fresh' = [fresh EXCEPT ![p] = minted + 1]
  /\ UNCHANGED lapsed

(* The server rotates the session; its answer is still on the way. *)
ServerRotates(p) ==
  /\ pc[p] = "refresh" /\ held[p] \in honoured
  /\ Mint(p, held[p])
  /\ Goto(p, "answer")
  /\ UNCHANGED <<disk, keyring, recorded, job, mem, todo, held, late>>

\* Mutant: a refused renewal is asked for again.
RefreshRefusedRetried(p) ==
  /\ pc[p] = "refresh"
  /\ held[p] \notin honoured \/ minted = MaxGen \/ "answer" \in Faults
  /\ UNCHANGED vars

(* The refresh token is dead, or the request never got there, or the bound *)
(* on minting is reached: a warning, and the old token is used.            *)
RefreshRefused(p) ==
  /\ pc[p] = "refresh"
  /\ held[p] \notin honoured \/ minted = MaxGen \/ "answer" \in Faults
  /\ Goto(p, "ready")
  /\ UNCHANGED <<disk, keyring, server, recorded, job, mem, todo, held, fresh, late>>

(* The browser login: the code is exchanged for the first document. *)
Authorised(p) ==
  /\ pc[p] = "authorise"
  /\ Mint(p, NoDoc)
  /\ Goto(p, "answer")
  /\ UNCHANGED <<disk, keyring, recorded, job, mem, todo, held, late>>

(* Denied, wrong state, no code, or the callback's deadline: nothing was   *)
(* saved and nothing is.                                                   *)
AuthoriseFails(p) ==
  /\ pc[p] = "authorise"
  /\ Finish(p)
  /\ UNCHANGED <<disk, keyring, server, recorded>>

(* add_login: the login is listed before its secret is written.            *)
TokensReceived(p) ==
  /\ pc[p] = "answer"
  /\ mem' = [mem EXCEPT ![p] = [file |-> [@.file EXCEPT !.listed = TRUE],
                                dirty |-> TRUE]]
  /\ Goto(p, "store")
  /\ UNCHANGED <<disk, keyring, server, recorded, job, todo, held, fresh, late>>

(* What a failure between minting and recording leads to: a login ends     *)
(* with an error, a renewal is dropped in favour of the old token.         *)
AbandonFresh(p) ==
  IF job[p].cmd = "login" THEN Finish(p)
  ELSE /\ Goto(p, "ready")
       /\ fresh' = [fresh EXCEPT ![p] = NoDoc]
       /\ UNCHANGED <<job, mem, todo, held, late>>

(* The answer is lost, or (login) the account check that follows it fails. *)
AnswerLost(p) ==
  /\ "answer" \in Faults
  /\ pc[p] = "answer"
  /\ AbandonFresh(p)
  /\ UNCHANGED <<disk, keyring, server, recorded>>

-----------------------------------------------------------------------------
(* Credentials::store, then the caller's own save. *)

\* Mutant: the session that was just spent is written back.
StoreToKeyringOld(p) ==
  /\ pc[p] = "store" /\ Target(job[p].choice) = "keyring"
  /\ keyring' = IF held[p] \in Gen THEN held[p] ELSE fresh[p]
  /\ Durable({keyring'})
  /\ mem' = [mem EXCEPT ![p].file.cached = "keyring"]
  /\ Goto(p, "saveFresh")
  /\ UNCHANGED <<disk, server, job, todo, held, fresh, late>>

StoreToKeyring(p) ==
  /\ pc[p] = "store" /\ Target(job[p].choice) = "keyring"
  /\ keyring' = fresh[p]
  /\ Durable({fresh[p]})
  /\ mem' = [mem EXCEPT ![p].file.cached = "keyring"]
  /\ Goto(p, "saveFresh")
  /\ UNCHANGED <<disk, server, job, todo, held, fresh, late>>

(* The keyring fails or times out; after a timeout its thread lives on and *)
(* may still write.  Either way the file is used instead.                  *)
StoreUnavailable(p) ==
  /\ "keyring" \in Faults
  /\ pc[p] = "store" /\ Target(job[p].choice) = "keyring"
  /\ \/ UNCHANGED late
     \/ "late" \in Faults /\ late' = [late EXCEPT ![p] = fresh[p]]
  /\ Goto(p, "storeFile")
  /\ UNCHANGED <<disk, keyring, server, recorded, job, mem, todo, held, fresh>>

StoreToFile(p) ==
  /\ \/ pc[p] = "storeFile"
     \/ pc[p] = "store" /\ Target(job[p].choice) = "file"
  /\ mem' = [mem EXCEPT ![p].file.cached = "file", ![p].file.doc = fresh[p]]
  /\ Goto(p, "saveFresh")
  /\ UNCHANGED <<disk, keyring, server, recorded, job, todo, held, fresh, late>>

(* A token cannot be stored in the environment. *)
StoreToEnv(p) ==
  /\ pc[p] = "store" /\ Target(job[p].choice) = "env"
  /\ AbandonFresh(p)
  /\ UNCHANGED <<disk, keyring, server, recorded>>

(* Persist first, and only then take the new document in hand. *)
SaveFresh(p) ==
  /\ pc[p] = "saveFresh"
  /\ WriteFile(p, mem[p].file)
  /\ Clean(p)
  /\ IF job[p].cmd = "login"
     THEN Goto(p, "saveActive") /\ UNCHANGED held
     ELSE Goto(p, "ready") /\ held' = [held EXCEPT ![p] = fresh[p]]
  /\ UNCHANGED <<keyring, server, job, todo, fresh, late>>

\* Mutant: the new access token is used although its document was not saved.
SaveFreshFailsUsed(p) ==
  /\ "save" \in Faults
  /\ pc[p] = "saveFresh"
  /\ Goto(p, "ready") /\ held' = [held EXCEPT ![p] = fresh[p]]
  /\ UNCHANGED <<disk, keyring, server, recorded, job, mem, todo, fresh, late>>

(* A failed write means the refresh did not happen. *)
SaveFreshFails(p) ==
  /\ "save" \in Faults
  /\ pc[p] = "saveFresh"
  /\ AbandonFresh(p)
  /\ UNCHANGED <<disk, keyring, server, recorded>>

(* A login's second save, after set_active and select_login. *)
SaveActive(p) ==
  /\ pc[p] = "saveActive"
  /\ Finish(p)
  /\ \/ WriteFile(p, mem[p].file)
     \/ "save" \in Faults /\ UNCHANGED <<disk, recorded>>
  /\ UNCHANGED <<keyring, server>>

-----------------------------------------------------------------------------
(* auth logout and auth switch; both may sit at a prompt. *)

\* Mutant: only the store the last search used is cleared.
ForgetCached(p) ==
  /\ pc[p] = "confirm"
  /\ mem' = [mem EXCEPT ![p] = [file |-> [@.file EXCEPT !.doc = NoDoc],
                                dirty |-> TRUE]]
  /\ keyring' = IF mem[p].file.cached = "file" THEN keyring ELSE NoDoc
  /\ Goto(p, "saveForget")
  /\ UNCHANGED <<disk, server, recorded, job, todo, held, fresh, late>>

(* Credentials::forget after the question: the keyring entry is deleted,   *)
(* or that fails with a warning, and the file's token is cleared.          *)
Forget(p) ==
  /\ pc[p] = "confirm"
  /\ mem' = [mem EXCEPT ![p] = [file |-> [@.file EXCEPT !.doc = NoDoc],
                                dirty |-> TRUE]]
  /\ \/ keyring' = NoDoc /\ UNCHANGED late
     \/ "keyring" \in Faults /\ UNCHANGED <<keyring, late>>
     \/ /\ {"keyring", "late"} \subseteq Faults
        /\ late' = [late EXCEPT ![p] = NoDoc]
        /\ UNCHANGED keyring
  /\ Goto(p, "saveForget")
  /\ UNCHANGED <<disk, server, recorded, job, todo, held, fresh>>

(* The first save, and remove_login (remove_host for the last login).      *)
SaveForget(p) ==
  /\ pc[p] = "saveForget"
  /\ \/ /\ WriteFile(p, mem[p].file)
        /\ mem' = [mem EXCEPT ![p] = [file |-> NoHosts, dirty |-> TRUE]]
        /\ Goto(p, "saveRemoved")
        /\ UNCHANGED <<job, todo, held, fresh, late>>
     \/ /\ "save" \in Faults
        /\ Finish(p)
        /\ UNCHANGED <<disk, recorded>>
  /\ UNCHANGED <<keyring, server>>

SaveRemoved(p) ==
  /\ pc[p] = "saveRemoved"
  /\ Finish(p)
  /\ \/ WriteFile(p, mem[p].file)
     \/ "save" \in Faults /\ UNCHANGED <<disk, recorded>>
  /\ UNCHANGED <<keyring, server>>

(* The chosen host and login are made active in the snapshot loaded before *)
(* the prompts, and that snapshot is saved.                                *)
Switch(p) ==
  /\ pc[p] = "choose"
  /\ Finish(p)
  /\ \/ WriteFile(p, mem[p].file)
     \/ "save" \in Faults /\ UNCHANGED <<disk, recorded>>
  /\ UNCHANGED <<keyring, server>>

(* The user answers no, or nothing that was offered. *)
Decline(p) ==
  /\ pc[p] \in {"confirm", "choose"}
  /\ Finish(p)
  /\ UNCHANGED <<disk, keyring, server, recorded>>

-----------------------------------------------------------------------------
(* Using the credential, ending, dying, and the world outside. *)

SendRequests(p) ==
  /\ pc[p] = "ready"
  /\ Goto(p, "use")
  /\ UNCHANGED <<disk, keyring, server, recorded, job, mem, todo, held, fresh, late>>

Exit(p) ==
  /\ pc[p] = "use"
  /\ Finish(p)
  /\ UNCHANGED <<disk, keyring, server, recorded>>

Crash(p) ==
  /\ "crash" \in Faults
  /\ pc[p] # "idle"
  /\ Finish(p)
  /\ UNCHANGED <<disk, keyring, server, recorded>>

(* The keyring call that was given up on goes through after all. *)
LateWriteLands(p) ==
  /\ late[p] # NoWrite
  /\ keyring' = late[p]
  /\ Durable({late[p]})
  /\ late' = [late EXCEPT ![p] = NoWrite]
  /\ UNCHANGED <<disk, server, pc, job, mem, todo, held, fresh>>

(* Time passes: older documents lapse first. *)
Lapse ==
  /\ lapsed' \in (lapsed + 1)..minted
  /\ UNCHANGED <<disk, keyring, minted, honoured, recorded,
                 pc, job, mem, todo, held, fresh, late>>

Search(p) == SearchFound(p) \/ SearchMissing(p) \/ SearchUnavailable(p) \/ SearchExhausted(p)
Renew(p) == SaveProbe(p) \/ ServerRotates(p) \/ RefreshRefused(p)
Login(p) == Authorised(p) \/ AuthoriseFails(p) \/ SaveActive(p)
Keep(p) == \/ TokensReceived(p) \/ AnswerLost(p)
           \/ StoreToKeyring(p) \/ StoreUnavailable(p) \/ StoreToFile(p) \/ StoreToEnv(p)
           \/ SaveFresh(p) \/ SaveFreshFails(p)
Prompt(p) == Forget(p) \/ Switch(p) \/ Decline(p)
Logout(p) == SaveForget(p) \/ SaveRemoved(p)

(* The steps an invocation takes without waiting for anyone. *)
Advance(p) == Search(p) \/ Renew(p) \/ Login(p) \/ Keep(p) \/ Logout(p)
              \/ SendRequests(p) \/ Exit(p)

Next == \/ \E p \in Proc : Load(p) \/ Advance(p) \/ Prompt(p)
                           \/ Crash(p) \/ LateWriteLands(p)
        \/ Lapse

Spec == Init /\ [][Next]_vars

(* A started invocation is scheduled; nobody has to answer a prompt. *)
FairSpec == Spec /\ \A p \in Proc : WF_vars(Advance(p))

-----------------------------------------------------------------------------
(* Properties. *)

(* The credential an ordinary run started now would find (secrets.rs       *)
(* token, FJO_CREDENTIAL_STORE unset and nothing exported).                *)
NextFound ==
  LET order == ReadOrder("none", disk.cached)
      hits == {i \in DOMAIN order : \/ order[i] = "keyring" /\ keyring # NoDoc
                                    \/ order[i] = "file" /\ disk.doc # NoDoc}
      first == order[CHOOSE i \in hits : \A j \in hits : i <= j]
  IN  CASE hits = {} -> NoDoc
        [] hits # {} /\ first = "keyring" -> keyring
        [] hits # {} /\ first = "file" -> disk.doc

(* oauth_refresh.rs 15-21: no invocation uses an access token whose        *)
(* refresh token never reached the keyring or hosts.toml, whatever failed, *)
(* crashed or ran beside it.                                               *)
NewTokenRecordedBeforeUse ==
  \A p \in Proc : pc[p] \in {"ready", "use"} => held[p] \in recorded \union {NoDoc, EnvToken}

(* The same as a refinement: a document is minted, becomes durable, and is *)
(* used, in that order (TokenCustody).                                     *)
Custody == INSTANCE TokenCustody
             WITH Outside <- {NoDoc, EnvToken},
                  using <- [p \in Proc |-> IF pc[p] = "use" THEN held[p] ELSE -2]
ImplementsCustody == Custody!Spec

(* docs/oauth.md 65: sessions renew themselves.  When nothing is running,  *)
(* a listed login leads the next run to a document the server will renew.  *)
SessionRenewable ==
  (\A p \in Proc : pc[p] = "idle") /\ disk.listed => NextFound \in honoured

(* secrets.rs 679: a search that was not restricted to one store, met no   *)
(* fault (which would have dirtied its snapshot) and finds nothing means   *)
(* there is no token anywhere.                                             *)
NoneMeansNowhere ==
  \A p \in Proc :
    pc[p] = "search" /\ todo[p] = <<>> /\ job[p].choice = "none" /\ ~mem[p].dirty
      => keyring = NoDoc /\ disk.doc = NoDoc

(* README.md 154: a token is in hosts.toml only if file storage was        *)
(* explicitly chosen.                                                      *)
FileOnlyIfChosen ==
  Preference = "keyring" /\ Choices \subseteq {"none", "keyring"} => disk.doc = NoDoc

(* logout.rs 43-54, secrets.rs 794-808: a logout that completes leaves the *)
(* document in neither store and the login unlisted.                       *)
LogoutLeavesNothing ==
  [][\A p \in Proc : pc[p] = "saveRemoved" /\ pc'[p] = "idle"
       => keyring' = NoDoc /\ disk'.doc = NoDoc /\ ~disk'.listed]_vars

(* No combination of refusals, lost answers, failed saves and keyring      *)
(* faults leaves an invocation stuck, prompts aside.                       *)
EveryRunFinishes ==
  \A p \in Proc : pc[p] \notin {"idle", "confirm", "choose"} ~> pc[p] = "idle"
=============================================================================
