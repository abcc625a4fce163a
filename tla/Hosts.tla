-------------------------------- MODULE Hosts --------------------------------
(***************************************************************************)
(* hosts.toml: which hosts and logins are configured, which are active,    *)
(* where each host's tokens were last found and which logins have a token  *)
(* in the file itself; the OS keyring beside it; and the commands that     *)
(* load the file, change their copy and save that copy whole.  Commands    *)
(* are separate processes without a lock.  Names are numbers, in the order *)
(* the file is sorted in.  Tokens are personal access tokens here: what    *)
(* renewing a session adds is in Session.                                  *)
(***************************************************************************)
EXTENDS Integers, FiniteSets

CONSTANTS
  Host, User,   \* names, positive numbers
  Accounts,     \* the <<host, user>> pairs that are accounts of an instance
  Proc,         \* slots in which commands run
  Commands,     \* which commands are run, a subset of AllCommands
  Choices,      \* how a login may be asked to store: "none", "insecure"
  EnvTokens,    \* is a token exported to a run: a subset of BOOLEAN
  Faults        \* which things may go wrong, a subset of AllFaults

None == 0
AllCommands == {"run", "login", "logout", "switch"}
AllFaults == {"keyring", "save", "crash"}
Stores == {"unset", "keyring", "file", "env"}

ASSUME HostsAssumption ==
  /\ Host \subseteq Nat \ {None}
  /\ User \subseteq Nat \ {None}
  /\ Accounts \subseteq Host \X User
  /\ Commands \subseteq AllCommands
  /\ Choices \subseteq {"none", "insecure"}
  /\ EnvTokens \subseteq BOOLEAN
  /\ Faults \subseteq AllFaults

VARIABLES
  disk,      \* the file
  keyring,   \* <<host, user>> pairs with a keyring entry
  pc, job,   \* where each command is; its name, host, login and options
  mem        \* the copy each command loaded, with its dirty flag

vars == <<disk, keyring, pc, job, mem>>

Entries == [logins  : SUBSET User,
            current : User \union {None},   \* active_login
            filed   : SUBSET User,          \* logins with a token in the file
            store   : Stores]               \* credential_store, the cache
Files == [active : Host \union {None}, hosts : SUBSET Host, entry : [Host -> Entries]]

NoEntry == [logins |-> {}, current |-> None, filed |-> {}, store |-> "unset"]
Empty == [active |-> None, hosts |-> {}, entry |-> [h \in Host |-> NoEntry]]

Labels == {"idle", "verify", "saveLogin", "saveActive", "confirm",
           "saveForget", "saveRemoved", "choose", "search", "found", "missing"}
Jobs == [cmd : AllCommands, host : Host \union {None}, user : User \union {None},
         env : BOOLEAN]
NoJob == [cmd |-> "run", host |-> None, user |-> None, env |-> FALSE]

TypeOK ==
  /\ disk \in Files
  /\ keyring \subseteq Host \X User
  /\ pc \in [Proc -> Labels]
  /\ job \in [Proc -> Jobs]
  /\ mem \in [Proc -> [file : Files, dirty : BOOLEAN]]

Init ==
  /\ disk = Empty
  /\ keyring = {}
  /\ pc = [p \in Proc |-> "idle"]
  /\ job = [p \in Proc |-> NoJob]
  /\ mem = [p \in Proc |-> [file |-> Empty, dirty |-> FALSE]]

-----------------------------------------------------------------------------
(* The operations of config/hosts.rs on a file f. *)

First(S) == IF S = {} THEN None ELSE CHOOSE x \in S : \A y \in S : x <= y

(* The entry of one host, changed. *)
With(f, h, e) == [f EXCEPT !.entry[h] = e]

AddHost(f, h) ==
  [f EXCEPT !.hosts = @ \union {h}, !.active = IF @ = None THEN h ELSE @]

\* Mutant: a host without logins stays listed.
RemoveHostKept(f, h) == With(f, h, NoEntry)

\* Mutant: the active host is left pointing at the host that is gone.
RemoveHostOnly(f, h) == With([f EXCEPT !.hosts = @ \ {h}], h, NoEntry)

RemoveHost(f, h) ==
  With([f EXCEPT !.hosts = @ \ {h},
                 !.active = IF @ = h THEN First(f.hosts \ {h}) ELSE @], h, NoEntry)

SetActive(f, h) == IF h \in f.hosts THEN [f EXCEPT !.active = h] ELSE f

SetCachedStore(f, h, k) == With(f, h, [f.entry[h] EXCEPT !.store = k])

(* The file store: a token beside its login. *)
SetToken(f, h, u) == With(f, h, [f.entry[h] EXCEPT !.filed = @ \union {u}])
ClearToken(f, h, u) == With(f, h, [f.entry[h] EXCEPT !.filed = @ \ {u}])

AddLogin(f, h, u) ==
  With(f, h, [f.entry[h] EXCEPT !.logins = @ \union {u},
                                !.current = IF @ = None THEN u ELSE @])

\* Mutant: the host's other logins go as well.
RemoveLoginAll(f, h, u) == With(f, h, NoEntry)

RemoveLogin(f, h, u) ==
  With(f, h, [f.entry[h] EXCEPT
                !.logins = @ \ {u}, !.filed = @ \ {u},
                !.current = IF @ = u THEN First(f.entry[h].logins \ {u}) ELSE @])

\* Mutant: a login that is already listed keeps the place it has.
SelectLoginOnce(f, h, u) ==
  IF f.entry[h].current = None THEN With(f, h, [f.entry[h] EXCEPT !.current = u]) ELSE f

SelectLogin(f, h, u) ==
  IF u \in f.entry[h].logins THEN With(f, h, [f.entry[h] EXCEPT !.current = u]) ELSE f

Only(S) == IF \E x \in S : S = {x} THEN First(S) ELSE None

(* None where the code answers with an error. *)
ResolveHost(f, given) ==
  IF given # None THEN IF given \in f.hosts THEN given ELSE None
  ELSE IF f.active \in f.hosts THEN f.active ELSE Only(f.hosts)

ResolveLogin(f, h, requested) ==
  IF requested # None THEN IF requested \in f.entry[h].logins THEN requested ELSE None
  ELSE IF f.entry[h].current \in f.entry[h].logins THEN f.entry[h].current
  ELSE Only(f.entry[h].logins)

(* adopt_env_host: an entry for a host nobody logged in to, for this run.  *)
Adopt(f, h) ==
  [file |-> SetCachedStore([f EXCEPT !.hosts = @ \union {h}], h, "env"), dirty |-> FALSE]

-----------------------------------------------------------------------------
(* What the commands share. *)

Goto(p, label) == pc' = [pc EXCEPT ![p] = label]
Hold(p, f) == mem' = [mem EXCEPT ![p] = [file |-> f, dirty |-> TRUE]]
Loaded(p) == mem' = [mem EXCEPT ![p] = [file |-> disk, dirty |-> FALSE]]

Finish(p) ==
  /\ pc' = [pc EXCEPT ![p] = "idle"]
  /\ job' = [job EXCEPT ![p] = NoJob]
  /\ mem' = [mem EXCEPT ![p] = [file |-> Empty, dirty |-> FALSE]]

(* The whole copy replaces the file.  A save that fails ends the command.  *)
Write(p) == disk' = mem[p].file
SaveFails(p) == "save" \in Faults /\ Finish(p) /\ UNCHANGED disk
SaveLast(p) == (Finish(p) /\ Write(p)) \/ SaveFails(p)

Start(p, cmd, h, u, env) ==
  /\ pc[p] = "idle" /\ cmd \in Commands
  /\ job' = [job EXCEPT ![p] = [cmd |-> cmd, host |-> h, user |-> u, env |-> env]]
  /\ UNCHANGED <<disk, keyring>>

-----------------------------------------------------------------------------
(* auth login *)

(* The host is added to the copy; then a token is asked for and the server *)
(* says whose it is, which is when the login's name is known.              *)
LoadLogin(p) ==
  /\ \E h \in Host : Start(p, "login", h, None, FALSE) /\ Hold(p, AddHost(disk, h))
  /\ Goto(p, "verify")

(* No token, or the server does not accept it: nothing has been saved. *)
VerifyFails(p) == pc[p] = "verify" /\ Finish(p) /\ UNCHANGED <<disk, keyring>>

(* Credentials::store for the account u the server named. *)
StoreSecret(p) ==
  /\ pc[p] = "verify"
  /\ \E u \in User, choice \in Choices, up \in {TRUE} \union {"keyring" \notin Faults} :
       LET h == job[p].host
           inKeyring == choice = "none" /\ up
           listed == AddLogin(mem[p].file, h, u)
       IN  /\ <<h, u>> \in Accounts
           /\ job' = [job EXCEPT ![p].user = u]
           /\ keyring' = IF inKeyring THEN keyring \union {<<h, u>>} ELSE keyring
           /\ Hold(p, IF inKeyring THEN SetCachedStore(listed, h, "keyring")
                      ELSE SetCachedStore(SetToken(listed, h, u), h, "file"))
  /\ Goto(p, "saveLogin")
  /\ UNCHANGED disk

(* Saved once by store, then made active. *)
SaveLogin(p) ==
  /\ pc[p] = "saveLogin"
  /\ \/ /\ Write(p)
        /\ LET h == job[p].host
           IN  Hold(p, SelectLogin(SetActive(mem[p].file, h), h, job[p].user))
        /\ Goto(p, "saveActive")
        /\ UNCHANGED job
     \/ SaveFails(p)
  /\ UNCHANGED keyring

SaveActive(p) == pc[p] = "saveActive" /\ SaveLast(p) /\ UNCHANGED keyring

-----------------------------------------------------------------------------
(* auth logout *)

LoadLogout(p) ==
  /\ \E hGiven \in Host \union {None}, uGiven \in User \union {None} :
       LET h == ResolveHost(disk, hGiven)
           u == ResolveLogin(disk, h, uGiven)
       IN  h # None /\ u # None /\ Start(p, "logout", h, u, FALSE)
  /\ Loaded(p)
  /\ Goto(p, "confirm")

(* Credentials::forget, once the question is answered. *)
Forget(p) ==
  /\ pc[p] = "confirm"
  /\ LET h == job[p].host
         u == job[p].user
     IN  /\ \/ keyring' = keyring \ {<<h, u>>}
            \/ "keyring" \in Faults /\ UNCHANGED keyring
         /\ Hold(p, ClearToken(mem[p].file, h, u))
  /\ Goto(p, "saveForget")
  /\ UNCHANGED <<disk, job>>

(* Its save; then the login is removed, with its host if it was the last.  *)
SaveForget(p) ==
  /\ pc[p] = "saveForget"
  /\ \/ /\ Write(p)
        /\ LET h == job[p].host
               rest == RemoveLogin(mem[p].file, h, job[p].user)
           IN  Hold(p, IF rest.entry[h].logins = {} THEN RemoveHost(rest, h) ELSE rest)
        /\ Goto(p, "saveRemoved")
        /\ UNCHANGED job
     \/ SaveFails(p)
  /\ UNCHANGED keyring

SaveRemoved(p) == pc[p] = "saveRemoved" /\ SaveLast(p) /\ UNCHANGED keyring

-----------------------------------------------------------------------------
(* auth switch *)

LoadSwitch(p) ==
  /\ disk.hosts # {}
  /\ Start(p, "switch", None, None, FALSE)
  /\ Loaded(p)
  /\ Goto(p, "choose")

(* Host and login are picked out of the copy, by flag or at two prompts.   *)
Switch(p) ==
  /\ pc[p] = "choose"
  /\ Finish(p)
  /\ \/ \E h \in mem[p].file.hosts : \E u \in mem[p].file.entry[h].logins :
          disk' = SelectLogin(SetActive(mem[p].file, h), h, u)
     \/ "save" \in Faults /\ UNCHANGED disk
  /\ UNCHANGED keyring

Decline(p) == pc[p] \in {"confirm", "choose"} /\ Finish(p) /\ UNCHANGED <<disk, keyring>>

-----------------------------------------------------------------------------
(* Every other command: Runtime::new *)

(* A host that is named, unknown and comes with an exported token is       *)
(* adopted.  Without a login only the environment is asked.                *)
LoadRun(p) ==
  \E hGiven \in Host \union {None}, uGiven \in User \union {None}, env \in EnvTokens :
    LET copy == IF hGiven \in Host \ disk.hosts /\ env
                THEN Adopt(disk, hGiven) ELSE [file |-> disk, dirty |-> FALSE]
        h == ResolveHost(copy.file, hGiven)
        u == ResolveLogin(copy.file, h, uGiven)
    IN  /\ h # None
        /\ uGiven # None => u # None
        /\ Start(p, "run", h, u, env)
        /\ mem' = [mem EXCEPT ![p] = copy]
        /\ Goto(p, IF u # None THEN "search" ELSE IF env THEN "found" ELSE "missing")

(* The stores asked, from the cached one on (config.toml says nothing). *)
ReadOrder(cached) ==
  CASE cached \in {"unset", "keyring"} -> {"keyring", "file", "env"}
    [] cached = "file" -> {"file", "env"}
    [] cached = "env"  -> {"env"}

(* Credentials::token: the first store with a token, and what is cached.   *)
Search(p) ==
  /\ pc[p] = "search"
  /\ \E up \in {TRUE} \union {"keyring" \notin Faults} :
       LET h == job[p].host
           e == mem[p].file.entry[h]
           order == ReadOrder(e.store)
           has == {k \in order :
                     \/ k = "keyring" /\ up /\ <<h, job[p].user>> \in keyring
                     \/ k = "file" /\ job[p].user \in e.filed
                     \/ k = "env" /\ job[p].env}
           best == CASE "keyring" \in has -> "keyring"
                     [] "keyring" \notin has /\ "file" \in has -> "file"
                     [] has = {"env"} -> "env"
                     [] has = {} -> IF "keyring" \notin order THEN e.store
                                    ELSE IF up THEN "keyring" ELSE "file"
       IN  /\ mem' = IF best = e.store THEN mem
                     ELSE [mem EXCEPT ![p] = [file |-> SetCachedStore(@.file, h, best),
                                              dirty |-> TRUE]]
           /\ Goto(p, IF has = {} THEN "missing" ELSE "found")
  /\ UNCHANGED <<disk, keyring, job>>

(* What was learned is saved; a failure there is only a warning. *)
SaveProbe(p) ==
  /\ pc[p] \in {"found", "missing"}
  /\ Finish(p)
  /\ \/ mem[p].dirty /\ Write(p)
     \/ ~mem[p].dirty /\ UNCHANGED disk
     \/ "save" \in Faults /\ UNCHANGED disk
  /\ UNCHANGED keyring

Crash(p) == "crash" \in Faults /\ pc[p] # "idle" /\ Finish(p) /\ UNCHANGED <<disk, keyring>>

Load(p) == LoadLogin(p) \/ LoadLogout(p) \/ LoadSwitch(p) \/ LoadRun(p)
Prompt(p) == VerifyFails(p) \/ StoreSecret(p) \/ Forget(p) \/ Switch(p) \/ Decline(p)
Advance(p) == \/ SaveLogin(p) \/ SaveActive(p) \/ SaveForget(p) \/ SaveRemoved(p)
              \/ Search(p) \/ SaveProbe(p)

Next == \E p \in Proc : Load(p) \/ Prompt(p) \/ Advance(p) \/ Crash(p)
Spec == Init /\ [][Next]_vars

-----------------------------------------------------------------------------
(* Properties. *)

(* The entry of a listed host: it has a login, the active login is one of  *)
(* them, and tokens in the file belong to logins of the file.              *)
EntrySound(f, h) ==
  /\ f.entry[h].logins # {}
  /\ f.entry[h].current \in f.entry[h].logins
  /\ f.entry[h].filed \subseteq f.entry[h].logins

(* No reference in a file dangles. *)
Integral(f) ==
  /\ f.active = None => f.hosts = {}
  /\ f.active # None => f.active \in f.hosts
  /\ \A h \in f.hosts : EntrySound(f, h)
  /\ \A h \in Host \ f.hosts : f.entry[h] = NoEntry

(* hosts.rs 496-498, 583-585, 676-697: whatever commands run side by side, *)
(* fail or die between their saves, hosts.toml never names an active host  *)
(* that is gone, an active login that is gone, or a host without logins.   *)
DiskIntegral == Integral(disk)

(* logout.rs 46-49: so while any host is left a plain command resolves a   *)
(* host, and on every listed host a login.                                 *)
AlwaysResolvable ==
  /\ disk.hosts # {} => ResolveHost(disk, None) # None
  /\ \A h \in disk.hosts : ResolveLogin(disk, h, None) # None

(* secrets.rs 679: when a search for a login comes back with nothing, no   *)
(* store holds a token of that login.                                      *)
SearchComplete ==
  \A p \in Proc : pc[p] = "missing" /\ job[p].user # None =>
    /\ <<job[p].host, job[p].user>> \notin keyring
    /\ job[p].user \notin mem[p].file.entry[job[p].host].filed

(* login.rs 167-169: after the second save of a login a plain command runs *)
(* as the login it chose, as far as the file goes; the first one already   *)
(* listed it.                                                              *)
LoginTakesEffect ==
  [][\A p \in Proc : pc[p] = "saveActive" /\ pc'[p] = "idle" /\ disk' # disk =>
       /\ ResolveHost(disk', None) = job[p].host
       /\ ResolveLogin(disk', job[p].host, None) = job[p].user]_vars

(* Two files agree on one login and its token. *)
Agree(f, g, h, u) ==
  /\ u \in f.entry[h].filed <=> u \in g.entry[h].filed
  /\ u \in f.entry[h].logins <=> u \in g.entry[h].logins

Concerned(p) == {<<job[p].host, job[p].user>>, <<job[p].host, job'[p].user>>}

(* hosts.rs 542-601, secrets.rs 745-808: a step of a command changes the   *)
(* login it is about and the token of no other, in the keyring, in its     *)
(* copy of the file and in what it saves.                                  *)
OthersUntouched ==
  [][\A p \in Proc, h \in Host, u \in User :
       pc[p] # "idle" /\ pc'[p] # pc[p] /\ <<h, u>> \notin Concerned(p) =>
         /\ <<h, u>> \in keyring <=> <<h, u>> \in keyring'
         /\ disk' # disk => Agree(mem[p].file, disk', h, u)
         /\ pc'[p] # "idle" => Agree(mem[p].file, mem'[p].file, h, u)]_vars
=============================================================================
