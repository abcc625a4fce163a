------------------------------ MODULE HostsProofs ------------------------------
(***************************************************************************)
(* For any hosts, accounts, number of commands and faults: hosts.toml has  *)
(* no dangling reference and no host without a login, whatever commands    *)
(* run side by side and wherever they die; a login that saved its choice   *)
(* is the one a plain command then runs as; and a command leaves every     *)
(* other login's token alone.  The invariant says of every copy a command  *)
(* may still save what is to hold of the file.                             *)
(***************************************************************************)
EXTENDS HostsFile, WellFoundedInduction, TLAPS

(* The first of the remaining names is one of them. *)
LEMMA FirstIn ==
  ASSUME NEW S, S \subseteq Nat, S # {}
  PROVE  First(S) \in S
  <1> DEFINE R == {ss \in Nat \X Nat : ss[1] < ss[2]}
  <1>1. PICK x \in S : \A y \in S : ~ (<<y, x>> \in R)
    <2>1. IsWellFoundedOn(R, Nat)
      BY NatLessThanWellFounded DEF OpToRel
    <2> HIDE DEF R
    <2> QED BY <2>1, WFMin
  <1>2. \A y \in S : x <= y
    <2> TAKE y \in S
    <2>1. x \in Nat /\ y \in Nat
      OBVIOUS
    <2>2. <<y, x>> \in R <=> y < x
      BY <2>1
    <2> QED BY <1>1, <2>1, <2>2
  <1> QED BY <1>2 DEF First


(* A login with its host just added: all is in order, but the host may have no login yet. *)
HostAdded(f, h) ==
  /\ f.active \in f.hosts
  /\ h \in f.hosts
  /\ \A g \in f.hosts \ {h} : EntrySound(f, g)
  /\ EntrySound(f, h) \/ f.entry[h] = NoEntry
  /\ \A g \in Host \ f.hosts : f.entry[g] = NoEntry

(* A file that does not exist is a sound one. *)
LEMMA EmptyFile == NoEntry \in Entries /\ Empty \in Files /\ Integral(Empty)
  BY DEF NoEntry, Entries, Empty, Files, Stores, Integral, None

(* add_host lists the host, active if none was. *)
LEMMA AddHostAdds ==
  ASSUME NEW f \in Files, NEW h \in Host
  PROVE  /\ AddHost(f, h) \in Files
         /\ Integral(f) => HostAdded(AddHost(f, h), h)
  BY HostsAssumption DEF AddHost, Files, Integral, HostAdded, EntrySound, None, HostsAssumption

(* Replacing the entry of one host. *)
LEMMA WithType ==
  ASSUME NEW f \in Files, NEW h \in Host, NEW e \in Entries
  PROVE  /\ With(f, h, e) \in Files
         /\ With(f, h, e).active = f.active
         /\ With(f, h, e).hosts = f.hosts
         /\ With(f, h, e).entry[h] = e
         /\ \A k \in Host \ {h} : With(f, h, e).entry[k] = f.entry[k]
  BY DEF Files, With

(* The entry of a host is an entry. *)
LEMMA EntryOf == \A f \in Files : \A h \in Host : f.entry[h] \in Entries
  BY DEF Files

(* A sound entry in place of the one there was. *)
LEMMA WithSound ==
  ASSUME NEW f \in Files, NEW h \in Host, NEW e \in Entries, h \in f.hosts,
         e.logins # {}, e.current \in e.logins, e.filed \subseteq e.logins
  PROVE  /\ HostAdded(f, h) => Integral(With(f, h, e))
         /\ Integral(f) => Integral(With(f, h, e))
  <1>1. \A k \in f.hosts : k \in Host
    BY DEF Files
  <1>2. ASSUME HostAdded(f, h) \/ Integral(f)
        PROVE  Integral(With(f, h, e))
    <2>1. f.active \in f.hosts
      BY <1>2 DEF HostAdded, Integral
    <2>2. None \notin Host
      BY HostsAssumption DEF HostsAssumption
    <2>3. /\ With(f, h, e).active = f.active
          /\ With(f, h, e).hosts = f.hosts
          /\ With(f, h, e).entry[h] = e
          /\ \A k \in Host \ {h} : With(f, h, e).entry[k] = f.entry[k]
      BY WithType
    <2> DEFINE w == With(f, h, e)
    <2> HIDE DEF w
    <2>4. \A k \in f.hosts : EntrySound(w, k)
      <3>1. EntrySound(w, h)
        BY <2>3 DEF w, EntrySound
      <3>2. ASSUME NEW k \in f.hosts, k # h PROVE EntrySound(w, k)
        <4>1. EntrySound(f, k)
          BY <1>2, <3>2 DEF HostAdded, Integral
        <4>2. w.entry[k] = f.entry[k]
          BY <1>1, <2>3, <3>2 DEF w
        <4> QED BY <4>1, <4>2 DEF EntrySound
      <3> QED BY <3>1, <3>2
    <2>5. \A k \in Host \ f.hosts : w.entry[k] = NoEntry
      BY <1>2, <2>3 DEF w, HostAdded, Integral
    <2>6. w.active = f.active /\ w.hosts = f.hosts /\ f.active # None
      BY <1>1, <2>1, <2>2, <2>3 DEF w
    <2>7. Integral(w)
      BY <2>1, <2>4, <2>5, <2>6 DEF Integral
    <2> QED BY <2>7 DEF w
  <1> QED BY <1>2

(* add_login gives a host just added its first login, which is active. *)
LEMMA AddLoginSound ==
  ASSUME NEW f \in Files, NEW h \in Host, NEW u \in User
  PROVE  /\ AddLogin(f, h, u) \in Files
         /\ HostAdded(f, h) => Integral(AddLogin(f, h, u))
         /\ AddLogin(f, h, u).hosts = f.hosts
         /\ u \in AddLogin(f, h, u).entry[h].logins
  <1> DEFINE e == [f.entry[h] EXCEPT !.logins = @ \union {u},
                                     !.current = IF @ = None THEN u ELSE @]
  <1>1. /\ e \in Entries
        /\ e.logins = f.entry[h].logins \union {u}
        /\ e.current = IF f.entry[h].current = None THEN u ELSE f.entry[h].current
        /\ e.filed = f.entry[h].filed
    BY EntryOf DEF Entries
  <1>2. HostAdded(f, h) => h \in f.hosts /\ e.current \in e.logins /\ e.filed \subseteq e.logins
    BY <1>1, HostsAssumption DEF HostAdded, EntrySound, NoEntry, HostsAssumption
  <1>3. AddLogin(f, h, u) = With(f, h, e)
    BY DEF AddLogin
  <1> HIDE DEF e
  <1> QED BY <1>1, <1>2, <1>3, WithType, WithSound

(* Login u is listed on host h. *)
Listed(f, h, u) == h \in f.hosts /\ u \in f.entry[h].logins

(* set_cached_store touches no reference. *)
LEMMA CachedStoreSound ==
  ASSUME NEW f \in Files, NEW h \in Host, NEW k \in Stores
  PROVE  /\ SetCachedStore(f, h, k) \in Files
         /\ Integral(f) /\ h \in f.hosts => Integral(SetCachedStore(f, h, k))
         /\ SetCachedStore(f, h, k).hosts = f.hosts
         /\ SetCachedStore(f, h, k).entry[h].logins = f.entry[h].logins
  <1> DEFINE e == [f.entry[h] EXCEPT !.store = k]
  <1>1. /\ e \in Entries
        /\ e.logins = f.entry[h].logins
        /\ e.current = f.entry[h].current
        /\ e.filed = f.entry[h].filed
    BY EntryOf DEF Entries
  <1>2. Integral(f) /\ h \in f.hosts =>
          e.logins # {} /\ e.current \in e.logins /\ e.filed \subseteq e.logins
    BY <1>1 DEF Integral, EntrySound
  <1>3. SetCachedStore(f, h, k) = With(f, h, e)
    BY DEF SetCachedStore
  <1> HIDE DEF e
  <1> QED BY <1>1, <1>2, <1>3, WithType, WithSound

(* A token is written beside a listed login. *)
LEMMA SetTokenSound ==
  ASSUME NEW f \in Files, NEW h \in Host, NEW u \in User
  PROVE  /\ SetToken(f, h, u) \in Files
         /\ Integral(f) /\ Listed(f, h, u) => Integral(SetToken(f, h, u))
         /\ SetToken(f, h, u).hosts = f.hosts
         /\ SetToken(f, h, u).entry[h].logins = f.entry[h].logins
  <1> DEFINE e == [f.entry[h] EXCEPT !.filed = @ \union {u}]
  <1>1. /\ e \in Entries
        /\ e.logins = f.entry[h].logins
        /\ e.current = f.entry[h].current
        /\ e.filed = f.entry[h].filed \union {u}
    BY EntryOf DEF Entries
  <1>2. Integral(f) /\ Listed(f, h, u) =>
          e.logins # {} /\ e.current \in e.logins /\ e.filed \subseteq e.logins
    BY <1>1 DEF Integral, EntrySound, Listed
  <1>3. SetToken(f, h, u) = With(f, h, e)
    BY DEF SetToken
  <1> HIDE DEF e
  <1> QED BY <1>1, <1>2, <1>3, WithType, WithSound DEF Listed

(* Clearing a token leaves its login. *)
LEMMA ClearTokenSound ==
  ASSUME NEW f \in Files, NEW h \in Host, NEW u \in User
  PROVE  /\ ClearToken(f, h, u) \in Files
         /\ Integral(f) /\ h \in f.hosts => Integral(ClearToken(f, h, u))
         /\ ClearToken(f, h, u).hosts = f.hosts
         /\ ClearToken(f, h, u).entry[h].logins = f.entry[h].logins
  <1> DEFINE e == [f.entry[h] EXCEPT !.filed = @ \ {u}]
  <1>1. /\ e \in Entries
        /\ e.logins = f.entry[h].logins
        /\ e.current = f.entry[h].current
        /\ e.filed = f.entry[h].filed \ {u}
    BY EntryOf DEF Entries
  <1>2. Integral(f) /\ h \in f.hosts =>
          e.logins # {} /\ e.current \in e.logins /\ e.filed \subseteq e.logins
    BY <1>1 DEF Integral, EntrySound
  <1>3. ClearToken(f, h, u) = With(f, h, e)
    BY DEF ClearToken
  <1> HIDE DEF e
  <1> QED BY <1>1, <1>2, <1>3, WithType, WithSound

(* set_active names a listed host. *)
LEMMA SetActiveSound ==
  ASSUME NEW f \in Files, NEW h \in f.hosts
  PROVE  /\ SetActive(f, h) \in Files
         /\ Integral(f) => Integral(SetActive(f, h))
         /\ SetActive(f, h).hosts = f.hosts
         /\ SetActive(f, h).entry = f.entry
  <1>1. h \in Host /\ h # None
    BY HostsAssumption DEF Files, HostsAssumption
  <1> QED BY <1>1 DEF SetActive, Files, Integral, EntrySound

(* select_login names a listed login or changes nothing. *)
LEMMA SelectLoginSound ==
  ASSUME NEW f \in Files, NEW h \in Host, NEW u \in User
  PROVE  /\ SelectLogin(f, h, u) \in Files
         /\ Integral(f) /\ h \in f.hosts => Integral(SelectLogin(f, h, u))
         /\ SelectLogin(f, h, u).hosts = f.hosts
  <1> DEFINE e == [f.entry[h] EXCEPT !.current = u]
  <1>1. /\ e \in Entries
        /\ e.logins = f.entry[h].logins
        /\ e.current = u
        /\ e.filed = f.entry[h].filed
    BY EntryOf DEF Entries
  <1>2. Integral(f) /\ Listed(f, h, u) =>
          e.logins # {} /\ e.current \in e.logins /\ e.filed \subseteq e.logins
    BY <1>1 DEF Integral, EntrySound, Listed
  <1>3. SelectLogin(f, h, u) = IF u \in f.entry[h].logins THEN With(f, h, e) ELSE f
    BY DEF SelectLogin
  <1> HIDE DEF e
  <1> QED BY <1>1, <1>2, <1>3, WithType, WithSound DEF Listed

(* Logging a login out: the next takes over, and without one the host goes. *)
LEMMA RemoveLoginSound ==
  ASSUME NEW f \in Files, NEW h \in Host, NEW u \in User
  PROVE  /\ RemoveLogin(f, h, u) \in Files
         /\ RemoveLogin(f, h, u).hosts = f.hosts
         /\ RemoveLogin(f, h, u).active = f.active
         /\ \A k \in Host \ {h} : RemoveLogin(f, h, u).entry[k] = f.entry[k]
         /\ Integral(f) /\ h \in f.hosts /\ RemoveLogin(f, h, u).entry[h].logins # {}
              => Integral(RemoveLogin(f, h, u))
  <1> DEFINE rest == f.entry[h].logins \ {u}
             e == [f.entry[h] EXCEPT
                     !.logins = @ \ {u}, !.filed = @ \ {u},
                     !.current = IF @ = u THEN First(f.entry[h].logins \ {u}) ELSE @]
  <1>1. f.entry[h] \in Entries /\ rest \subseteq User /\ rest \subseteq Nat
    BY EntryOf, HostsAssumption DEF Entries, HostsAssumption
  <1>2. First(rest) \in User \union {None} /\ (rest # {} => First(rest) \in rest)
    <2>1. CASE rest = {}
      BY <2>1 DEF First
    <2>2. CASE rest # {}
      BY <1>1, <2>2, FirstIn
    <2> QED BY <2>1, <2>2
  <1>3. /\ e \in Entries
        /\ e.logins = rest
        /\ e.current = IF f.entry[h].current = u THEN First(rest) ELSE f.entry[h].current
        /\ e.filed = f.entry[h].filed \ {u}
    BY <1>1, <1>2 DEF Entries
  <1>4. Integral(f) /\ h \in f.hosts /\ rest # {} =>
          e.logins # {} /\ e.current \in e.logins /\ e.filed \subseteq e.logins
    BY <1>2, <1>3 DEF Integral, EntrySound
  <1>5. RemoveLogin(f, h, u) = With(f, h, e)
    BY DEF RemoveLogin
  <1> HIDE DEF e, rest
  <1> QED BY <1>3, <1>4, <1>5, WithType, WithSound

(* remove_host: the first remaining host takes over, whatever the entry was. *)
LEMMA RemoveHostSound ==
  ASSUME NEW f \in Files, NEW h \in Host
  PROVE  /\ RemoveHost(f, h) \in Files
         /\ (/\ f.active \in f.hosts /\ h \in f.hosts
             /\ \A k \in f.hosts \ {h} : EntrySound(f, k)
             /\ \A k \in Host \ f.hosts : f.entry[k] = NoEntry)
              => Integral(RemoveHost(f, h))
  <1> DEFINE rest == f.hosts \ {h}
             a == IF f.active = h THEN First(f.hosts \ {h}) ELSE f.active
             g == [f EXCEPT !.hosts = @ \ {h},
                            !.active = IF @ = h THEN First(f.hosts \ {h}) ELSE @]
  <1>1. rest \subseteq Host /\ rest \subseteq Nat /\ None \notin Host
    BY HostsAssumption DEF Files, HostsAssumption
  <1>2. First(rest) \in Host \union {None} /\ (rest # {} => First(rest) \in rest)
        /\ (rest = {} => First(rest) = None)
    <2>1. CASE rest = {}
      BY <2>1 DEF First
    <2>2. CASE rest # {}
      BY <1>1, <2>2, FirstIn
    <2> QED BY <2>1, <2>2
  <1>3. g \in Files /\ g.hosts = rest /\ g.active = a /\ g.entry = f.entry
    BY <1>1, <1>2 DEF Files
  <1>4. RemoveHost(f, h) = With(g, h, NoEntry)
    BY DEF RemoveHost
  <1>5. f.active \in f.hosts => (a = None => rest = {}) /\ (a # None => a \in rest)
    BY <1>1, <1>2
  <1> HIDE DEF g, rest, a
  <1>6. /\ With(g, h, NoEntry) \in Files
        /\ With(g, h, NoEntry).active = a
        /\ With(g, h, NoEntry).hosts = rest
        /\ With(g, h, NoEntry).entry[h] = NoEntry
        /\ \A k \in Host \ {h} : With(g, h, NoEntry).entry[k] = f.entry[k]
    BY <1>3, WithType, EmptyFile
  <1>7. rest = f.hosts \ {h}
    BY DEF rest
  <1> QED BY <1>1, <1>4, <1>5, <1>6, <1>7 DEF Integral, EntrySound

(* adopt_env_host leaves the copy clean. *)
LEMMA AdoptType ==
  ASSUME NEW f \in Files, NEW h \in Host
  PROVE  Adopt(f, h) \in [file : Files, dirty : BOOLEAN] /\ ~Adopt(f, h).dirty
  <1>1. [f EXCEPT !.hosts = @ \union {h}] \in Files
    BY DEF Files
  <1> QED BY <1>1, CachedStoreSound DEF Adopt, Stores

(* A resolved name is a name, and an integral file lists it. *)
LEMMA OnlyIn ==
  ASSUME NEW S, S \subseteq Nat
  PROVE  Only(S) \in S \union {None}
  BY FirstIn DEF Only

(* resolve_host answers with a listed host. *)
LEMMA ResolveHostIn ==
  ASSUME NEW f \in Files, NEW given \in Host \union {None}
  PROVE  ResolveHost(f, given) \in f.hosts \union {None}
  <1>1. Only(f.hosts) \in f.hosts \union {None}
    BY OnlyIn, HostsAssumption DEF Files, HostsAssumption
  <1> QED BY <1>1 DEF ResolveHost

(* resolve_login answers with a listed login. *)
LEMMA ResolveLoginIn ==
  ASSUME NEW f \in Files, NEW h \in Host, NEW requested \in User \union {None}
  PROVE  ResolveLogin(f, h, requested) \in f.entry[h].logins \union {None}
  <1>1. Only(f.entry[h].logins) \in f.entry[h].logins \union {None}
    BY OnlyIn, EntryOf, HostsAssumption DEF Entries, HostsAssumption
  <1> QED BY <1>1 DEF ResolveLogin

-----------------------------------------------------------------------------
(* The inductive invariant: where each command holds a copy it may still   *)
(* save, the copy is as good as the file.                                  *)
At(p) ==
  LET f == mem[p].file
      h == job[p].host
  IN  /\ pc[p] = "verify" => HostAdded(f, h)
      /\ pc[p] \in {"saveLogin", "confirm", "saveForget", "search"} =>
           Integral(f) /\ Listed(f, h, job[p].user)
      /\ pc[p] \in {"saveActive", "saveRemoved", "choose"} => Integral(f)
      /\ pc[p] \in {"found", "missing"} /\ mem[p].dirty => Integral(f)

IInv == TypeOK /\ Integral(disk) /\ \A p \in Proc : At(p)

(* A step of p: p's own part is to be shown, the others' parts are as they were. *)
LEMMA StepKeeps ==
  ASSUME IInv, NEW p \in Proc,
         NEW f \in Files, NEW dirty \in BOOLEAN, NEW label \in Labels, NEW j \in Jobs,
         pc' = [pc EXCEPT ![p] = label],
         job' = [job EXCEPT ![p] = j],
         mem' = [mem EXCEPT ![p] = [file |-> f, dirty |-> dirty]],
         disk' \in Files, Integral(disk'), keyring' \subseteq Host \X User,
         label = "verify" => HostAdded(f, j.host),
         label \in {"saveLogin", "confirm", "saveForget", "search"} =>
           Integral(f) /\ Listed(f, j.host, j.user),
         label \in {"saveActive", "saveRemoved", "choose"} => Integral(f),
         label \in {"found", "missing"} /\ dirty => Integral(f)
  PROVE  IInv'
  <1>1. TypeOK'
    BY DEF IInv, TypeOK
  <1>2. /\ pc'[p] = label /\ job'[p] = j /\ mem'[p] = [file |-> f, dirty |-> dirty]
        /\ \A q \in Proc \ {p} : pc'[q] = pc[q] /\ job'[q] = job[q] /\ mem'[q] = mem[q]
    BY DEF IInv, TypeOK
  <1>3. At(p)'
    BY <1>2 DEF At
  <1>4. \A q \in Proc \ {p} : At(q)'
    BY <1>2 DEF IInv, At
  <1> QED BY <1>1, <1>3, <1>4 DEF IInv

(* The end of a command. *)
LEMMA FinishKeeps ==
  ASSUME IInv, NEW p \in Proc, Finish(p),
         disk' \in Files, Integral(disk'), keyring' \subseteq Host \X User
  PROVE  IInv'
  <1>1. NoJob \in Jobs /\ "idle" \in Labels
    BY DEF NoJob, Jobs, Labels, AllCommands
  <1> QED BY <1>1, EmptyFile, StepKeeps DEF Finish

(* What the invariant says of one command. *)
LEMMA Here ==
  ASSUME IInv, NEW p \in Proc
  PROVE  /\ disk \in Files /\ Integral(disk) /\ keyring \subseteq Host \X User
         /\ mem[p].file \in Files /\ mem[p].dirty \in BOOLEAN
         /\ mem[p] = [file |-> mem[p].file, dirty |-> mem[p].dirty]
         /\ job[p] \in Jobs /\ job = [job EXCEPT ![p] = job[p]]
         /\ pc[p] \in Labels
         /\ At(p)
  BY DEF IInv, TypeOK

(* login, from loading to the token. *)
LEMMA LoadLoginKeeps == ASSUME IInv, NEW p \in Proc, LoadLogin(p) PROVE IInv'
  <1>1. PICK h \in Host : Start(p, "login", h, None, FALSE) /\ Hold(p, AddHost(disk, h))
    BY DEF LoadLogin
  <1> DEFINE j == [cmd |-> "login", host |-> h, user |-> None, env |-> FALSE]
  <1>2. j \in Jobs /\ j.host = h
    BY DEF Jobs, AllCommands
  <1>3. /\ job' = [job EXCEPT ![p] = j]
        /\ mem' = [mem EXCEPT ![p] = [file |-> AddHost(disk, h), dirty |-> TRUE]]
        /\ pc' = [pc EXCEPT ![p] = "verify"]
        /\ UNCHANGED <<disk, keyring>>
    BY <1>1 DEF Start, Hold, LoadLogin, Goto
  <1>4. "verify" \in Labels
    BY DEF Labels
  <1> HIDE DEF j
  <1> QED BY <1>2, <1>3, <1>4, AddHostAdds, Here, StepKeeps

(* login, storing what the server confirmed. *)
LEMMA StoreSecretKeeps == ASSUME IInv, NEW p \in Proc, StoreSecret(p) PROVE IInv'
  <1> DEFINE f == mem[p].file
             h == job[p].host
  <1>1. /\ f \in Files /\ HostAdded(f, h) /\ job[p] \in Jobs
        /\ disk \in Files /\ Integral(disk) /\ keyring \subseteq Host \X User
    BY Here DEF StoreSecret, At
  <1>2. h \in Host
    BY <1>1 DEF HostAdded, Files
  <1>3. PICK u \in User, choice \in Choices, up \in {TRUE} \union {"keyring" \notin Faults} :
          LET inKeyring == choice = "none" /\ up
              listed == AddLogin(f, h, u)
          IN  /\ job' = [job EXCEPT ![p].user = u]
              /\ keyring' = IF inKeyring THEN keyring \union {<<h, u>>} ELSE keyring
              /\ Hold(p, IF inKeyring THEN SetCachedStore(listed, h, "keyring")
                         ELSE SetCachedStore(SetToken(listed, h, u), h, "file"))
    BY DEF StoreSecret
  <1> DEFINE listed == AddLogin(f, h, u)
             j == [cmd |-> job[p].cmd, host |-> h, user |-> u, env |-> job[p].env]
             g == IF choice = "none" /\ up THEN SetCachedStore(listed, h, "keyring")
                  ELSE SetCachedStore(SetToken(listed, h, u), h, "file")
  <1>4. listed \in Files /\ Integral(listed) /\ Listed(listed, h, u)
    BY <1>1, <1>2, AddLoginSound DEF Listed, HostAdded
  <1>5. SetToken(listed, h, u) \in Files /\ Integral(SetToken(listed, h, u))
        /\ Listed(SetToken(listed, h, u), h, u)
    BY <1>2, <1>4, SetTokenSound DEF Listed
  <1>6. g \in Files /\ Integral(g) /\ Listed(g, h, u)
    <2> HIDE DEF listed
    <2> QED BY <1>2, <1>4, <1>5, CachedStoreSound DEF Listed, Stores
  <1>7. j \in Jobs /\ job' = [job EXCEPT ![p] = j] /\ j.host = h /\ j.user = u
    <2>1. job' = [job EXCEPT ![p].user = u]
      BY <1>3
    <2>2. [job[p] EXCEPT !.user = u] = j /\ j \in Jobs
      BY <1>1 DEF Jobs
    <2> QED BY <2>1, <2>2
  <1>8. /\ mem' = [mem EXCEPT ![p] = [file |-> g, dirty |-> TRUE]]
        /\ pc' = [pc EXCEPT ![p] = "saveLogin"]
        /\ disk' = disk /\ keyring' \subseteq Host \X User
    <2>1. Hold(p, g)
      BY <1>3
    <2>2. keyring' = keyring \/ keyring' = keyring \union {<<h, u>>}
      BY <1>3
    <2> HIDE DEF g, h
    <2>3. keyring' \subseteq Host \X User
      BY <1>1, <1>2, <2>2
    <2> QED BY <2>1, <2>3 DEF Hold, StoreSecret, Goto
  <1>9. "saveLogin" \in Labels
    BY DEF Labels
  <1> HIDE DEF f, h, listed, g, j
  <1> QED BY <1>1, <1>6, <1>7, <1>8, <1>9, StepKeeps

(* login, the first save. *)
LEMMA SaveLoginKeeps == ASSUME IInv, NEW p \in Proc, SaveLogin(p) PROVE IInv'
  <1> DEFINE f == mem[p].file
             h == job[p].host
             u == job[p].user
             g == SelectLogin(SetActive(f, h), h, u)
  <1>1. /\ f \in Files /\ Integral(f) /\ Listed(f, h, u) /\ job[p] \in Jobs
        /\ job = [job EXCEPT ![p] = job[p]]
        /\ disk \in Files /\ Integral(disk) /\ keyring \subseteq Host \X User
    BY Here DEF SaveLogin, At
  <1>2. h \in Host /\ u \in User /\ h \in f.hosts
    BY <1>1 DEF Listed, Files, Entries
  <1>3. CASE SaveFails(p) /\ UNCHANGED keyring
    BY <1>1, <1>3, FinishKeeps DEF SaveFails
  <1>4. CASE Write(p) /\ Hold(p, g) /\ Goto(p, "saveActive") /\ UNCHANGED <<job, keyring>>
    <2>1. g \in Files /\ Integral(g)
      BY <1>1, <1>2, SetActiveSound, SelectLoginSound
    <2>2. "saveActive" \in Labels
      BY DEF Labels
    <2>3. disk' = f
      BY <1>4 DEF Write
    <2> HIDE DEF f, h, u, g
    <2> QED BY <1>1, <1>4, <2>1, <2>2, <2>3, StepKeeps DEF Hold, Goto
  <1> QED BY <1>3, <1>4 DEF SaveLogin

(* A command's last save, or its failure. *)
LEMMA SaveLastKeeps ==
  ASSUME IInv, NEW p \in Proc, SaveLast(p), Integral(mem[p].file), UNCHANGED keyring
  PROVE  IInv'
  BY Here, FinishKeeps DEF SaveLast, SaveFails, Write

(* logout, up to the question. *)
LEMMA LoadLogoutKeeps == ASSUME IInv, NEW p \in Proc, LoadLogout(p) PROVE IInv'
  <1>1. PICK hGiven \in Host \union {None}, uGiven \in User \union {None} :
          LET h == ResolveHost(disk, hGiven)
              u == ResolveLogin(disk, h, uGiven)
          IN  h # None /\ u # None /\ Start(p, "logout", h, u, FALSE)
    BY DEF LoadLogout
  <1> DEFINE h == ResolveHost(disk, hGiven)
             u == ResolveLogin(disk, h, uGiven)
             j == [cmd |-> "logout", host |-> h, user |-> u, env |-> FALSE]
  <1>2. /\ disk \in Files /\ Integral(disk) /\ keyring \subseteq Host \X User
    BY Here
  <1>3. h \in disk.hosts /\ h \in Host
    BY <1>1, <1>2, ResolveHostIn DEF Files
  <1>4. u \in disk.entry[h].logins /\ u \in User
    BY <1>1, <1>2, <1>3, ResolveLoginIn DEF Files, Entries
  <1>5. j \in Jobs /\ j.host = h /\ j.user = u
    BY <1>3, <1>4 DEF Jobs, AllCommands
  <1>6. /\ job' = [job EXCEPT ![p] = j]
        /\ mem' = [mem EXCEPT ![p] = [file |-> disk, dirty |-> FALSE]]
        /\ pc' = [pc EXCEPT ![p] = "confirm"]
        /\ UNCHANGED <<disk, keyring>>
    BY <1>1 DEF Start, Loaded, LoadLogout, Goto
  <1>7. "confirm" \in Labels
    BY DEF Labels
  <1> HIDE DEF h, u, j
  <1> QED BY <1>2, <1>3, <1>4, <1>5, <1>6, <1>7, StepKeeps DEF Listed

(* logout, forgetting the token. *)
LEMMA ForgetKeeps == ASSUME IInv, NEW p \in Proc, Forget(p) PROVE IInv'
  <1> DEFINE f == mem[p].file
             h == job[p].host
             u == job[p].user
             g == ClearToken(f, h, u)
  <1>1. /\ f \in Files /\ Integral(f) /\ Listed(f, h, u) /\ job[p] \in Jobs
        /\ job = [job EXCEPT ![p] = job[p]]
        /\ disk \in Files /\ Integral(disk) /\ keyring \subseteq Host \X User
    BY Here DEF Forget, At
  <1>2. h \in Host /\ u \in User /\ h \in f.hosts
    BY <1>1 DEF Listed, Files, Entries
  <1>3. g \in Files /\ Integral(g) /\ Listed(g, h, u)
    BY <1>1, <1>2, ClearTokenSound DEF Listed
  <1>4. /\ mem' = [mem EXCEPT ![p] = [file |-> g, dirty |-> TRUE]]
        /\ pc' = [pc EXCEPT ![p] = "saveForget"]
        /\ UNCHANGED <<disk, job>> /\ keyring' \subseteq Host \X User
    BY <1>1 DEF Forget, Hold, Goto
  <1>5. "saveForget" \in Labels
    BY DEF Labels
  <1> HIDE DEF f, g, h, u
  <1> QED BY <1>1, <1>3, <1>4, <1>5, StepKeeps DEF h, u

(* logout, its first save and the removal of the login. *)
LEMMA SaveForgetKeeps == ASSUME IInv, NEW p \in Proc, SaveForget(p) PROVE IInv'
  <1> DEFINE f == mem[p].file
             h == job[p].host
             u == job[p].user
             rest == RemoveLogin(f, h, u)
             g == IF rest.entry[h].logins = {} THEN RemoveHost(rest, h) ELSE rest
  <1>1. /\ f \in Files /\ Integral(f) /\ Listed(f, h, u) /\ job[p] \in Jobs
        /\ job = [job EXCEPT ![p] = job[p]]
        /\ disk \in Files /\ Integral(disk) /\ keyring \subseteq Host \X User
    BY Here DEF SaveForget, At
  <1>2. h \in Host /\ u \in User /\ h \in f.hosts
    BY <1>1 DEF Listed, Files, Entries
  <1>3. CASE SaveFails(p) /\ UNCHANGED keyring
    BY <1>1, <1>3, FinishKeeps DEF SaveFails
  <1>4. CASE Write(p) /\ Hold(p, g) /\ Goto(p, "saveRemoved") /\ UNCHANGED <<job, keyring>>
    <2>1. /\ rest \in Files /\ rest.hosts = f.hosts /\ rest.active = f.active
          /\ \A k \in Host \ {h} : rest.entry[k] = f.entry[k]
          /\ rest.entry[h].logins # {} => Integral(rest)
      BY <1>1, <1>2, RemoveLoginSound
    <2>2. /\ f.hosts \subseteq Host /\ f.active \in f.hosts
          /\ \A k \in f.hosts : EntrySound(f, k)
          /\ \A k \in Host \ f.hosts : f.entry[k] = NoEntry
      BY <1>1, <1>2 DEF Integral, Files
    <2> HIDE DEF f, h, u, rest
    <2>3. /\ \A k \in rest.hosts \ {h} : EntrySound(rest, k)
          /\ \A k \in Host \ rest.hosts : rest.entry[k] = NoEntry
      BY <1>2, <2>1, <2>2 DEF EntrySound
    <2>4. RemoveHost(rest, h) \in Files /\ Integral(RemoveHost(rest, h))
      BY <1>2, <2>1, <2>2, <2>3, RemoveHostSound
    <2>5. g \in Files /\ Integral(g)
      BY <2>1, <2>4
    <2>6. "saveRemoved" \in Labels
      BY DEF Labels
    <2>7. disk' = f
      BY <1>4 DEF Write, f
    <2> HIDE DEF g
    <2> QED BY <1>1, <1>4, <2>5, <2>6, <2>7, StepKeeps DEF Hold, Goto
  <1> QED BY <1>3, <1>4 DEF SaveForget

(* switch. *)
LEMMA SwitchKeeps == ASSUME IInv, NEW p \in Proc, LoadSwitch(p) \/ Switch(p) PROVE IInv'
  <1>1. CASE LoadSwitch(p)
    <2> DEFINE j == [cmd |-> "switch", host |-> None, user |-> None, env |-> FALSE]
    <2>1. j \in Jobs /\ "choose" \in Labels
      BY DEF Jobs, AllCommands, Labels
    <2>2. /\ job' = [job EXCEPT ![p] = j]
          /\ mem' = [mem EXCEPT ![p] = [file |-> disk, dirty |-> FALSE]]
          /\ pc' = [pc EXCEPT ![p] = "choose"]
          /\ UNCHANGED <<disk, keyring>>
      BY <1>1 DEF LoadSwitch, Start, Loaded, Goto
    <2> HIDE DEF j
    <2> QED BY <2>1, <2>2, Here, StepKeeps
  <1>2. CASE Switch(p)
    <2> DEFINE f == mem[p].file
    <2>1. f \in Files /\ Integral(f) /\ disk \in Files /\ Integral(disk)
          /\ keyring \subseteq Host \X User
      BY <1>2, Here DEF Switch, At
    <2>2. ASSUME NEW h \in f.hosts, NEW u \in f.entry[h].logins
          PROVE  /\ SelectLogin(SetActive(f, h), h, u) \in Files
                 /\ Integral(SelectLogin(SetActive(f, h), h, u))
      <3>1. h \in Host /\ u \in User
        BY <2>1 DEF Files, Entries
      <3> QED BY <2>1, <3>1, SetActiveSound, SelectLoginSound
    <2>3. disk' \in Files /\ Integral(disk')
      BY <1>2, <2>1, <2>2 DEF Switch
    <2> QED BY <1>2, <2>1, <2>3, FinishKeeps DEF Switch
  <1> QED BY <1>1, <1>2

(* Any other command: an adopted host is in a clean copy. *)
LEMMA LoadRunKeeps == ASSUME IInv, NEW p \in Proc, LoadRun(p) PROVE IInv'
  <1>1. PICK hGiven \in Host \union {None}, uGiven \in User \union {None}, env \in EnvTokens :
          LET copy == IF hGiven \in Host \ disk.hosts /\ env
                      THEN Adopt(disk, hGiven) ELSE [file |-> disk, dirty |-> FALSE]
              h == ResolveHost(copy.file, hGiven)
              u == ResolveLogin(copy.file, h, uGiven)
          IN  /\ h # None
              /\ uGiven # None => u # None
              /\ Start(p, "run", h, u, env)
              /\ mem' = [mem EXCEPT ![p] = copy]
              /\ Goto(p, IF u # None THEN "search" ELSE IF env THEN "found" ELSE "missing")
    BY DEF LoadRun
  <1> DEFINE copy == IF hGiven \in Host \ disk.hosts /\ env
                     THEN Adopt(disk, hGiven) ELSE [file |-> disk, dirty |-> FALSE]
             f == copy.file
             h == ResolveHost(f, hGiven)
             u == ResolveLogin(f, h, uGiven)
             j == [cmd |-> "run", host |-> h, user |-> u, env |-> env]
             label == IF u # None THEN "search" ELSE IF env THEN "found" ELSE "missing"
  <1>2. disk \in Files /\ Integral(disk) /\ keyring \subseteq Host \X User
    BY Here
  <1>3. f \in Files /\ copy = [file |-> f, dirty |-> FALSE]
    BY <1>2, AdoptType
  <1>4. CASE hGiven \in Host \ disk.hosts /\ env
    <2> DEFINE added == [disk EXCEPT !.hosts = @ \union {hGiven}]
    <2>1. /\ hGiven # None /\ hGiven \in Host
          /\ f = SetCachedStore(added, hGiven, "env")
      BY <1>4, HostsAssumption DEF Adopt, HostsAssumption
    <2>2. added \in Files /\ added.hosts = disk.hosts \union {hGiven} /\ added.entry = disk.entry
      BY <1>2, <2>1 DEF Files
    <2>3. added.entry[hGiven].logins = {}
      BY <1>2, <1>4, <2>2 DEF Integral, NoEntry
    <2> HIDE DEF copy, f, added
    <2>4. hGiven \in f.hosts /\ f.entry[hGiven].logins = {}
      BY <2>1, <2>2, <2>3, CachedStoreSound DEF Stores
    <2>5. h = hGiven /\ u = None
      BY <1>3, <2>1, <2>4, ResolveLoginIn DEF ResolveHost
    <2>6. label \in {"found", "missing"} /\ h \in Host
      BY <2>1, <2>5
    <2> HIDE DEF h, u
    <2>7. j \in Jobs
      BY <2>5, <2>6, HostsAssumption DEF Jobs, AllCommands, HostsAssumption
    <2>8. label \in Labels
      BY <2>6 DEF Labels
    <2>9. /\ job' = [job EXCEPT ![p] = j]
          /\ mem' = [mem EXCEPT ![p] = [file |-> f, dirty |-> FALSE]]
          /\ pc' = [pc EXCEPT ![p] = label]
          /\ UNCHANGED <<disk, keyring>>
      BY <1>1, <1>3 DEF Start, Goto, copy, f, h, u
    <2> HIDE DEF j, label
    <2> QED BY <1>2, <1>3, <2>6, <2>7, <2>8, <2>9, StepKeeps
  <1>5. CASE ~(hGiven \in Host \ disk.hosts /\ env)
    <2>1. f = disk
      BY <1>5
    <2>2. h \in disk.hosts /\ h \in Host
      BY <1>1, <1>2, <2>1, ResolveHostIn DEF Files
    <2>3. u \in disk.entry[h].logins \union {None} /\ u \in User \union {None}
      BY <1>2, <2>1, <2>2, ResolveLoginIn DEF Files, Entries
    <2>4. /\ job' = [job EXCEPT ![p] = j]
          /\ mem' = [mem EXCEPT ![p] = [file |-> disk, dirty |-> FALSE]]
          /\ pc' = [pc EXCEPT ![p] = label]
          /\ UNCHANGED <<disk, keyring>>
      BY <1>1, <1>3, <2>1 DEF Start, Goto
    <2> HIDE DEF copy, f, h, u
    <2>5. j \in Jobs /\ j.host = h /\ j.user = u
      BY <2>2, <2>3, HostsAssumption DEF Jobs, AllCommands, HostsAssumption
    <2>6. label \in Labels
      BY DEF Labels
    <2>7. label = "search" => Listed(disk, h, u)
      BY <2>2, <2>3 DEF Listed
    <2>8. label \in {"search", "found", "missing"}
      OBVIOUS
    <2> HIDE DEF j, label
    <2> QED BY <1>2, <2>4, <2>5, <2>6, <2>7, <2>8, StepKeeps
  <1> QED BY <1>4, <1>5

(* The search changes the cached store only. *)
LEMMA SearchKeeps == ASSUME IInv, NEW p \in Proc, Search(p) PROVE IInv'
  <1> DEFINE f == mem[p].file
             h == job[p].host
             u == job[p].user
             e == f.entry[h]
             order == ReadOrder(e.store)
  <1>1. /\ f \in Files /\ Integral(f) /\ Listed(f, h, u) /\ job[p] \in Jobs
        /\ job = [job EXCEPT ![p] = job[p]] /\ mem[p].dirty \in BOOLEAN
        /\ mem[p] = [file |-> f, dirty |-> mem[p].dirty]
        /\ disk \in Files /\ Integral(disk) /\ keyring \subseteq Host \X User
    BY Here DEF Search, At
  <1>2. h \in Host /\ u \in User /\ h \in f.hosts
    BY <1>1 DEF Listed, Files, Entries
  <1>3. PICK up \in {TRUE} \union {"keyring" \notin Faults} :
         LET has == {k \in order :
                     \/ k = "keyring" /\ up /\ <<h, u>> \in keyring
                     \/ k = "file" /\ u \in e.filed
                     \/ k = "env" /\ job[p].env}
             best == CASE "keyring" \in has -> "keyring"
                       [] "keyring" \notin has /\ "file" \in has -> "file"
                       [] has = {"env"} -> "env"
                       [] has = {} -> IF "keyring" \notin order THEN e.store
                                      ELSE IF up THEN "keyring" ELSE "file"
         IN  /\ mem' = IF best = e.store THEN mem
                       ELSE [mem EXCEPT ![p] = [file |-> SetCachedStore(@.file, h, best),
                                                dirty |-> TRUE]]
             /\ Goto(p, IF has = {} THEN "missing" ELSE "found")
    BY DEF Search
  <1> DEFINE has == {k \in order :
                     \/ k = "keyring" /\ up /\ <<h, u>> \in keyring
                     \/ k = "file" /\ u \in e.filed
                     \/ k = "env" /\ job[p].env}
             best == CASE "keyring" \in has -> "keyring"
                       [] "keyring" \notin has /\ "file" \in has -> "file"
                       [] has = {"env"} -> "env"
                       [] has = {} -> IF "keyring" \notin order THEN e.store
                                      ELSE IF up THEN "keyring" ELSE "file"
             label == IF has = {} THEN "missing" ELSE "found"
             g == IF best = e.store THEN f ELSE SetCachedStore(f, h, best)
             dirty == IF best = e.store THEN mem[p].dirty ELSE TRUE
  <1>4. e.store \in Stores
    BY <1>1, <1>2 DEF Files, Entries
  <1>5. best \in Stores
    <2>1. order \subseteq {"keyring", "file", "env"}
      BY <1>4 DEF ReadOrder, Stores
    <2>2. has \subseteq {"keyring", "file", "env"}
      BY <2>1
    <2> HIDE DEF has
    <2>3. CASE "keyring" \in has
      BY <2>3 DEF Stores
    <2>4. CASE "keyring" \notin has /\ "file" \in has
      BY <2>4 DEF Stores
    <2>5. CASE has = {"env"}
      BY <2>5 DEF Stores
    <2>6. CASE has = {}
      BY <1>4, <2>6 DEF Stores
    <2> QED BY <2>2, <2>3, <2>4, <2>5, <2>6
  <1>6. /\ mem' = IF best = e.store THEN mem
                  ELSE [mem EXCEPT ![p] = [file |-> SetCachedStore(f, h, best), dirty |-> TRUE]]
        /\ pc' = [pc EXCEPT ![p] = label]
        /\ UNCHANGED <<disk, keyring, job>>
    BY <1>3 DEF Goto, Search
  <1> HIDE DEF best, has
  <1>7. label \in {"found", "missing"} /\ label \in Labels
    BY DEF Labels
  <1>8. g \in Files /\ Integral(g) /\ dirty \in BOOLEAN
    BY <1>1, <1>2, <1>5, CachedStoreSound
  <1>9. mem' = [mem EXCEPT ![p] = [file |-> g, dirty |-> dirty]]
    <2>1. mem = [mem EXCEPT ![p] = mem[p]]
      BY DEF IInv, TypeOK
    <2> QED BY <1>1, <1>6, <2>1
  <1>10. /\ disk' \in Files /\ Integral(disk') /\ keyring' \subseteq Host \X User
         /\ job' = [job EXCEPT ![p] = job[p]] /\ job[p] \in Jobs
    BY <1>1, <1>6
  <1>11. pc' = [pc EXCEPT ![p] = label]
    BY <1>6
  <1> HIDE DEF f, h, u, e, order, g, dirty, label
  <1>12. label \notin {"verify", "saveLogin", "confirm", "saveForget", "search"}
    BY <1>7
  <1> QED BY <1>7, <1>8, <1>9, <1>10, <1>11, <1>12, StepKeeps

(* The steps that end a command. *)
LEMMA EndKeeps ==
  ASSUME IInv, NEW p \in Proc,
         VerifyFails(p) \/ SaveActive(p) \/ SaveRemoved(p) \/ Decline(p)
           \/ SaveProbe(p) \/ Crash(p)
  PROVE  IInv'
  <1>1. CASE VerifyFails(p) \/ Decline(p) \/ Crash(p)
    BY <1>1, Here, FinishKeeps DEF VerifyFails, Decline, Crash
  <1>2. CASE SaveActive(p) \/ SaveRemoved(p)
    BY <1>2, Here, SaveLastKeeps DEF SaveActive, SaveRemoved, At
  <1>3. CASE SaveProbe(p)
    BY <1>3, Here, FinishKeeps DEF SaveProbe, At, Write
  <1> QED BY <1>1, <1>2, <1>3

(* The invariant holds where nothing was ever configured. *)
LEMMA IInvInit == Init => IInv
  <1> SUFFICES ASSUME Init PROVE IInv
    OBVIOUS
  <1>1. NoJob \in Jobs /\ "idle" \in Labels
    BY DEF NoJob, Jobs, Labels, AllCommands
  <1>2. TypeOK
    BY <1>1, EmptyFile DEF Init, TypeOK
  <1>3. \A p \in Proc : At(p)
    BY DEF Init, At
  <1> QED BY <1>2, <1>3, EmptyFile DEF Init, IInv

(* Every step keeps the invariant. *)
LEMMA IInvStep == IInv /\ [Next]_vars => IInv'
  <1> SUFFICES ASSUME IInv, [Next]_vars PROVE IInv'
    OBVIOUS
  <1>1. ASSUME NEW p \in Proc, Load(p) PROVE IInv'
    BY <1>1, LoadLoginKeeps, LoadLogoutKeeps, SwitchKeeps, LoadRunKeeps DEF Load
  <1>2. ASSUME NEW p \in Proc, Prompt(p) PROVE IInv'
    BY <1>2, EndKeeps, StoreSecretKeeps, ForgetKeeps, SwitchKeeps DEF Prompt
  <1>3. ASSUME NEW p \in Proc, Advance(p) PROVE IInv'
    BY <1>3, EndKeeps, SaveLoginKeeps, SaveForgetKeeps, SearchKeeps DEF Advance
  <1>4. ASSUME NEW p \in Proc, Crash(p) PROVE IInv'
    BY <1>4, EndKeeps
  <1>5. CASE UNCHANGED vars
    BY <1>5 DEF vars, IInv, TypeOK, At
  <1> QED BY <1>1, <1>2, <1>3, <1>4, <1>5 DEF Next

(* Every state is well typed. *)
THEOREM Typing == Spec => []TypeOK
  <1>1. IInv => TypeOK
    BY DEF IInv
  <1> QED BY IInvInit, IInvStep, <1>1, PTL DEF Spec

(* However many commands run side by side, fail or die, no reference in    *)
(* hosts.toml dangles and no host in it is without a login.                *)
THEOREM Integrity == Spec => []DiskIntegral
  <1>1. IInv => DiskIntegral
    BY DEF IInv, DiskIntegral
  <1> QED BY IInvInit, IInvStep, <1>1, PTL DEF Spec

(* So a plain command always resolves a host and a login while one is listed. *)
THEOREM Resolvable == Spec => []AlwaysResolvable
  <1>1. IInv => AlwaysResolvable
    <2> SUFFICES ASSUME IInv PROVE AlwaysResolvable
      OBVIOUS
    <2>1. disk \in Files /\ Integral(disk) /\ disk.hosts \subseteq Host
      BY DEF IInv, TypeOK, Files
    <2>2. None \notin Host /\ None \notin User
      BY HostsAssumption DEF HostsAssumption
    <2>3. disk.hosts # {} => ResolveHost(disk, None) # None
      BY <2>1, <2>2 DEF Integral, ResolveHost
    <2>4. \A h \in disk.hosts : ResolveLogin(disk, h, None) # None
      BY <2>1, <2>2 DEF Integral, EntrySound, ResolveLogin, Files, Entries
    <2> QED BY <2>3, <2>4 DEF AlwaysResolvable
  <1> QED BY IInvInit, IInvStep, <1>1, PTL DEF Spec

-----------------------------------------------------------------------------
(* What a step may do to whom: a command's step moves that command alone.  *)
Turn(p) == Load(p) \/ Prompt(p) \/ Advance(p) \/ Crash(p)

LEMMA OthersStand ==
  ASSUME IInv, NEW p \in Proc, Turn(p), NEW q \in Proc \ {p}
  PROVE  pc'[q] = pc[q] /\ job'[q] = job[q] /\ mem'[q] = mem[q]
  <1>1. DOMAIN pc = Proc /\ DOMAIN job = Proc /\ DOMAIN mem = Proc
    BY DEF IInv, TypeOK
  <1>2. CASE Load(p)
    BY <1>1, <1>2 DEF Load, LoadLogin, LoadLogout, LoadSwitch, LoadRun, Start, Hold, Loaded, Goto
  <1>3. CASE StoreSecret(p)
    BY <1>1, <1>3 DEF StoreSecret, Hold, Goto
  <1>4. CASE Forget(p)
    BY <1>1, <1>4 DEF Forget, Hold, Goto
  <1>5. CASE VerifyFails(p) \/ Switch(p) \/ Decline(p) \/ Crash(p)
    BY <1>1, <1>5 DEF VerifyFails, Switch, Decline, Crash, Finish
  <1>6. CASE SaveLogin(p)
    BY <1>1, <1>6 DEF SaveLogin, SaveFails, Finish, Hold, Goto
  <1>7. CASE SaveActive(p) \/ SaveRemoved(p) \/ SaveProbe(p)
    BY <1>1, <1>7 DEF SaveActive, SaveRemoved, SaveProbe, SaveLast, SaveFails, Finish
  <1>8. CASE SaveForget(p)
    BY <1>1, <1>8 DEF SaveForget, SaveFails, Finish, Hold, Goto
  <1>9. CASE Search(p)
    BY <1>1, <1>9 DEF Search, Goto
  <1> QED BY <1>2, <1>3, <1>4, <1>5, <1>6, <1>7, <1>8, <1>9 DEF Turn, Prompt, Advance

(* After its first save a login's copy names its host active and, on that  *)
(* host, its login current.                                                *)
Steered(p) ==
  pc[p] = "saveActive" =>
    /\ Listed(mem[p].file, job[p].host, job[p].user)
    /\ mem[p].file.active = job[p].host
    /\ mem[p].file.entry[job[p].host].current = job[p].user

Chosen == \A p \in Proc : Steered(p)

(* What set_active and select_login make of a file that lists the login.   *)
LEMMA SelectsListed ==
  ASSUME NEW f \in Files, NEW h \in Host, NEW u \in User, Listed(f, h, u)
  PROVE  LET g == SelectLogin(SetActive(f, h), h, u)
         IN  Listed(g, h, u) /\ g.active = h /\ g.entry[h].current = u
  <1>1. PICK a : a = SetActive(f, h)
    OBVIOUS
  <1>2. a \in Files /\ a.active = h /\ a.hosts = f.hosts /\ a.entry = f.entry
    BY <1>1 DEF SetActive, Files, Listed
  <1>3. PICK e : e = [a.entry[h] EXCEPT !.current = u]
    OBVIOUS
  <1>4. e \in Entries /\ e.current = u /\ e.logins = f.entry[h].logins
    BY <1>2, <1>3, EntryOf DEF Entries
  <1>5. SelectLogin(a, h, u) = With(a, h, e)
    BY <1>2, <1>3 DEF SelectLogin, Listed
  <1> QED BY <1>1, <1>2, <1>4, <1>5, WithType DEF Listed

(* Every step keeps it: only a login's first save leads there. *)
LEMMA ChosenStep == IInv /\ Chosen /\ [Next]_vars => Chosen'
  <1> SUFFICES ASSUME IInv, Chosen, [Next]_vars PROVE Chosen'
    OBVIOUS
  <1>1. ASSUME NEW p \in Proc, Turn(p) PROVE Chosen'
    <2>1. DOMAIN pc = Proc /\ DOMAIN mem = Proc
      BY DEF IInv, TypeOK
    <2>2. ASSUME NEW q \in Proc \ {p} PROVE Steered(q)'
      BY <1>1, OthersStand DEF Chosen, Steered
    <2>3. pc'[p] = "saveActive" => SaveLogin(p)
      BY <1>1, <2>1 DEF Turn, Load, Prompt, Advance, LoadLogin, LoadLogout, LoadSwitch, LoadRun,
        Goto, VerifyFails, StoreSecret, Forget, Switch, Decline, Finish, SaveActive,
        SaveForget, SaveRemoved, SaveLast, SaveFails, Search, SaveProbe, Crash
    <2>4. ASSUME pc'[p] = "saveActive" PROVE Steered(p)'
      <3>1. /\ mem'[p].file = SelectLogin(SetActive(mem[p].file, job[p].host), job[p].host, job[p].user)
            /\ job'[p] = job[p]
            /\ pc[p] = "saveLogin"
        BY <2>1, <2>3, <2>4 DEF SaveLogin, SaveFails, Finish, Hold
      <3>2. mem[p].file \in Files /\ Listed(mem[p].file, job[p].host, job[p].user)
        BY <3>1, Here DEF At
      <3>3. job[p].host \in Host /\ job[p].user \in User
        BY <3>2 DEF Listed, Files, Entries
      <3> QED BY <3>1, <3>2, <3>3, SelectsListed DEF Steered
    <2>5. Steered(p)'
      BY <2>4 DEF Steered
    <2> QED BY <2>2, <2>5 DEF Chosen
  <1>2. CASE UNCHANGED vars
    BY <1>2 DEF vars, Chosen, Steered
  <1> QED BY <1>1, <1>2 DEF Next, Turn

(* Whatever commands run beside it, fail or die: once a login has saved    *)
(* its choice, a plain command runs as the login it chose.                 *)
THEOREM LoginSteers == Spec => LoginTakesEffect
  <1>1. Init => Chosen
    BY DEF Init, Chosen, Steered
  <1>2. ASSUME IInv, Chosen, Next, NEW p \in Proc,
               pc[p] = "saveActive", pc'[p] = "idle", disk' # disk
        PROVE  /\ ResolveHost(disk', None) = job[p].host
               /\ ResolveLogin(disk', job[p].host, None) = job[p].user
    <2>1. PICK q \in Proc : Turn(q)
      BY <1>2 DEF Next, Turn
    <2>2. q = p
      BY <1>2, <2>1, OthersStand
    <2>3. SaveActive(p) \/ Crash(p)
      BY <1>2, <2>1, <2>2 DEF Turn, Load, Prompt, Advance, LoadLogin, LoadLogout, LoadSwitch,
        LoadRun, Start, VerifyFails, StoreSecret, Forget, Switch, Decline, SaveLogin,
        SaveForget, SaveRemoved, Search, SaveProbe
    <2>4. disk' = mem[p].file
      BY <1>2, <2>3 DEF SaveActive, Crash, SaveLast, SaveFails, Write
    <2> QED BY <1>2, <2>4 DEF Chosen, Steered, Listed, ResolveHost, ResolveLogin
  <1>3. IInv /\ Chosen /\ [Next]_vars =>
          [\A p \in Proc : pc[p] = "saveActive" /\ pc'[p] = "idle" /\ disk' # disk =>
             /\ ResolveHost(disk', None) = job[p].host
             /\ ResolveLogin(disk', job[p].host, None) = job[p].user]_vars
    BY <1>2
  <1> QED BY <1>1, <1>3, IInvInit, IInvStep, ChosenStep, PTL DEF Spec, LoginTakesEffect

-----------------------------------------------------------------------------
(* What each operation of config/hosts.rs leaves alone.                    *)

(* An entry changed for nobody but v. *)
LEMMA AgreeWith ==
  ASSUME NEW f \in Files, NEW h \in Host, NEW e \in Entries, NEW v,
         \A w \in User \ {v} : /\ w \in e.filed <=> w \in f.entry[h].filed
                               /\ w \in e.logins <=> w \in f.entry[h].logins,
         NEW k \in Host, NEW u \in User, <<k, u>> # <<h, v>>
  PROVE  Agree(f, With(f, h, e), k, u)
  <1>1. CASE k = h
    BY <1>1, WithType DEF Agree
  <1>2. CASE k # h
    <2>1. With(f, h, e).entry[k] = f.entry[k]
      BY <1>2, WithType
    <2> QED BY <2>1 DEF Agree
  <1> QED BY <1>1, <1>2

(* set_active, select_login and set_cached_store change nobody's token or login. *)
LEMMA AgreeChoices ==
  ASSUME NEW f \in Files, NEW h \in Host, NEW v \in User, NEW s \in Stores,
         NEW k \in Host, NEW u \in User
  PROVE  /\ Agree(f, SetActive(f, h), k, u)
         /\ Agree(f, SelectLogin(f, h, v), k, u)
         /\ Agree(f, SetCachedStore(f, h, s), k, u)
  <1>1. Agree(f, SetActive(f, h), k, u)
    BY DEF SetActive, Files, Agree
  <1>2. PICK e : e = [f.entry[h] EXCEPT !.current = v]
    OBVIOUS
  <1>3. e \in Entries /\ e.filed = f.entry[h].filed /\ e.logins = f.entry[h].logins
    BY <1>2, EntryOf DEF Entries
  <1>4. Agree(f, With(f, h, e), k, u)
    BY <1>3, AgreeWith, HostsAssumption DEF HostsAssumption
  <1>5. Agree(f, SelectLogin(f, h, v), k, u)
    BY <1>2, <1>4 DEF SelectLogin, Agree
  <1>6. PICK d : d = [f.entry[h] EXCEPT !.store = s]
    OBVIOUS
  <1>7. d \in Entries /\ d.filed = f.entry[h].filed /\ d.logins = f.entry[h].logins
    BY <1>6, EntryOf DEF Entries
  <1>8. Agree(f, With(f, h, d), k, u)
    BY <1>7, AgreeWith, HostsAssumption DEF HostsAssumption
  <1> QED BY <1>1, <1>5, <1>6, <1>8 DEF SetCachedStore

(* add_login, set_token, clear_token and remove_login change one login. *)
LEMMA AgreeLogins ==
  ASSUME NEW f \in Files, NEW h \in Host, NEW v \in User,
         NEW k \in Host, NEW u \in User, <<k, u>> # <<h, v>>
  PROVE  /\ Agree(f, AddLogin(f, h, v), k, u)
         /\ Agree(f, SetToken(f, h, v), k, u)
         /\ Agree(f, ClearToken(f, h, v), k, u)
         /\ Agree(f, RemoveLogin(f, h, v), k, u)
  <1> DEFINE o == f.entry[h]
             added == [o EXCEPT !.logins = @ \union {v},
                                !.current = IF @ = None THEN v ELSE @]
             set == [o EXCEPT !.filed = @ \union {v}]
             cleared == [o EXCEPT !.filed = @ \ {v}]
             next == First(o.logins \ {v})
             removed == [o EXCEPT !.logins = @ \ {v}, !.filed = @ \ {v},
                                  !.current = IF @ = v THEN First(o.logins \ {v}) ELSE @]
  <1>1. o \in Entries /\ o.logins \ {v} \subseteq User /\ o.logins \ {v} \subseteq Nat
    BY EntryOf, HostsAssumption DEF Entries, HostsAssumption
  <1>2. next \in User \union {None}
    BY <1>1, FirstIn DEF First
  <1>3. added \in Entries /\ added.filed = o.filed /\ added.logins = o.logins \union {v}
    BY <1>1 DEF Entries
  <1>4. set \in Entries /\ set.filed = o.filed \union {v} /\ set.logins = o.logins
    BY <1>1 DEF Entries
  <1>5. cleared \in Entries /\ cleared.filed = o.filed \ {v} /\ cleared.logins = o.logins
    BY <1>1 DEF Entries
  <1>6. removed \in Entries /\ removed.filed = o.filed \ {v} /\ removed.logins = o.logins \ {v}
    BY <1>1, <1>2 DEF Entries
  <1>7. /\ AddLogin(f, h, v) = With(f, h, added)
        /\ SetToken(f, h, v) = With(f, h, set)
        /\ ClearToken(f, h, v) = With(f, h, cleared)
        /\ RemoveLogin(f, h, v) = With(f, h, removed)
    BY DEF AddLogin, SetToken, ClearToken, RemoveLogin
  <1> HIDE DEF added, set, cleared, removed
  <1>8. Agree(f, With(f, h, added), k, u)
    BY <1>3, AgreeWith
  <1>9. Agree(f, With(f, h, set), k, u)
    BY <1>4, AgreeWith
  <1>10. Agree(f, With(f, h, cleared), k, u)
    BY <1>5, AgreeWith
  <1>11. Agree(f, With(f, h, removed), k, u)
    BY <1>6, AgreeWith
  <1> QED BY <1>7, <1>8, <1>9, <1>10, <1>11

(* remove_host takes nothing else along, when the host has no login left   *)
(* and so, in a sound file, no token.                                      *)
LEMMA AgreeHostGone ==
  ASSUME NEW f \in Files, NEW h \in Host,
         f.entry[h].logins = {}, f.entry[h].filed = {},
         NEW k \in Host, NEW u \in User
  PROVE  Agree(f, RemoveHost(f, h), k, u)
  <1>1. RemoveHost(f, h).entry = [f.entry EXCEPT ![h] = NoEntry]
    BY DEF RemoveHost, With, Files
  <1>2. CASE k = h
    BY <1>1, <1>2 DEF Agree, NoEntry, Files
  <1>3. CASE k # h
    BY <1>1, <1>3 DEF Agree, Files
  <1> QED BY <1>2, <1>3

(* Operations one after another. *)
LEMMA AgreeThen ==
  ASSUME NEW f, NEW g, NEW i, NEW k, NEW u, Agree(f, g, k, u), Agree(g, i, k, u)
  PROVE  Agree(f, i, k, u)
  BY DEF Agree

LEMMA AgreeSelf == ASSUME NEW f, NEW k, NEW u PROVE Agree(f, f, k, u)
  BY DEF Agree

(* What a step of p is to leave of login u on host h. *)
Spared(p, h, u) ==
  /\ <<h, u>> \in keyring <=> <<h, u>> \in keyring'
  /\ disk' # disk => Agree(mem[p].file, disk', h, u)
  /\ pc'[p] # "idle" => Agree(mem[p].file, mem'[p].file, h, u)

(* login, storing: the token and the login are those of the account the    *)
(* server named, which is the command's from this step on.                 *)
LEMMA StoreSecretSpares ==
  ASSUME IInv, NEW p \in Proc, StoreSecret(p), NEW h \in Host, NEW u \in User,
         <<h, u>> # <<job[p].host, job'[p].user>>
  PROVE  Spared(p, h, u)
  <1> DEFINE f == mem[p].file
             k == job[p].host
  <1>1. f \in Files /\ HostAdded(f, k) /\ job[p] \in Jobs
    BY Here DEF StoreSecret, At
  <1>2. k \in Host
    BY <1>1 DEF HostAdded, Files
  <1>3. DOMAIN job = Proc /\ DOMAIN mem = Proc
    BY DEF IInv, TypeOK
  <1>4. PICK v \in User, choice \in Choices, up \in {TRUE} \union {"keyring" \notin Faults} :
          LET inKeyring == choice = "none" /\ up
              listed == AddLogin(f, k, v)
          IN  /\ job' = [job EXCEPT ![p].user = v]
              /\ keyring' = IF inKeyring THEN keyring \union {<<k, v>>} ELSE keyring
              /\ Hold(p, IF inKeyring THEN SetCachedStore(listed, k, "keyring")
                         ELSE SetCachedStore(SetToken(listed, k, v), k, "file"))
    BY DEF StoreSecret
  <1>5. job'[p].user = v
    BY <1>1, <1>3, <1>4 DEF Jobs
  <1> DEFINE listed == AddLogin(f, k, v)
             filed == SetToken(listed, k, v)
  <1>6. listed \in Files /\ Agree(f, listed, h, u)
    BY <1>1, <1>2, <1>5, AddLoginSound, AgreeLogins
  <1>7. filed \in Files /\ Agree(f, filed, h, u)
    <2>1. Agree(listed, filed, h, u) /\ filed \in Files
      <3> HIDE DEF listed
      <3> QED BY <1>2, <1>5, <1>6, SetTokenSound, AgreeLogins
    <2> HIDE DEF filed, listed
    <2> QED BY <1>6, <2>1, AgreeThen
  <1>8. /\ mem'[p].file \in {SetCachedStore(listed, k, "keyring"), SetCachedStore(filed, k, "file")}
        /\ <<h, u>> \in keyring <=> <<h, u>> \in keyring'
        /\ disk' = disk
    BY <1>3, <1>4, <1>5 DEF Hold, StoreSecret
  <1>9. "keyring" \in Stores /\ "file" \in Stores
    BY DEF Stores
  <1> HIDE DEF listed, filed
  <1>10. Agree(f, mem'[p].file, h, u)
    BY <1>2, <1>6, <1>7, <1>8, <1>9, AgreeChoices, AgreeThen DEF Agree
  <1> QED BY <1>8, <1>10 DEF Spared

(* login, its first save and the choice of its login. *)
LEMMA SaveLoginSpares ==
  ASSUME IInv, NEW p \in Proc, SaveLogin(p), NEW h \in Host, NEW u \in User
  PROVE  Spared(p, h, u)
  <1> DEFINE f == mem[p].file
             k == job[p].host
             v == job[p].user
  <1>1. f \in Files /\ Listed(f, k, v)
    BY Here DEF SaveLogin, At
  <1>2. k \in f.hosts /\ k \in Host /\ v \in User
    BY <1>1 DEF Listed, Files, Entries
  <1>3. SetActive(f, k) \in Files /\ Agree(f, SetActive(f, k), h, u)
    BY <1>1, <1>2, SetActiveSound, AgreeChoices DEF Stores
  <1>4. Agree(SetActive(f, k), SelectLogin(SetActive(f, k), k, v), h, u)
    BY <1>2, <1>3, AgreeChoices DEF Stores
  <1>5. Agree(f, SelectLogin(SetActive(f, k), k, v), h, u)
    BY <1>3, <1>4, AgreeThen
  <1>6. DOMAIN pc = Proc /\ DOMAIN mem = Proc
    BY DEF IInv, TypeOK
  <1>7. keyring' = keyring /\ (disk' = disk \/ disk' = f)
    BY DEF SaveLogin, SaveFails, Write
  <1>8. pc'[p] = "idle" \/ mem'[p].file = SelectLogin(SetActive(f, k), k, v)
    BY <1>6 DEF SaveLogin, SaveFails, Finish, Hold
  <1> HIDE DEF f, k, v
  <1>9. disk' # disk => Agree(f, disk', h, u)
    BY <1>7, AgreeSelf
  <1> QED BY <1>5, <1>7, <1>8, <1>9 DEF Spared, f

(* logout: the token of the login that is logged out. *)
LEMMA ForgetSpares ==
  ASSUME IInv, NEW p \in Proc, Forget(p), NEW h \in Host, NEW u \in User,
         <<h, u>> # <<job[p].host, job[p].user>>
  PROVE  Spared(p, h, u)
  <1> DEFINE f == mem[p].file
             k == job[p].host
             v == job[p].user
  <1>1. f \in Files /\ Listed(f, k, v)
    BY Here DEF Forget, At
  <1>2. k \in Host /\ v \in User
    BY <1>1 DEF Listed, Files, Entries
  <1>3. Agree(f, ClearToken(f, k, v), h, u)
    BY <1>1, <1>2, AgreeLogins
  <1>4. DOMAIN mem = Proc
    BY DEF IInv, TypeOK
  <1>5. /\ mem'[p].file = ClearToken(f, k, v)
        /\ <<h, u>> \in keyring <=> <<h, u>> \in keyring'
        /\ disk' = disk
    BY <1>4 DEF Forget, Hold
  <1> QED BY <1>3, <1>5 DEF Spared

(* logout: the login that is logged out, and its host only when no login   *)
(* and so no token of another is left on it.                               *)
LEMMA SaveForgetSpares ==
  ASSUME IInv, NEW p \in Proc, SaveForget(p), NEW h \in Host, NEW u \in User,
         <<h, u>> # <<job[p].host, job[p].user>>
  PROVE  Spared(p, h, u)
  <1> DEFINE f == mem[p].file
             k == job[p].host
             v == job[p].user
             rest == RemoveLogin(f, k, v)
             g == IF rest.entry[k].logins = {} THEN RemoveHost(rest, k) ELSE rest
  <1>1. f \in Files /\ Integral(f) /\ Listed(f, k, v)
    BY Here DEF SaveForget, At
  <1>2. k \in f.hosts /\ k \in Host /\ v \in User
    BY <1>1 DEF Listed, Files, Entries
  <1>3. rest \in Files /\ Agree(f, rest, h, u)
    BY <1>1, <1>2, RemoveLoginSound, AgreeLogins
  <1>4. rest.entry[k].filed \subseteq rest.entry[k].logins
    <2> DEFINE e == [f.entry[k] EXCEPT
                       !.logins = @ \ {v}, !.filed = @ \ {v},
                       !.current = IF @ = v THEN First(f.entry[k].logins \ {v}) ELSE @]
    <2>1. e.logins = f.entry[k].logins \ {v} /\ e.filed = f.entry[k].filed \ {v}
      BY <1>1, <1>2, EntryOf DEF Entries
    <2>2. rest.entry[k] = e
      BY <1>1, <1>2 DEF RemoveLogin, With, Files
    <2> HIDE DEF rest, e
    <2> QED BY <1>1, <1>2, <2>1, <2>2 DEF Integral, EntrySound
  <1>5. DOMAIN pc = Proc /\ DOMAIN mem = Proc
    BY DEF IInv, TypeOK
  <1>6. keyring' = keyring /\ (disk' = disk \/ disk' = f)
    BY DEF SaveForget, SaveFails, Write
  <1>7. pc'[p] = "idle" \/ mem'[p].file = g
    BY <1>5 DEF SaveForget, SaveFails, Finish, Hold
  <1> HIDE DEF rest, f, k, v
  <1>8. Agree(f, g, h, u)
    <2>1. CASE rest.entry[k].logins = {}
      <3>1. rest.entry[k].filed = {}
        BY <1>4, <2>1
      <3>2. Agree(rest, RemoveHost(rest, k), h, u)
        BY <1>2, <1>3, <2>1, <3>1, AgreeHostGone
      <3> QED BY <1>3, <2>1, <3>2, AgreeThen
    <2>2. CASE rest.entry[k].logins # {}
      BY <1>3, <2>2
    <2> QED BY <2>1, <2>2
  <1> HIDE DEF g
  <1>9. disk' # disk => Agree(f, disk', h, u)
    BY <1>6, AgreeSelf
  <1> QED BY <1>6, <1>7, <1>8, <1>9 DEF Spared, f

(* switch: a choice of login, saved at once. *)
LEMMA SwitchSpares ==
  ASSUME IInv, NEW p \in Proc, Switch(p), NEW h \in Host, NEW u \in User
  PROVE  Spared(p, h, u)
  <1> DEFINE f == mem[p].file
  <1>1. f \in Files /\ pc'[p] = "idle" /\ keyring' = keyring
    BY Here DEF Switch, Finish, IInv, TypeOK
  <1>2. ASSUME NEW k \in f.hosts, NEW v \in f.entry[k].logins
        PROVE  Agree(f, SelectLogin(SetActive(f, k), k, v), h, u)
    <2>1. k \in Host /\ v \in User
      BY <1>1 DEF Files, Entries
    <2>2. SetActive(f, k) \in Files /\ Agree(f, SetActive(f, k), h, u)
      BY <1>1, <2>1, SetActiveSound, AgreeChoices DEF Stores
    <2>3. Agree(SetActive(f, k), SelectLogin(SetActive(f, k), k, v), h, u)
      BY <2>1, <2>2, AgreeChoices DEF Stores
    <2> QED BY <2>2, <2>3, AgreeThen
  <1>3. disk' # disk => Agree(f, disk', h, u)
    BY <1>2 DEF Switch
  <1> QED BY <1>1, <1>3 DEF Spared

(* Any other command: the search changes the cached store only. *)
LEMMA SearchSpares ==
  ASSUME IInv, NEW p \in Proc, Search(p), NEW h \in Host, NEW u \in User
  PROVE  Spared(p, h, u)
  <1>1. /\ mem[p].file \in Files /\ Listed(mem[p].file, job[p].host, job[p].user)
        /\ DOMAIN mem = Proc
    BY Here DEF Search, At, IInv, TypeOK
  <1>2. job[p].host \in Host /\ job[p].user \in User
    BY <1>1 DEF Listed, Files, Entries
  <1>3. \E k : \/ mem' = mem
               \/ mem'[p].file = SetCachedStore(mem[p].file, job[p].host, k)
    <2>1. PICK up \in {TRUE} \union {"keyring" \notin Faults} :
           LET host == job[p].host
               e == mem[p].file.entry[host]
               order == ReadOrder(e.store)
               has == {k \in order :
                         \/ k = "keyring" /\ up /\ <<host, job[p].user>> \in keyring
                         \/ k = "file" /\ job[p].user \in e.filed
                         \/ k = "env" /\ job[p].env}
               best == CASE "keyring" \in has -> "keyring"
                         [] "keyring" \notin has /\ "file" \in has -> "file"
                         [] has = {"env"} -> "env"
                         [] has = {} -> IF "keyring" \notin order THEN e.store
                                        ELSE IF up THEN "keyring" ELSE "file"
           IN  /\ mem' = IF best = e.store THEN mem
                         ELSE [mem EXCEPT ![p] = [file |-> SetCachedStore(@.file, host, best),
                                                  dirty |-> TRUE]]
               /\ Goto(p, IF has = {} THEN "missing" ELSE "found")
      BY DEF Search
    <2> DEFINE e == mem[p].file.entry[job[p].host]
               order == ReadOrder(e.store)
               has == {k \in order :
                         \/ k = "keyring" /\ up /\ <<job[p].host, job[p].user>> \in keyring
                         \/ k = "file" /\ job[p].user \in e.filed
                         \/ k = "env" /\ job[p].env}
               best == CASE "keyring" \in has -> "keyring"
                         [] "keyring" \notin has /\ "file" \in has -> "file"
                         [] has = {"env"} -> "env"
                         [] has = {} -> IF "keyring" \notin order THEN e.store
                                        ELSE IF up THEN "keyring" ELSE "file"
    <2>2. mem' = IF best = e.store THEN mem
                 ELSE [mem EXCEPT ![p] = [file |-> SetCachedStore(mem[p].file, job[p].host, best),
                                          dirty |-> TRUE]]
      BY <2>1
    <2> HIDE DEF best, has, order, e
    <2> QED BY <1>1, <2>2
  <1>4. \A k : Agree(mem[p].file, SetCachedStore(mem[p].file, job[p].host, k), h, u)
    BY <1>1, <1>2 DEF Agree, SetCachedStore, With, Files, Entries
  <1>5. Agree(mem[p].file, mem'[p].file, h, u)
    BY <1>3, <1>4, AgreeSelf
  <1> QED BY <1>5 DEF Spared, Search

(* The steps that end a command save its copy or nothing. *)
LEMMA EndSpares ==
  ASSUME IInv, NEW p \in Proc, NEW h \in Host, NEW u \in User,
         VerifyFails(p) \/ SaveActive(p) \/ SaveRemoved(p) \/ Decline(p)
           \/ SaveProbe(p) \/ Crash(p)
  PROVE  Spared(p, h, u)
  <1>1. pc'[p] = "idle" /\ keyring' = keyring /\ (disk' = disk \/ disk' = mem[p].file)
    BY DEF IInv, TypeOK, VerifyFails, SaveActive, SaveRemoved, Decline, SaveProbe, Crash,
       SaveLast, SaveFails, Finish, Write
  <1> QED BY <1>1, AgreeSelf DEF Spared

(* hosts.toml and the keyring: a command changes the login it is about     *)
(* and the token of no other.                                              *)
THEOREM OthersKept == Spec => OthersUntouched
  <1>1. ASSUME IInv, Next, NEW p \in Proc, NEW h \in Host, NEW u \in User,
               pc[p] # "idle", pc'[p] # pc[p], <<h, u>> \notin Concerned(p)
        PROVE  Spared(p, h, u)
    <2>1. PICK q \in Proc : Turn(q)
      BY <1>1 DEF Next, Turn
    <2>2. q = p
      BY <1>1, <2>1, OthersStand
    <2>3. ~Load(p)
      BY <1>1 DEF Load, LoadLogin, LoadLogout, LoadSwitch, LoadRun, Start
    <2>4. /\ <<h, u>> # <<job[p].host, job[p].user>>
          /\ <<h, u>> # <<job[p].host, job'[p].user>>
      BY <1>1 DEF Concerned
    <2>5. CASE StoreSecret(p)
      BY <1>1, <2>4, <2>5, StoreSecretSpares
    <2>6. CASE Forget(p) \/ SaveForget(p)
      BY <1>1, <2>4, <2>6, ForgetSpares, SaveForgetSpares
    <2>7. CASE SaveLogin(p) \/ Switch(p) \/ Search(p)
      BY <1>1, <2>7, SaveLoginSpares, SwitchSpares, SearchSpares
    <2>8. CASE VerifyFails(p) \/ SaveActive(p) \/ SaveRemoved(p) \/ Decline(p)
                 \/ SaveProbe(p) \/ Crash(p)
      BY <1>1, <2>8, EndSpares
    <2> QED BY <2>1, <2>2, <2>3, <2>5, <2>6, <2>7, <2>8 DEF Turn, Prompt, Advance
  <1>2. IInv /\ [Next]_vars =>
          [\A p \in Proc, h \in Host, u \in User :
             pc[p] # "idle" /\ pc'[p] # pc[p] /\ <<h, u>> \notin Concerned(p) =>
               /\ <<h, u>> \in keyring <=> <<h, u>> \in keyring'
               /\ disk' # disk => Agree(mem[p].file, disk', h, u)
               /\ pc'[p] # "idle" => Agree(mem[p].file, mem'[p].file, h, u)]_vars
    BY <1>1 DEF Spared
  <1> QED BY <1>2, IInvInit, IInvStep, PTL DEF Spec, OthersUntouched

-----------------------------------------------------------------------------
(* HostsFile puts the commands beside the system calls of a save: what was *)
(* shown of the commands holds there.                                      *)
LEMMA LevelSteps == [HostsFileNext]_hostsFileVars => [Next]_vars /\ [WriteNext]_writeVars
  BY DEF HostsFileNext, hostsFileVars, Editing, Saving

THEOREM Levels == HostsFileSpec => Spec /\ WriteSpec
  <1>1. HostsFileInit => Init /\ WriteInit
    BY DEF HostsFileInit
  <1> QED BY <1>1, LevelSteps, PTL DEF HostsFileSpec, Spec, WriteSpec

(* What the run of HostsFile checks of the commands, for every instance. *)
COROLLARY HostsSafe ==
  HostsFileSpec => /\ []DiskIntegral /\ []AlwaysResolvable
                   /\ LoginTakesEffect /\ OthersUntouched
  BY Levels, Integrity, Resolvable, LoginSteers, OthersKept, PTL
=============================================================================
