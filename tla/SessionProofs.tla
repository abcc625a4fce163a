----------------------------- MODULE SessionProofs -----------------------------
(***************************************************************************)
(* Whatever the number of invocations, the bound on documents, the faults   *)
(* and the configuration: types are kept, and no invocation uses a document *)
(* that was never durable.                                                 *)
(*                                                                         *)
(* Where a keyring works and nobody chooses the file, no document gets into *)
(* the file (FileFree).  A session stays renewable, a search that finds     *)
(* nothing is right and a logout leaves nothing where invocations follow    *)
(* one another (Solo), with stores chosen at will; it stays renewable too   *)
(* where any number run side by side with a keyring that works and none of  *)
(* them is a logout (SharedInv).                                           *)
(*                                                                         *)
(* And every invocation is within 13 steps of its end and each of its steps *)
(* brings it nearer, whatever fails (Left).                                *)
(***************************************************************************)
EXTENDS Session, TLAPS

(* The stores to search form a sequence of stores. *)
LEMMA ReadOrderType ==
  ASSUME NEW choice \in AllChoices, NEW cached \in Store \union {"unset"}
  PROVE  ReadOrder(choice, cached) \in Seq(Store)
  <1>1. <<"keyring", "file", "env">> \in Seq(Store)
    BY DEF Store
  <1>2. <<"file", "env">> \in Seq(Store)
    BY DEF Store
  <1>3. \A k \in Store : <<k>> \in Seq(Store)
    OBVIOUS
  <1>4. \A k \in Store : Chain(k) \in Seq(Store)
    BY <1>1, <1>2, <1>3 DEF Chain, Store
  <1>5. "file" \in Store /\ Preference \in Store
    BY SessionAssumption DEF SessionAssumption, Store
  <1> QED
    BY <1>3, <1>4, <1>5 DEF ReadOrder

(* What a store answers is a document, nothing, or the environment's token. *)
LEMMA ContentType ==
  ASSUME TypeOK, NEW p \in Proc, NEW k \in Store
  PROVE  Content(p, k) \in -1..MaxGen
  BY SessionAssumption DEF Content, Store, TypeOK, HostsFile, EnvToken, NoDoc, SessionAssumption

(* Remembering a store changes nothing but the cached store and the flag. *)
LEMMA CachedType ==
  ASSUME TypeOK, NEW p \in Proc, NEW k \in Store
  PROVE  /\ Cached(p, k) \in [file : HostsFile, dirty : BOOLEAN]
         /\ Cached(p, k).file.doc = mem[p].file.doc
  BY DEF Cached, TypeOK, HostsFile

(* The end of an invocation leaves its slot well typed. *)
LEMMA FinishType ==
  ASSUME TypeOK, NEW p \in Proc, Finish(p)
  PROVE  /\ pc' \in [Proc -> PC]
         /\ job' \in [Proc -> [cmd : AllCommands, choice : AllChoices, env : BOOLEAN]]
         /\ mem' \in [Proc -> [file : HostsFile, dirty : BOOLEAN]]
         /\ todo' \in [Proc -> Seq(Store)]
         /\ held' \in [Proc -> -1..MaxGen]
         /\ fresh' \in [Proc -> 0..MaxGen]
         /\ late' \in [Proc -> -1..MaxGen]
  <1>1. <<>> \in Seq(Store)
    OBVIOUS
  <1>2. NoDoc \in -1..MaxGen /\ NoDoc \in 0..MaxGen /\ NoWrite \in -1..MaxGen
    BY SessionAssumption DEF NoDoc, NoWrite, SessionAssumption
  <1>3. [file |-> NoHosts, dirty |-> FALSE] \in [file : HostsFile, dirty : BOOLEAN]
    BY SessionAssumption DEF NoHosts, HostsFile, NoDoc, SessionAssumption
  <1>4. NoJob \in [cmd : AllCommands, choice : AllChoices, env : BOOLEAN]
    BY DEF NoJob, AllCommands, AllChoices
  <1>5. "idle" \in PC
    BY DEF PC
  <1> QED
    BY <1>1, <1>2, <1>3, <1>4, <1>5 DEF TypeOK, Finish

-----------------------------------------------------------------------------
(* No invocation has begun and nothing is stored. *)
LEMMA TypeInit == Init => TypeOK
  <1> SUFFICES ASSUME Init PROVE TypeOK
    OBVIOUS
  <1>1. <<>> \in Seq(Store) /\ "idle" \in PC
    BY DEF PC
  <1>2. /\ NoDoc \in -1..MaxGen /\ NoDoc \in 0..MaxGen /\ NoWrite \in -1..MaxGen
        /\ 0 \in 0..MaxGen
    BY SessionAssumption DEF NoDoc, NoWrite, SessionAssumption
  <1>3. NoHosts \in HostsFile
    BY <1>2 DEF NoHosts, HostsFile
  <1>4. NoJob \in [cmd : AllCommands, choice : AllChoices, env : BOOLEAN]
    BY DEF NoJob, AllCommands, AllChoices
  <1> QED
    BY <1>1, <1>2, <1>3, <1>4 DEF Init, TypeOK

(* Moving an invocation, and marking its snapshot clean. *)
LEMMA MoveType ==
  ASSUME TypeOK, NEW p \in Proc
  PROVE  /\ \A label \in PC : Goto(p, label) => pc' \in [Proc -> PC]
         /\ Clean(p) => mem' \in [Proc -> [file : HostsFile, dirty : BOOLEAN]]
         /\ mem[p].file \in HostsFile
  <1>1. \A label \in PC : Goto(p, label) => pc' \in [Proc -> PC]
    BY DEF TypeOK, Goto
  <1>2. mem \in [Proc -> [file : HostsFile, dirty : BOOLEAN]]
    BY DEF TypeOK
  <1>3. Clean(p) => mem' \in [Proc -> [file : HostsFile, dirty : BOOLEAN]]
    BY <1>2 DEF Clean
  <1> QED BY <1>1, <1>2, <1>3

(* Making documents durable keeps the history a set of documents. *)
LEMMA DurableType ==
  ASSUME TypeOK, NEW docs, docs \subseteq -1..MaxGen, NoWrite \notin docs, Durable(docs)
  PROVE  recorded' \subseteq Gen
  BY SessionAssumption DEF TypeOK, Durable, Gen, NoDoc, NoWrite, SessionAssumption

(* A save keeps the file and the history well typed. *)
LEMMA WriteType ==
  ASSUME TypeOK, NEW p \in Proc, WriteFile(p, mem[p].file)
  PROVE  disk' \in HostsFile /\ recorded' \subseteq Gen
  <1>1. mem[p].file \in HostsFile /\ mem[p].file.doc \in 0..MaxGen
    BY DEF TypeOK, HostsFile
  <1>2. {mem[p].file.doc} \subseteq -1..MaxGen /\ NoWrite \notin {mem[p].file.doc}
    BY <1>1, SessionAssumption DEF NoWrite, SessionAssumption
  <1>3. recorded' \subseteq Gen
    BY <1>2, DurableType DEF WriteFile
  <1> QED
    BY <1>1, <1>3 DEF WriteFile

(* So does what follows a failure between minting and recording. *)
LEMMA AbandonType ==
  ASSUME TypeOK, NEW p \in Proc, AbandonFresh(p)
  PROVE  /\ pc' \in [Proc -> PC]
         /\ job' \in [Proc -> [cmd : AllCommands, choice : AllChoices, env : BOOLEAN]]
         /\ mem' \in [Proc -> [file : HostsFile, dirty : BOOLEAN]]
         /\ todo' \in [Proc -> Seq(Store)]
         /\ held' \in [Proc -> -1..MaxGen]
         /\ fresh' \in [Proc -> 0..MaxGen]
         /\ late' \in [Proc -> -1..MaxGen]
  <1>1. CASE job[p].cmd = "login"
    BY <1>1, FinishType DEF AbandonFresh
  <1>2. CASE job[p].cmd # "login"
    <2>1. "ready" \in PC /\ NoDoc \in 0..MaxGen
      BY SessionAssumption DEF PC, NoDoc, SessionAssumption
    <2> QED
      BY <1>2, <2>1 DEF AbandonFresh, TypeOK, Goto
  <1> QED
    BY <1>1, <1>2

(* Every step keeps the types. *)
LEMMA TypeStep == TypeOK /\ [Next]_vars => TypeOK'
  <1> SUFFICES ASSUME TypeOK, [Next]_vars PROVE TypeOK'
    OBVIOUS
  <1> USE DEF server
  <1>a. MaxGen \in Nat
    BY SessionAssumption DEF SessionAssumption
  <1>1. ASSUME NEW p \in Proc, SearchFound(p) PROVE TypeOK'
    <2>1. Head(todo[p]) \in Store /\ <<>> \in Seq(Store)
      BY <1>1 DEF SearchFound, TypeOK
    <2>2. Content(p, Head(todo[p])) \in -1..MaxGen
      BY <2>1, ContentType
    <2>3. Cached(p, Head(todo[p])) \in [file : HostsFile, dirty : BOOLEAN]
      BY <2>1, CachedType
    <2>4. pc' \in [Proc -> PC]
      BY <1>1, MoveType DEF SearchFound, PC
    <2> QED
      BY <1>1, <2>1, <2>2, <2>3, <2>4 DEF SearchFound, TypeOK
  <1>2. ASSUME NEW p \in Proc, SearchMissing(p) PROVE TypeOK'
    <2>1. Tail(todo[p]) \in Seq(Store) /\ "keyring" \in Store
      BY <1>2 DEF SearchMissing, TypeOK, Store
    <2>2. Cached(p, "keyring") \in [file : HostsFile, dirty : BOOLEAN]
      BY <2>1, CachedType
    <2> QED
      BY <1>2, <2>1, <2>2 DEF SearchMissing, TypeOK
  <1>3. ASSUME NEW p \in Proc, SearchUnavailable(p) PROVE TypeOK'
    <2>1. Tail(todo[p]) \in Seq(Store) /\ "file" \in Store
      BY <1>3 DEF SearchUnavailable, TypeOK, Store
    <2>2. Cached(p, "file") \in [file : HostsFile, dirty : BOOLEAN]
      BY <2>1, CachedType
    <2> QED
      BY <1>3, <2>1, <2>2 DEF SearchUnavailable, TypeOK
  <1>4. ASSUME NEW p \in Proc, SearchExhausted(p) PROVE TypeOK'
    <2>1. pc' \in [Proc -> PC]
      BY <1>4, MoveType DEF SearchExhausted, PC
    <2> QED
      BY <1>4, <2>1 DEF SearchExhausted, TypeOK
  <1>5. ASSUME NEW p \in Proc, SaveProbe(p) PROVE TypeOK'
    <2>1. AfterProbe(p) \in PC
      BY DEF AfterProbe, PC
    <2>2. pc' \in [Proc -> PC]
      BY <1>5, <2>1, MoveType DEF SaveProbe
    <2>3. disk' \in HostsFile /\ recorded' \subseteq Gen
          /\ mem' \in [Proc -> [file : HostsFile, dirty : BOOLEAN]]
      <3>1. CASE WriteFile(p, mem[p].file) /\ Clean(p)
        BY <3>1, WriteType, MoveType
      <3>2. CASE UNCHANGED <<disk, recorded, mem>>
        BY <3>2 DEF TypeOK
      <3> QED
        BY <1>5, <3>1, <3>2 DEF SaveProbe
    <2> QED
      BY <1>5, <2>2, <2>3 DEF SaveProbe, TypeOK
  <1>6. ASSUME NEW p \in Proc, NEW spent, Mint(p, spent)
        PROVE  /\ minted' \in 0..MaxGen /\ honoured' \subseteq Gen
               /\ fresh' \in [Proc -> 0..MaxGen]
    <2>1. minted + 1 \in 0..MaxGen /\ minted + 1 \in Gen
      BY <1>6, <1>a DEF Mint, TypeOK, Gen
    <2> QED
      BY <1>6, <2>1 DEF Mint, TypeOK
  <1>7. ASSUME NEW p \in Proc, ServerRotates(p) PROVE TypeOK'
    <2>1. pc' \in [Proc -> PC]
      BY <1>7, MoveType DEF ServerRotates, PC
    <2>2. /\ minted' \in 0..MaxGen /\ honoured' \subseteq Gen
          /\ fresh' \in [Proc -> 0..MaxGen] /\ UNCHANGED lapsed
      BY <1>6, <1>7 DEF ServerRotates, Mint
    <2> QED
      BY <1>7, <2>1, <2>2 DEF ServerRotates, TypeOK
  <1>8. ASSUME NEW p \in Proc, RefreshRefused(p) PROVE TypeOK'
    <2>1. pc' \in [Proc -> PC]
      BY <1>8, MoveType DEF RefreshRefused, PC
    <2> QED
      BY <1>8, <2>1 DEF RefreshRefused, TypeOK
  <1>9. ASSUME NEW p \in Proc, Authorised(p) PROVE TypeOK'
    <2>1. pc' \in [Proc -> PC]
      BY <1>9, MoveType DEF Authorised, PC
    <2>2. /\ minted' \in 0..MaxGen /\ honoured' \subseteq Gen
          /\ fresh' \in [Proc -> 0..MaxGen] /\ UNCHANGED lapsed
      BY <1>6, <1>9 DEF Authorised, Mint
    <2> QED
      BY <1>9, <2>1, <2>2 DEF Authorised, TypeOK
  <1>10. ASSUME NEW p \in Proc, AuthoriseFails(p) PROVE TypeOK'
    BY <1>10, FinishType DEF AuthoriseFails, TypeOK
  <1>11. ASSUME NEW p \in Proc, SaveActive(p) PROVE TypeOK'
    <2>1. disk' \in HostsFile /\ recorded' \subseteq Gen
      BY <1>11, WriteType DEF SaveActive, TypeOK
    <2> QED
      BY <1>11, <2>1, FinishType DEF SaveActive, TypeOK
  <1>12. ASSUME NEW p \in Proc, TokensReceived(p) PROVE TypeOK'
    <2>1. [mem[p].file EXCEPT !.listed = TRUE] \in HostsFile
      BY MoveType DEF HostsFile
    <2>2. pc' \in [Proc -> PC]
      BY <1>12, MoveType DEF TokensReceived, PC
    <2> QED
      BY <1>12, <2>1, <2>2 DEF TokensReceived, TypeOK
  <1>13. ASSUME NEW p \in Proc, AnswerLost(p) PROVE TypeOK'
    BY <1>13, AbandonType DEF AnswerLost, TypeOK
  <1>14. ASSUME NEW p \in Proc, StoreToKeyring(p) PROVE TypeOK'
    <2>1. fresh[p] \in 0..MaxGen /\ {fresh[p]} \subseteq -1..MaxGen /\ NoWrite \notin {fresh[p]}
      BY <1>a DEF TypeOK, NoWrite
    <2>2. recorded' \subseteq Gen
      BY <1>14, <2>1, DurableType DEF StoreToKeyring
    <2>3. pc' \in [Proc -> PC]
      BY <1>14, MoveType DEF StoreToKeyring, PC
    <2>4. mem' \in [Proc -> [file : HostsFile, dirty : BOOLEAN]]
      BY <1>14 DEF StoreToKeyring, TypeOK, HostsFile, Store
    <2> QED
      BY <1>14, <2>1, <2>2, <2>3, <2>4 DEF StoreToKeyring, TypeOK
  <1>15. ASSUME NEW p \in Proc, StoreUnavailable(p) PROVE TypeOK'
    <2>1. pc' \in [Proc -> PC]
      BY <1>15, MoveType DEF StoreUnavailable, PC
    <2>2. fresh[p] \in -1..MaxGen /\ late \in [Proc -> -1..MaxGen]
      BY <1>a DEF TypeOK
    <2>3. late' \in [Proc -> -1..MaxGen]
      BY <1>15, <2>2 DEF StoreUnavailable
    <2> QED
      BY <1>15, <2>1, <2>3 DEF StoreUnavailable, TypeOK
  <1>16. ASSUME NEW p \in Proc, StoreToFile(p) PROVE TypeOK'
    <2>1. pc' \in [Proc -> PC]
      BY <1>16, MoveType DEF StoreToFile, PC
    <2>2. fresh[p] \in 0..MaxGen /\ "file" \in Store
      BY DEF TypeOK, Store
    <2>3. [mem[p].file EXCEPT !.cached = "file", !.doc = fresh[p]] \in HostsFile
      BY <2>2, MoveType DEF HostsFile
    <2>4. mem' = [mem EXCEPT ![p].file = [mem[p].file EXCEPT !.cached = "file", !.doc = fresh[p]]]
      <3>1. mem \in [Proc -> [file : HostsFile, dirty : BOOLEAN]]
        BY DEF TypeOK
      <3>2. mem' = [mem EXCEPT ![p].file.cached = "file", ![p].file.doc = fresh[p]]
        BY <1>16 DEF StoreToFile
      <3> QED BY <3>1, <3>2 DEF HostsFile
    <2>5. mem' \in [Proc -> [file : HostsFile, dirty : BOOLEAN]]
      BY <2>3, <2>4 DEF TypeOK
    <2> QED
      BY <1>16, <2>1, <2>5 DEF StoreToFile, TypeOK
  <1>17. ASSUME NEW p \in Proc, StoreToEnv(p) PROVE TypeOK'
    BY <1>17, AbandonType DEF StoreToEnv, TypeOK
  <1>18. ASSUME NEW p \in Proc, SaveFresh(p) PROVE TypeOK'
    <2>1. disk' \in HostsFile /\ recorded' \subseteq Gen
      BY <1>18, WriteType DEF SaveFresh
    <2>2. mem' \in [Proc -> [file : HostsFile, dirty : BOOLEAN]]
      BY <1>18, MoveType DEF SaveFresh
    <2>3. pc' \in [Proc -> PC]
      BY <1>18, MoveType DEF SaveFresh, PC
    <2>4. fresh[p] \in -1..MaxGen /\ held \in [Proc -> -1..MaxGen]
      BY <1>a DEF TypeOK
    <2>5. held' \in [Proc -> -1..MaxGen]
      BY <1>18, <2>4 DEF SaveFresh
    <2> QED
      BY <1>18, <2>1, <2>2, <2>3, <2>5 DEF SaveFresh, TypeOK
  <1>19. ASSUME NEW p \in Proc, SaveFreshFails(p) PROVE TypeOK'
    BY <1>19, AbandonType DEF SaveFreshFails, TypeOK
  <1>20. ASSUME NEW p \in Proc, Forget(p) PROVE TypeOK'
    <2>1. NoDoc \in 0..MaxGen /\ NoDoc \in -1..MaxGen
      BY <1>a DEF NoDoc
    <2>2. [mem[p].file EXCEPT !.doc = NoDoc] \in HostsFile
      BY <2>1, MoveType DEF HostsFile
    <2>3. pc' \in [Proc -> PC]
      BY <1>20, MoveType DEF Forget, PC
    <2>4. late' \in [Proc -> -1..MaxGen] /\ keyring' \in 0..MaxGen
      BY <1>20, <2>1 DEF Forget, TypeOK
    <2> QED
      BY <1>20, <2>2, <2>3, <2>4 DEF Forget, TypeOK
  <1>21. ASSUME NEW p \in Proc, SaveForget(p) PROVE TypeOK'
    <2>1. CASE /\ WriteFile(p, mem[p].file)
               /\ mem' = [mem EXCEPT ![p] = [file |-> NoHosts, dirty |-> TRUE]]
               /\ Goto(p, "saveRemoved")
               /\ UNCHANGED <<job, todo, held, fresh, late>>
      <3>1. disk' \in HostsFile /\ recorded' \subseteq Gen
        BY <2>1, WriteType
      <3>2. NoHosts \in HostsFile
        BY <1>a DEF NoHosts, HostsFile, NoDoc
      <3>3. pc' \in [Proc -> PC]
        BY <2>1, MoveType DEF PC
      <3>4. mem' \in [Proc -> [file : HostsFile, dirty : BOOLEAN]]
        BY <2>1, <3>2 DEF TypeOK
      <3> QED
        BY <1>21, <2>1, <3>1, <3>3, <3>4 DEF SaveForget, TypeOK
    <2>2. CASE Finish(p) /\ UNCHANGED <<disk, recorded>>
      BY <1>21, <2>2, FinishType DEF SaveForget, TypeOK
    <2> QED
      BY <1>21, <2>1, <2>2 DEF SaveForget
  <1>22. ASSUME NEW p \in Proc, SaveRemoved(p) PROVE TypeOK'
    <2>1. disk' \in HostsFile /\ recorded' \subseteq Gen
      BY <1>22, WriteType DEF SaveRemoved, TypeOK
    <2> QED
      BY <1>22, <2>1, FinishType DEF SaveRemoved, TypeOK
  <1>23. ASSUME NEW p \in Proc, Switch(p) PROVE TypeOK'
    <2>1. disk' \in HostsFile /\ recorded' \subseteq Gen
      BY <1>23, WriteType DEF Switch, TypeOK
    <2> QED
      BY <1>23, <2>1, FinishType DEF Switch, TypeOK
  <1>24. ASSUME NEW p \in Proc, Decline(p) PROVE TypeOK'
    BY <1>24, FinishType DEF Decline, TypeOK
  <1>25. ASSUME NEW p \in Proc, SendRequests(p) PROVE TypeOK'
    <2>1. pc' \in [Proc -> PC]
      BY <1>25, MoveType DEF SendRequests, PC
    <2> QED
      BY <1>25, <2>1 DEF SendRequests, TypeOK
  <1>26. ASSUME NEW p \in Proc, Exit(p) PROVE TypeOK'
    BY <1>26, FinishType DEF Exit, TypeOK
  <1>27. ASSUME NEW p \in Proc, Crash(p) PROVE TypeOK'
    BY <1>27, FinishType DEF Crash, TypeOK
  <1>28. ASSUME NEW p \in Proc, Load(p) PROVE TypeOK'
    <2>1. PICK c \in Commands, choice \in Choices, env \in EnvTokens :
            /\ job' = [job EXCEPT ![p] = [cmd |-> c, choice |-> choice, env |-> env]]
            /\ Goto(p, CASE c = "login"  -> "authorise"
                         [] c = "logout" -> "confirm"
                         [] c = "switch" -> "choose"
                         [] OTHER        -> "search")
            /\ todo' = [todo EXCEPT ![p] =
                          IF c \notin {"run", "git", "status"} THEN <<>>
                          ELSE IF disk.listed THEN ReadOrder(choice, disk.cached)
                          ELSE <<"env">>]
      BY <1>28 DEF Load
    <2>2. c \in AllCommands /\ choice \in AllChoices /\ env \in BOOLEAN
      BY SessionAssumption DEF SessionAssumption
    <2>3. job' \in [Proc -> [cmd : AllCommands, choice : AllChoices, env : BOOLEAN]]
      BY <2>1, <2>2 DEF TypeOK
    <2>4. pc' \in [Proc -> PC]
      BY <2>1, MoveType DEF PC
    <2>5. ReadOrder(choice, disk.cached) \in Seq(Store)
      BY <2>2, ReadOrderType DEF TypeOK, HostsFile
    <2>6. <<>> \in Seq(Store) /\ <<"env">> \in Seq(Store)
      BY DEF Store
    <2>7. todo' \in [Proc -> Seq(Store)]
      BY <2>1, <2>5, <2>6 DEF TypeOK
    <2>8. mem' \in [Proc -> [file : HostsFile, dirty : BOOLEAN]]
      BY <1>28 DEF Load, TypeOK
    <2> QED
      BY <1>28, <2>3, <2>4, <2>7, <2>8 DEF Load, TypeOK
  <1>29. ASSUME NEW p \in Proc, LateWriteLands(p) PROVE TypeOK'
    <2>1. late[p] \in 0..MaxGen /\ late[p] # NoWrite /\ {late[p]} \subseteq -1..MaxGen
      BY <1>29, <1>a DEF LateWriteLands, TypeOK, NoWrite
    <2>2. recorded' \subseteq Gen
      BY <1>29, <2>1, DurableType DEF LateWriteLands
    <2>3. late' \in [Proc -> -1..MaxGen]
      BY <1>29, <1>a DEF LateWriteLands, TypeOK, NoWrite
    <2> QED
      BY <1>29, <2>1, <2>2, <2>3 DEF LateWriteLands, TypeOK
  <1>30. ASSUME Lapse PROVE TypeOK'
    BY <1>30, <1>a DEF Lapse, TypeOK
  <1>31. CASE UNCHANGED vars
    BY <1>31 DEF vars, TypeOK
  <1> QED
    BY <1>1, <1>2, <1>3, <1>4, <1>5, <1>7, <1>8, <1>9, <1>10, <1>11, <1>12, <1>13, <1>14, <1>15, <1>16, <1>17, <1>18, <1>19, <1>20, <1>21, <1>22, <1>23, <1>24, <1>25, <1>26, <1>27, <1>28, <1>29, <1>30, <1>31 DEF Next, Advance, Search, Renew, Login, Keep, Prompt, Logout

(* Every variable keeps its type. *)
THEOREM Typing == Spec => []TypeOK
  <1> QED
    BY TypeInit, TypeStep, PTL DEF Spec

-----------------------------------------------------------------------------
(* The strengthening: a snapshot holds only durable documents until the new *)
(* one is put in it, and by the time that snapshot is to be saved the new   *)
(* one is durable or in it.                                                 *)
Kept == recorded \union {NoDoc}

Safe(p) ==
  /\ fresh[p] \in 0..minted
  /\ late[p] \in -1..minted
  /\ held[p] \in Kept \union {EnvToken}
  /\ pc[p] \notin {"saveFresh", "ready", "use"} => mem[p].file.doc \in Kept
  /\ pc[p] = "saveFresh" => /\ mem[p].file.doc \in Kept \union {fresh[p]}
                            /\ fresh[p] \in Kept \union {mem[p].file.doc}

CustodyInv ==
  /\ recorded \subseteq 1..minted
  /\ keyring \in Kept
  /\ disk.doc \in Kept
  /\ \A p \in Proc : Safe(p)

(* Only invocation p moves: the others stay as they are. *)
Others(p) ==
  \A q \in Proc \ {p} :
    /\ pc'[q] = pc[q] /\ mem'[q] = mem[q] /\ held'[q] = held[q]
    /\ fresh'[q] = fresh[q] /\ late'[q] = late[q]

(* What the others hold stays durable, so only p needs a second look. *)
LEMMA OneMoves ==
  ASSUME TypeOK, CustodyInv, NEW p \in Proc, Others(p), Safe(p)',
         recorded \subseteq recorded', recorded' \subseteq 1..minted',
         minted' \in Nat, minted' >= minted,
         keyring' \in Kept', disk'.doc \in Kept'
  PROVE  CustodyInv'
  <1>1. minted \in Nat /\ minted' \in Nat
    BY SessionAssumption DEF TypeOK, SessionAssumption
  <1>2. ASSUME NEW q \in Proc, q # p PROVE Safe(q)'
    <2>1. Safe(q)
      BY DEF CustodyInv
    <2>2. fresh'[q] \in 0..minted' /\ late'[q] \in -1..minted'
      BY <1>1, <1>2, <2>1 DEF Safe, Others
    <2>3. pc'[q] = pc[q] /\ mem'[q] = mem[q] /\ held'[q] = held[q] /\ fresh'[q] = fresh[q]
      BY <1>2 DEF Others
    <2>4. Kept \subseteq Kept'
      BY DEF Kept
    <2> QED
      BY <2>1, <2>2, <2>3, <2>4 DEF Safe
  <1> QED
    BY <1>2 DEF CustodyInv

(* An invocation that ends holds nothing. *)
LEMMA FinishSafe ==
  ASSUME TypeOK, NEW p \in Proc, Finish(p), minted' \in Nat
  PROVE  Others(p) /\ Safe(p)'
  <1>1. Others(p)
    BY DEF Finish, Others, TypeOK
  <1>2. /\ pc'[p] = "idle" /\ mem'[p].file = NoHosts
        /\ held'[p] = NoDoc /\ fresh'[p] = NoDoc /\ late'[p] = NoWrite
    BY DEF Finish, TypeOK
  <1>3. NoDoc \in 0..minted' /\ NoWrite \in -1..minted'
    BY DEF NoDoc, NoWrite
  <1> QED
    BY <1>1, <1>2, <1>3 DEF Safe, Kept, NoHosts, NoDoc

(* A failed store or save drops the new document. *)
LEMMA AbandonSafe ==
  ASSUME TypeOK, CustodyInv, NEW p \in Proc, AbandonFresh(p), UNCHANGED <<minted, recorded>>
  PROVE  Others(p) /\ Safe(p)'
  <1>0. minted \in Nat /\ minted' = minted
    BY SessionAssumption DEF TypeOK, SessionAssumption
  <1>1. CASE job[p].cmd = "login"
    BY <1>0, <1>1, FinishSafe DEF AbandonFresh
  <1>2. CASE job[p].cmd # "login"
    <2>1. Others(p)
      BY <1>2 DEF AbandonFresh, Goto, Others, TypeOK
    <2>2. /\ pc'[p] = "ready" /\ fresh'[p] = NoDoc
          /\ late'[p] = late[p] /\ held'[p] = held[p]
      BY <1>2 DEF AbandonFresh, Goto, TypeOK
    <2>3. Safe(p)
      BY DEF CustodyInv
    <2> QED
      BY <1>0, <2>1, <2>2, <2>3 DEF Safe, Kept, NoDoc
  <1> QED
    BY <1>1, <1>2

(* A save makes the snapshot's document durable. *)
LEMMA WriteSafe ==
  ASSUME TypeOK, CustodyInv, NEW p \in Proc, pc[p] \notin {"ready", "use"},
         WriteFile(p, mem[p].file), UNCHANGED minted
  PROVE  /\ recorded \subseteq recorded' /\ recorded' \subseteq 1..minted'
         /\ disk'.doc = mem[p].file.doc /\ mem[p].file.doc \in Kept'
  <1>1. mem[p].file.doc \in 0..minted
    <2>1. Safe(p) /\ recorded \subseteq 1..minted /\ minted \in Nat
      BY SessionAssumption DEF CustodyInv, TypeOK, SessionAssumption
    <2>2. Kept \subseteq 0..minted
      BY <2>1 DEF Kept, NoDoc
    <2>3. mem[p].file.doc \in Kept \union {fresh[p]} /\ fresh[p] \in 0..minted
      BY <2>1 DEF Safe
    <2> QED
      BY <2>2, <2>3
  <1>2. recorded' = recorded \union ({mem[p].file.doc} \ {NoDoc}) /\ disk' = mem[p].file
    BY DEF WriteFile, Durable
  <1>3. recorded \subseteq 1..minted /\ minted \in Nat
    BY SessionAssumption DEF CustodyInv, TypeOK, SessionAssumption
  <1>4. {mem[p].file.doc} \ {NoDoc} \subseteq 1..minted
    BY <1>1, <1>3 DEF NoDoc
  <1>5. recorded \subseteq recorded' /\ recorded' \subseteq 1..minted'
    BY <1>2, <1>3, <1>4
  <1> QED
    BY <1>2, <1>5 DEF Kept, NoDoc

(* Nothing is in hand at the start. *)
LEMMA CustodyInit == Init => CustodyInv
  <1> SUFFICES ASSUME Init PROVE CustodyInv
    OBVIOUS
  <1>1. ASSUME NEW p \in Proc PROVE Safe(p)
    <2>1. 0 \in 0..minted /\ -1 \in -1..minted
      BY DEF Init
    <2> QED
      BY <2>1 DEF Init, Safe, Kept, NoDoc, NoWrite, NoHosts
  <1> QED
    BY <1>1 DEF Init, CustodyInv, Kept, NoHosts, NoDoc

(* Every step keeps custody: what is in hand has been durable. *)
LEMMA CustodyStep == TypeOK /\ CustodyInv /\ [Next]_vars => CustodyInv'
  <1> SUFFICES ASSUME TypeOK, CustodyInv, [Next]_vars PROVE CustodyInv'
    OBVIOUS
  <1> USE DEF server
  <1>a. /\ minted \in Nat /\ recorded \subseteq 1..minted
        /\ keyring \in Kept /\ disk.doc \in Kept /\ \A p \in Proc : Safe(p)
    BY SessionAssumption DEF TypeOK, CustodyInv, SessionAssumption
  <1>b. ASSUME NEW p \in Proc, Others(p), Safe(p)', UNCHANGED <<disk, keyring, minted, recorded>>
        PROVE  CustodyInv'
    <2>1. minted' \in Nat /\ minted' >= minted /\ recorded \subseteq recorded' /\ recorded' \subseteq 1..minted'
      BY <1>a, <1>b
    <2>2. keyring' \in Kept' /\ disk'.doc \in Kept'
      BY <1>a, <1>b DEF Kept
    <2> QED
      BY <1>b, <2>1, <2>2, OneMoves
  <1>1. ASSUME NEW p \in Proc, SearchFound(p) PROVE CustodyInv'
    <2>1. Others(p) /\ UNCHANGED <<disk, keyring, minted, recorded>>
      BY <1>1 DEF SearchFound, Goto, Others, TypeOK
    <2>2. Content(p, Head(todo[p])) \in Kept \union {EnvToken}
      <3>1. Head(todo[p]) \in Store
        BY <1>1 DEF SearchFound, TypeOK
      <3>2. mem[p].file.doc \in Kept
        BY <1>1, <1>a DEF SearchFound, Safe
      <3> QED
        BY <1>a, <3>1, <3>2 DEF Content, Store, Kept
    <2>3. mem'[p].file.doc = mem[p].file.doc
      <3>1. Head(todo[p]) \in Store
        BY <1>1 DEF SearchFound, TypeOK
      <3> QED
        BY <1>1, <3>1, CachedType DEF SearchFound, TypeOK
    <2>4. Safe(p)'
      BY <1>1, <1>a, <2>1, <2>2, <2>3 DEF SearchFound, Safe, Kept, Goto, TypeOK
    <2> QED
      BY <1>b, <2>1, <2>4
  <1>2. ASSUME NEW p \in Proc, SearchMissing(p) PROVE CustodyInv'
    <2>1. Others(p) /\ UNCHANGED <<disk, keyring, minted, recorded>>
      BY <1>2 DEF SearchMissing, Goto, Others, TypeOK
    <2>2. mem'[p].file.doc = mem[p].file.doc
      BY <1>2, CachedType DEF SearchMissing, TypeOK, Store
    <2>3. Safe(p)'
      BY <1>2, <1>a, <2>1, <2>2 DEF SearchMissing, Safe, Kept
    <2> QED
      BY <1>b, <2>1, <2>3
  <1>3. ASSUME NEW p \in Proc, SearchUnavailable(p) PROVE CustodyInv'
    <2>1. Others(p) /\ UNCHANGED <<disk, keyring, minted, recorded>>
      BY <1>3 DEF SearchUnavailable, Goto, Others, TypeOK
    <2>2. mem'[p].file.doc = mem[p].file.doc
      BY <1>3, CachedType DEF SearchUnavailable, TypeOK, Store
    <2>3. Safe(p)'
      BY <1>3, <1>a, <2>1, <2>2 DEF SearchUnavailable, Safe, Kept
    <2> QED
      BY <1>b, <2>1, <2>3
  <1>4. ASSUME NEW p \in Proc, SearchExhausted(p) PROVE CustodyInv'
    <2>1. Others(p) /\ UNCHANGED <<disk, keyring, minted, recorded>>
      BY <1>4 DEF SearchExhausted, Goto, Others, TypeOK
    <2>2. Safe(p)'
      BY <1>4, <1>a, <2>1 DEF SearchExhausted, Safe, Kept, Goto, TypeOK
    <2> QED
      BY <1>b, <2>1, <2>2
  <1>5. ASSUME NEW p \in Proc, RefreshRefused(p) PROVE CustodyInv'
    <2>1. Others(p) /\ UNCHANGED <<disk, keyring, minted, recorded>>
      BY <1>5 DEF RefreshRefused, Goto, Others, TypeOK
    <2>2. Safe(p)'
      BY <1>5, <1>a, <2>1 DEF RefreshRefused, Safe, Kept, Goto, TypeOK
    <2> QED
      BY <1>b, <2>1, <2>2
  <1>6. ASSUME NEW p \in Proc, SendRequests(p) PROVE CustodyInv'
    <2>1. Others(p) /\ UNCHANGED <<disk, keyring, minted, recorded>>
      BY <1>6 DEF SendRequests, Goto, Others, TypeOK
    <2>2. Safe(p)'
      BY <1>6, <1>a, <2>1 DEF SendRequests, Safe, Kept, Goto, TypeOK
    <2> QED
      BY <1>b, <2>1, <2>2
  <1>7. ASSUME NEW p \in Proc, SaveProbe(p) PROVE CustodyInv'
    <2>1. Others(p) /\ mem'[p].file = mem[p].file /\ UNCHANGED <<held, fresh, late, keyring, minted>>
      BY <1>7 DEF SaveProbe, Goto, Clean, Others, TypeOK
    <2>2. pc[p] = "probed" /\ pc'[p] \in {"refresh", "ready"}
      BY <1>7 DEF SaveProbe, Goto, AfterProbe, TypeOK
    <2>3. /\ recorded \subseteq recorded' /\ recorded' \subseteq 1..minted'
          /\ disk'.doc \in Kept' /\ mem[p].file.doc \in Kept'
      <3>1. CASE WriteFile(p, mem[p].file)
        BY <2>1, <2>2, <3>1, WriteSafe
      <3>2. CASE UNCHANGED <<disk, recorded>>
        BY <1>a, <2>1, <2>2, <3>2 DEF Kept, Safe
      <3> QED
        BY <1>7, <3>1, <3>2 DEF SaveProbe
    <2>4. Safe(p)'
      BY <1>a, <2>1, <2>2, <2>3 DEF Safe, Kept
    <2>5. keyring' \in Kept' /\ minted' \in Nat /\ minted' >= minted
      BY <1>a, <2>1, <2>3 DEF Kept
    <2> QED
      BY <2>1, <2>3, <2>4, <2>5, OneMoves
  <1>8. ASSUME NEW p \in Proc, ServerRotates(p) PROVE CustodyInv'
    <2>1. Others(p) /\ UNCHANGED <<disk, keyring, recorded, mem, held, late>>
      BY <1>8 DEF ServerRotates, Mint, Goto, Others, TypeOK
    <2>2. minted' = minted + 1 /\ fresh'[p] = minted + 1 /\ pc[p] = "refresh" /\ pc'[p] = "answer"
      BY <1>8 DEF ServerRotates, Mint, Goto, TypeOK
    <2>3. Safe(p)'
      BY <1>a, <2>1, <2>2 DEF Safe, Kept
    <2>4. /\ minted' \in Nat /\ minted' >= minted
          /\ recorded \subseteq recorded' /\ recorded' \subseteq 1..minted'
      BY <1>a, <2>1, <2>2
    <2>5. keyring' \in Kept' /\ disk'.doc \in Kept'
      BY <1>a, <2>1 DEF Kept
    <2> QED
      BY <2>1, <2>3, <2>4, <2>5, OneMoves
  <1>9. ASSUME NEW p \in Proc, Authorised(p) PROVE CustodyInv'
    <2>1. Others(p) /\ UNCHANGED <<disk, keyring, recorded, mem, held, late>>
      BY <1>9 DEF Authorised, Mint, Goto, Others, TypeOK
    <2>2. minted' = minted + 1 /\ fresh'[p] = minted + 1 /\ pc[p] = "authorise" /\ pc'[p] = "answer"
      BY <1>9 DEF Authorised, Mint, Goto, TypeOK
    <2>3. Safe(p)'
      BY <1>a, <2>1, <2>2 DEF Safe, Kept
    <2>4. /\ minted' \in Nat /\ minted' >= minted
          /\ recorded \subseteq recorded' /\ recorded' \subseteq 1..minted'
      BY <1>a, <2>1, <2>2
    <2>5. keyring' \in Kept' /\ disk'.doc \in Kept'
      BY <1>a, <2>1 DEF Kept
    <2> QED
      BY <2>1, <2>3, <2>4, <2>5, OneMoves
  <1>10. ASSUME NEW p \in Proc, AuthoriseFails(p) PROVE CustodyInv'
    <2>1. UNCHANGED <<disk, keyring, minted, recorded>> /\ Finish(p)
      BY <1>10 DEF AuthoriseFails
    <2> QED
      BY <1>a, <1>b, <2>1, FinishSafe
  <1>11. ASSUME NEW p \in Proc, Decline(p) PROVE CustodyInv'
    <2>1. UNCHANGED <<disk, keyring, minted, recorded>> /\ Finish(p)
      BY <1>11 DEF Decline
    <2> QED
      BY <1>a, <1>b, <2>1, FinishSafe
  <1>12. ASSUME NEW p \in Proc, Exit(p) PROVE CustodyInv'
    <2>1. UNCHANGED <<disk, keyring, minted, recorded>> /\ Finish(p)
      BY <1>12 DEF Exit
    <2> QED
      BY <1>a, <1>b, <2>1, FinishSafe
  <1>13. ASSUME NEW p \in Proc, Crash(p) PROVE CustodyInv'
    <2>1. UNCHANGED <<disk, keyring, minted, recorded>> /\ Finish(p)
      BY <1>13 DEF Crash
    <2> QED
      BY <1>a, <1>b, <2>1, FinishSafe
  <1>14. ASSUME NEW p \in Proc, AnswerLost(p) PROVE CustodyInv'
    <2>1. UNCHANGED <<disk, keyring, minted, recorded>> /\ AbandonFresh(p)
      BY <1>14 DEF AnswerLost
    <2> QED
      BY <1>b, <2>1, AbandonSafe
  <1>15. ASSUME NEW p \in Proc, StoreToEnv(p) PROVE CustodyInv'
    <2>1. UNCHANGED <<disk, keyring, minted, recorded>> /\ AbandonFresh(p)
      BY <1>15 DEF StoreToEnv
    <2> QED
      BY <1>b, <2>1, AbandonSafe
  <1>16. ASSUME NEW p \in Proc, SaveFreshFails(p) PROVE CustodyInv'
    <2>1. UNCHANGED <<disk, keyring, minted, recorded>> /\ AbandonFresh(p)
      BY <1>16 DEF SaveFreshFails
    <2> QED
      BY <1>b, <2>1, AbandonSafe
  <1>17. ASSUME NEW p \in Proc, TokensReceived(p) PROVE CustodyInv'
    <2>1. Others(p) /\ UNCHANGED <<disk, keyring, minted, recorded>>
      BY <1>17 DEF TokensReceived, Goto, Others, TypeOK
    <2>2. mem'[p].file.doc = mem[p].file.doc
      BY <1>17 DEF TokensReceived, TypeOK, HostsFile
    <2>3. Safe(p)'
      BY <1>17, <1>a, <2>1, <2>2 DEF TokensReceived, Safe, Kept, Goto, TypeOK
    <2> QED
      BY <1>b, <2>1, <2>3
  <1>18. ASSUME NEW p \in Proc, StoreToKeyring(p) PROVE CustodyInv'
    <2>1. Others(p) /\ UNCHANGED <<disk, minted, held, fresh, late>>
      BY <1>18 DEF StoreToKeyring, Goto, Others, TypeOK
    <2>2. /\ mem'[p].file.doc = mem[p].file.doc /\ keyring' = fresh[p]
          /\ pc[p] = "store" /\ pc'[p] = "saveFresh"
          /\ recorded' = recorded \union ({fresh[p]} \ {NoDoc})
      BY <1>18 DEF StoreToKeyring, Goto, Durable, TypeOK, HostsFile
    <2>3. fresh[p] \in 0..minted
      BY <1>a DEF Safe
    <2>4. Safe(p)'
      BY <1>a, <2>1, <2>2, <2>3 DEF Safe, Kept
    <2>5. /\ minted' \in Nat /\ minted' >= minted
          /\ recorded \subseteq recorded' /\ recorded' \subseteq 1..minted'
      <3>1. {fresh[p]} \ {NoDoc} \subseteq 1..minted
        BY <1>a, <2>3 DEF NoDoc
      <3>2. /\ minted' = minted /\ minted \in Nat /\ recorded \subseteq 1..minted
            /\ recorded' = recorded \union ({fresh[p]} \ {NoDoc})
        BY <1>a, <2>1, <2>2
      <3>3. minted' \in Nat /\ minted' >= minted
        BY <3>2
      <3>4. recorded \subseteq recorded' /\ recorded' \subseteq 1..minted
        BY <3>1, <3>2
      <3> QED
        BY <3>2, <3>3, <3>4
    <2>6. keyring' \in Kept' /\ disk'.doc \in Kept'
      BY <1>a, <2>1, <2>2 DEF Kept
    <2> QED
      BY <2>1, <2>4, <2>5, <2>6, OneMoves
  <1>19. ASSUME NEW p \in Proc, StoreUnavailable(p) PROVE CustodyInv'
    <2>1. Others(p) /\ UNCHANGED <<disk, keyring, minted, recorded, mem, held, fresh>>
      BY <1>19 DEF StoreUnavailable, Goto, Others, TypeOK
    <2>2. /\ pc[p] = "store" /\ pc'[p] = "storeFile"
          /\ late'[p] = late[p] \/ late'[p] = fresh[p]
      BY <1>19 DEF StoreUnavailable, Goto, TypeOK
    <2>3. Safe(p)'
      BY <1>a, <2>1, <2>2 DEF Safe, Kept
    <2> QED
      BY <1>b, <2>1, <2>3
  <1>20. ASSUME NEW p \in Proc, StoreToFile(p) PROVE CustodyInv'
    <2>1. Others(p) /\ UNCHANGED <<disk, keyring, minted, recorded>>
      BY <1>20 DEF StoreToFile, Goto, Others, TypeOK
    <2>2. mem'[p].file.doc = fresh[p] /\ pc'[p] = "saveFresh" /\ UNCHANGED <<held, fresh, late>>
      BY <1>20 DEF StoreToFile, Goto, TypeOK, HostsFile
    <2>3. Safe(p)'
      BY <1>a, <2>1, <2>2 DEF Safe, Kept
    <2> QED
      BY <1>b, <2>1, <2>3
  <1>21. ASSUME NEW p \in Proc, SaveFresh(p) PROVE CustodyInv'
    <2>1. Others(p) /\ mem'[p].file = mem[p].file /\ UNCHANGED <<fresh, late, keyring, minted>>
      BY <1>21 DEF SaveFresh, Goto, Clean, Others, TypeOK
    <2>2. /\ pc[p] = "saveFresh" /\ pc'[p] \in {"saveActive", "ready"}
          /\ held'[p] \in {held[p], fresh[p]}
      BY <1>21 DEF SaveFresh, Goto, TypeOK
    <2>3. /\ recorded \subseteq recorded' /\ recorded' \subseteq 1..minted'
          /\ disk'.doc \in Kept' /\ mem[p].file.doc \in Kept'
      BY <1>21, <2>1, <2>2, WriteSafe DEF SaveFresh
    <2>4. fresh[p] \in Kept'
      BY <1>a, <2>2, <2>3 DEF Safe, Kept
    <2>5. Safe(p)'
      <3>1. Safe(p) /\ Kept \subseteq Kept' /\ minted' = minted
        BY <1>a, <2>1, <2>3 DEF Kept
      <3> QED
        BY <2>1, <2>2, <2>3, <2>4, <3>1 DEF Safe
    <2>6. keyring' \in Kept' /\ minted' \in Nat /\ minted' >= minted
      <3>1. minted' = minted /\ minted \in Nat /\ keyring' = keyring /\ keyring \in Kept
        BY <1>a, <2>1
      <3>2. recorded \subseteq recorded'
        BY <2>3
      <3>3. keyring' \in Kept'
        BY <3>1, <3>2 DEF Kept
      <3> QED
        BY <3>1, <3>3
    <2> QED
      BY <2>1, <2>3, <2>5, <2>6, OneMoves
  <1>22. ASSUME NEW p \in Proc, Forget(p) PROVE CustodyInv'
    <2>1. Others(p) /\ UNCHANGED <<disk, minted, recorded, held, fresh>>
      BY <1>22 DEF Forget, Goto, Others, TypeOK
    <2>2. /\ mem'[p].file.doc = NoDoc /\ pc'[p] = "saveForget"
          /\ late'[p] \in {late[p], NoDoc} /\ keyring' \in {keyring, NoDoc}
      BY <1>22 DEF Forget, Goto, TypeOK, HostsFile
    <2>3. Safe(p)'
      BY <1>a, <2>1, <2>2 DEF Safe, Kept, NoDoc
    <2>4. /\ minted' \in Nat /\ minted' >= minted
          /\ recorded \subseteq recorded' /\ recorded' \subseteq 1..minted'
          /\ keyring' \in Kept' /\ disk'.doc \in Kept'
      BY <1>a, <2>1, <2>2 DEF Kept
    <2> QED
      BY <2>1, <2>3, <2>4, OneMoves
  <1>23. ASSUME NEW p \in Proc, SaveActive(p) PROVE CustodyInv'
    <2>1. pc[p] \notin {"ready", "use"} /\ UNCHANGED <<keyring, minted>>
      BY <1>23 DEF SaveActive
    <2>2. /\ recorded \subseteq recorded' /\ recorded' \subseteq 1..minted' /\ disk'.doc \in Kept'
      <3>1. CASE WriteFile(p, mem[p].file)
        BY <2>1, <3>1, WriteSafe
      <3>2. CASE UNCHANGED <<disk, recorded>>
        BY <1>a, <2>1, <3>2 DEF Kept
      <3> QED
        BY <1>23, <3>1, <3>2 DEF SaveActive
    <2>3. keyring' \in Kept' /\ minted' \in Nat /\ minted' >= minted
      BY <1>a, <2>1, <2>2 DEF Kept
    <2> QED
      BY <1>23, <2>2, <2>3, FinishSafe, OneMoves DEF SaveActive
  <1>24. ASSUME NEW p \in Proc, SaveRemoved(p) PROVE CustodyInv'
    <2>1. pc[p] \notin {"ready", "use"} /\ UNCHANGED <<keyring, minted>>
      BY <1>24 DEF SaveRemoved
    <2>2. /\ recorded \subseteq recorded' /\ recorded' \subseteq 1..minted' /\ disk'.doc \in Kept'
      <3>1. CASE WriteFile(p, mem[p].file)
        BY <2>1, <3>1, WriteSafe
      <3>2. CASE UNCHANGED <<disk, recorded>>
        BY <1>a, <2>1, <3>2 DEF Kept
      <3> QED
        BY <1>24, <3>1, <3>2 DEF SaveRemoved
    <2>3. keyring' \in Kept' /\ minted' \in Nat /\ minted' >= minted
      BY <1>a, <2>1, <2>2 DEF Kept
    <2> QED
      BY <1>24, <2>2, <2>3, FinishSafe, OneMoves DEF SaveRemoved
  <1>25. ASSUME NEW p \in Proc, Switch(p) PROVE CustodyInv'
    <2>1. pc[p] \notin {"ready", "use"} /\ UNCHANGED <<keyring, minted>>
      BY <1>25 DEF Switch
    <2>2. /\ recorded \subseteq recorded' /\ recorded' \subseteq 1..minted' /\ disk'.doc \in Kept'
      <3>1. CASE WriteFile(p, mem[p].file)
        BY <2>1, <3>1, WriteSafe
      <3>2. CASE UNCHANGED <<disk, recorded>>
        BY <1>a, <2>1, <3>2 DEF Kept
      <3> QED
        BY <1>25, <3>1, <3>2 DEF Switch
    <2>3. keyring' \in Kept' /\ minted' \in Nat /\ minted' >= minted
      BY <1>a, <2>1, <2>2 DEF Kept
    <2> QED
      BY <1>25, <2>2, <2>3, FinishSafe, OneMoves DEF Switch
  <1>26. ASSUME NEW p \in Proc, SaveForget(p) PROVE CustodyInv'
    <2>1. pc[p] \notin {"ready", "use"} /\ UNCHANGED <<keyring, minted>>
      BY <1>26 DEF SaveForget
    <2>2. /\ recorded \subseteq recorded' /\ recorded' \subseteq 1..minted' /\ disk'.doc \in Kept'
      <3>1. CASE WriteFile(p, mem[p].file)
        BY <2>1, <3>1, WriteSafe
      <3>2. CASE UNCHANGED <<disk, recorded>>
        BY <1>a, <2>1, <3>2 DEF Kept
      <3> QED
        BY <1>26, <3>1, <3>2 DEF SaveForget
    <2>3. keyring' \in Kept' /\ minted' \in Nat /\ minted' >= minted
      BY <1>a, <2>1, <2>2 DEF Kept
    <2>4. CASE Finish(p)
      BY <2>2, <2>3, <2>4, FinishSafe, OneMoves
    <2>5. CASE /\ mem' = [mem EXCEPT ![p] = [file |-> NoHosts, dirty |-> TRUE]]
               /\ Goto(p, "saveRemoved")
               /\ UNCHANGED <<job, todo, held, fresh, late>>
      <3>1. Others(p) /\ pc'[p] = "saveRemoved" /\ mem'[p].file = NoHosts
        BY <2>5 DEF Others, Goto, TypeOK
      <3>2. Safe(p) /\ Kept \subseteq Kept' /\ NoHosts.doc \in Kept' /\ minted' = minted
        BY <1>a, <2>1, <2>2 DEF Kept, NoHosts
      <3>3. Safe(p)'
        BY <2>5, <3>1, <3>2 DEF Safe
      <3> QED
        BY <2>2, <2>3, <3>1, <3>3, OneMoves
    <2> QED
      BY <1>26, <2>4, <2>5 DEF SaveForget
  <1>27. ASSUME NEW p \in Proc, Load(p) PROVE CustodyInv'
    <2>1. Others(p) /\ UNCHANGED <<disk, keyring, minted, recorded>>
      BY <1>27 DEF Load, Goto, Others, TypeOK
    <2>2. mem'[p].file = disk /\ UNCHANGED <<held, fresh, late>>
      BY <1>27 DEF Load, TypeOK
    <2>3. pc'[p] # "saveFresh"
      BY <1>27 DEF Load, Goto, TypeOK
    <2>4. Safe(p)'
      BY <1>a, <2>1, <2>2, <2>3 DEF Safe, Kept
    <2> QED
      BY <1>b, <2>1, <2>4
  <1>28. ASSUME NEW p \in Proc, LateWriteLands(p) PROVE CustodyInv'
    <2>1. Others(p) /\ UNCHANGED <<disk, minted, pc, mem, held, fresh>>
      BY <1>28 DEF LateWriteLands, Others, TypeOK
    <2>2. /\ late[p] # NoWrite /\ keyring' = late[p] /\ late'[p] = NoWrite
          /\ recorded' = recorded \union ({late[p]} \ {NoDoc})
      BY <1>28 DEF LateWriteLands, Durable, TypeOK
    <2>3. late[p] \in 0..minted
      BY <1>a, <2>2 DEF Safe, NoWrite
    <2>4. Safe(p)'
      BY <1>a, <2>1, <2>2, <2>3 DEF Safe, Kept, NoWrite
    <2>5. /\ minted' \in Nat /\ minted' >= minted
          /\ recorded \subseteq recorded' /\ recorded' \subseteq 1..minted'
      <3>1. {late[p]} \ {NoDoc} \subseteq 1..minted
        BY <1>a, <2>3 DEF NoDoc
      <3>2. /\ minted' = minted /\ minted \in Nat /\ recorded \subseteq 1..minted
            /\ recorded' = recorded \union ({late[p]} \ {NoDoc})
        BY <1>a, <2>1, <2>2
      <3>3. minted' \in Nat /\ minted' >= minted
        BY <3>2
      <3>4. recorded \subseteq recorded' /\ recorded' \subseteq 1..minted
        BY <3>1, <3>2
      <3> QED
        BY <3>2, <3>3, <3>4
    <2>6. keyring' \in Kept' /\ disk'.doc \in Kept'
      BY <1>a, <2>1, <2>2 DEF Kept
    <2> QED
      BY <2>1, <2>4, <2>5, <2>6, OneMoves
  <1>29. ASSUME Lapse \/ UNCHANGED vars PROVE CustodyInv'
    <2>1. UNCHANGED <<disk, keyring, minted, recorded, pc, mem, held, fresh, late>>
      BY <1>29 DEF Lapse, vars
    <2> QED
      BY <2>1 DEF CustodyInv, Safe, Kept
  <1> QED
    BY <1>1, <1>2, <1>3, <1>4, <1>5, <1>6, <1>7, <1>8, <1>9, <1>10, <1>11, <1>12, <1>13, <1>14, <1>15, <1>16, <1>17, <1>18, <1>19, <1>20, <1>21, <1>22, <1>23, <1>24, <1>25, <1>26, <1>27, <1>28, <1>29
       DEF Next, Advance, Search, Renew, Login, Keep, Prompt, Logout

(* No invocation sends requests with a document that never reached the     *)
(* keyring or hosts.toml.                                                  *)
THEOREM Custodial == Spec => []NewTokenRecordedBeforeUse
  <1>1. CustodyInv => NewTokenRecordedBeforeUse
    BY DEF CustodyInv, Safe, Kept, NewTokenRecordedBeforeUse
  <1> QED
    BY <1>1, TypeInit, TypeStep, CustodyInit, CustodyStep, PTL DEF Spec

-----------------------------------------------------------------------------
(* The session implements TokenCustody. *)
InUse == [p \in Proc |-> IF pc[p] = "use" THEN held[p] ELSE -2]

CustodyNext == [Custody!Next]_(Custody!vars)

(* A step that begins and ends outside "use" shows nothing of itself. *)
LEMMA SameUse ==
  ASSUME NEW p \in Proc, Others(p), pc[p] # "use", pc'[p] # "use"
  PROVE  InUse' = InUse
  <1>1. ASSUME NEW q \in Proc PROVE (IF pc[q] = "use" THEN held[q] ELSE -2)'
                                     = IF pc[q] = "use" THEN held[q] ELSE -2
    BY DEF Others
  <1> QED
    BY <1>1 DEF InUse

(* Making one document durable is Record, or nothing if there was none. *)
LEMMA RecordStep ==
  ASSUME NEW d \in 0..minted, InUse' = InUse, UNCHANGED minted, minted \in Nat,
         recorded' = recorded \union ({d} \ {NoDoc})
  PROVE  CustodyNext
  <1>1. CASE d = NoDoc
    BY <1>1 DEF CustodyNext, Custody!vars, InUse
  <1>2. CASE d # NoDoc
    <2>1. d \in 1..minted /\ recorded' = recorded \union {d}
      BY <1>2 DEF NoDoc
    <2>2. Custody!Record
      BY <2>1 DEF Custody!Record, InUse
    <2> QED
      BY <2>2 DEF CustodyNext, Custody!Next
  <1> QED
    BY <1>1, <1>2

(* Nothing minted, nothing recorded, nothing used: a stutter. *)
LEMMA StutterStep ==
  ASSUME InUse' = InUse, UNCHANGED <<minted, recorded>>
  PROVE  CustodyNext
  BY DEF CustodyNext, Custody!vars, InUse

(* A save outside "use", or none. *)
LEMMA WriteStep ==
  ASSUME TypeOK, CustodyInv, NEW p \in Proc, Others(p),
         pc[p] \notin {"ready", "use"}, pc'[p] # "use", UNCHANGED minted,
         WriteFile(p, mem[p].file) \/ UNCHANGED <<disk, recorded>>
  PROVE  CustodyNext
  <1>1. InUse' = InUse
    BY SameUse
  <1>2. CASE UNCHANGED <<disk, recorded>>
    BY <1>1, <1>2, StutterStep
  <1>3. CASE WriteFile(p, mem[p].file)
    <2>1. Safe(p) /\ recorded \subseteq 1..minted /\ minted \in Nat
      BY SessionAssumption DEF CustodyInv, TypeOK, SessionAssumption
    <2>2. Kept \subseteq 0..minted
      BY <2>1 DEF Kept, NoDoc
    <2>3. mem[p].file.doc \in Kept \union {fresh[p]} /\ fresh[p] \in 0..minted
      BY <2>1 DEF Safe
    <2>4. recorded' = recorded \union ({mem[p].file.doc} \ {NoDoc})
      BY <1>3 DEF WriteFile, Durable
    <2> QED
      BY <1>1, <2>1, <2>2, <2>3, <2>4, RecordStep
  <1> QED
    BY <1>2, <1>3

(* Every step is a step of TokenCustody or none of its business. *)
LEMMA RefinementStep == TypeOK /\ CustodyInv /\ [Next]_vars => CustodyNext
  <1> SUFFICES ASSUME TypeOK, CustodyInv, [Next]_vars PROVE CustodyNext
    OBVIOUS
  <1> USE DEF server
  <1>a. minted \in Nat /\ \A p \in Proc : Safe(p)
    BY SessionAssumption DEF TypeOK, CustodyInv, SessionAssumption
  <1>1. ASSUME NEW p \in Proc, SearchFound(p) PROVE CustodyNext
    <2>1. Others(p) /\ UNCHANGED <<minted, recorded>>
      BY <1>1 DEF SearchFound, Goto, Others, TypeOK
    <2>2. pc[p] # "use" /\ pc'[p] # "use"
      BY <1>1 DEF SearchFound, Goto, TypeOK
    <2> QED
      BY <2>1, <2>2, SameUse, StutterStep
  <1>2. ASSUME NEW p \in Proc, SearchMissing(p) PROVE CustodyNext
    <2>1. Others(p) /\ UNCHANGED <<minted, recorded>>
      BY <1>2 DEF SearchMissing, Goto, Others, TypeOK
    <2>2. pc[p] # "use" /\ pc'[p] # "use"
      BY <1>2 DEF SearchMissing, Goto, TypeOK
    <2> QED
      BY <2>1, <2>2, SameUse, StutterStep
  <1>3. ASSUME NEW p \in Proc, SearchUnavailable(p) PROVE CustodyNext
    <2>1. Others(p) /\ UNCHANGED <<minted, recorded>>
      BY <1>3 DEF SearchUnavailable, Goto, Others, TypeOK
    <2>2. pc[p] # "use" /\ pc'[p] # "use"
      BY <1>3 DEF SearchUnavailable, Goto, TypeOK
    <2> QED
      BY <2>1, <2>2, SameUse, StutterStep
  <1>4. ASSUME NEW p \in Proc, SearchExhausted(p) PROVE CustodyNext
    <2>1. Others(p) /\ UNCHANGED <<minted, recorded>>
      BY <1>4 DEF SearchExhausted, Goto, Others, TypeOK
    <2>2. pc[p] # "use" /\ pc'[p] # "use"
      BY <1>4 DEF SearchExhausted, Goto, TypeOK
    <2> QED
      BY <2>1, <2>2, SameUse, StutterStep
  <1>5. ASSUME NEW p \in Proc, RefreshRefused(p) PROVE CustodyNext
    <2>1. Others(p) /\ UNCHANGED <<minted, recorded>>
      BY <1>5 DEF RefreshRefused, Goto, Others, TypeOK
    <2>2. pc[p] # "use" /\ pc'[p] # "use"
      BY <1>5 DEF RefreshRefused, Goto, TypeOK
    <2> QED
      BY <2>1, <2>2, SameUse, StutterStep
  <1>6. ASSUME NEW p \in Proc, TokensReceived(p) PROVE CustodyNext
    <2>1. Others(p) /\ UNCHANGED <<minted, recorded>>
      BY <1>6 DEF TokensReceived, Goto, Others, TypeOK
    <2>2. pc[p] # "use" /\ pc'[p] # "use"
      BY <1>6 DEF TokensReceived, Goto, TypeOK
    <2> QED
      BY <2>1, <2>2, SameUse, StutterStep
  <1>7. ASSUME NEW p \in Proc, StoreUnavailable(p) PROVE CustodyNext
    <2>1. Others(p) /\ UNCHANGED <<minted, recorded>>
      BY <1>7 DEF StoreUnavailable, Goto, Others, TypeOK
    <2>2. pc[p] # "use" /\ pc'[p] # "use"
      BY <1>7 DEF StoreUnavailable, Goto, TypeOK
    <2> QED
      BY <2>1, <2>2, SameUse, StutterStep
  <1>8. ASSUME NEW p \in Proc, StoreToFile(p) PROVE CustodyNext
    <2>1. Others(p) /\ UNCHANGED <<minted, recorded>>
      BY <1>8 DEF StoreToFile, Goto, Others, TypeOK
    <2>2. pc[p] # "use" /\ pc'[p] # "use"
      BY <1>8 DEF StoreToFile, Goto, TypeOK
    <2> QED
      BY <2>1, <2>2, SameUse, StutterStep
  <1>9. ASSUME NEW p \in Proc, Load(p) PROVE CustodyNext
    <2>1. Others(p) /\ UNCHANGED <<minted, recorded>>
      BY <1>9 DEF Load, Goto, Others, TypeOK
    <2>2. pc[p] # "use" /\ pc'[p] # "use"
      BY <1>9 DEF Load, Goto, TypeOK
    <2> QED
      BY <2>1, <2>2, SameUse, StutterStep
  <1>10. ASSUME NEW p \in Proc, AuthoriseFails(p) PROVE CustodyNext
    <2>1. Others(p) /\ pc[p] # "use" /\ pc'[p] # "use" /\ UNCHANGED <<minted, recorded>>
      BY <1>10 DEF AuthoriseFails, Finish, Others, TypeOK
    <2> QED
      BY <2>1, SameUse, StutterStep
  <1>11. ASSUME NEW p \in Proc, Decline(p) PROVE CustodyNext
    <2>1. Others(p) /\ pc[p] # "use" /\ pc'[p] # "use" /\ UNCHANGED <<minted, recorded>>
      BY <1>11 DEF Decline, Finish, Others, TypeOK
    <2> QED
      BY <2>1, SameUse, StutterStep
  <1>12. ASSUME NEW p \in Proc, AnswerLost(p) PROVE CustodyNext
    <2>1. AbandonFresh(p) /\ pc[p] # "use" /\ UNCHANGED <<minted, recorded>>
      BY <1>12 DEF AnswerLost
    <2>2. Others(p)
      BY <2>1, AbandonSafe
    <2>3. pc'[p] # "use"
      BY <2>1 DEF AbandonFresh, Finish, Goto, TypeOK
    <2> QED
      BY <2>1, <2>2, <2>3, SameUse, StutterStep
  <1>13. ASSUME NEW p \in Proc, StoreToEnv(p) PROVE CustodyNext
    <2>1. AbandonFresh(p) /\ pc[p] # "use" /\ UNCHANGED <<minted, recorded>>
      BY <1>13 DEF StoreToEnv
    <2>2. Others(p)
      BY <2>1, AbandonSafe
    <2>3. pc'[p] # "use"
      BY <2>1 DEF AbandonFresh, Finish, Goto, TypeOK
    <2> QED
      BY <2>1, <2>2, <2>3, SameUse, StutterStep
  <1>14. ASSUME NEW p \in Proc, SaveFreshFails(p) PROVE CustodyNext
    <2>1. AbandonFresh(p) /\ pc[p] # "use" /\ UNCHANGED <<minted, recorded>>
      BY <1>14 DEF SaveFreshFails
    <2>2. Others(p)
      BY <2>1, AbandonSafe
    <2>3. pc'[p] # "use"
      BY <2>1 DEF AbandonFresh, Finish, Goto, TypeOK
    <2> QED
      BY <2>1, <2>2, <2>3, SameUse, StutterStep
  <1>15. ASSUME NEW p \in Proc, SaveProbe(p) PROVE CustodyNext
    <2>1. Others(p) /\ UNCHANGED minted
      BY <1>15 DEF SaveProbe, Goto, Clean, Others, TypeOK
    <2>2. pc[p] = "probed" /\ pc'[p] # "use"
      BY <1>15 DEF SaveProbe, Goto, AfterProbe, TypeOK
    <2>3. WriteFile(p, mem[p].file) \/ UNCHANGED <<disk, recorded>>
      BY <1>15 DEF SaveProbe
    <2> QED
      BY <2>1, <2>2, <2>3, WriteStep
  <1>16. ASSUME NEW p \in Proc, SaveFresh(p) PROVE CustodyNext
    <2>1. Others(p) /\ UNCHANGED minted
      BY <1>16 DEF SaveFresh, Goto, Clean, Others, TypeOK
    <2>2. pc[p] = "saveFresh" /\ pc'[p] # "use"
      BY <1>16 DEF SaveFresh, Goto, TypeOK
    <2> QED
      BY <1>16, <2>1, <2>2, WriteStep DEF SaveFresh
  <1>17. ASSUME NEW p \in Proc, SaveActive(p) PROVE CustodyNext
    <2>1. Others(p) /\ UNCHANGED minted
      BY <1>17 DEF SaveActive, Finish, Others, TypeOK
    <2>2. pc[p] \notin {"ready", "use"} /\ pc'[p] # "use"
      BY <1>17 DEF SaveActive, Finish, TypeOK
    <2>3. WriteFile(p, mem[p].file) \/ UNCHANGED <<disk, recorded>>
      BY <1>17 DEF SaveActive
    <2> QED
      BY <2>1, <2>2, <2>3, WriteStep
  <1>18. ASSUME NEW p \in Proc, SaveRemoved(p) PROVE CustodyNext
    <2>1. Others(p) /\ UNCHANGED minted
      BY <1>18 DEF SaveRemoved, Finish, Others, TypeOK
    <2>2. pc[p] \notin {"ready", "use"} /\ pc'[p] # "use"
      BY <1>18 DEF SaveRemoved, Finish, TypeOK
    <2>3. WriteFile(p, mem[p].file) \/ UNCHANGED <<disk, recorded>>
      BY <1>18 DEF SaveRemoved
    <2> QED
      BY <2>1, <2>2, <2>3, WriteStep
  <1>19. ASSUME NEW p \in Proc, Switch(p) PROVE CustodyNext
    <2>1. Others(p) /\ UNCHANGED minted
      BY <1>19 DEF Switch, Finish, Others, TypeOK
    <2>2. pc[p] \notin {"ready", "use"} /\ pc'[p] # "use"
      BY <1>19 DEF Switch, Finish, TypeOK
    <2>3. WriteFile(p, mem[p].file) \/ UNCHANGED <<disk, recorded>>
      BY <1>19 DEF Switch
    <2> QED
      BY <2>1, <2>2, <2>3, WriteStep
  <1>20. ASSUME NEW p \in Proc, SaveForget(p) PROVE CustodyNext
    <2>1. Others(p) /\ UNCHANGED minted
      BY <1>20 DEF SaveForget, Finish, Goto, Others, TypeOK
    <2>2. pc[p] = "saveForget" /\ pc'[p] # "use"
      BY <1>20 DEF SaveForget, Finish, Goto, TypeOK
    <2>3. WriteFile(p, mem[p].file) \/ UNCHANGED <<disk, recorded>>
      BY <1>20 DEF SaveForget
    <2> QED
      BY <2>1, <2>2, <2>3, WriteStep
  <1>21. ASSUME NEW p \in Proc, ServerRotates(p) PROVE CustodyNext
    <2>1. Others(p) /\ pc[p] # "use" /\ pc'[p] # "use"
      BY <1>21 DEF ServerRotates, Mint, Goto, Others, TypeOK
    <2>2. InUse' = InUse
      BY <2>1, SameUse
    <2>3. Custody!Mint
      BY <1>21, <2>2 DEF ServerRotates, Mint, Custody!Mint, InUse
    <2> QED
      BY <2>3 DEF CustodyNext, Custody!Next
  <1>22. ASSUME NEW p \in Proc, Authorised(p) PROVE CustodyNext
    <2>1. Others(p) /\ pc[p] # "use" /\ pc'[p] # "use"
      BY <1>22 DEF Authorised, Mint, Goto, Others, TypeOK
    <2>2. InUse' = InUse
      BY <2>1, SameUse
    <2>3. Custody!Mint
      BY <1>22, <2>2 DEF Authorised, Mint, Custody!Mint, InUse
    <2> QED
      BY <2>3 DEF CustodyNext, Custody!Next
  <1>23. ASSUME NEW p \in Proc, StoreToKeyring(p) PROVE CustodyNext
    <2>1. Others(p) /\ pc[p] # "use" /\ pc'[p] # "use"
      BY <1>23 DEF StoreToKeyring, Goto, Others, TypeOK
    <2>2. fresh[p] \in 0..minted /\ recorded' = recorded \union ({fresh[p]} \ {NoDoc}) /\ UNCHANGED minted
      BY <1>23, <1>a DEF StoreToKeyring, Durable, Safe
    <2> QED
      BY <1>a, <2>1, <2>2, SameUse, RecordStep
  <1>24. ASSUME NEW p \in Proc, Forget(p) PROVE CustodyNext
    <2>1. Others(p) /\ pc[p] # "use" /\ pc'[p] # "use" /\ UNCHANGED <<minted, recorded>>
      BY <1>24 DEF Forget, Goto, Others, TypeOK
    <2> QED
      BY <2>1, SameUse, StutterStep
  <1>25. ASSUME NEW p \in Proc, LateWriteLands(p) PROVE CustodyNext
    <2>1. InUse' = InUse /\ UNCHANGED minted
      BY <1>25 DEF LateWriteLands, InUse
    <2>2. late[p] \in 0..minted /\ recorded' = recorded \union ({late[p]} \ {NoDoc})
      BY <1>25, <1>a DEF LateWriteLands, Durable, Safe, NoWrite
    <2> QED
      BY <1>a, <2>1, <2>2, RecordStep
  <1>26. ASSUME NEW p \in Proc, SendRequests(p) PROVE CustodyNext
    <2>1. InUse[p] = -2 /\ held[p] \in recorded \union {NoDoc, EnvToken}
      BY <1>26, <1>a DEF SendRequests, InUse, Safe, Kept
    <2>2. InUse' = [InUse EXCEPT ![p] = held[p]]
      BY <1>26 DEF SendRequests, Goto, InUse, TypeOK
    <2>3. Custody!Use(p)
      BY <1>26, <2>1, <2>2 DEF SendRequests, Custody!Use, Custody!Idle, InUse
    <2> QED
      BY <2>3 DEF CustodyNext, Custody!Next
  <1>27. ASSUME NEW p \in Proc, Exit(p) PROVE CustodyNext
    <2>1. InUse' = [InUse EXCEPT ![p] = -2]
      BY <1>27 DEF Exit, Finish, InUse, TypeOK
    <2>2. Custody!Stop(p)
      BY <1>27, <2>1 DEF Exit, Custody!Stop, Custody!Idle, InUse
    <2> QED
      BY <2>2 DEF CustodyNext, Custody!Next
  <1>28. ASSUME NEW p \in Proc, Crash(p) PROVE CustodyNext
    <2>1. InUse' = [InUse EXCEPT ![p] = -2]
      BY <1>28 DEF Crash, Finish, InUse, TypeOK
    <2>2. Custody!Stop(p)
      BY <1>28, <2>1 DEF Crash, Custody!Stop, Custody!Idle, InUse
    <2> QED
      BY <2>2 DEF CustodyNext, Custody!Next
  <1>29. ASSUME Lapse \/ UNCHANGED vars PROVE CustodyNext
    <2>1. InUse' = InUse /\ UNCHANGED <<minted, recorded>>
      BY <1>29 DEF Lapse, vars, InUse
    <2> QED
      BY <2>1, StutterStep
  <1> QED
    BY <1>1, <1>2, <1>3, <1>4, <1>5, <1>6, <1>7, <1>8, <1>9, <1>10, <1>11, <1>12, <1>13, <1>14, <1>15, <1>16, <1>17, <1>18, <1>19, <1>20, <1>21, <1>22, <1>23, <1>24, <1>25, <1>26, <1>27, <1>28, <1>29
       DEF Next, Advance, Search, Renew, Login, Keep, Prompt, Logout

(* Every behaviour mints, records and uses documents in that order.        *)
THEOREM Refinement == Spec => ImplementsCustody
  <1>1. Init => Custody!Init
    BY DEF Init, Custody!Init, Custody!Idle
  <1>2. TypeOK /\ CustodyInv /\ [Next]_vars => [Custody!Next]_(Custody!vars)
    BY RefinementStep DEF CustodyNext
  <1> QED
    BY <1>1, <1>2, TypeInit, TypeStep, CustodyInit, CustodyStep, PTL
       DEF Spec, ImplementsCustody, Custody!Spec

-----------------------------------------------------------------------------
(* Which variables of the other invocations a step of p leaves alone: all. *)
OthersStay(p) ==
  \A q \in Proc \ {p} :
    /\ pc'[q] = pc[q] /\ job'[q] = job[q] /\ mem'[q] = mem[q] /\ todo'[q] = todo[q]
    /\ held'[q] = held[q] /\ fresh'[q] = fresh[q] /\ late'[q] = late[q]

Move(p) == Load(p) \/ Advance(p) \/ Prompt(p) \/ Crash(p) \/ LateWriteLands(p)

(* What Finish leaves in the slot of p. *)
LEMMA FinishBlank ==
  ASSUME TypeOK, NEW p \in Proc, Finish(p)
  PROVE  /\ OthersStay(p)
         /\ pc'[p] = "idle" /\ job'[p] = NoJob /\ todo'[p] = <<>>
         /\ mem'[p] = [file |-> NoHosts, dirty |-> FALSE]
         /\ held'[p] = NoDoc /\ fresh'[p] = NoDoc /\ late'[p] = NoWrite
  BY DEF TypeOK, Finish, OthersStay

(* What dropping the new document leaves there. *)
LEMMA AbandonBlank ==
  ASSUME TypeOK, NEW p \in Proc, AbandonFresh(p)
  PROVE  /\ OthersStay(p)
         /\ \/ Finish(p)
            \/ /\ job[p].cmd # "login"
               /\ pc'[p] = "ready" /\ fresh'[p] = NoDoc
               /\ UNCHANGED <<job, mem, todo, held, late>>
  <1>1. CASE job[p].cmd = "login"
    BY <1>1, FinishBlank DEF AbandonFresh
  <1>2. CASE job[p].cmd # "login"
    BY <1>2 DEF AbandonFresh, Goto, TypeOK, OthersStay
  <1> QED
    BY <1>1, <1>2

(* A step of one invocation moves no other. *)
LEMMA OthersStand == ASSUME TypeOK, NEW p \in Proc, Move(p) PROVE OthersStay(p)
  <1>1. CASE Load(p)
    BY <1>1 DEF Load, Goto, TypeOK, OthersStay
  <1>2. CASE Search(p)
    BY <1>2 DEF Search, SearchFound, SearchMissing, SearchUnavailable, SearchExhausted,
                Goto, TypeOK, OthersStay
  <1>3. CASE Renew(p)
    BY <1>3 DEF Renew, SaveProbe, ServerRotates, RefreshRefused, Mint, Goto, Clean, TypeOK, OthersStay
  <1>4. CASE Login(p)
    BY <1>4, FinishBlank DEF Login, Authorised, AuthoriseFails, SaveActive, Mint, Goto, TypeOK, OthersStay
  <1>5. CASE TokensReceived(p) \/ StoreToKeyring(p) \/ StoreUnavailable(p) \/ StoreToFile(p)
    BY <1>5 DEF TokensReceived, StoreToKeyring, StoreUnavailable, StoreToFile, Goto, TypeOK, OthersStay
  <1>6. CASE AnswerLost(p) \/ StoreToEnv(p) \/ SaveFreshFails(p)
    BY <1>6, AbandonBlank DEF AnswerLost, StoreToEnv, SaveFreshFails
  <1>7. CASE SaveFresh(p)
    BY <1>7 DEF SaveFresh, Goto, Clean, TypeOK, OthersStay
  <1>8. CASE Prompt(p)
    BY <1>8, FinishBlank DEF Prompt, Forget, Switch, Decline, Goto, TypeOK, OthersStay
  <1>9. CASE Logout(p)
    BY <1>9, FinishBlank DEF Logout, SaveForget, SaveRemoved, Goto, TypeOK, OthersStay
  <1>10. CASE SendRequests(p)
    BY <1>10 DEF SendRequests, Goto, TypeOK, OthersStay
  <1>11. CASE Exit(p) \/ Crash(p)
    BY <1>11, FinishBlank DEF Exit, Crash
  <1>12. CASE LateWriteLands(p)
    BY <1>12 DEF LateWriteLands, TypeOK, OthersStay
  <1> QED
    BY <1>1, <1>2, <1>3, <1>4, <1>5, <1>6, <1>7, <1>8, <1>9, <1>10, <1>11, <1>12
       DEF Move, Advance, Keep

-----------------------------------------------------------------------------
(* With a keyring that works and storage left to the default or sent to    *)
(* the keyring, no copy of hosts.toml ever has a document: nothing but      *)
(* StoreToFile puts one there, and nothing leads to it.                    *)
KeyringOnly == Preference = "keyring" /\ Choices \subseteq {"none", "keyring"}

Unfiled(p) ==
  /\ mem[p].file.doc = NoDoc
  /\ pc[p] # "storeFile"
  /\ job[p].choice \in {"none", "keyring"}

FileFree == disk.doc = NoDoc /\ \A p \in Proc : Unfiled(p)

LEMMA FileFreeInit == Init => FileFree
  BY DEF Init, FileFree, Unfiled, NoHosts, NoJob

(* A copy is saved as it is. *)
LEMMA WriteFree ==
  ASSUME NEW p \in Proc, FileFree, WriteFile(p, mem[p].file) \/ UNCHANGED <<disk, recorded>>
  PROVE  disk'.doc = NoDoc
  BY DEF WriteFile, FileFree, Unfiled

LEMMA FileFreeMove ==
  ASSUME TypeOK, FileFree, KeyringOnly, "keyring" \notin Faults, NEW p \in Proc, Move(p)
  PROVE  disk'.doc = NoDoc /\ Unfiled(p)'
  <1>a. Unfiled(p) /\ disk.doc = NoDoc
    BY DEF FileFree
  <1>b. ASSUME Finish(p) PROVE Unfiled(p)'
    BY <1>b, FinishBlank DEF Unfiled, NoHosts, NoJob
  <1>1. CASE Load(p)
    BY <1>1, <1>a DEF Load, Goto, TypeOK, KeyringOnly, Unfiled
  <1>2. CASE SearchFound(p)
    <2>1. Head(todo[p]) \in Store
      BY <1>2 DEF SearchFound, TypeOK
    <2> QED
      BY <1>2, <1>a, <2>1, CachedType DEF SearchFound, Goto, TypeOK, Unfiled
  <1>3. CASE SearchMissing(p)
    BY <1>3, <1>a, CachedType DEF SearchMissing, Store, TypeOK, Unfiled
  <1>4. CASE SearchUnavailable(p) \/ StoreUnavailable(p)
    BY <1>4 DEF SearchUnavailable, StoreUnavailable
  <1>5. CASE SearchExhausted(p) \/ RefreshRefused(p) \/ ServerRotates(p) \/ Authorised(p) \/ SendRequests(p)
    BY <1>5, <1>a DEF SearchExhausted, RefreshRefused, ServerRotates, Authorised, SendRequests, Goto, TypeOK, Unfiled
  <1>6. CASE SaveProbe(p)
    <2>1. disk'.doc = NoDoc
      BY <1>6, WriteFree DEF SaveProbe
    <2> QED
      BY <1>6, <1>a, <2>1 DEF SaveProbe, AfterProbe, Goto, Clean, TypeOK, Unfiled
  <1>7. CASE AuthoriseFails(p) \/ Decline(p) \/ Exit(p) \/ Crash(p)
    BY <1>7, <1>a, <1>b DEF AuthoriseFails, Decline, Exit, Crash
  <1>8. CASE SaveActive(p) \/ SaveRemoved(p) \/ Switch(p)
    BY <1>8, <1>b, WriteFree DEF SaveActive, SaveRemoved, Switch
  <1>9. CASE AnswerLost(p) \/ StoreToEnv(p) \/ SaveFreshFails(p)
    <2>1. AbandonFresh(p) /\ UNCHANGED disk
      BY <1>9 DEF AnswerLost, StoreToEnv, SaveFreshFails
    <2> QED
      BY <1>a, <1>b, <2>1, AbandonBlank DEF Unfiled
  <1>10. CASE TokensReceived(p) \/ StoreToKeyring(p)
    <2>1. mem'[p].file.doc = mem[p].file.doc
      <3>1. CASE TokensReceived(p)
        BY <3>1 DEF TokensReceived, TypeOK, HostsFile
      <3>2. CASE StoreToKeyring(p)
        BY <3>2 DEF StoreToKeyring, TypeOK, HostsFile
      <3> QED
        BY <1>10, <3>1, <3>2
    <2>2. pc'[p] # "storeFile" /\ UNCHANGED <<disk, job>>
      BY <1>10 DEF TokensReceived, StoreToKeyring, Goto, TypeOK
    <2> QED
      BY <1>a, <2>1, <2>2 DEF Unfiled
  <1>11. CASE StoreToFile(p)
    BY <1>11, <1>a DEF StoreToFile, Target, Unfiled, KeyringOnly
  <1>12. CASE SaveFresh(p)
    <2>1. disk'.doc = NoDoc
      BY <1>12, WriteFree DEF SaveFresh
    <2> QED
      BY <1>12, <1>a, <2>1 DEF SaveFresh, Goto, Clean, TypeOK, Unfiled
  <1>13. CASE Forget(p)
    BY <1>13, <1>a DEF Forget, Goto, TypeOK, HostsFile, Unfiled
  <1>14. CASE SaveForget(p)
    <2>1. disk'.doc = NoDoc
      BY <1>14, WriteFree DEF SaveForget
    <2> QED
      BY <1>14, <1>a, <1>b, <2>1 DEF SaveForget, Goto, TypeOK, Unfiled, NoHosts
  <1>15. CASE LateWriteLands(p)
    BY <1>15, <1>a DEF LateWriteLands, Unfiled
  <1> QED
    BY <1>1, <1>2, <1>3, <1>4, <1>5, <1>6, <1>7, <1>8, <1>9, <1>10, <1>11, <1>12, <1>13, <1>14, <1>15
       DEF Move, Advance, Search, Renew, Login, Keep, Prompt, Logout

LEMMA FileFreeStep ==
  ASSUME KeyringOnly, "keyring" \notin Faults
  PROVE  TypeOK /\ FileFree /\ [Next]_vars => FileFree'
  <1> SUFFICES ASSUME TypeOK, FileFree, [Next]_vars PROVE FileFree'
    OBVIOUS
  <1>1. ASSUME NEW p \in Proc, Move(p) PROVE FileFree'
    <2>1. disk'.doc = NoDoc /\ Unfiled(p)' /\ OthersStay(p)
      BY <1>1, FileFreeMove, OthersStand
    <2> QED
      BY <2>1 DEF FileFree, Unfiled, OthersStay
  <1>2. CASE Lapse \/ UNCHANGED vars
    BY <1>2 DEF Lapse, vars, FileFree, Unfiled
  <1> QED
    BY <1>1, <1>2 DEF Next, Move

(* With a keyring that works, a document is in hosts.toml only if file      *)
(* storage was chosen, whatever else fails and however many invocations     *)
(* run.                                                                    *)
THEOREM OnlyIfChosen ==
  ASSUME "keyring" \notin Faults
  PROVE  Spec => []FileOnlyIfChosen
  <1>1. Init => (KeyringOnly => FileFree)
    BY FileFreeInit
  <1>2. TypeOK /\ (KeyringOnly => FileFree) /\ [Next]_vars => (KeyringOnly => FileFree)'
    BY FileFreeStep DEF KeyringOnly
  <1>3. (KeyringOnly => FileFree) => FileOnlyIfChosen
    BY DEF KeyringOnly, FileFree, FileOnlyIfChosen
  <1> QED
    BY <1>1, <1>2, <1>3, TypeInit, TypeStep, PTL DEF Spec

-----------------------------------------------------------------------------
(* One invocation at a time, and nothing fails but the server's answer,     *)
(* which may be lost.  Between two invocations a listed login leads to its  *)
(* document, and an unlisted one has left none; inside one, the copy is the *)
(* file until the new document is put in it.                               *)
Before == {"search", "probed", "refresh", "authorise", "confirm", "choose"}
Between == Before \union {"idle", "ready", "use", "saveActive"}

(* A document that is there and, if no answer is lost, can be renewed. *)
Live(d) == d # NoDoc /\ ("answer" \notin Faults => d \in honoured)

(* The file f leads a search to a live document. *)
Leads(f) == \/ f.cached = "keyring" /\ Live(keyring)
            \/ f.cached = "file" /\ Live(f.doc)

Usable == disk.listed => Leads(disk)
Bare == ~disk.listed => keyring = NoDoc /\ disk.doc = NoDoc

(* The old document has been spent and the new one is sure to be kept. *)
Replacing(p) == job[p].cmd # "login" /\ "answer" \notin Faults

Phase(p) ==
  /\ pc[p] \in Before \union {"answer"} => mem[p] = [file |-> disk, dirty |-> FALSE]
  /\ pc[p] \in Between => Usable /\ Bare
  /\ pc[p] \in {"search", "probed", "refresh"} => job[p].cmd # "login"
  /\ pc[p] = "authorise" => job[p].cmd = "login"
  /\ pc[p] \in {"answer", "store"} =>
       /\ fresh[p] \in honoured /\ Bare
       /\ ~Replacing(p) => Usable
       /\ job[p].cmd # "login" => job[p].choice # "env"
  /\ pc[p] = "store" => mem[p].file = [disk EXCEPT !.listed = TRUE]
  /\ pc[p] = "saveFresh" => mem[p].file.listed /\ Leads(mem[p].file)
  /\ pc[p] = "saveActive" => mem[p].file = disk
  /\ pc[p] = "saveForget" => keyring = NoDoc /\ mem[p].file.doc = NoDoc
  /\ pc[p] = "saveRemoved" => keyring = NoDoc /\ disk.doc = NoDoc /\ mem[p].file = NoHosts

(* What the search has still to ask. *)
Asking(p) ==
  /\ pc[p] = "idle" => held[p] = NoDoc
  /\ pc[p] = "search" /\ disk.listed /\ job[p].choice = "none" =>
       todo[p] # <<>> /\ Head(todo[p]) = disk.cached
  /\ pc[p] = "search" /\ job[p].choice = "env" => held[p] = NoDoc /\ todo[p] \in {<<"env">>, <<>>}
  /\ pc[p] \in {"probed", "refresh"} /\ job[p].choice = "env" => held[p] \in {NoDoc, EnvToken}

Solo(p) == late[p] = NoWrite /\ pc[p] # "storeFile" /\ Phase(p) /\ Asking(p)

(* Where a search begins. *)
LEMMA ReadOrderHead ==
  /\ \A cached \in {"keyring", "file"} :
       ReadOrder("none", cached) # <<>> /\ Head(ReadOrder("none", cached)) = cached
  /\ \A cached : ReadOrder("env", cached) = <<"env">>
  BY DEF ReadOrder, Chain, Store

LEMMA SoloInit == ASSUME NEW p \in Proc, Init PROVE Solo(p)
  BY DEF Init, Solo, Phase, Asking, Before, Between, Usable, Bare, NoHosts

(* The end of an invocation that left things in order. *)
LEMMA SoloFinish ==
  ASSUME TypeOK, NEW p \in Proc, Finish(p), Usable', Bare'
  PROVE  Solo(p)'
  BY FinishBlank DEF Solo, Phase, Asking, Before, Between

(* A step that leaves the stores alone leaves them in order. *)
LEMMA StoresStand ==
  ASSUME UNCHANGED <<disk, keyring>>, honoured \subseteq honoured'
  PROVE  (Usable => Usable') /\ (Bare => Bare')
  BY DEF Usable, Bare, Leads, Live

LEMMA SoloMove ==
  ASSUME TypeOK, CustodyInv, Faults \subseteq {"answer"}, NEW p \in Proc, Solo(p), Move(p)
  PROVE  Solo(p)'
  <1> USE DEF server
  <1>a. late[p] = NoWrite /\ pc[p] # "storeFile" /\ Phase(p) /\ Asking(p)
    BY DEF Solo
  <1>1. CASE Load(p)
    <2>1. PICK c \in Commands, choice \in Choices, env \in EnvTokens :
            /\ disk.listed \/ c \in {"run", "login"}
            /\ job' = [job EXCEPT ![p] = [cmd |-> c, choice |-> choice, env |-> env]]
            /\ Goto(p, CASE c = "login"  -> "authorise"
                         [] c = "logout" -> "confirm"
                         [] c = "switch" -> "choose"
                         [] OTHER        -> "search")
            /\ todo' = [todo EXCEPT ![p] =
                          IF c \notin {"run", "git", "status"} THEN <<>>
                          ELSE IF disk.listed THEN ReadOrder(choice, disk.cached)
                          ELSE <<"env">>]
      BY <1>1 DEF Load
    <2>2. /\ mem'[p] = [file |-> disk, dirty |-> FALSE]
          /\ job'[p].choice = choice /\ pc'[p] \in {"authorise", "confirm", "choose", "search"}
          /\ todo'[p] = IF c \notin {"run", "git", "status"} THEN <<>>
                        ELSE IF disk.listed THEN ReadOrder(choice, disk.cached)
                        ELSE <<"env">>
          /\ UNCHANGED <<disk, keyring, honoured, late, held>>
      BY <1>1, <2>1 DEF Load, Goto, TypeOK
    <2>3. c \in AllCommands /\ choice \in AllChoices
      BY SessionAssumption DEF SessionAssumption
    <2>4. pc'[p] = "search" => c \in {"run", "git", "status"}
      BY <2>1, <2>3 DEF Goto, TypeOK, AllCommands
    <2>5. Usable /\ Bare /\ Usable' /\ Bare'
      BY <1>1, <1>a, <2>2 DEF Load, Phase, Between, Usable, Bare, Leads, Live
    <2>6. held'[p] = NoDoc
      BY <1>1, <1>a, <2>2 DEF Load, Asking
    <2>7. Phase(p)'
      <3>1. job'[p].cmd = c
        BY <2>1 DEF TypeOK
      <3>2. pc'[p] = "authorise" => c = "login"
        BY <2>1 DEF Goto, TypeOK
      <3> QED
        BY <2>2, <2>4, <2>5, <3>1, <3>2 DEF Phase, Before, Between
    <2>8. disk.listed => disk.cached \in {"keyring", "file"}
      BY <2>5 DEF Usable, Leads
    <2>9. Asking(p)'
      BY <2>2, <2>4, <2>6, <2>8, ReadOrderHead DEF Asking
    <2> QED
      BY <1>a, <2>2, <2>7, <2>9 DEF Solo
  <1>2. CASE SearchFound(p)
    <2>1. /\ pc[p] = "search" /\ pc'[p] = "probed" /\ todo[p] # <<>> /\ Head(todo[p]) \in Store
          /\ held'[p] = Content(p, Head(todo[p])) /\ mem'[p] = Cached(p, Head(todo[p]))
          /\ UNCHANGED <<disk, keyring, honoured, job, late>>
      BY <1>2 DEF SearchFound, Goto, TypeOK
    <2>2. mem[p] = [file |-> disk, dirty |-> FALSE] /\ Usable /\ Bare
      BY <1>a, <2>1 DEF Phase, Before, Between
    <2>3. mem'[p] = mem[p]
      BY <1>a, <2>1, <2>2 DEF Cached, Asking
    <2>4. Usable' /\ Bare'
      BY <2>1, <2>2, StoresStand
    <2>5. job[p].choice = "env" => held'[p] \in {NoDoc, EnvToken}
      <3>1. job[p].choice = "env" => Head(todo[p]) = "env"
        BY <1>a, <2>1 DEF Asking
      <3> QED
        BY <2>1, <3>1 DEF Content
    <2> QED
      BY <1>a, <2>1, <2>2, <2>3, <2>4, <2>5 DEF Solo, Phase, Asking, Before, Between
  <1>3. CASE SearchMissing(p)
    <2>1. /\ pc[p] = "search" /\ pc'[p] = "search" /\ todo[p] # <<>> /\ Head(todo[p]) \in Store
          /\ Content(p, Head(todo[p])) = NoDoc
          /\ mem'[p] = IF Head(todo[p]) = "keyring" THEN Cached(p, "keyring") ELSE mem[p]
          /\ todo'[p] = Tail(todo[p])
          /\ UNCHANGED <<disk, keyring, honoured, job, late, held>>
      BY <1>3 DEF SearchMissing, TypeOK
    <2>2. mem[p] = [file |-> disk, dirty |-> FALSE] /\ Usable /\ Bare
      BY <1>a, <2>1 DEF Phase, Before, Between
    <2>3. disk.listed => job[p].choice # "none"
      <3>1. SUFFICES ASSUME disk.listed, job[p].choice = "none" PROVE FALSE
        OBVIOUS
      <3>2. Head(todo[p]) = disk.cached /\ Leads(disk)
        BY <1>a, <2>1, <2>2, <3>1 DEF Asking, Usable
      <3> QED
        BY <2>1, <2>2, <3>2 DEF Leads, Live, Content
    <2>4. mem'[p] = mem[p]
      BY <2>1, <2>2, <2>3 DEF Cached
    <2>5. Usable' /\ Bare'
      BY <2>1, <2>2, StoresStand
    <2>6. job[p].choice = "env" => todo'[p] = <<>>
      <3>1. Tail(<<"env">>) = <<>>
        OBVIOUS
      <3>2. job[p].choice = "env" => todo[p] = <<"env">>
        BY <1>a, <2>1 DEF Asking
      <3> QED
        BY <2>1, <3>1, <3>2
    <2> QED
      BY <1>a, <2>1, <2>2, <2>3, <2>4, <2>5, <2>6 DEF Solo, Phase, Asking, Before, Between
  <1>4. CASE SearchUnavailable(p) \/ StoreUnavailable(p) \/ SaveFreshFails(p) \/ Crash(p)
             \/ LateWriteLands(p)
    BY <1>4, <1>a DEF SearchUnavailable, StoreUnavailable, SaveFreshFails, Crash, LateWriteLands
  <1>5. CASE SearchExhausted(p)
    <2>1. /\ pc[p] = "search" /\ pc'[p] = "probed" /\ UNCHANGED <<disk, keyring, honoured, job, late, held, mem>>
      BY <1>5 DEF SearchExhausted, Goto, TypeOK
    <2>2. Usable' /\ Bare'
      BY <1>a, <2>1, StoresStand DEF Phase, Between, Before
    <2> QED
      BY <1>a, <2>1, <2>2 DEF Solo, Phase, Asking, Before, Between
  <1>6. CASE SaveProbe(p)
    <2>1. /\ pc[p] = "probed" /\ pc'[p] \in {"refresh", "ready"}
          /\ UNCHANGED <<keyring, honoured, job, late, held>>
      BY <1>6 DEF SaveProbe, AfterProbe, Goto, TypeOK
    <2>2. mem[p] = [file |-> disk, dirty |-> FALSE] /\ UNCHANGED <<disk, mem>>
      BY <1>6, <1>a, <2>1 DEF Phase, Before, SaveProbe
    <2>3. Usable' /\ Bare'
      BY <1>a, <2>1, <2>2, StoresStand DEF Phase, Between, Before
    <2> QED
      BY <1>a, <2>1, <2>2, <2>3 DEF Solo, Phase, Asking, Before, Between
  <1>7. CASE ServerRotates(p)
    <2>1. /\ pc[p] = "refresh" /\ pc'[p] = "answer" /\ fresh'[p] = minted + 1
          /\ honoured' = (honoured \union {minted + 1}) \ (IF Invalidate THEN {held[p]} ELSE {})
          /\ held[p] \in honoured /\ UNCHANGED <<disk, keyring, job, late, held, mem>>
      BY <1>7 DEF ServerRotates, Mint, Goto, TypeOK
    <2>2. /\ Usable /\ Bare /\ mem[p] = [file |-> disk, dirty |-> FALSE]
          /\ job[p].cmd # "login" /\ (job[p].choice = "env" => held[p] \in {NoDoc, EnvToken})
      BY <1>a, <2>1 DEF Phase, Asking, Between, Before
    <2>3. held[p] # NoDoc /\ held[p] # EnvToken /\ held[p] # minted + 1
      <3>1. held[p] \in Gen /\ minted \in Nat
        BY <2>1, SessionAssumption DEF TypeOK, SessionAssumption
      <3>2. held[p] \in recorded \union {NoDoc, EnvToken} /\ recorded \subseteq 1..minted
        BY DEF CustodyInv, Safe, Kept
      <3> QED
        BY <3>1, <3>2 DEF Gen, NoDoc, EnvToken
    <2>4. fresh'[p] \in honoured' /\ job'[p].choice # "env"
      BY <2>1, <2>2, <2>3
    <2>5. Bare' /\ (~Replacing(p)' => Usable')
      BY <2>1, <2>2 DEF Bare, Usable, Leads, Live, Replacing
    <2>6. Phase(p)'
      BY <2>1, <2>2, <2>4, <2>5 DEF Phase, Before, Between
    <2> QED
      BY <1>a, <2>1, <2>6 DEF Solo, Asking
  <1>8. CASE RefreshRefused(p) \/ SendRequests(p)
    <2>1. /\ pc[p] \in {"refresh", "ready"} /\ pc'[p] \in {"ready", "use"}
          /\ UNCHANGED <<disk, keyring, honoured, job, late, mem>>
      BY <1>8 DEF RefreshRefused, SendRequests, Goto, TypeOK
    <2>2. Usable' /\ Bare'
      BY <1>a, <2>1, StoresStand DEF Phase, Between, Before
    <2> QED
      BY <1>a, <2>1, <2>2 DEF Solo, Phase, Asking, Before, Between
  <1>9. CASE Authorised(p)
    <2>1. /\ pc[p] = "authorise" /\ pc'[p] = "answer" /\ fresh'[p] = minted + 1
          /\ honoured' = (honoured \union {minted + 1}) \ (IF Invalidate THEN {NoDoc} ELSE {})
          /\ UNCHANGED <<disk, keyring, job, late, held, mem>>
      BY <1>9 DEF Authorised, Mint, Goto, TypeOK
    <2>2. NoDoc \notin honoured /\ minted + 1 # NoDoc
      BY SessionAssumption DEF TypeOK, Gen, NoDoc, SessionAssumption
    <2>3. fresh'[p] \in honoured' /\ honoured \subseteq honoured'
      BY <2>1, <2>2
    <2>4. Usable' /\ Bare'
      BY <1>a, <2>1, <2>3, StoresStand DEF Phase, Between, Before
    <2>5. mem'[p] = [file |-> disk', dirty |-> FALSE] /\ job'[p].cmd = "login"
      BY <1>a, <2>1 DEF Phase, Before
    <2> QED
      BY <1>a, <2>1, <2>3, <2>4, <2>5 DEF Solo, Phase, Asking, Before, Between
  <1>10. CASE AuthoriseFails(p) \/ Decline(p) \/ Exit(p)
    <2>1. /\ pc[p] \in {"authorise", "confirm", "choose", "use"} /\ Finish(p)
          /\ UNCHANGED <<disk, keyring, honoured>>
      BY <1>10 DEF AuthoriseFails, Decline, Exit
    <2>2. Usable' /\ Bare'
      BY <1>a, <2>1, StoresStand DEF Phase, Between, Before
    <2> QED
      BY <2>1, <2>2, SoloFinish
  <1>11. CASE SaveActive(p) \/ Switch(p)
    <2>1. /\ pc[p] \in {"saveActive", "choose"} /\ Finish(p) /\ UNCHANGED <<keyring, honoured>>
          /\ disk' = mem[p].file \/ UNCHANGED disk
      BY <1>11 DEF SaveActive, Switch, WriteFile
    <2>2. mem[p].file = disk /\ Usable /\ Bare
      BY <1>a, <2>1 DEF Phase, Between, Before
    <2>3. Usable' /\ Bare'
      BY <2>1, <2>2, StoresStand
    <2> QED
      BY <2>1, <2>3, SoloFinish
  <1>12. CASE TokensReceived(p)
    <2>1. /\ pc[p] = "answer" /\ pc'[p] = "store"
          /\ mem'[p] = [file |-> [mem[p].file EXCEPT !.listed = TRUE], dirty |-> TRUE]
          /\ UNCHANGED <<disk, keyring, honoured, job, fresh, late>>
      BY <1>12 DEF TokensReceived, Goto, TypeOK
    <2>2. mem'[p].file = [disk EXCEPT !.listed = TRUE]
      <3>1. mem[p] = [file |-> disk, dirty |-> FALSE]
        BY <1>a, <2>1 DEF Phase
      <3>2. mem[p].file = disk
        BY <3>1
      <3> QED
        BY <2>1, <3>2
    <2>3. /\ fresh[p] \in honoured /\ Bare /\ (~Replacing(p) => Usable)
          /\ job[p].cmd # "login" => job[p].choice # "env"
      BY <1>a, <2>1 DEF Phase
    <2>4. Bare' /\ (~Replacing(p)' => Usable')
      BY <2>1, <2>3, StoresStand DEF Replacing
    <2> QED
      BY <1>a, <2>1, <2>2, <2>3, <2>4 DEF Solo, Phase, Asking, Before, Between
  <1>13. CASE AnswerLost(p) \/ StoreToEnv(p)
    <2>1. /\ pc[p] \in {"answer", "store"} /\ AbandonFresh(p) /\ UNCHANGED <<disk, keyring, honoured>>
      BY <1>13 DEF AnswerLost, StoreToEnv
    <2>2. ~Replacing(p)
      <3>1. CASE AnswerLost(p)
        BY <3>1 DEF AnswerLost, Replacing
      <3>2. CASE StoreToEnv(p)
        <4>1. pc[p] = "store" /\ job[p].choice = "env"
          BY <3>2, SessionAssumption DEF StoreToEnv, Target, SessionAssumption
        <4> QED
          BY <1>a, <4>1 DEF Phase, Replacing
      <3> QED
        BY <1>13, <3>1, <3>2
    <2>3. Usable' /\ Bare'
      BY <1>a, <2>1, <2>2, StoresStand DEF Phase
    <2>4. CASE Finish(p)
      BY <2>3, <2>4, SoloFinish
    <2>5. CASE pc'[p] = "ready" /\ UNCHANGED <<job, mem, todo, held, late>>
      BY <1>a, <2>3, <2>5 DEF Solo, Phase, Asking, Before, Between
    <2> QED
      BY <2>1, <2>4, <2>5, AbandonBlank
  <1>14. CASE StoreToKeyring(p)
    <2>1. /\ pc[p] = "store" /\ pc'[p] = "saveFresh" /\ keyring' = fresh[p]
          /\ UNCHANGED <<honoured, late>>
      BY <1>14 DEF StoreToKeyring, Goto, TypeOK
    <2>2. mem'[p].file = [mem[p].file EXCEPT !.cached = "keyring"]
      BY <1>14 DEF StoreToKeyring, TypeOK
    <2>3. mem'[p].file.cached = "keyring" /\ mem'[p].file.listed
      BY <1>a, <2>1, <2>2 DEF Phase, TypeOK, HostsFile
    <2>4. fresh[p] \in honoured /\ fresh[p] # NoDoc
      BY <1>a, <2>1 DEF Phase, TypeOK, Gen, NoDoc
    <2>5. Leads(mem[p].file)'
      BY <2>1, <2>3, <2>4 DEF Leads, Live
    <2> QED
      BY <1>a, <2>1, <2>3, <2>5 DEF Solo, Phase, Asking, Before, Between
  <1>15. CASE StoreToFile(p)
    <2>1. /\ pc[p] = "store" /\ pc'[p] = "saveFresh" /\ UNCHANGED <<honoured, late>>
      BY <1>15, <1>a DEF StoreToFile, Goto, TypeOK
    <2>2. mem'[p].file.doc = fresh[p] /\ mem'[p].file.cached = "file"
          /\ mem'[p].file.listed = mem[p].file.listed
      BY <1>15 DEF StoreToFile, TypeOK, HostsFile
    <2>3. mem[p].file.listed
      BY <1>a, <2>1 DEF Phase, TypeOK, HostsFile
    <2>4. fresh[p] \in honoured /\ fresh[p] # NoDoc
      BY <1>a, <2>1 DEF Phase, TypeOK, Gen, NoDoc
    <2>5. Leads(mem[p].file)'
      BY <2>1, <2>2, <2>4 DEF Leads, Live
    <2> QED
      BY <1>a, <2>1, <2>2, <2>3, <2>5 DEF Solo, Phase, Asking, Before, Between
  <1>16. CASE SaveFresh(p)
    <2>1. /\ pc[p] = "saveFresh" /\ pc'[p] \in {"saveActive", "ready"}
          /\ disk' = mem[p].file /\ mem'[p].file = mem[p].file
          /\ UNCHANGED <<keyring, honoured, late>>
      BY <1>16 DEF SaveFresh, WriteFile, Clean, Goto, TypeOK
    <2>2. mem[p].file.listed /\ Leads(mem[p].file)
      BY <1>a, <2>1 DEF Phase
    <2>3. Usable' /\ Bare'
      BY <2>1, <2>2 DEF Usable, Bare, Leads, Live
    <2> QED
      BY <1>a, <2>1, <2>3 DEF Solo, Phase, Asking, Before, Between
  <1>17. CASE Forget(p)
    <2>1. /\ pc'[p] = "saveForget" /\ keyring' = NoDoc /\ UNCHANGED late
      BY <1>17 DEF Forget, Goto, TypeOK
    <2>2. mem'[p].file.doc = NoDoc
      BY <1>17 DEF Forget, TypeOK, HostsFile
    <2> QED
      BY <1>a, <2>1, <2>2 DEF Solo, Phase, Asking, Before, Between
  <1>18. CASE SaveForget(p)
    <2>1. /\ pc[p] = "saveForget" /\ pc'[p] = "saveRemoved" /\ disk' = mem[p].file
          /\ mem'[p].file = NoHosts /\ UNCHANGED <<keyring, late>>
      BY <1>18 DEF SaveForget, WriteFile, Goto, TypeOK
    <2>2. keyring' = NoDoc /\ disk'.doc = NoDoc
      BY <1>a, <2>1 DEF Phase
    <2> QED
      BY <1>a, <2>1, <2>2 DEF Solo, Phase, Asking, Before, Between
  <1>19. CASE SaveRemoved(p)
    <2>1. pc[p] = "saveRemoved" /\ Finish(p) /\ disk' = mem[p].file /\ UNCHANGED keyring
      BY <1>19 DEF SaveRemoved, WriteFile
    <2>2. keyring' = NoDoc /\ disk' = NoHosts
      BY <1>a, <2>1 DEF Phase
    <2>3. Usable' /\ Bare'
      BY <2>2 DEF Usable, Bare, NoHosts
    <2> QED
      BY <2>1, <2>3, SoloFinish
  <1> QED
    BY <1>1, <1>2, <1>3, <1>4, <1>5, <1>6, <1>7, <1>8, <1>9, <1>10, <1>11, <1>12, <1>13, <1>14,
       <1>15, <1>16, <1>17, <1>18, <1>19
       DEF Move, Advance, Search, Renew, Login, Keep, Prompt, Logout

LEMMA SoloStep ==
  ASSUME NEW p \in Proc, Proc = {p}, Faults \subseteq {"answer"}
  PROVE  TypeOK /\ CustodyInv /\ Solo(p) /\ [Next]_vars => Solo(p)'
  <1> SUFFICES ASSUME TypeOK, CustodyInv, Solo(p), [Next]_vars PROVE Solo(p)'
    OBVIOUS
  <1>1. CASE Move(p)
    BY <1>1, SoloMove
  <1>2. CASE Lapse \/ UNCHANGED vars
    <2>1. UNCHANGED <<disk, keyring, honoured, pc, job, mem, todo, held, fresh, late>>
      BY <1>2 DEF Lapse, vars
    <2> QED
      BY <2>1 DEF Solo, Phase, Asking, Usable, Bare, Leads, Live, Replacing
  <1> QED
    BY <1>1, <1>2 DEF Next, Move

(* The first store of the order that has a document, if it is its head. *)
LEMMA FoundAtHead ==
  ASSUME \/ disk.cached \in {"keyring", "file"}
         \/ disk.cached = "unset" /\ Preference = "keyring"
  PROVE  /\ disk.cached # "file" /\ keyring # NoDoc => NextFound = keyring
         /\ disk.cached = "file" /\ disk.doc # NoDoc => NextFound = disk.doc
  <1> DEFINE order == ReadOrder("none", disk.cached)
             hits == {i \in DOMAIN order : \/ order[i] = "keyring" /\ keyring # NoDoc
                                           \/ order[i] = "file" /\ disk.doc # NoDoc}
             first == order[CHOOSE i \in hits : \A j \in hits : i <= j]
             top == IF disk.cached = "file" THEN "file" ELSE "keyring"
  <1>1. 1 \in DOMAIN order /\ DOMAIN order \subseteq Nat \ {0} /\ order[1] = top
    BY DEF ReadOrder, Chain, Store
  <1>2. NextFound = CASE hits = {} -> NoDoc
                      [] hits # {} /\ first = "keyring" -> keyring
                      [] hits # {} /\ first = "file" -> disk.doc
    BY DEF NextFound
  <1> HIDE DEF order
  <1>3. 1 \in hits => first = top
    <2>1. \A j \in hits : j \in Nat \ {0}
      BY <1>1
    <2> HIDE DEF hits
    <2>2. 1 \in hits => (CHOOSE i \in hits : \A j \in hits : i <= j) = 1
      <3>1. ASSUME 1 \in hits, NEW i \in hits, \A j \in hits : i <= j PROVE i = 1
        <4>1. i \in Nat \ {0} /\ i <= 1
          BY <2>1, <3>1
        <4> QED BY <4>1
      <3>2. 1 \in hits => \A j \in hits : 1 <= j
        BY <2>1
      <3> QED BY <3>1, <3>2
    <2> QED BY <1>1, <2>2
  <1>4. /\ disk.cached # "file" /\ keyring # NoDoc => 1 \in hits
        /\ disk.cached = "file" /\ disk.doc # NoDoc => 1 \in hits
    BY <1>1
  <1> HIDE DEF hits, first
  <1> QED
    BY <1>2, <1>3, <1>4

(* Between two invocations a listed login leads the next one to a document  *)
(* that renews, whatever the commands, the stores chosen and the documents  *)
(* minted so far, as long as invocations do not overlap and nothing fails.  *)
THEOREM RenewableAlone ==
  ASSUME NEW p \in Proc, Proc = {p}, Faults = {}
  PROVE  Spec => []SessionRenewable
  <1>1. Solo(p) => SessionRenewable
    <2> SUFFICES ASSUME Solo(p), pc[p] = "idle", disk.listed PROVE NextFound \in honoured
      BY DEF SessionRenewable
    <2>1. Leads(disk)
      BY DEF Solo, Phase, Between, Usable
    <2>2. CASE disk.cached = "keyring" /\ Live(keyring)
      BY <2>2, FoundAtHead DEF Live
    <2>3. CASE disk.cached = "file" /\ Live(disk.doc)
      BY <2>3, FoundAtHead DEF Live
    <2> QED
      BY <2>1, <2>2, <2>3 DEF Leads
  <1>2. Init => Solo(p)
    BY SoloInit
  <1>3. TypeOK /\ CustodyInv /\ Solo(p) /\ [Next]_vars => Solo(p)'
    BY SoloStep
  <1> QED
    BY <1>1, <1>2, <1>3, TypeInit, TypeStep, CustodyInit, CustodyStep, PTL DEF Spec

(* A search that was not restricted and comes back empty means there is no  *)
(* token anywhere, one invocation at a time, even if answers of the server  *)
(* are lost.                                                               *)
THEOREM NowhereAlone ==
  ASSUME NEW p \in Proc, Proc = {p}, Faults \subseteq {"answer"}
  PROVE  Spec => []NoneMeansNowhere
  <1>1. Solo(p) => NoneMeansNowhere
    BY DEF Solo, Phase, Asking, Between, Before, Bare, NoneMeansNowhere
  <1>2. Init => Solo(p)
    BY SoloInit
  <1>3. TypeOK /\ CustodyInv /\ Solo(p) /\ [Next]_vars => Solo(p)'
    BY SoloStep
  <1> QED
    BY <1>1, <1>2, <1>3, TypeInit, TypeStep, CustodyInit, CustodyStep, PTL DEF Spec

(* A logout that completes leaves neither a document nor the login, one     *)
(* invocation at a time, even if answers of the server are lost.           *)
THEOREM LogoutAlone ==
  ASSUME NEW me \in Proc, Proc = {me}, Faults \subseteq {"answer"}
  PROVE  Spec => LogoutLeavesNothing
  <1>1. TypeOK /\ Solo(me) /\ [Next]_vars =>
          [\A p \in Proc : pc[p] = "saveRemoved" /\ pc'[p] = "idle"
             => keyring' = NoDoc /\ disk'.doc = NoDoc /\ ~disk'.listed]_vars
    <2> SUFFICES ASSUME TypeOK, Solo(me), [Next]_vars, pc[me] = "saveRemoved", pc'[me] = "idle"
                 PROVE  keyring' = NoDoc /\ disk'.doc = NoDoc /\ ~disk'.listed
      OBVIOUS
    <2>1. SaveRemoved(me)
      <3>1. CASE Move(me)
        <4>1. late[me] = NoWrite
          BY DEF Solo
        <4> QED
          BY <3>1, <4>1
             DEF Move, Advance, Search, Renew, Login, Keep, Prompt, Logout, Load, Crash, LateWriteLands,
                 SearchFound, SearchMissing, SearchUnavailable, SearchExhausted, SaveProbe,
                 ServerRotates, RefreshRefused, Authorised, AuthoriseFails, SaveActive,
                 TokensReceived, AnswerLost, StoreToKeyring, StoreUnavailable, StoreToFile,
                 StoreToEnv, SaveFresh, SaveFreshFails, Forget, Switch, Decline, SaveForget,
                 SendRequests, Exit
      <3>2. ~(Lapse \/ UNCHANGED vars)
        BY DEF Lapse, vars
      <3> QED
        BY <3>1, <3>2 DEF Next, Move
    <2>2. disk' = NoHosts /\ keyring' = NoDoc
      BY <2>1 DEF SaveRemoved, WriteFile, Solo, Phase
    <2> QED
      BY <2>2 DEF NoHosts
  <1>2. Init => Solo(me)
    BY SoloInit
  <1>3. TypeOK /\ CustodyInv /\ Solo(me) /\ [Next]_vars => Solo(me)'
    BY SoloStep
  <1> QED
    BY <1>1, <1>2, <1>3, TypeInit, TypeStep, CustodyInit, CustodyStep, PTL
       DEF Spec, LogoutLeavesNothing

-----------------------------------------------------------------------------
(* Any number of invocations side by side, a keyring that works, saves that *)
(* may fail, no logout.  Whatever is in the keyring can be renewed, or an   *)
(* invocation that spent it holds its successor and is about to put it      *)
(* there; nobody can spend that successor before.                          *)
Shared ==
  /\ KeyringOnly
  /\ "logout" \notin Commands
  /\ Faults \subseteq {"save"}

InFlight(p) == pc[p] \in {"answer", "store"}

(* Every copy sends a search to the keyring, and a copy that lists the      *)
(* login is of a time when the keyring had a document.                     *)
Keeps(p) ==
  /\ late[p] = NoWrite
  /\ pc[p] \notin {"confirm", "saveForget", "saveRemoved"}
  /\ mem[p].file.cached \in {"unset", "keyring"}
  /\ keyring = NoDoc /\ mem[p].file.listed => pc[p] = "store"
  /\ pc[p] = "search" /\ mem[p].file.listed => todo[p] # <<>> /\ Head(todo[p]) = "keyring"

(* A document on its way to the keyring is in nobody else's hands. *)
Apart(p) ==
  InFlight(p) =>
    /\ fresh[p] \in honoured /\ fresh[p] # keyring
    /\ \A q \in Proc : held[q] # fresh[p] /\ (q # p => fresh[q] # fresh[p])

Renewable == keyring \in honoured \union {NoDoc} \/ \E p \in Proc : InFlight(p)

Steered == disk.cached \in {"unset", "keyring"} /\ (keyring = NoDoc => ~disk.listed)

SharedInv == Steered /\ Renewable /\ \A p \in Proc : Keeps(p) /\ Apart(p)

LEMMA SharedInit == Init => SharedInv
  BY DEF Init, SharedInv, Steered, Renewable, Keeps, Apart, InFlight, NoHosts, NoDoc

(* A step that mints nothing and leaves the keyring alone: only the slot    *)
(* that moves needs a second look, and what it holds now was held before.   *)
LEMMA SharedQuiet ==
  ASSUME TypeOK, SharedInv, NEW p \in Proc, OthersStay(p), UNCHANGED <<keyring, honoured>>,
         Keeps(p)', Steered', InFlight(p)' <=> InFlight(p),
         fresh'[p] = fresh[p] \/ (~InFlight(p) /\ fresh'[p] = NoDoc),
         held'[p] \in {held[p], keyring, fresh[p], NoDoc, EnvToken},
         held'[p] = fresh[p] => ~InFlight(p)
  PROVE  SharedInv'
  <1>1. Renewable'
    BY DEF SharedInv, Renewable, InFlight, OthersStay
  <1>2. ASSUME NEW q \in Proc PROVE Keeps(q)'
    <2>1. CASE q = p
      BY <2>1
    <2>2. CASE q # p
      BY <2>2 DEF SharedInv, Keeps, OthersStay
    <2> QED BY <2>1, <2>2
  <1>3. ASSUME NEW q \in Proc, InFlight(q)' PROVE Apart(q)'
    <2>1. InFlight(q) /\ fresh'[q] = fresh[q]
      BY <1>3 DEF InFlight, OthersStay
    <2>2. /\ fresh[q] \in honoured /\ fresh[q] # keyring /\ fresh[q] \notin {NoDoc, EnvToken}
          /\ \A r \in Proc : held[r] # fresh[q] /\ (r # q => fresh[r] # fresh[q])
      BY <2>1 DEF SharedInv, Apart, TypeOK, Gen, NoDoc, EnvToken
    <2>3. ASSUME NEW r \in Proc PROVE held'[r] # fresh[q] /\ (r # q => fresh'[r] # fresh[q])
      <3>1. CASE r # p
        BY <2>2, <3>1 DEF OthersStay
      <3>2. CASE r = p /\ q # p
        BY <2>2, <3>2
      <3>3. CASE r = p /\ q = p
        BY <2>1, <2>2, <3>3
      <3> QED BY <3>1, <3>2, <3>3
    <2> QED BY <2>1, <2>2, <2>3 DEF Apart
  <1> QED
    BY <1>1, <1>2, <1>3 DEF SharedInv, Apart

(* Minting puts the new document into one pair of hands.                   *)
LEMMA SharedMint ==
  ASSUME TypeOK, CustodyInv, SharedInv, NEW p \in Proc, OthersStay(p), ~InFlight(p),
         NEW spent, spent = held[p] \/ spent = NoDoc, Mint(p, spent),
         Keeps(p)', InFlight(p)', UNCHANGED <<disk, keyring, held>>
  PROVE  SharedInv'
  <1>a. minted \in Nat /\ fresh'[p] = minted + 1
    BY SessionAssumption DEF Mint, TypeOK, SessionAssumption
  <1>b. /\ keyring # minted + 1
        /\ \A q \in Proc : held[q] # minted + 1 /\ fresh[q] # minted + 1
    BY <1>a DEF CustodyInv, Safe, Kept, NoDoc, EnvToken
  <1>c. spent # minted + 1 /\ minted + 1 \in honoured'
    BY <1>a, <1>b DEF Mint, NoDoc
  <1>1. Renewable'
    BY DEF Renewable
  <1>2. ASSUME NEW q \in Proc PROVE Keeps(q)'
    <2>1. CASE q = p
      BY <2>1
    <2>2. CASE q # p
      BY <2>2 DEF SharedInv, Keeps, OthersStay
    <2> QED BY <2>1, <2>2
  <1>3. ASSUME NEW q \in Proc, InFlight(q)' PROVE Apart(q)'
    <2>1. CASE q = p
      BY <1>a, <1>b, <1>c, <2>1 DEF Apart, OthersStay
    <2>2. CASE q # p
      <3>1. InFlight(q) /\ fresh'[q] = fresh[q]
        BY <1>3, <2>2 DEF InFlight, OthersStay
      <3>2. /\ fresh[q] \in honoured /\ fresh[q] # keyring /\ fresh[q] # NoDoc
            /\ \A r \in Proc : held[r] # fresh[q] /\ (r # q => fresh[r] # fresh[q])
        BY <3>1 DEF SharedInv, Apart, TypeOK, Gen, NoDoc
      <3>3. fresh[q] \in honoured'
        BY <3>2 DEF Mint
      <3>4. \A r \in Proc : r # q => fresh'[r] # fresh[q]
        BY <1>a, <1>b, <3>2 DEF OthersStay
      <3> QED BY <3>1, <3>2, <3>3, <3>4 DEF Apart
    <2> QED BY <2>1, <2>2
  <1> QED
    BY <1>1, <1>2, <1>3 DEF SharedInv, Apart, Steered

(* The successor arrives in the keyring. *)
LEMMA SharedStore ==
  ASSUME TypeOK, SharedInv, NEW p \in Proc, OthersStay(p), InFlight(p), ~InFlight(p)',
         keyring' = fresh[p], UNCHANGED <<disk, honoured, held, fresh>>, Keeps(p)'
  PROVE  SharedInv'
  <1>1. /\ fresh[p] \in honoured /\ fresh[p] # NoDoc
        /\ \A q \in Proc : held[q] # fresh[p] /\ (q # p => fresh[q] # fresh[p])
    BY DEF SharedInv, Apart, TypeOK, Gen, NoDoc
  <1>2. Renewable' /\ Steered'
    BY <1>1 DEF Renewable, SharedInv, Steered
  <1>3. ASSUME NEW q \in Proc PROVE Keeps(q)'
    <2>1. CASE q = p
      BY <2>1
    <2>2. CASE q # p
      BY <1>1, <2>2 DEF SharedInv, Keeps, OthersStay
    <2> QED BY <2>1, <2>2
  <1>4. ASSUME NEW q \in Proc, InFlight(q)' PROVE Apart(q)'
    <2>1. q # p /\ InFlight(q)
      BY <1>4 DEF InFlight, OthersStay
    <2>2. Apart(q)
      BY DEF SharedInv
    <2> QED BY <1>1, <2>1, <2>2 DEF Apart
  <1> QED
    BY <1>2, <1>3, <1>4 DEF SharedInv, Apart

(* A copy that is saved steers a search as the file did. *)
LEMMA SharedWrite ==
  ASSUME SharedInv, NEW p \in Proc, pc[p] # "store", UNCHANGED keyring,
         WriteFile(p, mem[p].file) \/ UNCHANGED <<disk, recorded>>
  PROVE  Steered'
  BY DEF SharedInv, Steered, Keeps, WriteFile

LEMMA SharedMove ==
  ASSUME TypeOK, CustodyInv, FileFree, SharedInv, Shared, NEW p \in Proc, Move(p)
  PROVE  SharedInv'
  <1> USE DEF server
  <1>a. /\ Keeps(p) /\ Apart(p) /\ Steered /\ Unfiled(p) /\ OthersStay(p)
        /\ Preference = "keyring" /\ Choices \subseteq {"none", "keyring"}
        /\ "keyring" \notin Faults /\ "answer" \notin Faults /\ "crash" \notin Faults
    BY OthersStand DEF SharedInv, FileFree, Shared, KeyringOnly
  <1>b. ASSUME Finish(p), ~InFlight(p), Steered', UNCHANGED <<keyring, honoured>>
        PROVE  SharedInv'
    <2>1. /\ pc'[p] = "idle" /\ mem'[p].file = NoHosts /\ late'[p] = NoWrite
          /\ held'[p] = NoDoc /\ fresh'[p] = NoDoc
      BY <1>b, FinishBlank
    <2>2. Keeps(p)'
      BY <2>1 DEF Keeps, NoHosts
    <2>3. ~InFlight(p)'
      BY <2>1 DEF InFlight
    <2> QED
      BY <1>a, <1>b, <2>1, <2>2, <2>3, SharedQuiet
  <1>1. CASE Load(p)
    <2>1. PICK c \in Commands, choice \in Choices, env \in EnvTokens :
            /\ job' = [job EXCEPT ![p] = [cmd |-> c, choice |-> choice, env |-> env]]
            /\ Goto(p, CASE c = "login"  -> "authorise"
                         [] c = "logout" -> "confirm"
                         [] c = "switch" -> "choose"
                         [] OTHER        -> "search")
            /\ todo' = [todo EXCEPT ![p] =
                          IF c \notin {"run", "git", "status"} THEN <<>>
                          ELSE IF disk.listed THEN ReadOrder(choice, disk.cached)
                          ELSE <<"env">>]
      BY <1>1 DEF Load
    <2>2. c \in AllCommands \ {"logout"} /\ choice \in {"none", "keyring"}
      BY <1>a, SessionAssumption DEF SessionAssumption, Shared
    <2>3. /\ pc[p] = "idle" /\ mem'[p].file = disk
          /\ UNCHANGED <<disk, keyring, honoured, held, fresh, late>>
      BY <1>1 DEF Load, TypeOK
    <2>4. /\ pc'[p] \in {"authorise", "choose", "search"}
          /\ pc'[p] = "search" => c \in {"run", "git", "status"}
      BY <2>1, <2>2 DEF Goto, TypeOK, AllCommands
    <2>5. disk.cached \in {"unset", "keyring"} => /\ ReadOrder(choice, disk.cached) # <<>>
                                                 /\ Head(ReadOrder(choice, disk.cached)) = "keyring"
      BY <1>a, <2>2 DEF ReadOrder, Chain, Store
    <2>6. Keeps(p)'
      BY <1>a, <2>1, <2>3, <2>4, <2>5 DEF Keeps, Steered, TypeOK
    <2>7. ~InFlight(p) /\ ~InFlight(p)'
      BY <2>3, <2>4 DEF InFlight
    <2> QED
      BY <1>a, <2>3, <2>6, <2>7, SharedQuiet DEF Steered
  <1>2. CASE SearchFound(p)
    <2>1. /\ pc[p] = "search" /\ pc'[p] = "probed" /\ todo[p] # <<>> /\ Head(todo[p]) \in Store
          /\ held'[p] = Content(p, Head(todo[p])) /\ mem'[p] = Cached(p, Head(todo[p]))
          /\ UNCHANGED <<disk, keyring, honoured, fresh, late>>
      BY <1>2 DEF SearchFound, Goto, TypeOK
    <2>2. held'[p] \in {keyring, NoDoc, EnvToken}
      BY <1>a, <2>1 DEF Content, Unfiled, Store
    <2>3. mem'[p].file.cached \in {"unset", "keyring"} /\ mem'[p].file.listed = mem[p].file.listed
      BY <1>a, <2>1 DEF Keeps, Cached, TypeOK, HostsFile
    <2>4. Keeps(p)'
      BY <1>a, <2>1, <2>3 DEF Keeps
    <2>5. ~InFlight(p) /\ ~InFlight(p)'
      BY <2>1 DEF InFlight
    <2> QED
      BY <1>a, <2>1, <2>2, <2>4, <2>5, SharedQuiet DEF Steered
  <1>3. CASE SearchMissing(p)
    <2>1. /\ pc[p] = "search" /\ pc'[p] = "search" /\ todo[p] # <<>> /\ Head(todo[p]) \in Store
          /\ Content(p, Head(todo[p])) = NoDoc
          /\ mem'[p] = IF Head(todo[p]) = "keyring" THEN Cached(p, "keyring") ELSE mem[p]
          /\ UNCHANGED <<disk, keyring, honoured, late, held, fresh>>
      BY <1>3 DEF SearchMissing, TypeOK
    <2>2. ~mem[p].file.listed
      BY <1>a, <2>1 DEF Keeps, Content
    <2>3. mem'[p] = mem[p]
      BY <2>1, <2>2 DEF Cached
    <2>4. Keeps(p)'
      BY <1>a, <2>1, <2>2, <2>3 DEF Keeps
    <2>5. ~InFlight(p) /\ ~InFlight(p)'
      BY <2>1 DEF InFlight
    <2> QED
      BY <1>a, <2>1, <2>4, <2>5, SharedQuiet DEF Steered
  <1>4. CASE SearchUnavailable(p) \/ StoreUnavailable(p) \/ AnswerLost(p) \/ Crash(p)
             \/ LateWriteLands(p) \/ Forget(p) \/ SaveForget(p) \/ SaveRemoved(p)
    BY <1>4, <1>a DEF SearchUnavailable, StoreUnavailable, AnswerLost, Crash, LateWriteLands,
                      Forget, SaveForget, SaveRemoved, Keeps
  <1>5. CASE SearchExhausted(p) \/ RefreshRefused(p) \/ SendRequests(p)
    <2>1. /\ pc[p] \in {"search", "refresh", "ready"} /\ pc'[p] \in {"probed", "ready", "use"}
          /\ UNCHANGED <<disk, keyring, honoured, late, held, fresh, mem>>
      BY <1>5 DEF SearchExhausted, RefreshRefused, SendRequests, Goto, TypeOK
    <2>2. Keeps(p)' /\ ~InFlight(p) /\ ~InFlight(p)'
      BY <1>a, <2>1 DEF Keeps, InFlight
    <2> QED
      BY <1>a, <2>1, <2>2, SharedQuiet DEF Steered
  <1>6. CASE SaveProbe(p)
    <2>1. /\ pc[p] = "probed" /\ pc'[p] \in {"refresh", "ready"} /\ mem'[p].file = mem[p].file
          /\ UNCHANGED <<keyring, honoured, late, held, fresh>>
      BY <1>6 DEF SaveProbe, AfterProbe, Clean, Goto, TypeOK
    <2>2. Steered'
      BY <1>6, <2>1, SharedWrite DEF SaveProbe
    <2>3. Keeps(p)' /\ ~InFlight(p) /\ ~InFlight(p)'
      BY <1>a, <2>1 DEF Keeps, InFlight
    <2> QED
      BY <1>a, <2>1, <2>2, <2>3, SharedQuiet
  <1>7. CASE ServerRotates(p) \/ Authorised(p)
    <2>1. PICK spent : (spent = held[p] \/ spent = NoDoc) /\ Mint(p, spent)
      BY <1>7 DEF ServerRotates, Authorised
    <2>2. /\ pc[p] \in {"refresh", "authorise"} /\ pc'[p] = "answer"
          /\ UNCHANGED <<disk, keyring, mem, held, late>>
      BY <1>7 DEF ServerRotates, Authorised, Goto, TypeOK
    <2>3. ~InFlight(p) /\ InFlight(p)' /\ Keeps(p)'
      BY <1>a, <2>2 DEF Keeps, InFlight
    <2> QED
      BY <1>a, <2>1, <2>2, <2>3, SharedMint
  <1>8. CASE AuthoriseFails(p) \/ Decline(p) \/ Exit(p)
    <2>1. Finish(p) /\ ~InFlight(p) /\ UNCHANGED <<disk, keyring, honoured>>
      BY <1>8 DEF AuthoriseFails, Decline, Exit, InFlight
    <2> QED
      BY <1>a, <1>b, <2>1 DEF Steered
  <1>9. CASE SaveActive(p) \/ Switch(p)
    <2>1. /\ Finish(p) /\ ~InFlight(p) /\ pc[p] # "store" /\ UNCHANGED <<keyring, honoured>>
          /\ WriteFile(p, mem[p].file) \/ UNCHANGED <<disk, recorded>>
      BY <1>9 DEF SaveActive, Switch, InFlight
    <2> QED
      BY <1>b, <2>1, SharedWrite
  <1>10. CASE TokensReceived(p)
    <2>1. /\ pc[p] = "answer" /\ pc'[p] = "store" /\ mem'[p].file.cached = mem[p].file.cached
          /\ UNCHANGED <<disk, keyring, honoured, held, fresh, late>>
      BY <1>10 DEF TokensReceived, Goto, TypeOK, HostsFile
    <2>2. Keeps(p)' /\ InFlight(p) /\ InFlight(p)'
      BY <1>a, <2>1 DEF Keeps, InFlight
    <2>3. held[p] # fresh[p]
      BY <1>a, <2>2 DEF Apart
    <2>4. Steered' /\ held'[p] = held[p] /\ fresh'[p] = fresh[p]
      BY <1>a, <2>1 DEF Steered
    <2> QED
      BY <1>a, <2>1, <2>2, <2>3, <2>4, SharedQuiet
  <1>11. CASE StoreToKeyring(p)
    <2>1. /\ pc[p] = "store" /\ pc'[p] = "saveFresh" /\ keyring' = fresh[p]
          /\ UNCHANGED <<disk, honoured, held, fresh, late>>
      BY <1>11 DEF StoreToKeyring, Goto, TypeOK
    <2>2. mem'[p].file.cached = "keyring"
      BY <1>11 DEF StoreToKeyring, TypeOK, HostsFile
    <2>3. InFlight(p) /\ ~InFlight(p)'
      BY <2>1 DEF InFlight
    <2>4. fresh[p] # NoDoc
      BY <1>a, <2>3 DEF Apart, TypeOK, Gen, NoDoc
    <2>5. Keeps(p)'
      BY <1>a, <2>1, <2>2, <2>4 DEF Keeps
    <2> QED
      BY <1>a, <2>1, <2>3, <2>5, SharedStore
  <1>12. CASE StoreToFile(p) \/ StoreToEnv(p)
    BY <1>12, <1>a DEF StoreToFile, StoreToEnv, Target, Unfiled
  <1>13. CASE SaveFresh(p)
    <2>1. /\ pc[p] = "saveFresh" /\ pc'[p] \in {"saveActive", "ready"} /\ mem'[p].file = mem[p].file
          /\ held'[p] \in {held[p], fresh[p]} /\ UNCHANGED <<keyring, honoured, late, fresh>>
      BY <1>13 DEF SaveFresh, Clean, Goto, TypeOK
    <2>2. Steered'
      BY <1>13, <2>1, SharedWrite DEF SaveFresh
    <2>3. Keeps(p)' /\ ~InFlight(p) /\ ~InFlight(p)'
      BY <1>a, <2>1 DEF Keeps, InFlight
    <2> QED
      BY <1>a, <2>1, <2>2, <2>3, SharedQuiet
  <1>14. CASE SaveFreshFails(p)
    <2>1. /\ pc[p] = "saveFresh" /\ AbandonFresh(p) /\ ~InFlight(p)
          /\ UNCHANGED <<disk, keyring, honoured>>
      BY <1>14 DEF SaveFreshFails, InFlight
    <2>2. CASE Finish(p)
      BY <1>a, <1>b, <2>1, <2>2 DEF Steered
    <2>3. CASE pc'[p] = "ready" /\ fresh'[p] = NoDoc /\ UNCHANGED <<job, mem, todo, held, late>>
      <3>1. Keeps(p)' /\ ~InFlight(p)'
        BY <1>a, <2>1, <2>3 DEF Keeps, InFlight
      <3> QED
        BY <1>a, <2>1, <2>3, <3>1, SharedQuiet DEF Steered
    <2> QED
      BY <2>1, <2>2, <2>3, AbandonBlank
  <1> QED
    BY <1>1, <1>2, <1>3, <1>4, <1>5, <1>6, <1>7, <1>8, <1>9, <1>10, <1>11, <1>12, <1>13, <1>14
       DEF Move, Advance, Search, Renew, Login, Keep, Prompt, Logout

LEMMA SharedStep ==
  ASSUME Shared
  PROVE  TypeOK /\ CustodyInv /\ FileFree /\ SharedInv /\ [Next]_vars => SharedInv'
  <1> SUFFICES ASSUME TypeOK, CustodyInv, FileFree, SharedInv, [Next]_vars PROVE SharedInv'
    OBVIOUS
  <1>1. ASSUME NEW p \in Proc, Move(p) PROVE SharedInv'
    BY <1>1, SharedMove
  <1>2. CASE Lapse \/ UNCHANGED vars
    <2>1. UNCHANGED <<disk, keyring, honoured, pc, job, mem, todo, held, fresh, late>>
      BY <1>2 DEF Lapse, vars
    <2> QED
      BY <2>1 DEF SharedInv, Steered, Renewable, Keeps, Apart, InFlight
  <1> QED
    BY <1>1, <1>2 DEF Next, Move

(* However many invocations renew, log in and switch side by side, when     *)
(* none is running a listed login leads the next one to a document that     *)
(* renews: with a keyring that works, answers that arrive, and saves of     *)
(* hosts.toml that may fail.                                               *)
THEOREM RenewableTogether ==
  ASSUME Shared
  PROVE  Spec => []SessionRenewable
  <1>1. SharedInv => SessionRenewable
    <2> SUFFICES ASSUME SharedInv, \A p \in Proc : pc[p] = "idle", disk.listed
                 PROVE  NextFound \in honoured
      BY DEF SessionRenewable
    <2>1. disk.cached \in {"unset", "keyring"} /\ keyring # NoDoc /\ keyring \in honoured
      BY DEF SharedInv, Steered, Renewable, InFlight
    <2>2. Preference = "keyring"
      BY DEF Shared, KeyringOnly
    <2> QED
      BY <2>1, <2>2, FoundAtHead
  <1>2. TypeOK /\ CustodyInv /\ FileFree /\ SharedInv /\ [Next]_vars => SharedInv'
    BY SharedStep
  <1>3. TypeOK /\ FileFree /\ [Next]_vars => FileFree'
    BY FileFreeStep DEF Shared
  <1> QED
    BY <1>1, <1>2, <1>3, TypeInit, TypeStep, CustodyInit, CustodyStep, FileFreeInit, SharedInit, PTL
       DEF Spec

-----------------------------------------------------------------------------
(* How far an invocation is from its end: its place in the order in which   *)
(* the steps of a command follow one another, and the stores it has still  *)
(* to search.                                                              *)
Level(label) ==
  CASE label = "idle" -> 0
    [] label = "use" -> 1
    [] label = "ready" -> 2
    [] label \in {"saveActive", "saveRemoved"} -> 3
    [] label \in {"saveFresh", "saveForget"} -> 4
    [] label = "storeFile" -> 5
    [] label = "store" -> 6
    [] label = "answer" -> 7
    [] label \in {"refresh", "authorise", "confirm", "choose"} -> 8
    [] label = "probed" -> 9
    [] label = "search" -> 10

Left(p) == Level(pc[p]) + Len(todo[p])

(* No more stores are left to search than there are. *)
Short == \A p \in Proc : Len(todo[p]) <= 3

LEMMA LevelType == ASSUME NEW label \in PC PROVE Level(label) \in 0..10
  BY DEF Level, PC

LEMMA LeftType == ASSUME TypeOK, NEW p \in Proc PROVE Left(p) \in Nat
  <1>1. Level(pc[p]) \in 0..10
    BY LevelType DEF TypeOK
  <1>2. Len(todo[p]) \in Nat
    BY DEF TypeOK
  <1> QED
    BY <1>1, <1>2 DEF Left

(* The same after a step. *)
LEMMA LeftNext ==
  ASSUME TypeOK', NEW p \in Proc
  PROVE  Left(p)' = Level(pc'[p]) + Len(todo'[p]) /\ Left(p)' \in Nat
  <1>1. Left(p)' = Level(pc'[p]) + Len(todo'[p])
    BY DEF Left, Level
  <1>2. pc'[p] \in PC /\ Len(todo'[p]) \in Nat
    BY DEF TypeOK
  <1>3. Level(pc'[p]) \in 0..10
    BY <1>2, LevelType
  <1> QED
    BY <1>1, <1>2, <1>3

(* The steps that stay within one list of stores to search. *)
LEMMA LevelLower ==
  ASSUME TypeOK, TypeOK', NEW p \in Proc, todo'[p] = todo[p], Level(pc'[p]) < Level(pc[p])
  PROVE  Left(p)' < Left(p)
  <1>1. pc[p] \in PC /\ pc'[p] \in PC /\ Len(todo[p]) \in Nat
    BY DEF TypeOK
  <1>2. Level(pc[p]) \in 0..10 /\ Level(pc'[p]) \in 0..10
    BY <1>1, LevelType
  <1>3. Left(p)' = Level(pc'[p]) + Len(todo'[p])
    BY LeftNext
  <1>4. Left(p) = Level(pc[p]) + Len(todo[p])
    BY DEF Left
  <1>5. \A a, b \in 0..10, n \in Nat : a < b => a + n < b + n
    OBVIOUS
  <1>6. Level(pc'[p]) + Len(todo[p]) < Level(pc[p]) + Len(todo[p])
    BY <1>1, <1>2, <1>5
  <1>7. Left(p)' = Level(pc'[p]) + Len(todo[p])
    BY <1>3
  <1> QED
    BY <1>4, <1>6, <1>7

(* An invocation that ends has nothing left. *)
LEMMA FinishLower ==
  ASSUME TypeOK, NEW p \in Proc, Finish(p), pc[p] # "idle" PROVE Left(p)' < Left(p)
  <1>1. Left(p)' = 0
    BY FinishBlank DEF Left, Level
  <1>2. Level(pc[p]) \in 1..10 /\ Len(todo[p]) \in Nat
    BY DEF TypeOK, PC, Level
  <1> QED
    BY <1>1, <1>2 DEF Left

(* No step an invocation takes leads back to one it took. *)
LEMMA AdvanceLower ==
  ASSUME TypeOK, TypeOK', NEW p \in Proc, Advance(p) \/ Prompt(p) \/ Crash(p)
  PROVE  Left(p)' < Left(p)
  <1>0. pc[p] \in PC /\ todo[p] \in Seq(Store) /\ p \in DOMAIN pc /\ p \in DOMAIN todo
    BY DEF TypeOK
  <1>1. CASE SearchFound(p)
    <2>1. pc[p] = "search" /\ pc'[p] = "probed" /\ todo'[p] = <<>> /\ Len(todo[p]) \in Nat
      BY <1>0, <1>1 DEF SearchFound, Goto
    <2> QED
      BY <2>1 DEF Left, Level
  <1>2. CASE SearchMissing(p) \/ SearchUnavailable(p)
    <2>1. pc'[p] = pc[p] /\ pc[p] = "search" /\ todo[p] # <<>> /\ todo'[p] = Tail(todo[p])
      BY <1>0, <1>2 DEF SearchMissing, SearchUnavailable
    <2>2. Len(todo'[p]) = Len(todo[p]) - 1 /\ Len(todo[p]) \in Nat
      BY <1>0, <2>1
    <2> QED
      BY <2>1, <2>2 DEF Left, Level
  <1>3. CASE SearchExhausted(p)
    <2>1. pc[p] = "search" /\ pc'[p] = "probed" /\ todo'[p] = todo[p]
      BY <1>0, <1>3 DEF SearchExhausted, Goto
    <2> QED
      BY <2>1, LevelLower DEF Level
  <1>4. CASE Renew(p)
    <2>1. /\ todo'[p] = todo[p]
          /\ \/ pc[p] = "probed" /\ pc'[p] \in {"refresh", "ready"}
             \/ pc[p] = "refresh" /\ pc'[p] \in {"answer", "ready"}
      BY <1>0, <1>4 DEF Renew, SaveProbe, AfterProbe, ServerRotates, RefreshRefused, Goto
    <2> QED
      BY <2>1, LevelLower DEF Level
  <1>5. CASE Authorised(p)
    <2>1. todo'[p] = todo[p] /\ pc[p] = "authorise" /\ pc'[p] = "answer"
      BY <1>0, <1>5 DEF Authorised, Goto
    <2> QED
      BY <2>1, LevelLower DEF Level
  <1>6. CASE TokensReceived(p) \/ StoreToKeyring(p) \/ StoreUnavailable(p) \/ StoreToFile(p)
    <2>1. /\ todo'[p] = todo[p]
          /\ \/ pc[p] = "answer" /\ pc'[p] = "store"
             \/ pc[p] = "store" /\ pc'[p] \in {"storeFile", "saveFresh"}
             \/ pc[p] = "storeFile" /\ pc'[p] = "saveFresh"
      BY <1>0, <1>6 DEF TokensReceived, StoreToKeyring, StoreUnavailable, StoreToFile, Goto
    <2> QED
      BY <2>1, LevelLower DEF Level
  <1>7. CASE AnswerLost(p) \/ StoreToEnv(p) \/ SaveFreshFails(p)
    <2>1. AbandonFresh(p) /\ pc[p] \in {"answer", "store", "saveFresh"}
      BY <1>7 DEF AnswerLost, StoreToEnv, SaveFreshFails
    <2>2. CASE Finish(p)
      BY <2>1, <2>2, FinishLower
    <2>3. CASE pc'[p] = "ready" /\ UNCHANGED todo
      BY <2>1, <2>3, LevelLower DEF Level
    <2> QED
      BY <2>1, <2>2, <2>3, AbandonBlank
  <1>8. CASE SaveFresh(p)
    <2>1. todo'[p] = todo[p] /\ pc[p] = "saveFresh" /\ pc'[p] \in {"saveActive", "ready"}
      BY <1>0, <1>8 DEF SaveFresh, Goto
    <2> QED
      BY <2>1, LevelLower DEF Level
  <1>9. CASE Forget(p)
    <2>1. todo'[p] = todo[p] /\ pc[p] = "confirm" /\ pc'[p] = "saveForget"
      BY <1>0, <1>9 DEF Forget, Goto
    <2> QED
      BY <2>1, LevelLower DEF Level
  <1>10. CASE SaveForget(p) /\ ~Finish(p)
    <2>1. todo'[p] = todo[p] /\ pc[p] = "saveForget" /\ pc'[p] = "saveRemoved"
      BY <1>0, <1>10 DEF SaveForget, Goto
    <2> QED
      BY <2>1, LevelLower DEF Level
  <1>11. CASE SendRequests(p)
    <2>1. todo'[p] = todo[p] /\ pc[p] = "ready" /\ pc'[p] = "use"
      BY <1>0, <1>11 DEF SendRequests, Goto
    <2> QED
      BY <2>1, LevelLower DEF Level
  <1>12. CASE \/ AuthoriseFails(p) \/ SaveActive(p) \/ Switch(p) \/ Decline(p)
              \/ SaveForget(p) /\ Finish(p)
              \/ SaveRemoved(p) \/ Exit(p) \/ Crash(p)
    <2>1. Finish(p) /\ pc[p] # "idle"
      BY <1>12 DEF AuthoriseFails, SaveActive, Switch, Decline, SaveForget, SaveRemoved, Exit, Crash
    <2> QED
      BY <2>1, FinishLower
  <1> QED
    BY <1>1, <1>2, <1>3, <1>4, <1>5, <1>6, <1>7, <1>8, <1>9, <1>10, <1>11, <1>12
       DEF Advance, Search, Renew, Login, Keep, Prompt, Logout

LEMMA LoadShort == ASSUME TypeOK, NEW p \in Proc, Load(p) PROVE Len(todo'[p]) <= 3
  <1>1. \A choice \in AllChoices, cached \in Store \union {"unset"} :
          Len(ReadOrder(choice, cached)) <= 3
    BY SessionAssumption DEF ReadOrder, Chain, Store, AllChoices
  <1>2. PICK c \in Commands, choice \in Choices :
          todo'[p] = IF c \notin {"run", "git", "status"} THEN <<>>
                     ELSE IF disk.listed THEN ReadOrder(choice, disk.cached)
                     ELSE <<"env">>
    BY DEF Load, TypeOK
  <1>3. choice \in AllChoices /\ disk.cached \in Store \union {"unset"}
    BY SessionAssumption DEF TypeOK, HostsFile
  <1> QED
    BY <1>1, <1>2, <1>3

LEMMA ShortMove ==
  ASSUME TypeOK, TypeOK', Short, NEW p \in Proc, Move(p) PROVE Short'
  <1>1. \A q \in Proc \ {p} : todo'[q] = todo[q]
    BY OthersStand DEF OthersStay
  <1>2. Len(todo'[p]) <= 3
    <2>1. CASE Load(p)
      BY <2>1, LoadShort
    <2>2. CASE todo'[p] = todo[p]
      BY <2>2 DEF Short
    <2>3. CASE todo'[p] = <<>>
      BY <2>3
    <2>4. CASE todo[p] # <<>> /\ todo'[p] = Tail(todo[p])
      <3>1. todo[p] \in Seq(Store)
        BY DEF TypeOK
      <3>2. Len(todo'[p]) = Len(todo[p]) - 1 /\ Len(todo[p]) \in Nat /\ Len(todo[p]) <= 3
        BY <2>4, <3>1 DEF Short
      <3> QED
        BY <3>2
    <2>5. Load(p) \/ todo'[p] = todo[p] \/ todo'[p] = <<>> \/ (todo[p] # <<>> /\ todo'[p] = Tail(todo[p]))
      <3>1. CASE Finish(p) \/ AbandonFresh(p)
        BY <3>1, FinishBlank, AbandonBlank
      <3>2. CASE Search(p)
        BY <3>2 DEF Search, SearchFound, SearchMissing, SearchUnavailable, SearchExhausted, TypeOK
      <3>3. CASE UNCHANGED todo
        BY <3>3
      <3> QED
        BY <3>1, <3>2, <3>3
           DEF Move, Advance, Renew, SaveProbe, ServerRotates, RefreshRefused,
               Login, Authorised, AuthoriseFails, SaveActive, Keep, TokensReceived, AnswerLost,
               StoreToKeyring, StoreUnavailable, StoreToFile, StoreToEnv, SaveFresh, SaveFreshFails,
               Prompt, Forget, Switch, Decline, Logout, SaveForget, SaveRemoved,
               SendRequests, Exit, Crash, LateWriteLands
    <2> QED
      BY <2>1, <2>2, <2>3, <2>4, <2>5
  <1> QED
    BY <1>1, <1>2 DEF Short

LEMMA ShortStep == TypeOK /\ TypeOK' /\ Short /\ [Next]_vars => Short'
  <1> SUFFICES ASSUME TypeOK, TypeOK', Short, [Next]_vars PROVE Short'
    OBVIOUS
  <1>1. ASSUME NEW p \in Proc, Move(p) PROVE Short'
    BY <1>1, ShortMove
  <1>2. CASE Lapse \/ UNCHANGED vars
    BY <1>2 DEF Lapse, vars, Short
  <1> QED
    BY <1>1, <1>2 DEF Next, Move

(* Refusals, lost answers, failed saves and keyring faults included, no     *)
(* invocation is ever more than 13 steps from its end.                     *)
RunsAreShort == \A p \in Proc : Left(p) <= 13

THEOREM Bounded == Spec => []RunsAreShort
  <1>1. Init => Short
    BY DEF Init, Short
  <1>2. TypeOK /\ Short => RunsAreShort
    <2> SUFFICES ASSUME TypeOK, Short, NEW p \in Proc PROVE Left(p) <= 13
      BY DEF RunsAreShort
    <2>1. Level(pc[p]) \in 0..10 /\ Len(todo[p]) \in Nat /\ Len(todo[p]) <= 3
      BY LevelType DEF TypeOK, Short
    <2> QED
      BY <2>1 DEF Left
  <1> QED
    BY <1>1, <1>2, TypeInit, TypeStep, ShortStep, PTL DEF Spec

(* And every step it takes brings it nearer, whatever the others do: what   *)
(* is left grows only when a command is started in an idle slot, and stands *)
(* still only where the step is another's, or the keyring thread's that     *)
(* was given up on.  Of EveryRunFinishes this is all but the fairness: no   *)
(* refusal, fallback or failure leads back to a step already taken.        *)
RunsForward ==
  [][\A p \in Proc :
       /\ pc[p] # "idle" => Left(p)' <= Left(p)
       /\ pc[p] # "idle" /\ Left(p)' = Left(p) => pc'[p] = pc[p] /\ todo'[p] = todo[p]
       /\ Advance(p) => Left(p)' < Left(p)]_vars

THEOREM Forward == Spec => RunsForward
  <1> DEFINE Nearer(p) ==
               /\ pc[p] # "idle" => Left(p)' <= Left(p)
               /\ pc[p] # "idle" /\ Left(p)' = Left(p) => pc'[p] = pc[p] /\ todo'[p] = todo[p]
               /\ Advance(p) => Left(p)' < Left(p)
  <1>1. TypeOK /\ TypeOK' /\ Next => \A p \in Proc : Nearer(p)
    <2> SUFFICES ASSUME TypeOK, TypeOK', Next, NEW p \in Proc PROVE Nearer(p)
      OBVIOUS
    <2>1. CASE Advance(p) \/ Prompt(p) \/ Crash(p)
      <3>1. Left(p)' < Left(p)
        BY <2>1, AdvanceLower
      <3> QED
        BY <3>1, LeftType, LeftNext
    <2>2. CASE ~(Advance(p) \/ Prompt(p) \/ Crash(p))
      <3>1. pc[p] # "idle" => pc'[p] = pc[p] /\ todo'[p] = todo[p]
        <4>1. CASE Load(p)
          BY <4>1 DEF Load
        <4>2. CASE LateWriteLands(p) \/ Lapse
          BY <4>2 DEF LateWriteLands, Lapse
        <4>3. ASSUME NEW q \in Proc \ {p}, Move(q) PROVE pc'[p] = pc[p] /\ todo'[p] = todo[p]
          BY <4>3, OthersStand DEF OthersStay
        <4> QED
          BY <2>2, <4>1, <4>2, <4>3 DEF Next, Move
      <3>2. pc[p] # "idle" => Left(p)' = Left(p)
        BY <3>1, LeftNext DEF Left
      <3> QED
        BY <2>2, <3>1, <3>2, LeftType
    <2> QED
      BY <2>1, <2>2
  <1>2. TypeOK /\ TypeOK' /\ [Next]_vars => [\A p \in Proc : Nearer(p)]_vars
    BY <1>1
  <1> QED
    BY <1>2, TypeInit, TypeStep, PTL DEF Spec, RunsForward
========================================
