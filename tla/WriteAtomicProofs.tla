-------------------------- MODULE WriteAtomicProofs --------------------------
(***************************************************************************)
(* Theorems about WriteAtomic, for any number of processes, process ids    *)
(* and files: it implements AtomicFile, and nothing torn or exposed is     *)
(* ever seen.                                                              *)
(***************************************************************************)
EXTENDS WriteAtomic, TLAPS

(* No two names mean one file, and a temporary file is not what the disk   *)
(* or a reader holds.                                                      *)
Apart ==
  /\ \A n, m \in Name : entry[n] = entry[m] /\ entry[n] # Nothing => n = m
  /\ \A p \in Pid : entry[p] # Nothing => entry[p] \notin {durable, reading}

(* A process that saves has an id of its own, and the file of that name.   *)
Owns(w) ==
  /\ at[w] = "idle" => pid[w] = Nothing
  /\ at[w] # "idle" => /\ pid[w] \in Pid /\ doc[w] \in Doc
                       /\ fd[w] \in Inode /\ entry[pid[w]] = fd[w]
Owners ==
  /\ \A w \in Writer : Owns(w)
  /\ \A v, w \in Writer : v # w /\ pid[v] = pid[w] => pid[v] = Nothing

(* How far a process has got with its file. *)
Progress(w) ==
  /\ at[w] \in {"written", "synced"} =>
       file[fd[w]].bytes = "whole" /\ file[fd[w]].doc \in Doc
  /\ at[w] = "synced" => file[fd[w]].synced

(* What the name, the disk and a reader hold is whole and synced. *)
Solid(i) == i # Nothing => file[i].bytes = "whole" /\ file[i].synced
Settled == Solid(entry[Path]) /\ Solid(durable) /\ Solid(reading)

IInv ==
  /\ WriteTypeOK
  /\ Apart
  /\ Owners
  /\ \A w \in Writer : Progress(w)
  /\ Settled

(* Files are private from the moment they are made. *)
Private == \A i \in Inode : file[i].private

-----------------------------------------------------------------------------
(* Types. *)

LEMMA TypingInit == WriteInit => WriteTypeOK
  <1> SUFFICES ASSUME WriteInit PROVE WriteTypeOK
    OBVIOUS
  <1>1. PICK i \in Inode \union {Nothing}, d \in Doc :
          /\ file = [j \in Inode |-> IF j = i THEN [doc |-> d, bytes |-> "whole",
                                                    synced |-> TRUE, private |-> TRUE]
                                     ELSE Blank]
          /\ entry = [n \in Name |-> IF n = Path THEN i ELSE Nothing]
          /\ durable = i
    BY DEF WriteInit
  <1>2. file \in [Inode -> File]
    BY <1>1 DEF File, Blank
  <1> QED BY <1>1, <1>2 DEF WriteInit, WriteTypeOK, Name

(* What open(2) gives: a file no other name, holder or process has, emptied. *)
LEMMA OpenTakes ==
  ASSUME WriteTypeOK, Apart, Owners, NEW w \in Writer, Open(w)
  PROVE  \E p \in Pid, d \in Doc, i \in Inode :
           /\ at[w] = "idle" /\ \A v \in Writer : pid[v] # p
           /\ \A n \in Name : n # p => entry[n] # i
           /\ \A v \in Writer : at[v] # "idle" => fd[v] # i
           /\ i \notin {durable, reading}
           /\ at' = [at EXCEPT ![w] = "opened"]
           /\ pid' = [pid EXCEPT ![w] = p] /\ doc' = [doc EXCEPT ![w] = d]
           /\ fd' = [fd EXCEPT ![w] = i]
           /\ file' = [file EXCEPT ![i] = Opened(i, entry[p] # Nothing)]
           /\ entry' = [entry EXCEPT ![p] = i]
           /\ UNCHANGED <<durable, reading>>
  <1>1. PICK p \in Pid, d \in Doc :
          \E i \in IF entry[p] # Nothing THEN {entry[p]} ELSE Free :
            /\ at[w] = "idle" /\ \A v \in Writer : pid[v] # p
            /\ at' = [at EXCEPT ![w] = "opened"]
            /\ pid' = [pid EXCEPT ![w] = p] /\ doc' = [doc EXCEPT ![w] = d]
            /\ fd' = [fd EXCEPT ![w] = i]
            /\ file' = [file EXCEPT ![i] = Opened(i, entry[p] # Nothing)]
            /\ entry' = [entry EXCEPT ![p] = i]
            /\ UNCHANGED <<durable, reading>>
    BY DEF Open, Tmp, Proceed
  <1>2. CASE entry[p] # Nothing
    <2>1. entry[p] \in Inode /\ entry[p] \notin {durable, reading} /\ p \in Name
      BY <1>2 DEF WriteTypeOK, Name, Apart
    <2>2. \A n \in Name : n # p => entry[n] # entry[p]
      BY <1>2, <2>1 DEF Apart
    <2>3. \A v \in Writer : at[v] # "idle" => fd[v] # entry[p]
      BY <1>1, <2>2 DEF Owners, Owns, Name
    <2>4. /\ fd' = [fd EXCEPT ![w] = entry[p]]
          /\ file' = [file EXCEPT ![entry[p]] = Opened(entry[p], entry[p] # Nothing)]
          /\ entry' = [entry EXCEPT ![p] = entry[p]]
      BY <1>1, <1>2
    <2> DEFINE i == entry[p]
    <2>5. /\ i \in Inode
          /\ at[w] = "idle" /\ \A v \in Writer : pid[v] # p
          /\ \A n \in Name : n # p => entry[n] # i
          /\ \A v \in Writer : at[v] # "idle" => fd[v] # i
          /\ i \notin {durable, reading}
          /\ at' = [at EXCEPT ![w] = "opened"]
          /\ pid' = [pid EXCEPT ![w] = p] /\ doc' = [doc EXCEPT ![w] = d]
          /\ fd' = [fd EXCEPT ![w] = i]
          /\ file' = [file EXCEPT ![i] = Opened(i, entry[p] # Nothing)]
          /\ entry' = [entry EXCEPT ![p] = i]
          /\ UNCHANGED <<durable, reading>>
      BY <1>1, <2>1, <2>2, <2>3, <2>4
    <2> HIDE DEF i
    <2> QED BY <2>5
  <1>3. CASE entry[p] = Nothing
    <2>1. PICK i \in Free :
            /\ at[w] = "idle" /\ \A v \in Writer : pid[v] # p
            /\ at' = [at EXCEPT ![w] = "opened"]
            /\ pid' = [pid EXCEPT ![w] = p] /\ doc' = [doc EXCEPT ![w] = d]
            /\ fd' = [fd EXCEPT ![w] = i]
            /\ file' = [file EXCEPT ![i] = Opened(i, entry[p] # Nothing)]
            /\ entry' = [entry EXCEPT ![p] = i]
            /\ UNCHANGED <<durable, reading>>
      BY <1>1, <1>3
    <2>2. /\ i \in Inode /\ \A n \in Name : entry[n] # i
          /\ \A v \in Writer : fd[v] # i
          /\ i \notin {durable, reading}
      BY DEF Free
    <2> QED BY <2>1, <2>2
  <1> QED BY <1>2, <1>3

LEMMA OpenTyped == ASSUME WriteTypeOK, Apart, Owners, NEW w \in Writer, Open(w) PROVE WriteTypeOK'
  <1>1. PICK p \in Pid, d \in Doc, i \in Inode :
          /\ at' = [at EXCEPT ![w] = "opened"]
          /\ pid' = [pid EXCEPT ![w] = p] /\ doc' = [doc EXCEPT ![w] = d]
          /\ fd' = [fd EXCEPT ![w] = i]
          /\ file' = [file EXCEPT ![i] = Opened(i, entry[p] # Nothing)]
          /\ entry' = [entry EXCEPT ![p] = i]
          /\ UNCHANGED <<durable, reading>>
    BY OpenTakes
  <1>2. Opened(i, entry[p] # Nothing) \in File
    BY DEF Opened, Blank, File, WriteTypeOK
  <1> QED BY <1>1, <1>2 DEF WriteTypeOK, Name

LEMMA PutTyped ==
  ASSUME WriteTypeOK, NEW w \in Writer, NEW b \in {"empty", "part", "whole"}, Put(w, b)
  PROVE  file' \in [Inode -> File]
  <1>1. CASE fd[w] \in Inode
    <2>1. file[fd[w]].private \in BOOLEAN /\ doc[w] \in Doc \union {Absent}
      BY <1>1 DEF WriteTypeOK, File
    <2>2. [doc |-> doc[w], bytes |-> b, synced |-> FALSE,
           private |-> file[fd[w]].private] \in File
      BY <2>1 DEF File
    <2> QED BY <2>2 DEF Put, WriteTypeOK
  <1>2. CASE fd[w] \notin Inode
    BY <1>2 DEF Put, WriteTypeOK
  <1> QED BY <1>1, <1>2

LEMMA SyncTyped ==
  ASSUME WriteTypeOK, NEW w \in Writer, file' = Synced(w) PROVE file' \in [Inode -> File]
  <1>1. CASE fd[w] \in Inode
    BY <1>1 DEF Synced, WriteTypeOK, File
  <1>2. CASE fd[w] \notin Inode
    BY <1>2 DEF Synced, WriteTypeOK
  <1> QED BY <1>1, <1>2

LEMMA FinishTyped ==
  ASSUME WriteTypeOK, NEW w \in Writer, EndSave(w)
  PROVE  /\ at' \in [Writer -> {"idle", "opened", "written", "synced"}]
         /\ pid' \in [Writer -> Pid \union {Nothing}]
         /\ doc' \in [Writer -> Doc \union {Absent}]
         /\ fd' \in [Writer -> Inode \union {Nothing}]
  BY DEF EndSave, Proceed, WriteTypeOK

LEMMA PowerCutTyped == ASSUME WriteTypeOK, PowerCut PROVE WriteTypeOK'
  <1>1. file' \in [Inode -> File]
    BY DEF PowerCut, WriteTypeOK, File
  <1>2. entry' \in [Name -> Inode \union {Nothing}] /\ durable' \in Inode \union {Nothing}
    BY DEF PowerCut, WriteTypeOK, Name
  <1> QED BY <1>1, <1>2 DEF PowerCut, WriteTypeOK

LEMMA TypingStep == ASSUME WriteTypeOK, Apart, Owners, [WriteNext]_writeVars PROVE WriteTypeOK'
  <1>1. CASE UNCHANGED writeVars
    BY <1>1 DEF WriteTypeOK, writeVars
  <1>2. ASSUME NEW w \in Writer, Save(w) PROVE WriteTypeOK'
    <2>1. CASE Open(w)
      BY <2>1, OpenTyped
    <2>2. CASE WriteSome(w)
      BY <2>2, PutTyped DEF WriteSome, WriteTypeOK
    <2>3. CASE WriteRest(w)
      BY <2>3, PutTyped DEF WriteRest, Proceed, WriteTypeOK
    <2>4. CASE Sync(w)
      BY <2>4, SyncTyped DEF Sync, Proceed, WriteTypeOK
    <2>5. CASE Rename(w)
      <3>1. pid[w] \in Name /\ Path \in Name
        BY <2>5 DEF Rename, Owners, Owns, Name
      <3>2. entry' \in [Name -> Inode \union {Nothing}]
        BY <2>5, <3>1 DEF Rename, WriteTypeOK, Tmp
      <3> QED BY <2>5, <3>2, FinishTyped DEF Rename, WriteTypeOK
    <2>6. CASE Stops(w)
      BY <2>6, FinishTyped DEF Stops, Fails, WriteTypeOK
    <2> QED BY <1>2, <2>1, <2>2, <2>3, <2>4, <2>5, <2>6 DEF Save
  <1>3. CASE Flush
    BY <1>3 DEF Flush, WriteTypeOK, Name
  <1>4. CASE PowerCut
    BY <1>4, PowerCutTyped
  <1>5. CASE Read
    BY <1>5 DEF Read, WriteTypeOK, Name
  <1> QED BY <1>1, <1>2, <1>3, <1>4, <1>5 DEF WriteNext

-----------------------------------------------------------------------------
(* The invariant, one action at a time. *)

LEMMA InvInit == WriteInit => IInv
  <1> SUFFICES ASSUME WriteInit PROVE IInv
    OBVIOUS
  <1>1. PICK i \in Inode \union {Nothing}, d \in Doc :
          /\ file = [j \in Inode |-> IF j = i THEN [doc |-> d, bytes |-> "whole",
                                                    synced |-> TRUE, private |-> TRUE]
                                     ELSE Blank]
          /\ entry = [n \in Name |-> IF n = Path THEN i ELSE Nothing]
          /\ durable = i
    BY DEF WriteInit
  <1>2. Apart
    BY <1>1, WriteAtomicAssumption DEF Apart, Name
  <1>3. Owners /\ \A w \in Writer : Progress(w)
    BY DEF WriteInit, Owners, Owns, Progress
  <1>4. Solid(i)
    BY <1>1 DEF Solid
  <1>5. entry[Path] = i /\ reading = Nothing
    BY <1>1 DEF WriteInit, Name
  <1>6. Settled
    BY <1>1, <1>4, <1>5 DEF Settled, Solid
  <1> QED BY <1>2, <1>3, <1>6, TypingInit DEF IInv

LEMMA OpenKeeps == ASSUME IInv, NEW w \in Writer, Open(w) PROVE IInv'
  <1>1. PICK p \in Pid, d \in Doc, i \in Inode :
           /\ at[w] = "idle" /\ \A v \in Writer : pid[v] # p
           /\ \A n \in Name : n # p => entry[n] # i
           /\ \A v \in Writer : at[v] # "idle" => fd[v] # i
           /\ i \notin {durable, reading}
           /\ at' = [at EXCEPT ![w] = "opened"]
           /\ pid' = [pid EXCEPT ![w] = p] /\ doc' = [doc EXCEPT ![w] = d]
           /\ fd' = [fd EXCEPT ![w] = i]
           /\ file' = [file EXCEPT ![i] = Opened(i, entry[p] # Nothing)]
           /\ entry' = [entry EXCEPT ![p] = i]
           /\ UNCHANGED <<durable, reading>>
    BY OpenTakes DEF IInv
  <1>2. WriteTypeOK /\ WriteTypeOK' /\ p \in Name /\ p # Path /\ Path \in Name
    BY OpenTyped, WriteAtomicAssumption DEF IInv, Name
  <1>3. Apart'
    BY <1>1, <1>2 DEF IInv, Apart, WriteTypeOK
  <1>4. Owners'
    <2>1. \A v \in Writer : Owns(v)'
      <3> SUFFICES ASSUME NEW v \in Writer PROVE Owns(v)'
        OBVIOUS
      <3>1. CASE v = w
        BY <1>1, <1>2, <3>1, WriteAtomicAssumption DEF Owns, WriteTypeOK
      <3>2. CASE v # w
        <4>1. at'[v] = at[v] /\ pid'[v] = pid[v] /\ doc'[v] = doc[v] /\ fd'[v] = fd[v]
          BY <1>1, <1>2, <3>2 DEF WriteTypeOK
        <4>2. Owns(v) /\ (pid[v] \in Pid => entry'[pid[v]] = entry[pid[v]])
          BY <1>1, <1>2 DEF IInv, Owners, WriteTypeOK, Name
        <4> QED BY <4>1, <4>2 DEF Owns
      <3> QED BY <3>1, <3>2
    <2>2. \A u, v \in Writer : u # v /\ pid'[u] = pid'[v] => pid'[u] = Nothing
      BY <1>1, <1>2 DEF IInv, Owners, WriteTypeOK
    <2> QED BY <2>1, <2>2 DEF Owners
  <1>5. ASSUME NEW v \in Writer PROVE Progress(v)'
    <2>1. CASE v = w
      BY <1>1, <1>2, <2>1 DEF Progress, WriteTypeOK
    <2>2. CASE v # w
      <3>1. at'[v] = at[v] /\ fd'[v] = fd[v] /\ Progress(v)
        BY <1>1, <1>2, <2>2 DEF IInv, WriteTypeOK
      <3>2. at[v] # "idle" => fd[v] \in Inode /\ file'[fd[v]] = file[fd[v]]
        BY <1>1, <1>2 DEF IInv, Owners, Owns, WriteTypeOK
      <3> QED BY <3>1, <3>2 DEF Progress
    <2> QED BY <2>1, <2>2
  <1>6. Settled'
    <2>1. entry'[Path] = entry[Path] /\ i \notin {entry[Path], durable, reading}
      BY <1>1, <1>2 DEF WriteTypeOK
    <2> QED BY <1>1, <1>2, <2>1 DEF IInv, Settled, Solid, WriteTypeOK
  <1> QED BY <1>2, <1>3, <1>4, <1>5, <1>6 DEF IInv

(* A write or a sync changes the writer's own file and nothing else.       *)
LEMMA FileKeeps ==
  ASSUME IInv, NEW w \in Writer, at[w] # "idle",
         NEW f, f \in File, file' = [file EXCEPT ![fd[w]] = f],
         NEW label \in {"opened", "written", "synced"}, at' = [at EXCEPT ![w] = label],
         label \in {"written", "synced"} => f.bytes = "whole" /\ f.doc \in Doc,
         label = "synced" => f.synced,
         UNCHANGED <<entry, durable, pid, doc, fd, reading>>, WriteTypeOK'
  PROVE  IInv'
  <1>1. WriteTypeOK /\ fd[w] \in Inode /\ pid[w] \in Pid /\ entry[pid[w]] = fd[w]
    BY DEF IInv, Owners, Owns
  <1>2. fd[w] \notin {entry[Path], durable, reading}
    BY <1>1, WriteAtomicAssumption DEF IInv, Apart, Name
  <1>3. \A v \in Writer : v # w /\ at[v] # "idle" => fd[v] # fd[w]
    BY <1>1, WriteAtomicAssumption DEF IInv, Apart, Owners, Owns, Name
  <1>4. Apart'
    BY DEF IInv, Apart
  <1>5. Owners'
    BY <1>1 DEF IInv, Owners, Owns, WriteTypeOK
  <1>6. ASSUME NEW v \in Writer PROVE Progress(v)'
    <2>1. CASE v = w
      BY <1>1, <2>1 DEF Progress, WriteTypeOK
    <2>2. CASE v # w
      <3>1. at'[v] = at[v] /\ (at[v] # "idle" => file'[fd[v]] = file[fd[v]])
        BY <1>1, <1>3, <2>2 DEF WriteTypeOK, IInv, Owners, Owns
      <3> QED BY <3>1 DEF IInv, Progress
    <2> QED BY <2>1, <2>2
  <1>7. Settled'
    BY <1>1, <1>2 DEF IInv, Settled, Solid, WriteTypeOK
  <1> QED BY <1>4, <1>5, <1>6, <1>7 DEF IInv

LEMMA WritingKeeps ==
  ASSUME IInv, NEW w \in Writer, WriteSome(w) \/ WriteRest(w) \/ Sync(w) PROVE IInv'
  <1>1. /\ WriteTypeOK /\ WriteTypeOK' /\ fd[w] \in Inode /\ doc[w] \in Doc /\ at[w] # "idle"
        /\ file[fd[w]] \in File
    BY TypingStep DEF IInv, Owners, Owns, WriteTypeOK, WriteSome, WriteRest, Sync, WriteNext, Save
  <1>2. CASE WriteSome(w)
    <2> DEFINE f == [doc |-> doc[w], bytes |-> "part", synced |-> FALSE,
                     private |-> file[fd[w]].private]
    <2>1. f \in File /\ file' = [file EXCEPT ![fd[w]] = f]
      BY <1>1, <1>2 DEF WriteSome, Put, File
    <2>2. at' = [at EXCEPT ![w] = "opened"]
      BY <1>1, <1>2 DEF WriteSome, WriteTypeOK
    <2> HIDE DEF f
    <2> QED BY <1>1, <1>2, <2>1, <2>2, FileKeeps DEF WriteSome
  <1>3. CASE WriteRest(w)
    <2> DEFINE f == [doc |-> doc[w], bytes |-> "whole", synced |-> FALSE,
                     private |-> file[fd[w]].private]
    <2>1. f \in File /\ file' = [file EXCEPT ![fd[w]] = f] /\ f.bytes = "whole" /\ f.doc \in Doc
      BY <1>1, <1>3 DEF WriteRest, Put, File
    <2> HIDE DEF f
    <2> QED BY <1>1, <1>3, <2>1, FileKeeps DEF WriteRest, Proceed
  <1>4. CASE Sync(w)
    <2> DEFINE f == [file[fd[w]] EXCEPT !.synced = TRUE]
    <2>1. f \in File /\ file' = [file EXCEPT ![fd[w]] = f]
      BY <1>1, <1>4 DEF Sync, Synced, File, WriteTypeOK
    <2>2. f.bytes = "whole" /\ f.doc \in Doc /\ f.synced
      BY <1>1, <1>4 DEF Sync, IInv, Progress, File
    <2> HIDE DEF f
    <2> QED BY <1>1, <1>4, <2>1, <2>2, FileKeeps DEF Sync, Proceed
  <1> QED BY <1>2, <1>3, <1>4

(* A process that ends leaves the others as they were. *)
LEMMA FinishKeeps ==
  ASSUME WriteTypeOK, Owners, NEW w \in Writer, EndSave(w), UNCHANGED file,
         \A v \in Writer : Progress(v),
         \A v \in Writer : v # w /\ at[v] # "idle" => entry'[pid[v]] = entry[pid[v]]
  PROVE  Owners' /\ \A v \in Writer : Progress(v)'
  <1>1. \A v \in Writer : v # w =>
          at'[v] = at[v] /\ pid'[v] = pid[v] /\ doc'[v] = doc[v] /\ fd'[v] = fd[v]
    BY DEF EndSave, Proceed, WriteTypeOK
  <1>2. at'[w] = "idle" /\ pid'[w] = Nothing
    BY DEF EndSave, Proceed, WriteTypeOK
  <1>3. \A v \in Writer : Owns(v)'
    BY <1>1, <1>2 DEF Owners, Owns
  <1>4. \A u, v \in Writer : u # v /\ pid'[u] = pid'[v] => pid'[u] = Nothing
    BY <1>1, <1>2 DEF Owners
  <1>5. \A v \in Writer : Progress(v)'
    BY <1>1, <1>2 DEF Progress
  <1> QED BY <1>3, <1>4, <1>5 DEF Owners

LEMMA RenameKeeps == ASSUME IInv, NEW w \in Writer, Rename(w) PROVE IInv'
  <1>1. /\ WriteTypeOK /\ WriteTypeOK' /\ Path \in Name /\ Path \notin Pid
        /\ pid[w] \in Pid /\ pid[w] \in Name /\ fd[w] \in Inode /\ entry[pid[w]] = fd[w]
    BY TypingStep, WriteAtomicAssumption DEF IInv, Owners, Owns, Rename, Name, WriteNext, Save
  <1>2. /\ \A n \in Name : entry'[n] = IF n = pid[w] THEN Nothing
                                       ELSE IF n = Path THEN fd[w] ELSE entry[n]
        /\ UNCHANGED <<file, durable, reading>>
    BY <1>1 DEF Rename, Tmp, WriteTypeOK
  <1>3. Apart'
    <2>1. \A n, m \in Name : entry'[n] = entry'[m] /\ entry'[n] # Nothing => n = m
      BY <1>1, <1>2 DEF IInv, Apart
    <2>2. \A p \in Pid : entry'[p] # Nothing => entry'[p] \notin {durable, reading}
      BY <1>1, <1>2 DEF IInv, Apart, Name
    <2> QED BY <1>2, <2>1, <2>2 DEF Apart
  <1>4. \A v \in Writer : v # w /\ at[v] # "idle" => entry'[pid[v]] = entry[pid[v]]
    BY <1>1, <1>2, WriteAtomicAssumption DEF IInv, Owners, Owns, Name
  <1>5. Owners' /\ \A v \in Writer : Progress(v)'
    BY <1>2, <1>4, FinishKeeps DEF IInv, Rename
  <1>6. Solid(fd[w])
    BY DEF Rename, IInv, Progress, Solid
  <1>7. Settled'
    BY <1>1, <1>2, <1>6 DEF IInv, Settled, Solid
  <1> QED BY <1>1, <1>3, <1>5, <1>7 DEF IInv

LEMMA StopsKeeps == ASSUME IInv, NEW w \in Writer, Stops(w) PROVE IInv'
  <1>1. WriteTypeOK'
    BY TypingStep DEF IInv, WriteNext, Save
  <1>2. Owners' /\ \A v \in Writer : Progress(v)'
    BY FinishKeeps DEF IInv, Stops, Fails
  <1> QED BY <1>1, <1>2 DEF IInv, Stops, Fails, Apart, Settled, Solid

LEMMA PowerCutKeeps == ASSUME IInv, PowerCut PROVE IInv'
  <1>1. WriteTypeOK /\ WriteTypeOK' /\ Path \in Name /\ Path \notin Pid
    BY TypingStep, WriteAtomicAssumption DEF IInv, WriteNext, Name
  <1>2. PICK kept \in SUBSET Pid, i \in {entry[Path], durable} :
          /\ entry' = [n \in Name |-> IF n = Path THEN i
                                      ELSE IF n \in kept THEN entry[n] ELSE Nothing]
          /\ durable' = i
    BY DEF PowerCut
  <1>3. \A j \in Inode : file[j].bytes = "whole" /\ file[j].synced => file'[j] = file[j]
    BY <1>1 DEF PowerCut, WriteTypeOK
  <1>4. Apart'
    <2>1. \A p \in Pid : entry[p] # Nothing => entry[p] # i
      BY <1>1, <1>2 DEF IInv, Apart, Name
    <2>2. \A n, m \in Name : entry'[n] = entry'[m] /\ entry'[n] # Nothing => n = m
      BY <1>1, <1>2, <2>1 DEF IInv, Apart, Name
    <2>3. reading' = Nothing
      BY DEF PowerCut
    <2> QED BY <1>1, <1>2, <2>1, <2>2, <2>3 DEF Apart, Name
  <1>5. Owners' /\ \A w \in Writer : Progress(w)'
    BY DEF PowerCut, Owners, Owns, Progress
  <1>6. Solid(i) /\ (i # Nothing => i \in Inode)
    BY <1>1, <1>2 DEF IInv, Settled, WriteTypeOK
  <1>7. Settled'
    BY <1>1, <1>2, <1>3, <1>6 DEF Settled, Solid, PowerCut
  <1> QED BY <1>1, <1>4, <1>5, <1>7 DEF IInv

LEMMA OutsideKeeps == ASSUME IInv, Flush \/ Read PROVE IInv'
  <1>1. WriteTypeOK /\ WriteTypeOK' /\ Path \in Name /\ Path \notin Pid
    BY TypingStep, WriteAtomicAssumption DEF IInv, WriteNext, Name
  <1>2. Apart'
    BY <1>1 DEF IInv, Apart, Flush, Read, Name
  <1>3. Owners' /\ \A w \in Writer : Progress(w)'
    BY DEF IInv, Owners, Owns, Progress, Flush, Read
  <1>4. Settled'
    BY DEF IInv, Settled, Solid, Flush, Read
  <1> QED BY <1>1, <1>2, <1>3, <1>4 DEF IInv

LEMMA InvStep == ASSUME IInv, [WriteNext]_writeVars PROVE IInv'
  <1>1. CASE UNCHANGED writeVars
    BY <1>1 DEF IInv, WriteTypeOK, Apart, Owners, Owns, Progress, Settled, Solid, writeVars
  <1>2. ASSUME NEW w \in Writer, Save(w) PROVE IInv'
    BY <1>2, OpenKeeps, WritingKeeps, RenameKeeps, StopsKeeps DEF Save
  <1>3. CASE PowerCut
    BY <1>3, PowerCutKeeps
  <1>4. CASE Flush \/ Read
    BY <1>4, OutsideKeeps
  <1> QED BY <1>1, <1>2, <1>3, <1>4 DEF WriteNext

(* The strengthening holds in every reachable state. *)
THEOREM Invariance == WriteSpec => []IInv
  BY InvInit, InvStep, PTL DEF WriteSpec

(* Whoever has the file open, the current one or one replaced since, reads *)
(* a whole document.                                                       *)
THEOREM Untorn == WriteSpec => []NoTornRead
  <1>1. IInv => NoTornRead
    BY DEF IInv, Settled, Solid, NoTornRead
  <1> QED BY <1>1, Invariance, PTL
(* Every reachable state is well typed. *)
THEOREM Typing == WriteSpec => []WriteTypeOK
  <1>1. IInv => WriteTypeOK
    BY DEF IInv
  <1> QED BY <1>1, Invariance, PTL

-----------------------------------------------------------------------------
(* Modes. *)

LEMMA PrivateInit == WriteInit => Private
  BY DEF WriteInit, Private, Blank

LEMMA PrivateStep == ASSUME WriteTypeOK, Private, [WriteNext]_writeVars PROVE Private'
  <1>1. CASE UNCHANGED file
    BY <1>1 DEF Private
  <1>2. ASSUME NEW w \in Writer, Open(w) PROVE Private'
    <2>1. PICK i \in Inode, old \in BOOLEAN : file' = [file EXCEPT ![i] = Opened(i, old)]
      <3>1. PICK p \in Pid :
              \E i \in IF entry[p] # Nothing THEN {entry[p]} ELSE Free :
                file' = [file EXCEPT ![i] = Opened(i, entry[p] # Nothing)]
        BY <1>2 DEF Open, Tmp
      <3>2. PICK i \in IF entry[p] # Nothing THEN {entry[p]} ELSE Free :
              file' = [file EXCEPT ![i] = Opened(i, entry[p] # Nothing)]
        BY <3>1
      <3>3. i \in Inode
        BY DEF Free, WriteTypeOK, Name
      <3>4. (entry[p] # Nothing) \in BOOLEAN
        OBVIOUS
      <3> QED BY <3>2, <3>3, <3>4
    <2>2. Opened(i, old).private
      BY DEF Opened, Blank, Private
    <2> QED BY <2>1, <2>2 DEF Private, WriteTypeOK
  <1>3. ASSUME NEW w \in Writer, NEW b, Put(w, b) PROVE Private'
    BY <1>3 DEF Put, Private, WriteTypeOK
  <1>4. ASSUME NEW w \in Writer, file' = Synced(w) PROVE Private'
    BY <1>4 DEF Synced, Private, WriteTypeOK, File
  <1>5. CASE PowerCut
    BY <1>5 DEF PowerCut, Private, WriteTypeOK, File
  <1> QED BY <1>1, <1>2, <1>3, <1>4, <1>5
        DEF WriteNext, Save, WriteSome, WriteRest, Sync, Rename, Stops, Fails, Flush, Read, writeVars

(* No file has bytes in it while others may read it.                       *)
THEOREM Unexposed == WriteSpec => []NeverExposed
  <1>1. Private => NeverExposed
    BY DEF Private, NeverExposed
  <1> QED BY <1>1, PrivateInit, PrivateStep, Typing, PTL DEF WriteSpec

-----------------------------------------------------------------------------
(* Refinement. *)

Now == Content(entry[Path])
Kept == IF durable # Nothing /\ ~file[durable].synced THEN Torn ELSE Content(durable)

LEMMA AbstractInit == WriteInit => Atomic!Init
  <1> SUFFICES ASSUME WriteInit PROVE Now \in Doc \union {Absent} /\ Kept = Now
    BY DEF Atomic!Init, Now, Kept
  <1>1. PICK i \in Inode \union {Nothing}, d \in Doc :
          /\ file = [j \in Inode |-> IF j = i THEN [doc |-> d, bytes |-> "whole",
                                                    synced |-> TRUE, private |-> TRUE]
                                     ELSE Blank]
          /\ entry = [n \in Name |-> IF n = Path THEN i ELSE Nothing]
          /\ durable = i
    BY DEF WriteInit
  <1>2. entry[Path] = i
    BY <1>1 DEF Name
  <1> QED BY <1>1, <1>2 DEF Now, Kept, Content

(* A step that leaves the named and the durable file alone is a stutter.   *)
LEMMA Unseen ==
  ASSUME IInv, entry'[Path] = entry[Path], durable' = durable,
         \A i \in Inode : i \in {entry[Path], durable} => file'[i] = file[i]
  PROVE  UNCHANGED <<Now, Kept>>
  BY DEF IInv, WriteTypeOK, Name, Now, Kept, Content

LEMMA AbstractStep == ASSUME IInv, [WriteNext]_writeVars PROVE [Atomic!Next]_<<Now, Kept>>
  <1>0. WriteTypeOK /\ WriteTypeOK' /\ Path \in Name /\ Path \notin Pid
    BY InvStep, WriteAtomicAssumption DEF IInv, Name
  <1>1. CASE UNCHANGED writeVars
    BY <1>1 DEF writeVars, Now, Kept, Content
  <1>2. ASSUME NEW w \in Writer, Open(w) PROVE UNCHANGED <<Now, Kept>>
    <2>1. PICK p \in Pid, i \in Inode :
            /\ \A n \in Name : n # p => entry[n] # i
            /\ i \notin {durable, reading}
            /\ file' = [file EXCEPT ![i] = Opened(i, entry[p] # Nothing)]
            /\ entry' = [entry EXCEPT ![p] = i]
            /\ UNCHANGED <<durable, reading>>
      BY <1>2, OpenTakes DEF IInv
    <2> QED BY <1>0, <2>1, Unseen DEF WriteTypeOK
  <1>3. ASSUME NEW w \in Writer, WriteSome(w) \/ WriteRest(w) \/ Sync(w)
        PROVE  UNCHANGED <<Now, Kept>>
    <2>0. /\ fd[w] \in Inode /\ fd[w] # Nothing
          /\ pid[w] \in Pid /\ pid[w] \in Name /\ entry[pid[w]] = fd[w]
      BY <1>3, WriteAtomicAssumption DEF IInv, Owners, Owns, Name, WriteSome, WriteRest, Sync
    <2>1. fd[w] \notin {entry[Path], durable}
      BY <1>0, <2>0 DEF IInv, Apart
    <2>2. \A i \in Inode : i # fd[w] => file'[i] = file[i]
      BY <1>0, <1>3 DEF WriteSome, WriteRest, Sync, Put, Synced, WriteTypeOK
    <2> QED BY <1>3, <2>0, <2>1, <2>2, Unseen DEF WriteSome, WriteRest, Sync
  <1>4. ASSUME NEW w \in Writer, Rename(w) PROVE Now' \in Doc /\ Kept' = Kept
    <2>1. pid[w] \in Pid /\ entry[pid[w]] = fd[w] /\ fd[w] \in Inode
      BY <1>4 DEF Rename, IInv, Owners, Owns
    <2>2. entry'[Path] = fd[w] /\ UNCHANGED <<file, durable>>
      BY <1>0, <1>4, <2>1 DEF Rename, Tmp, WriteTypeOK, Name
    <2>3. file[fd[w]].bytes = "whole" /\ file[fd[w]].doc \in Doc /\ fd[w] # Nothing
      BY <1>4, <2>1, WriteAtomicAssumption DEF Rename, IInv, Progress
    <2> QED BY <2>2, <2>3 DEF Now, Kept, Content
  <1>5. ASSUME NEW w \in Writer, Stops(w) PROVE UNCHANGED <<Now, Kept>>
    BY <1>5, Unseen DEF Stops, Fails
  <1>6. CASE Read
    BY <1>6, Unseen DEF Read
  <1>7. CASE Flush
    BY <1>7 DEF Flush, Atomic!Next, Atomic!Flush, IInv, Settled, Solid, Now, Kept, Content
  <1>8. CASE PowerCut
    <2>1. PICK i \in {entry[Path], durable} : entry'[Path] = i /\ durable' = i
      BY <1>0, <1>8 DEF PowerCut
    <2>2. i # Nothing => i \in Inode /\ file'[i] = file[i] /\ file[i].synced
      BY <1>0, <1>8, <2>1 DEF PowerCut, IInv, Settled, Solid, WriteTypeOK
    <2>3. Kept' = Now'
      BY <2>1, <2>2 DEF Now, Kept, Content
    <2>4. Now' \in {Now, Kept}
      BY <2>1, <2>2 DEF Now, Kept, Content
    <2> QED BY <2>3, <2>4 DEF Atomic!Next, Atomic!PowerCut, Now, Kept
  <1> QED BY <1>1, <1>2, <1>3, <1>4, <1>5, <1>6, <1>7, <1>8
        DEF WriteNext, Save, Atomic!Next, Atomic!Replace, Now, Kept

(* The system calls amount to an atomic replacement that a power cut keeps *)
(* or undoes as a whole.                                                   *)
THEOREM Replacement == WriteSpec => ImplementsAtomicFile
  <1>1. [Atomic!Next]_<<Now, Kept>> =>
        [Atomic!Next]_<<Content(entry[Path]),
                        IF durable # Nothing /\ ~file[durable].synced THEN Torn ELSE Content(durable)>>
    BY DEF Now, Kept
  <1> QED BY <1>1, AbstractInit, AbstractStep, Invariance, PTL
        DEF WriteSpec, ImplementsAtomicFile, Atomic!Spec
=============================================================================
