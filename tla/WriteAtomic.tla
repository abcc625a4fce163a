----------------------------- MODULE WriteAtomic -----------------------------
(***************************************************************************)
(* write_atomic and the file system under it: fjo processes that replace   *)
(* one file through a temporary file, one system call at a time, readers   *)
(* that hold it open meanwhile, processes that are killed, a disk that is  *)
(* full, and a power cut that loses what was not synced.                   *)
(***************************************************************************)
EXTENDS FiniteSets

CONSTANTS
  Writer,   \* slots of processes that save
  Pid,      \* process ids, which the system reuses
  Inode,    \* the file system's files
  Nothing,     \* no file, no process
  Doc,      \* the documents saved
  Absent    \* what is read where there is no file

Path == "path"

ASSUME WriteAtomicAssumption ==
  /\ Nothing \notin Inode /\ Nothing \notin Pid
  /\ Path \notin Pid
  /\ Absent \notin Doc

VARIABLES
  file,      \* every inode: its document, how much of it, is it on disk, mode
  entry,     \* the directory: names to inodes
  durable,   \* the inode that the directory on disk names Path
  at, pid, doc, fd,   \* a writer: where it is, its id, what it saves, its file
  reading    \* an inode that some reader has open

writeVars == <<file, entry, durable, at, pid, doc, fd, reading>>

Name == {Path} \union Pid
File == [doc : Doc \union {Absent}, bytes : {"empty", "part", "whole"},
         synced : BOOLEAN, private : BOOLEAN]
Blank == [doc |-> Absent, bytes |-> "empty", synced |-> FALSE, private |-> TRUE]

WriteTypeOK ==
  /\ file \in [Inode -> File]
  /\ entry \in [Name -> Inode \union {Nothing}]
  /\ durable \in Inode \union {Nothing}
  /\ at \in [Writer -> {"idle", "opened", "written", "synced"}]
  /\ pid \in [Writer -> Pid \union {Nothing}]
  /\ doc \in [Writer -> Doc \union {Absent}]
  /\ fd \in [Writer -> Inode \union {Nothing}]
  /\ reading \in Inode \union {Nothing}

(* No file yet, or one that is whole and on disk, written by fjo.          *)
WriteInit ==
  /\ \E i \in Inode \union {Nothing}, d \in Doc :
       /\ file = [j \in Inode |-> IF j = i THEN [doc |-> d, bytes |-> "whole",
                                                 synced |-> TRUE, private |-> TRUE]
                                  ELSE Blank]
       /\ entry = [n \in Name |-> IF n = Path THEN i ELSE Nothing]
       /\ durable = i
  /\ at = [w \in Writer |-> "idle"]
  /\ pid = [w \in Writer |-> Nothing]
  /\ doc = [w \in Writer |-> Absent]
  /\ fd = [w \in Writer |-> Nothing]
  /\ reading = Nothing

-----------------------------------------------------------------------------
\* Mutant: one temporary name for every process.
TmpShared(p) == CHOOSE q \in Pid : TRUE

(* The temporary file is named after the target and the process id.        *)
Tmp(p) == p

Proceed(w, label) == at' = [at EXCEPT ![w] = label]

(* The end of a save, well or not; a file it leaves behind stays.          *)
EndSave(w) ==
  /\ Proceed(w, "idle")
  /\ pid' = [pid EXCEPT ![w] = Nothing]
  /\ doc' = [doc EXCEPT ![w] = Absent]
  /\ fd' = [fd EXCEPT ![w] = Nothing]

Fails(w) == EndSave(w) /\ UNCHANGED <<file, entry, durable, reading>>

(* An inode that no name and no process refers to. *)
Free == {i \in Inode : /\ \A n \in Name : entry[n] # i
                       /\ \A w \in Writer : fd[w] # i
                       /\ i \notin {durable, reading}}

\* Mutant: the file is created with the default mode.
OpenedPublic(i, old) == [Blank EXCEPT !.private = IF old THEN file[i].private ELSE FALSE]

(* open(2) with O_CREAT, O_TRUNC and the mode: a file that a process of    *)
(* the same id left behind is emptied and keeps its mode.                  *)
Opened(i, old) == [Blank EXCEPT !.private = IF old THEN file[i].private ELSE TRUE]

(* A process of a new id begins to save d. *)
Open(w) ==
  \E p \in Pid, d \in Doc :
    LET old == entry[Tmp(p)] # Nothing
    IN  \E i \in IF old THEN {entry[Tmp(p)]} ELSE Free :
          /\ at[w] = "idle" /\ \A v \in Writer : pid[v] # p
          /\ Proceed(w, "opened")
          /\ pid' = [pid EXCEPT ![w] = p]
          /\ doc' = [doc EXCEPT ![w] = d]
          /\ fd' = [fd EXCEPT ![w] = i]
          /\ file' = [file EXCEPT ![i] = Opened(i, old)]
          /\ entry' = [entry EXCEPT ![Tmp(p)] = i]
          /\ UNCHANGED <<durable, reading>>

Put(w, bytes) ==
  file' = [file EXCEPT ![fd[w]] = [doc |-> doc[w], bytes |-> bytes, synced |-> FALSE,
                                   private |-> file[fd[w]].private]]

(* write_all may take several write(2) calls. *)
WriteSome(w) ==
  /\ at[w] = "opened"
  /\ Put(w, "part")
  /\ UNCHANGED <<entry, durable, at, pid, doc, fd, reading>>

WriteRest(w) ==
  /\ at[w] = "opened"
  /\ Put(w, "whole")
  /\ Proceed(w, "written")
  /\ UNCHANGED <<entry, durable, pid, doc, fd, reading>>

\* Mutant: the data is left to the page cache.
SyncedNot(w) == file

Synced(w) == [file EXCEPT ![fd[w]].synced = TRUE]

Sync(w) ==
  /\ at[w] = "written"
  /\ file' = Synced(w)
  /\ Proceed(w, "synced")
  /\ UNCHANGED <<entry, durable, pid, doc, fd, reading>>

(* rename(2): the name now means the new inode; who has the old one open   *)
(* keeps it.                                                               *)
Rename(w) ==
  /\ at[w] = "synced" /\ entry[Tmp(pid[w])] # Nothing
  /\ entry' = [entry EXCEPT ![Path] = entry[Tmp(pid[w])], ![Tmp(pid[w])] = Nothing]
  /\ EndSave(w)
  /\ UNCHANGED <<file, durable, reading>>

(* A full disk, a failing disk, or a kill: `?` returns, nothing is removed. *)
Stops(w) == at[w] # "idle" /\ Fails(w)

-----------------------------------------------------------------------------
(* The rest of the system. *)

(* The directory reaches the disk at some time; nothing waits for it.      *)
Flush ==
  /\ durable' = entry[Path]
  /\ UNCHANGED <<file, entry, at, pid, doc, fd, reading>>

(* Files that were not synced may come back cut short; temporary names     *)
(* come back or not; the processes are gone.                               *)
PowerCut ==
  /\ \E cut \in SUBSET {i \in Inode : file[i].bytes = "whole" /\ ~file[i].synced} :
       file' = [i \in Inode |-> IF i \in cut THEN [file[i] EXCEPT !.bytes = "part"] ELSE file[i]]
  /\ \E kept \in SUBSET Pid, i \in {entry[Path], durable} :
       /\ entry' = [n \in Name |-> IF n = Path THEN i
                                   ELSE IF n \in kept THEN entry[n] ELSE Nothing]
       /\ durable' = i
  /\ at' = [w \in Writer |-> "idle"]
  /\ pid' = [w \in Writer |-> Nothing]
  /\ doc' = [w \in Writer |-> Absent]
  /\ fd' = [w \in Writer |-> Nothing]
  /\ reading' = Nothing

(* Another process opens the file, reads it when it gets to it, closes it. *)
Read ==
  /\ reading' = IF reading = Nothing THEN entry[Path] ELSE Nothing
  /\ UNCHANGED <<file, entry, durable, at, pid, doc, fd>>

Save(w) == Open(w) \/ WriteSome(w) \/ WriteRest(w) \/ Sync(w) \/ Rename(w) \/ Stops(w)
WriteNext == (\E w \in Writer : Save(w)) \/ Flush \/ PowerCut \/ Read
WriteSpec == WriteInit /\ [][WriteNext]_writeVars

-----------------------------------------------------------------------------
(* Properties. *)

Torn == "torn"
Content(i) ==
  IF i = Nothing THEN Absent ELSE IF file[i].bytes = "whole" THEN file[i].doc ELSE Torn

(* config/mod.rs 113-120: the system calls, whatever kills or interrupts   *)
(* them, amount to an atomic replacement, and once the directory is on     *)
(* disk a power cut cannot undo it or cut the document short.              *)
Atomic == INSTANCE AtomicFile WITH
  content <- Content(entry[Path]),
  safe <- IF durable # Nothing /\ ~file[durable].synced THEN Torn ELSE Content(durable)

ImplementsAtomicFile == Atomic!Spec

(* config/mod.rs 115-117: a reader that has the file open, the current one *)
(* or one replaced since, never sees it truncated: a truncated hosts.toml  *)
(* would look exactly like "you are logged out".                           *)
NoTornRead == reading # Nothing => file[reading].bytes = "whole"

(* config/mod.rs 117-120: no file ever has a byte of a token in it while   *)
(* other users may read it, abandoned temporary files included.            *)
NeverExposed == \A i \in Inode : file[i].bytes # "empty" => file[i].private
=============================================================================
