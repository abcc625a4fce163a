------------------------------ MODULE HostsFile ------------------------------
(***************************************************************************)
(* hosts.toml, from the commands that edit it down to the system calls     *)
(* that save it.  Hosts takes a save for one step and a command for gone   *)
(* once it is killed; WriteAtomic is that step, and ImplementsAtomicFile   *)
(* is what makes it one.  The two share no state: a save of Hosts is an    *)
(* Atomic!Replace of WriteAtomic, so they are checked side by side and the *)
(* level that does not move stays in one of its initial states.            *)
(***************************************************************************)
EXTENDS Hosts, WriteAtomic

VARIABLE level

hostsFileVars == <<level, vars, writeVars>>

HostsFileInit ==
  /\ Init /\ WriteInit
  /\ level \in {"commands", "calls"}
  /\ level = "commands" => file = [i \in Inode |-> Blank]

Editing == level = "commands" /\ Next /\ UNCHANGED <<level, writeVars>>
Saving == level = "calls" /\ WriteNext /\ UNCHANGED <<level, vars>>

HostsFileNext == Editing \/ Saving
HostsFileSpec == HostsFileInit /\ [][HostsFileNext]_hostsFileVars
=============================================================================
