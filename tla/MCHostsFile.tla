----------------------------- MODULE MCHostsFile -----------------------------
(* HostsFile for TLC: the slots of Hosts are interchangeable, and so are    *)
(* the inodes of WriteAtomic.                                               *)
EXTENDS MCHosts, HostsFile

Alike == Slots \union Permutations(Inode)
=============================================================================
