------------------------------- MODULE MCHosts -------------------------------
(* Hosts for TLC: the slots in which commands run are interchangeable.  One *)
(* instance has two accounts and the other one.                             *)
EXTENDS Hosts, TLC

Slots == Permutations(Proc)
ThreeAccounts == {<<1, 1>>, <<1, 2>>, <<2, 1>>}
TwoAccounts == {<<1, 1>>, <<1, 2>>}
=============================================================================
