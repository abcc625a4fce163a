------------------------------ MODULE MCSession ------------------------------
(* Model values and symmetry for checking Session.  Invocations differ only *)
(* in what they do, so permuting the slots is sound for the safety runs.    *)
EXTENDS Session, TLC

Slots == Permutations(Proc)
=============================================================================
