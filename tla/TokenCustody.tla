----------------------------- MODULE TokenCustody -----------------------------
(***************************************************************************)
(* What fjo promises about a rotating OAuth session, apart from how it is  *)
(* kept: a document comes into being at the server, it becomes durable, and *)
(* only then does an invocation send requests with it.  A credential out   *)
(* of the environment, or none, may be used at any time.                   *)
(***************************************************************************)
EXTENDS Integers

CONSTANTS Proc, MaxGen, Outside   \* Outside: what is used without being kept

VARIABLES minted, recorded, using
vars == <<minted, recorded, using>>

Idle == -2     \* an invocation that sends no requests

Init ==
  /\ minted = 0
  /\ recorded = {}
  /\ using = [p \in Proc |-> Idle]

Mint ==
  /\ minted < MaxGen
  /\ minted' = minted + 1
  /\ UNCHANGED <<recorded, using>>

Record ==
  /\ \E g \in 1..minted : recorded' = recorded \union {g}
  /\ UNCHANGED <<minted, using>>

Use(p) ==
  /\ using[p] = Idle
  /\ \E t \in recorded \union Outside : using' = [using EXCEPT ![p] = t]
  /\ UNCHANGED <<minted, recorded>>

Stop(p) ==
  /\ using' = [using EXCEPT ![p] = Idle]
  /\ UNCHANGED <<minted, recorded>>

Next == Mint \/ Record \/ \E p \in Proc : Use(p) \/ Stop(p)

Spec == Init /\ [][Next]_vars
=============================================================================
