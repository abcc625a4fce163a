----------------------------- MODULE Capabilities -----------------------------
(***************************************************************************)
(* What one client learns about its instance and keeps for a day:          *)
(* Client::capabilities, the cache slot behind it, and the gate that makes *)
(* concurrent first calls share one probe.  Callers are the tasks of one   *)
(* process (`fjo status` walks four collections at once); any of them may  *)
(* be dropped at an await.                                                 *)
(***************************************************************************)
EXTENDS Integers

CONSTANTS
  Caller,     \* the tasks that may ask
  Nobody,     \* not a caller
  Items,      \* values an administrator may give max_response_items; 0 is none
  Default,    \* DEFAULT_MAX_RESPONSE_ITEMS
  TTL,        \* how long a probe is trusted
  MaxTime     \* bound: when the clock stops

ASSUME CapabilitiesAssumption ==
  /\ Nobody \notin Caller
  /\ Items \subseteq Nat
  /\ Default \in Nat \ {0}
  /\ TTL \in Nat \ {0}
  /\ MaxTime \in Nat

VARIABLES
  now,        \* the monotonic clock
  serving,    \* which of the two endpoints this instance answers
  items,      \* its max_response_items
  slot,       \* Inner::caps
  gate,       \* who holds Inner::caps_gate
  pc,         \* where each caller is
  heard,      \* what became of the two requests of a caller's probe
  limit,      \* the max_response_items that came with the first of them, or 0
  missed      \* history: endpoints whose answer the probe behind slot lost

capsVars == <<now, serving, items, slot, gate, pc, heard, limit, missed>>

Endpoint == {"settings", "nodeinfo"}
Reply == {"asked", "answered", "refused", "lost"}
Empty == [at |-> -1, items |-> 0, known |-> FALSE, named |-> FALSE]

(* A cache entry: when it was filled, the page limit adopted, whether      *)
(* /settings/api answered, whether /nodeinfo named the instance.           *)
Entry == [at : 0..MaxTime, items : Nat \ {0}, known : BOOLEAN, named : BOOLEAN]

NoProbe == [e \in Endpoint |-> "asked"]

CapsTypeOK ==
  /\ now \in 0..MaxTime
  /\ serving \subseteq Endpoint
  /\ items \in Items
  /\ slot \in Entry \union {Empty}
  /\ gate \in Caller \union {Nobody}
  /\ pc \in [Caller -> {"idle", "waiting", "probing"}]
  /\ heard \in [Caller -> [Endpoint -> Reply]]
  /\ limit \in [Caller -> Nat]
  /\ missed \subseteq Endpoint

CapsInit ==
  /\ now = 0
  /\ serving \in SUBSET Endpoint
  /\ items \in Items
  /\ slot = Empty
  /\ gate = Nobody
  /\ pc = [t \in Caller |-> "idle"]
  /\ heard = [t \in Caller |-> NoProbe]
  /\ limit = [t \in Caller |-> 0]
  /\ missed = {}

-----------------------------------------------------------------------------
(* Client::cached_caps: the slot, unless it is empty or too old. *)
Cached == slot # Empty /\ now - slot.at < TTL

Goto(t, label) == pc' = [pc EXCEPT ![t] = label]
Return(t) ==
  /\ Goto(t, "idle")
  /\ heard' = [heard EXCEPT ![t] = NoProbe]
  /\ limit' = [limit EXCEPT ![t] = 0]

(* A call that finds no fresh entry queues for the gate; one that does     *)
(* returns it, which is no step.                                           *)
Ask(t) ==
  /\ pc[t] = "idle" /\ ~Cached
  /\ Goto(t, "waiting")
  /\ UNCHANGED <<now, serving, items, slot, gate, heard, limit, missed>>

\* Mutant: the gate only serialises the duplicate probes.
AcquireBlind(t) ==
  /\ pc[t] = "waiting" /\ gate = Nobody
  /\ Goto(t, "probing")
  /\ gate' = t
  /\ UNCHANGED <<now, serving, items, slot, heard, limit, missed>>

(* The gate is had and the slot looked at again: the one who held the gate *)
(* before may have filled it.  Otherwise both requests go out together.    *)
Acquire(t) ==
  /\ pc[t] = "waiting" /\ gate = Nobody
  /\ \/ /\ Cached
        /\ Goto(t, "idle")
        /\ UNCHANGED gate
     \/ /\ ~Cached
        /\ Goto(t, "probing")
        /\ gate' = t
  /\ UNCHANGED <<now, serving, items, slot, heard, limit, missed>>

(* What one of the two requests comes to.                                  *)
Comes(t, e, r) ==
  /\ pc[t] = "probing" /\ heard[t][e] = "asked"
  /\ heard' = [heard EXCEPT ![t][e] = r]
  /\ limit' = IF e = "settings" /\ r = "answered" THEN [limit EXCEPT ![t] = items] ELSE limit
  /\ UNCHANGED <<now, serving, items, slot, gate, pc, missed>>

\* Mutant: the slot is guarded by the gate, which error_from then waits for.
RepliesOneLock(t, e) ==
  \/ e \in serving /\ Comes(t, e, "answered")
  \/ e \notin serving /\ gate = Nobody /\ Comes(t, e, "refused")

(* The instance answers, or refuses with a 403 or 404 what it does not     *)
(* serve.  error_from then makes a message with the cached instance label: *)
(* it reads the slot, and takes no gate for it.                            *)
Replies(t, e) == Comes(t, e, IF e \in serving THEN "answered" ELSE "refused")

(* No answer: the connection failed, or the body was cut or not JSON. *)
Lose(t, e) == Comes(t, e, "lost")

\* Mutant: try_join, which cancels the other request when one fails.
JoinTry(t) ==
  LET bad == \E e \in Endpoint : heard[t][e] \in {"refused", "lost"}
  IN  /\ bad \/ \A e \in Endpoint : heard[t][e] # "asked"
      /\ missed' = {e \in Endpoint : heard[t][e] = "lost"}

(* join: the probe is over when both requests are. *)
Join(t) ==
  /\ \A e \in Endpoint : heard[t][e] # "asked"
  /\ missed' = {e \in Endpoint : heard[t][e] = "lost"}

\* Mutant: a limit of zero is taken at its word.
AdoptedZero(t) == IF heard[t]["settings"] = "answered" THEN limit[t] ELSE Default

(* The limit the probe ends up with: the default until the instance says   *)
(* something else, and a zero says nothing.                                *)
Adopted(t) == IF limit[t] > 0 THEN limit[t] ELSE Default

(* The probe's result goes into the slot, whatever became of the requests, *)
(* and the gate opens.                                                     *)
Finish(t) ==
  /\ pc[t] = "probing" /\ Join(t)
  /\ slot' = [at |-> now, items |-> Adopted(t),
              known |-> heard[t]["settings"] = "answered",
              named |-> heard[t]["nodeinfo"] = "answered"]
  /\ gate' = Nobody
  /\ Return(t)
  /\ UNCHANGED <<now, serving, items>>

(* The call is dropped where it waits; a gate it held opens, its requests  *)
(* are forgotten.                                                          *)
Drop(t) ==
  /\ pc[t] # "idle"
  /\ gate' = IF gate = t THEN Nobody ELSE gate
  /\ Return(t)
  /\ UNCHANGED <<now, serving, items, slot, missed>>

(* An administrator edits app.ini; time passes. *)
AdminEdits == items' \in Items /\ UNCHANGED <<now, serving, slot, gate, pc, heard, limit, missed>>
Tick ==
  /\ now < MaxTime /\ now' = now + 1
  /\ UNCHANGED <<serving, items, slot, gate, pc, heard, limit, missed>>

Request(t) == \E e \in Endpoint : Replies(t, e) \/ Lose(t, e)
Call(t) == Ask(t) \/ Acquire(t) \/ Request(t) \/ Finish(t) \/ Drop(t)
CapsNext == (\E t \in Caller : Call(t)) \/ AdminEdits \/ Tick
CapsSpec == CapsInit /\ [][CapsNext]_capsVars

(* tokio's mutex serves its queue in order, so a caller that keeps waiting *)
(* gets the gate; what the instance says of a request arrives.             *)
FairCapsSpec ==
  /\ CapsSpec
  /\ \A t \in Caller : SF_capsVars(Acquire(t)) /\ WF_capsVars(Finish(t))
  /\ \A t \in Caller, e \in Endpoint : WF_capsVars(Replies(t, e))

-----------------------------------------------------------------------------
(* Properties. *)

(* http/mod.rs 747-755: one probe a day.  However many calls meet a cold   *)
(* cache together, and whichever of them are dropped, an entry is replaced *)
(* only when it is too old to be used.                                     *)
OneProbePerTTL == [][slot # Empty /\ slot' # slot => now - slot.at >= TTL]_capsVars

(* capabilities.rs 165-175: one endpoint missing does not take the other's *)
(* answer with it.  What the slot claims is what the instance serves, less *)
(* the answers that were lost on the way.                                  *)
WhatIsServedIsLearnt ==
  slot # Empty =>
    /\ slot.known <=> "settings" \in serving \ missed
    /\ slot.named <=> "nodeinfo" \in serving \ missed

(* http/mod.rs 757-764: every call returns, on an instance that refuses    *)
(* both endpoints too; the error path of the probe must not wait for it.   *)
EveryCallReturns == \A t \in Caller : pc[t] # "idle" ~> pc[t] = "idle"
=============================================================================
