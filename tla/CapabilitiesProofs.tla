-------------------------- MODULE CapabilitiesProofs --------------------------
(***************************************************************************)
(* Theorems about Capabilities, for any number of callers: at most one     *)
(* probe per time to live, and a slot that says what the instance serves.  *)
(***************************************************************************)
EXTENDS Client, TLAPS

-----------------------------------------------------------------------------
(* Types. *)

(* What an endpoint's request comes to is a reply, and the limit a value.  *)
LEMMA ComesTyped ==
  ASSUME CapsTypeOK, NEW t \in Caller, NEW e \in Endpoint, NEW r \in Reply,
         Comes(t, e, r)
  PROVE  CapsTypeOK'
  <1>1. items \in Nat
    BY CapabilitiesAssumption DEF CapsTypeOK
  <1>2. limit' \in [Caller -> Nat]
    BY <1>1 DEF Comes, CapsTypeOK
  <1>3. heard' \in [Caller -> [Endpoint -> Reply]]
    BY DEF Comes, CapsTypeOK
  <1> QED BY <1>2, <1>3 DEF Comes, CapsTypeOK

(* The limit adopted is never zero. *)
LEMMA AdoptedPositive ==
  ASSUME CapsTypeOK, NEW t \in Caller PROVE Adopted(t) \in Nat \ {0}
  BY CapabilitiesAssumption DEF Adopted, CapsTypeOK

LEMMA FinishTyped == ASSUME CapsTypeOK, NEW t \in Caller, Finish(t) PROVE CapsTypeOK'
  <1>1. slot' \in Entry
    BY AdoptedPositive DEF Finish, Entry, CapsTypeOK
  <1>2. missed' \subseteq Endpoint
    BY DEF Finish, Join
  <1> QED BY <1>1, <1>2 DEF Finish, Return, Goto, CapsTypeOK, NoProbe, Reply

(* Every step keeps the types. *)
LEMMA TypingStep == ASSUME CapsTypeOK, [CapsNext]_capsVars PROVE CapsTypeOK'
  <1>1. CASE UNCHANGED capsVars
    BY <1>1 DEF CapsTypeOK, capsVars
  <1>2. ASSUME NEW t \in Caller, Ask(t) PROVE CapsTypeOK'
    BY <1>2 DEF Ask, Goto, CapsTypeOK
  <1>3. ASSUME NEW t \in Caller, Acquire(t) PROVE CapsTypeOK'
    BY <1>3 DEF Acquire, Goto, CapsTypeOK
  <1>4. ASSUME NEW t \in Caller, Request(t) PROVE CapsTypeOK'
    <2>1. PICK e \in Endpoint : Replies(t, e) \/ Lose(t, e)
      BY <1>4 DEF Request
    <2>2. PICK r \in Reply : Comes(t, e, r)
      BY <2>1 DEF Replies, Lose, Reply
    <2> QED BY <2>2, ComesTyped
  <1>5. ASSUME NEW t \in Caller, Finish(t) PROVE CapsTypeOK'
    BY <1>5, FinishTyped
  <1>6. ASSUME NEW t \in Caller, Drop(t) PROVE CapsTypeOK'
    BY <1>6 DEF Drop, Return, Goto, CapsTypeOK, NoProbe, Reply
  <1>7. CASE AdminEdits
    BY <1>7 DEF AdminEdits, CapsTypeOK
  <1>8. CASE Tick
    <2>1. now' \in 0..MaxTime
      BY <1>8, CapabilitiesAssumption DEF Tick, CapsTypeOK
    <2> QED BY <1>8, <2>1 DEF Tick, CapsTypeOK
  <1> QED BY <1>1, <1>2, <1>3, <1>4, <1>5, <1>6, <1>7, <1>8 DEF CapsNext, Call

LEMMA TypingInit == CapsInit => CapsTypeOK
  BY CapabilitiesAssumption DEF CapsInit, CapsTypeOK, NoProbe, Reply

(* Every reachable state is well typed; the limit in the slot is not zero. *)
THEOREM Typing == CapsSpec => []CapsTypeOK
  BY TypingInit, TypingStep, PTL DEF CapsSpec

-----------------------------------------------------------------------------
(* One probe per time to live. *)

(* The prober holds the gate, and began because there was no fresh entry;  *)
(* there still is none, because only it can write one.                     *)
Expired == slot = Empty \/ now - slot.at >= TTL
Gated ==
  /\ \A t \in Caller : pc[t] = "probing" <=> gate = t
  /\ (\E t \in Caller : pc[t] = "probing") => Expired

IInv == CapsTypeOK /\ Gated

LEMMA GatedInit == CapsInit => IInv
  BY TypingInit, CapabilitiesAssumption DEF CapsInit, IInv, Gated

(* The times in the slot and on the clock are integers. *)
LEMMA Times == ASSUME CapsTypeOK PROVE now \in Int /\ TTL \in Int /\ (slot # Empty => slot.at \in Int)
  BY CapabilitiesAssumption DEF CapsTypeOK, Entry

LEMMA GatedStep == ASSUME IInv, [CapsNext]_capsVars PROVE IInv'
  <1>0. CapsTypeOK /\ CapsTypeOK' /\ Gated
    BY TypingStep DEF IInv
  <1>1. CASE UNCHANGED capsVars
    BY <1>0, <1>1 DEF IInv, Gated, Expired, capsVars
  <1>2. ASSUME NEW t \in Caller, Ask(t) PROVE Gated'
    BY <1>0, <1>2 DEF Ask, Goto, CapsTypeOK, Gated, Expired
  <1>3. ASSUME NEW t \in Caller, Acquire(t) PROVE Gated'
    <2>1. CASE Cached
      BY <1>0, <1>3, <2>1, CapabilitiesAssumption DEF Acquire, Goto, CapsTypeOK, Gated, Expired
    <2>2. CASE ~Cached
      <3>1. Expired /\ Expired'
        BY <1>0, <1>3, <2>2, Times DEF Acquire, Cached, Expired
      <3> QED BY <1>0, <1>3, <2>2, <3>1, CapabilitiesAssumption DEF Acquire, Goto, CapsTypeOK, Gated
    <2> QED BY <2>1, <2>2
  <1>4. ASSUME NEW t \in Caller, Request(t) PROVE Gated'
    BY <1>0, <1>4 DEF Request, Replies, Lose, Comes, Gated, Expired
  <1>5. ASSUME NEW t \in Caller, Finish(t) PROVE Gated'
    <2>1. gate = t /\ gate' = Nobody /\ pc' = [pc EXCEPT ![t] = "idle"]
      BY <1>0, <1>5 DEF Finish, Return, Goto, Gated
    <2>2. \A u \in Caller : pc'[u] # "probing" /\ gate' # u
      BY <1>0, <2>1, CapabilitiesAssumption DEF Gated, CapsTypeOK
    <2> QED BY <2>2 DEF Gated
  <1>6. ASSUME NEW t \in Caller, Drop(t) PROVE Gated'
    BY <1>0, <1>6, CapabilitiesAssumption DEF Drop, Return, Goto, CapsTypeOK, Gated, Expired
  <1>7. CASE AdminEdits
    BY <1>0, <1>7 DEF AdminEdits, IInv, Gated, Expired
  <1>8. CASE Tick
    <2>1. Expired => Expired'
      BY <1>0, <1>8, Times DEF Tick, Expired
    <2> QED BY <1>0, <1>8, <2>1 DEF Tick, IInv, Gated
  <1> QED BY <1>0, <1>1, <1>2, <1>3, <1>4, <1>5, <1>6, <1>7, <1>8 DEF CapsNext, Call, IInv

(* Only the end of a probe writes the slot, and a probe that has not ended *)
(* has an expired entry, or none, behind it.                               *)
LEMMA SlotReplacedOnlyExpired ==
  ASSUME IInv, [CapsNext]_capsVars, slot # Empty, slot' # slot PROVE now - slot.at >= TTL
  <1>1. PICK t \in Caller : Finish(t)
    BY DEF CapsNext, Call, Ask, Acquire, Request, Replies, Lose, Comes, Drop, AdminEdits, Tick, capsVars
  <1>2. Expired
    BY <1>1 DEF Finish, IInv, Gated
  <1> QED BY <1>2 DEF Expired

(* However many calls meet a cold cache, an entry is replaced only when it *)
(* is too old to be used.                                                  *)
THEOREM OneProbe == CapsSpec => OneProbePerTTL
  <1>1. IInv /\ [CapsNext]_capsVars => [slot # Empty /\ slot' # slot => now - slot.at >= TTL]_capsVars
    BY SlotReplacedOnlyExpired
  <1> QED BY <1>1, GatedInit, GatedStep, PTL DEF CapsSpec, OneProbePerTTL

(* A gate that is held is held by the one caller whose probe is under way,  *)
(* so neither a dropped call nor a refused probe keeps it from those that   *)
(* wait (Client::capabilities holds it in a guard that the future drops).   *)
GateHasItsProber ==
  /\ gate # Nobody => gate \in Caller /\ pc[gate] = "probing"
  /\ \A t \in Caller : pc[t] = "probing" => gate = t

THEOREM GateOpens == CapsSpec => []GateHasItsProber
  <1>1. IInv => GateHasItsProber
    BY DEF IInv, Gated, CapsTypeOK, GateHasItsProber
  <1> QED BY <1>1, GatedInit, GatedStep, PTL DEF CapsSpec

-----------------------------------------------------------------------------
(* What the slot says. *)

(* An answer comes from an endpoint that is served, a refusal from one     *)
(* that is not.                                                            *)
Truthful ==
  \A t \in Caller, e \in Endpoint :
    /\ heard[t][e] = "answered" => e \in serving
    /\ heard[t][e] = "refused" => e \notin serving

LearntInv == CapsTypeOK /\ Truthful /\ WhatIsServedIsLearnt

LEMMA LearntInit == CapsInit => LearntInv
  BY TypingInit DEF CapsInit, LearntInv, Truthful, WhatIsServedIsLearnt, NoProbe, Endpoint

LEMMA ComesTruthful ==
  ASSUME LearntInv, NEW t \in Caller, NEW e \in Endpoint, NEW r \in Reply, Comes(t, e, r),
         r = "answered" => e \in serving, r = "refused" => e \notin serving
  PROVE  Truthful'
  <1> SUFFICES ASSUME NEW u \in Caller, NEW d \in Endpoint
               PROVE  /\ heard'[u][d] = "answered" => d \in serving
                      /\ heard'[u][d] = "refused" => d \notin serving
    BY DEF Comes, Truthful
  <1>1. CASE u # t
    BY <1>1 DEF Comes, LearntInv, Truthful, CapsTypeOK
  <1>2. CASE u = t /\ d # e
    <2>1. heard'[u][d] = heard[u][d]
      BY <1>2 DEF Comes, LearntInv, CapsTypeOK, Endpoint
    <2> QED BY <2>1 DEF LearntInv, Truthful
  <1>3. CASE u = t /\ d = e
    <2>1. heard'[u][d] = r
      BY <1>3 DEF Comes, LearntInv, CapsTypeOK, Endpoint
    <2> QED BY <1>3, <2>1
  <1> QED BY <1>1, <1>2, <1>3

(* A caller that returns forgets what it heard. *)
LEMMA ReturnTruthful ==
  ASSUME LearntInv, NEW t \in Caller, Return(t), UNCHANGED serving PROVE Truthful'
  BY DEF Return, LearntInv, Truthful, CapsTypeOK, NoProbe, Endpoint

LEMMA FinishLearnt == ASSUME LearntInv, NEW t \in Caller, Finish(t) PROVE WhatIsServedIsLearnt'
  <1>1. \A e \in Endpoint : heard[t][e] \in Reply /\ heard[t][e] # "asked"
    BY DEF Finish, Join, LearntInv, CapsTypeOK, Endpoint
  <1>2. \A e \in Endpoint : heard[t][e] = "answered" <=> e \in serving \ missed'
    BY <1>1 DEF Finish, Join, LearntInv, Truthful, Reply
  <1>3. /\ slot'.known <=> "settings" \in serving \ missed'
        /\ slot'.named <=> "nodeinfo" \in serving \ missed'
    BY <1>2 DEF Finish, Endpoint
  <1> QED BY <1>3 DEF Finish, WhatIsServedIsLearnt

LEMMA LearntStep == ASSUME LearntInv, [CapsNext]_capsVars PROVE LearntInv'
  <1>0. CapsTypeOK' /\ CapsTypeOK /\ Truthful /\ WhatIsServedIsLearnt
    BY TypingStep DEF LearntInv
  <1>1. CASE UNCHANGED capsVars
    BY <1>0, <1>1 DEF LearntInv, Truthful, WhatIsServedIsLearnt, capsVars
  <1>2. ASSUME NEW t \in Caller, Ask(t) \/ Acquire(t) PROVE Truthful' /\ WhatIsServedIsLearnt'
    BY <1>0, <1>2 DEF Ask, Acquire, Truthful, WhatIsServedIsLearnt
  <1>3. ASSUME NEW t \in Caller, Request(t) PROVE Truthful' /\ WhatIsServedIsLearnt'
    <2>1. PICK e \in Endpoint : Replies(t, e) \/ Lose(t, e)
      BY <1>3 DEF Request
    <2>2. PICK r \in Reply : /\ Comes(t, e, r)
                             /\ r = "answered" => e \in serving
                             /\ r = "refused" => e \notin serving
      BY <2>1 DEF Replies, Lose, Reply
    <2>3. WhatIsServedIsLearnt'
      BY <1>0, <2>2 DEF Comes, WhatIsServedIsLearnt
    <2> QED BY <2>2, <2>3, ComesTruthful
  <1>4. ASSUME NEW t \in Caller, Finish(t) PROVE Truthful' /\ WhatIsServedIsLearnt'
    BY <1>4, FinishLearnt, ReturnTruthful DEF Finish
  <1>5. ASSUME NEW t \in Caller, Drop(t) PROVE Truthful' /\ WhatIsServedIsLearnt'
    <2>1. WhatIsServedIsLearnt'
      BY <1>0, <1>5 DEF Drop, WhatIsServedIsLearnt
    <2> QED BY <1>5, <2>1, ReturnTruthful DEF Drop
  <1>6. CASE AdminEdits \/ Tick
    BY <1>0, <1>6 DEF AdminEdits, Tick, LearntInv, Truthful, WhatIsServedIsLearnt
  <1> QED BY <1>0, <1>1, <1>2, <1>3, <1>4, <1>5, <1>6 DEF CapsNext, Call, LearntInv

(* One endpoint's failure never costs the other's answer: the slot claims  *)
(* what the instance serves, less the answers that were lost.              *)
THEOREM Learnt == CapsSpec => []WhatIsServedIsLearnt
  BY LearntInit, LearntStep, PTL DEF CapsSpec, LearntInv

-----------------------------------------------------------------------------
(* Client puts the parts side by side, of which one moves: what was shown  *)
(* of Dispatch, Capabilities and Paginate each holds where all are there.  *)
LEMMA PartSteps == [ClientNext]_clientVars => [Next]_vars /\ [CapsNext]_capsVars /\ [PageNext]_pageVars
  BY DEF ClientNext, clientVars, Dispatching, Probing, Walking

THEOREM SideBySide == ClientSpec => Spec /\ CapsSpec /\ PageSpec
  <1>1. ClientInit => Init /\ CapsInit /\ PageInit
    BY DEF ClientInit
  <1> QED BY <1>1, PartSteps, PTL DEF ClientSpec, Spec, CapsSpec, PageSpec

(* What the run of Client checks of the probes, for every instance. *)
COROLLARY ProbesSafe == ClientSpec => []WhatIsServedIsLearnt /\ OneProbePerTTL
  BY SideBySide, Learnt, OneProbe, PTL
=============================================================================
