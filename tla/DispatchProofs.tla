--------------------------- MODULE DispatchProofs ---------------------------
(***************************************************************************)
(* Proofs about Dispatch, for every number of attempts, every set of waits *)
(* and every behaviour of the server.  The invariant that carries them     *)
(* says what is known of the attempts before the current one: for a method *)
(* that is not idempotent all of them were refused, because nothing else   *)
(* is ever followed by another attempt.                                    *)
(***************************************************************************)
EXTENDS Dispatch, TLAPS

Later == \A a \in Attempts : a > attempt => fate[a] = "unsent"
Ready == phase = "ready" => fate[attempt] = "unsent"

(* Only refusals are followed by another attempt. *)
Earlier == ~Idempotent => \A a \in Attempts : a < attempt => fate[a] = "refused"

Waiting ==
  phase = "waiting" =>
    /\ attempt < MaxAttempts
    /\ replayable
    /\ ~Idempotent => fate[attempt] = "refused"

Spent == ~replayable => attempt = 1
Limited == phase = "done" /\ outcome = "rateLimited" => fate[attempt] = "refused"

IInv == TypeOK /\ Later /\ Ready /\ Earlier /\ Waiting /\ Spent /\ Limited /\ EveryAttemptUsed

LEMMA InitInvariant == Init => IInv
BY DispatchAssumption
   DEF Init, IInv, TypeOK, Later, Ready, Earlier, Waiting, Spent, Limited, EveryAttemptUsed,
       Attempts, Fates, Outcomes

(* A judgement touches no fate and no attempt number. *)
LEMMA JudgeInvariant ==
  ASSUME IInv, NEW o \in Outcomes, Judge(o),
         o = "rateLimited" => fate[attempt] = "refused"
  PROVE  IInv'
<1> USE DEF IInv
<1>1. CASE Retried(o)
  <2>1. phase' = "waiting" /\ outcome' = o /\ UNCHANGED <<method, replayable, attempt, fate>>
    BY <1>1 DEF Judge, request
  <2>2. attempt < MaxAttempts /\ replayable
    BY <1>1 DEF Retried, MayRepeat
  <2>3. ~Idempotent => o = "rateLimited"
    BY <1>1 DEF Retried
  <2> QED
    BY <2>1, <2>2, <2>3
       DEF TypeOK, Later, Ready, Earlier, Waiting, Spent, Limited, EveryAttemptUsed, Idempotent
<1>2. CASE ~Retried(o)
  <2>1. phase' = "done" /\ outcome' = o /\ UNCHANGED <<method, replayable, attempt, fate>>
    BY <1>2 DEF Judge, request
  <2>2. EveryAttemptUsed'
    BY <1>2, <2>1, DispatchAssumption
       DEF EveryAttemptUsed, Retried, MayRepeat, Idempotent, TypeOK, Attempts
  <2> QED
    BY <2>1, <2>2 DEF TypeOK, Later, Ready, Earlier, Waiting, Spent, Limited, Idempotent
<1> QED BY <1>1, <1>2

LEMMA NextInvariant == IInv /\ [Next]_vars => IInv'
<1> SUFFICES ASSUME IInv, [Next]_vars PROVE IInv'
  OBVIOUS
<1>1. CASE Send
  <2> USE <1>1 DEF Send, IInv, request
  <2>1. TypeOK'
    BY DEF TypeOK, Fates
  <2>2. Later' /\ Ready' /\ Earlier'
    BY DEF TypeOK, Later, Ready, Earlier, Idempotent, Attempts
  <2>3. Waiting' /\ Spent' /\ Limited' /\ EveryAttemptUsed'
    BY DEF Waiting, Spent, Limited, EveryAttemptUsed, Idempotent
  <2> QED BY <2>1, <2>2, <2>3
<1>2. CASE Answered \/ Failed
  <2>1. CASE RateLimited
    BY <2>1, JudgeInvariant DEF RateLimited, Outcomes
  <2>2. CASE Succeeded \/ Refused \/ ServerError \/ Unreachable \/ Broken
    BY <2>2, JudgeInvariant DEF Succeeded, Refused, ServerError, Unreachable, Broken, Outcomes
  <2> QED BY <1>2, <2>1, <2>2 DEF Answered, Failed
<1>3. CASE Wait
  <2> USE <1>3, DispatchAssumption DEF Wait, IInv, request
  <2>1. TypeOK'
    BY DEF TypeOK, Waiting, Attempts
  <2>2. Later' /\ Ready'
    BY DEF TypeOK, Later, Ready, Waiting, Attempts
  <2>3. Earlier'
    BY DEF TypeOK, Earlier, Waiting, Idempotent, Attempts
  <2>4. Waiting' /\ Spent' /\ Limited' /\ EveryAttemptUsed'
    BY DEF Waiting, Spent, Limited, EveryAttemptUsed, Idempotent
  <2> QED BY <2>1, <2>2, <2>3, <2>4
<1>4. CASE \E a \in Attempts : Settle(a)
  <2>1. PICK a \in Attempts : Settle(a)
    BY <1>4
  <2>2. /\ fate[a] = "wire"
        /\ UNCHANGED <<method, replayable, attempt, phase, outcome>>
        /\ \A b \in Attempts : b # a => fate'[b] = fate[b]
        /\ fate' \in [Attempts -> Fates]
    BY <2>1 DEF Settle, request, IInv, TypeOK, Fates
  <2> QED
    BY <2>2 DEF IInv, TypeOK, Later, Ready, Earlier, Waiting, Spent, Limited,
                EveryAttemptUsed, Idempotent
<1>5. CASE UNCHANGED vars
  BY <1>5 DEF vars, IInv, TypeOK, Later, Ready, Earlier, Waiting, Spent, Limited,
              EveryAttemptUsed, Idempotent
<1> QED BY <1>1, <1>2, <1>3, <1>4, <1>5 DEF Next

LEMMA Invariance == Spec => []IInv
BY InitInvariant, NextInvariant, PTL DEF Spec

(* A request keeps its types and is never sent more often than allowed.    *)
THEOREM Typing == Spec => []TypeOK
BY Invariance, PTL DEF IInv

(* However a POST or PATCH fails and is answered, at most one attempt at   *)
(* it has been or can still be carried out (retry.rs 3-19).                *)
THEOREM Once == Spec => []AtMostOnce
<1>1. IInv => AtMostOnce
  <2> SUFFICES ASSUME IInv, ~Idempotent, NEW a \in Attempts, Open(a)
               PROVE  a = attempt
    BY DEF AtMostOnce
  <2>1. ~(a > attempt)
    BY DEF IInv, Later, Open
  <2>2. ~(a < attempt)
    BY DEF IInv, Earlier, Open
  <2> QED BY <2>1, <2>2, DispatchAssumption DEF IInv, TypeOK, Attempts
<1> QED BY <1>1, Invariance, PTL

(* A POST or PATCH that ends rate limited was not carried out by any of    *)
(* its attempts, and will not be (retry.rs 14-16).                         *)
THEOREM Untouched == Spec => []RateLimitedUntouched
<1>1. IInv => RateLimitedUntouched
  <2> SUFFICES ASSUME IInv, ~Idempotent, phase = "done", outcome = "rateLimited",
                      NEW a \in Attempts
               PROVE  ~Open(a)
    BY DEF RateLimitedUntouched
  <2>1. CASE a > attempt
    BY <2>1 DEF IInv, Later, Open
  <2>2. CASE a < attempt
    BY <2>2 DEF IInv, Earlier, Open
  <2>3. CASE a = attempt
    BY <2>3 DEF IInv, Limited, Open
  <2> QED BY <2>1, <2>2, <2>3, DispatchAssumption DEF IInv, TypeOK, Attempts
<1> QED BY <1>1, Invariance, PTL

(* A body that cannot be read again is sent once (transport.rs 106-111).   *)
THEOREM SentOnce == Spec => []SpentBodySentOnce
<1>1. IInv => SpentBodySentOnce
  BY DEF IInv, Spent, Later, SpentBodySentOnce
<1> QED BY <1>1, Invariance, PTL

(* An idempotent request is given up on, for a failure that may pass, only *)
(* when every attempt was used (retry.rs 38-41).                           *)
THEOREM AllAttempts == Spec => []EveryAttemptUsed
<1>1. IInv => EveryAttemptUsed
  BY DEF IInv
<1> QED BY <1>1, Invariance, PTL

(* No wait is longer than its cap, whatever the doubling and the jitter    *)
(* come to and however long the server asks to wait (retry.rs 48-53).      *)
LEMMA WaitCapped ==
  ASSUME NEW o, NEW w \in Waits(o) PROVE w <= MaxBackoff \/ w <= MaxRetryAfter
<1>1. CASE \E j \in Jitters : w = Backoff(attempt, j)
  <2>1. PICK j \in Jitters : w = Backoff(attempt, j)
    BY <1>1
  <2>2. PICK x : w = Least(x, MaxBackoff)
    BY <2>1 DEF Backoff
  <2> QED BY <2>2, DispatchAssumption DEF Least
<1>2. CASE \E s \in RetryAfters : w = Least(s, MaxRetryAfter)
  BY <1>2, DispatchAssumption DEF Least
<1> QED BY <1>1, <1>2 DEF Waits

THEOREM Capped == Spec => []WaitsCapped
<1> DEFINE Sound == DOMAIN waits = Attempts /\ WaitsCapped
<1>1. Init => Sound
  BY DispatchAssumption DEF Init, WaitsCapped
<1>2. Sound /\ [Next]_vars => Sound'
  <2> SUFFICES ASSUME Sound, [Next]_vars PROVE Sound'
    OBVIOUS
  <2>1. CASE UNCHANGED waits
    BY <2>1 DEF WaitsCapped
  <2>2. ASSUME NEW o, Judge(o) PROVE Sound'
    <3>1. CASE UNCHANGED waits
      BY <3>1 DEF WaitsCapped
    <3>2. CASE \E w \in Waits(o) : waits' = [waits EXCEPT ![attempt] = w]
      BY <3>2, WaitCapped DEF WaitsCapped
    <3> QED BY <2>2, <3>1, <3>2 DEF Judge
  <2> QED
    BY <2>1, <2>2 DEF Next, vars, Send, Wait, Settle, Answered, Failed, Succeeded, Refused,
                      RateLimited, ServerError, Unreachable, Broken
<1> QED BY <1>1, <1>2, PTL DEF Spec
=============================================================================
