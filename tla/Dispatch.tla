------------------------------ MODULE Dispatch ------------------------------
(***************************************************************************)
(* One request through Client::dispatch: sent, answered or not, judged by  *)
(* RetryPolicy, waited for and sent again.  What the caller sees is kept   *)
(* apart from what becomes of each attempt at the server: an attempt whose *)
(* answer was an error, or never came, may still be carried out, even      *)
(* while a later attempt is under way or the call has returned.            *)
(***************************************************************************)
EXTENDS Integers

CONSTANTS
  MaxAttempts,    \* RetryPolicy::max: total attempts, --max-retries plus one
  Base,           \* first backoff
  MaxBackoff,     \* cap on a computed backoff
  MaxRetryAfter,  \* cap on an honoured Retry-After
  Jitters,        \* jitter drawn, in percent of the wait: within -30..30
  RetryAfters,    \* values of Retry-After met
  Methods,        \* a subset of AllMethods
  Bodies          \* can the body be sent again: a subset of BOOLEAN

AllMethods == {"GET", "HEAD", "PUT", "DELETE", "OPTIONS", "POST", "PATCH"}

ASSUME DispatchAssumption ==
  /\ MaxAttempts \in Nat \ {0}
  /\ Base \in Nat /\ MaxBackoff \in Nat /\ MaxRetryAfter \in Nat
  /\ Jitters \subseteq -100..100
  /\ RetryAfters \subseteq Nat
  /\ Methods \subseteq AllMethods
  /\ Bodies \subseteq BOOLEAN

Attempts == 1..MaxAttempts

VARIABLES
  method,      \* of the request
  replayable,  \* OutBody::is_replayable: nothing is read from stdin
  attempt,     \* the attempt under way, from 1
  phase,       \* "ready", "sent", "waiting" or "done"
  outcome,     \* how the latest attempt ended for the client
  fate,        \* what became of each attempt at the server
  waits        \* how long it slept after each attempt
vars == <<method, replayable, attempt, phase, outcome, fate, waits>>
request == <<method, replayable>>

\* An attempt on the wire may still be carried out.
Fates == {"unsent", "wire", "applied", "refused", "lost"}

(* "unreachable": DNS, connect, TLS, a timeout before the response head.   *)
(* "broken": any other failure to send, such as an unreadable upload.      *)
Outcomes == {"none", "ok", "refused", "rateLimited", "serverError", "unreachable", "broken"}

TypeOK ==
  /\ method \in AllMethods
  /\ replayable \in BOOLEAN
  /\ attempt \in Attempts
  /\ phase \in {"ready", "sent", "waiting", "done"}
  /\ outcome \in Outcomes
  /\ fate \in [Attempts -> Fates]

Init ==
  /\ method \in Methods
  /\ replayable \in Bodies
  /\ attempt = 1
  /\ phase = "ready"
  /\ outcome = "none"
  /\ fate = [a \in Attempts |-> "unsent"]
  /\ waits = [a \in Attempts |-> 0]

-----------------------------------------------------------------------------
(* RetryPolicy. *)

Least(a, b) == IF a <= b THEN a ELSE b

Idempotent == method \in {"GET", "HEAD", "PUT", "DELETE", "OPTIONS"}

(* RetryPolicy::backoff *)
Backoff(a, jitter) ==
  LET doubled == Least(Base * 2^Least(a - 1, 16), MaxBackoff)
  IN  Least((doubled * (100 + jitter)) \div 100, MaxBackoff)

\* Mutant: no check of whether the body can be sent again.
MayRepeatAnyBody == attempt < MaxAttempts

\* Mutant: the last attempt that was allowed is never made.
MayRepeatOneLess == attempt + 1 < MaxAttempts /\ replayable

(* The first test of both decisions. *)
MayRepeat == attempt < MaxAttempts /\ replayable

\* Mutant: a server error is retried whatever the method.
RetriedAnyMethod(o) ==
  MayRepeat /\ (o \in {"rateLimited", "serverError"} \/ (o = "unreachable" /\ Idempotent))

\* Mutant: a connection that failed is taken for a request never sent.
RetriedUnsent(o) ==
  MayRepeat /\ (o \in {"rateLimited", "unreachable"} \/ (o = "serverError" /\ Idempotent))

(* on_status and on_transport: a 429 is retried for every method, a server *)
(* error or an unreachable server for idempotent ones, the rest never.     *)
Retried(o) ==
  MayRepeat /\ (o = "rateLimited" \/ (Idempotent /\ o \in {"serverError", "unreachable"}))

(* How long to sleep: the server's own number, capped, if it answered with *)
(* one, and otherwise the backoff.                                         *)
Waits(o) ==
  {Backoff(attempt, j) : j \in Jitters} \union
  (IF o = "unreachable" THEN {} ELSE {Least(s, MaxRetryAfter) : s \in RetryAfters})

-----------------------------------------------------------------------------
(* The client. *)

Send ==
  /\ phase = "ready"
  /\ phase' = "sent"
  /\ fate' = [fate EXCEPT ![attempt] = "wire"]
  /\ UNCHANGED <<request, attempt, outcome, waits>>

(* The judgement on an attempt that ended with outcome o. *)
Judge(o) ==
  /\ phase = "sent"
  /\ outcome' = o
  /\ IF Retried(o)
     THEN /\ phase' = "waiting"
          /\ \E w \in Waits(o) : waits' = [waits EXCEPT ![attempt] = w]
     ELSE phase' = "done" /\ UNCHANGED waits
  /\ UNCHANGED <<request, attempt, fate>>

(* A success, or a refusal of any kind, tells what the server did.         *)
Succeeded   == fate[attempt] = "applied" /\ Judge("ok")
Refused     == fate[attempt] = "refused" /\ Judge("refused")
RateLimited == fate[attempt] = "refused" /\ Judge("rateLimited")

(* These tell nothing: the attempt may be waiting, done or gone. *)
ServerError == fate[attempt] # "refused" /\ Judge("serverError")
Unreachable == fate[attempt] # "refused" /\ Judge("unreachable")
Broken      == fate[attempt] # "refused" /\ Judge("broken")

Wait ==
  /\ phase = "waiting"
  /\ phase' = "ready"
  /\ attempt' = attempt + 1
  /\ UNCHANGED <<request, outcome, fate, waits>>

-----------------------------------------------------------------------------
(* The network and the server (external): an attempt is carried out,       *)
(* refused before any handler ran, or lost.                                *)
Settle(a) ==
  /\ fate[a] = "wire"
  /\ \E f \in {"applied", "refused", "lost"} : fate' = [fate EXCEPT ![a] = f]
  /\ UNCHANGED <<request, attempt, phase, outcome, waits>>

Answered == Succeeded \/ Refused \/ RateLimited \/ ServerError
Failed == Unreachable \/ Broken

Next == Send \/ Answered \/ Failed \/ Wait \/ \E a \in Attempts : Settle(a)

Spec == Init /\ [][Next]_vars

-----------------------------------------------------------------------------
(* Properties. *)

Open(a) == fate[a] \in {"wire", "applied"}

(* retry.rs 3-19: however a POST or PATCH fails and is answered, at most   *)
(* one attempt at it has been or can still be carried out.                 *)
AtMostOnce == ~Idempotent => \A a, b \in Attempts : Open(a) /\ Open(b) => a = b

(* retry.rs 14-16: a POST or PATCH that ends rate limited was not and will *)
(* not be carried out, by any of the attempts.                             *)
RateLimitedUntouched ==
  ~Idempotent /\ phase = "done" /\ outcome = "rateLimited" => \A a \in Attempts : ~Open(a)

(* transport.rs 106-111: a body that is gone once it was read is sent once. *)
SpentBodySentOnce == ~replayable => \A a \in Attempts : a > 1 => fate[a] = "unsent"

(* retry.rs 38-41: an idempotent request is given up on for a failure that *)
(* may pass only when every attempt was used.                              *)
EveryAttemptUsed ==
  Idempotent /\ replayable /\ phase = "done"
    /\ outcome \in {"rateLimited", "serverError", "unreachable"}
    => attempt = MaxAttempts

(* retry.rs 48-53: no wait is longer than its cap, jitter included.        *)
WaitsCapped ==
  \A a \in Attempts : waits[a] <= MaxBackoff \/ waits[a] <= MaxRetryAfter
=============================================================================
