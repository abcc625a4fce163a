------------------------------- MODULE FanOut -------------------------------
(***************************************************************************)
(* One request for each item of a listing, a few at a time and answered in *)
(* any order, their results taken in the listing's order: what             *)
(* `notification list --mark-read`, `run logs`, `workflow list`,           *)
(* `block list` and `auth status` do with `buffered`.  Here each request   *)
(* marks its item on the server, which is notification's case.             *)
(***************************************************************************)
EXTENDS Integers, FiniteSets

CONSTANTS Length, Width

ASSUME FanOutAssumption == Length \in Nat /\ Width \in Nat \ {0}

VARIABLES
  started,   \* how many requests were made
  taken,     \* how many results were taken
  answer,    \* what became of every request
  marked,    \* the items the server has marked
  outcome    \* of the command, and the item whose failure it reports

fanVars == <<started, taken, answer, marked, outcome>>

Item == 1..Length
Outstanding == [end |-> "none", item |-> 0]

FanOutTypeOK ==
  /\ started \in 0..Length
  /\ taken \in 0..Length
  /\ answer \in [Item -> {"none", "ok", "failed"}]
  /\ marked \subseteq Item
  /\ outcome \in [end : {"none", "ok", "failed"}, item : 0..Length]

FanOutInit ==
  /\ started = 0 /\ taken = 0
  /\ answer = [i \in Item |-> "none"]
  /\ marked = {}
  /\ outcome = Outstanding

-----------------------------------------------------------------------------
\* Mutant: only requests without an answer count.
RoomUnanswered == Cardinality({i \in 1..started : answer[i] = "none"}) < Width

(* A result that waits for its turn takes up room too. *)
Room == started - taken < Width

Request ==
  /\ outcome = Outstanding /\ started < Length /\ Room
  /\ started' = started + 1
  /\ UNCHANGED <<taken, answer, marked, outcome>>

(* The server gets to a request, be the command still there or not. *)
Mark(i) ==
  /\ i <= started
  /\ marked' = marked \union {i}
  /\ UNCHANGED <<started, taken, answer, outcome>>

Answered(i) ==
  /\ outcome = Outstanding /\ i <= started /\ answer[i] = "none" /\ i \in marked
  /\ answer' = [answer EXCEPT ![i] = "ok"]
  /\ UNCHANGED <<started, taken, marked, outcome>>

(* It may have been marked all the same. *)
Refused(i) ==
  /\ outcome = Outstanding /\ i <= started /\ answer[i] = "none"
  /\ answer' = [answer EXCEPT ![i] = "failed"]
  /\ UNCHANGED <<started, taken, marked, outcome>>

\* Mutant: buffer_unordered.
TurnOfAny(i) == answer[i] # "none"

Turn(i) == i = taken + 1 /\ answer[i] # "none"

(* The stream is polled once there is nothing more to request. *)
Take(i) ==
  /\ outcome = Outstanding /\ Turn(i)
  /\ started = Length \/ ~Room
  /\ IF answer[i] = "ok"
     THEN taken' = taken + 1 /\ UNCHANGED outcome
     ELSE outcome' = [end |-> "failed", item |-> i] /\ UNCHANGED taken
  /\ UNCHANGED <<started, answer, marked>>

Collected ==
  /\ outcome = Outstanding /\ taken = Length
  /\ outcome' = [end |-> "ok", item |-> 0]
  /\ UNCHANGED <<started, taken, answer, marked>>

FanOutProgress == Request \/ (\E i \in Item : Take(i)) \/ Collected
FanOutAnswers == \E i \in Item : Answered(i) \/ Refused(i)
FanOutNext == FanOutProgress \/ FanOutAnswers \/ \E i \in Item : Mark(i)
FanOutSpec == FanOutInit /\ [][FanOutNext]_fanVars

-----------------------------------------------------------------------------
(* notification.rs 173-176, 191-195: success means that every listed      *)
(* thread is marked; the failure that is reported is the first listed      *)
(* thread that refused, in whichever order the answers came: what the      *)
(* sequential loop reported; and behind it no more than Width - 1 threads  *)
(* have been or will be marked.                                            *)
ReportsTheFirst ==
  /\ outcome.end = "ok" => marked = Item
  /\ outcome.end = "failed" =>
       /\ answer[outcome.item] = "failed"
       /\ \A i \in Item : i < outcome.item => answer[i] = "ok"
       /\ \A i \in marked : i < outcome.item + Width
=============================================================================
