------------------------------ MODULE WebLogin ------------------------------
(***************************************************************************)
(* `fjo auth login --web`: the loopback listener that waits for the        *)
(* browser, one connection after the other until a deadline, the reply     *)
(* pasted by hand instead, and what is done with a reply.                  *)
(*                                                                         *)
(* Time goes in steps of PER_CONNECTION, the read timeout.  A connection   *)
(* is what it turns out to carry and how long it takes to: a browser's     *)
(* takes none, one that sends nothing a step, one that dribbles as many as *)
(* the request may have reads.                                             *)
(***************************************************************************)
EXTENDS Integers, Sequences, FiniteSets

CONSTANTS
  Timeout,   \* --timeout
  MaxReads,  \* how long a connection may last
  Backlog    \* bound: connections that wait, and that come within one step

ASSUME WebLoginAssumption == Timeout \in Nat /\ MaxReads \in Nat /\ Backlog \in Nat

(* A request with this login's state or with one of another login, with    *)
(* the code or the error of a reply, a request with neither (with a query  *)
(* or, like a favicon's, without), and no request at all.                  *)
Content == {"code", "denied", "stale", "query", "favicon", "nothing"}
Reply == {"code", "denied", "stale"}
Connection == [content : Content, takes : 0..MaxReads]

VARIABLES
  step,      \* of the login
  clock,     \* since the wait began
  backlog,   \* connections to be accepted
  left,      \* what the one being read still takes
  reading,   \* what it carries
  params,    \* the reply
  burst,     \* connections since the clock last moved
  inTime     \* did our reply come so that it must be heard

loginVars == <<step, clock, backlog, left, reading, params, burst, inTime>>

Over == {"loggedIn", "mismatch", "deniedError", "noCode", "timeout", "bindFailed", "notReply",
         "exchangeFailed"}

WebLoginTypeOK ==
  /\ step \in {"idle", "pasting", "waiting", "reply", "redeem"} \union Over
  /\ clock \in 0..(Timeout + MaxReads)
  /\ backlog \in Seq(Connection) /\ Len(backlog) <= Backlog
  /\ left \in 0..MaxReads
  /\ reading \in Content \union {"none"}
  /\ params \in Content \union {"none"}
  /\ burst \in 0..Backlog
  /\ inTime \in BOOLEAN

WebLoginInit ==
  /\ step = "idle" /\ clock = 0
  /\ backlog = <<>> /\ left = 0 /\ reading = "none"
  /\ params = "none" /\ burst = 0 /\ inTime = FALSE

-----------------------------------------------------------------------------
\* The socket is bound first, so nothing that connects is lost.
Listen == step = "idle" /\ step' = "waiting"
          /\ UNCHANGED <<clock, backlog, left, reading, params, burst, inTime>>

Late == clock >= Timeout

\* --no-browser
PasteInstead == step = "idle" /\ step' = "pasting"
                /\ UNCHANGED <<clock, backlog, left, reading, params, burst, inTime>>

(* No socket, or one that accepts no more: any error of accept but two     *)
(* ends the login, whatever waits.                                         *)
BindFailed ==
  /\ step = "idle" \/ (step = "waiting" /\ reading = "none" /\ ~Late)
  /\ step' = "bindFailed"
  /\ UNCHANGED <<clock, backlog, left, reading, params, burst, inTime>>

HasQuery(c) == c \notin {"favicon", "nothing"}

\* Mutant: whatever has a query is the reply.
AnyQuery(c) == HasQuery(c)

(* A code or an error, whosever. *)
IsReply(c) == c \in Reply

(* Pasted text with a query is taken for the reply as it is. *)
Paste ==
  /\ step = "pasting"
  /\ \E c \in Content : IF HasQuery(c) THEN params' = c /\ step' = "reply"
                        ELSE step' = "notReply" /\ UNCHANGED params
  /\ UNCHANGED <<clock, backlog, left, reading, burst, inTime>>

(* The steps that the first n connections of s take, as <<which, step>>.   *)
ReadSteps(s, n) == {r \in (1..n) \X (1..MaxReads) : r[2] <= s[r[1]].takes}

Wait == left + Cardinality(ReadSteps(backlog, Len(backlog)))

(* Somebody connects: our browser, another tab, a scanner.                 *)
Connect ==
  /\ step = "waiting" /\ Len(backlog) < Backlog /\ burst < Backlog
  /\ \E c \in Connection :
       /\ c.content \in Reply => c.takes = 0
       /\ c.content = "nothing" => c.takes > 0
       /\ backlog' = Append(backlog, c)
       /\ inTime' = \/ inTime
                    \/ /\ c.content = "code" /\ clock + Wait < Timeout
                       /\ reading \notin Reply
                       /\ \A i \in DOMAIN backlog : backlog[i].content \notin Reply
  /\ burst' = burst + 1
  /\ UNCHANGED <<step, clock, left, reading, params>>

(* The deadline is looked at between two connections only. *)
GiveUp ==
  /\ step = "waiting" /\ reading = "none" /\ Late
  /\ step' = "timeout"
  /\ UNCHANGED <<clock, backlog, left, reading, params, burst, inTime>>

\* Mutant: every connection sets the deadline anew.
AcceptResets ==
  /\ step = "waiting" /\ reading = "none" /\ ~Late /\ backlog # <<>>
  /\ reading' = Head(backlog).content /\ left' = Head(backlog).takes
  /\ backlog' = Tail(backlog)
  /\ clock' = 0
  /\ UNCHANGED <<step, params, burst, inTime>>

Accept ==
  /\ step = "waiting" /\ reading = "none" /\ ~Late /\ backlog # <<>>
  /\ reading' = Head(backlog).content /\ left' = Head(backlog).takes
  /\ backlog' = Tail(backlog)
  /\ UNCHANGED <<step, clock, params, burst, inTime>>

(* Time passes while a connection is read, or with none to accept.         *)
Pass ==
  /\ step = "waiting"
  /\ \/ reading # "none" /\ left > 0 /\ left' = left - 1
     \/ reading = "none" /\ backlog = <<>> /\ ~Late /\ UNCHANGED left
  /\ clock < Timeout + MaxReads
  /\ clock' = clock + 1 /\ burst' = 0
  /\ UNCHANGED <<step, backlog, reading, params, inTime>>

(* Answered and closed; the wait goes on unless it was the reply.          *)
Handle ==
  /\ step = "waiting" /\ reading # "none" /\ left = 0
  /\ IF IsReply(reading) THEN params' = reading /\ step' = "reply"
     ELSE UNCHANGED <<params, step>>
  /\ reading' = "none"
  /\ UNCHANGED <<clock, backlog, left, burst, inTime>>

(* The state, then the error, then the code. *)
Verify ==
  /\ step = "reply"
  /\ \/ params \in {"stale", "query"} /\ step' = "mismatch"
     \/ params = "denied" /\ step' = "deniedError"
     \/ params = "query" /\ step' = "noCode"
     \/ params = "code" /\ step' = "redeem"
  /\ UNCHANGED <<clock, backlog, left, reading, params, burst, inTime>>

(* The exchange, whoami and the store, which Session has in detail.        *)
Redeem ==
  /\ step = "redeem"
  /\ step' \in {"loggedIn", "exchangeFailed"}
  /\ UNCHANGED <<clock, backlog, left, reading, params, burst, inTime>>

LoginProgress == Accept \/ Pass \/ Handle \/ GiveUp \/ Verify \/ Redeem
WebLoginNext == Listen \/ BindFailed \/ PasteInstead \/ Paste \/ Connect \/ LoginProgress
WebLoginSpec == WebLoginInit /\ [][WebLoginNext]_loginVars

-----------------------------------------------------------------------------
(* callback.rs 105-111: no connection that is not the reply is taken for   *)
(* it or costs more of the wait than it is read for.  Our browser's reply  *)
(* that comes behind no other, and while what is ahead of it can be read   *)
(* before the deadline, is heard, unless accept itself fails.  The reads   *)
(* of one connection have no common limit, so one that dribbles may be     *)
(* ahead for the whole of the wait: then nothing is promised.              *)
ReplyHeard ==
  inTime => /\ step \notin {"timeout", "noCode", "mismatch", "deniedError"}
            /\ params \in {"none", "code"}

(* callback.rs 95-100: a login that waits for the browser ends, whoever    *)
(* keeps connecting.                                                       *)
WaitEnds == step = "waiting" ~> step \in Over
=============================================================================
