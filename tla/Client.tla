------------------------------- MODULE Client -------------------------------
(***************************************************************************)
(* The HTTP client of http/mod.rs: one request through Dispatch, the       *)
(* Capabilities that the tasks of a process share, and a walk with         *)
(* Paginate.  What Dispatch shows of a request (answered, refused, or      *)
(* given up on after every attempt) is what the other two take of the      *)
(* requests of a probe and of a page; they share no state, so they are     *)
(* checked side by side, not interleaved, and the parts that do not move   *)
(* start in one of their initial states only.                              *)
(***************************************************************************)
EXTENDS Dispatch, Capabilities, Paginate

VARIABLE part

clientVars == <<part, vars, capsVars, pageVars>>

AnyOf(set) == CHOOSE e \in set : TRUE

Still(p) ==
  CASE p = "request" -> method = AnyOf(Methods) /\ replayable = AnyOf(Bodies)
    [] p = "probe" -> serving = {} /\ items = AnyOf(Items)
    [] p = "walk" -> /\ n = 0 /\ walk.base = AnyOf(BasePages) /\ walk.driver = AnyOf(Drivers)
                     /\ walk.limit = AnyOf(UserLimits) /\ walk.honours = AnyOf(Honours)
                     /\ walk.strips = AnyOf(Strips)
                     /\ walk.sent = AnyOf({Sent(walk.driver, r, known, max) :
                                             r \in Requested, known \in BOOLEAN, max \in Reported})

Parts == {"request", "probe", "walk"}

ClientInit ==
  /\ Init /\ CapsInit /\ PageInit
  /\ part \in Parts /\ \A p \in Parts \ {part} : Still(p)

In(p) == part = p /\ UNCHANGED part

Dispatching == In("request") /\ Next /\ UNCHANGED <<capsVars, pageVars>>
Probing == In("probe") /\ CapsNext /\ UNCHANGED <<vars, pageVars>>
Walking == In("walk") /\ PageNext /\ UNCHANGED <<vars, capsVars>>

ClientNext == Dispatching \/ Probing \/ Walking
ClientSpec == ClientInit /\ [][ClientNext]_clientVars

(* tokio's mutex serves its queue in order, so a caller that keeps waiting *)
(* gets the gate; what the instance says of a request arrives; a driver    *)
(* goes on to its next round.                                              *)
FairClientSpec ==
  /\ ClientSpec
  /\ \A t \in Caller : SF_capsVars(In("probe") /\ Acquire(t)) /\ WF_capsVars(In("probe") /\ Finish(t))
  /\ \A t \in Caller, e \in Endpoint : WF_capsVars(In("probe") /\ Replies(t, e))
  /\ WF_pageVars(In("walk") /\ (AlreadySatisfied \/ Fetch))

-----------------------------------------------------------------------------
(* paginate.rs 44-50: whatever the server does, a walk ends.               *)
Ends == part = "walk" => <>(status # "walking")
=============================================================================
