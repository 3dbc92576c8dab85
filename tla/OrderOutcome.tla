----------------------------- MODULE OrderOutcome -----------------------------
(***************************************************************************)
(* What Module M promises about an execution request, without saying how:   *)
(* the request becomes broker exposure at most once, the exposure ends in   *)
(* one outcome, and TradeMonitor reports that very outcome, once, and only  *)
(* after the broker has reached it.                                         *)
(***************************************************************************)
EXTENDS Naturals

CONSTANTS Requests, Quantity

VARIABLES
    exposure,   \* what the broker has made of the request
    report      \* the final outcome TradeMonitor has durably recorded

vars == <<exposure, report>>

Outcome == [status: {"FILLED", "REJECTED", "CANCELLED"}, filled: 0..Quantity]
None == [status |-> "none", filled |-> 0]
Working == [status |-> "working", filled |-> 0]

TypeOK ==
    /\ exposure \in [Requests -> {None, Working} \cup Outcome]
    /\ report \in [Requests -> {None} \cup Outcome]

Init ==
    /\ exposure = [r \in Requests |-> None]
    /\ report = [r \in Requests |-> None]

Place(r) ==
    /\ exposure[r] = None
    /\ exposure' \in {[exposure EXCEPT ![r] = e] : e \in {Working} \cup Outcome}
    /\ UNCHANGED report

Finish(r) ==
    /\ exposure[r] = Working
    /\ exposure' \in {[exposure EXCEPT ![r] = e] : e \in Outcome}
    /\ UNCHANGED report

Report(r) ==
    /\ exposure[r] \in Outcome
    /\ report[r] = None
    /\ report' = [report EXCEPT ![r] = exposure[r]]
    /\ UNCHANGED exposure

Next == \E r \in Requests : Place(r) \/ Finish(r) \/ Report(r)

Spec == Init /\ [][Next]_vars
=============================================================================
