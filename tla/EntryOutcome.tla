---------------------------- MODULE EntryOutcome ----------------------------
(***************************************************************************)
(* What the entry domain promises of an intent, whatever the market, the    *)
(* Agents, the User and crashes do: it is watched until someone has to      *)
(* judge it, only a judgement opens the way to Risk Management, no tick of  *)
(* the market takes an intent back from its judges, and one that is closed  *)
(* never comes back.                                                        *)
(***************************************************************************)
EXTENDS Naturals

CONSTANT MaxIntents

VARIABLE stage    \* the stage of each intent

Stage == {"none", "watched", "judged", "granted", "closed"}

TypeOK == stage \in [1..MaxIntents -> Stage]

Init == stage = [i \in 1..MaxIntents |-> "none"]

Move(i, from, to) ==
    /\ stage[i] \in from
    /\ stage' = [stage EXCEPT ![i] = to]

Create(i) == Move(i, {"none"}, "watched")
Submit(i) == Move(i, {"watched"}, "judged")
Grant(i) == Move(i, {"judged"}, "granted")
Return(i) == Move(i, {"judged"}, "watched")
Close(i) == Move(i, Stage \ {"none"}, "closed")

Next ==
    \E i \in 1..MaxIntents :
        \/ Create(i)
        \/ Submit(i)
        \/ Grant(i)
        \/ Return(i)
        \/ Close(i)

Spec == Init /\ [][Next]_stage
==============================================================================
