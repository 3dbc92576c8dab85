-------------------------- MODULE ExitMonitorProofs --------------------------
(***************************************************************************)
(* Proofs about the exit decisions on a position, for any rules and their   *)
(* classes, any quantities and percentages and any number of proposals.     *)
(***************************************************************************)
EXTENDS ExitMonitor, WellFoundedInduction, SequenceTheorems, TLAPS
------------------------------------------------------------------------------
(* What the helpers do to the proposals. *)

LEMMA ProposalsAreMapped ==
    ASSUME NEW ps \in Seq(ExitProposal), NEW qs, DOMAIN qs = DOMAIN ps,
           qs = [i \in DOMAIN ps |-> qs[i]], \A i \in DOMAIN ps : qs[i] \in ExitProposal
    PROVE  qs \in Seq(ExitProposal) /\ Len(qs) = Len(ps)
  <1>1. Len(ps) \in Nat /\ DOMAIN ps = 1..Len(ps)
    OBVIOUS
  <1>2. qs \in [1..Len(ps) -> ExitProposal]
    BY <1>1
  <1>3. QED
    BY <1>1, <1>2, IsASeq, LenProperties

\* What the broker satisfies, and what a full exit supersedes, ends and does nothing else.
LEMMA EndedType ==
    ASSUME NEW ps \in Seq(ExitProposal), NEW S \in SUBSET DOMAIN ps
    PROVE  /\ Satisfied(ps, S) \in Seq(ExitProposal)
           /\ Superseded(ps, S) \in Seq(ExitProposal)
           /\ Len(Satisfied(ps, S)) = Len(ps) /\ Len(Superseded(ps, S)) = Len(ps)
           /\ DOMAIN Satisfied(ps, S) = DOMAIN ps /\ DOMAIN Superseded(ps, S) = DOMAIN ps
           /\ \A i \in DOMAIN ps \ S : Satisfied(ps, S)[i] = ps[i] /\ Superseded(ps, S)[i] = ps[i]
           /\ \A i \in S : /\ Satisfied(ps, S)[i].status = "SATISFIED_BY_BROKER"
                           /\ Superseded(ps, S)[i].status = "SUPERSEDED"
  <1>1. \A i \in DOMAIN ps : ps[i] \in ExitProposal
    OBVIOUS
  <1>2. \A i \in DOMAIN ps : /\ Satisfied(ps, S)[i] \in ExitProposal
                             /\ Superseded(ps, S)[i] \in ExitProposal
    BY <1>1 DEF Satisfied, Superseded, ExitProposal, ExitProposalStatus
  <1>3. /\ DOMAIN Satisfied(ps, S) = DOMAIN ps /\ DOMAIN Superseded(ps, S) = DOMAIN ps
        /\ Satisfied(ps, S) = [i \in DOMAIN ps |-> Satisfied(ps, S)[i]]
        /\ Superseded(ps, S) = [i \in DOMAIN ps |-> Superseded(ps, S)[i]]
    BY DEF Satisfied, Superseded
  <1>4. \A i \in DOMAIN ps \ S : Satisfied(ps, S)[i] = ps[i] /\ Superseded(ps, S)[i] = ps[i]
    BY DEF Satisfied, Superseded
  <1>5. \A i \in S : /\ Satisfied(ps, S)[i].status = "SATISFIED_BY_BROKER"
                     /\ Superseded(ps, S)[i].status = "SUPERSEDED"
    BY <1>1 DEF Satisfied, Superseded, ExitProposal
  <1>6. Satisfied(ps, S) \in Seq(ExitProposal) /\ Len(Satisfied(ps, S)) = Len(ps)
    BY <1>2, <1>3, ProposalsAreMapped
  <1>7. Superseded(ps, S) \in Seq(ExitProposal) /\ Len(Superseded(ps, S)) = Len(ps)
    BY <1>2, <1>3, ProposalsAreMapped
  <1>8. QED
    BY <1>3, <1>4, <1>5, <1>6, <1>7

\* A proposal given a class, and the authority that comes with it.
Promoted(p, class) ==
    [p EXCEPT !.class = class, !.status = IF class \in Authority THEN "APPROVED" ELSE @]

LEMMA PromotedType ==
    ASSUME NEW p \in ExitProposal, NEW class \in ExitProposalClass,
           class = "STRATEGIC" => p.class = "STRATEGIC"
    PROVE  /\ Promoted(p, class) \in ExitProposal
           /\ Promoted(p, class).action = p.action
           /\ Promoted(p, class).class = class
           /\ Promoted(p, class).status \in {p.status, "APPROVED"}
           /\ class \in Authority => Promoted(p, class).status = "APPROVED"
           /\ class = "STRATEGIC" => Promoted(p, class).status = p.status
           /\ p.class \in Authority => class \in Authority
  BY DEF Promoted, ExitProposal, ExitProposalClass, ExitProposalStatus, ActiveStatus, Authority

\* A proposal that a trigger joins keeps its action, and gains authority if it changes at all.
LEMMA CoalescedType ==
    ASSUME NEW p \in ExitProposal, NEW class \in ExitProposalClass
    PROVE  /\ Coalesced(p, class) \in ExitProposal
           /\ Coalesced(p, class).action = p.action
           /\ Priority(Coalesced(p, class).class) >= Priority(p.class)
           /\ Coalesced(p, class).class \in Authority => Coalesced(p, class).status = "APPROVED"
           /\ Coalesced(p, class).class = "STRATEGIC"
                => p.class = "STRATEGIC" /\ Coalesced(p, class).status = p.status
           /\ Coalesced(p, class).status \in {p.status, "APPROVED"}
           /\ p.class \in Authority => Coalesced(p, class).class \in Authority
  <1> DEFINE higher == IF Priority(class) > Priority(p.class) THEN class ELSE p.class
  <1>1. p.class \in ExitProposalClass /\ p.status \in ExitProposalStatus /\ p.action \in ExitAction
    BY DEF ExitProposal
  <1>2. /\ higher \in ExitProposalClass
        /\ Priority(higher) >= Priority(p.class)
        /\ higher = "STRATEGIC" => p.class = "STRATEGIC"
    BY <1>1 DEF ExitProposalClass, Priority
  <1>3. Coalesced(p, class) = Promoted(p, higher)
    BY DEF Coalesced, Promoted
  <1> HIDE DEF higher
  <1>4. QED
    BY <1>1, <1>2, <1>3, PromotedType

LEMMA NewProposalType ==
    ASSUME NEW class \in ExitProposalClass, NEW action \in ExitAction
    PROVE  /\ NewProposal(class, action) \in ExitProposal
           /\ NewProposal(class, action).action = action
           /\ NewProposal(class, action).class = class
           /\ NewProposal(class, action).status
                = IF class = "STRATEGIC" THEN "PENDING" ELSE "APPROVED"
  BY DEF NewProposal, ExitProposal, ExitProposalStatus, ActiveStatus
------------------------------------------------------------------------------
(* The ways in which a step changes the proposals. *)

\* The proposals of S end, as the broker's closure or a new full exit ends them.
Ended(S) ==
    /\ S \subseteq Active(proposals)
    /\ \/ proposals' = Satisfied(proposals, S) /\ position'.quantity = 0
       \/ proposals' = Superseded(proposals, S) /\ FullExits(proposals) = {}
    /\ UNCHANGED reviews

\* A trigger joins the full exit i.
Joined(i, class) ==
    /\ i \in FullExits(proposals)
    /\ proposals' = [proposals EXCEPT ![i] = Coalesced(@, class)]
    /\ UNCHANGED reviews

\* A new proposal is made while there is no full exit.
Made(class, action) ==
    /\ FullExits(proposals) = {}
    /\ Len(proposals) < MaxProposals
    /\ proposals' = Append(IF action = ExitAll THEN Superseded(proposals, Active(proposals))
                           ELSE proposals,
                           NewProposal(class, action))
    /\ UNCHANGED reviews

\* The Agents answer about i, or their review is left as asked or answered.
Reviewed(i, answer) ==
    /\ Reviewable(i)
    /\ \/ reviews' = [reviews EXCEPT ![i] = answer]
       \/ reviews[i] = "DECIDED" /\ UNCHANGED reviews
    /\ \/ UNCHANGED proposals
       \/ answer = "AGREED" /\ proposals' = [proposals EXCEPT ![i].status = "APPROVED"]

\* The User decides about i; the proposal may be left as it was.
Decided(i, decision) ==
    /\ reviews[i] \in {"PENDING", "FAILED", "DISAGREED"}
    /\ reviews' = [reviews EXCEPT ![i] = "DECIDED"]
    /\ \/ UNCHANGED proposals
       \/ proposals' = [proposals EXCEPT ![i].status = decision]

LEMMA NatIsWellFounded == IsWellFoundedOn({p \in Nat \X Nat : p[1] < p[2]}, Nat)
  BY NatLessThanWellFounded, Zenon DEF OpToRel

\* A new review is the latest, or the decision before it stays the latest.
LEMMA AnsweredType ==
    ASSUME TypeOK, NEW i \in DOMAIN proposals, NEW answer, reviews' \in Answered(i, answer)
    PROVE  \/ reviews' = [reviews EXCEPT ![i] = answer]
           \/ reviews[i] = "DECIDED" /\ UNCHANGED reviews
  <1>1. PICK latest \in {answer} \cup ({reviews[i]} \cap {"DECIDED"}) :
            reviews' = [reviews EXCEPT ![i] = latest]
    BY DEF Answered
  <1>2. CASE latest = answer
    BY <1>1, <1>2
  <1>3. CASE latest # answer
    <2>1. latest = reviews[i] /\ reviews[i] = "DECIDED"
      BY <1>1, <1>3
    <2>2. [reviews EXCEPT ![i] = reviews[i]] = reviews
      BY DEF TypeOK
    <2>3. QED
      BY <1>1, <2>1, <2>2
  <1>4. QED
    BY <1>2, <1>3

\* The proposal a trigger joins, the first full exit, exists.
LEMMA FirstExists ==
    ASSUME NEW S \in SUBSET Nat, S # {}
    PROVE  \E i \in S : \A j \in S : i <= j
  <1>1. PICK i \in S : \A j \in S : <<j, i>> \notin {p \in Nat \X Nat : p[1] < p[2]}
    BY NatIsWellFounded, WFMin
  <1>2. \A j \in S : ~(j < i)
    BY <1>1
  <1>3. QED
    BY <1>2

LEMMA RaisedMoves ==
    ASSUME TypeOK, NEW class \in ExitProposalClass, NEW action \in ExitAction, RoomToRaise,
           proposals' = Raised(proposals, class, action), UNCHANGED reviews
    PROVE  \/ UNCHANGED proposals
           \/ \E i \in DOMAIN proposals : Joined(i, class)
           \/ Made(class, action)
  <1>1. CASE FullExits(proposals) = {}
    BY <1>1 DEF Raised, RoomToRaise, Made
  <1>2. CASE FullExits(proposals) # {}
    <2> DEFINE first == CHOOSE i \in FullExits(proposals) :
                          \A j \in FullExits(proposals) : i <= j
    <2>1. FullExits(proposals) \in SUBSET Nat
      BY DEF FullExits, Active, TypeOK
    <2>2. \E i \in FullExits(proposals) : \A j \in FullExits(proposals) : i <= j
      BY <1>2, <2>1, FirstExists
    <2>3. first \in FullExits(proposals) /\ first \in DOMAIN proposals
      BY <2>2 DEF FullExits, Active
    <2>4. proposals' = IF action = ExitAll
                       THEN [proposals EXCEPT ![first] = Coalesced(@, class)] ELSE proposals
      BY <1>2 DEF Raised
    <2> HIDE DEF first
    <2>5. QED
      BY <2>3, <2>4 DEF Joined
  <1>3. QED
    BY <1>1, <1>2

\* What each step does to the proposals and their reviews.
Moves ==
    \/ UNCHANGED <<proposals, reviews>>
    \/ \E S \in SUBSET DOMAIN proposals : Ended(S)
    \/ \E i \in DOMAIN proposals, class \in ExitProposalClass : Joined(i, class)
    \/ \E class \in ExitProposalClass, action \in ExitAction : Made(class, action)
    \/ \E i \in DOMAIN proposals, answer \in ReviewStatus \ {"NONE", "DECIDED"} :
          Reviewed(i, answer)
    \/ \E i \in DOMAIN proposals, decision \in Decision : Decided(i, decision)

LEMMA SatisfyingMoves ==
    ASSUME NEW q, NEW S \in SUBSET Active(proposals), position' = Reported(q), TypeOK,
           proposals' = IF q = 0 THEN Satisfied(proposals, S) ELSE proposals, UNCHANGED reviews
    PROVE  Moves
  <1>1. S \in SUBSET DOMAIN proposals
    BY DEF Active
  <1>2. position'.quantity = q
    BY DEF Reported, TypeOK, Position
  <1>3. QED
    BY <1>1, <1>2 DEF Moves, Ended

LEMMA SupersedingMoves ==
    ASSUME TypeOK, proposals' \in PartlySuperseded, UNCHANGED reviews
    PROVE  Moves
  <1>1. PICK S \in IF FullExits(proposals) = {} THEN SUBSET Active(proposals) ELSE {{}} :
            proposals' = Superseded(proposals, S)
    BY DEF PartlySuperseded
  <1>2. CASE FullExits(proposals) = {}
    BY <1>1, <1>2 DEF Moves, Ended, Active
  <1>3. CASE FullExits(proposals) # {}
    <2>1. S = {}
      BY <1>1, <1>3
    <2>2. proposals = [i \in DOMAIN proposals |-> proposals[i]]
      BY DEF TypeOK
    <2>3. proposals' = proposals
      BY <1>1, <2>1, <2>2 DEF Superseded
    <2>4. QED
      BY <2>3 DEF Moves
  <1>4. QED
    BY <1>2, <1>3

LEMMA StepMoves ==
    ASSUME TypeOK, [Next]_vars
    PROVE  Moves
  <1>1. ASSUME NEW q \in Quantities, Reconcile(q) PROVE Moves
    BY <1>1, SatisfyingMoves DEF Reconcile
  <1>2. ASSUME NEW q \in Quantities, ReconcileDies(q) PROVE Moves
    <2>1. CASE UNCHANGED proposals
      BY <1>2, <2>1 DEF ReconcileDies, Moves
    <2>2. CASE \E S \in SUBSET Active(proposals) :
                  proposals' = IF q = 0 THEN Satisfied(proposals, S) ELSE proposals
      BY <1>2, <2>2, SatisfyingMoves DEF ReconcileDies
    <2>3. QED
      BY <1>2, <2>1, <2>2 DEF ReconcileDies
  <1>3. ASSUME NEW r \in Rules, TriggerRule(r) PROVE Moves
    <2>1. RuleClass[r] \in ExitProposalClass /\ ExitAll \in ExitAction
      BY ExitAssumption DEF ExitAction
    <2>2. QED
      BY <1>3, <2>1, RaisedMoves DEF TriggerRule, Moves
  <1>4. ASSUME NEW r \in Rules, TriggerRuleDies(r) PROVE Moves
    BY <1>4, SupersedingMoves DEF TriggerRuleDies
  <1>5. ASSUME NEW class \in ExitProposalClass, NEW action \in ExitAction,
               ProposeExit(class, action)
        PROVE  Moves
    BY <1>5, RaisedMoves DEF ProposeExit, Moves
  <1>6. CASE ProposeExitDies
    BY <1>6, SupersedingMoves DEF ProposeExitDies
  <1>7. ASSUME NEW i \in DOMAIN proposals, NEW answer \in {"AGREED", "DISAGREED", "FAILED"},
               RequestReview(i, answer)
        PROVE  Moves
    BY <1>7, AnsweredType DEF RequestReview, Moves, Reviewed, ReviewStatus
  <1>8. ASSUME NEW i \in DOMAIN proposals, NEW answer \in {"PENDING", "AGREED"},
               RequestReviewDies(i, answer)
        PROVE  Moves
    BY <1>8, AnsweredType DEF RequestReviewDies, Moves, Reviewed, ReviewStatus
  <1>9. ASSUME NEW i \in DOMAIN proposals, NEW decision \in Decision, UserDecides(i, decision)
        PROVE  Moves
    BY <1>9 DEF UserDecides, Moves, Decided
  <1>10. ASSUME NEW i \in DOMAIN proposals, UserDecidesDies(i) PROVE Moves
    BY <1>10 DEF UserDecidesDies, Moves, Decided, Decision
  <1>11. CASE \/ ReconcileReplay \/ ReconcileFails \/ Restart \/ Adopt \/ AdoptDies
              \/ \E r \in Rules : AddRule(r) \/ CancelRule(r)
              \/ UNCHANGED vars
    BY <1>11 DEF ReconcileReplay, ReconcileFails, Restart, Adopt, AdoptDies, AddRule, CancelRule,
                 vars, Moves
  <1>12. QED
    BY <1>1, <1>2, <1>3, <1>4, <1>5, <1>6, <1>7, <1>8, <1>9, <1>10, <1>11
       DEF Next, BrokerTruth, Management, Proposing, Reviewing
------------------------------------------------------------------------------
(* Type correctness. *)

\* What a trigger that joins a full exit, and a new proposal, leave of each proposal.
LEMMA JoinedType ==
    ASSUME TypeOK, NEW i \in DOMAIN proposals, NEW class \in ExitProposalClass, Joined(i, class)
    PROVE  /\ proposals' \in Seq(ExitProposal)
           /\ Len(proposals') = Len(proposals)
           /\ DOMAIN proposals' = DOMAIN proposals
           /\ proposals'[i] = Coalesced(proposals[i], class)
           /\ \A j \in DOMAIN proposals \ {i} : proposals'[j] = proposals[j]
  <1>1. proposals[i] \in ExitProposal
    BY DEF TypeOK
  <1>2. PICK p \in ExitProposal : p = Coalesced(proposals[i], class)
    BY <1>1, CoalescedType
  <1>3. proposals' = [proposals EXCEPT ![i] = p]
    BY <1>2 DEF Joined
  <1>4. proposals \in Seq(ExitProposal) /\ i \in 1..Len(proposals)
    BY DEF TypeOK
  <1>5. QED
    BY <1>2, <1>3, <1>4, ExceptSeq

LEMMA MadeType ==
    ASSUME TypeOK, NEW class \in ExitProposalClass, NEW action \in ExitAction,
           Made(class, action)
    PROVE  /\ proposals' \in Seq(ExitProposal)
           /\ Len(proposals') = Len(proposals) + 1
           /\ DOMAIN proposals' = DOMAIN proposals \cup {Len(proposals) + 1}
           /\ proposals'[Len(proposals) + 1] = NewProposal(class, action)
           /\ \A j \in DOMAIN proposals \ Active(proposals) : proposals'[j] = proposals[j]
           /\ \A j \in Active(proposals) :
                IF action = ExitAll THEN proposals'[j].status = "SUPERSEDED"
                ELSE proposals'[j] = proposals[j]
  <1> DEFINE left == IF action = ExitAll THEN Superseded(proposals, Active(proposals))
                     ELSE proposals
  <1>1. Active(proposals) \in SUBSET DOMAIN proposals /\ proposals \in Seq(ExitProposal)
    BY DEF Active, TypeOK
  <1>2. /\ left \in Seq(ExitProposal)
        /\ Len(left) = Len(proposals) /\ DOMAIN left = DOMAIN proposals
        /\ \A j \in DOMAIN proposals \ Active(proposals) : left[j] = proposals[j]
        /\ \A j \in Active(proposals) :
              IF action = ExitAll THEN left[j].status = "SUPERSEDED" ELSE left[j] = proposals[j]
    BY <1>1, EndedType
  <1>3. PICK p \in ExitProposal : p = NewProposal(class, action)
    BY NewProposalType
  <1>4. proposals' = Append(left, p)
    BY <1>3 DEF Made
  <1> HIDE DEF left
  <1>5. /\ proposals' \in Seq(ExitProposal)
        /\ Len(proposals') = Len(left) + 1
        /\ DOMAIN proposals' = DOMAIN left \cup {Len(left) + 1}
        /\ proposals'[Len(left) + 1] = p
        /\ \A j \in DOMAIN left : proposals'[j] = left[j]
    BY <1>2, <1>4
  <1>6. QED
    BY <1>1, <1>2, <1>3, <1>5

LEMMA StatusType ==
    ASSUME TypeOK, NEW i \in DOMAIN proposals, NEW status \in ExitProposalStatus,
           proposals' = [proposals EXCEPT ![i].status = status]
    PROVE  /\ proposals' \in Seq(ExitProposal)
           /\ Len(proposals') = Len(proposals)
           /\ DOMAIN proposals' = DOMAIN proposals
           /\ proposals'[i] = [proposals[i] EXCEPT !.status = status]
           /\ \A j \in DOMAIN proposals \ {i} : proposals'[j] = proposals[j]
  <1>1. proposals[i] \in ExitProposal
    BY DEF TypeOK
  <1>2. PICK p \in ExitProposal : p = [proposals[i] EXCEPT !.status = status]
    BY <1>1 DEF ExitProposal
  <1>3. proposals' = [proposals EXCEPT ![i] = p]
    BY <1>2
  <1>4. proposals \in Seq(ExitProposal) /\ i \in 1..Len(proposals)
    BY DEF TypeOK
  <1>5. QED
    BY <1>2, <1>3, <1>4, ExceptSeq

LEMMA MovesType ==
    ASSUME TypeOK, Moves
    PROVE  /\ proposals' \in Seq(ExitProposal)
           /\ Len(proposals') <= MaxProposals
           /\ reviews' \in [1..MaxProposals -> ReviewStatus]
  <1>1. CASE UNCHANGED <<proposals, reviews>>
    BY <1>1 DEF TypeOK
  <1>2. ASSUME NEW S \in SUBSET DOMAIN proposals, Ended(S)
        PROVE  /\ proposals' \in Seq(ExitProposal)
               /\ Len(proposals') <= MaxProposals
               /\ reviews' \in [1..MaxProposals -> ReviewStatus]
    BY <1>2, EndedType DEF Ended, TypeOK
  <1>3. ASSUME NEW i \in DOMAIN proposals, NEW class \in ExitProposalClass, Joined(i, class)
        PROVE  /\ proposals' \in Seq(ExitProposal)
               /\ Len(proposals') <= MaxProposals
               /\ reviews' \in [1..MaxProposals -> ReviewStatus]
    BY <1>3, JoinedType DEF Joined, TypeOK
  <1>4. ASSUME NEW class \in ExitProposalClass, NEW action \in ExitAction, Made(class, action)
        PROVE  /\ proposals' \in Seq(ExitProposal)
               /\ Len(proposals') <= MaxProposals
               /\ reviews' \in [1..MaxProposals -> ReviewStatus]
    <2>1. Len(proposals) \in Nat /\ MaxProposals \in Nat
      BY ExitAssumption DEF TypeOK
    <2>2. QED
      BY <1>4, <2>1, MadeType DEF Made, TypeOK
  <1>5. ASSUME NEW i \in DOMAIN proposals, NEW answer \in ReviewStatus \ {"NONE", "DECIDED"},
               Reviewed(i, answer)
        PROVE  /\ proposals' \in Seq(ExitProposal)
               /\ Len(proposals') <= MaxProposals
               /\ reviews' \in [1..MaxProposals -> ReviewStatus]
    <2>1. "APPROVED" \in ExitProposalStatus
      BY DEF ExitProposalStatus, ActiveStatus
    <2>2. QED
      BY <1>5, <2>1, StatusType DEF Reviewed, TypeOK
  <1>6. ASSUME NEW i \in DOMAIN proposals, NEW decision \in Decision, Decided(i, decision)
        PROVE  /\ proposals' \in Seq(ExitProposal)
               /\ Len(proposals') <= MaxProposals
               /\ reviews' \in [1..MaxProposals -> ReviewStatus]
    <2>1. decision \in ExitProposalStatus /\ "DECIDED" \in ReviewStatus
      BY DEF ExitProposalStatus, ReviewStatus
    <2>2. QED
      BY <1>6, <2>1, StatusType DEF Decided, TypeOK
  <1>7. QED
    BY <1>1, <1>2, <1>3, <1>4, <1>5, <1>6 DEF Moves

\* The other variables, step by step.
LEMMA RestType ==
    ASSUME TypeOK, [Next]_vars
    PROVE  /\ position' \in Position
           /\ broker' \in BrokerContext
           /\ rules' \in [Rules -> RuleStatus]
           /\ demanded' \in BOOLEAN
  <1>1. position' \in Position
    BY DEF TypeOK, Next, BrokerTruth, Management, Proposing, Reviewing, vars, Reconcile,
           ReconcileDies, ReconcileReplay, ReconcileFails, Restart, Adopt, AdoptDies, AddRule,
           CancelRule, TriggerRule, TriggerRuleDies, ProposeExit, ProposeExitDies,
           RequestReview, RequestReviewDies, UserDecides, UserDecidesDies, Reported, Position
  <1>2. broker' \in BrokerContext
    <2>1. /\ [broker EXCEPT !.current = FALSE] \in BrokerContext
          /\ [broker EXCEPT !.current = TRUE] \in BrokerContext
          /\ [broker EXCEPT !.status = "UNAVAILABLE", !.current = FALSE] \in BrokerContext
          /\ [status |-> "RECONCILED", current |-> TRUE, known |-> TRUE] \in BrokerContext
          /\ [status: {"RECONCILED", "UNAVAILABLE"}, current: {FALSE}, known: {TRUE}]
                \subseteq BrokerContext
      BY DEF TypeOK, BrokerContext
    <2>2. \/ UNCHANGED broker
          \/ ProcessLost
          \/ broker' = [broker EXCEPT !.current = TRUE]
          \/ broker' = [broker EXCEPT !.status = "UNAVAILABLE", !.current = FALSE]
          \/ broker' = [status |-> "RECONCILED", current |-> TRUE, known |-> TRUE]
          \/ broker' \in [status: {"RECONCILED", "UNAVAILABLE"}, current: {FALSE}, known: {TRUE}]
      <3> HIDE DEF TypeOK, ProcessLost
      <3> QED
        BY Zenon DEF Next, BrokerTruth, Management, Proposing, Reviewing, vars, Reconcile,
           ReconcileDies, ReconcileReplay, ReconcileFails, Restart, Adopt, AdoptDies, AddRule,
           CancelRule, TriggerRule, TriggerRuleDies, ProposeExit, ProposeExitDies,
           RequestReview, RequestReviewDies, UserDecides, UserDecidesDies
    <2>3. QED
      BY <2>1, <2>2 DEF ProcessLost, TypeOK
  <1>3. rules' \in [Rules -> RuleStatus]
    BY DEF TypeOK, Next, BrokerTruth, Management, Proposing, Reviewing, vars, Reconcile,
           ReconcileDies, ReconcileReplay, ReconcileFails, Restart, Adopt, AdoptDies, AddRule,
           CancelRule, TriggerRule, TriggerRuleDies, ProposeExit, ProposeExitDies,
           RequestReview, RequestReviewDies, UserDecides, UserDecidesDies, RuleStatus
  <1>4. demanded' \in BOOLEAN
    BY DEF TypeOK, Next, BrokerTruth, Management, Proposing, Reviewing, vars, Reconcile,
           ReconcileDies, ReconcileReplay, ReconcileFails, Restart, Adopt, AdoptDies, AddRule,
           CancelRule, TriggerRule, TriggerRuleDies, ProposeExit, ProposeExitDies,
           RequestReview, RequestReviewDies, UserDecides, UserDecidesDies
  <1>5. QED
    BY <1>1, <1>2, <1>3, <1>4

LEMMA InitType == Init => TypeOK
  <1> SUFFICES ASSUME Init PROVE TypeOK
    OBVIOUS
  <1>1. position \in Position /\ broker \in BrokerContext /\ demanded \in BOOLEAN
    BY ExitAssumption DEF Init, Position, BrokerContext
  <1>2. proposals \in Seq(ExitProposal) /\ Len(proposals) = 0
    BY EmptySeq DEF Init
  <1>3. /\ rules \in [Rules -> RuleStatus]
        /\ reviews \in [1..MaxProposals -> ReviewStatus]
    BY DEF Init, RuleStatus, ReviewStatus
  <1>4. QED
    BY <1>1, <1>2, <1>3, ExitAssumption DEF TypeOK

\* THEOREM TypeCorrect states that every state is well typed: the position, the broker
\* context, the rules, the proposals and their reviews (TypeOK).
THEOREM TypeCorrect == Spec => []TypeOK
  <1>1. Init => TypeOK
    BY InitType
  <1>2. TypeOK /\ [Next]_vars => TypeOK'
    BY StepMoves, MovesType, RestType DEF TypeOK
  <1>3. QED
    BY <1>1, <1>2, PTL DEF Spec
------------------------------------------------------------------------------
(* Safety. *)

\* The active exits but those that a User's decision has approved.
Undecided(ps, rs) ==
    {i \in Active(ps) : rs[i] # "DECIDED" \/ ps[i].status = "PENDING"}

\* OneExitPath alone is not inductive: a crash between a decision and its proposal leaves an
\* exit that is decided and yet pending, and a new review of it makes it undecided again.
PathInv ==
    \A i, j \in Undecided(proposals, reviews) : proposals[i].action = ExitAll => i = j

ExitInv == TypeOK /\ AuthorityNeverWaits /\ ApprovalIsOnRecord /\ PathInv

\* A pending proposal is active and undecided.
LEMMA ReviewableIsUndecided ==
    ASSUME NEW i \in DOMAIN proposals, Reviewable(i)
    PROVE  /\ i \in Active(proposals) /\ i \in Undecided(proposals, reviews)
           /\ proposals[i].class \notin Authority
  BY DEF Reviewable, Active, ActiveStatus, Undecided, Authority

LEMMA EndedKeeps ==
    ASSUME ExitInv, NEW S \in SUBSET DOMAIN proposals, Ended(S)
    PROVE  AuthorityNeverWaits' /\ ApprovalIsOnRecord' /\ PathInv'
  <1>1. /\ DOMAIN proposals' = DOMAIN proposals
        /\ \A i \in DOMAIN proposals \ S : proposals'[i] = proposals[i]
        /\ \A i \in S : proposals'[i].status \notin ActiveStatus
    BY EndedType DEF ExitInv, TypeOK, Ended, ActiveStatus
  <1>2. Active(proposals') = Active(proposals) \ S
    BY <1>1 DEF Active
  <1>3. Active(proposals) \subseteq DOMAIN proposals
    BY DEF Active
  <1>4. AuthorityNeverWaits'
    BY <1>1, <1>2, <1>3 DEF ExitInv, AuthorityNeverWaits
  <1>5. ApprovalIsOnRecord'
    BY <1>1 DEF ExitInv, ApprovalIsOnRecord, Ended, ActiveStatus
  <1>6. Undecided(proposals, reviews)' \subseteq Undecided(proposals, reviews) \ S
    BY <1>1, <1>2, <1>3 DEF Undecided, Ended
  <1>7. PathInv'
    BY <1>1, <1>3, <1>6 DEF ExitInv, PathInv, Undecided
  <1>8. QED
    BY <1>4, <1>5, <1>7

LEMMA JoinedKeeps ==
    ASSUME ExitInv, NEW i \in DOMAIN proposals, NEW class \in ExitProposalClass, Joined(i, class)
    PROVE  AuthorityNeverWaits' /\ ApprovalIsOnRecord' /\ PathInv'
  <1>1. /\ DOMAIN proposals' = DOMAIN proposals
        /\ \A j \in DOMAIN proposals \ {i} : proposals'[j] = proposals[j]
        /\ proposals[i] \in ExitProposal /\ i \in Active(proposals) /\ UNCHANGED reviews
    BY JoinedType DEF ExitInv, TypeOK, Joined, FullExits
  <1>2. /\ proposals'[i].action = proposals[i].action
        /\ proposals'[i].class \in Authority => proposals'[i].status = "APPROVED"
        /\ proposals'[i].class = "STRATEGIC"
             => proposals[i].class = "STRATEGIC" /\ proposals'[i].status = proposals[i].status
        /\ proposals'[i].status \in {proposals[i].status, "APPROVED"}
    BY <1>1, JoinedType, CoalescedType DEF ExitInv
  <1>3. Active(proposals') = Active(proposals)
    BY <1>1, <1>2 DEF Active, ActiveStatus
  <1>4. AuthorityNeverWaits'
    BY <1>1, <1>2, <1>3 DEF ExitInv, AuthorityNeverWaits, Active
  <1>5. ApprovalIsOnRecord'
    BY <1>1, <1>2 DEF ExitInv, ApprovalIsOnRecord
  <1>6. Undecided(proposals, reviews)' \subseteq Undecided(proposals, reviews)
    BY <1>1, <1>2, <1>3 DEF Undecided, Active
  <1>7. PathInv'
    BY <1>1, <1>2, <1>6 DEF ExitInv, PathInv, Undecided, Active
  <1>8. QED
    BY <1>4, <1>5, <1>7

LEMMA MadeKeeps ==
    ASSUME ExitInv, NEW class \in ExitProposalClass, NEW action \in ExitAction,
           Made(class, action)
    PROVE  AuthorityNeverWaits' /\ ApprovalIsOnRecord' /\ PathInv'
  <1> DEFINE new == Len(proposals) + 1
  <1>1. /\ DOMAIN proposals' = DOMAIN proposals \cup {new}
        /\ proposals'[new] = NewProposal(class, action)
        /\ \A j \in DOMAIN proposals \ Active(proposals) : proposals'[j] = proposals[j]
        /\ \A j \in Active(proposals) :
              IF action = ExitAll THEN proposals'[j].status = "SUPERSEDED"
              ELSE proposals'[j] = proposals[j]
        /\ UNCHANGED reviews /\ FullExits(proposals) = {}
    BY MadeType DEF ExitInv, Made
  <1>2. Active(proposals) \subseteq DOMAIN proposals
    BY DEF Active
  <1> HIDE DEF new
  <1>3. /\ proposals'[new].action = action
        /\ proposals'[new].class = class
        /\ proposals'[new].status = IF class = "STRATEGIC" THEN "PENDING" ELSE "APPROVED"
    BY <1>1, NewProposalType
  <1>4. Active(proposals') \subseteq
           IF action = ExitAll THEN {new} ELSE Active(proposals) \cup {new}
    BY <1>1 DEF Active, ActiveStatus
  <1>5. \A j \in DOMAIN proposals' \ {new} :
           proposals'[j] = proposals[j] \/ proposals'[j].status = "SUPERSEDED"
    BY <1>1, <1>2
  <1>6. AuthorityNeverWaits'
    <2> SUFFICES ASSUME NEW j \in Active(proposals')
                 PROVE  proposals'[j].class \in Authority => proposals'[j].status = "APPROVED"
      BY DEF AuthorityNeverWaits
    <2>2. CASE j = new
      BY <2>2, <1>3 DEF Authority
    <2>3. CASE j # new
      BY <2>3, <1>1, <1>2, <1>4 DEF ExitInv, AuthorityNeverWaits
    <2>4. QED
      BY <2>2, <2>3
  <1>7. ApprovalIsOnRecord'
    BY <1>1, <1>3, <1>5 DEF ExitInv, ApprovalIsOnRecord
  <1>8. PathInv'
    <2>1. CASE action = ExitAll
      BY <2>1, <1>4 DEF PathInv, Undecided
    <2>2. CASE action # ExitAll
      BY <2>2, <1>1, <1>3, <1>4 DEF PathInv, Undecided, FullExits
    <2>3. QED
      BY <2>1, <2>2
  <1>9. QED
    BY <1>6, <1>7, <1>8

LEMMA ReviewedKeeps ==
    ASSUME ExitInv, NEW i \in DOMAIN proposals,
           NEW answer \in ReviewStatus \ {"NONE", "DECIDED"}, Reviewed(i, answer)
    PROVE  AuthorityNeverWaits' /\ ApprovalIsOnRecord' /\ PathInv'
  <1>1. /\ DOMAIN proposals' = DOMAIN proposals
        /\ \A j \in DOMAIN proposals \ {i} : proposals'[j] = proposals[j]
        /\ proposals'[i].class = proposals[i].class
        /\ proposals'[i].action = proposals[i].action
        /\ \/ proposals'[i].status = proposals[i].status
           \/ answer = "AGREED" /\ proposals'[i].status = "APPROVED"
    <2>1. "APPROVED" \in ExitProposalStatus /\ proposals[i] \in ExitProposal
      BY DEF ExitProposalStatus, ActiveStatus, ExitInv, TypeOK
    <2>2. QED
      BY <2>1, StatusType DEF ExitInv, Reviewed, ExitProposal
  <1>2. /\ i \in 1..MaxProposals /\ reviews'[i] \in {answer, "DECIDED"}
        /\ \A j \in DOMAIN proposals \ {i} : reviews'[j] = reviews[j]
    <2>1. i \in 1..MaxProposals
      BY ExitAssumption DEF ExitInv, TypeOK
    <2>2. CASE reviews' = [reviews EXCEPT ![i] = answer]
      BY <2>1, <2>2 DEF ExitInv, TypeOK
    <2>3. CASE reviews[i] = "DECIDED" /\ UNCHANGED reviews
      BY <2>1, <2>3
    <2>4. QED
      BY <2>2, <2>3 DEF Reviewed
  <1>3. /\ i \in Active(proposals) /\ i \in Undecided(proposals, reviews)
        /\ proposals[i].class \notin Authority /\ proposals[i].status = "PENDING"
    BY ReviewableIsUndecided DEF Reviewed, Reviewable
  <1>4. Active(proposals') = Active(proposals)
    BY <1>1, <1>3 DEF Active, ActiveStatus
  <1>5. AuthorityNeverWaits'
    BY <1>1, <1>3, <1>4 DEF ExitInv, AuthorityNeverWaits, Active
  <1>6. ApprovalIsOnRecord'
    BY <1>1, <1>2, <1>3 DEF ExitInv, ApprovalIsOnRecord
  <1>7. Undecided(proposals, reviews)' \subseteq Undecided(proposals, reviews)
    BY <1>1, <1>2, <1>3, <1>4 DEF Undecided, Active
  <1>8. PathInv'
    BY <1>1, <1>7 DEF ExitInv, PathInv, Undecided, Active
  <1>9. QED
    BY <1>5, <1>6, <1>8

LEMMA DecidedKeeps ==
    ASSUME ExitInv, NEW i \in DOMAIN proposals, NEW decision \in Decision, Decided(i, decision)
    PROVE  AuthorityNeverWaits' /\ ApprovalIsOnRecord' /\ PathInv'
  <1>1. /\ DOMAIN proposals' = DOMAIN proposals
        /\ \A j \in DOMAIN proposals \ {i} : proposals'[j] = proposals[j]
        /\ proposals'[i].class = proposals[i].class
        /\ proposals'[i].action = proposals[i].action
        /\ \/ proposals'[i].status = proposals[i].status
           \/ proposals'[i].status = decision
    <2>1. decision \in ExitProposalStatus /\ proposals[i] \in ExitProposal
      BY DEF ExitProposalStatus, ExitInv, TypeOK
    <2>2. QED
      BY <2>1, StatusType DEF ExitInv, Decided, ExitProposal
  <1>2. /\ reviews[i] # "DECIDED" /\ reviews'[i] = "DECIDED"
        /\ \A j \in DOMAIN proposals \ {i} : reviews'[j] = reviews[j]
    <2>1. i \in 1..MaxProposals
      BY ExitAssumption DEF ExitInv, TypeOK
    <2>2. QED
      BY <2>1 DEF ExitInv, TypeOK, Decided
  <1>3. AuthorityNeverWaits'
    BY <1>1 DEF ExitInv, AuthorityNeverWaits, Active, Decision, ActiveStatus
  <1>4. ApprovalIsOnRecord'
    BY <1>1, <1>2 DEF ExitInv, ApprovalIsOnRecord
  <1>5. Undecided(proposals, reviews)' \subseteq Undecided(proposals, reviews)
    BY <1>1, <1>2 DEF Undecided, Active, Decision, ActiveStatus
  <1>6. PathInv'
    BY <1>1, <1>5 DEF ExitInv, PathInv, Undecided, Active
  <1>7. QED
    BY <1>3, <1>4, <1>6

LEMMA ExitInductive == ExitInv /\ [Next]_vars => ExitInv'
  <1> SUFFICES ASSUME ExitInv, [Next]_vars
               PROVE  ExitInv'
    OBVIOUS
  <1>1. TypeOK /\ TypeOK' /\ Moves
    BY StepMoves, MovesType, RestType DEF ExitInv, TypeOK
  <1>2. CASE UNCHANGED <<proposals, reviews>>
    BY <1>1, <1>2 DEF ExitInv, AuthorityNeverWaits, ApprovalIsOnRecord, PathInv, Active, Undecided
  <1>3. ASSUME ~UNCHANGED <<proposals, reviews>>
        PROVE  AuthorityNeverWaits' /\ ApprovalIsOnRecord' /\ PathInv'
    BY <1>1, <1>3, EndedKeeps, JoinedKeeps, MadeKeeps, ReviewedKeeps, DecidedKeeps DEF Moves
  <1>4. QED
    BY <1>1, <1>2, <1>3 DEF ExitInv

LEMMA ExitAlways == Spec => []ExitInv
  <1>1. Init => TypeOK
    BY InitType
  <1>2. Init => ExitInv
    BY <1>1 DEF Init, ExitInv, AuthorityNeverWaits, ApprovalIsOnRecord, PathInv, Active, Undecided
  <1>3. QED
    BY <1>2, ExitInductive, PTL DEF Spec

\* THEOREM SafetyNeverWaits states that no protective or deterministic exit ever waits for
\* Agents or User (AuthorityNeverWaits; positions/exit.py and positions/review.py).
THEOREM SafetyNeverWaits == Spec => []AuthorityNeverWaits
  <1>1. ExitInv => AuthorityNeverWaits
    BY DEF ExitInv
  <1>2. QED
    BY <1>1, ExitAlways, PTL

\* THEOREM RecordedApprovals states that an approved strategic exit has an Agents' or a
\* User's decision on record, whatever failed or crashed (ApprovalIsOnRecord).
THEOREM RecordedApprovals == Spec => []ApprovalIsOnRecord
  <1>1. ExitInv => ApprovalIsOnRecord
    BY DEF ExitInv
  <1>2. QED
    BY <1>1, ExitAlways, PTL

\* THEOREM OnePath states that the exits no late decision has reopened are one full exit or
\* partial exits only (OneExitPath).
THEOREM OnePath == Spec => []OneExitPath
  <1>1. ExitInv => OneExitPath
    BY DEF ExitInv, PathInv, OneExitPath, Undecided
  <1>2. QED
    BY <1>1, ExitAlways, PTL
------------------------------------------------------------------------------
(* Authority once given. *)

\* The body of AuthorityHolds.
AuthorityKept ==
    \A i \in FullExits(proposals) : proposals[i].class \in Authority =>
        \/ /\ proposals'[i].status = "APPROVED"
           /\ Priority(proposals'[i].class) >= Priority(proposals[i].class)
        \/ proposals'[i].status = "SATISFIED_BY_BROKER" /\ position'.quantity = 0
        \/ reviews[i] # "DECIDED" /\ reviews'[i] = "DECIDED"

LEMMA StepKeepsAuthority ==
    ASSUME ExitInv, [Next]_vars
    PROVE  AuthorityKept
  <1> SUFFICES ASSUME NEW i \in FullExits(proposals), proposals[i].class \in Authority
               PROVE  \/ /\ proposals'[i].status = "APPROVED"
                         /\ Priority(proposals'[i].class) >= Priority(proposals[i].class)
                      \/ proposals'[i].status = "SATISFIED_BY_BROKER" /\ position'.quantity = 0
                      \/ reviews[i] # "DECIDED" /\ reviews'[i] = "DECIDED"
    BY DEF AuthorityKept
  <1>1. /\ TypeOK /\ Moves
        /\ i \in DOMAIN proposals /\ i \in Active(proposals) /\ FullExits(proposals) # {}
        /\ proposals[i] \in ExitProposal /\ proposals[i].status = "APPROVED"
    BY StepMoves DEF ExitInv, FullExits, Active, TypeOK, AuthorityNeverWaits
  <1>2. Priority(proposals[i].class) \in Int
    BY <1>1 DEF ExitProposal, ExitProposalClass, Priority
  <1>3. CASE proposals'[i] = proposals[i]
    BY <1>1, <1>2, <1>3
  <1>4. ASSUME NEW S \in SUBSET DOMAIN proposals, Ended(S), i \in S
        PROVE  proposals'[i].status = "SATISFIED_BY_BROKER" /\ position'.quantity = 0
    BY <1>1, <1>4, EndedType DEF Ended, TypeOK
  <1>5. ASSUME NEW S \in SUBSET DOMAIN proposals, Ended(S), i \notin S
        PROVE  proposals'[i] = proposals[i]
    BY <1>1, <1>5, EndedType DEF Ended, TypeOK
  <1>6. ASSUME NEW j \in DOMAIN proposals, NEW class \in ExitProposalClass, Joined(j, class)
        PROVE  \/ proposals'[i] = proposals[i]
               \/ /\ proposals'[i].status = "APPROVED"
                  /\ Priority(proposals'[i].class) >= Priority(proposals[i].class)
    BY <1>1, <1>6, JoinedType, CoalescedType
  <1>7. ASSUME NEW j \in DOMAIN proposals, NEW answer \in ReviewStatus \ {"NONE", "DECIDED"},
               Reviewed(j, answer)
        PROVE  proposals'[i] = proposals[i]
    <2>1. j # i
      BY <1>1, <1>7 DEF Reviewed, Reviewable
    <2>2. QED
      BY <1>1, <1>7, <2>1 DEF Reviewed
  <1>8. ASSUME NEW j \in DOMAIN proposals, NEW decision \in Decision, Decided(j, decision)
        PROVE  \/ proposals'[i] = proposals[i]
               \/ reviews[i] # "DECIDED" /\ reviews'[i] = "DECIDED"
    <2>1. j \in 1..MaxProposals
      BY <1>1, ExitAssumption DEF TypeOK
    <2>2. CASE j = i
      BY <1>1, <1>8, <2>1, <2>2 DEF Decided, TypeOK
    <2>3. CASE j # i
      BY <1>1, <1>8, <2>3 DEF Decided
    <2>4. QED
      BY <2>2, <2>3
  <1>9. ~\E class \in ExitProposalClass, action \in ExitAction : Made(class, action)
    BY <1>1 DEF Made
  <1>10. QED
    BY <1>1, <1>3, <1>4, <1>5, <1>6, <1>7, <1>8, <1>9 DEF Moves

\* THEOREM AuthorityStands states that only the broker's closure or a User's decision takes
\* authority from a full exit: no trigger, snapshot, failure or crash does (AuthorityHolds).
THEOREM AuthorityStands == Spec => AuthorityHolds
  <1>1. ExitInv /\ [Next]_vars => AuthorityKept
    BY StepKeepsAuthority
  <1>2. AuthorityHolds <=> [][AuthorityKept]_vars
    BY DEF AuthorityHolds, AuthorityKept
  <1>3. QED
    BY <1>1, <1>2, ExitAlways, PTL DEF Spec
=============================================================================
