----------------------------- MODULE ExitMonitor -----------------------------
(***************************************************************************)
(* The exit decisions about one broker position: its adoption, the rules    *)
(* that watch it (positions/rules.py), the exit proposals they and the User *)
(* raise (positions/exit.py), the review of strategic exits by Agents and   *)
(* User (positions/review.py), and broker truth arriving in between         *)
(* (core/manager.py, positions/manager.py).                                 *)
(*                                                                          *)
(* Every operation runs under the Core lock, so it is one step; but each of *)
(* its saves is a transaction of its own.  For every operation with several *)
(* saves, an action ending in "Dies" leaves the saves done before a crash,  *)
(* and the process restarted.                                               *)
(***************************************************************************)
EXTENDS Integers, Sequences

CONSTANTS
    Rules,          \* management rules that can be attached to the position
    RuleClass,      \* the class of the exit that each rule raises
    Quantities,     \* quantities the broker may report: long, short, or 0 once closed
    Percents,       \* percentages that an EXIT_PERCENT may ask for
    MaxProposals    \* bound: proposals made in the life of the position

ExitProposalClass == {"STRATEGIC", "DETERMINISTIC", "PROTECTIVE"}

ASSUME ExitAssumption ==
    /\ RuleClass \in [Rules -> ExitProposalClass]
    /\ Quantities \subseteq Int
    /\ 0 \in Quantities
    /\ Percents \subseteq 1..100
    /\ MaxProposals \in Nat \ {0}

VARIABLES
    position,     \* the position's row: broker quantity, authority, management profile
    broker,       \* the broker context
    rules,        \* the status of each management rule
    proposals,    \* the exit proposals, in the order they were made
    reviews,      \* the latest review of each proposal
    demanded      \* history: a full exit with authority was raised for the open exposure

vars == <<position, broker, rules, proposals, reviews, demanded>>
------------------------------------------------------------------------------
(* Data. *)

Position == [quantity: Quantities, managed: BOOLEAN, profile: BOOLEAN]

\* current is runtime_reconciled; known says that a snapshot was accepted at some time.
BrokerContext ==
    [status: {"NOT_RECONCILED", "RECONCILED", "UNAVAILABLE"}, current: BOOLEAN, known: BOOLEAN]

RuleStatus == {"NONE", "ACTIVE", "TRIGGERED", "CANCELLED"}

Abs(n) == IF n < 0 THEN -n ELSE n

ExitAll == [kind |-> "EXIT_ALL", amount |-> 0]
ExitAction ==
    {ExitAll}
    \cup [kind: {"EXIT_QTY"}, amount: {Abs(q) : q \in Quantities \ {0}}]
    \cup [kind: {"EXIT_PERCENT"}, amount: Percents]

Decision == {"APPROVED", "REJECTED", "RETREAT_WAIT"}
ActiveStatus == {"PENDING", "APPROVED"}
ExitProposalStatus == ActiveStatus \cup Decision \cup {"SUPERSEDED", "SATISFIED_BY_BROKER"}

ExitProposal ==
    [class: ExitProposalClass, action: ExitAction, status: ExitProposalStatus]

\* A review answered by the Agents is AGREED (their APPROVE) or DISAGREED; DECIDED is one
\* that carries the User's decision.
ReviewStatus == {"NONE", "PENDING", "FAILED", "AGREED", "DISAGREED", "DECIDED"}

TypeOK ==
    /\ position \in Position
    /\ broker \in BrokerContext
    /\ rules \in [Rules -> RuleStatus]
    /\ proposals \in Seq(ExitProposal)
    /\ Len(proposals) <= MaxProposals
    /\ reviews \in [1..MaxProposals -> ReviewStatus]
    /\ demanded \in BOOLEAN

Open == position.quantity # 0
OpenManaged == Open /\ position.managed
RulesApply == OpenManaged /\ position.profile

Active(ps) == {i \in DOMAIN ps : ps[i].status \in ActiveStatus}
FullExits(ps) == {i \in Active(ps) : ps[i].action = ExitAll}
Authority == ExitProposalClass \ {"STRATEGIC"}

\* The process is gone; the next one has to read broker truth again.
ProcessLost == broker' = [broker EXCEPT !.current = FALSE]
------------------------------------------------------------------------------
(* Broker truth. *)

\* The broker's quantity always wins; TradeMonitor's authority and profile stay.
Reported(q) == [position EXCEPT !.quantity = q]

SatisfiedAsClosed(ps, S) ==
    [i \in DOMAIN ps |-> IF i \in S THEN [ps[i] EXCEPT !.status = "CLOSED"] ELSE ps[i]]

\* The proposals once the broker has confirmed that those of S have nothing left to exit.
Satisfied(ps, S) ==
    [i \in DOMAIN ps |->
        IF i \in S THEN [ps[i] EXCEPT !.status = "SATISFIED_BY_BROKER"] ELSE ps[i]]

ReconcileOnlyAsItCloses(q) ==
    /\ position' = Reported(q)
    /\ broker' = [status |-> "RECONCILED", current |-> TRUE, known |-> TRUE]
    /\ proposals' = IF Open /\ q = 0 THEN Satisfied(proposals, Active(proposals)) ELSE proposals
    /\ demanded' = (demanded /\ q # 0)
    /\ UNCHANGED <<rules, reviews>>

\* A first or newer snapshot shows the position with quantity q.
Reconcile(q) ==
    /\ position' = Reported(q)
    /\ broker' = [status |-> "RECONCILED", current |-> TRUE, known |-> TRUE]
    /\ proposals' = IF q = 0 THEN Satisfied(proposals, Active(proposals)) ELSE proposals
    /\ demanded' = (demanded /\ q # 0)
    /\ UNCHANGED <<rules, reviews>>

\* The position is saved, and the process dies, or the operation raises, before the rest is.
ReconcileDies(q) ==
    /\ position' = Reported(q)
    /\ \/ ProcessLost /\ UNCHANGED proposals
       \/ broker' = [broker EXCEPT !.status = "UNAVAILABLE", !.current = FALSE]
          /\ UNCHANGED proposals
       \/ /\ broker' \in [status: {"RECONCILED", "UNAVAILABLE"}, current: {FALSE}, known: {TRUE}]
          /\ \E S \in SUBSET Active(proposals) :
                proposals' = IF q = 0 THEN Satisfied(proposals, S) ELSE proposals
    /\ demanded' = (demanded /\ q # 0)
    /\ UNCHANGED <<rules, reviews>>

\* The snapshot accepted last comes again: it counts as a check of broker truth, no more.
ReconcileReplay ==
    /\ broker.known
    /\ broker' = [broker EXCEPT !.current = TRUE]
    /\ UNCHANGED <<position, rules, proposals, reviews, demanded>>

ReconcileFails ==
    /\ broker' = [broker EXCEPT !.status = "UNAVAILABLE", !.current = FALSE]
    /\ UNCHANGED <<position, rules, proposals, reviews, demanded>>

Restart ==
    /\ ProcessLost
    /\ UNCHANGED <<position, rules, proposals, reviews, demanded>>
------------------------------------------------------------------------------
(* Adoption and rules. *)

Adopt ==
    /\ broker.current
    /\ Open
    /\ ~position.managed
    /\ position' = [position EXCEPT !.managed = TRUE, !.profile = TRUE]
    /\ UNCHANGED <<broker, rules, proposals, reviews, demanded>>

\* MANAGED is saved, the profile is not.
AdoptDies ==
    /\ broker.current
    /\ Open
    /\ ~position.managed
    /\ position' = [position EXCEPT !.managed = TRUE]
    /\ ProcessLost
    /\ UNCHANGED <<rules, proposals, reviews, demanded>>

AddRule(r) ==
    /\ RulesApply
    /\ rules[r] = "NONE"
    /\ rules' = [rules EXCEPT ![r] = "ACTIVE"]
    /\ UNCHANGED <<position, broker, proposals, reviews, demanded>>

CancelRule(r) ==
    /\ RulesApply
    /\ rules[r] \in {"ACTIVE", "TRIGGERED"}
    /\ rules' = [rules EXCEPT ![r] = "CANCELLED"]
    /\ UNCHANGED <<position, broker, proposals, reviews, demanded>>
------------------------------------------------------------------------------
(* Proposals. *)

Priority(class) ==
    CASE class = "STRATEGIC" -> 1 [] class = "DETERMINISTIC" -> 2 [] class = "PROTECTIVE" -> 3

CoalescedWithoutApproval(p, class) ==
    [p EXCEPT !.class = IF Priority(class) > Priority(p.class) THEN class ELSE p.class]

CoalescedToLatest(p, class) ==
    [p EXCEPT !.class = class, !.status = IF class \in Authority THEN "APPROVED" ELSE @]

\* A further trigger joins the full exit there is and lends it its authority.
Coalesced(p, class) ==
    LET higher == IF Priority(class) > Priority(p.class) THEN class ELSE p.class
    IN  [p EXCEPT !.class = higher,
                  !.status = IF higher \in Authority THEN "APPROVED" ELSE @]

SupersededNone(ps, S) == ps

Superseded(ps, S) ==
    [i \in DOMAIN ps |->
        IF i \in S THEN [ps[i] EXCEPT !.status = "SUPERSEDED"] ELSE ps[i]]

NewProposal(class, action) ==
    [class |-> class, action |-> action,
     status |-> IF class = "STRATEGIC" THEN "PENDING" ELSE "APPROVED"]

\* A full exit there is absorbs every later trigger; a new one supersedes the partial exits.
Raised(ps, class, action) ==
    IF FullExits(ps) # {}
    THEN LET first == CHOOSE i \in FullExits(ps) : \A j \in FullExits(ps) : i <= j
         IN  IF action = ExitAll
             THEN [ps EXCEPT ![first] = Coalesced(@, class)]
             ELSE ps
    ELSE Append(IF action = ExitAll THEN Superseded(ps, Active(ps)) ELSE ps,
                NewProposal(class, action))

RoomToRaise == FullExits(proposals) # {} \/ Len(proposals) < MaxProposals

Valid(action) == action.kind = "EXIT_QTY" => action.amount <= Abs(position.quantity)

ProposeExit(class, action) ==
    /\ OpenManaged
    /\ Valid(action)
    /\ RoomToRaise
    /\ proposals' = Raised(proposals, class, action)
    /\ demanded' = (demanded \/ (class \in Authority /\ action = ExitAll))
    /\ UNCHANGED <<position, broker, rules, reviews>>

\* What a crash can leave of the partial exits that a new full exit supersedes.
PartlySuperseded ==
    {Superseded(proposals, S) :
        S \in IF FullExits(proposals) = {} THEN SUBSET Active(proposals) ELSE {{}}}

ProposeExitDies ==
    /\ OpenManaged
    /\ proposals' \in PartlySuperseded
    /\ ProcessLost
    /\ UNCHANGED <<position, rules, reviews, demanded>>

\* A rule fires once, and raises a full exit of its class.
TriggerRule(r) ==
    /\ RulesApply
    /\ rules[r] = "ACTIVE"
    /\ RoomToRaise
    /\ rules' = [rules EXCEPT ![r] = "TRIGGERED"]
    /\ proposals' = Raised(proposals, RuleClass[r], ExitAll)
    /\ demanded' = (demanded \/ RuleClass[r] \in Authority)
    /\ UNCHANGED <<position, broker, reviews>>

\* TRIGGERED is saved, the proposal is not.
TriggerRuleDies(r) ==
    /\ RulesApply
    /\ rules[r] = "ACTIVE"
    /\ rules' = [rules EXCEPT ![r] = "TRIGGERED"]
    /\ proposals' \in PartlySuperseded
    /\ ProcessLost
    /\ UNCHANGED <<position, reviews, demanded>>
------------------------------------------------------------------------------
(* Review of strategic exits. *)

Reviewable(i) ==
    /\ proposals[i].class = "STRATEGIC"
    /\ proposals[i].status = "PENDING"
    /\ reviews[i] \in {"NONE", "DECIDED"}
    /\ OpenManaged

\* A second review is asked for only after a decision that a crash cut off, and it is the
\* latest unless its time, the Agents' own, is before that of the decision.
Answered(i, answer) ==
    {[reviews EXCEPT ![i] = latest] : latest \in {answer} \cup ({reviews[i]} \cap {"DECIDED"})}

RequestReviewFailsOpen(i, answer) ==
    /\ Reviewable(i)
    /\ reviews' \in Answered(i, answer)
    /\ proposals' = IF answer # "DISAGREED"
                    THEN [proposals EXCEPT ![i].status = "APPROVED"] ELSE proposals
    /\ UNCHANGED <<position, broker, rules, demanded>>

\* The Agents answer at once: they agree, disagree, or fail.
RequestReview(i, answer) ==
    /\ Reviewable(i)
    /\ reviews' \in Answered(i, answer)
    /\ proposals' = IF answer = "AGREED"
                    THEN [proposals EXCEPT ![i].status = "APPROVED"] ELSE proposals
    /\ UNCHANGED <<position, broker, rules, demanded>>

\* The review is saved as asked or as answered, and the proposal is not.
RequestReviewDies(i, answer) ==
    /\ Reviewable(i)
    /\ reviews' \in Answered(i, answer)
    /\ ProcessLost
    /\ UNCHANGED <<position, rules, proposals, demanded>>

\* The User settles any review that the Agents have not agreed to, whatever the proposal
\* has become since.
UserDecides(i, decision) ==
    /\ reviews[i] \in {"PENDING", "FAILED", "DISAGREED"}
    /\ reviews' = [reviews EXCEPT ![i] = "DECIDED"]
    /\ proposals' = [proposals EXCEPT ![i].status = decision]
    /\ UNCHANGED <<position, broker, rules, demanded>>

\* The decision is saved in the review, the proposal is not.
UserDecidesDies(i) ==
    /\ reviews[i] \in {"PENDING", "FAILED", "DISAGREED"}
    /\ reviews' = [reviews EXCEPT ![i] = "DECIDED"]
    /\ ProcessLost
    /\ UNCHANGED <<position, rules, proposals, demanded>>
------------------------------------------------------------------------------
Init ==
    /\ position = [quantity |-> 0, managed |-> FALSE, profile |-> FALSE]
    /\ broker = [status |-> "NOT_RECONCILED", current |-> FALSE, known |-> FALSE]
    /\ rules = [r \in Rules |-> "NONE"]
    /\ proposals = <<>>
    /\ reviews = [i \in 1..MaxProposals |-> "NONE"]
    /\ demanded = FALSE

BrokerTruth ==
    \/ \E q \in Quantities : Reconcile(q) \/ ReconcileDies(q)
    \/ ReconcileReplay \/ ReconcileFails

Management ==
    \/ Adopt \/ AdoptDies
    \/ \E r \in Rules : AddRule(r) \/ CancelRule(r) \/ TriggerRule(r) \/ TriggerRuleDies(r)

Proposing ==
    \/ \E class \in ExitProposalClass, action \in ExitAction : ProposeExit(class, action)
    \/ ProposeExitDies

Reviewing ==
    \E i \in DOMAIN proposals :
        \/ \E answer \in {"AGREED", "DISAGREED", "FAILED"} : RequestReview(i, answer)
        \/ \E answer \in {"PENDING", "AGREED"} : RequestReviewDies(i, answer)
        \/ \E decision \in Decision : UserDecides(i, decision)
        \/ UserDecidesDies(i)

Next == BrokerTruth \/ Management \/ Proposing \/ Reviewing \/ Restart

Spec == Init /\ [][Next]_vars
------------------------------------------------------------------------------
(* Safety. *)

\* No protective or deterministic exit waits for Agents or User: while it is active it is
\* approved, also when it began as a strategic exit under review
\* (docs/SAFETY_INVARIANTS.md, "TM3/TGT4 Exit-review invariants").
AuthorityNeverWaits ==
    \A i \in Active(proposals) :
        proposals[i].class \in Authority => proposals[i].status = "APPROVED"

\* A strategic exit is approved only by an Agents' or a User's decision that is on record,
\* so neither a failed review nor a crash ever amounts to one.
ApprovalIsOnRecord ==
    \A i \in DOMAIN proposals :
        proposals[i].class = "STRATEGIC" /\ proposals[i].status = "APPROVED"
            => reviews[i] \in {"AGREED", "DECIDED"}

\* The exits that nobody's late decision has reopened make one path: one full exit, or
\* partial exits only.
OneExitPath ==
    LET undecided == {i \in Active(proposals) : reviews[i] # "DECIDED"}
    IN  \A i, j \in undecided : proposals[i].action = ExitAll => i = j

\* A full exit with authority keeps it until the broker confirms the position closed or the
\* User decides its review: no trigger, failure or restart takes it back.
AuthorityHolds ==
    [][\A i \in FullExits(proposals) : proposals[i].class \in Authority =>
          \/ /\ proposals'[i].status = "APPROVED"
             /\ Priority(proposals'[i].class) >= Priority(proposals[i].class)
          \/ proposals'[i].status = "SATISFIED_BY_BROKER" /\ position'.quantity = 0
          \/ reviews[i] # "DECIDED" /\ reviews'[i] = "DECIDED"]_vars

\* Once a protective or deterministic full exit is raised, an approved full exit stands until
\* the position is closed (docs/TM3_TGT4_ACCEPTANCE.md, "promotes an existing lower-authority
\* strategic full-exit path so safety cannot remain blocked behind Agent/User review").
TriggerIsNotBlocked ==
    demanded /\ Open => \E i \in FullExits(proposals) : proposals[i].status = "APPROVED"

\* All full-exit triggers of the position converge on one active full exit
\* (docs/SAFETY_INVARIANTS.md, "coalesced into one pending full-exit path").
FullExitsConverge == \A i, j \in FullExits(proposals) : i = j
------------------------------------------------------------------------------
(* Liveness. *)

\* The caller keeps reading broker truth, and some reads succeed.
FairSpec == Spec /\ WF_vars(\E q \in Quantities : Reconcile(q))

\* No exit stays active for a position the broker has closed, wherever the process died.
ClosureEndsExits ==
    ~Open /\ Active(proposals) # {} ~> Open \/ Active(proposals) = {}
==============================================================================
