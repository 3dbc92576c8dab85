------------------------- MODULE ExitExecutionProofs -------------------------
(***************************************************************************)
(* Theorems about ExitExecution, for any proposals, actions and positions.  *)
(* SoundOrders is inductive with TypeOK: a request that is ready has all of *)
(* its quantity left, and an undisturbed order is the only one at work and  *)
(* has no more left than the position has, on the side that reduces it.     *)
(***************************************************************************)
EXTENDS ExitExecution, TLAPS

ReadyIsWhole ==
    \A p \in Proposals : requests[p].status = "READY" => requests[p].left = requests[p].quantity

Covered(p) ==
    /\ requests[p].status = "SENT"
    /\ Outstanding \subseteq {p}
    /\ requests[p].left > 0 =>
          requests[p].left <= Abs(actual) /\ requests[p].side = ExitSide(actual)

SoundOrders == ReadyIsWhole /\ \A p \in undisturbed : Covered(p)

\* _exit_quantity gives a natural number.
LEMMA QuantityIsNat ==
    ASSUME NEW a \in ExitAction, NEW n \in Int
    PROVE  ExitQuantity(a, n) \in Nat
<1>1. Abs(n) \in Nat
  BY DEF Abs
<1>2. CASE a.kind = "EXIT_ALL"
  BY <1>1, <1>2 DEF ExitQuantity
<1>3. CASE a.kind = "EXIT_QTY"
  BY <1>1, <1>3 DEF ExitQuantity, ExitAction
<1>4. CASE a.kind = "EXIT_PERCENT"
  <2>1. a.amount \in 1..100
    BY <1>4 DEF ExitAction
  <2>2. Abs(n) * a.amount \in Nat
    BY <1>1, <2>1
  <2>3. (Abs(n) * a.amount) \div 100 \in Nat
    BY <2>2
  <2> QED
    BY <1>4, <2>3 DEF ExitQuantity
<1> QED
  BY <1>2, <1>3, <1>4 DEF ExitAction

\* A new request is well typed, and all of it is left.
LEMMA NewRequestType ==
    ASSUME TypeOK, NEW p \in Proposals, Buildable(p)
    PROVE  NewRequest(p) \in ExecutionRequest /\ NewRequest(p).left = NewRequest(p).quantity
<1>1. proposals[p].action \in ExitAction
  BY ExecutionAssumption DEF TypeOK, Buildable, Approved, Proposal, NotMade
<1>2. ExitQuantity(proposals[p].action, position) \in Nat \ {0}
  BY <1>1, QuantityIsNat DEF TypeOK, Buildable
<1>3. ExitSide(position) \in OrderSide
  BY DEF ExitSide, OrderSide
<1> QED
  BY <1>2, <1>3 DEF NewRequest, ExecutionRequest

\* What an order that is at work looks like.
LEMMA OutstandingOrder ==
    ASSUME TypeOK, NEW p \in Outstanding
    PROVE  /\ p \in Proposals
           /\ requests[p] \in [status: {"READY", "SENT"}, side: OrderSide,
                               quantity: Nat \ {0}, left: Nat]
           /\ requests[p].status = "SENT"
           /\ requests[p].left > 0
BY DEF TypeOK, Outstanding, ExecutionRequest, NotMade

\* What each kind of step does to the proposals.
LEMMA ProposalSteps ==
    ASSUME TypeOK, NEW p \in Proposals
    PROVE  /\ \A a \in Actions :
                [proposals EXCEPT ![p] = [status |-> "APPROVED", action |-> a]]
                    \in [Proposals -> Proposal]
           /\ proposals[p] # NotMade =>
                /\ [proposals[p] EXCEPT !.status = "NOT_APPROVED"] \in Proposal
                /\ [proposals[p] EXCEPT !.status = "APPROVED"] \in Proposal
<1>1. proposals \in [Proposals -> Proposal]
  BY DEF TypeOK
<1>2. \A a \in Actions : [status |-> "APPROVED", action |-> a] \in Proposal
  BY DEF Proposal
<1> QED
  BY <1>1, <1>2 DEF Proposal, NotMade

\* Every reachable state is well typed.
LEMMA TypeInductive ==
    ASSUME TypeOK, [Next]_vars
    PROVE  TypeOK'
<1>1. CASE Reconcile
  <2>1. ASSUME NEW p \in Proposals
        PROVE  (IF actual = 0 /\ Approved(p)
                THEN [proposals[p] EXCEPT !.status = "NOT_APPROVED"]
                ELSE proposals[p]) \in Proposal
    <3>1. Approved(p) => proposals[p] # NotMade
      BY DEF Approved, NotMade
    <3>2. proposals[p] \in Proposal
      BY DEF TypeOK
    <3>3. CASE actual = 0 /\ Approved(p)
      BY <3>1, <3>3, ProposalSteps
    <3>4. CASE ~(actual = 0 /\ Approved(p))
      BY <3>2, <3>4
    <3> QED
      BY <3>3, <3>4
  <2>2. proposals' \in [Proposals -> Proposal]
    BY <1>1, <2>1 DEF Reconcile
  <2> QED
    BY <1>1, <2>2 DEF TypeOK, Reconcile, BrokerContext
<1>2. CASE ReconcileDies \/ ReconcileReplay \/ ReconcileFails \/ Restart
  BY <1>2 DEF TypeOK, ReconcileDies, ReconcileReplay, ReconcileFails, Restart, BrokerContext
<1>3. ASSUME NEW p \in Proposals, NEW a \in Actions, Approve(p, a) PROVE TypeOK'
  BY <1>3, ProposalSteps DEF TypeOK, Approve
<1>4. ASSUME NEW p \in Proposals, Withdraw(p) \/ Reinstate(p) PROVE TypeOK'
  <2>1. proposals[p] # NotMade
    BY <1>4 DEF Withdraw, Reinstate, Approved, NotMade
  <2>2. proposals' \in [Proposals -> Proposal]
    BY <1>4, <2>1, ProposalSteps DEF TypeOK, Withdraw, Reinstate
  <2> QED
    BY <1>4, <2>2 DEF TypeOK, Withdraw, Reinstate
<1>5. ASSUME NEW p \in Proposals, Prepare(p) PROVE TypeOK'
  BY <1>5, NewRequestType DEF TypeOK, Prepare
<1>6. ASSUME NEW p \in Proposals, Deploy(p) PROVE TypeOK'
  <2>1. [requests[p] EXCEPT !.status = "SENT"] \in ExecutionRequest
    BY <1>6 DEF TypeOK, Deploy, ExecutionRequest, NotMade
  <2>2. requests' \in [Proposals -> ExecutionRequest]
    BY <1>6, <2>1 DEF TypeOK, Deploy
  <2> QED
    BY <1>6, <2>2 DEF TypeOK, Deploy
<1>7. ASSUME NEW p \in Outstanding, NEW k \in 1..requests[p].left, Fill(p, k) PROVE TypeOK'
  <2>1. [requests[p] EXCEPT !.left = @ - k] \in ExecutionRequest
    BY OutstandingOrder DEF ExecutionRequest
  <2>2. requests' \in [Proposals -> ExecutionRequest]
    BY <1>7, <2>1 DEF TypeOK, Fill
  <2> QED
    BY <1>7, <2>2, OutstandingOrder DEF TypeOK, Fill
<1>8. ASSUME NEW p \in Outstanding, OrderEnds(p) PROVE TypeOK'
  <2>1. [requests[p] EXCEPT !.left = 0] \in ExecutionRequest
    BY OutstandingOrder DEF ExecutionRequest
  <2> QED
    BY <1>8, <2>1 DEF TypeOK, OrderEnds
<1>9. ASSUME NEW q \in Quantities, Trade(q) PROVE TypeOK'
  BY <1>9, ExecutionAssumption DEF TypeOK, Trade
<1>10. CASE UNCHANGED vars
  BY <1>10 DEF TypeOK, vars
<1> QED
  BY <1>1, <1>2, <1>3, <1>4, <1>5, <1>6, <1>7, <1>8, <1>9, <1>10
     DEF Next, BrokerTruth, Exits, Broker

\* An order that was sent stays the only one at work, and never has more left than the
\* position has.
LEMMA OrdersInductive ==
    ASSUME TypeOK, SoundOrders, [Next]_vars
    PROVE  SoundOrders'
<1> USE DEF SoundOrders
<1>1. CASE UNCHANGED <<actual, requests, undisturbed>>
  BY <1>1 DEF ReadyIsWhole, Covered, Outstanding
<1>2. ASSUME NEW p \in Proposals, Prepare(p) PROVE SoundOrders'
  <2>1. ReadyIsWhole'
    BY <1>2, NewRequestType DEF TypeOK, Prepare, ReadyIsWhole
  <2>2. /\ requests[p].status = "NONE"
        /\ requests'[p].status = "READY"
        /\ \A q \in Proposals \ {p} : requests'[q] = requests[q]
    BY <1>2 DEF TypeOK, Prepare, NotMade, NewRequest
  <2>3. Outstanding' = Outstanding
    BY <2>2 DEF Outstanding
  <2>4. ASSUME NEW q \in undisturbed' PROVE Covered(q)'
    BY <1>2, <2>2, <2>3, <2>4 DEF TypeOK, Prepare, Covered
  <2> QED
    BY <2>1, <2>4
<1>3. ASSUME NEW p \in Proposals, Deploy(p) PROVE SoundOrders'
  <2>1. /\ requests[p] \in [status: {"READY", "SENT"}, side: OrderSide,
                            quantity: Nat \ {0}, left: Nat]
        /\ requests'[p] = [requests[p] EXCEPT !.status = "SENT"]
        /\ \A q \in Proposals \ {p} : requests'[q] = requests[q]
        /\ actual' = actual
    BY <1>3 DEF TypeOK, Deploy, ExecutionRequest, NotMade
  <2>2. ReadyIsWhole'
    BY <2>1 DEF ReadyIsWhole
  <2>3. ASSUME TrueView(p) PROVE Covered(p)'
    <3>1. Outstanding' \subseteq {p}
      BY <2>1, <2>3 DEF TrueView, Outstanding
    <3>2. requests[p].left <= Abs(actual) /\ requests[p].side = ExitSide(actual)
      BY <1>3, <2>3 DEF Deploy, Gate, TrueView, ReadyIsWhole
    <3> QED
      BY <2>1, <3>1, <3>2 DEF Covered, Abs, ExitSide
  <2>4. \A q \in undisturbed' : q = p /\ TrueView(p)
    BY <1>3 DEF Deploy
  <2> QED
    BY <2>2, <2>3, <2>4
<1>4. ASSUME NEW p \in Outstanding, NEW k \in 1..requests[p].left, Fill(p, k)
      PROVE  SoundOrders'
  <2>1. /\ p \in Proposals
        /\ requests[p].left \in Nat /\ requests[p].side \in OrderSide
        /\ requests'[p] = [requests[p] EXCEPT !.left = @ - k]
        /\ requests'[p].status = "SENT" /\ requests'[p].side = requests[p].side
        /\ requests'[p].left = requests[p].left - k
        /\ \A q \in Proposals \ {p} : requests'[q] = requests[q]
    BY <1>4, OutstandingOrder DEF TypeOK, Fill
  <2>2. Outstanding' \subseteq Outstanding
    BY <1>4, <2>1 DEF Outstanding
  <2>3. ReadyIsWhole'
    BY <2>1 DEF ReadyIsWhole
  <2>4. ASSUME NEW q \in undisturbed' PROVE Covered(q)'
    <3>1. q \in undisturbed /\ Covered(q)
      BY <1>4, <2>4 DEF Fill
    <3>2. q = p
      BY <1>4, <3>1 DEF Covered
    <3>3. requests[p].left <= Abs(actual) /\ requests[p].side = ExitSide(actual)
      BY <3>1, <3>2, OutstandingOrder DEF Covered
    <3>4. /\ actual \in Int
          /\ k \in 1..requests[p].left
          /\ actual' = IF requests[p].side = "BUY" THEN actual + k ELSE actual - k
      BY <1>4 DEF TypeOK, Fill
    <3>5. requests'[p].left > 0 =>
             requests'[p].left <= Abs(actual') /\ requests'[p].side = ExitSide(actual')
      BY <2>1, <3>3, <3>4 DEF Abs, ExitSide
    <3> QED
      BY <2>1, <2>2, <3>1, <3>2, <3>5 DEF Covered, Abs, ExitSide
  <2> QED
    BY <2>3, <2>4
<1>5. ASSUME NEW p \in Outstanding, OrderEnds(p) PROVE SoundOrders'
  <2>1. /\ p \in Proposals
        /\ requests'[p].status = "SENT" /\ requests'[p].left = 0
        /\ \A q \in Proposals \ {p} : requests'[q] = requests[q]
        /\ actual' = actual /\ undisturbed' = undisturbed
    BY <1>5, OutstandingOrder DEF TypeOK, OrderEnds
  <2>2. Outstanding' \subseteq Outstanding
    BY <2>1 DEF Outstanding
  <2> QED
    BY <2>1, <2>2 DEF TypeOK, ReadyIsWhole, Covered, Abs, ExitSide
<1>6. ASSUME NEW q \in Quantities, Trade(q) PROVE SoundOrders'
  BY <1>6 DEF Trade, ReadyIsWhole
<1> QED
  BY <1>1, <1>2, <1>3, <1>4, <1>5, <1>6
     DEF Next, vars, BrokerTruth, Reconcile, ReconcileDies, ReconcileReplay, ReconcileFails,
         Restart, Exits, Approve, Withdraw, Reinstate, Broker

LEMMA InitialState == Init => TypeOK /\ SoundOrders
BY ExecutionAssumption
   DEF Init, TypeOK, SoundOrders, ReadyIsWhole, Proposal, ExecutionRequest, NotMade,
       BrokerContext

\* The type invariant of ExitExecution holds in every reachable state.
THEOREM TypeCorrect == Spec => []TypeOK
<1> QED
  BY InitialState, TypeInductive, PTL DEF Spec

LEMMA OrdersAlways == Spec => [](TypeOK /\ SoundOrders)
<1>1. TypeOK /\ SoundOrders /\ [Next]_vars => TypeOK' /\ SoundOrders'
  BY TypeInductive, OrdersInductive
<1> QED
  BY <1>1, InitialState, PTL DEF Spec

\* An exit order that was sent alone and on a true view never opens or adds exposure: each
\* of its fills leaves a position between the one before and none.
THEOREM ExitsReduce == Spec => ExitOnlyReduces
<1> DEFINE Reduces ==
        \A p \in undisturbed : p \in Outstanding /\ Fills(p) => Between(actual', actual)
<1>1. ASSUME TypeOK, SoundOrders, Next, NEW p \in undisturbed, p \in Outstanding, Fills(p)
      PROVE  Between(actual', actual)
  <2>1. requests[p].left <= Abs(actual) /\ requests[p].side = ExitSide(actual)
    <3>1. Covered(p)
      BY <1>1 DEF SoundOrders
    <3>2. requests[p].left > 0
      BY <1>1 DEF Outstanding
    <3> QED
      BY <3>1, <3>2 DEF Covered
  <2>2. requests' # requests /\ actual' # actual
    <3>1. requests[p].left \in Nat
      BY <1>1, OutstandingOrder
    <3> QED
      BY <1>1, <3>1 DEF Fills
  <2>3. PICK q \in Outstanding : \E k \in 1..requests[q].left : Fill(q, k)
    BY <1>1, <2>2
       DEF Next, BrokerTruth, Reconcile, ReconcileDies, ReconcileReplay, ReconcileFails,
           Restart, Exits, Approve, Withdraw, Reinstate, Prepare, Deploy, Broker, OrderEnds,
           Trade
  <2>4. q = p
    BY <1>1, <2>3 DEF SoundOrders, Covered
  <2>5. PICK k \in 1..requests[p].left : Fill(p, k)
    BY <2>3, <2>4
  <2>6. /\ actual \in Int /\ requests[p].left \in Nat
        /\ actual' = IF requests[p].side = "BUY" THEN actual + k ELSE actual - k
    BY <1>1, <2>5, OutstandingOrder DEF TypeOK, Fill
  <2> QED
    BY <2>1, <2>6 DEF Between, Abs, ExitSide
<1>2. TypeOK /\ SoundOrders /\ [Next]_vars => [Reduces]_vars
  BY <1>1
<1>3. Spec => [][Reduces]_vars
  <2> HIDE DEF Reduces
  <2> QED
    BY <1>2, OrdersAlways, PTL DEF Spec
<1> QED
  BY <1>3 DEF ExitOnlyReduces

\* A proposal is good for one order: a request that was sent stays so.
THEOREM SpentOnce == Spec => ExitIsSpentOnce
<1> DEFINE Spent ==
        \A p \in Proposals : requests[p].status = "SENT" => requests'[p].status = "SENT"
<1>1. ASSUME TypeOK, [Next]_vars PROVE Spent
  <2>1. CASE UNCHANGED requests
    BY <2>1
  <2>2. ASSUME NEW p \in Proposals, Prepare(p) PROVE Spent
    BY <1>1, <2>2 DEF TypeOK, Prepare, NotMade
  <2>3. ASSUME NEW p \in Proposals, Deploy(p) PROVE Spent
    BY <1>1, <2>3 DEF TypeOK, Deploy
  <2>4. ASSUME NEW p \in Outstanding, NEW k \in 1..requests[p].left, Fill(p, k) PROVE Spent
    BY <1>1, <2>4, OutstandingOrder DEF TypeOK, Fill
  <2>5. ASSUME NEW p \in Outstanding, OrderEnds(p) PROVE Spent
    BY <1>1, <2>5, OutstandingOrder DEF TypeOK, OrderEnds
  <2> QED
    BY <1>1, <2>1, <2>2, <2>3, <2>4, <2>5
       DEF Next, vars, BrokerTruth, Reconcile, ReconcileDies, ReconcileReplay, ReconcileFails,
           Restart, Exits, Approve, Withdraw, Reinstate, Broker, Trade
<1>2. TypeOK /\ [Next]_vars => Spent
  BY <1>1
<1>3. Spec => [][Spent]_vars
  <2> HIDE DEF Spent
  <2> QED
    BY <1>2, TypeCorrect, PTL DEF Spec
<1> QED
  BY <1>3 DEF ExitIsSpentOnce
==============================================================================
