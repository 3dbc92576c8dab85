---------------------------- MODULE ExitExecution ----------------------------
(***************************************************************************)
(* From an approved exit to an order: the request built from it             *)
(* (execution/requests.py), the gate before its deployment (core/manager.py) *)
(* and the position it is about, at the broker and in the database.         *)
(*                                                                          *)
(* The position is managed and its broker is the only one.  An exit may be  *)
(* approved, lose its approval and get it back at any time: ExitMonitor     *)
(* shows when.  An order that was sent may fill bit by bit or end at any    *)
(* time: ExecutionEngine shows what Module M knows of it.                   *)
(***************************************************************************)
EXTENDS Integers, FiniteSets

CONSTANTS
    Proposals,    \* exit proposals
    Actions,      \* what they ask for: see ExitAction
    Quantities    \* the positions that trades outside TradeMonitor leave

ExitAction ==
    [kind: {"EXIT_ALL"}, amount: {0}]
    \cup [kind: {"EXIT_QTY"}, amount: Nat \ {0}]
    \cup [kind: {"EXIT_PERCENT"}, amount: 1..100]

ASSUME ExecutionAssumption ==
    /\ Actions \subseteq ExitAction
    /\ Quantities \subseteq Int

VARIABLES
    actual,       \* the position at the broker, short if negative
    position,     \* the quantity in the position's row
    truth,        \* the broker context
    proposals,    \* the proposals: whether they are approved
    requests,     \* the execution request of each
    undisturbed   \* history: orders sent on a true view, that nothing has interfered with

vars == <<actual, position, truth, proposals, requests, undisturbed>>
------------------------------------------------------------------------------
(* Data. *)

NotMade == [status |-> "NONE"]

Proposal ==
    {NotMade} \cup [status: {"APPROVED", "NOT_APPROVED"}, action: Actions]

OrderSide == {"BUY", "SELL"}

\* left is what the order has not filled; it is 0 once the order has ended.
ExecutionRequest ==
    {NotMade}
    \cup [status: {"READY", "SENT"}, side: OrderSide, quantity: Nat \ {0}, left: Nat]

\* CURRENT: reconciled by this process; RESTORED: by an earlier one; LOST: not reconciled,
\* or not available.
BrokerContext == {"CURRENT", "RESTORED", "LOST"}

TypeOK ==
    /\ actual \in Int
    /\ position \in Int
    /\ truth \in BrokerContext
    /\ proposals \in [Proposals -> Proposal]
    /\ requests \in [Proposals -> ExecutionRequest]
    /\ undisturbed \subseteq Proposals

Abs(n) == IF n < 0 THEN -n ELSE n

\* The side that reduces a position of n.
ExitSide(n) == IF n > 0 THEN "SELL" ELSE "BUY"

\* _exit_quantity; 0 is refused.
ExitQuantity(a, n) ==
    CASE a.kind = "EXIT_ALL" -> Abs(n)
      [] a.kind = "EXIT_QTY" -> IF a.amount <= Abs(n) THEN a.amount ELSE 0
      [] a.kind = "EXIT_PERCENT" -> (Abs(n) * a.amount) \div 100

Approved(p) == proposals[p].status = "APPROVED"

Outstanding == {p \in Proposals : requests[p].status = "SENT" /\ requests[p].left > 0}
------------------------------------------------------------------------------
(* Exits, as ExitMonitor decides them. *)

Approve(p, a) ==
    /\ proposals[p] = NotMade
    /\ position # 0
    /\ proposals' = [proposals EXCEPT ![p] = [status |-> "APPROVED", action |-> a]]
    /\ UNCHANGED <<actual, position, truth, requests, undisturbed>>

\* Superseded, or decided against by the User.
Withdraw(p) ==
    /\ Approved(p)
    /\ proposals' = [proposals EXCEPT ![p].status = "NOT_APPROVED"]
    /\ UNCHANGED <<actual, position, truth, requests, undisturbed>>

\* The User's late decision on a strategic exit.
Reinstate(p) ==
    /\ proposals[p].status = "NOT_APPROVED"
    /\ proposals' = [proposals EXCEPT ![p].status = "APPROVED"]
    /\ UNCHANGED <<actual, position, truth, requests, undisturbed>>
------------------------------------------------------------------------------
(* Broker truth. *)

\* A newer snapshot; a position that is closed satisfies the exits it had.
Reconcile ==
    /\ position' = actual
    /\ truth' = "CURRENT"
    /\ proposals' = [p \in Proposals |->
           IF actual = 0 /\ Approved(p) THEN [proposals[p] EXCEPT !.status = "NOT_APPROVED"]
           ELSE proposals[p]]
    /\ UNCHANGED <<actual, requests, undisturbed>>

\* The process dies once the position is saved.
ReconcileDies ==
    /\ position' = actual
    /\ truth' = IF truth = "CURRENT" THEN "RESTORED" ELSE truth
    /\ UNCHANGED <<actual, proposals, requests, undisturbed>>

\* The snapshot accepted last comes again, say after a restart.
ReconcileReplay ==
    /\ truth = "RESTORED"
    /\ truth' = "CURRENT"
    /\ UNCHANGED <<actual, position, proposals, requests, undisturbed>>

ReconcileFails ==
    /\ truth' = "LOST"
    /\ UNCHANGED <<actual, position, proposals, requests, undisturbed>>

Restart ==
    /\ truth = "CURRENT"
    /\ truth' = "RESTORED"
    /\ UNCHANGED <<actual, position, proposals, requests, undisturbed>>
------------------------------------------------------------------------------
(* Requests. *)

BuildableUnchecked(p) ==
    /\ truth = "CURRENT"
    /\ Approved(p)
    /\ position # 0

Buildable(p) ==
    /\ truth = "CURRENT"
    /\ Approved(p)
    /\ position # 0
    /\ ExitQuantity(proposals[p].action, position) > 0

NewRequest(p) ==
    LET quantity == ExitQuantity(proposals[p].action, position) IN
    [status |-> "READY", side |-> ExitSide(position), quantity |-> quantity, left |-> quantity]

PrepareAnew(p) ==
    /\ Buildable(p)
    /\ requests' = [requests EXCEPT ![p] = NewRequest(p)]
    /\ UNCHANGED <<actual, position, truth, proposals, undisturbed>>

\* prepare_exit_execution_request: the request there is is returned as it is.
Prepare(p) ==
    /\ Buildable(p)
    /\ requests[p] = NotMade
    /\ requests' = [requests EXCEPT ![p] = NewRequest(p)]
    /\ UNCHANGED <<actual, position, truth, proposals, undisturbed>>

GateWithoutQuantity(p) ==
    /\ truth = "CURRENT"
    /\ Approved(p)
    /\ position # 0

\* _assert_exit_execution_authorization_current: the side is not compared.
Gate(p) ==
    /\ truth = "CURRENT"
    /\ Approved(p)
    /\ position # 0
    /\ proposals[p].action.kind = "EXIT_ALL" => requests[p].quantity = Abs(position)
    /\ requests[p].quantity <= Abs(position)

\* No other order is at work, the row is what the broker has, and the position has not
\* changed sides since the request was made.
TrueView(p) ==
    /\ Outstanding = {}
    /\ position = actual
    /\ requests[p].side = ExitSide(actual)

\* deploy_execution_request
Deploy(p) ==
    /\ requests[p].status = "READY"
    /\ Gate(p)
    /\ requests' = [requests EXCEPT ![p].status = "SENT"]
    /\ undisturbed' = IF TrueView(p) THEN {p} ELSE {}
    /\ UNCHANGED <<actual, position, truth, proposals>>
------------------------------------------------------------------------------
(* The broker: its orders fill and end while they are outstanding. *)

Fill(p, k) ==
    /\ requests' = [requests EXCEPT ![p].left = @ - k]
    /\ actual' = IF requests[p].side = "BUY" THEN actual + k ELSE actual - k
    /\ UNCHANGED <<position, truth, proposals, undisturbed>>

\* Rejected, cancelled, or never placed.
OrderEnds(p) ==
    /\ requests' = [requests EXCEPT ![p].left = 0]
    /\ UNCHANGED <<actual, position, truth, proposals, undisturbed>>

\* Somebody trades outside TradeMonitor.
Trade(q) ==
    /\ actual' = q
    /\ undisturbed' = {}
    /\ UNCHANGED <<position, truth, proposals, requests>>
------------------------------------------------------------------------------
Init ==
    /\ actual \in Quantities
    /\ position = actual
    /\ truth = "LOST"
    /\ proposals = [p \in Proposals |-> NotMade]
    /\ requests = [p \in Proposals |-> NotMade]
    /\ undisturbed = {}

BrokerTruth ==
    \/ Reconcile
    \/ ReconcileDies
    \/ ReconcileReplay
    \/ ReconcileFails
    \/ Restart

Exits ==
    \E p \in Proposals :
        \/ \E a \in Actions : Approve(p, a)
        \/ Withdraw(p)
        \/ Reinstate(p)
        \/ Prepare(p)
        \/ Deploy(p)

Broker ==
    \/ \E p \in Outstanding :
          \/ \E k \in 1..requests[p].left : Fill(p, k)
          \/ OrderEnds(p)
    \/ \E q \in Quantities : Trade(q)

Next == BrokerTruth \/ Exits \/ Broker

Spec == Init /\ [][Next]_vars
------------------------------------------------------------------------------
(* Properties. *)

Fills(p) == requests'[p].left < requests[p].left /\ actual' # actual

\* n lies between m and 0.
Between(n, m) == IF m > 0 THEN 0 <= n /\ n <= m ELSE m <= n /\ n <= 0

\* An exit order never opens or adds exposure, as long as it was sent alone and on a true
\* view of the position, for the side it still has, and nobody trades in between: neither
\* restarts, lost or repeated snapshots nor partial fills make it sell more than there is
\* (core/manager.py:1400).  What the code does not guard is in TrueView.
ExitOnlyReduces ==
    [][\A p \in undisturbed : p \in Outstanding /\ Fills(p) => Between(actual', actual)]_vars

\* A proposal is good for one order: once its request was sent, whatever became of the
\* order, no request of the proposal is ready again (execution/requests.py:132).
ExitIsSpentOnce ==
    [][\A p \in Proposals :
          requests[p].status = "SENT" => requests'[p].status = "SENT"]_vars
==============================================================================
