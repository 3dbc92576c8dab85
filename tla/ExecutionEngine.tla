--------------------------- MODULE ExecutionEngine ---------------------------
(***************************************************************************)
(* Module M of TradeMonitor (execution/engine.py): the one component that   *)
(* hands a durable ExecutionRequest to a broker and brings the broker's     *)
(* order truth back.  The operations run under the Core lock, one at a      *)
(* time, but each saves to SQLite in its own transaction and calls a remote *)
(* broker in between, so the process may die between two saves, the broker  *)
(* may act between the call and the save, and an answer may be lost, late   *)
(* or older than what is already stored.                                    *)
(*                                                                          *)
(* The broker is the live adapter of brokers/zerodha.py with the faults of  *)
(* brokers/execution_simulator.py: placing an order twice makes two orders. *)
(* The two differ in the time an answer carries: the simulator's is the     *)
(* time its state was published, the live adapter's the time of the reading *)
(* (zerodha.py:257, :314), so that a late state read live looks new.        *)
(* A call that raises before it changes anything (unknown request, wrong    *)
(* adapter, unresolved instrument, cancel without an order id) is no step.  *)
(***************************************************************************)
EXTENDS Naturals, Sequences

CONSTANTS
    Requests,     \* durable execution requests; a request is its own idempotency key
    OrderIds,     \* identifiers the broker can give to the orders it accepts
    NoRequest,    \* the client of an order id not in use; also a tag that names no request
    NoOrder,      \* broker_order_id is None
    Adapters,     \* what a request's broker may be: the live adapter, the simulator, or either
    Quantity,     \* the quantity each request orders
    MaxTruths     \* bound: states the broker itself publishes for one order

ASSUME EngineAssumption ==
    /\ NoRequest \notin Requests
    /\ NoOrder \notin OrderIds
    /\ Adapters \subseteq {"live", "simulated"}
    /\ Quantity \in Nat \ {0}
    /\ MaxTruths \in Nat \ {0}

VARIABLES
    request,      \* the execution_requests table
    client,       \* broker: the request each order was placed for
    truths,       \* broker: the successive states of each order, latest last
    call,         \* the operation in progress, lost in a crash
    wire,         \* placements on their way to the broker
    adapter       \* the adapter's cache from order id to client id, lost in a crash

vars == <<request, client, truths, call, wire, adapter>>
------------------------------------------------------------------------------
(* Data. *)

FinalStatus == {"FILLED", "REJECTED", "CANCELLED"}
BrokerStatus == {"ACKNOWLEDGED", "PARTIALLY_FILLED", "UNKNOWN"} \cup FinalStatus
RequestStatus ==
    {"READY", "SUBMITTING", "SUBMITTED", "PARTIALLY_FILLED", "UNCERTAIN"} \cup FinalStatus

\* last_broker_observed_at: time counts the order's published states; 0 is None.
ExecutionRequest ==
    [broker: Adapters, status: RequestStatus, order: OrderIds \cup {NoOrder},
     filled: 0..Quantity, observed: Nat]

\* What the broker knows of an order; asOrdered says its quantity is still the request's.
Truth == [status: BrokerStatus, filled: 0..Quantity, asOrdered: BOOLEAN]

BrokerOrderSnapshot ==
    [order: OrderIds, client: Requests \cup {NoRequest}, status: BrokerStatus,
     filled: 0..Quantity, asOrdered: BOOLEAN, observed: Nat]

Call == [at: {"idle"}]
        \cup [at: {"submit", "waiting", "lost"}, of: Requests]
        \cup [at: {"cancelling"}, of: Requests, order: OrderIds]
        \cup [at: {"submitted", "cancelled"}, of: Requests, reply: BrokerOrderSnapshot]

Idle == [at |-> "idle"]

TypeOK ==
    /\ request \in [Requests -> ExecutionRequest]
    /\ client \in [OrderIds -> Requests \cup {NoRequest}]
    /\ truths \in [OrderIds -> Seq(Truth)]
    /\ call \in Call
    /\ wire \in SUBSET Requests
    /\ adapter \in SUBSET OrderIds
------------------------------------------------------------------------------
(* The broker. *)

Current(o) == truths[o][Len(truths[o])]
OrdersOf(r) == {o \in OrderIds : client[o] = r}

Sound(t) ==
    /\ t.status \in {"ACKNOWLEDGED", "REJECTED"} => t.filled = 0
    /\ t.status = "PARTIALLY_FILLED" => t.filled \in 1..(Quantity - 1)
    /\ t.status = "FILLED" => t.filled = Quantity
    /\ t.status = "CANCELLED" => t.filled < Quantity

\* The states an order accepted just now may be in.
FirstTruths == {t \in Truth : Sound(t) /\ t.asOrdered}

\* Fills only accumulate, a final state stays, an order can be amended at the broker.
NextTruths(t) ==
    IF t.status \in FinalStatus THEN {}
    ELSE {u \in Truth : /\ Sound(u)
                        /\ u # t
                        /\ u.filled >= t.filled
                        /\ u.asOrdered => t.asOrdered}

\* The time an answer with the order's state i carries: the simulator's is the state's own,
\* the live adapter's that of the reading, whatever state it was served.
ObservedAt(o, i) == IF request[client[o]].broker = "simulated" THEN i ELSE Len(truths[o])

Snapshot(o, i, c) ==
    [order |-> o, client |-> c, status |-> truths[o][i].status, filled |-> truths[o][i].filled,
     asOrdered |-> truths[o][i].asOrdered, observed |-> ObservedAt(o, i)]

\* What fetch_order_by_client_id may answer: a lagging read serves an earlier state.
ReadByClient(r) ==
    UNION {{Snapshot(o, i, r) : i \in DOMAIN truths[o]} : o \in OrdersOf(r)}

\* What fetch_order may answer: without its cache the adapter only has the hashed tag.
ReadByOrder(o) ==
    {Snapshot(o, i, IF o \in adapter THEN client[o] ELSE NoRequest) : i \in DOMAIN truths[o]}

\* place_order: each placement that arrives makes an order under a fresh id.
BrokerAccepts(r) ==
    /\ r \in wire
    /\ wire' = wire \ {r}
    /\ \E o \in OrderIds, t \in FirstTruths :
          /\ client[o] = NoRequest
          /\ client' = [client EXCEPT ![o] = r]
          /\ truths' = [truths EXCEPT ![o] = <<t>>]
    /\ UNCHANGED <<request, call, adapter>>

\* The placement never arrives.
PlacementLost(r) ==
    /\ r \in wire
    /\ wire' = wire \ {r}
    /\ UNCHANGED <<request, client, truths, call, adapter>>

\* The order moves at the broker: fills, rejection, cancellation or amendment there.
BrokerMoves(o) ==
    /\ truths[o] # <<>>
    /\ Len(truths[o]) < MaxTruths
    /\ \E t \in NextTruths(Current(o)) : truths' = [truths EXCEPT ![o] = Append(@, t)]
    /\ UNCHANGED <<request, client, call, wire, adapter>>
------------------------------------------------------------------------------
(* Accepting broker truth. *)

AsRequestStatusUnmapped(s) == s

\* The status table of _apply_broker_truth.
AsRequestStatus(s) ==
    CASE s = "ACKNOWLEDGED" -> "SUBMITTED"
      [] s = "UNKNOWN" -> "UNCERTAIN"
      [] OTHER -> s

StaleNever(r, snap) == FALSE

\* Truth observed before what is stored already; an equal time is not stale.
Stale(r, snap) == request[r].observed # 0 /\ snap.observed < request[r].observed

\* The identity checks of _apply_broker_truth, which raises unless they hold.
Correlates(r, snap) == snap.client = r /\ snap.asOrdered

ApplyBrokerTruth(r, snap) ==
    request' = [request EXCEPT ![r] =
                  [broker |-> request[r].broker, status |-> AsRequestStatus(snap.status),
                   order |-> snap.order, filled |-> snap.filled, observed |-> snap.observed]]

\* Ignore stale truth, refuse truth of another order, store the rest.
AcceptBrokerTruth(r, snap) ==
    IF Stale(r, snap) \/ ~Correlates(r, snap)
    THEN UNCHANGED request
    ELSE ApplyBrokerTruth(r, snap)

BecomeUncertain(r) == request' = [request EXCEPT ![r].status = "UNCERTAIN"]
------------------------------------------------------------------------------
(* reconcile *)

ReconcilableExceptSubmitting(r) ==
    request[r].status \notin FinalStatus \cup {"SUBMITTING"}

ReconcilableAlways(r) == TRUE

\* A request in a final state is returned as it is.
Reconcilable(r) == request[r].status \notin FinalStatus

\* The broker knows the request's order by its client id.
ReconcileByClient(r, snap) ==
    /\ call = Idle
    /\ Reconcilable(r)
    /\ adapter' = adapter \cup {snap.order}
    /\ AcceptBrokerTruth(r, snap)
    /\ UNCHANGED <<client, truths, call, wire>>

\* The order is not visible by client id, and its stored order id finds it.
ReconcileByOrder(r) ==
    /\ call = Idle
    /\ Reconcilable(r)
    /\ request[r].order # NoOrder
    /\ \E snap \in ReadByOrder(request[r].order) : AcceptBrokerTruth(r, snap)
    /\ UNCHANGED <<client, truths, call, wire, adapter>>

ReconcileUnresolvedAsCancelled(r) ==
    /\ call = Idle
    /\ Reconcilable(r)
    /\ request' = [request EXCEPT ![r].status = "CANCELLED"]
    /\ UNCHANGED <<client, truths, call, wire, adapter>>

\* The broker raises, or finds no order: the outcome stays open.
ReconcileUnresolved(r) ==
    /\ call = Idle
    /\ Reconcilable(r)
    /\ BecomeUncertain(r)
    /\ UNCHANGED <<client, truths, call, wire, adapter>>

Reconcile(r) ==
    \/ \E snap \in ReadByClient(r) : ReconcileByClient(r, snap)
    \/ ReconcileByOrder(r)
    \/ ReconcileUnresolved(r)
------------------------------------------------------------------------------
(* deploy *)

StartSubmissionAgain(r) ==
    /\ call = Idle
    /\ request[r].status \in {"READY", "UNCERTAIN"}
    /\ request' = [request EXCEPT ![r].status = "SUBMITTING"]
    /\ call' = [at |-> "submit", of |-> r]
    /\ UNCHANGED <<client, truths, wire, adapter>>

StartSubmissionUnsaved(r) ==
    /\ call = Idle
    /\ request[r].status = "READY"
    /\ call' = [at |-> "submit", of |-> r]
    /\ UNCHANGED <<request, client, truths, wire, adapter>>

\* SUBMITTING is durable before the broker is called.
StartSubmission(r) ==
    /\ call = Idle
    /\ request[r].status = "READY"
    /\ request' = [request EXCEPT ![r].status = "SUBMITTING"]
    /\ call' = [at |-> "submit", of |-> r]
    /\ UNCHANGED <<client, truths, wire, adapter>>

Deploy(r) ==
    \/ StartSubmission(r)
    \/ request[r].status # "READY" /\ Reconcile(r)

\* broker.submit_order: the order leaves for the broker.
SendOrder ==
    /\ call.at = "submit"
    /\ wire' = wire \cup {call.of}
    /\ call' = [at |-> "waiting", of |-> call.of]
    /\ UNCHANGED <<request, client, truths, adapter>>

\* The adapter's answer when the new order is not readable yet.
Acknowledgement(o, r) ==
    [order |-> o, client |-> r, status |-> "ACKNOWLEDGED", filled |-> 0,
     asOrdered |-> TRUE, observed |-> ObservedAt(o, 1)]

\* The order id comes back, and the order's state or a bare acknowledgement with it.
SubmitAnswered ==
    /\ call.at = "waiting"
    /\ \E o \in OrdersOf(call.of) :
          /\ adapter' = adapter \cup {o}
          /\ \E snap \in {Snapshot(o, i, call.of) : i \in DOMAIN truths[o]}
                         \cup {Acknowledgement(o, call.of)} :
                call' = [at |-> "submitted", of |-> call.of, reply |-> snap]
    /\ UNCHANGED <<request, client, truths, wire>>

\* The call raises: the order may exist, may never, or may still be on its way.
SubmitFails ==
    /\ call.at = "waiting"
    /\ call' = [at |-> "lost", of |-> call.of]
    /\ adapter' \in {adapter} \cup {adapter \cup {o} : o \in OrdersOf(call.of)}
    /\ UNCHANGED <<request, client, truths, wire>>

SaveSubmitReply ==
    /\ call.at = "submitted"
    /\ IF Correlates(call.of, call.reply)
       THEN ApplyBrokerTruth(call.of, call.reply)
       ELSE UNCHANGED request
    /\ call' = Idle
    /\ UNCHANGED <<client, truths, wire, adapter>>

SaveSubmitLost ==
    /\ call.at = "lost"
    /\ BecomeUncertain(call.of)
    /\ call' = Idle
    /\ UNCHANGED <<client, truths, wire, adapter>>
------------------------------------------------------------------------------
(* cancel *)

\* The states an order takes when the broker honours a cancel at once.
CancelledFrom(t) ==
    {u \in NextTruths(t) : /\ u.status = "CANCELLED"
                           /\ u.filled = t.filled
                           /\ u.asOrdered = t.asOrdered}

\* The cancel reaches the broker, which cancels a working order or leaves it pending.
Cancel(r) ==
    /\ call = Idle
    /\ request[r].order # NoOrder
    /\ request[r].status \notin FinalStatus
    /\ call' = [at |-> "cancelling", of |-> r, order |-> request[r].order]
    /\ \/ \E t \in CancelledFrom(Current(request[r].order)) :
             truths' = [truths EXCEPT ![request[r].order] = Append(@, t)]
       \/ UNCHANGED truths
    /\ UNCHANGED <<request, client, wire, adapter>>

\* The adapter answers a cancel with a read of the order.
CancelAnswered ==
    /\ call.at = "cancelling"
    /\ \E snap \in ReadByOrder(call.order) :
          call' = [at |-> "cancelled", of |-> call.of, reply |-> snap]
    /\ UNCHANGED <<request, client, truths, wire, adapter>>

\* The cancel raises to its caller, whether or not the broker has acted on it.
CancelFails ==
    /\ call.at = "cancelling"
    /\ call' = Idle
    /\ UNCHANGED <<request, client, truths, wire, adapter>>

SaveCancelReply ==
    /\ call.at = "cancelled"
    /\ AcceptBrokerTruth(call.of, call.reply)
    /\ call' = Idle
    /\ UNCHANGED <<client, truths, wire, adapter>>
------------------------------------------------------------------------------
\* The process dies and restarts: what is saved and the broker's orders remain.
Crash ==
    /\ call # Idle \/ adapter # {}
    /\ call' = Idle
    /\ adapter' = {}
    /\ UNCHANGED <<request, client, truths, wire>>

Init ==
    /\ request \in [Requests ->
                      [broker: Adapters, status: {"READY"}, order: {NoOrder},
                       filled: {0}, observed: {0}]]
    /\ client = [o \in OrderIds |-> NoRequest]
    /\ truths = [o \in OrderIds |-> <<>>]
    /\ call = Idle
    /\ wire = {}
    /\ adapter = {}

Next ==
    \/ \E r \in Requests : Deploy(r) \/ Reconcile(r) \/ Cancel(r)
    \/ SendOrder \/ SubmitAnswered \/ SubmitFails
    \/ SaveSubmitReply \/ SaveSubmitLost
    \/ CancelAnswered \/ CancelFails \/ SaveCancelReply
    \/ \E r \in Requests : BrokerAccepts(r) \/ PlacementLost(r)
    \/ \E o \in OrderIds : BrokerMoves(o)
    \/ Crash

Spec == Init /\ [][Next]_vars
------------------------------------------------------------------------------
(* Safety. *)

\* One execution request never becomes two orders, whatever is retried, restarted or
\* late: docs/SAFETY_INVARIANTS.md, "Idempotency is durable before broker submission".
AtMostOneOrder ==
    \A o1, o2 \in OrderIds :
        client[o1] = client[o2] /\ client[o1] # NoRequest => o1 = o2

\* An order at the broker, or on its way there, never has a request that a restarted
\* process would take for not submitted.
ExposureIsDurable ==
    \A r \in Requests :
        OrdersOf(r) # {} \/ r \in wire => request[r].status # "READY"

\* A final status is the broker's: the request's own order ended in it, with that fill.
\* A missing or failed answer is never taken for an end.
FinalStatusIsBrokerTruth ==
    \A r \in Requests : request[r].status \in FinalStatus =>
        /\ request[r].order \in OrdersOf(r)
        /\ Current(request[r].order).status = request[r].status
        /\ Current(request[r].order).filled = request[r].filled

\* Accepted broker truth never moves back: not the observation time, not the order's identity,
\* and a final status stays.  Nor does the fill, where a state's time is its own: a late state
\* is then refused as stale.  Read live it is not, and the fill can fall until the next read.
BrokerTruthNeverRetreats ==
    [][\A r \in Requests :
          /\ request'[r].observed >= request[r].observed
          /\ request[r].broker = "simulated" => request'[r].filled >= request[r].filled
          /\ request[r].order # NoOrder => request'[r].order = request[r].order
          /\ request[r].status \in FinalStatus => request'[r] = request[r]]_vars

\* An intent not yet handed to the broker stays deployable: a request leaves READY only by
\* having its submission started (docs/SAFETY_INVARIANTS.md, "Reconciliation transport failure
\* is contained as UNCERTAIN and does not erase durable execution intent").
ReadyLeavesOnlyBySubmission ==
    [][\A r \in Requests : request[r].status = "READY"
          => request'[r].status \in {"READY", "SUBMITTING"}]_vars
------------------------------------------------------------------------------
(* Inductive strengthenings of the safety properties. *)

\* A placement on its way, or about to leave, is the only trace of its request.
ExposureInv ==
    /\ AtMostOneOrder
    /\ ExposureIsDurable
    /\ \A r \in wire : OrdersOf(r) = {}
    /\ call.at = "submit" =>
          /\ OrdersOf(call.of) = {}
          /\ call.of \notin wire
          /\ request[call.of].status # "READY"

\* An order's published states: fills accumulate, only the last one can be final.
HistoryInv ==
    \A o \in OrderIds :
        /\ truths[o] = <<>> <=> client[o] = NoRequest
        /\ \A i, j \in DOMAIN truths[o] :
              i < j => /\ truths[o][i].filled <= truths[o][j].filled
                       /\ truths[o][i].status \notin FinalStatus

\* What is stored or about to be stored with time i is at most what the broker had published
\* of order o by then, and an end only if that is how the order then stood.
Reflects(e, o, i) ==
    /\ i \in DOMAIN truths[o]
    /\ e.filled <= truths[o][i].filled
    /\ e.status \in FinalStatus =>
          e.status = truths[o][i].status /\ e.filled = truths[o][i].filled

\* Stored truth and the reply in hand are states of the request's own order.
StoredInv ==
    /\ \A r \in Requests :
          IF request[r].order = NoOrder
          THEN /\ request[r].status \notin FinalStatus
               /\ request[r].filled = 0
               /\ request[r].observed = 0
          ELSE /\ request[r].order \in OrdersOf(r)
               /\ Reflects(request[r], request[r].order, request[r].observed)
    /\ call.at \in {"submit", "waiting", "lost", "submitted"} =>
          request[call.of].order = NoOrder
    /\ call.at \in {"cancelling", "cancelled"} =>
          /\ request[call.of].order # NoOrder
          /\ request[call.of].status \notin FinalStatus
    /\ call.at = "cancelling" => call.order = request[call.of].order
    /\ call.at \in {"submitted", "cancelled"} =>
          /\ call.reply.order \in OrdersOf(call.of)
          /\ Reflects(call.reply, call.reply.order, call.reply.observed)
    /\ call.at = "cancelled" /\ request[call.of].broker = "simulated" =>
          call.reply.filled = truths[call.reply.order][call.reply.observed].filled
------------------------------------------------------------------------------
(* The abstract specification this one implements. *)

\* An order amended at the broker is no longer the request's: its end is never reported.
BrokerExposure(r) ==
    IF OrdersOf(r) = {} THEN [status |-> "none", filled |-> 0]
    ELSE LET t == Current(CHOOSE o \in OrdersOf(r) : TRUE)
         IN  IF t.status \in FinalStatus /\ t.asOrdered
             THEN [status |-> t.status, filled |-> t.filled]
             ELSE [status |-> "working", filled |-> 0]

DurableReport(r) ==
    IF request[r].status \in FinalStatus
    THEN [status |-> request[r].status, filled |-> request[r].filled]
    ELSE [status |-> "none", filled |-> 0]

Outcomes == INSTANCE OrderOutcome WITH
    exposure <- [r \in Requests |-> BrokerExposure(r)],
    report <- [r \in Requests |-> DurableReport(r)]

\* Every step is a placement, an ending or a report of the abstract specification.
ImplementsOrderOutcome == Outcomes!Spec
------------------------------------------------------------------------------
(* Liveness. *)

\* The caller reconciles the request and the broker answers with its present state.
ReconcileWithCurrentTruth(r) ==
    \E o \in OrdersOf(r) : ReconcileByClient(r, Snapshot(o, Len(truths[o]), r))

\* The running process finishes what it began.
Progress == SendOrder \/ SubmitAnswered \/ SubmitFails
            \/ SaveSubmitReply \/ SaveSubmitLost
    \/ CancelAnswered \/ CancelFails \/ SaveCancelReply

\* The engine has no loop of its own: its caller keeps reconciling, again and again with an
\* answer, between crashes and other calls.
FairSpec ==
    /\ Spec
    /\ WF_vars(Progress)
    /\ \A r \in Requests : SF_vars(ReconcileWithCurrentTruth(r))

\* No outcome is lost: what the broker has ended, TradeMonitor reports in the end, whatever
\* crash, timeout, lost answer or stale read came in between.
EveryOutcomeIsReported ==
    \A r \in Requests :
        BrokerExposure(r) \in Outcomes!Outcome ~> DurableReport(r) = BrokerExposure(r)
=============================================================================
