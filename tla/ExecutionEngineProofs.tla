------------------------ MODULE ExecutionEngineProofs ------------------------
(***************************************************************************)
(* Proofs about Module M for any set of requests and order ids, any         *)
(* quantity and any number of order states.                                 *)
(***************************************************************************)
EXTENDS ExecutionEngine, TLAPS
------------------------------------------------------------------------------
(* Type correctness. *)

\* Storing broker truth stores a well-typed request that is not READY, and no other changes.
LEMMA ApplyBrokerTruthType ==
    ASSUME TypeOK, NEW r \in Requests, NEW snap \in BrokerOrderSnapshot,
           ApplyBrokerTruth(r, snap)
    PROVE  /\ request' \in [Requests -> ExecutionRequest]
           /\ request'[r].status # "READY"
           /\ \A s \in Requests \ {r} : request'[s] = request[s]
  BY DEF TypeOK, ApplyBrokerTruth, AsRequestStatus, BrokerOrderSnapshot, ExecutionRequest,
         BrokerStatus, RequestStatus, FinalStatus

LEMMA AcceptBrokerTruthType ==
    ASSUME TypeOK, NEW r \in Requests, NEW snap \in BrokerOrderSnapshot,
           AcceptBrokerTruth(r, snap)
    PROVE  /\ request' \in [Requests -> ExecutionRequest]
           /\ request'[r].status = "READY" => request[r].status = "READY"
           /\ \A s \in Requests \ {r} : request'[s] = request[s]
  BY ApplyBrokerTruthType DEF AcceptBrokerTruth, TypeOK

LEMMA BecomeUncertainType ==
    ASSUME TypeOK, NEW r \in Requests, BecomeUncertain(r)
    PROVE  /\ request' \in [Requests -> ExecutionRequest]
           /\ request'[r].status # "READY"
           /\ \A s \in Requests \ {r} : request'[s] = request[s]
  BY DEF TypeOK, BecomeUncertain, ExecutionRequest, RequestStatus

\* What a read returns is a snapshot of an order that exists.
LEMMA SnapshotType ==
    ASSUME TypeOK, NEW o \in OrderIds, NEW i \in DOMAIN truths[o],
           NEW c \in Requests \cup {NoRequest}
    PROVE  Snapshot(o, i, c) \in BrokerOrderSnapshot
  <1>1. truths[o] \in Seq(Truth) /\ i \in Nat
    BY DEF TypeOK
  <1>2. truths[o][i] \in Truth
    BY <1>1
  <1>3. QED
    BY <1>1, <1>2 DEF Snapshot, ObservedAt, BrokerOrderSnapshot, Truth

LEMMA ReadTypes ==
    ASSUME TypeOK
    PROVE  /\ \A r \in Requests : ReadByClient(r) \subseteq BrokerOrderSnapshot
           /\ \A o \in OrderIds : ReadByOrder(o) \subseteq BrokerOrderSnapshot
  <1>1. ASSUME NEW r \in Requests PROVE ReadByClient(r) \subseteq BrokerOrderSnapshot
    BY SnapshotType DEF ReadByClient, OrdersOf
  <1>2. ASSUME NEW o \in OrderIds, NEW s \in ReadByOrder(o) PROVE s \in BrokerOrderSnapshot
    <2>1. PICK i \in DOMAIN truths[o] :
             s = Snapshot(o, i, IF o \in adapter THEN client[o] ELSE NoRequest)
      BY DEF ReadByOrder
    <2>2. (IF o \in adapter THEN client[o] ELSE NoRequest) \in Requests \cup {NoRequest}
      BY DEF TypeOK
    <2>3. QED
      BY <2>1, <2>2, SnapshotType
  <1>3. QED
    BY <1>1, <1>2

\* An in-progress operation concerns a request, and a reply it holds is a snapshot.
LEMMA CallType ==
    ASSUME TypeOK
    PROVE  /\ call.at \in {"submit", "waiting", "lost", "cancelling", "submitted", "cancelled"}
                => call.of \in Requests
           /\ call.at = "cancelling" => call.order \in OrderIds
           /\ call.at \in {"submitted", "cancelled"} => call.reply \in BrokerOrderSnapshot
           /\ call = Idle => call.at = "idle"
  BY DEF TypeOK, Call, Idle

\* THEOREM TypeCorrect states that every state of the engine is well typed: statuses, fills
\* within the ordered quantity, replies and caches (TypeOK).
THEOREM TypeCorrect == Spec => []TypeOK
  <1>1. Init => TypeOK
    BY EngineAssumption
       DEF Init, TypeOK, ExecutionRequest, RequestStatus, Call, Idle, Truth
  <1>2. TypeOK /\ [Next]_vars => TypeOK'
    <2> SUFFICES ASSUME TypeOK, [Next]_vars PROVE TypeOK'
      OBVIOUS
    <2>1. ASSUME NEW r \in Requests, Reconcile(r) PROVE TypeOK'
      <3>1. ASSUME NEW snap \in ReadByClient(r), ReconcileByClient(r, snap) PROVE TypeOK'
        <4>1. snap \in BrokerOrderSnapshot
          BY ReadTypes
        <4>2. request' \in [Requests -> ExecutionRequest]
          BY <3>1, <4>1, AcceptBrokerTruthType DEF ReconcileByClient
        <4>3. adapter' \in SUBSET OrderIds
          BY <3>1, <4>1 DEF ReconcileByClient, TypeOK, BrokerOrderSnapshot
        <4>4. QED
          BY <3>1, <4>2, <4>3 DEF ReconcileByClient, TypeOK
      <3>2. ASSUME ReconcileByOrder(r) PROVE TypeOK'
        <4>1. request[r].order \in OrderIds
          BY <3>2 DEF ReconcileByOrder, TypeOK, ExecutionRequest
        <4>2. request' \in [Requests -> ExecutionRequest]
          BY <3>2, <4>1, ReadTypes, AcceptBrokerTruthType DEF ReconcileByOrder
        <4>3. QED
          BY <3>2, <4>2 DEF ReconcileByOrder, TypeOK
      <3>3. ASSUME ReconcileUnresolved(r) PROVE TypeOK'
        BY <3>3, BecomeUncertainType DEF ReconcileUnresolved, TypeOK
      <3>4. QED
        BY <2>1, <3>1, <3>2, <3>3 DEF Reconcile
    <2>2. ASSUME NEW r \in Requests, Deploy(r) PROVE TypeOK'
      <3>1. CASE StartSubmission(r)
        BY <3>1 DEF StartSubmission, TypeOK, ExecutionRequest, RequestStatus, Call
      <3>2. QED
        BY <2>1, <2>2, <3>1 DEF Deploy
    <2>3. ASSUME NEW r \in Requests, Cancel(r) PROVE TypeOK'
      <3>1. truths' \in [OrderIds -> Seq(Truth)]
        <4>1. ASSUME NEW t \in CancelledFrom(Current(request[r].order)) PROVE t \in Truth
          BY DEF CancelledFrom, NextTruths
        <4>2. ASSUME NEW t \in Truth, NEW o \in OrderIds
              PROVE  [truths EXCEPT ![o] = Append(@, t)] \in [OrderIds -> Seq(Truth)]
          BY DEF TypeOK
        <4>3. request[r].order \in OrderIds
          BY <2>3 DEF Cancel, TypeOK, ExecutionRequest
        <4>4. CASE UNCHANGED truths
          BY <4>4 DEF TypeOK
        <4>5. CASE \E t \in CancelledFrom(Current(request[r].order)) :
                      truths' = [truths EXCEPT ![request[r].order] = Append(@, t)]
          <5>1. PICK t \in CancelledFrom(Current(request[r].order)) :
                   truths' = [truths EXCEPT ![request[r].order] = Append(@, t)]
            BY <4>5
          <5>2. QED
            BY <4>1, <4>2, <4>3, <5>1
        <4>6. QED
          BY <2>3, <4>4, <4>5 DEF Cancel
      <3>2. call' \in Call
        BY <2>3 DEF Cancel, Call, TypeOK, ExecutionRequest
      <3>3. QED
        BY <2>3, <3>1, <3>2 DEF Cancel, TypeOK
    <2>4. CASE SendOrder
      BY <2>4, CallType DEF SendOrder, TypeOK, Call
    <2>5. CASE SubmitAnswered
      <3>1. PICK o \in OrdersOf(call.of) :
               /\ adapter' = adapter \cup {o}
               /\ \E snap \in {Snapshot(o, i, call.of) : i \in DOMAIN truths[o]}
                              \cup {Acknowledgement(o, call.of)} :
                     call' = [at |-> "submitted", of |-> call.of, reply |-> snap]
        BY <2>5 DEF SubmitAnswered
      <3>2. o \in OrderIds /\ call.of \in Requests
        BY <2>5, CallType DEF OrdersOf, SubmitAnswered
      <3>3. Acknowledgement(o, call.of) \in BrokerOrderSnapshot
        BY <3>2, EngineAssumption
           DEF Acknowledgement, ObservedAt, BrokerOrderSnapshot, BrokerStatus, TypeOK
      <3>4. call' \in Call
        BY <3>1, <3>2, <3>3, SnapshotType DEF Call
      <3>5. QED
        BY <2>5, <3>1, <3>2, <3>4 DEF SubmitAnswered, TypeOK
    <2>6. CASE SubmitFails
      BY <2>6, CallType DEF SubmitFails, TypeOK, Call, OrdersOf
    <2>7. CASE SaveSubmitReply
      <3>1. call.of \in Requests /\ call.reply \in BrokerOrderSnapshot
        BY <2>7, CallType DEF SaveSubmitReply
      <3>2. request' \in [Requests -> ExecutionRequest]
        BY <2>7, <3>1, ApplyBrokerTruthType DEF SaveSubmitReply, TypeOK
      <3>3. QED
        BY <2>7, <3>2 DEF SaveSubmitReply, TypeOK, Call, Idle
    <2>8. CASE SaveSubmitLost
      BY <2>8, CallType, BecomeUncertainType DEF SaveSubmitLost, TypeOK, Call, Idle
    <2>9. CASE CancelAnswered
      <3>1. call.of \in Requests /\ call.order \in OrderIds
        BY <2>9, CallType DEF CancelAnswered
      <3>2. PICK snap \in ReadByOrder(call.order) :
               call' = [at |-> "cancelled", of |-> call.of, reply |-> snap]
        BY <2>9 DEF CancelAnswered
      <3>3. call' \in Call
        BY <3>1, <3>2, ReadTypes DEF Call
      <3>4. QED
        BY <2>9, <3>3 DEF CancelAnswered, TypeOK
    <2>10. CASE CancelFails
      BY <2>10 DEF CancelFails, TypeOK, Call, Idle
    <2>11. CASE SaveCancelReply
      <3>1. call.of \in Requests /\ call.reply \in BrokerOrderSnapshot
        BY <2>11, CallType DEF SaveCancelReply
      <3>2. request' \in [Requests -> ExecutionRequest]
        BY <2>11, <3>1, AcceptBrokerTruthType DEF SaveCancelReply
      <3>3. QED
        BY <2>11, <3>2 DEF SaveCancelReply, TypeOK, Call, Idle
    <2>12. ASSUME NEW r \in Requests, BrokerAccepts(r) PROVE TypeOK'
      BY <2>12 DEF BrokerAccepts, FirstTruths, TypeOK
    <2>13. ASSUME NEW r \in Requests, PlacementLost(r) PROVE TypeOK'
      BY <2>13 DEF PlacementLost, TypeOK
    <2>14. ASSUME NEW o \in OrderIds, BrokerMoves(o) PROVE TypeOK'
      BY <2>14 DEF BrokerMoves, NextTruths, TypeOK
    <2>15. CASE Crash
      BY <2>15 DEF Crash, TypeOK, Call, Idle
    <2>16. CASE UNCHANGED vars
      BY <2>16 DEF vars, TypeOK
    <2>17. QED
      BY <2>1, <2>2, <2>3, <2>4, <2>5, <2>6, <2>7, <2>8, <2>9, <2>10, <2>11, <2>12, <2>13,
         <2>14, <2>15, <2>16 DEF Next
  <1>3. QED
    BY <1>1, <1>2, PTL DEF Spec
------------------------------------------------------------------------------
(* At most one order. *)

\* A step that neither places an order nor makes a request READY, and is not about to submit
\* another one, keeps every trace of a placement unique.
LEMMA ExposureUndisturbed ==
    ASSUME TypeOK, ExposureInv, UNCHANGED <<client, wire>>,
           call'.at # "submit" \/ UNCHANGED call,
           \A r \in Requests : request'[r].status = "READY" => request[r].status = "READY"
    PROVE  ExposureInv'
  <1>1. OrdersOf(call.of)' = {o \in OrderIds : client[o] = call'.of}
    BY DEF OrdersOf
  <1>2. \A r \in Requests : OrdersOf(r)' = OrdersOf(r)
    BY DEF OrdersOf
  <1>3. AtMostOneOrder' /\ ExposureIsDurable' /\ \A r \in wire' : OrdersOf(r)' = {}
    BY <1>2 DEF ExposureInv, AtMostOneOrder, ExposureIsDurable, TypeOK
  <1>4. ASSUME call'.at = "submit"
        PROVE  /\ OrdersOf(call.of)' = {}
               /\ call'.of \notin wire'
               /\ request'[call'.of].status # "READY"
    BY <1>4, CallType DEF ExposureInv, OrdersOf
  <1>5. QED
    BY <1>3, <1>4 DEF ExposureInv

\* No step makes a request READY: one that has left READY is never submitted again.
LEMMA NeverReadyAgain ==
    ASSUME TypeOK, [Next]_vars
    PROVE  \A s \in Requests : request'[s].status = "READY" => request[s].status = "READY"
  <1> DEFINE Kept == \A s \in Requests :
                        request'[s].status = "READY" => request[s].status = "READY"
  <1>1. ASSUME NEW r \in Requests, Reconcile(r) PROVE Kept
    <2>1. ASSUME NEW snap \in ReadByClient(r), ReconcileByClient(r, snap) PROVE Kept
      BY <2>1, ReadTypes, AcceptBrokerTruthType DEF ReconcileByClient
    <2>2. CASE ReconcileByOrder(r)
      <3>1. request[r].order \in OrderIds
        BY <2>2 DEF ReconcileByOrder, TypeOK, ExecutionRequest
      <3>2. PICK snap \in ReadByOrder(request[r].order) : AcceptBrokerTruth(r, snap)
        BY <2>2 DEF ReconcileByOrder
      <3>3. QED
        BY <3>1, <3>2, ReadTypes, AcceptBrokerTruthType
    <2>3. CASE ReconcileUnresolved(r)
      BY <2>3, BecomeUncertainType DEF ReconcileUnresolved
    <2>4. QED
      BY <1>1, <2>1, <2>2, <2>3 DEF Reconcile
  <1>2. ASSUME NEW r \in Requests, StartSubmission(r) PROVE Kept
    BY <1>2 DEF StartSubmission, TypeOK, ExecutionRequest
  <1>3. CASE SaveSubmitReply
    <2>1. call.of \in Requests /\ call.reply \in BrokerOrderSnapshot
      BY <1>3, CallType DEF SaveSubmitReply
    <2>2. QED
      BY <1>3, <2>1, ApplyBrokerTruthType DEF SaveSubmitReply
  <1>4. CASE SaveSubmitLost
    BY <1>4, CallType, BecomeUncertainType DEF SaveSubmitLost
  <1>5. CASE SaveCancelReply
    <2>1. call.of \in Requests /\ call.reply \in BrokerOrderSnapshot
      BY <1>5, CallType DEF SaveCancelReply
    <2>2. QED
      BY <1>5, <2>1, AcceptBrokerTruthType DEF SaveCancelReply
  <1>6. QED
    BY <1>1, <1>2, <1>3, <1>4, <1>5
       DEF Next, vars, Deploy, Cancel, SendOrder, SubmitAnswered, SubmitFails, CancelAnswered,
           CancelFails, BrokerAccepts, PlacementLost, BrokerMoves, Crash

\* An order comes to the broker by the wire, and onto the wire comes only the request whose
\* submission is in progress.
LEMMA OrdersComeByTheWire ==
    ASSUME TypeOK, [Next]_vars
    PROVE  /\ \A r \in wire' \ wire : call.at = "submit" /\ r = call.of
           /\ \A r \in Requests : OrdersOf(r)' \subseteq OrdersOf(r) \/ r \in wire
  <1>1. \A r \in wire' \ wire : call.at = "submit" /\ r = call.of
    BY DEF Next, vars, Deploy, StartSubmission, Reconcile, ReconcileByClient, ReconcileByOrder,
           ReconcileUnresolved, Cancel, SendOrder, SubmitAnswered, SubmitFails, SaveSubmitReply,
           SaveSubmitLost, CancelAnswered, CancelFails, SaveCancelReply, BrokerAccepts,
           PlacementLost, BrokerMoves, Crash
  <1>2. client' = client \/ \E r \in wire, o \in OrderIds :
                                client' = [client EXCEPT ![o] = r]
    BY DEF Next, vars, Deploy, StartSubmission, Reconcile, ReconcileByClient, ReconcileByOrder,
           ReconcileUnresolved, Cancel, SendOrder, SubmitAnswered, SubmitFails, SaveSubmitReply,
           SaveSubmitLost, CancelAnswered, CancelFails, SaveCancelReply, BrokerAccepts,
           PlacementLost, BrokerMoves, Crash
  <1>3. \A r \in Requests : OrdersOf(r)' \subseteq OrdersOf(r) \/ r \in wire
    BY <1>2 DEF OrdersOf, TypeOK
  <1>4. QED
    BY <1>1, <1>3

LEMMA ExposureInductive == TypeOK /\ ExposureInv /\ [Next]_vars => ExposureInv'
  <1> SUFFICES ASSUME TypeOK, ExposureInv, [Next]_vars PROVE ExposureInv'
    OBVIOUS
  <1>0. \A s \in Requests : request'[s].status = "READY" => request[s].status = "READY"
    BY NeverReadyAgain
  <1>1. ASSUME NEW r \in Requests, Reconcile(r) PROVE ExposureInv'
    <2>1. UNCHANGED <<client, wire, call>>
      BY <1>1 DEF Reconcile, ReconcileByClient, ReconcileByOrder, ReconcileUnresolved
    <2>2. QED
      BY <1>0, <2>1, ExposureUndisturbed
  <1>2. ASSUME NEW r \in Requests, Deploy(r) PROVE ExposureInv'
    <2>1. CASE StartSubmission(r)
      <3>1. OrdersOf(r) = {} /\ r \notin wire
        BY <2>1 DEF StartSubmission, ExposureInv, ExposureIsDurable
      <3>2. \A s \in Requests : OrdersOf(s)' = OrdersOf(s)
        BY <2>1 DEF StartSubmission, OrdersOf
      <3>3. call'.at = "submit" /\ call'.of = r /\ wire' = wire /\ client' = client
        BY <2>1 DEF StartSubmission
      <3>4. OrdersOf(call.of)' = {}
        BY <3>1, <3>3 DEF OrdersOf
      <3>5. /\ request'[r].status = "SUBMITTING"
            /\ \A s \in Requests \ {r} : request'[s] = request[s]
        BY <2>1 DEF StartSubmission, TypeOK, ExecutionRequest
      <3>6. AtMostOneOrder' /\ ExposureIsDurable' /\ \A s \in wire' : OrdersOf(s)' = {}
        BY <3>2, <3>3, <3>5 DEF ExposureInv, AtMostOneOrder, ExposureIsDurable, TypeOK
      <3>7. QED
        BY <3>1, <3>3, <3>4, <3>5, <3>6 DEF ExposureInv
    <2>2. QED
      BY <1>1, <1>2, <2>1 DEF Deploy
  <1>3. ASSUME NEW r \in Requests, Cancel(r) PROVE ExposureInv'
    BY <1>3, ExposureUndisturbed DEF Cancel
  <1>4. CASE SendOrder
    <2>1. call.of \in Requests /\ OrdersOf(call.of) = {} /\ request[call.of].status # "READY"
      BY <1>4, CallType DEF SendOrder, ExposureInv
    <2>2. /\ client' = client /\ request' = request /\ wire' = wire \cup {call.of}
          /\ call'.at = "waiting"
      BY <1>4 DEF SendOrder
    <2>3. \A s \in Requests : OrdersOf(s)' = OrdersOf(s)
      BY <2>2 DEF OrdersOf
    <2>4. AtMostOneOrder' /\ ExposureIsDurable' /\ \A s \in wire' : OrdersOf(s)' = {}
      BY <2>1, <2>2, <2>3 DEF ExposureInv, AtMostOneOrder, ExposureIsDurable, TypeOK
    <2>5. QED
      BY <2>2, <2>4 DEF ExposureInv
  <1>5. CASE SubmitAnswered
    BY <1>5, ExposureUndisturbed DEF SubmitAnswered
  <1>6. CASE SubmitFails
    BY <1>6, ExposureUndisturbed DEF SubmitFails
  <1>7. CASE SaveSubmitReply
    BY <1>0, <1>7, ExposureUndisturbed DEF SaveSubmitReply, Idle
  <1>8. CASE SaveSubmitLost
    BY <1>0, <1>8, ExposureUndisturbed DEF SaveSubmitLost, Idle
  <1>9. CASE CancelAnswered
    BY <1>9, ExposureUndisturbed DEF CancelAnswered
  <1>10. CASE CancelFails
    BY <1>10, ExposureUndisturbed DEF CancelFails, Idle
  <1>11. CASE SaveCancelReply
    BY <1>0, <1>11, ExposureUndisturbed DEF SaveCancelReply, Idle
  <1>12. ASSUME NEW r \in Requests, BrokerAccepts(r) PROVE ExposureInv'
    <2>1. PICK o \in OrderIds : client[o] = NoRequest /\ client' = [client EXCEPT ![o] = r]
      BY <1>12 DEF BrokerAccepts
    <2>2. /\ wire' = wire \ {r} /\ request' = request /\ call' = call
          /\ r \in wire /\ OrdersOf(r) = {} /\ request[r].status # "READY"
      BY <1>12 DEF BrokerAccepts, ExposureInv, ExposureIsDurable
    <2>3. \A s \in Requests \ {r} : OrdersOf(s)' = OrdersOf(s)
      BY <2>1, EngineAssumption DEF OrdersOf, TypeOK
    <2>4. AtMostOneOrder'
      BY <2>1, <2>2 DEF ExposureInv, AtMostOneOrder, OrdersOf, TypeOK
    <2>5. ExposureIsDurable' /\ \A s \in wire' : OrdersOf(s)' = {}
      BY <2>2, <2>3 DEF ExposureInv, ExposureIsDurable, TypeOK
    <2>6. ASSUME call'.at = "submit"
          PROVE  /\ OrdersOf(call.of)' = {}
                 /\ call'.of \notin wire'
                 /\ request'[call'.of].status # "READY"
      <3>1. call.of \in Requests \ {r}
        BY <2>2, <2>6, CallType DEF ExposureInv
      <3>2. OrdersOf(call.of)' = OrdersOf(call.of)
        BY <2>2, <2>3, <3>1 DEF OrdersOf
      <3>3. QED
        BY <2>2, <2>6, <3>2 DEF ExposureInv
    <2>7. QED
      BY <2>4, <2>5, <2>6 DEF ExposureInv
  <1>13. ASSUME NEW r \in Requests, PlacementLost(r) PROVE ExposureInv'
    <2>1. \A s \in Requests : OrdersOf(s)' = OrdersOf(s)
      BY <1>13 DEF PlacementLost, OrdersOf
    <2>2. OrdersOf(call.of)' = OrdersOf(call.of)
      BY <1>13 DEF PlacementLost, OrdersOf
    <2>3. QED
      BY <1>13, <2>1, <2>2
         DEF PlacementLost, ExposureInv, AtMostOneOrder, ExposureIsDurable, TypeOK
  <1>14. ASSUME NEW o \in OrderIds, BrokerMoves(o) PROVE ExposureInv'
    BY <1>14, ExposureUndisturbed DEF BrokerMoves
  <1>15. CASE Crash
    BY <1>15, ExposureUndisturbed DEF Crash, Idle
  <1>16. CASE UNCHANGED vars
    BY <1>16, ExposureUndisturbed DEF vars
  <1>17. QED
    BY <1>1, <1>2, <1>3, <1>4, <1>5, <1>6, <1>7, <1>8, <1>9, <1>10, <1>11, <1>12, <1>13,
       <1>14, <1>15, <1>16 DEF Next

LEMMA ExposureAlways == Spec => []ExposureInv
  <1>1. Init => ExposureInv
    BY EngineAssumption
       DEF Init, ExposureInv, AtMostOneOrder, ExposureIsDurable, OrdersOf, Idle
  <1>2. QED
    BY <1>1, TypeCorrect, ExposureInductive, PTL DEF Spec

\* THEOREM OneOrder states that a request never becomes two orders (AtMostOneOrder), for any
\* number of requests, retries, crashes and late placements.
THEOREM OneOrder == Spec => []AtMostOneOrder
  <1>1. ExposureInv => AtMostOneOrder
    BY DEF ExposureInv
  <1>2. QED
    BY <1>1, ExposureAlways, PTL

\* THEOREM DurableExposure states that no crash makes the engine forget a placement: the
\* request of an order, or of a placement on its way, is never READY (ExposureIsDurable).
THEOREM DurableExposure == Spec => []ExposureIsDurable
  <1>1. ExposureInv => ExposureIsDurable
    BY DEF ExposureInv
  <1>2. QED
    BY <1>1, ExposureAlways, PTL
------------------------------------------------------------------------------
(* The broker's history of an order. *)

\* The final state that a reply in hand would report is one of an order as it was placed.
ReplyIsGenuine ==
    /\ call.at \in {"submitted", "cancelled"}
    /\ call.reply.status \in FinalStatus
    /\ call.reply.asOrdered
    => truths[call.reply.order][call.reply.observed].asOrdered

\* No reported end is that of an order amended at the broker.
EndsAsOrdered ==
    \A r \in Requests : request[r].status \in FinalStatus =>
        truths[request[r].order][request[r].observed].asOrdered

EngineInv ==
    TypeOK /\ ExposureInv /\ HistoryInv /\ StoredInv /\ ReplyIsGenuine /\ EndsAsOrdered

\* Order o moves to the state t.
OrderMoves(o, t) ==
    /\ truths[o] # <<>>
    /\ t \in NextTruths(Current(o))
    /\ truths' = [truths EXCEPT ![o] = Append(@, t)]
    /\ UNCHANGED client

\* A new order o is made for r, in the state t.
OrderMade(r, o, t) ==
    /\ r \in wire
    /\ client[o] = NoRequest
    /\ client' = [client EXCEPT ![o] = r]
    /\ truths' = [truths EXCEPT ![o] = <<t>>]

\* What a step does at the broker; either leaves the stored requests alone.
BrokerStep ==
    \/ UNCHANGED <<client, truths>>
    \/ UNCHANGED request /\ \E o \in OrderIds, t \in Truth : OrderMoves(o, t)
    \/ /\ UNCHANGED request
       /\ \E r \in Requests, o \in OrderIds, t \in FirstTruths : OrderMade(r, o, t)

LEMMA StepAtBroker ==
    ASSUME EngineInv, [Next]_vars
    PROVE  BrokerStep
  <1>1. ASSUME NEW r \in Requests, Cancel(r) PROVE BrokerStep
    <2>1. request[r].order \in OrdersOf(r) /\ request[r].order \in OrderIds
      BY <1>1 DEF Cancel, EngineInv, StoredInv, OrdersOf
    <2>2. truths[request[r].order] # <<>>
      BY <2>1, EngineAssumption DEF EngineInv, HistoryInv, OrdersOf
    <2>3. \A t \in CancelledFrom(Current(request[r].order)) :
             t \in NextTruths(Current(request[r].order)) /\ t \in Truth
      BY DEF CancelledFrom, NextTruths
    <2>4. QED
      BY <1>1, <2>1, <2>2, <2>3 DEF Cancel, BrokerStep, OrderMoves
  <1>2. ASSUME NEW o \in OrderIds, BrokerMoves(o) PROVE BrokerStep
    <2>1. \A t \in NextTruths(Current(o)) : t \in Truth
      BY DEF NextTruths
    <2>2. QED
      BY <1>2, <2>1 DEF BrokerMoves, BrokerStep, OrderMoves
  <1>3. ASSUME NEW r \in Requests, BrokerAccepts(r) PROVE BrokerStep
    BY <1>3 DEF BrokerAccepts, BrokerStep, OrderMade
  <1>4. CASE \/ \E r \in Requests : Deploy(r) \/ Reconcile(r) \/ PlacementLost(r)
             \/ SendOrder \/ SubmitAnswered \/ SubmitFails \/ SaveSubmitReply \/ SaveSubmitLost
             \/ CancelAnswered \/ CancelFails \/ SaveCancelReply \/ Crash \/ UNCHANGED vars
    BY <1>4 DEF Deploy, StartSubmission, Reconcile, ReconcileByClient, ReconcileByOrder,
                ReconcileUnresolved, PlacementLost, SendOrder, SubmitAnswered, SubmitFails,
                SaveSubmitReply, SaveSubmitLost, CancelAnswered, CancelFails, SaveCancelReply,
                Crash, vars, BrokerStep
  <1>5. QED
    BY <1>1, <1>2, <1>3, <1>4 DEF Next

\* The broker's history only grows.
Grows ==
    \A o \in OrderIds :
        /\ client[o] # NoRequest => client'[o] = client[o]
        /\ DOMAIN truths[o] \subseteq DOMAIN truths'[o]
        /\ \A i \in DOMAIN truths[o] : truths'[o][i] = truths[o][i]

LEMMA AppendedTruth ==
    ASSUME NEW s \in Seq(Truth), NEW t \in Truth
    PROVE  /\ DOMAIN s = 1..Len(s) /\ DOMAIN Append(s, t) = 1..(Len(s) + 1)
           /\ Append(s, t)[Len(s) + 1] = t /\ Append(s, t) # <<>>
           /\ \A i \in 1..Len(s) : Append(s, t)[i] = s[i]
  OBVIOUS

LEMMA MovesKeepHistory ==
    ASSUME TypeOK, HistoryInv, NEW o \in OrderIds, NEW t \in Truth, OrderMoves(o, t)
    PROVE  Grows /\ HistoryInv'
  <1>1. truths[o] \in Seq(Truth) /\ Len(truths[o]) \in Nat \ {0}
    BY DEF TypeOK, OrderMoves
  <1> DEFINE n == Len(truths[o])
  <1>2. /\ truths'[o] = Append(truths[o], t)
        /\ \A p \in OrderIds \ {o} : truths'[p] = truths[p]
        /\ client' = client
    BY DEF OrderMoves, TypeOK
  <1>3. /\ DOMAIN truths[o] = 1..n /\ DOMAIN truths'[o] = 1..(n + 1)
        /\ truths'[o][n + 1] = t /\ truths'[o] # <<>>
        /\ \A i \in 1..n : truths'[o][i] = truths[o][i]
    BY <1>1, <1>2, AppendedTruth
  <1>4. Grows
    BY <1>1, <1>2, <1>3 DEF Grows
  <1>5. /\ truths[o][n].status \notin FinalStatus
        /\ truths[o][n].filled <= t.filled
        /\ t.filled \in Nat
        /\ \A i \in 1..n : truths[o][i].filled \in Nat
    <2>1. \A i \in 1..n : truths[o][i] \in Truth
      BY <1>1
    <2>2. QED
      BY <1>1, <2>1, EngineAssumption DEF OrderMoves, NextTruths, Current, Truth
  <1> HIDE DEF n
  <1>6. n \in Nat \ {0}
    BY <1>1 DEF n
  <1>7. \A i, j \in 1..(n + 1) : i < j =>
           /\ truths'[o][i].filled <= truths'[o][j].filled
           /\ truths'[o][i].status \notin FinalStatus
    <2> SUFFICES ASSUME NEW i \in 1..(n + 1), NEW j \in 1..(n + 1), i < j
                 PROVE  /\ truths'[o][i].filled <= truths'[o][j].filled
                        /\ truths'[o][i].status \notin FinalStatus
      OBVIOUS
    <2>1. CASE j \in 1..n
      <3>1. i \in 1..n
        BY <1>6, <2>1
      <3>2. /\ truths'[o][i] = truths[o][i] /\ truths'[o][j] = truths[o][j]
            /\ i \in DOMAIN truths[o] /\ j \in DOMAIN truths[o]
        BY <1>3, <2>1, <3>1
      <3>3. /\ truths[o][i].filled <= truths[o][j].filled
            /\ truths[o][i].status \notin FinalStatus
        BY <3>2 DEF HistoryInv
      <3>4. QED
        BY <3>2, <3>3
    <2>2. CASE j = n + 1
      <3>1. i \in 1..n /\ truths'[o][i] = truths[o][i] /\ n \in 1..n
        BY <1>3, <1>6, <2>2
      <3>2. truths[o][i].filled <= truths[o][n].filled /\ truths[o][i].status \notin FinalStatus
        <4>1. CASE i = n
          BY <1>5, <3>1, <4>1
        <4>2. CASE i < n
          BY <1>3, <3>1, <4>2 DEF HistoryInv
        <4>3. QED
          BY <1>6, <3>1, <4>1, <4>2
      <3>3. QED
        BY <1>3, <1>5, <2>2, <3>1, <3>2
    <2>3. QED
      BY <1>6, <2>1, <2>2
  <1>8. truths[o] # <<>>
    BY DEF OrderMoves
  <1>9. QED
    BY <1>2, <1>3, <1>4, <1>7, <1>8 DEF HistoryInv

LEMMA MadeKeepsHistory ==
    ASSUME TypeOK, HistoryInv, NEW r \in Requests, NEW o \in OrderIds, NEW t \in FirstTruths,
           OrderMade(r, o, t)
    PROVE  Grows /\ HistoryInv'
  <1>1. /\ client[o] = NoRequest /\ truths[o] = <<>>
        /\ truths'[o] = <<t>> /\ client'[o] = r /\ r # NoRequest
        /\ \A p \in OrderIds \ {o} : truths'[p] = truths[p] /\ client'[p] = client[p]
    BY EngineAssumption DEF OrderMade, TypeOK, HistoryInv
  <1>2. DOMAIN truths'[o] = {1} /\ DOMAIN truths[o] = {} /\ truths'[o] # <<>>
    BY <1>1
  <1>3. Grows
    BY <1>1, <1>2 DEF Grows
  <1>4. HistoryInv'
    BY <1>1, <1>2 DEF HistoryInv
  <1>5. QED
    BY <1>3, <1>4

LEMMA HistoryGrows ==
    ASSUME EngineInv, BrokerStep
    PROVE  Grows /\ HistoryInv'
  <1>1. CASE UNCHANGED <<client, truths>>
    BY <1>1 DEF EngineInv, HistoryInv, Grows
  <1>2. QED
    BY <1>1, MovesKeepHistory, MadeKeepsHistory DEF EngineInv, BrokerStep

\* The order that a request has is the only one, and what it published stays published.
LEMMA LastsInGrowth ==
    ASSUME EngineInv, Grows
    PROVE  /\ \A r \in Requests : OrdersOf(r) \subseteq OrdersOf(r)'
           /\ \A o \in OrderIds : \A i, e :
                 Reflects(e, o, i) =>
                    /\ i \in DOMAIN truths'[o]
                    /\ e.filled <= truths'[o][i].filled
                    /\ e.status \in FinalStatus =>
                          e.status = truths'[o][i].status /\ e.filled = truths'[o][i].filled
  BY EngineAssumption DEF Grows, OrdersOf, Reflects
------------------------------------------------------------------------------
(* What a step does to the stored requests. *)

\* A read of order o shows a state that o was in by the time it carries, an end only if that
\* is how o then stood.  The simulator's time is that of the state itself.
Shows(snap, o) ==
    /\ snap \in BrokerOrderSnapshot
    /\ snap.order = o
    /\ Reflects(snap, o, snap.observed)
    /\ snap.status \in FinalStatus /\ snap.asOrdered => truths[o][snap.observed].asOrdered
    /\ request[client[o]].broker = "simulated" =>
          snap.filled = truths[o][snap.observed].filled

\* snap may be stored for r: it is true of the request's order, and not older than what is there.
Admissible(r, snap) ==
    /\ request[r].status \notin FinalStatus
    /\ snap.asOrdered
    /\ snap.order \in OrdersOf(r)
    /\ Reflects(snap, snap.order, snap.observed)
    /\ snap.status \in FinalStatus => truths[snap.order][snap.observed].asOrdered
    /\ \/ request[r].order = NoOrder
       \/ /\ request[r].broker = "simulated" =>
                snap.filled = truths[snap.order][snap.observed].filled
          /\ ~Stale(r, snap)

Stores(r, snap) == Admissible(r, snap) /\ ApplyBrokerTruth(r, snap)

RequestStep ==
    \/ UNCHANGED request
    \/ /\ UNCHANGED <<client, truths>>
       /\ \/ \E r \in Requests, snap \in BrokerOrderSnapshot : Stores(r, snap)
          \/ \E r \in Requests : request[r].status \notin FinalStatus /\ BecomeUncertain(r)
          \/ \E r \in Requests :
                /\ request[r].status = "READY"
                /\ request' = [request EXCEPT ![r].status = "SUBMITTING"]

\* What an order stood at when it was read bounds what an earlier state says of it.
LEMMA SnapshotShows ==
    ASSUME TypeOK, HistoryInv, NEW o \in OrderIds, NEW i \in DOMAIN truths[o],
           NEW c \in Requests \cup {NoRequest}
    PROVE  Shows(Snapshot(o, i, c), o)
  <1>1. /\ truths[o] \in Seq(Truth) /\ i \in 1..Len(truths[o])
        /\ Len(truths[o]) \in DOMAIN truths[o]
    BY DEF TypeOK
  <1>2. PICK j : j = ObservedAt(o, i)
    OBVIOUS
  <1>3. j \in DOMAIN truths[o] /\ i <= j
    BY <1>1, <1>2 DEF ObservedAt
  <1>4. truths[o][i] \in Truth /\ truths[o][j] \in Truth
    BY <1>1, <1>3
  <1>5. truths[o][i].filled \in Nat /\ truths[o][j].filled \in Nat
    BY <1>4, EngineAssumption DEF Truth
  <1>6. CASE i = j
    <2>1. Reflects(Snapshot(o, i, c), o, j)
      BY <1>2, <1>3, <1>5, <1>6 DEF Snapshot, Reflects
    <2>2. QED
      BY <1>2, <1>6, <2>1, SnapshotType DEF Shows, Snapshot
  <1>7. CASE i < j
    <2>1. truths[o][i].filled <= truths[o][j].filled /\ truths[o][i].status \notin FinalStatus
      BY <1>1, <1>3, <1>7 DEF HistoryInv
    <2>2. request[client[o]].broker # "simulated"
      BY <1>2, <1>3, <1>7, <1>1 DEF ObservedAt
    <2>3. QED
      BY <1>2, <1>3, <2>1, <2>2, SnapshotType DEF Shows, Snapshot, Reflects
  <1>8. QED
    BY <1>1, <1>3, <1>6, <1>7

LEMMA ReadsShow ==
    ASSUME TypeOK, HistoryInv
    PROVE  /\ \A r \in Requests : \A snap \in ReadByClient(r) :
                 snap.order \in OrdersOf(r) /\ Shows(snap, snap.order)
           /\ \A o \in OrderIds : \A snap \in ReadByOrder(o) : Shows(snap, o)
  <1>1. ASSUME NEW r \in Requests, NEW snap \in ReadByClient(r)
        PROVE  snap.order \in OrdersOf(r) /\ Shows(snap, snap.order)
    <2>1. PICK o \in OrdersOf(r) : \E i \in DOMAIN truths[o] : snap = Snapshot(o, i, r)
      BY DEF ReadByClient
    <2>2. o \in OrderIds
      BY DEF OrdersOf
    <2>3. Shows(snap, o)
      BY <2>1, <2>2, SnapshotShows
    <2>4. QED
      BY <2>1, <2>3 DEF Shows
  <1>2. ASSUME NEW o \in OrderIds, NEW snap \in ReadByOrder(o)
        PROVE  Shows(snap, o)
    <2>1. PICK i \in DOMAIN truths[o] :
             snap = Snapshot(o, i, IF o \in adapter THEN client[o] ELSE NoRequest)
      BY DEF ReadByOrder
    <2>2. (IF o \in adapter THEN client[o] ELSE NoRequest) \in Requests \cup {NoRequest}
      BY DEF TypeOK
    <2>3. QED
      BY <2>1, <2>2, SnapshotShows
  <1>3. QED
    BY <1>1, <1>2

\* Accepting a read of the request's own order stores it or changes nothing.
LEMMA AcceptedIsStored ==
    ASSUME EngineInv, NEW r \in Requests, NEW snap, NEW o \in OrdersOf(r), Shows(snap, o),
           request[r].status \notin FinalStatus, AcceptBrokerTruth(r, snap)
    PROVE  UNCHANGED request \/ Stores(r, snap)
  <1>1. o \in OrderIds /\ TypeOK /\ client[o] = r
    BY DEF OrdersOf, EngineInv
  <1>2. CASE Stale(r, snap) \/ ~Correlates(r, snap)
    BY <1>2 DEF AcceptBrokerTruth
  <1>3. CASE ~Stale(r, snap) /\ Correlates(r, snap)
    BY <1>1, <1>3 DEF AcceptBrokerTruth, Stores, Admissible, Correlates, Shows
  <1>4. QED
    BY <1>2, <1>3

LEMMA StepOnRequests ==
    ASSUME EngineInv, [Next]_vars
    PROVE  RequestStep
  <1>1. TypeOK /\ HistoryInv
    BY DEF EngineInv
  <1>2. ASSUME NEW r \in Requests, Reconcile(r) PROVE RequestStep
    <2>1. UNCHANGED <<client, truths>>
      BY <1>2 DEF Reconcile, ReconcileByClient, ReconcileByOrder, ReconcileUnresolved
    <2>2. ASSUME NEW snap \in ReadByClient(r), ReconcileByClient(r, snap) PROVE RequestStep
      <3>1. /\ request[r].status \notin FinalStatus
            /\ AcceptBrokerTruth(r, snap)
        BY <2>2 DEF ReconcileByClient, Reconcilable
      <3>2. snap \in BrokerOrderSnapshot /\ snap.order \in OrdersOf(r) /\ Shows(snap, snap.order)
        BY <1>1, ReadsShow, ReadTypes
      <3>3. QED
        BY <2>1, <3>1, <3>2, AcceptedIsStored DEF RequestStep
    <2>3. CASE ReconcileByOrder(r)
      <3>1. PICK snap \in ReadByOrder(request[r].order) : AcceptBrokerTruth(r, snap)
        BY <2>3 DEF ReconcileByOrder
      <3>2. /\ request[r].order \in OrdersOf(r) /\ request[r].order \in OrderIds
            /\ request[r].status \notin FinalStatus
        BY <2>3 DEF ReconcileByOrder, Reconcilable, EngineInv, StoredInv, OrdersOf
      <3>3. Shows(snap, request[r].order) /\ snap \in BrokerOrderSnapshot
        BY <1>1, <3>2, ReadsShow DEF Shows
      <3>4. QED
        BY <2>1, <3>1, <3>2, <3>3, AcceptedIsStored DEF RequestStep
    <2>4. CASE ReconcileUnresolved(r)
      BY <2>1, <2>4 DEF ReconcileUnresolved, Reconcilable, RequestStep
    <2>5. QED
      BY <1>2, <2>2, <2>3, <2>4 DEF Reconcile
  <1>3. ASSUME NEW r \in Requests, Deploy(r) PROVE RequestStep
    <2>1. CASE StartSubmission(r)
      BY <2>1 DEF StartSubmission, RequestStep
    <2>2. QED
      BY <1>2, <1>3, <2>1 DEF Deploy
  <1>4. CASE SaveSubmitReply
    <2>1. call.of \in Requests /\ call.reply \in BrokerOrderSnapshot /\ call.at = "submitted"
      BY <1>1, <1>4, CallType DEF SaveSubmitReply
    <2>2. /\ request[call.of].order = NoOrder /\ request[call.of].status \notin FinalStatus
          /\ call.reply.order \in OrdersOf(call.of)
          /\ Reflects(call.reply, call.reply.order, call.reply.observed)
      BY <2>1 DEF EngineInv, StoredInv
    <2>3. Correlates(call.of, call.reply) => Admissible(call.of, call.reply)
      BY <2>1, <2>2 DEF Correlates, Admissible, EngineInv, ReplyIsGenuine
    <2>4. QED
      BY <1>4, <2>1, <2>3 DEF SaveSubmitReply, RequestStep, Stores
  <1>5. CASE SaveSubmitLost
    <2>1. call.of \in Requests /\ call.at = "lost"
      BY <1>1, <1>5, CallType DEF SaveSubmitLost
    <2>2. request[call.of].status \notin FinalStatus
      BY <2>1 DEF EngineInv, StoredInv
    <2>3. QED
      BY <1>5, <2>1, <2>2 DEF SaveSubmitLost, RequestStep
  <1>6. CASE SaveCancelReply
    <2>1. call.of \in Requests /\ call.reply \in BrokerOrderSnapshot /\ call.at = "cancelled"
      BY <1>1, <1>6, CallType DEF SaveCancelReply
    <2>2. /\ request[call.of].status \notin FinalStatus
          /\ call.reply.order \in OrdersOf(call.of)
          /\ Reflects(call.reply, call.reply.order, call.reply.observed)
          /\ request[call.of].broker = "simulated" =>
                call.reply.filled = truths[call.reply.order][call.reply.observed].filled
      BY <2>1 DEF EngineInv, StoredInv
    <2>3. Correlates(call.of, call.reply) /\ ~Stale(call.of, call.reply)
             => Admissible(call.of, call.reply)
      BY <2>1, <2>2 DEF Correlates, Admissible, EngineInv, ReplyIsGenuine
    <2>4. QED
      BY <1>6, <2>1, <2>3 DEF SaveCancelReply, AcceptBrokerTruth, RequestStep, Stores
  <1>7. CASE \/ \E r \in Requests : Cancel(r) \/ BrokerAccepts(r) \/ PlacementLost(r)
             \/ SendOrder \/ SubmitAnswered \/ SubmitFails \/ CancelAnswered \/ CancelFails
             \/ \E o \in OrderIds : BrokerMoves(o)
             \/ Crash \/ UNCHANGED vars
    BY <1>7 DEF Cancel, BrokerAccepts, PlacementLost, SendOrder, SubmitAnswered, SubmitFails,
                CancelAnswered, CancelFails, BrokerMoves, Crash, vars, RequestStep
  <1>8. QED
    BY <1>2, <1>3, <1>4, <1>5, <1>6, <1>7 DEF Next
------------------------------------------------------------------------------
(* Stored truth stays the truth of the request's own order. *)

\* e may be what is stored for r.
Entry(e, r) ==
    /\ IF e.order = NoOrder
       THEN e.status \notin FinalStatus /\ e.filled = 0 /\ e.observed = 0
       ELSE e.order \in OrdersOf(r) /\ Reflects(e, e.order, e.observed)
    /\ e.status \in FinalStatus => truths[e.order][e.observed].asOrdered

\* The operation in progress knows of its request what is stored of it.
CallSound ==
    /\ call.at \in {"submit", "waiting", "lost", "submitted"} =>
          request[call.of].order = NoOrder
    /\ call.at \in {"cancelling", "cancelled"} =>
          /\ request[call.of].order # NoOrder
          /\ request[call.of].status \notin FinalStatus
    /\ call.at = "cancelling" => call.order = request[call.of].order
    /\ call.at \in {"submitted", "cancelled"} =>
          /\ call.reply.order \in OrdersOf(call.of)
          /\ Reflects(call.reply, call.reply.order, call.reply.observed)
    /\ call.at = "cancelled" /\ request[call.of].broker = "simulated" =>
          call.reply.filled = truths[call.reply.order][call.reply.observed].filled

LEMMA StoredIsEntries ==
    StoredInv /\ EndsAsOrdered <=> CallSound /\ \A r \in Requests : Entry(request[r], r)
  BY DEF StoredInv, EndsAsOrdered, CallSound, Entry

\* Broker truth once stored is what the step leaves of that request.
LEMMA StoresEntry ==
    ASSUME EngineInv, NEW r \in Requests, NEW snap \in BrokerOrderSnapshot, Stores(r, snap)
    PROVE  /\ request'[r] = [broker |-> request[r].broker,
                             status |-> AsRequestStatus(snap.status), order |-> snap.order,
                             filled |-> snap.filled, observed |-> snap.observed]
           /\ Entry(request'[r], r)
           /\ \A s \in Requests \ {r} : request'[s] = request[s]
  <1>1. /\ request'[r] = [broker |-> request[r].broker,
                          status |-> AsRequestStatus(snap.status), order |-> snap.order,
                          filled |-> snap.filled, observed |-> snap.observed]
        /\ \A s \in Requests \ {r} : request'[s] = request[s]
    BY DEF EngineInv, TypeOK, Stores, ApplyBrokerTruth
  <1>2. snap.order # NoOrder
    BY EngineAssumption DEF BrokerOrderSnapshot
  <1>3. AsRequestStatus(snap.status) \in FinalStatus => AsRequestStatus(snap.status) = snap.status
    BY DEF AsRequestStatus, FinalStatus
  <1>4. Entry(request'[r], r)
    BY <1>1, <1>2, <1>3 DEF Entry, Stores, Admissible, Reflects
  <1>5. QED
    BY <1>1, <1>4

LEMMA OtherEntries ==
    ASSUME EngineInv, NEW r \in Requests, NEW status \in RequestStatus \ FinalStatus,
           request[r].status \notin FinalStatus,
           request' = [request EXCEPT ![r].status = status]
    PROVE  /\ request'[r].status = status
           /\ request'[r].order = request[r].order
           /\ request'[r].filled = request[r].filled
           /\ request'[r].observed = request[r].observed
           /\ Entry(request'[r], r)
           /\ \A s \in Requests \ {r} : request'[s] = request[s]
  <1>1. /\ request'[r].status = status
        /\ request'[r].order = request[r].order
        /\ request'[r].filled = request[r].filled
        /\ request'[r].observed = request[r].observed
        /\ \A s \in Requests \ {r} : request'[s] = request[s]
    BY DEF EngineInv, TypeOK, ExecutionRequest
  <1>2. Entry(request[r], r)
    BY StoredIsEntries DEF EngineInv
  <1>3. Entry(request'[r], r)
    BY <1>1, <1>2 DEF Entry, Reflects
  <1>4. QED
    BY <1>1, <1>3

LEMMA EntriesStay ==
    ASSUME EngineInv, RequestStep
    PROVE  \A r \in Requests : Entry(request'[r], r)
  <1>1. \A r \in Requests : Entry(request[r], r)
    BY StoredIsEntries DEF EngineInv
  <1>2. ASSUME NEW r \in Requests, NEW snap \in BrokerOrderSnapshot, Stores(r, snap)
        PROVE  \A s \in Requests : Entry(request'[s], s)
    BY <1>1, <1>2, StoresEntry
  <1>3. /\ "UNCERTAIN" \in RequestStatus \ FinalStatus
        /\ "SUBMITTING" \in RequestStatus \ FinalStatus
        /\ "READY" \notin FinalStatus
    BY DEF RequestStatus, FinalStatus
  <1>4. ASSUME NEW r \in Requests, request[r].status \notin FinalStatus, BecomeUncertain(r)
        PROVE  \A s \in Requests : Entry(request'[s], s)
    BY <1>1, <1>3, <1>4, OtherEntries DEF BecomeUncertain
  <1>5. ASSUME NEW r \in Requests, request[r].status = "READY",
               request' = [request EXCEPT ![r].status = "SUBMITTING"]
        PROVE  \A s \in Requests : Entry(request'[s], s)
    BY <1>1, <1>3, <1>5, OtherEntries
  <1>6. QED
    BY <1>1, <1>2, <1>4, <1>5 DEF RequestStep

\* What is stored stays true as the broker's history grows.
LEMMA EntriesLast ==
    ASSUME EngineInv, Grows, \A r \in Requests : Entry(request'[r], r)
    PROVE  \A r \in Requests : Entry(request[r], r)'
  <1> SUFFICES ASSUME NEW r \in Requests
               PROVE  Entry(request[r], r)'
    OBVIOUS
  <1>1. PICK e : e = request'[r]
    OBVIOUS
  <1>2. Entry(e, r) /\ OrdersOf(r) \subseteq OrdersOf(r)' /\ OrdersOf(r) \subseteq OrderIds
    BY <1>1, LastsInGrowth DEF OrdersOf
  <1>3. ASSUME e.order # NoOrder
        PROVE  /\ e.order \in OrdersOf(r)'
               /\ e.observed \in DOMAIN truths'[e.order]
               /\ truths'[e.order][e.observed] = truths[e.order][e.observed]
    BY <1>2, <1>3 DEF Entry, Reflects, Grows
  <1>4. QED
    BY <1>1, <1>2, <1>3 DEF Entry, Reflects

LEMMA CallUndisturbed ==
    ASSUME EngineInv, Grows, UNCHANGED <<call, request>>
    PROVE  CallSound' /\ ReplyIsGenuine'
  <1>1. CallSound /\ ReplyIsGenuine /\ TypeOK
    BY StoredIsEntries DEF EngineInv
  <1>2. ASSUME call.at \in {"submitted", "cancelled"}
        PROVE  /\ call.of \in Requests /\ call.reply.order \in OrderIds
               /\ call.reply.order \in OrdersOf(call.of)
               /\ Reflects(call.reply, call.reply.order, call.reply.observed)
               /\ OrdersOf(call.of) \subseteq OrdersOf(call.of)'
               /\ call.reply.observed \in DOMAIN truths[call.reply.order]
    BY <1>1, <1>2, CallType, LastsInGrowth DEF CallSound, OrdersOf, Reflects
  <1>3. call' = call /\ request' = request
    OBVIOUS
  <1>4. ASSUME call.at \in {"submitted", "cancelled"}
        PROVE  /\ truths'[call.reply.order][call.reply.observed]
                    = truths[call.reply.order][call.reply.observed]
               /\ call.reply.observed \in DOMAIN truths'[call.reply.order]
    BY <1>2, <1>4 DEF Grows
  <1>5. CallSound'
    BY <1>1, <1>2, <1>3, <1>4 DEF CallSound, Reflects
  <1>6. ReplyIsGenuine'
    BY <1>1, <1>3, <1>4 DEF ReplyIsGenuine
  <1>7. QED
    BY <1>5, <1>6
\* A call that has ended leaves nothing to be sound about.
LEMMA CallEnded ==
    ASSUME call' = Idle
    PROVE  CallSound' /\ ReplyIsGenuine'
  BY DEF CallSound, ReplyIsGenuine, Idle

\* A reply that shows the request's own order is sound to hold.
LEMMA ShownReply ==
    ASSUME TypeOK, NEW r \in Requests, NEW o \in OrdersOf(r), NEW snap, Shows(snap, o),
           UNCHANGED <<request, client, truths>>,
           \/ /\ call' = [at |-> "submitted", of |-> r, reply |-> snap]
              /\ request[r].order = NoOrder
           \/ /\ call' = [at |-> "cancelled", of |-> r, reply |-> snap]
              /\ request[r].order # NoOrder
              /\ request[r].status \notin FinalStatus
    PROVE  CallSound' /\ ReplyIsGenuine'
  <1>1. o \in OrderIds /\ snap.order = o /\ client[o] = r
    BY DEF OrdersOf, Shows
  <1>2. /\ Reflects(snap, o, snap.observed)
        /\ request[r].broker = "simulated" => snap.filled = truths[o][snap.observed].filled
        /\ snap.status \in FinalStatus /\ snap.asOrdered => truths[o][snap.observed].asOrdered
    BY <1>1 DEF Shows
  <1>3. /\ call'.of = r /\ call'.reply = snap
        /\ call'.at \in {"submitted", "cancelled"}
        /\ call'.at = "submitted" => request[r].order = NoOrder
        /\ call'.at = "cancelled" =>
              request[r].order # NoOrder /\ request[r].status \notin FinalStatus
    OBVIOUS
  <1>4. CallSound'
    BY <1>1, <1>2, <1>3 DEF CallSound, OrdersOf, Reflects
  <1>5. ReplyIsGenuine'
    BY <1>1, <1>2, <1>3 DEF ReplyIsGenuine
  <1>6. QED
    BY <1>4, <1>5

LEMMA CallStaysSound ==
    ASSUME EngineInv, [Next]_vars, Grows
    PROVE  CallSound' /\ ReplyIsGenuine'
  <1>1. TypeOK /\ CallSound /\ ExposureInv /\ HistoryInv
    BY StoredIsEntries DEF EngineInv
  <1>2. ASSUME NEW r \in Requests, Reconcile(r) PROVE CallSound' /\ ReplyIsGenuine'
    BY <1>2, CallEnded
       DEF Reconcile, ReconcileByClient, ReconcileByOrder, ReconcileUnresolved
  <1>3. ASSUME NEW r \in Requests, Deploy(r) PROVE CallSound' /\ ReplyIsGenuine'
    <2>1. ASSUME StartSubmission(r) PROVE CallSound' /\ ReplyIsGenuine'
      <3>1. request[r].order = NoOrder
        BY <1>1, <2>1 DEF StartSubmission, EngineInv, StoredInv, ExposureInv, ExposureIsDurable
      <3>2. request'[r].order = NoOrder /\ call' = [at |-> "submit", of |-> r]
        BY <1>1, <2>1, <3>1 DEF StartSubmission, TypeOK, ExecutionRequest
      <3>3. QED
        BY <3>2 DEF CallSound, ReplyIsGenuine
    <2>2. QED
      BY <1>2, <1>3, <2>1 DEF Deploy
  <1>4. CASE SendOrder
    <2>1. call' = [at |-> "waiting", of |-> call.of] /\ request[call.of].order = NoOrder
          /\ request' = request
      BY <1>1, <1>4 DEF SendOrder, CallSound
    <2>2. QED
      BY <2>1 DEF CallSound, ReplyIsGenuine
  <1>5. CASE SubmitFails
    <2>1. call' = [at |-> "lost", of |-> call.of] /\ request[call.of].order = NoOrder
          /\ request' = request
      BY <1>1, <1>5 DEF SubmitFails, CallSound
    <2>2. QED
      BY <2>1 DEF CallSound, ReplyIsGenuine
  <1>6. CASE SubmitAnswered
    <2>1. /\ call.of \in Requests /\ request[call.of].order = NoOrder
          /\ UNCHANGED <<request, client, truths>>
      BY <1>1, <1>6, CallType DEF SubmitAnswered, CallSound
    <2>2. PICK o \in OrdersOf(call.of) :
             \E snap \in {Snapshot(o, i, call.of) : i \in DOMAIN truths[o]}
                         \cup {Acknowledgement(o, call.of)} :
                call' = [at |-> "submitted", of |-> call.of, reply |-> snap]
      BY <1>6 DEF SubmitAnswered
    <2>3. PICK snap \in {Snapshot(o, i, call.of) : i \in DOMAIN truths[o]}
                      \cup {Acknowledgement(o, call.of)} :
             call' = [at |-> "submitted", of |-> call.of, reply |-> snap]
      BY <2>2
    <2>4. o \in OrderIds /\ truths[o] # <<>> /\ truths[o] \in Seq(Truth)
      BY <1>1, <2>1, EngineAssumption DEF OrdersOf, HistoryInv, TypeOK
    <2>5. ASSUME NEW i \in DOMAIN truths[o], snap = Snapshot(o, i, call.of)
          PROVE  CallSound' /\ ReplyIsGenuine'
      BY <1>1, <2>1, <2>3, <2>4, <2>5, SnapshotShows, ShownReply
    <2>6. ASSUME snap = Acknowledgement(o, call.of)
          PROVE  CallSound' /\ ReplyIsGenuine'
      <3>1. /\ snap.order = o /\ snap.observed = ObservedAt(o, 1) /\ snap.filled = 0
            /\ snap.status \notin FinalStatus
        BY <2>6 DEF Acknowledgement, FinalStatus
      <3>2. snap.observed \in DOMAIN truths[o] /\ truths[o][snap.observed] \in Truth
        BY <2>4, <3>1 DEF ObservedAt
      <3>3. Reflects(snap, o, snap.observed)
        BY <3>1, <3>2, EngineAssumption DEF Reflects, Truth
      <3>4. call'.at = "submitted" /\ call'.of = call.of /\ call'.reply = snap
        BY <2>3
      <3>5. CallSound'
        BY <2>1, <3>1, <3>3, <3>4 DEF CallSound, OrdersOf, Reflects
      <3>6. QED
        BY <3>1, <3>4, <3>5 DEF ReplyIsGenuine
    <2>7. QED
      BY <2>3, <2>5, <2>6
  <1>7. CASE SaveSubmitReply \/ SaveSubmitLost \/ CancelFails \/ SaveCancelReply \/ Crash
    BY <1>7, CallEnded DEF SaveSubmitReply, SaveSubmitLost, CancelFails, SaveCancelReply, Crash
  <1>8. ASSUME NEW r \in Requests, Cancel(r) PROVE CallSound' /\ ReplyIsGenuine'
    <2>1. /\ call' = [at |-> "cancelling", of |-> r, order |-> request[r].order]
          /\ request' = request
          /\ request[r].order # NoOrder /\ request[r].status \notin FinalStatus
      BY <1>8 DEF Cancel
    <2>2. QED
      BY <2>1 DEF CallSound, ReplyIsGenuine
  <1>9. CASE CancelAnswered
    <2>1. /\ call.of \in Requests /\ call.order \in OrderIds
          /\ call.order = request[call.of].order
          /\ request[call.of].order # NoOrder /\ request[call.of].status \notin FinalStatus
          /\ UNCHANGED <<request, client, truths>>
      BY <1>1, <1>9, CallType DEF CancelAnswered, CallSound
    <2>2. PICK snap \in ReadByOrder(call.order) :
             call' = [at |-> "cancelled", of |-> call.of, reply |-> snap]
      BY <1>9 DEF CancelAnswered
    <2>3. call.order \in OrdersOf(call.of)
      BY <2>1 DEF EngineInv, StoredInv
    <2>4. Shows(snap, call.order)
      BY <1>1, <2>1, ReadsShow
    <2>5. QED
      BY <1>1, <2>1, <2>2, <2>3, <2>4, ShownReply
  <1>10. CASE \/ \E r \in Requests : BrokerAccepts(r) \/ PlacementLost(r)
              \/ \E o \in OrderIds : BrokerMoves(o)
              \/ UNCHANGED vars
    BY <1>10, CallUndisturbed DEF BrokerAccepts, PlacementLost, BrokerMoves, vars
  <1>11. QED
    BY <1>2, <1>3, <1>4, <1>5, <1>6, <1>7, <1>8, <1>9, <1>10 DEF Next

LEMMA EngineInductive == EngineInv /\ TypeOK' /\ [Next]_vars => EngineInv'
  <1> SUFFICES ASSUME EngineInv, TypeOK', [Next]_vars PROVE EngineInv'
    OBVIOUS
  <1>1. Grows /\ HistoryInv'
    BY StepAtBroker, HistoryGrows
  <1>2. ExposureInv'
    BY ExposureInductive DEF EngineInv
  <1>3. \A r \in Requests : Entry(request[r], r)'
    BY <1>1, StepOnRequests, EntriesStay, EntriesLast
  <1>4. CallSound' /\ ReplyIsGenuine'
    BY <1>1, CallStaysSound
  <1>5. StoredInv' /\ EndsAsOrdered'
    BY <1>3, <1>4 DEF StoredInv, EndsAsOrdered, CallSound, Entry
  <1>6. QED
    BY <1>1, <1>2, <1>4, <1>5 DEF EngineInv

LEMMA EngineAlways == Spec => []EngineInv
  <1>1. Init => HistoryInv /\ StoredInv /\ ReplyIsGenuine /\ EndsAsOrdered
    BY DEF Init, HistoryInv, StoredInv, ReplyIsGenuine, EndsAsOrdered, Idle, FinalStatus
  <1>2. TypeOK /\ ExposureInv /\ HistoryInv /\ StoredInv /\ ReplyIsGenuine /\ EndsAsOrdered
           <=> EngineInv
    BY DEF EngineInv
  <1>3. Init => ExposureInv
    BY EngineAssumption
       DEF Init, ExposureInv, AtMostOneOrder, ExposureIsDurable, OrdersOf, Idle
  <1>4. QED
    BY <1>1, <1>2, <1>3, TypeCorrect, EngineInductive, PTL DEF Spec
------------------------------------------------------------------------------
(* A final status is the broker's. *)

\* A final state is the last that the order was in.
LEMMA EndIsLast ==
    ASSUME EngineInv, NEW r \in Requests, request[r].status \in FinalStatus
    PROVE  /\ request[r].order \in OrdersOf(r)
           /\ request[r].order \in OrderIds
           /\ Current(request[r].order) = truths[request[r].order][request[r].observed]
           /\ Current(request[r].order).status = request[r].status
           /\ Current(request[r].order).filled = request[r].filled
           /\ Current(request[r].order).asOrdered
  <1>1. PICK o : o = request[r].order
    OBVIOUS
  <1>2. PICK i : i = request[r].observed
    OBVIOUS
  <1>3. o \in OrdersOf(r) /\ o \in OrderIds /\ Reflects(request[r], o, i)
    BY <1>1, <1>2 DEF EngineInv, StoredInv, OrdersOf
  <1>4. truths[o] \in Seq(Truth) /\ i \in DOMAIN truths[o]
    BY <1>3 DEF EngineInv, TypeOK, Reflects
  <1>5. /\ truths[o][i].status = request[r].status
        /\ truths[o][i].filled = request[r].filled
        /\ truths[o][i].asOrdered
    BY <1>1, <1>2, <1>3 DEF Reflects, EngineInv, EndsAsOrdered
  <1>6. i = Len(truths[o])
    <2>1. i \in 1..Len(truths[o]) /\ Len(truths[o]) \in DOMAIN truths[o]
      BY <1>4
    <2>2. ~(i < Len(truths[o]))
      BY <1>3, <1>4, <1>5, <2>1 DEF EngineInv, HistoryInv
    <2>3. QED
      BY <2>1, <2>2
  <1>7. QED
    BY <1>1, <1>2, <1>3, <1>5, <1>6 DEF Current

\* THEOREM FinalIsTrue states that a request reported final is final at the broker, with that
\* status and that fill: no missing, failed or stale answer is taken for an end
\* (FinalStatusIsBrokerTruth).
THEOREM FinalIsTrue == Spec => []FinalStatusIsBrokerTruth
  <1>1. EngineInv => FinalStatusIsBrokerTruth
    BY EndIsLast DEF FinalStatusIsBrokerTruth
  <1>2. QED
    BY <1>1, EngineAlways, PTL
------------------------------------------------------------------------------
(* Accepted broker truth never moves back. *)

\* The body of BrokerTruthNeverRetreats for one request.
Keeps(r) ==
    /\ request'[r].observed >= request[r].observed
    /\ request[r].broker = "simulated" => request'[r].filled >= request[r].filled
    /\ request[r].order # NoOrder => request'[r].order = request[r].order
    /\ request[r].status \in FinalStatus => request'[r] = request[r]

LEMMA StoringKeeps ==
    ASSUME EngineInv, NEW r \in Requests, NEW snap \in BrokerOrderSnapshot, Stores(r, snap)
    PROVE  Keeps(r)
  <1>1. /\ request'[r].observed = snap.observed
        /\ request'[r].filled = snap.filled
        /\ request'[r].order = snap.order
    <2>1. request'[r] = [broker |-> request[r].broker,
                         status |-> AsRequestStatus(snap.status), order |-> snap.order,
                         filled |-> snap.filled, observed |-> snap.observed]
      BY StoresEntry
    <2>2. QED
      BY <2>1
  <1>2. /\ request[r].status \notin FinalStatus
        /\ request[r].observed \in Nat /\ snap.observed \in Nat
        /\ request[r].filled \in Nat /\ snap.filled \in Nat
    BY EngineAssumption
       DEF Stores, Admissible, EngineInv, TypeOK, ExecutionRequest, BrokerOrderSnapshot
  <1>3. CASE request[r].order = NoOrder
    <2>1. request[r].observed = 0 /\ request[r].filled = 0
      BY <1>3 DEF EngineInv, StoredInv
    <2>2. QED
      BY <1>1, <1>2, <1>3, <2>1 DEF Keeps
  <1>4. CASE request[r].order # NoOrder
    <2>1. PICK o \in OrderIds : o = request[r].order /\ o \in OrdersOf(r)
      BY <1>4 DEF EngineInv, StoredInv, OrdersOf
    <2>2. snap.order = o
      BY <2>1, EngineAssumption
         DEF Stores, Admissible, EngineInv, ExposureInv, AtMostOneOrder, OrdersOf
    <2>3. PICK i, j \in DOMAIN truths[o] : i = request[r].observed /\ j = snap.observed
      BY <1>4, <2>1, <2>2 DEF EngineInv, StoredInv, Reflects, Stores, Admissible
    <2>4. truths[o] \in Seq(Truth) /\ i \in Nat \ {0} /\ j \in Nat \ {0}
      BY <2>1, <2>3 DEF EngineInv, TypeOK
    <2>5. i <= j
      BY <1>4, <2>3, <2>4 DEF Stores, Admissible, Stale
    <2>6. truths[o][i] \in Truth /\ truths[o][j] \in Truth
      BY <2>3, <2>4
    <2>7. truths[o][i].filled <= truths[o][j].filled
      <3>1. truths[o][i].filled \in Nat
        BY <2>6, EngineAssumption DEF Truth
      <3>2. CASE i = j
        BY <3>1, <3>2
      <3>3. CASE i < j
        BY <2>1, <2>3, <3>3 DEF EngineInv, HistoryInv
      <3>4. QED
        BY <2>4, <2>5, <3>2, <3>3
    <2>8. request[r].filled <= truths[o][i].filled
      BY <1>4, <2>1, <2>3 DEF EngineInv, StoredInv, Reflects
    <2>9. request[r].broker = "simulated" => snap.filled = truths[o][j].filled
      BY <1>4, <2>2, <2>3 DEF Stores, Admissible
    <2>10. truths[o][i].filled \in Nat /\ truths[o][j].filled \in Nat
      BY <2>6, EngineAssumption DEF Truth
    <2>11. request[r].broker = "simulated" => request[r].filled <= snap.filled
      BY <1>2, <2>7, <2>8, <2>9, <2>10
    <2>12. QED
      BY <1>1, <1>2, <2>1, <2>2, <2>3, <2>4, <2>5, <2>11 DEF Keeps
  <1>5. QED
    BY <1>3, <1>4

LEMMA UnmovedKeeps ==
    ASSUME TypeOK, NEW r \in Requests,
           \/ request'[r] = request[r]
           \/ /\ request[r].status \notin FinalStatus
              /\ request'[r].observed = request[r].observed
              /\ request'[r].filled = request[r].filled
              /\ request'[r].order = request[r].order
    PROVE  Keeps(r)
  <1>1. request[r].observed \in Nat /\ request[r].filled \in Nat
    BY EngineAssumption DEF TypeOK, ExecutionRequest
  <1>2. QED
    BY <1>1 DEF Keeps

LEMMA RequestsKeep ==
    ASSUME EngineInv, RequestStep
    PROVE  \A r \in Requests : Keeps(r)
  <1>1. TypeOK
    BY DEF EngineInv
  <1>2. CASE UNCHANGED request
    BY <1>1, <1>2, UnmovedKeeps
  <1>3. ASSUME NEW r \in Requests, NEW snap \in BrokerOrderSnapshot, Stores(r, snap)
        PROVE  \A s \in Requests : Keeps(s)
    BY <1>1, <1>3, StoringKeeps, StoresEntry, UnmovedKeeps
  <1>4. /\ "UNCERTAIN" \in RequestStatus \ FinalStatus
        /\ "SUBMITTING" \in RequestStatus \ FinalStatus
        /\ "READY" \notin FinalStatus
    BY DEF RequestStatus, FinalStatus
  <1>5. ASSUME NEW r \in Requests, NEW status \in {"UNCERTAIN", "SUBMITTING"},
               request[r].status \notin FinalStatus,
               request' = [request EXCEPT ![r].status = status]
        PROVE  \A s \in Requests : Keeps(s)
    BY <1>1, <1>4, <1>5, OtherEntries, UnmovedKeeps
  <1>6. QED
    BY <1>2, <1>3, <1>4, <1>5 DEF RequestStep, BecomeUncertain

\* THEOREM TruthAdvances states that stored broker truth never moves back: not its time, not
\* the order's identity, that an end is final, and that the fill does not fall either when the
\* request's broker stamps its states with their own time, as the simulator does and the live
\* adapter does not (BrokerTruthNeverRetreats).
THEOREM TruthAdvances == Spec => BrokerTruthNeverRetreats
  <1> DEFINE Body == \A r \in Requests : Keeps(r)
  <1>1. EngineInv /\ [Next]_vars => Body
    BY StepOnRequests, RequestsKeep
  <1>2. BrokerTruthNeverRetreats <=> [][Body]_vars
    BY DEF BrokerTruthNeverRetreats, Keeps
  <1> HIDE DEF Body
  <1>3. QED
    BY <1>1, <1>2, EngineAlways, PTL DEF Spec
------------------------------------------------------------------------------
(* The engine implements OrderOutcome. *)

\* What the abstract specification sees of an order in the state t.
Seen(t) ==
    IF t.status \in FinalStatus /\ t.asOrdered
    THEN [status |-> t.status, filled |-> t.filled]
    ELSE [status |-> "working", filled |-> 0]

LEMMA SeenType ==
    ASSUME NEW t \in Truth
    PROVE  /\ Seen(t) \in {Outcomes!Working} \cup Outcomes!Outcome
           /\ t.status \notin FinalStatus => Seen(t) = Outcomes!Working
  BY DEF Seen, Truth, FinalStatus, Outcomes!Working, Outcomes!Outcome

\* The exposure of a request is what is seen of its order.
SeenInv == \A r \in Requests : \A o \in OrdersOf(r) : BrokerExposure(r) = Seen(Current(o))

LEMMA ExposureIsSeen == ExposureInv => SeenInv
  <1> SUFFICES ASSUME ExposureInv, NEW r \in Requests, NEW o \in OrdersOf(r)
               PROVE  BrokerExposure(r) = Seen(Current(o))
    BY DEF SeenInv
  <1>1. \A p \in OrdersOf(r) : p = o
    BY EngineAssumption DEF ExposureInv, AtMostOneOrder, OrdersOf
  <1>2. (CHOOSE p \in OrdersOf(r) : TRUE) = o
    BY <1>1
  <1>3. QED
    BY <1>2 DEF BrokerExposure, Seen

LEMMA ExposureIsSeenNext == ExposureInv' => SeenInv'
  BY ExposureIsSeen, PTL

\* A reported end is what is seen of the order.
EndInv == \A r \in Requests :
    request[r].status \in FinalStatus =>
        /\ request[r].order \in OrdersOf(r)
        /\ Seen(Current(request[r].order)) = DurableReport(r)

LEMMA EndIsSeen == EngineInv => EndInv
  BY EndIsLast DEF EndInv, Seen, DurableReport

LEMMA EndIsSeenNext == EngineInv' => EndInv'
  BY EndIsSeen, PTL

LEMMA NoExposure ==
    ASSUME NEW r \in Requests, OrdersOf(r) = {}
    PROVE  BrokerExposure(r) = Outcomes!None
  BY DEF BrokerExposure, Outcomes!None

LEMMA NoReport ==
    ASSUME NEW r \in Requests, request[r].status \notin FinalStatus
    PROVE  DurableReport(r) = Outcomes!None
  BY DEF DurableReport, Outcomes!None

LEMMA AppendedIsCurrent ==
    ASSUME NEW s \in Seq(Truth), NEW t \in Truth
    PROVE  Append(s, t)[Len(Append(s, t))] = t
  OBVIOUS

Exposures == [r \in Requests |-> BrokerExposure(r)]
Reports == [r \in Requests |-> DurableReport(r)]

AbstractStep ==
    \/ UNCHANGED <<Exposures, Reports>>
    \/ \E r \in Requests :
          \/ /\ BrokerExposure(r) = Outcomes!None
             /\ \E e \in {Outcomes!Working} \cup Outcomes!Outcome :
                   Exposures' = [Exposures EXCEPT ![r] = e]
             /\ UNCHANGED Reports
          \/ /\ BrokerExposure(r) = Outcomes!Working
             /\ \E e \in Outcomes!Outcome : Exposures' = [Exposures EXCEPT ![r] = e]
             /\ UNCHANGED Reports
          \/ /\ BrokerExposure(r) \in Outcomes!Outcome
             /\ DurableReport(r) = Outcomes!None
             /\ Reports' = [Reports EXCEPT ![r] = BrokerExposure(r)]
             /\ UNCHANGED Exposures

\* An abstract table of which one entry changes.
LEMMA OneExposureChanges ==
    ASSUME NEW r \in Requests, NEW e, BrokerExposure(r)' = e,
           \A s \in Requests \ {r} : BrokerExposure(s)' = BrokerExposure(s)
    PROVE  Exposures' = [Exposures EXCEPT ![r] = e]
  BY DEF Exposures

LEMMA OneReportChanges ==
    ASSUME NEW r \in Requests, NEW e, DurableReport(r)' = e,
           \A s \in Requests \ {r} : DurableReport(s)' = DurableReport(s)
    PROVE  Reports' = [Reports EXCEPT ![r] = e]
  BY DEF Reports

LEMMA MoveIsAbstract ==
    ASSUME EngineInv, EngineInv', UNCHANGED request, NEW o \in OrderIds, NEW t \in Truth,
           OrderMoves(o, t)
    PROVE  AbstractStep
  <1>1. truths[o] \in Seq(Truth) /\ truths[o] # <<>> /\ client' = client
    BY DEF EngineInv, TypeOK, OrderMoves
  <1>2. PICK r \in Requests : client[o] = r
    BY <1>1 DEF EngineInv, HistoryInv, TypeOK
  <1>3. /\ truths'[o] = Append(truths[o], t)
        /\ \A p \in OrderIds \ {o} : truths'[p] = truths[p]
    BY DEF EngineInv, TypeOK, OrderMoves
  <1>4. Current(o)' = t /\ \A p \in OrderIds \ {o} : Current(p)' = Current(p)
    BY <1>1, <1>3, AppendedIsCurrent DEF Current
  <1>5. \A s \in Requests : OrdersOf(s)' = OrdersOf(s) /\ OrdersOf(s) \subseteq OrderIds
    BY <1>1 DEF OrdersOf
  <1>6. o \in OrdersOf(r) /\ \A s \in Requests \ {r} : o \notin OrdersOf(s)
    BY <1>2 DEF OrdersOf
  <1>7. SeenInv /\ SeenInv'
    BY ExposureIsSeen, ExposureIsSeenNext DEF EngineInv
  <1>8. BrokerExposure(r) = Outcomes!Working
    <2>1. Current(o) \in Truth /\ Current(o).status \notin FinalStatus
      BY <1>1 DEF OrderMoves, NextTruths, Current
    <2>2. QED
      BY <1>6, <1>7, <2>1, SeenType DEF SeenInv
  <1>9. BrokerExposure(r)' = Seen(t)
    <2>1. BrokerExposure(r)' = Seen(Current(o))'
      BY <1>5, <1>6, <1>7 DEF SeenInv
    <2>2. QED
      BY <1>4, <2>1 DEF Seen
  <1>10. \A s \in Requests \ {r} : BrokerExposure(s)' = BrokerExposure(s)
    <2> SUFFICES ASSUME NEW s \in Requests \ {r} PROVE BrokerExposure(s)' = BrokerExposure(s)
      OBVIOUS
    <2>1. CASE OrdersOf(s) = {}
      BY <1>5, <2>1 DEF BrokerExposure
    <2>2. ASSUME NEW p \in OrdersOf(s) PROVE BrokerExposure(s)' = BrokerExposure(s)
      <3>1. p # o /\ p \in OrderIds /\ Current(p)' = Current(p)
        BY <1>4, <1>5, <1>6
      <3>2. BrokerExposure(s) = Seen(Current(p)) /\ BrokerExposure(s)' = Seen(Current(p))'
        BY <1>5, <1>7 DEF SeenInv
      <3>3. QED
        BY <3>1, <3>2 DEF Seen
    <2>3. QED
      BY <2>1, <2>2
  <1>11. UNCHANGED Reports
    BY DEF Reports, DurableReport
  <1>12. Exposures' = [Exposures EXCEPT ![r] = Seen(t)]
    BY <1>9, <1>10, OneExposureChanges
  <1>13. CASE Seen(t) = Outcomes!Working
    <2>1. UNCHANGED Exposures
      BY <1>8, <1>12, <1>13 DEF Exposures
    <2>2. QED
      BY <1>11, <2>1 DEF AbstractStep
  <1>14. CASE Seen(t) \in Outcomes!Outcome
    BY <1>8, <1>11, <1>12, <1>14 DEF AbstractStep
  <1>15. QED
    BY <1>13, <1>14, SeenType

LEMMA PlacementIsAbstract ==
    ASSUME EngineInv, EngineInv', UNCHANGED request, NEW r \in Requests, NEW o \in OrderIds,
           NEW t \in FirstTruths, OrderMade(r, o, t)
    PROVE  AbstractStep
  <1>1. /\ truths'[o] = <<t>> /\ client'[o] = r /\ client[o] = NoRequest /\ t \in Truth
        /\ \A p \in OrderIds \ {o} : truths'[p] = truths[p] /\ client'[p] = client[p]
    BY DEF EngineInv, TypeOK, OrderMade, FirstTruths
  <1>2. OrdersOf(r) = {} /\ o \in OrdersOf(r)'
    BY <1>1 DEF EngineInv, ExposureInv, OrderMade, OrdersOf
  <1>3. \A s \in Requests \ {r} : OrdersOf(s)' = OrdersOf(s) /\ o \notin OrdersOf(s)
    BY <1>1, EngineAssumption DEF OrdersOf
  <1>4. Current(o)' = t /\ \A p \in OrderIds \ {o} : Current(p)' = Current(p)
    BY <1>1 DEF Current
  <1>5. SeenInv /\ SeenInv'
    BY ExposureIsSeen, ExposureIsSeenNext DEF EngineInv
  <1>6. BrokerExposure(r) = Outcomes!None
    BY <1>2, NoExposure
  <1>7. BrokerExposure(r)' = Seen(t)
    <2>1. BrokerExposure(r)' = Seen(Current(o))'
      BY <1>2, <1>5 DEF SeenInv
    <2>2. QED
      BY <1>4, <2>1 DEF Seen
  <1>8. \A s \in Requests \ {r} : BrokerExposure(s)' = BrokerExposure(s)
    <2> SUFFICES ASSUME NEW s \in Requests \ {r} PROVE BrokerExposure(s)' = BrokerExposure(s)
      OBVIOUS
    <2>1. CASE OrdersOf(s) = {}
      BY <1>3, <2>1 DEF BrokerExposure
    <2>2. ASSUME NEW p \in OrdersOf(s) PROVE BrokerExposure(s)' = BrokerExposure(s)
      <3>1. p # o /\ p \in OrderIds
        BY <1>3 DEF OrdersOf
      <3>2. BrokerExposure(s) = Seen(Current(p)) /\ BrokerExposure(s)' = Seen(Current(p))'
        BY <1>3, <1>5 DEF SeenInv
      <3>3. QED
        BY <1>4, <3>1, <3>2 DEF Seen
    <2>3. QED
      BY <2>1, <2>2
  <1>9. Exposures' = [Exposures EXCEPT ![r] = Seen(t)] /\ UNCHANGED Reports
    BY <1>7, <1>8, OneExposureChanges DEF Reports, DurableReport
  <1>10. QED
    BY <1>1, <1>6, <1>9, SeenType DEF AbstractStep

LEMMA StoringIsAbstract ==
    ASSUME EngineInv, EngineInv', UNCHANGED <<client, truths>>, NEW r \in Requests,
           request[r].status \notin FinalStatus,
           \A s \in Requests \ {r} : request'[s] = request[s]
    PROVE  AbstractStep
  <1>1. \A s \in Requests \ {r} : DurableReport(s)' = DurableReport(s)
    BY DEF DurableReport
  <1>2. UNCHANGED Exposures /\ \A s \in Requests : BrokerExposure(s)' = BrokerExposure(s)
    BY DEF Exposures, BrokerExposure, OrdersOf, Current
  <1>3. DurableReport(r) = Outcomes!None
    BY NoReport
  <1>4. CASE request'[r].status \notin FinalStatus
    <2>1. DurableReport(r)' = DurableReport(r)
      BY <1>3, <1>4 DEF DurableReport, Outcomes!None
    <2>2. QED
      BY <1>1, <1>2, <2>1 DEF AbstractStep, Reports
  <1>5. CASE request'[r].status \in FinalStatus
    <2>1. /\ request'[r].order \in OrdersOf(r)'
          /\ Seen(Current(request[r].order))' = DurableReport(r)'
      BY <1>5, EndIsSeenNext DEF EndInv
    <2>2. SeenInv'
      BY ExposureIsSeenNext DEF EngineInv
    <2>3. BrokerExposure(r)' = DurableReport(r)'
      BY <2>1, <2>2 DEF SeenInv
    <2>4. BrokerExposure(r) = DurableReport(r)'
      BY <1>2, <2>3
    <2>5. DurableReport(r)' \in Outcomes!Outcome
      BY <1>5 DEF DurableReport, EngineInv, TypeOK, ExecutionRequest, FinalStatus, Outcomes!Outcome
    <2>6. Reports' = [Reports EXCEPT ![r] = BrokerExposure(r)]
      BY <1>1, <2>4, OneReportChanges
    <2>7. QED
      BY <1>2, <1>3, <2>4, <2>5, <2>6 DEF AbstractStep
  <1>6. QED
    BY <1>4, <1>5

LEMMA StepIsAbstract ==
    ASSUME EngineInv, EngineInv', [Next]_vars
    PROVE  AbstractStep
  <1>1. BrokerStep /\ RequestStep
    BY StepAtBroker, StepOnRequests
  <1>2. CASE UNCHANGED <<client, truths, request>>
    BY <1>2 DEF AbstractStep, Exposures, Reports, BrokerExposure, DurableReport, OrdersOf, Current
  <1>3. CASE UNCHANGED <<client, truths>> /\ ~UNCHANGED request
    <2>1. /\ "UNCERTAIN" \in RequestStatus \ FinalStatus
          /\ "SUBMITTING" \in RequestStatus \ FinalStatus
          /\ "READY" \notin FinalStatus
      BY DEF RequestStatus, FinalStatus
    <2>2. \E r \in Requests : /\ request[r].status \notin FinalStatus
                              /\ \A s \in Requests \ {r} : request'[s] = request[s]
      <3>1. ASSUME NEW r \in Requests, NEW snap \in BrokerOrderSnapshot, Stores(r, snap)
            PROVE  /\ request[r].status \notin FinalStatus
                   /\ \A s \in Requests \ {r} : request'[s] = request[s]
        <4>1. \A s \in Requests \ {r} : request'[s] = request[s]
          BY <3>1, StoresEntry
        <4>2. QED
          BY <3>1, <4>1 DEF Stores, Admissible
      <3>2. ASSUME NEW r \in Requests, NEW status \in {"UNCERTAIN", "SUBMITTING"},
                   request[r].status \notin FinalStatus,
                   request' = [request EXCEPT ![r].status = status]
            PROVE  \A s \in Requests \ {r} : request'[s] = request[s]
        BY <2>1, <3>2, OtherEntries
      <3>3. QED
        BY <1>1, <1>3, <2>1, <3>1, <3>2 DEF RequestStep, BecomeUncertain
    <2>3. QED
      BY <1>3, <2>2, StoringIsAbstract
  <1>4. CASE ~UNCHANGED <<client, truths>>
    BY <1>1, <1>4, MoveIsAbstract, PlacementIsAbstract DEF BrokerStep
  <1>5. QED
    BY <1>2, <1>3, <1>4

LEMMA AbstractStepIsNext ==
    AbstractStep => [Outcomes!Next]_(Outcomes!vars)
  <1>1. Exposures = [r \in Requests |-> BrokerExposure(r)]
        /\ Reports = [r \in Requests |-> DurableReport(r)]
    BY DEF Exposures, Reports
  <1>2. ASSUME UNCHANGED <<Exposures, Reports>>
        PROVE  [Outcomes!Next]_(Outcomes!vars)
    BY <1>2 DEF Exposures, Reports, Outcomes!vars
  <1>3. ASSUME NEW r \in Requests, BrokerExposure(r) = Outcomes!None,
               NEW e \in {Outcomes!Working} \cup Outcomes!Outcome,
               Exposures' = [Exposures EXCEPT ![r] = e], UNCHANGED Reports
        PROVE  Outcomes!Place(r)
    BY <1>3 DEF Exposures, Reports, Outcomes!Place
  <1>4. ASSUME NEW r \in Requests, BrokerExposure(r) = Outcomes!Working,
               NEW e \in Outcomes!Outcome,
               Exposures' = [Exposures EXCEPT ![r] = e], UNCHANGED Reports
        PROVE  Outcomes!Finish(r)
    BY <1>4 DEF Exposures, Reports, Outcomes!Finish
  <1>5. ASSUME NEW r \in Requests, BrokerExposure(r) \in Outcomes!Outcome,
               DurableReport(r) = Outcomes!None,
               Reports' = [Reports EXCEPT ![r] = BrokerExposure(r)], UNCHANGED Exposures
        PROVE  Outcomes!Report(r)
    BY <1>5 DEF Exposures, Reports, Outcomes!Report
  <1>6. QED
    BY <1>2, <1>3, <1>4, <1>5 DEF AbstractStep, Outcomes!Next

\* THEOREM ImplementsOutcome states that the engine implements OrderOutcome: a request becomes
\* exposure once, ends once, and is reported once, as it ended (ImplementsOrderOutcome).
THEOREM ImplementsOutcome == Spec => ImplementsOrderOutcome
  <1>1. Init => Outcomes!Init
    <2> SUFFICES ASSUME Init PROVE Outcomes!Init
      OBVIOUS
    <2>1. \A r \in Requests : OrdersOf(r) = {} /\ request[r].status \notin FinalStatus
      BY EngineAssumption DEF Init, OrdersOf, FinalStatus
    <2>2. \A r \in Requests : /\ BrokerExposure(r) = Outcomes!None
                              /\ DurableReport(r) = Outcomes!None
      BY <2>1, NoExposure, NoReport
    <2>3. QED
      BY <2>2 DEF Outcomes!Init
  <1>2. EngineInv /\ EngineInv' /\ [Next]_vars => [Outcomes!Next]_(Outcomes!vars)
    BY StepIsAbstract, AbstractStepIsNext
  <1>3. QED
    BY <1>1, <1>2, EngineAlways, PTL DEF Spec, ImplementsOrderOutcome, Outcomes!Spec
=============================================================================
