------------------------ MODULE EntryExecutionProofs -------------------------
(***************************************************************************)
(* Theorems about EntryExecution, for any brokers, intents, limits, order   *)
(* ids and bounds.  The system implements both of its parts, so what is     *)
(* proved of EntryAuthorization and of ExecutionEngine holds of it; what is *)
(* true of neither alone follows from GateInv, which ties the two: Module M *)
(* has begun nothing but what the gate has handed over, and while an order  *)
(* is about to leave, the gate's permission for it still holds.             *)
(***************************************************************************)
EXTENDS EntryExecution, EntryAuthorizationProofs

\* The theorems of the engine, for the requests of the entries.
P == INSTANCE ExecutionEngineProofs
------------------------------------------------------------------------------
(* The engine of the system is the engine of those theorems. *)

\* The engine's constants are as its theorems assume.
LEMMA EngineAssumed == P!EngineAssumption
  BY HandoverAssumption DEF M!EngineAssumption, P!EngineAssumption

\* The two instances of the engine, the one the system is built from (M) and the one its theorems
\* speak of (P), mean the same: types, orders, operations, steps and behaviours.
LEMMA SameTypes == M!TypeOK <=> P!TypeOK
  BY DEF M!TypeOK, P!TypeOK, M!ExecutionRequest, P!ExecutionRequest, M!RequestStatus,
         P!RequestStatus, M!FinalStatus, P!FinalStatus, M!Truth, P!Truth, M!BrokerStatus,
         P!BrokerStatus, M!Call, P!Call, M!BrokerOrderSnapshot, P!BrokerOrderSnapshot

\* As above, of the orders.
LEMMA SameOrders ==
    ASSUME NEW r
    PROVE  M!OrdersOf(r) = P!OrdersOf(r) /\ M!OrdersOf(r)' = P!OrdersOf(r)'
  BY DEF M!OrdersOf, P!OrdersOf

\* As above, of reconciling.
LEMMA SameReconcile == ASSUME NEW r PROVE M!Reconcile(r) <=> P!Reconcile(r)
  BY DEF M!Reconcile, P!Reconcile, M!ReconcileByClient, P!ReconcileByClient,
         M!ReconcileByOrder, P!ReconcileByOrder, M!ReconcileUnresolved, P!ReconcileUnresolved,
         M!Reconcilable, P!Reconcilable, M!FinalStatus, P!FinalStatus, M!AcceptBrokerTruth,
         P!AcceptBrokerTruth, M!Stale, P!Stale, M!Correlates, P!Correlates,
         M!ApplyBrokerTruth, P!ApplyBrokerTruth, M!AsRequestStatus, P!AsRequestStatus,
         M!BecomeUncertain, P!BecomeUncertain, M!ReadByClient, P!ReadByClient,
         M!ReadByOrder, P!ReadByOrder, M!Snapshot, P!Snapshot, M!OrdersOf, P!OrdersOf,
         M!ObservedAt, P!ObservedAt, M!Idle, P!Idle

\* As above, of cancelling.
LEMMA SameCancel == ASSUME NEW r PROVE M!Cancel(r) <=> P!Cancel(r)
  BY DEF M!Cancel, P!Cancel, M!CancelledFrom, P!CancelledFrom, M!NextTruths, P!NextTruths,
         M!Sound, P!Sound, M!FinalStatus, P!FinalStatus, M!Current, P!Current, M!Truth,
         P!Truth, M!BrokerStatus, P!BrokerStatus, M!Idle, P!Idle

\* As above, of a call in progress.
LEMMA SameProgress ==
    M!Progress <=> \/ P!SendOrder \/ P!SubmitAnswered \/ P!SubmitFails
                   \/ P!SaveSubmitReply \/ P!SaveSubmitLost
                   \/ P!CancelAnswered \/ P!CancelFails \/ P!SaveCancelReply
  BY DEF M!Progress, M!SendOrder, P!SendOrder, M!SubmitAnswered, P!SubmitAnswered,
         M!SubmitFails, P!SubmitFails, M!SaveSubmitReply, P!SaveSubmitReply,
         M!SaveSubmitLost, P!SaveSubmitLost, M!CancelAnswered, P!CancelAnswered,
         M!CancelFails, P!CancelFails, M!SaveCancelReply, P!SaveCancelReply,
         M!Acknowledgement, P!Acknowledgement, M!AcceptBrokerTruth, P!AcceptBrokerTruth,
         M!Stale, P!Stale, M!Correlates, P!Correlates, M!ApplyBrokerTruth,
         P!ApplyBrokerTruth, M!AsRequestStatus, P!AsRequestStatus, M!BecomeUncertain,
         P!BecomeUncertain, M!ReadByOrder, P!ReadByOrder, M!Snapshot, P!Snapshot,
         M!ObservedAt, P!ObservedAt, M!OrdersOf, P!OrdersOf, M!Idle, P!Idle

\* As above, of what the broker does.
LEMMA SameBroker ==
    /\ \A r \in Requests : M!BrokerAccepts(r) <=> P!BrokerAccepts(r)
    /\ \A r \in Requests : M!PlacementLost(r) <=> P!PlacementLost(r)
    /\ \A o \in OrderIds : M!BrokerMoves(o) <=> P!BrokerMoves(o)
  BY DEF M!BrokerAccepts, P!BrokerAccepts, M!PlacementLost, P!PlacementLost, M!BrokerMoves,
         P!BrokerMoves, M!FirstTruths, P!FirstTruths, M!NextTruths, P!NextTruths, M!Sound,
         P!Sound, M!FinalStatus, P!FinalStatus, M!Current, P!Current, M!Truth, P!Truth,
         M!BrokerStatus, P!BrokerStatus

\* As above, of a step.
LEMMA SameStep == [M!Next]_(M!vars) <=> [P!Next]_(P!vars)
<1>1. M!vars = P!vars
  BY DEF M!vars, P!vars
<1>2. M!Crash <=> P!Crash
  BY DEF M!Crash, P!Crash, M!Idle, P!Idle
<1>3. \A r \in Requests : M!Deploy(r) <=> P!Deploy(r)
  BY SameReconcile DEF M!Deploy, P!Deploy, M!StartSubmission, P!StartSubmission, M!Idle, P!Idle
<1>4. M!Next <=> P!Next
  BY <1>2, <1>3, SameReconcile, SameCancel, SameProgress, SameBroker
     DEF M!Next, P!Next, M!Progress
<1> QED
  BY <1>1, <1>4 DEF M!vars, P!vars

\* As above, of a behaviour.
LEMMA SameSpec == M!Spec <=> P!Spec
<1>1. M!Init <=> P!Init
  BY DEF M!Init, P!Init, M!Idle, P!Idle
<1> QED
  BY <1>1, SameStep, PTL DEF M!Spec, P!Spec
------------------------------------------------------------------------------
(* The system implements the entry permission. *)

\* A step of the system is a step of EntryAuthorization or leaves it alone.
LEMMA StepOfThePermission == [SystemNext]_system => [Next]_vars
<1> SUFFICES ASSUME [SystemNext]_system PROVE [Next]_vars
  OBVIOUS
<1>1. CASE RuntimeWorks
  BY <1>1 DEF RuntimeWorks, Next, Truth, Administration, Entry
<1>2. ASSUME NEW i \in Intents, NEW k \in DOMAIN decisions[i], Submit(i, k) PROVE [Next]_vars
  BY <1>2 DEF Submit, Next, Entry
<1>3. CASE EngineWorks
  BY <1>3 DEF EngineWorks
<1>4. CASE BrokerWorks
  BY <1>4 DEF BrokerWorks, Next, Truth
<1>5. CASE Dies
  BY <1>5 DEF Dies, Next, Truth, Administration, Entry
<1>6. CASE UNCHANGED system
  BY <1>6 DEF system
<1> QED
  BY <1>1, <1>2, <1>3, <1>4, <1>5, <1>6 DEF SystemNext

\* The engine takes nothing from the permission and adds nothing to it: the system implements
\* EntryAuthorization.
THEOREM ImplementsPermission == SystemSpec => Spec
<1>1. SystemInit => Init
  BY DEF SystemInit
<1> QED
  BY <1>1, StepOfThePermission, PTL DEF SystemSpec, Spec
------------------------------------------------------------------------------
(* The system implements the engine. *)

\* Every execution request is one the engine knows.
RequestsAreKnown ==
    /\ \A i \in Intents : Len(decisions[i]) <= MaxDecisions
    /\ Prepared \subseteq Requests

\* A decision beyond the bound is never made, so no request names one.
LEMMA RequestsKnownInductive ==
    ASSUME TypeOK, TypeOK', RequestsAreKnown, [Next]_vars
    PROVE  RequestsAreKnown'
<1> USE DEF RequestsAreKnown, Prepared
<1>1. MaxDecisions \in Nat
  BY EntryAssumption
<1>2. CASE Truth \/ Administration \/ UNCHANGED vars
  BY <1>2 DEF Truth, BrokerMoves, Reconcile, ReconcileDies, ReconcileReplay, ReconcileFails,
       Restart, MarketChanges, Administration, ProposeChange, ConfirmChange, ConfirmChangeDies,
       permission, handover, vars
<1>3. ASSUME NEW i \in Intents, NEW verdict \in Verdicts, SaveDecision(i, verdict),
             UNCHANGED handover
      PROVE  RequestsAreKnown'
  <2>1. decisions \in [Intents -> Seq(RiskDecision)] /\ Len(decisions[i]) < MaxDecisions
    BY <1>3 DEF TypeOK, SaveDecision
  <2>2. PICK d : decisions' = [decisions EXCEPT ![i] = Append(@, d)]
    BY <1>3 DEF SaveDecision
  <2>3. Len(Append(decisions[i], d)) = Len(decisions[i]) + 1 /\ Len(decisions[i]) \in Nat
    <3> DEFINE q == decisions[i]
    <3>1. q \in Seq(RiskDecision)
      BY <2>1
    <3> HIDE DEF q
    <3>2. Len(Append(q, d)) = Len(q) + 1 /\ Len(q) \in Nat
      BY <3>1
    <3> QED
      BY <3>2 DEF q
  <2>4. \A j \in Intents : Len(decisions'[j]) <= MaxDecisions
    BY <1>1, <2>1, <2>2, <2>3
  <2> QED
    BY <1>3, <2>4 DEF handover
<1>4. ASSUME NEW i \in Intents, Rearm(i) \/ Cancel(i) PROVE RequestsAreKnown'
  BY <1>4 DEF Rearm, Cancel, handover
<1>5. ASSUME NEW i \in Intents, NEW k \in DOMAIN decisions[i], Prepare(i, k) \/ Deploy(i, k)
      PROVE  RequestsAreKnown'
  <2>1. k \in 1..MaxDecisions
    <3>1. DOMAIN decisions[i] = 1..Len(decisions[i]) /\ Len(decisions[i]) \in Nat
      BY DEF TypeOK
    <3> QED
      BY <1>1, <3>1
  <2>2. <<i, k>> \in Requests
    BY <2>1 DEF Requests
  <2> QED
    BY <1>5, <2>2 DEF Prepare, Deploy, permission
<1> QED
  BY <1>2, <1>3, <1>4, <1>5 DEF Next, Entry, Evaluate, EvaluateDies

\* The requests of every reachable state are known to the engine.
LEMMA RequestsKnown == Spec => [](TypeOK /\ RequestsAreKnown)
<1>1. Init => RequestsAreKnown
  BY EntryAssumption DEF Init, RequestsAreKnown, Prepared
<1>2. TypeOK /\ TypeOK' /\ RequestsAreKnown /\ [Next]_vars => RequestsAreKnown'
  BY RequestsKnownInductive
<1> QED
  BY <1>1, <1>2, TypeCorrect, PTL DEF Spec

\* A step of the system is a step of ExecutionEngine or leaves it alone: a crash takes the
\* call in progress and the adapter's cache, if there is anything to take.
LEMMA StepOfTheEngine ==
    RequestsAreKnown /\ [SystemNext]_system => [M!Next]_(M!vars)
<1> SUFFICES ASSUME RequestsAreKnown, [SystemNext]_system PROVE [M!Next]_(M!vars)
  OBVIOUS
<1>1. CASE RuntimeWorks
  BY <1>1 DEF RuntimeWorks, engine, M!vars
<1>2. ASSUME NEW i \in Intents, NEW k \in DOMAIN decisions[i], Submit(i, k)
      PROVE  [M!Next]_(M!vars)
  <2>1. <<i, k>> \in Requests /\ M!StartSubmission(<<i, k>>)
    BY <1>2 DEF Submit, Deploy, RequestsAreKnown, Prepared
  <2> QED
    BY <2>1 DEF M!Next, M!Deploy
<1>3. CASE EngineWorks
  BY <1>3 DEF EngineWorks, RequestsAreKnown, M!Next, M!Progress
<1>4. CASE BrokerWorks
  BY <1>4 DEF BrokerWorks, M!Next, M!vars, engine
<1>5. CASE Dies
  <2>1. EngineDies
    BY <1>5 DEF Dies
  <2>2. CASE call = M!Idle /\ adapter = {}
    BY <2>1, <2>2 DEF EngineDies, M!vars
  <2>3. CASE ~(call = M!Idle /\ adapter = {})
    BY <2>1, <2>3 DEF EngineDies, M!Next, M!Crash
  <2> QED
    BY <2>2, <2>3
<1>6. CASE UNCHANGED system
  BY <1>6 DEF system, engine, M!vars
<1> QED
  BY <1>1, <1>2, <1>3, <1>4, <1>5, <1>6 DEF SystemNext

\* The gate only chooses when the engine may start: the system implements ExecutionEngine, so
\* every theorem about the engine holds of it.
THEOREM ImplementsEngine == SystemSpec => M!Spec
<1>1. SystemInit => M!Init
  BY DEF SystemInit
<1> QED
  BY <1>1, StepOfTheEngine, RequestsKnown, ImplementsPermission, PTL DEF SystemSpec, M!Spec
------------------------------------------------------------------------------
(* The gate and the engine. *)

\* What the gate has handed over has left READY, what the broker has or will have was handed
\* over, and a permission holds until the order it was given for is on its way.
GateInv ==
    /\ \A r \in sent : request[r].status # "READY"
    /\ \A r \in Requests : M!OrdersOf(r) # {} \/ r \in wire => r \in sent
    /\ call.at = "submit" => call.of \in sent /\ Permitted(call.of[1], call.of[2])

\* What a step of the system may do of this: the engine's part of it.
LEMMA EngineMoves ==
    ASSUME M!TypeOK, RequestsAreKnown, [SystemNext]_system
    PROVE  /\ \A r \in Requests : request'[r].status = "READY" => request[r].status = "READY"
           /\ \A r \in wire' \ wire : call.at = "submit" /\ r = call.of
           /\ \A r \in Requests : M!OrdersOf(r)' \subseteq M!OrdersOf(r) \/ r \in wire
<1>1. P!TypeOK
  BY SameTypes
<1>2. [P!Next]_(P!vars)
  BY StepOfTheEngine, SameStep
<1> QED
  BY <1>1, <1>2, EngineAssumed, SameOrders, P!NeverReadyAgain, P!OrdersComeByTheWire

\* A submission begins behind the gate, and nothing that the gate looks at changes during it.
LEMMA SubmissionIsGated ==
    ASSUME [SystemNext]_system, call'.at = "submit"
    PROVE  \/ \E i \in Intents : \E k \in DOMAIN decisions[i] : Submit(i, k)
           \/ call' = call /\ UNCHANGED <<context, market, profiles, permission, handover>>
<1>1. call'.at # "idle"
  OBVIOUS
<1>2. ~RuntimeWorks /\ ~Dies
  BY <1>1 DEF RuntimeWorks, Dies, EngineDies, Free, engine, M!Idle
<1>3. CASE EngineWorks
  <2>1. ~M!Progress
    BY DEF M!Progress, M!SendOrder, M!SubmitAnswered, M!SubmitFails, M!SaveSubmitReply,
         M!SaveSubmitLost, M!CancelAnswered, M!CancelFails, M!SaveCancelReply, M!Idle
  <2>2. ASSUME NEW r, M!Reconcile(r) PROVE call' = call
    BY <2>2 DEF M!Reconcile, M!ReconcileByClient, M!ReconcileByOrder, M!ReconcileUnresolved
  <2>3. ASSUME NEW r, request[r].status # "READY", M!Deploy(r) PROVE call' = call
    BY <2>2, <2>3 DEF M!Deploy, M!StartSubmission
  <2>4. ASSUME NEW r PROVE ~M!Cancel(r)
    BY DEF M!Cancel
  <2> QED
    BY <1>3, <2>1, <2>2, <2>3, <2>4 DEF EngineWorks, vars, truth
<1>4. CASE BrokerWorks
  BY <1>4 DEF BrokerWorks, M!BrokerAccepts, M!PlacementLost, M!BrokerMoves, BrokerMoves, engine,
       vars, truth
<1>5. CASE UNCHANGED system
  BY <1>5 DEF system, engine, vars, truth
<1> QED
  BY <1>2, <1>3, <1>4, <1>5 DEF SystemNext

\* The gate hands over by Submit, and the hand-over stays.
LEMMA HandedOverBySubmit ==
    ASSUME [SystemNext]_system
    PROVE  \/ \E i \in Intents : \E k \in DOMAIN decisions[i] : Submit(i, k)
           \/ sent' = sent /\ ready \subseteq ready'
<1>1. CASE RuntimeWorks
  BY <1>1 DEF RuntimeWorks, Reconcile, ReconcileDies, ReconcileReplay, ReconcileFails,
       MarketChanges, ProposeChange, ConfirmChange, Evaluate, Rearm, Cancel, Prepare, handover
<1>2. CASE Dies
  BY <1>2 DEF Dies, Restart, ReconcileDies, ConfirmChangeDies, EvaluateDies, handover
<1>3. CASE EngineWorks \/ BrokerWorks \/ UNCHANGED system
  BY <1>3 DEF EngineWorks, BrokerWorks, BrokerMoves, system, vars, handover
<1> QED
  BY <1>1, <1>2, <1>3 DEF SystemNext

\* Every step of the system keeps GateInv.
LEMMA GateInductive ==
    ASSUME TypeOK, M!TypeOK, RequestsAreKnown, GateInv, [SystemNext]_system
    PROVE  GateInv'
<1>1. /\ \A r \in Requests : request'[r].status = "READY" => request[r].status = "READY"
      /\ \A r \in wire' \ wire : call.at = "submit" /\ r = call.of
      /\ \A r \in Requests : M!OrdersOf(r)' \subseteq M!OrdersOf(r) \/ r \in wire
  BY EngineMoves
<1>2. sent \subseteq Requests /\ sent \subseteq sent'
  BY HandedOverBySubmit DEF RequestsAreKnown, Prepared, Submit, Deploy
<1>3. \A r \in sent' : request'[r].status # "READY"
  <2>1. ASSUME NEW i \in Intents, NEW k \in DOMAIN decisions[i], Submit(i, k)
        PROVE  \A r \in sent' : request'[r].status # "READY"
    <3>1. /\ sent' = sent \cup {<<i, k>>}
          /\ <<i, k>> \in Requests
          /\ request' = [request EXCEPT ![<<i, k>>].status = "SUBMITTING"]
      BY <2>1 DEF Submit, Deploy, RequestsAreKnown, Prepared, M!StartSubmission
    <3>2. request'[<<i, k>>].status = "SUBMITTING"
      BY <3>1 DEF M!TypeOK, M!ExecutionRequest
    <3> QED
      BY <1>1, <1>2, <3>1, <3>2 DEF GateInv
  <2>2. CASE sent' = sent
    BY <1>1, <1>2, <2>2 DEF GateInv
  <2> QED
    BY <2>1, <2>2, HandedOverBySubmit
<1>4. \A r \in Requests : M!OrdersOf(r)' # {} \/ r \in wire' => r \in sent'
  BY <1>1, <1>2 DEF GateInv
<1>5. ASSUME call'.at = "submit"
      PROVE  call'.of \in sent' /\ Permitted(call.of[1], call.of[2])'
  <2>1. ASSUME NEW i \in Intents, NEW k \in DOMAIN decisions[i], Submit(i, k)
        PROVE  call'.of \in sent' /\ Permitted(call.of[1], call.of[2])'
    <3>1. /\ call'.of = <<i, k>> /\ Permitted(i, k) /\ sent' = sent \cup {<<i, k>>}
          /\ UNCHANGED <<context, market, profiles, decisions, latest>>
      BY <2>1 DEF Submit, Deploy, M!StartSubmission, truth, permission
    <3>2. call'.of[1] = i /\ call'.of[2] = k
      BY <3>1
    <3> QED
      BY <3>1, <3>2 DEF Permitted, CurrentTruth, Version, Token
  <2>2. CASE call' = call /\ UNCHANGED <<context, market, profiles, permission, handover>>
    BY <1>5, <2>2 DEF GateInv, Permitted, CurrentTruth, Version, Token, permission, handover
  <2> QED
    BY <1>5, <2>1, <2>2, SubmissionIsGated
<1> QED
  BY <1>3, <1>4, <1>5 DEF GateInv

\* Everything the properties of the system rest on holds in every reachable state.
SystemInv == TypeOK /\ HandoverInv /\ M!TypeOK /\ RequestsAreKnown /\ GateInv

\* The parts of it are carried over from both components; GateInv is added here.
LEMMA SystemAlways == SystemSpec => []SystemInv
<1>1. P!Spec => []P!TypeOK
  BY EngineAssumed, P!TypeCorrect
<1>2. SystemSpec => []M!TypeOK
  BY <1>1, SameSpec, SameTypes, ImplementsEngine, PTL
<1>3. SystemSpec => [](TypeOK /\ HandoverInv /\ RequestsAreKnown)
  BY ImplementsPermission, HandoverAlways, RequestsKnown, PTL
<1>4. SystemInit => GateInv
  BY HandoverAssumption
     DEF SystemInit, Init, M!Init, M!Idle, M!OrdersOf, GateInv, M!EngineAssumption
<1>5. TypeOK /\ M!TypeOK /\ RequestsAreKnown /\ GateInv /\ [SystemNext]_system => GateInv'
  BY GateInductive
<1> QED
  BY <1>2, <1>3, <1>4, <1>5, PTL DEF SystemSpec, SystemInv

\* One entry never becomes two orders: the engine submits a request once, and only one request
\* of an entry is ever handed over to it.
THEOREM OneOrder == SystemSpec => []OneOrderPerEntry
<1>1. P!Spec => []P!AtMostOneOrder
  BY EngineAssumed, P!OneOrder
<1>2. M!AtMostOneOrder <=> P!AtMostOneOrder
  BY DEF M!AtMostOneOrder, P!AtMostOneOrder
<1>3. SystemSpec => [](M!AtMostOneOrder /\ OneHandoverPerIntent)
  BY <1>1, <1>2, SameSpec, ImplementsEngine, ImplementsPermission, OneHandover, PTL
<1>4. SystemInv /\ M!AtMostOneOrder /\ OneHandoverPerIntent => OneOrderPerEntry
  <2> SUFFICES ASSUME SystemInv, M!AtMostOneOrder, OneHandoverPerIntent,
                      NEW r \in Requests, NEW s \in Requests, r[1] = s[1],
                      NEW o \in M!OrdersOf(r), NEW p \in M!OrdersOf(s)
               PROVE  o = p
    BY DEF OneOrderPerEntry
  <2>1. r \in sent /\ s \in sent
    BY DEF SystemInv, GateInv
  <2>2. r = s
    BY <2>1 DEF OneHandoverPerIntent
  <2>3. o \in OrderIds /\ p \in OrderIds /\ client[o] = r /\ client[p] = s
    BY DEF M!OrdersOf
  <2>4. r # NoRequest
    BY HandoverAssumption DEF M!EngineAssumption
  <2> QED
    BY <2>2, <2>3, <2>4 DEF M!AtMostOneOrder
<1> QED
  BY <1>3, <1>4, SystemAlways, PTL

\* What has an order was handed over, and nothing that was handed over is evaluated again.
THEOREM PassComesFirst == SystemSpec => []OrdersFollowAPass
<1>1. SystemInv => OrdersFollowAPass
  <2> SUFFICES ASSUME SystemInv, NEW r \in Requests, M!OrdersOf(r) # {} \/ r \in wire
               PROVE  /\ \E e \in sent : e[1] = r[1]
                      /\ LastIsPass(r[1])
    BY DEF OrdersFollowAPass, Exposed, LastIsPass
  <2>1. r \in sent
    BY DEF SystemInv, GateInv
  <2>2. LastIsPass(r[1])
    BY <2>1 DEF SystemInv, HandoverInv, RequestIsBound
  <2> QED
    BY <2>1, <2>2
<1> QED
  BY <1>1, SystemAlways, PTL

\* The Core lock keeps what the gate has checked until the order is on its way.
THEOREM PermissionHolds == SystemSpec => PermittedWhenItLeaves
<1>1. SystemInv /\ [SystemNext]_system
        => [\A r \in wire' \ wire : Permitted(r[1], r[2])]_system
  BY EngineMoves DEF SystemInv, GateInv
<1> QED
  BY <1>1, SystemAlways, PTL DEF SystemSpec, PermittedWhenItLeaves

\* A request burned before its deploy is bound to the latest decision of an entry that nobody
\* evaluates again: the gate would hand over this request or none, and the engine refuses it.
THEOREM BurnStays == SystemSpec => BurnIsForGood
<1>1. ASSUME SystemInv, SystemInv', [SystemNext]_system, NEW i \in Intents, Burned(i)
      PROVE  Burned(i)' /\ ~Exposed(i)'
  <2>1. PICK e \in ready : e[1] = i /\ request[e].status # "READY"
    BY <1>1 DEF Burned
  <2>2. e \in Requests
    BY <1>1 DEF SystemInv, RequestsAreKnown, Prepared
  <2>3. e \in ready'
    <3>1. ASSUME NEW j \in Intents, NEW k \in DOMAIN decisions[j], Submit(j, k)
          PROVE  e \in ready'
      <4>1. request[<<j, k>>].status = "READY" /\ ready' = ready \ {<<j, k>>}
        BY <3>1 DEF Submit, Deploy, M!StartSubmission
      <4> QED
        BY <2>1, <4>1
    <3> QED
      BY <1>1, <3>1, HandedOverBySubmit
  <2>4. request'[e].status # "READY"
    BY <1>1, <2>1, <2>2, EngineMoves DEF SystemInv
  <2>5. Burned(i)'
    BY <2>1, <2>3, <2>4 DEF Burned
  <2>6. ASSUME NEW r \in Requests, r[1] = i, M!OrdersOf(r)' # {} \/ r \in wire'
        PROVE  FALSE
    <3>1. r \in sent'
      BY <1>1, <2>6 DEF SystemInv, GateInv
    <3>2. r[2] = latest'[i] /\ e[2] = latest'[i]
      BY <1>1, <2>1, <2>3, <2>6, <3>1 DEF SystemInv, HandoverInv, RequestIsBound
    <3>3. r = e
      BY <2>1, <2>2, <2>6, <3>2 DEF Requests
    <3> QED
      BY <1>1, <2>3, <3>1, <3>3 DEF SystemInv, TypeOK
  <2> QED
    BY <2>5, <2>6 DEF Exposed
<1>2. SystemInv /\ SystemInv' /\ [SystemNext]_system
        => [\A i \in Intents : Burned(i) => Burned(i)' /\ ~Exposed(i)']_system
  BY <1>1
<1> QED
  BY <1>2, SystemAlways, PTL DEF SystemSpec, BurnIsForGood

\* The profile of an outdated entry only gets further ahead of its decision.
LEMMA OutdatedStays ==
    ASSUME TypeOK, [Next]_vars, NEW i \in Intents, Outdated(i)
    PROVE  Outdated(i)'
<1> DEFINE d == decisions[i][latest[i]]
<1>1. /\ d \in RiskDecision /\ d.version \in Nat
      /\ Version \in Nat
      /\ profiles \in Seq(Limits \cup {NoLimit})
  <2>1. decisions[i] \in Seq(RiskDecision) /\ latest[i] \in DOMAIN decisions[i]
    BY DEF TypeOK, Outdated
  <2>2. d \in RiskDecision
    BY <2>1
  <2>3. d.version \in Nat
    BY <2>2 DEF RiskDecision
  <2> QED
    BY <2>2, <2>3 DEF TypeOK, Version
<1>2. CASE Truth \/ UNCHANGED vars
  <2>1. UNCHANGED <<profiles, permission, handover>>
    BY <1>2 DEF Truth, BrokerMoves, Reconcile, ReconcileDies, ReconcileReplay, ReconcileFails,
         Restart, MarketChanges, vars
  <2> QED
    BY <2>1 DEF Outdated, Version, permission, handover
<1>3. CASE Administration
  <2>1. UNCHANGED <<permission, handover>>
    BY <1>3 DEF Administration, ProposeChange, ConfirmChange, ConfirmChangeDies
  <2>2. profiles' = profiles \/ \E limit : profiles' = Append(profiles, limit)
    BY <1>3 DEF Administration, ProposeChange, ConfirmChange, ConfirmChangeDies
  <2>3. Version' \in Nat /\ Version <= Version'
    BY <1>1, <2>2 DEF Version
  <2>4. d' = d
    BY <2>1 DEF permission
  <2>5. d.version < Version'
    BY <1>1, <2>3 DEF Outdated
  <2> QED
    BY <2>1, <2>4, <2>5 DEF Outdated, permission, handover
<1>4. ASSUME NEW j \in Intents, Entry(j) PROVE Outdated(i)'
  <2>1. profiles' = profiles
    BY <1>4 DEF Entry, Evaluate, EvaluateDies, Rearm, Cancel, Prepare, Deploy
  <2>2. /\ decisions'[i] = decisions[i]
        /\ latest'[i] = latest[i]
        /\ intent'[i] \in {"RISK_APPROVED", "CANCELLED"}
    BY <1>4 DEF Entry, Evaluate, EvaluateDies, SaveDecision, Rearm, Cancel, Prepare, Deploy,
         permission, Outdated, TypeOK
  <2>3. \A e \in sent' : e[1] # i
    <3>1. ASSUME NEW k \in DOMAIN decisions[j], Deploy(j, k)
          PROVE  \A e \in sent' : e[1] # i
      <4>1. k = latest[j] /\ decisions[j][k].version = Version
        BY <3>1 DEF Deploy, Permitted
      <4>2. j # i
        BY <1>1, <4>1 DEF Outdated
      <4> QED
        BY <3>1, <4>2 DEF Deploy, Outdated
    <3>2. CASE sent' = sent
      BY <3>2 DEF Outdated
    <3> QED
      BY <1>4, <3>1, <3>2
         DEF Entry, Evaluate, EvaluateDies, Rearm, Cancel, Prepare, handover
  <2> QED
    BY <2>1, <2>2, <2>3 DEF Outdated, Version
<1> QED
  BY <1>2, <1>3, <1>4 DEF Next

\* An entry that was not handed over before the profile changed never has an order: its
\* decision is void, and no other is ever made.
THEOREM OutdatedForGood == SystemSpec => OutdatedIsForGood
<1>1. ASSUME SystemInv, SystemInv', [SystemNext]_system, NEW i \in Intents, Outdated(i)
      PROVE  Outdated(i)' /\ ~Exposed(i)'
  <2>1. Outdated(i)'
    BY <1>1, OutdatedStays, StepOfThePermission DEF SystemInv
  <2> QED
    BY <1>1, <2>1 DEF SystemInv, GateInv, Exposed, Outdated
<1>2. SystemInv /\ SystemInv' /\ [SystemNext]_system
        => [\A i \in Intents : Outdated(i) => Outdated(i)' /\ ~Exposed(i)']_system
  BY <1>1
<1> QED
  BY <1>2, SystemAlways, PTL DEF SystemSpec, OutdatedIsForGood
------------------------------------------------------------------------------
(* The system implements OrderOutcome, entry by entry. *)

NothingYet == [status |-> "none", filled |-> 0]

\* An entry shows what its one request that has got anywhere shows.
OneRequestShows ==
    /\ \A r \in Requests :
          /\ P!BrokerExposure(r) # NothingYet => EntryExposure(r[1]) = P!BrokerExposure(r)
          /\ P!DurableReport(r) # NothingYet => EntryReport(r[1]) = P!DurableReport(r)
          /\ P!DurableReport(r) # NothingYet => P!BrokerExposure(r) # NothingYet
    /\ \A r, s \in Requests :
          /\ r[1] = s[1]
          /\ P!BrokerExposure(r) # NothingYet
          /\ P!BrokerExposure(s) # NothingYet
          => r = s
    /\ \A i \in Intents :
          /\ (\A r \in Requests : r[1] = i => P!BrokerExposure(r) = NothingYet)
                => EntryExposure(i) = NothingYet
          /\ (\A r \in Requests : r[1] = i => P!DurableReport(r) = NothingYet)
                => EntryReport(i) = NothingYet

\* An order and an end both need the one request of the entry that was handed over.
LEMMA OneRequestAlwaysShows == SystemInv /\ P!EngineInv => OneRequestShows
<1> SUFFICES ASSUME SystemInv, P!EngineInv PROVE OneRequestShows
  OBVIOUS
<1>1. ASSUME NEW r \in Requests
      PROVE  /\ M!BrokerExposure(r) = P!BrokerExposure(r)
             /\ M!DurableReport(r) = P!DurableReport(r)
             /\ M!OrdersOf(r) = P!OrdersOf(r)
             /\ M!FinalStatus = P!FinalStatus
  BY DEF M!BrokerExposure, P!BrokerExposure, M!DurableReport, P!DurableReport, M!OrdersOf,
         P!OrdersOf, M!FinalStatus, P!FinalStatus, M!Current, P!Current
<1>2. ASSUME NEW r \in Requests
      PROVE  P!BrokerExposure(r) = NothingYet <=> M!OrdersOf(r) = {}
  BY <1>1 DEF P!BrokerExposure, P!FinalStatus, NothingYet
<1>3. ASSUME NEW r \in Requests
      PROVE  P!DurableReport(r) = NothingYet <=> request[r].status \notin M!FinalStatus
  BY <1>1 DEF P!DurableReport, P!FinalStatus, NothingYet
<1>4. ASSUME NEW r \in Requests, request[r].status \in M!FinalStatus PROVE M!OrdersOf(r) # {}
  BY <1>1, <1>4, EngineAssumed, P!EndIsLast
<1>5. ASSUME NEW r \in Requests, NEW s \in Requests, r[1] = s[1],
             M!OrdersOf(r) # {}, M!OrdersOf(s) # {}
      PROVE  r = s
  <2>1. r \in sent /\ s \in sent
    BY <1>5 DEF SystemInv, GateInv
  <2>2. r[2] = s[2]
    BY <1>5, <2>1 DEF SystemInv, HandoverInv, RequestIsBound
  <2> QED
    BY <1>5, <2>2 DEF Requests
<1>6. ASSUME NEW r \in Requests, M!OrdersOf(r) # {}
      PROVE  EntryExposure(r[1]) = P!BrokerExposure(r)
  <2> DEFINE placed == {s \in Requests : s[1] = r[1] /\ M!OrdersOf(s) # {}}
  <2>1. placed = {r}
    BY <1>5, <1>6
  <2>2. (CHOOSE s \in placed : TRUE) = r
    BY <2>1
  <2> QED
    BY <1>1, <2>1, <2>2 DEF EntryExposure
<1>7. ASSUME NEW r \in Requests, request[r].status \in M!FinalStatus
      PROVE  EntryReport(r[1]) = P!DurableReport(r)
  <2> DEFINE ended == {s \in Requests : s[1] = r[1] /\ request[s].status \in M!FinalStatus}
  <2>1. ended = {r}
    BY <1>4, <1>5, <1>7
  <2>2. (CHOOSE s \in ended : TRUE) = r
    BY <2>1
  <2> QED
    BY <1>1, <2>1, <2>2 DEF EntryReport
<1>8. ASSUME NEW i \in Intents
      PROVE  /\ (\A r \in Requests : r[1] = i => M!OrdersOf(r) = {})
                   => EntryExposure(i) = NothingYet
             /\ (\A r \in Requests : r[1] = i => request[r].status \notin M!FinalStatus)
                   => EntryReport(i) = NothingYet
  BY DEF EntryExposure, EntryReport, NothingYet
<1> QED
  BY <1>2, <1>3, <1>4, <1>5, <1>6, <1>7, <1>8 DEF OneRequestShows

\* So it is in the next state.
LEMMA OneRequestShowsNext == SystemInv' /\ P!EngineInv' => OneRequestShows'
  BY OneRequestAlwaysShows, PTL

\* The two tables of the refinement.
EntryExposures == [i \in Intents |-> EntryExposure(i)]
EntryReports == [i \in Intents |-> EntryReport(i)]

\* The requests of an intent are the pairs of it and a decision.
LEMMA RequestsOfIntents == ASSUME NEW r \in Requests PROVE r[1] \in Intents
  BY DEF Requests

\* A table of which one entry changes, read back.
LEMMA TableEntries ==
    /\ P!Exposures = [r \in Requests |-> P!BrokerExposure(r)]
    /\ P!Reports = [r \in Requests |-> P!DurableReport(r)]
  BY DEF P!Exposures, P!Reports

\* When the exposure of one request changes, that of its entry does, from and to the same.
LEMMA ExposureFollows ==
    ASSUME OneRequestShows, OneRequestShows', NEW r \in Requests, NEW e, e # NothingYet,
           P!Exposures' = [P!Exposures EXCEPT ![r] = e]
    PROVE  /\ EntryExposure(r[1]) = P!BrokerExposure(r)
           /\ EntryExposures' = [EntryExposures EXCEPT ![r[1]] = e]
<1>1. /\ P!BrokerExposure(r)' = e
      /\ \A s \in Requests \ {r} : P!BrokerExposure(s)' = P!BrokerExposure(s)
  BY DEF P!Exposures
<1>2. EntryExposure(r[1])' = e
  BY <1>1 DEF OneRequestShows
<1>3. \A s \in Requests : s[1] = r[1] /\ s # r => P!BrokerExposure(s) = NothingYet
  BY <1>1 DEF OneRequestShows
<1>4. EntryExposure(r[1]) = P!BrokerExposure(r)
  <2>1. CASE P!BrokerExposure(r) = NothingYet
    BY <1>3, <2>1, RequestsOfIntents DEF OneRequestShows
  <2> QED
    BY <2>1 DEF OneRequestShows
<1>5. ASSUME NEW i \in Intents, i # r[1] PROVE EntryExposure(i)' = EntryExposure(i)
  <2>1. CASE \E s \in Requests : s[1] = i /\ P!BrokerExposure(s) # NothingYet
    <3>1. PICK s \in Requests : s[1] = i /\ P!BrokerExposure(s) # NothingYet
      BY <2>1
    <3>2. P!BrokerExposure(s)' = P!BrokerExposure(s)
      BY <1>1, <1>5, <3>1
    <3> QED
      BY <3>1, <3>2 DEF OneRequestShows
  <2>2. CASE \A s \in Requests : s[1] = i => P!BrokerExposure(s) = NothingYet
    <3>1. \A s \in Requests : s[1] = i => P!BrokerExposure(s)' = NothingYet
      BY <1>1, <1>5, <2>2
    <3> QED
      BY <2>2, <3>1 DEF OneRequestShows
  <2> QED
    BY <2>1, <2>2
<1> QED
  BY <1>2, <1>4, <1>5, RequestsOfIntents DEF EntryExposures

\* When no request's exposure changes, no entry's does.
LEMMA ExposureStays ==
    ASSUME OneRequestShows, OneRequestShows', UNCHANGED P!Exposures
    PROVE  UNCHANGED EntryExposures
<1>1. \A s \in Requests : P!BrokerExposure(s)' = P!BrokerExposure(s)
  BY DEF P!Exposures
<1>2. ASSUME NEW i \in Intents PROVE EntryExposure(i)' = EntryExposure(i)
  <2>1. CASE \E s \in Requests : s[1] = i /\ P!BrokerExposure(s) # NothingYet
    BY <1>1, <2>1 DEF OneRequestShows
  <2>2. CASE \A s \in Requests : s[1] = i => P!BrokerExposure(s) = NothingYet
    <3>1. \A s \in Requests : s[1] = i => P!BrokerExposure(s)' = NothingYet
      BY <1>1, <2>2
    <3> QED
      BY <2>2, <3>1 DEF OneRequestShows
  <2> QED
    BY <2>1, <2>2
<1> QED
  BY <1>2 DEF EntryExposures

\* When one request is reported, its entry is, which no request of it had been before.
LEMMA ReportFollows ==
    ASSUME OneRequestShows, OneRequestShows', NEW r \in Requests, NEW e, e # NothingYet,
           P!Reports' = [P!Reports EXCEPT ![r] = e]
    PROVE  /\ EntryReport(r[1]) = P!DurableReport(r)
           /\ EntryReports' = [EntryReports EXCEPT ![r[1]] = e]
<1>1. /\ P!DurableReport(r)' = e
      /\ \A s \in Requests \ {r} : P!DurableReport(s)' = P!DurableReport(s)
  BY DEF P!Reports
<1>2. EntryReport(r[1])' = e
  BY <1>1 DEF OneRequestShows
<1>3. \A s \in Requests : s[1] = r[1] /\ s # r => P!DurableReport(s) = NothingYet
  BY <1>1 DEF OneRequestShows
<1>4. EntryReport(r[1]) = P!DurableReport(r)
  <2>1. CASE P!DurableReport(r) = NothingYet
    BY <1>3, <2>1, RequestsOfIntents DEF OneRequestShows
  <2> QED
    BY <2>1 DEF OneRequestShows
<1>5. ASSUME NEW i \in Intents, i # r[1] PROVE EntryReport(i)' = EntryReport(i)
  <2>1. CASE \E s \in Requests : s[1] = i /\ P!DurableReport(s) # NothingYet
    <3>1. PICK s \in Requests : s[1] = i /\ P!DurableReport(s) # NothingYet
      BY <2>1
    <3>2. P!DurableReport(s)' = P!DurableReport(s)
      BY <1>1, <1>5, <3>1
    <3> QED
      BY <3>1, <3>2 DEF OneRequestShows
  <2>2. CASE \A s \in Requests : s[1] = i => P!DurableReport(s) = NothingYet
    <3>1. \A s \in Requests : s[1] = i => P!DurableReport(s)' = NothingYet
      BY <1>1, <1>5, <2>2
    <3> QED
      BY <2>2, <3>1 DEF OneRequestShows
  <2> QED
    BY <2>1, <2>2
<1> QED
  BY <1>2, <1>4, <1>5, RequestsOfIntents DEF EntryReports

\* When no request's report changes, no entry's does.
LEMMA ReportStays ==
    ASSUME OneRequestShows, OneRequestShows', UNCHANGED P!Reports
    PROVE  UNCHANGED EntryReports
<1>1. \A s \in Requests : P!DurableReport(s)' = P!DurableReport(s)
  BY DEF P!Reports
<1>2. ASSUME NEW i \in Intents PROVE EntryReport(i)' = EntryReport(i)
  <2>1. CASE \E s \in Requests : s[1] = i /\ P!DurableReport(s) # NothingYet
    BY <1>1, <2>1 DEF OneRequestShows
  <2>2. CASE \A s \in Requests : s[1] = i => P!DurableReport(s) = NothingYet
    <3>1. \A s \in Requests : s[1] = i => P!DurableReport(s)' = NothingYet
      BY <1>1, <2>2
    <3> QED
      BY <2>2, <3>1 DEF OneRequestShows
  <2> QED
    BY <2>1, <2>2
<1> QED
  BY <1>2 DEF EntryReports

\* The four values the abstract specification names, in both instances of it.
LEMMA SameOutcomes ==
    /\ P!Outcomes!None = NothingYet
    /\ P!Outcomes!None = EntryOutcomes!None
    /\ P!Outcomes!Working = EntryOutcomes!Working
    /\ P!Outcomes!Outcome = EntryOutcomes!Outcome
    /\ NothingYet \notin {EntryOutcomes!Working} \cup EntryOutcomes!Outcome
  BY DEF P!Outcomes!None, P!Outcomes!Working, P!Outcomes!Outcome, EntryOutcomes!None,
         EntryOutcomes!Working, EntryOutcomes!Outcome, NothingYet

\* A step of a request's abstract history is the same step of its entry's.
LEMMA EntryStep ==
    ASSUME OneRequestShows, OneRequestShows', P!AbstractStep
    PROVE  [EntryOutcomes!Next]_(EntryOutcomes!vars)
<1>1. CASE UNCHANGED <<P!Exposures, P!Reports>>
  BY <1>1, ExposureStays, ReportStays DEF EntryExposures, EntryReports, EntryOutcomes!vars
<1>2. ASSUME NEW r \in Requests, P!BrokerExposure(r) = P!Outcomes!None,
             NEW e \in {P!Outcomes!Working} \cup P!Outcomes!Outcome,
             P!Exposures' = [P!Exposures EXCEPT ![r] = e], UNCHANGED P!Reports
      PROVE  EntryOutcomes!Place(r[1])
  <2>1. e # NothingYet
    BY <1>2, SameOutcomes
  <2>2. /\ EntryExposure(r[1]) = EntryOutcomes!None
        /\ EntryExposures' = [EntryExposures EXCEPT ![r[1]] = e]
    BY <1>2, <2>1, ExposureFollows, SameOutcomes
  <2>3. UNCHANGED EntryReports
    BY <1>2, ReportStays
  <2> QED
    BY <1>2, <2>2, <2>3, SameOutcomes, RequestsOfIntents
       DEF EntryExposures, EntryReports, EntryOutcomes!Place
<1>3. ASSUME NEW r \in Requests, P!BrokerExposure(r) = P!Outcomes!Working,
             NEW e \in P!Outcomes!Outcome,
             P!Exposures' = [P!Exposures EXCEPT ![r] = e], UNCHANGED P!Reports
      PROVE  EntryOutcomes!Finish(r[1])
  <2>1. e # NothingYet
    BY <1>3, SameOutcomes
  <2>2. /\ EntryExposure(r[1]) = EntryOutcomes!Working
        /\ EntryExposures' = [EntryExposures EXCEPT ![r[1]] = e]
    BY <1>3, <2>1, ExposureFollows, SameOutcomes
  <2>3. UNCHANGED EntryReports
    BY <1>3, ReportStays
  <2> QED
    BY <1>3, <2>2, <2>3, SameOutcomes, RequestsOfIntents
       DEF EntryExposures, EntryReports, EntryOutcomes!Finish
<1>4. ASSUME NEW r \in Requests, P!BrokerExposure(r) \in P!Outcomes!Outcome,
             P!DurableReport(r) = P!Outcomes!None,
             P!Reports' = [P!Reports EXCEPT ![r] = P!BrokerExposure(r)],
             UNCHANGED P!Exposures
      PROVE  EntryOutcomes!Report(r[1])
  <2>1. P!BrokerExposure(r) # NothingYet
    BY <1>4, SameOutcomes
  <2>2. EntryExposure(r[1]) = P!BrokerExposure(r)
    BY <2>1 DEF OneRequestShows
  <2>3. /\ EntryReport(r[1]) = EntryOutcomes!None
        /\ EntryReports' = [EntryReports EXCEPT ![r[1]] = P!BrokerExposure(r)]
    BY <1>4, <2>1, ReportFollows, SameOutcomes
  <2>4. UNCHANGED EntryExposures
    BY <1>4, ExposureStays
  <2> QED
    BY <1>4, <2>2, <2>3, <2>4, SameOutcomes, RequestsOfIntents
       DEF EntryExposures, EntryReports, EntryOutcomes!Report
<1> QED
  BY <1>1, <1>2, <1>3, <1>4, RequestsOfIntents DEF P!AbstractStep, EntryOutcomes!Next

\* The system keeps for an entry what Module M promises for a request: over all the decisions
\* made of it, it becomes exposure once, ends once, and is reported once, as it ended.
THEOREM ImplementsEntryOutcome == SystemSpec => EntryHasOneOutcome
<1>1. SystemInit => EntryOutcomes!Init
  <2> SUFFICES ASSUME SystemInit PROVE EntryOutcomes!Init
    OBVIOUS
  <2>1. ASSUME NEW r \in Requests
        PROVE  M!OrdersOf(r) = {} /\ request[r].status \notin M!FinalStatus
    BY HandoverAssumption
       DEF SystemInit, M!Init, M!Idle, M!OrdersOf, M!FinalStatus, M!EngineAssumption
  <2>2. \A i \in Intents : /\ EntryExposure(i) = EntryOutcomes!None
                           /\ EntryReport(i) = EntryOutcomes!None
    BY <2>1 DEF EntryExposure, EntryReport, EntryOutcomes!None
  <2> QED
    BY <2>2 DEF EntryOutcomes!Init
<1>2. P!EngineInv /\ P!EngineInv' /\ [P!Next]_(P!vars) => P!AbstractStep
  BY EngineAssumed, P!StepIsAbstract
<1>3. /\ SystemInv /\ SystemInv' /\ P!EngineInv /\ P!EngineInv' /\ [P!Next]_(P!vars)
      => [EntryOutcomes!Next]_(EntryOutcomes!vars)
  BY <1>2, EntryStep, OneRequestAlwaysShows, OneRequestShowsNext
<1>4. SystemSpec => []P!EngineInv /\ [][P!Next]_(P!vars)
  <2>1. P!Spec => []P!EngineInv
    BY EngineAssumed, P!EngineAlways
  <2>2. P!Spec => [][P!Next]_(P!vars)
    BY PTL DEF P!Spec
  <2> QED
    BY <2>1, <2>2, SameSpec, ImplementsEngine, PTL
<1> QED
  BY <1>1, <1>3, <1>4, SystemAlways, PTL DEF SystemSpec, EntryHasOneOutcome, EntryOutcomes!Spec
==============================================================================
