--------------------------- MODULE EntryExecution ----------------------------
(***************************************************************************)
(* The permission of an entry and the engine that acts on it, together      *)
(* (core/manager.py): what EntryAuthorization hands over, ExecutionEngine   *)
(* submits.  The Core lock is held through every operation, the broker call *)
(* in the middle of a deploy or a cancel included, so nothing else of the   *)
(* runtime moves while the engine has a call in progress; the broker does,  *)
(* and the process may die at any point and take both with it.              *)
(*                                                                          *)
(* The gate is asked only for a request that is still READY: a deploy of    *)
(* any other request, a reconcile and a cancel reach the engine as they are. *)
(***************************************************************************)
EXTENDS EntryAuthorization

CONSTANTS
    OrderIds,     \* these are the constants of ExecutionEngine
    NoRequest,
    NoOrder,
    Adapters,
    Quantity,
    MaxTruths

VARIABLES request, client, truths, call, wire, adapter

engine == <<request, client, truths, call, wire, adapter>>
system == <<vars, engine>>

\* The execution requests an entry can have: one for each decision on it.
Requests == Intents \X (1..MaxDecisions)

M == INSTANCE ExecutionEngine

ASSUME HandoverAssumption == M!EngineAssumption
------------------------------------------------------------------------------
\* The Core lock is free: no broker call of the engine is in progress.
Free == call = M!Idle

\* What a crash takes of the engine: the call in progress and the adapter's cache.
EngineDies ==
    /\ call' = M!Idle
    /\ adapter' = {}
    /\ UNCHANGED <<request, client, truths, wire>>

\* The execution requests that exist.
Prepared == ready \cup sent

RuntimeWorksUnlocked ==
    /\ \/ \E b \in Brokers : \E t \in Fresh(b) :
             \/ Reconcile(b, t)
             \/ ReconcileDies(b, t) /\ context'.status = "UNAVAILABLE"
       \/ ReconcileReplay \/ ReconcileFails \/ MarketChanges
       \/ \E limit \in Limits \cup {NoLimit} : ProposeChange(limit)
       \/ \E c \in DOMAIN changes : ConfirmChange(c)
       \/ \E i \in Intents :
             \/ \E verdict \in Verdicts : Evaluate(i, verdict)
             \/ Rearm(i) \/ Cancel(i)
             \/ \E k \in DOMAIN decisions[i] : Prepare(i, k)
    /\ UNCHANGED engine

\* An operation on broker truth, the risk profile or an entry, under the Core lock.  A
\* reconciliation may raise half-way and leave the process alive.
RuntimeWorks ==
    /\ Free
    /\ \/ \E b \in Brokers : \E t \in Fresh(b) :
             \/ Reconcile(b, t)
             \/ ReconcileDies(b, t) /\ context'.status = "UNAVAILABLE"
       \/ ReconcileReplay \/ ReconcileFails \/ MarketChanges
       \/ \E limit \in Limits \cup {NoLimit} : ProposeChange(limit)
       \/ \E c \in DOMAIN changes : ConfirmChange(c)
       \/ \E i \in Intents :
             \/ \E verdict \in Verdicts : Evaluate(i, verdict)
             \/ Rearm(i) \/ Cancel(i)
             \/ \E k \in DOMAIN decisions[i] : Prepare(i, k)
    /\ UNCHANGED engine

\* The process dies between two operations, in one of them, or in a call of the engine.
Dies ==
    /\ \/ Restart
       \/ /\ Free
          /\ ProcessLost
          /\ \/ \E b \in Brokers : \E t \in Fresh(b) : ReconcileDies(b, t)
             \/ \E c \in DOMAIN changes : ConfirmChangeDies(c)
             \/ \E i \in Intents : \E verdict \in Verdicts : EvaluateDies(i, verdict)
    /\ EngineDies

\* deploy of a READY request: the gate of EntryAuthorization, then the engine.
Submit(i, k) == Deploy(i, k) /\ M!StartSubmission(<<i, k>>)

\* What reaches the engine without the gate.
EngineWorks ==
    /\ \/ \E r \in Prepared :
             \/ request[r].status # "READY" /\ M!Deploy(r)
             \/ M!Reconcile(r)
             \/ M!Cancel(r)
       \/ M!Progress
    /\ UNCHANGED vars

\* The broker: its orders, and the account they are seen in.
BrokerWorks ==
    \/ /\ \/ \E r \in Requests : M!BrokerAccepts(r) \/ M!PlacementLost(r)
          \/ \E o \in OrderIds : M!BrokerMoves(o)
       /\ UNCHANGED vars
    \/ /\ \E b \in Brokers : BrokerMoves(b)
       /\ UNCHANGED engine

SystemInit == Init /\ M!Init

SystemNext ==
    \/ RuntimeWorks
    \/ \E i \in Intents : \E k \in DOMAIN decisions[i] : Submit(i, k)
    \/ EngineWorks
    \/ BrokerWorks
    \/ Dies

SystemSpec == SystemInit /\ [][SystemNext]_system
------------------------------------------------------------------------------
(* Safety. *)

\* The entry has an order at the broker or on its way there.
Exposed(i) ==
    \E r \in Requests : r[1] = i /\ (M!OrdersOf(r) # {} \/ r \in wire)

\* One entry never becomes two orders, over all the decisions and requests made for it and
\* whatever is retried, restarted, lost or late: the authorization reaches the engine once and
\* the engine submits once (docs/SAFETY_INVARIANTS.md, "Idempotency is durable before broker
\* submission").
OneOrderPerEntry ==
    \A r, s \in Requests :
        r[1] = s[1] => \A o \in M!OrdersOf(r), p \in M!OrdersOf(s) : o = p

\* An entry that has an order went through the gate, and the last word of Risk Management on
\* it was a PASS: no BLOCK has come before or comes after the order.
OrdersFollowAPass ==
    \A i \in Intents : Exposed(i) =>
        /\ \E e \in sent : e[1] = i
        /\ decisions[i] # <<>>
        /\ decisions[i][Len(decisions[i])].verdict = "PASS"

\* What the gate checked still holds when the order leaves for the broker, which is later
\* than the check by a save: the market, broker truth, the latest decision and the profile in
\* force (core/manager.py, "Current broker truth is required immediately before Module M").
PermittedWhenItLeaves ==
    [][\A r \in wire' \ wire : Permitted(r[1], r[2])]_system

\* A request of the entry was reconciled before it was deployed.
Burned(i) == \E e \in ready : e[1] = i /\ request[e].status # "READY"

\* Such an entry is lost for good: it never has an order, from this request or from another,
\* however often it is reconciled, deployed again or restarted.
BurnIsForGood ==
    [][\A i \in Intents : Burned(i) => Burned(i)' /\ ~Exposed(i)']_system

\* The profile has changed since the decision on an entry that has not been handed over.
Outdated(i) ==
    /\ intent[i] \in {"RISK_APPROVED", "CANCELLED"}
    /\ \A e \in sent : e[1] # i
    /\ latest[i] \in DOMAIN decisions[i]
    /\ decisions[i][latest[i]].version < Version

\* Such an entry is lost for good as well: Risk evaluates only READY_FOR_RISK intents and
\* rearms only blocked ones, so no new decision replaces the outdated one.
OutdatedIsForGood ==
    [][\A i \in Intents : Outdated(i) => Outdated(i)' /\ ~Exposed(i)']_system
------------------------------------------------------------------------------
(* The abstract specification the system implements. *)

\* The exposure and the report of an entry are those of its one request that has any.
EntryExposure(i) ==
    LET placed == {r \in Requests : r[1] = i /\ M!OrdersOf(r) # {}}
    IN  IF placed = {} THEN [status |-> "none", filled |-> 0]
        ELSE M!BrokerExposure(CHOOSE r \in placed : TRUE)

EntryReport(i) ==
    LET ended == {r \in Requests : r[1] = i /\ request[r].status \in M!FinalStatus}
    IN  IF ended = {} THEN [status |-> "none", filled |-> 0]
        ELSE M!DurableReport(CHOOSE r \in ended : TRUE)

EntryOutcomes == INSTANCE OrderOutcome WITH
    Requests <- Intents,
    exposure <- [i \in Intents |-> EntryExposure(i)],
    report <- [i \in Intents |-> EntryReport(i)]

\* What Module M promises of a request, the system keeps of an entry: over all its decisions
\* and requests it becomes exposure at most once, the exposure ends in one outcome, and this
\* outcome is what TradeMonitor reports, once, and not before the broker has reached it.
EntryHasOneOutcome == EntryOutcomes!Spec
==============================================================================
