------------------------- MODULE EntryAuthorization --------------------------
(***************************************************************************)
(* The permission of Risk Management to open new exposure, from its grant   *)
(* to the hand-over to Module M: broker truth and the token of its facts    *)
(* (core/manager.py), the versioned risk profile and the decisions made     *)
(* under it (risk/engine.py), the execution requests that carry a PASS      *)
(* (execution/requests.py) and the gate in front of Module M                *)
(* (core/manager.py).                                                       *)
(*                                                                          *)
(* Operations run under the Core lock, one step each; an action ending in   *)
(* "Dies" is one of them cut off between two saves.  Market data, User      *)
(* approval and AUTO evidence can only forbid a deployment: the first is a  *)
(* flag here, the others are left out.                                      *)
(***************************************************************************)
EXTENDS Naturals, Sequences, FiniteSets

CONSTANTS
    Brokers,        \* the broker accounts whose truth is reconciled
    NoBroker,       \* the broker of a context that has seen no snapshot
    Symbols,        \* what an account may hold an open position in
    Intents,        \* entry intents that reached the risk gate
    Limits,         \* values of max_open_positions that an Admin may ask for
    NoLimit,        \* max_open_positions is None
    MaxSnapshots,   \* bound: states one account takes
    MaxProfiles,    \* bound: risk profiles
    MaxChanges,     \* bound: profile changes proposed
    MaxDecisions    \* bound: decisions on one intent

ASSUME EntryAssumption ==
    /\ NoBroker \notin Brokers
    /\ NoLimit \notin Limits
    /\ Limits \subseteq Nat \ {0}
    /\ {MaxSnapshots, MaxProfiles, MaxChanges, MaxDecisions} \subseteq Nat

VARIABLES
    published,    \* the brokers: the successive states of each account, latest last
    positions,    \* the positions table: what is open at each broker
    context,      \* the broker context
    market,       \* the status of the market context
    profiles,     \* the limit of each risk profile; the last one is active
    changes,      \* the risk profile changes, in the order they were proposed
    intent,       \* the state of each entry intent
    decisions,    \* the risk decisions on each intent, in the order they were made
    latest,       \* which of them the repository calls the latest
    ready,        \* execution requests that are READY: <<intent, decision>>
    sent          \* execution requests that Module M has begun to submit

truth == <<published, positions, context, market>>
permission == <<intent, decisions, latest>>
handover == <<ready, sent>>
vars == <<truth, profiles, changes, permission, handover>>
------------------------------------------------------------------------------
(* Data. *)

\* What the risk token covers of an account: here the positions it holds open.
Account == SUBSET Symbols

\* at is the observation time: the number of the account's state; 0 is None.
BrokerContext ==
    [status: {"NOT_RECONCILED", "RECONCILED", "UNAVAILABLE"}, current: BOOLEAN,
     broker: Brokers \cup {NoBroker}, at: Nat, account: Account]

RiskStateToken == [broker: Brokers \cup {NoBroker}, account: Account]

RiskDecision ==
    [verdict: {"PASS", "BLOCK"}, version: Nat \ {0}, token: RiskStateToken,
     counted: SUBSET (Brokers \X Symbols)]

RiskProfileChange == [limit: Limits \cup {NoLimit}, status: {"PENDING", "CONFIRMED"}]

EntryIntentState == {"READY_FOR_RISK", "RISK_APPROVED", "RISK_BLOCKED", "CANCELLED"}

Request == Intents \X (Nat \ {0})

TypeOK ==
    /\ published \in [Brokers -> Seq(Account)]
    /\ positions \in [Brokers -> Account]
    /\ context \in BrokerContext
    /\ market \in {"READY", "STALE"}
    /\ profiles \in Seq(Limits \cup {NoLimit}) /\ profiles # <<>>
    /\ changes \in Seq(RiskProfileChange)
    /\ intent \in [Intents -> EntryIntentState]
    /\ decisions \in [Intents -> Seq(RiskDecision)]
    /\ latest \in [Intents -> Nat]
    /\ ready \subseteq Request /\ sent \subseteq Request
    /\ ready \cap sent = {}

Version == Len(profiles)
OpenPositions == {p \in Brokers \X Symbols : p[2] \in positions[p[1]]}
CurrentTruth == context.current /\ context.status = "RECONCILED"
Token == [broker |-> context.broker, account |-> context.account]
DecisionOf(e) == decisions[e[1]][e[2]]

\* The next process has to read broker truth again.
ProcessLost == context' = [context EXCEPT !.current = FALSE]
------------------------------------------------------------------------------
(* Broker and market truth. *)

\* Positions open or close at the broker, or it only reports again.
BrokerMoves(b) ==
    /\ Len(published[b]) < MaxSnapshots
    /\ \E a \in Account : published' = [published EXCEPT ![b] = Append(@, a)]
    /\ UNCHANGED <<positions, context, market, profiles, changes, permission, handover>>

\* _last_broker_observed_at: only the broker reconciled last has an observation time.
LastObserved(b) == IF context.broker = b THEN context.at ELSE 0

\* Any state of the account since the one accepted last: a read may lag.
Fresh(b) == {t \in DOMAIN published[b] : t > LastObserved(b)}

Accepted(b, t) ==
    [status |-> "RECONCILED", current |-> TRUE,
     broker |-> b, at |-> t, account |-> published[b][t]]

Unavailable(c) == [c EXCEPT !.status = "UNAVAILABLE", !.current = FALSE]

Reconcile(b, t) ==
    /\ positions' = [positions EXCEPT ![b] = published[b][t]]
    /\ context' = Accepted(b, t)
    /\ UNCHANGED <<published, market, profiles, changes, permission, handover>>

\* Positions are saved one by one, and the context after the last of them.
PartlySaved(b, t) ==
    {a \in Account : /\ positions[b] \cap published[b][t] \subseteq a
                     /\ a \subseteq positions[b] \cup published[b][t]}

\* The process dies, or the operation raises, before all of it is saved.
ReconcileDies(b, t) ==
    /\ \/ /\ \E a \in PartlySaved(b, t) : positions' = [positions EXCEPT ![b] = a]
          /\ ProcessLost \/ context' = Unavailable(context)
       \/ /\ positions' = [positions EXCEPT ![b] = published[b][t]]
          /\ context' = Unavailable(Accepted(b, t))
    /\ UNCHANGED <<published, market, profiles, changes, permission, handover>>

\* The snapshot accepted last comes again: it counts as a check of broker truth, no more.
ReconcileReplay ==
    /\ context.broker # NoBroker
    /\ context' = [context EXCEPT !.current = TRUE]
    /\ UNCHANGED <<published, positions, market, profiles, changes, permission, handover>>

ReconcileFails ==
    /\ context' = Unavailable(context)
    /\ UNCHANGED <<published, positions, market, profiles, changes, permission, handover>>

Restart ==
    /\ ProcessLost
    /\ UNCHANGED <<published, positions, market, profiles, changes, permission, handover>>

\* patch_context and mark_context_stale on the market context.
MarketChanges ==
    /\ market' \in {"READY", "STALE"} \ {market}
    /\ UNCHANGED <<published, positions, context, profiles, changes, permission, handover>>
------------------------------------------------------------------------------
(* The risk profile. *)

ProposeChange(limit) ==
    /\ Len(changes) < MaxChanges
    /\ changes' = Append(changes, [limit |-> limit, status |-> "PENDING"])
    /\ UNCHANGED <<truth, profiles, permission, handover>>

Confirmable(c) == changes[c].status = "PENDING" /\ Version < MaxProfiles

ConfirmChange(c) ==
    /\ Confirmable(c)
    /\ profiles' = Append(profiles, changes[c].limit)
    /\ changes' = [changes EXCEPT ![c].status = "CONFIRMED"]
    /\ UNCHANGED <<truth, permission, handover>>

\* The new profile is active, and its change can be confirmed once more.
ConfirmChangeDies(c) ==
    /\ Confirmable(c)
    /\ profiles' = Append(profiles, changes[c].limit)
    /\ ProcessLost
    /\ UNCHANGED <<published, positions, market, changes, permission, handover>>
------------------------------------------------------------------------------
(* The risk gate. *)

Within(counted, limit) == limit = NoLimit \/ Cardinality(counted) < limit

\* The limits on the proposed trade itself can BLOCK as well, whatever the account.
Verdicts ==
    IF CurrentTruth /\ Within(OpenPositions, profiles[Version])
    THEN {"PASS", "BLOCK"} ELSE {"BLOCK"}

\* save_risk_decision: the caller may supply the time of evaluation, so an earlier decision
\* may still be the latest by time (or by identifier, for equal times).
SaveDecision(i, verdict) ==
    /\ Len(decisions[i]) < MaxDecisions
    /\ decisions' = [decisions EXCEPT ![i] =
          Append(@, [verdict |-> verdict, version |-> Version,
                     token |-> Token, counted |-> OpenPositions])]
    /\ \E k \in (1..Len(decisions'[i])) \cap {latest[i], Len(decisions'[i])} :
          latest' = [latest EXCEPT ![i] = k]

Evaluate(i, verdict) ==
    /\ intent[i] = "READY_FOR_RISK"
    /\ SaveDecision(i, verdict)
    /\ intent' = [intent EXCEPT ![i] =
                    IF verdict = "PASS" THEN "RISK_APPROVED" ELSE "RISK_BLOCKED"]
    /\ UNCHANGED <<truth, profiles, changes, handover>>

\* The decision is saved, the intent is not: it waits for the gate once more.
EvaluateDies(i, verdict) ==
    /\ intent[i] = "READY_FOR_RISK"
    /\ SaveDecision(i, verdict)
    /\ ProcessLost
    /\ UNCHANGED <<published, positions, market, profiles, changes, intent, handover>>

RearmAny(i) ==
    /\ intent[i] # "READY_FOR_RISK"
    /\ intent' = [intent EXCEPT ![i] = "READY_FOR_RISK"]
    /\ UNCHANGED <<truth, profiles, changes, decisions, latest, handover>>

Rearm(i) ==
    /\ intent[i] = "RISK_BLOCKED"
    /\ intent' = [intent EXCEPT ![i] = "READY_FOR_RISK"]
    /\ UNCHANGED <<truth, profiles, changes, decisions, latest, handover>>

\* The entry monitor's cancel: whatever the state, and a request already made remains.
Cancel(i) ==
    /\ intent' = [intent EXCEPT ![i] = "CANCELLED"]
    /\ UNCHANGED <<truth, profiles, changes, decisions, latest, handover>>
------------------------------------------------------------------------------
(* The hand-over. *)

PermittedUnderAnyProfile(i, k) ==
    /\ market # "STALE"
    /\ CurrentTruth
    /\ k = latest[i]
    /\ decisions[i][k].verdict = "PASS"
    /\ decisions[i][k].token = Token

\* What both gates ask of a decision: the latest one, a PASS, under the active profile and
\* the broker facts of now.
Permitted(i, k) ==
    /\ market # "STALE"
    /\ CurrentTruth
    /\ k = latest[i]
    /\ decisions[i][k].verdict = "PASS"
    /\ decisions[i][k].version = Version
    /\ decisions[i][k].token = Token

PrepareWhateverTheIntent(i, k) ==
    /\ Permitted(i, k)
    /\ <<i, k>> \notin ready \cup sent
    /\ ready' = ready \cup {<<i, k>>}
    /\ UNCHANGED <<truth, profiles, changes, permission, sent>>

\* A decision has one request: it is the request's idempotency key.
Prepare(i, k) ==
    /\ intent[i] = "RISK_APPROVED"
    /\ Permitted(i, k)
    /\ <<i, k>> \notin ready \cup sent
    /\ ready' = ready \cup {<<i, k>>}
    /\ UNCHANGED <<truth, profiles, changes, permission, sent>>

DeployAgain(i, k) ==
    /\ <<i, k>> \in ready
    /\ Permitted(i, k)
    /\ sent' = sent \cup {<<i, k>>}
    /\ UNCHANGED <<truth, profiles, changes, permission, ready>>

\* The gate is passed and Module M saves SUBMITTING; from there on it only reconciles.
Deploy(i, k) ==
    /\ <<i, k>> \in ready
    /\ Permitted(i, k)
    /\ ready' = ready \ {<<i, k>>}
    /\ sent' = sent \cup {<<i, k>>}
    /\ UNCHANGED <<truth, profiles, changes, permission>>
------------------------------------------------------------------------------
Init ==
    /\ published = [b \in Brokers |-> <<{}>>]
    /\ positions = [b \in Brokers |-> {}]
    /\ context = [status |-> "NOT_RECONCILED", current |-> FALSE,
                  broker |-> NoBroker, at |-> 0, account |-> {}]
    /\ market = "READY"
    /\ profiles = <<NoLimit>>
    /\ changes = <<>>
    /\ intent = [i \in Intents |-> "READY_FOR_RISK"]
    /\ decisions = [i \in Intents |-> <<>>]
    /\ latest = [i \in Intents |-> 0]
    /\ ready = {}
    /\ sent = {}

Truth ==
    \/ \E b \in Brokers :
          BrokerMoves(b) \/ \E t \in Fresh(b) : Reconcile(b, t) \/ ReconcileDies(b, t)
    \/ ReconcileReplay \/ ReconcileFails \/ Restart \/ MarketChanges

Administration ==
    \/ \E limit \in Limits \cup {NoLimit} : ProposeChange(limit)
    \/ \E c \in DOMAIN changes : ConfirmChange(c) \/ ConfirmChangeDies(c)

Entry(i) ==
    \/ \E verdict \in Verdicts : Evaluate(i, verdict) \/ EvaluateDies(i, verdict)
    \/ Rearm(i) \/ Cancel(i)
    \/ \E k \in DOMAIN decisions[i] : Prepare(i, k) \/ Deploy(i, k)

Next == Truth \/ Administration \/ \E i \in Intents : Entry(i)

Spec == Init /\ [][Next]_vars
------------------------------------------------------------------------------
(* Safety. *)

\* An entry reaches Module M once, whatever is evaluated again after a crash or a BLOCK:
\* docs/TM4_TGT1_ACCEPTANCE.md, "One authorization/idempotency key maps to one durable
\* ExecutionRequest".
OneHandoverPerIntent ==
    \A e, f \in sent : e[1] = f[1] => e = f

\* An entry in Module M's hands is one whose last evaluation was a PASS: no BLOCK is passed
\* over for an older PASS, not even one that is still called the latest.
NoBlockIsPassedOver ==
    \A e \in sent :
        decisions[e[1]] # <<>> /\ decisions[e[1]][Len(decisions[e[1]])].verdict = "PASS"

\* At the moment of the hand-over, what the decision counted is within the limit in force,
\* not only within the one it was made under.
LimitInForceIsKept ==
    [][\A e \in sent' \ sent : Within(DecisionOf(e).counted, profiles[Version])]_vars

\* Entry authorization becomes stale if broker truth has changed since the risk decision
\* (docs/TM4_TGT1_ACCEPTANCE.md): the positions known at the hand-over are those the
\* decision counted.
PermissionFollowsBrokerTruth ==
    [][\A e \in sent' \ sent : DecisionOf(e).counted = OpenPositions]_vars

\* An approved entry that the gates refuse because its permission is stale can be given to
\* Risk again, as the gates' own messages ask (core/manager.py, "re-evaluate Risk").
StalePermissionIsRenewable ==
    \A i \in Intents :
        /\ intent[i] = "RISK_APPROVED"
        /\ \A e \in sent : e[1] # i
        /\ decisions[i][latest[i]].version # Version
        => ENABLED (Rearm(i) \/ \E verdict \in Verdicts : Evaluate(i, verdict))
==============================================================================
