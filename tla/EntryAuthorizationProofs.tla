---------------------- MODULE EntryAuthorizationProofs -----------------------
(***************************************************************************)
(* Theorems about EntryAuthorization, for any brokers, symbols, intents and *)
(* limits.  HandoverInv is inductive with TypeOK: a request stands only for *)
(* the latest decision on an intent that nobody evaluates again, such an    *)
(* intent and an approved one were last evaluated with a PASS, and a PASS   *)
(* was within the limit of its profile.                                     *)
(***************************************************************************)
EXTENDS EntryAuthorization, TLAPS

LastIsPass(i) ==
    decisions[i] # <<>> /\ decisions[i][Len(decisions[i])].verdict = "PASS"

\* A cancelled intent keeps its request.
RequestIsBound ==
    \A e \in ready \cup sent :
        /\ intent[e[1]] \in {"RISK_APPROVED", "CANCELLED"}
        /\ e[2] = latest[e[1]]
        /\ LastIsPass(e[1])

ApprovedByPass ==
    \A i \in Intents : intent[i] = "RISK_APPROVED" => LastIsPass(i)

PassWithinItsLimit ==
    \A i \in Intents : \A k \in DOMAIN decisions[i] : decisions[i][k].verdict = "PASS" =>
        /\ decisions[i][k].version \in DOMAIN profiles
        /\ Within(decisions[i][k].counted, profiles[decisions[i][k].version])

HandoverInv == RequestIsBound /\ ApprovedByPass /\ PassWithinItsLimit

\* A saved decision is appended and well typed, and the latest stays a number.
LEMMA SavedDecision ==
    ASSUME TypeOK, NEW i \in Intents, NEW verdict \in Verdicts, SaveDecision(i, verdict)
    PROVE  /\ decisions' \in [Intents -> Seq(RiskDecision)]
           /\ latest' \in [Intents -> Nat]
<1>1. /\ decisions \in [Intents -> Seq(RiskDecision)]
      /\ latest \in [Intents -> Nat]
      /\ Version \in Nat \ {0}
  BY DEF TypeOK, Version
<1>2. [verdict |-> verdict, version |-> Version, token |-> Token, counted |-> OpenPositions]
          \in RiskDecision
  <2>1. Token \in RiskStateToken
    BY DEF TypeOK, BrokerContext, Token, RiskStateToken
  <2>2. OpenPositions \in SUBSET (Brokers \X Symbols)
    BY DEF OpenPositions
  <2>3. verdict \in {"PASS", "BLOCK"}
    BY DEF Verdicts
  <2> QED
    BY <1>1, <2>1, <2>2, <2>3 DEF RiskDecision
<1>3. decisions' \in [Intents -> Seq(RiskDecision)]
  BY <1>1, <1>2 DEF SaveDecision
<1>4. latest' \in [Intents -> Nat]
  BY <1>1, <1>3 DEF SaveDecision
<1> QED
  BY <1>3, <1>4

\* Every reachable state is well typed.
LEMMA TypeInductive ==
    ASSUME TypeOK, [Next]_vars
    PROVE  TypeOK'
<1> USE EntryAssumption
<1>1. CASE Truth
  <2>1. ASSUME NEW b \in Brokers, BrokerMoves(b) PROVE TypeOK'
    BY <2>1 DEF TypeOK, BrokerMoves, permission, handover
  <2>2. ASSUME NEW b \in Brokers, NEW t \in Fresh(b) PROVE
            /\ published[b][t] \in Account
            /\ Accepted(b, t) \in BrokerContext
            /\ \A c \in BrokerContext : Unavailable(c) \in BrokerContext
    <3>1. published[b] \in Seq(Account) /\ t \in DOMAIN published[b]
      BY <2>2 DEF TypeOK, Fresh
    <3>2. published[b][t] \in Account /\ t \in Nat
      BY <3>1
    <3> QED
      BY <3>2 DEF Accepted, Unavailable, BrokerContext
  <2>3. ASSUME NEW b \in Brokers, NEW t \in Fresh(b), Reconcile(b, t) PROVE TypeOK'
    BY <2>2, <2>3 DEF TypeOK, Reconcile, permission, handover
  <2>4. ASSUME NEW b \in Brokers, NEW t \in Fresh(b), ReconcileDies(b, t) PROVE TypeOK'
    <3>1. positions' \in [Brokers -> Account]
      BY <2>2, <2>4 DEF TypeOK, ReconcileDies, PartlySaved
    <3>2. context' \in BrokerContext
      <4>1. context \in BrokerContext /\ Unavailable(context) \in BrokerContext
        BY <2>2 DEF TypeOK
      <4>2. [context EXCEPT !.current = FALSE] \in BrokerContext
        BY <4>1 DEF BrokerContext
      <4>3. Unavailable(Accepted(b, t)) \in BrokerContext
        BY <2>2
      <4> QED
        BY <2>4, <4>1, <4>2, <4>3 DEF ReconcileDies, ProcessLost
    <3> QED
      BY <2>4, <3>1, <3>2 DEF TypeOK, ReconcileDies, permission, handover
  <2>5. ASSUME ReconcileReplay \/ ReconcileFails \/ Restart \/ MarketChanges PROVE TypeOK'
    BY <2>5 DEF TypeOK, BrokerContext, ReconcileReplay, ReconcileFails, Restart, MarketChanges,
         ProcessLost, Unavailable, permission, handover
  <2> QED
    BY <1>1, <2>1, <2>3, <2>4, <2>5 DEF Truth
<1>2. CASE Administration
  <2>1. ASSUME NEW limit \in Limits \cup {NoLimit}, ProposeChange(limit) PROVE TypeOK'
    <3>1. [limit |-> limit, status |-> "PENDING"] \in RiskProfileChange
      BY DEF RiskProfileChange
    <3> QED
      BY <2>1, <3>1 DEF TypeOK, ProposeChange, truth, permission, handover
  <2>2. ASSUME NEW c \in DOMAIN changes, ConfirmChange(c) \/ ConfirmChangeDies(c) PROVE TypeOK'
    <3>1. changes \in Seq(RiskProfileChange) /\ changes[c] \in RiskProfileChange
      BY DEF TypeOK
    <3>2. changes[c].limit \in Limits \cup {NoLimit}
          /\ [changes[c] EXCEPT !.status = "CONFIRMED"] \in RiskProfileChange
      BY <3>1 DEF RiskProfileChange
    <3>3. /\ profiles' = Append(profiles, changes[c].limit)
          /\ \/ changes' = [changes EXCEPT ![c] = [changes[c] EXCEPT !.status = "CONFIRMED"]]
             \/ changes' = changes
      BY <2>2 DEF ConfirmChange, ConfirmChangeDies
    <3>4. profiles' \in Seq(Limits \cup {NoLimit}) /\ profiles' # <<>>
      <4> DEFINE Limit == Limits \cup {NoLimit}
      <4>1. profiles \in Seq(Limit) /\ changes[c].limit \in Limit
        BY <3>2 DEF TypeOK
      <4> HIDE DEF Limit
      <4>2. Append(profiles, changes[c].limit) \in Seq(Limit)
            /\ Len(Append(profiles, changes[c].limit)) = Len(profiles) + 1
            /\ Len(profiles) \in Nat
        BY <4>1
      <4>3. profiles' \in Seq(Limit) /\ Len(profiles') # 0
        BY <3>3, <4>2
      <4> QED
        BY <4>3 DEF Limit
    <3>5. changes' \in Seq(RiskProfileChange)
      <4>1. \A d \in RiskProfileChange :
               [changes EXCEPT ![c] = d] \in Seq(RiskProfileChange)
        BY <3>1
      <4> QED
        BY <3>1, <3>2, <3>3, <4>1
    <3>6. context' \in BrokerContext
      BY <2>2 DEF TypeOK, ConfirmChange, ConfirmChangeDies, ProcessLost, BrokerContext, truth
    <3> QED
      BY <2>2, <3>4, <3>5, <3>6
      DEF TypeOK, ConfirmChange, ConfirmChangeDies, truth, permission, handover
  <2> QED
    BY <1>2, <2>1, <2>2 DEF Administration
<1>3. ASSUME NEW i \in Intents, Entry(i) PROVE TypeOK'
  <2>1. ASSUME NEW verdict \in Verdicts, Evaluate(i, verdict) PROVE TypeOK'
    BY <2>1, SavedDecision DEF TypeOK, Evaluate, EntryIntentState, truth, handover
  <2>2. ASSUME NEW verdict \in Verdicts, EvaluateDies(i, verdict) PROVE TypeOK'
    BY <2>2, SavedDecision DEF TypeOK, EvaluateDies, BrokerContext, ProcessLost, handover
  <2>3. CASE Rearm(i) \/ Cancel(i)
    BY <2>3 DEF TypeOK, Rearm, Cancel, EntryIntentState, truth, handover
  <2>4. ASSUME NEW k \in DOMAIN decisions[i], Prepare(i, k) \/ Deploy(i, k) PROVE TypeOK'
    <3>1. k \in Nat \ {0}
      BY DEF TypeOK
    <3>2. <<i, k>> \in Request
      BY <3>1 DEF Request
    <3>3. CASE Prepare(i, k)
      <4>1. /\ ready' = ready \cup {<<i, k>>}
            /\ sent' = sent
            /\ <<i, k>> \notin sent
        BY <3>3 DEF Prepare
      <4>2. ready \subseteq Request /\ sent \subseteq Request /\ ready \cap sent = {}
        BY DEF TypeOK
      <4>3. ready' \subseteq Request /\ sent' \subseteq Request
        BY <3>2, <4>1, <4>2
      <4>4. ready' \cap sent' = {}
        BY <4>1, <4>2
      <4> QED
        BY <3>3, <4>3, <4>4 DEF TypeOK, Prepare, truth, permission
    <3>4. CASE Deploy(i, k)
      BY <3>2, <3>4 DEF TypeOK, Deploy, truth, permission
    <3> QED
      BY <2>4, <3>3, <3>4
  <2> QED
    BY <1>3, <2>1, <2>2, <2>3, <2>4 DEF Entry
<1>4. CASE UNCHANGED vars
  BY <1>4 DEF TypeOK, vars, truth, permission, handover
<1> QED
  BY <1>1, <1>2, <1>3, <1>4 DEF Next

LEMMA TypeInit == Init => TypeOK
<1>1. {} \in Account
  BY DEF Account
<1>2. Init => published \in [Brokers -> Seq(Account)]
  BY <1>1 DEF Init
<1>3. Init => profiles \in Seq(Limits \cup {NoLimit}) /\ profiles # <<>>
  BY DEF Init
<1>4. Init => changes \in Seq(RiskProfileChange) /\ decisions \in [Intents -> Seq(RiskDecision)]
  BY DEF Init
<1> QED
  BY <1>1, <1>2, <1>3, <1>4 DEF Init, TypeOK, BrokerContext, EntryIntentState

\* Type correctness of the entry permission.
THEOREM TypeCorrect == Spec => []TypeOK
<1>1. TypeOK /\ [Next]_vars => TypeOK'
  BY TypeInductive
<1> QED
  BY <1>1, TypeInit, PTL DEF Spec
------------------------------------------------------------------------------
\* The invariant holds as long as requests, intents and decisions stay and profiles are
\* only added to.
LEMMA HandoverKept ==
    ASSUME TypeOK, HandoverInv,
           ready' \cup sent' = ready \cup sent, UNCHANGED permission,
           \A v \in DOMAIN profiles : v \in DOMAIN profiles' /\ profiles'[v] = profiles[v]
    PROVE  HandoverInv'
<1>1. RequestIsBound' /\ ApprovedByPass'
  BY DEF HandoverInv, RequestIsBound, ApprovedByPass, LastIsPass, permission
<1>2. PassWithinItsLimit'
  BY DEF HandoverInv, PassWithinItsLimit, Within, permission
<1> QED
  BY <1>1, <1>2 DEF HandoverInv

LEMMA HandoverInductive ==
    ASSUME TypeOK, HandoverInv, [Next]_vars
    PROVE  HandoverInv'
<1>1. CASE Truth
  <2>1. UNCHANGED <<profiles, permission, handover>>
    BY <1>1 DEF Truth, BrokerMoves, Reconcile, ReconcileDies, ReconcileReplay, ReconcileFails,
         Restart, MarketChanges
  <2> QED
    BY <2>1, HandoverKept DEF handover
<1>2. CASE Administration
  <2>1. UNCHANGED <<permission, handover>>
    BY <1>2 DEF Administration, ProposeChange, ConfirmChange, ConfirmChangeDies
  <2>2. profiles' = profiles \/ \E c \in DOMAIN changes :
            profiles' = Append(profiles, changes[c].limit)
    BY <1>2 DEF Administration, ProposeChange, ConfirmChange, ConfirmChangeDies
  <2>3. \A v \in DOMAIN profiles : v \in DOMAIN profiles' /\ profiles'[v] = profiles[v]
    <3>1. profiles \in Seq(Limits \cup {NoLimit})
      BY DEF TypeOK
    <3>2. ASSUME NEW limit PROVE
             \A v \in DOMAIN profiles : v \in DOMAIN Append(profiles, limit)
                                       /\ Append(profiles, limit)[v] = profiles[v]
      BY <3>1
    <3> QED
      BY <2>2, <3>2
  <2> QED
    BY <2>1, <2>3, HandoverKept DEF handover
<1>3. ASSUME NEW i \in Intents, Entry(i) PROVE HandoverInv'
  <2>1. ASSUME NEW verdict \in Verdicts, SaveDecision(i, verdict), UNCHANGED <<profiles, handover>>,
               intent[i] = "READY_FOR_RISK",
               \/ intent' = intent
               \/ intent' = [intent EXCEPT ![i] =
                               IF verdict = "PASS" THEN "RISK_APPROVED" ELSE "RISK_BLOCKED"]
        PROVE  HandoverInv'
    <3> DEFINE d == [verdict |-> verdict, version |-> Version,
                     token |-> Token, counted |-> OpenPositions]
    <3>1. /\ decisions' = [decisions EXCEPT ![i] = Append(@, d)]
          /\ \E k : latest' = [latest EXCEPT ![i] = k]
      BY <2>1 DEF SaveDecision
    <3>2. /\ decisions[i] \in Seq(RiskDecision)
          /\ decisions \in [Intents -> Seq(RiskDecision)]
          /\ latest \in [Intents -> Nat]
          /\ intent \in [Intents -> EntryIntentState]
          /\ ready \cup sent \subseteq Request
      BY DEF TypeOK
    <3>3. d \in RiskDecision
      <4>1. Token \in RiskStateToken /\ OpenPositions \in SUBSET (Brokers \X Symbols)
        BY DEF TypeOK, BrokerContext, Token, RiskStateToken, OpenPositions
      <4>2. Version \in Nat \ {0} /\ verdict \in {"PASS", "BLOCK"}
        BY DEF TypeOK, Version, Verdicts
      <4> QED
        BY <4>1, <4>2 DEF RiskDecision
    <3> DEFINE ds == Append(decisions[i], d)
    <3>5. /\ Len(ds) = Len(decisions[i]) + 1
          /\ Len(decisions[i]) \in Nat
          /\ DOMAIN ds = 1..(Len(decisions[i]) + 1)
          /\ \A k \in 1..Len(decisions[i]) : ds[k] = decisions[i][k]
          /\ ds[Len(decisions[i]) + 1] = d
      BY <3>2, <3>3
    <3>6. decisions'[i] = ds /\ \A j \in Intents \ {i} : decisions'[j] = decisions[j]
      BY <3>1, <3>2
    <3> HIDE DEF ds
    <3>4. RequestIsBound'
      <4> SUFFICES ASSUME NEW e \in ready \cup sent
                   PROVE  /\ intent'[e[1]] \in {"RISK_APPROVED", "CANCELLED"}
                          /\ e[2] = latest'[e[1]]
                          /\ LastIsPass(e[1])'
        BY <2>1 DEF RequestIsBound, handover
      <4>1. /\ e[1] \in Intents
            /\ intent[e[1]] \in {"RISK_APPROVED", "CANCELLED"}
            /\ e[2] = latest[e[1]]
            /\ LastIsPass(e[1])
        BY <3>2 DEF HandoverInv, RequestIsBound, Request
      <4>2. e[1] # i
        BY <2>1, <4>1
      <4> QED
        BY <2>1, <3>1, <3>2, <3>6, <4>1, <4>2 DEF LastIsPass
    <3>7. ApprovedByPass'
      <4>1. ASSUME NEW j \in Intents, intent'[j] = "RISK_APPROVED"
            PROVE  LastIsPass(j)'
        <5>1. CASE j = i
          <6>1. verdict = "PASS"
            BY <2>1, <3>2, <4>1, <5>1
          <6>2. decisions'[j] # <<>>
            BY <3>5, <3>6, <5>1
          <6> QED
            BY <3>5, <3>6, <5>1, <6>1, <6>2 DEF LastIsPass
        <5>2. CASE j # i
          BY <2>1, <3>2, <3>6, <4>1, <5>2 DEF HandoverInv, ApprovedByPass, LastIsPass
        <5> QED
          BY <5>1, <5>2
      <4> QED
        BY <4>1 DEF ApprovedByPass
    <3>8. PassWithinItsLimit'
      <4>1. verdict = "PASS" =>
               Within(OpenPositions, profiles[Version]) /\ Version \in DOMAIN profiles
        BY DEF Verdicts, TypeOK, Version
      <4>2. ASSUME NEW j \in Intents, NEW k \in DOMAIN decisions'[j],
                   decisions'[j][k].verdict = "PASS"
            PROVE  /\ decisions'[j][k].version \in DOMAIN profiles
                   /\ Within(decisions'[j][k].counted, profiles[decisions'[j][k].version])
        <5>1. CASE j = i /\ k = Len(decisions[i]) + 1
          BY <3>5, <3>6, <4>1, <4>2, <5>1
        <5>2. CASE j = i /\ k # Len(decisions[i]) + 1
          <6>1. k \in 1..(Len(decisions[i]) + 1)
            BY <3>5, <3>6, <4>2, <5>2
          <6>2. k \in 1..Len(decisions[i])
            BY <3>5, <5>2, <6>1
          <6>3. DOMAIN decisions[i] = 1..Len(decisions[i])
            BY <3>2
          <6>4. k \in DOMAIN decisions[i] /\ decisions'[j][k] = decisions[i][k]
            BY <3>5, <3>6, <5>2, <6>2, <6>3
          <6> QED
            BY <4>2, <5>2, <6>4 DEF HandoverInv, PassWithinItsLimit
        <5>3. CASE j # i
          BY <3>6, <4>2, <5>3 DEF HandoverInv, PassWithinItsLimit
        <5> QED
          BY <5>1, <5>2, <5>3
      <4> QED
        BY <2>1, <4>2 DEF PassWithinItsLimit, Within
    <3> QED
      BY <3>4, <3>7, <3>8 DEF HandoverInv
  <2>2. ASSUME NEW verdict \in Verdicts, Evaluate(i, verdict) PROVE HandoverInv'
    BY <2>1, <2>2 DEF Evaluate
  <2>3. ASSUME NEW verdict \in Verdicts, EvaluateDies(i, verdict) PROVE HandoverInv'
    BY <2>1, <2>3 DEF EvaluateDies
  <2>4. CASE Rearm(i) \/ Cancel(i)
    <3>1. /\ \/ intent[i] = "RISK_BLOCKED" /\ intent' = [intent EXCEPT ![i] = "READY_FOR_RISK"]
             \/ intent' = [intent EXCEPT ![i] = "CANCELLED"]
          /\ UNCHANGED <<profiles, decisions, latest, ready, sent>>
      BY <2>4 DEF Rearm, Cancel, handover
    <3>2. intent \in [Intents -> EntryIntentState] /\ ready \cup sent \subseteq Request
      BY DEF TypeOK
    <3>3. RequestIsBound'
      BY <3>1, <3>2 DEF HandoverInv, RequestIsBound, Request, LastIsPass
    <3>4. ApprovedByPass' /\ PassWithinItsLimit'
      BY <3>1, <3>2 DEF HandoverInv, ApprovedByPass, PassWithinItsLimit, Within, LastIsPass
    <3> QED
      BY <3>3, <3>4 DEF HandoverInv
  <2>5. ASSUME NEW k \in DOMAIN decisions[i], Prepare(i, k) PROVE HandoverInv'
    <3>1. /\ intent[i] = "RISK_APPROVED" /\ k = latest[i]
          /\ ready' = ready \cup {<<i, k>>}
          /\ UNCHANGED <<profiles, intent, decisions, latest, sent>>
      BY <2>5 DEF Prepare, Permitted, permission
    <3>2. RequestIsBound'
      BY <3>1 DEF HandoverInv, RequestIsBound, ApprovedByPass, LastIsPass
    <3>3. ApprovedByPass' /\ PassWithinItsLimit'
      BY <3>1 DEF HandoverInv, ApprovedByPass, PassWithinItsLimit, Within, LastIsPass
    <3> QED
      BY <3>2, <3>3 DEF HandoverInv
  <2>6. ASSUME NEW k \in DOMAIN decisions[i], Deploy(i, k) PROVE HandoverInv'
    <3>1. ready' \cup sent' = ready \cup sent /\ UNCHANGED <<profiles, permission>>
      BY <2>6 DEF Deploy
    <3> QED
      BY <3>1, HandoverKept
  <2> QED
    BY <1>3, <2>2, <2>3, <2>4, <2>5, <2>6 DEF Entry
<1>4. CASE UNCHANGED vars
  BY <1>4, HandoverKept DEF vars, handover
<1> QED
  BY <1>1, <1>2, <1>3, <1>4 DEF Next

\* The invariant of the hand-over holds in every reachable state.
THEOREM HandoverAlways == Spec => [](TypeOK /\ HandoverInv)
<1>1. Init => HandoverInv
  BY DEF Init, HandoverInv, RequestIsBound, ApprovedByPass, PassWithinItsLimit
<1>2. TypeOK /\ HandoverInv /\ [Next]_vars => HandoverInv'
  BY HandoverInductive
<1>3. TypeOK /\ [Next]_vars => TypeOK'
  BY TypeInductive
<1> QED
  BY <1>1, <1>2, <1>3, TypeInit, PTL DEF Spec

\* An entry intent is handed to Module M at most once: every request of it is bound to the
\* same, latest decision.
THEOREM OneHandover == Spec => []OneHandoverPerIntent
<1>1. TypeOK /\ HandoverInv => OneHandoverPerIntent
  <2> SUFFICES ASSUME TypeOK, HandoverInv, NEW e \in sent, NEW f \in sent, e[1] = f[1]
               PROVE  e = f
    BY DEF OneHandoverPerIntent
  <2>1. e[2] = f[2]
    BY DEF HandoverInv, RequestIsBound
  <2>2. e \in Intents \X (Nat \ {0}) /\ f \in Intents \X (Nat \ {0})
    BY DEF TypeOK, Request
  <2> QED
    BY <2>1, <2>2
<1> QED
  BY <1>1, HandoverAlways, PTL

\* No BLOCK is passed over: an intent in Module M's hands was last evaluated with a PASS.
THEOREM BlockStands == Spec => []NoBlockIsPassedOver
<1>1. TypeOK /\ HandoverInv => NoBlockIsPassedOver
  BY DEF TypeOK, Request, HandoverInv, RequestIsBound, LastIsPass, NoBlockIsPassedOver
<1> QED
  BY <1>1, HandoverAlways, PTL

\* A hand-over respects the limit in force: the gate asks for the version the PASS was made
\* under, and the PASS was within the limit of that version.
THEOREM LimitKept == Spec => LimitInForceIsKept
<1>1. TypeOK /\ HandoverInv /\ [Next]_vars
        => [\A e \in sent' \ sent : Within(DecisionOf(e).counted, profiles[Version])]_vars
  <2> SUFFICES ASSUME TypeOK, HandoverInv, Next, NEW e \in sent' \ sent
               PROVE  Within(DecisionOf(e).counted, profiles[Version])
    BY DEF vars
  <2>1. CASE Truth \/ Administration
    BY <2>1 DEF Truth, BrokerMoves, Reconcile, ReconcileDies, ReconcileReplay, ReconcileFails,
         Restart, MarketChanges, Administration, ProposeChange, ConfirmChange,
         ConfirmChangeDies, handover
  <2>2. ASSUME NEW i \in Intents, Entry(i) PROVE Within(DecisionOf(e).counted, profiles[Version])
    <3>1. PICK k \in DOMAIN decisions[i] : Deploy(i, k)
      BY <2>2 DEF Entry, Evaluate, EvaluateDies, Rearm, Cancel, Prepare, handover
    <3>2. e = <<i, k>> /\ decisions[i][k].verdict = "PASS" /\ decisions[i][k].version = Version
      BY <3>1 DEF Deploy, Permitted
    <3>3. Within(decisions[i][k].counted, profiles[decisions[i][k].version])
      BY <3>2 DEF HandoverInv, PassWithinItsLimit
    <3> QED
      BY <3>2, <3>3 DEF DecisionOf
  <2> QED
    BY <2>1, <2>2 DEF Next
<1> QED
  BY <1>1, HandoverAlways, PTL DEF Spec, LimitInForceIsKept
==============================================================================
