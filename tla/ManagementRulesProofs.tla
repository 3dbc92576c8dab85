------------------------- MODULE ManagementRulesProofs -------------------------
(***************************************************************************)
(* Theorems about ManagementRules, for any rules, parameters, snapshots and *)
(* quantities.  RulesInv is inductive with TypeOK: a rule that was added is *)
(* valid, an evaluation has only active rules left, and the rules that have *)
(* triggered are those that became a reason for an exit, those in hand and  *)
(* those of an evaluation that was cut short.                               *)
(***************************************************************************)
EXTENDS ManagementRules, TLAPS

AddedIsValid == \A r \in Rules : rules[r].status # "NONE" => Valid(Parameters[r])

LeftIsActive == evaluating # Idle => \A r \in evaluating.left : Active(r)

RulesInv == AddedIsValid /\ LeftIsActive /\ TriggersAreSpentOnce

\* What an evaluation in progress looks like.
LEMMA EvaluationType ==
    ASSUME TypeOK, evaluating # Idle
    PROVE  evaluating \in [at: {"rules"}, snapshot: Snapshots, left: SUBSET Rules,
                           fired: SUBSET Rules]
BY DEF TypeOK, Evaluation

\* _evaluate_rule gives a rule, if it gives anything.
LEMMA EvaluatedType ==
    ASSUME NEW rule \in PositionManagementRule, NEW spec \in ManagementRuleSpec,
           NEW s \in PositionManagementSnapshot, ~Raises(rule, spec, s)
    PROVE  Evaluated(rule, spec, s) \in PositionManagementRule
<1>1. \A b \in BOOLEAN : Status(b) \in ManagementRuleStatus
  BY DEF Status, ManagementRuleStatus
<1>2. CASE spec.type = "TRAILING_SL"
  <2>1. s.premium \in Nat \cup {Unknown} /\ rule.watermark \in Nat \cup {Unknown}
    BY <1>2 DEF PositionManagementSnapshot, PositionManagementRule, Raises
  <2>2. Watermark(rule, s.premium) \in Nat \cup {Unknown}
    BY <2>1 DEF Watermark
  <2>3. Status(StopHit(s.premium, Watermark(rule, s.premium), spec.trail))
            \in ManagementRuleStatus
    BY DEF Status, ManagementRuleStatus
  <2>4. Trailing(rule, spec, s) \in PositionManagementRule
    BY <2>2, <2>3 DEF Trailing, PositionManagementRule
  <2> QED
    BY <1>2, <2>4 DEF Evaluated
<1>3. CASE spec.type = "PROFIT_LOCK"
  <2>1. Status(s.pnl <= spec.floor) \in ManagementRuleStatus
    BY DEF Status, ManagementRuleStatus
  <2>2. ProfitLock(rule, spec, s) \in PositionManagementRule
    BY <2>1 DEF ProfitLock, PositionManagementRule
  <2> QED
    BY <1>3, <2>2 DEF Evaluated
<1>4. CASE spec.type \notin {"TRAILING_SL", "PROFIT_LOCK"}
  <2>1. [rule EXCEPT !.status = "TRIGGERED"] \in PositionManagementRule
    BY DEF PositionManagementRule, ManagementRuleStatus
  <2> QED
    BY <1>4, <2>1 DEF Evaluated
<1> QED
  BY <1>2, <1>3, <1>4

LEMMA InitialState == Init => TypeOK /\ RulesInv
<1> SUFFICES ASSUME Init PROVE TypeOK /\ RulesInv
  OBVIOUS
<1>1. NoRule \in PositionManagementRule
  BY DEF NoRule, PositionManagementRule, ManagementRuleStatus
<1>2. TypeOK
  BY <1>1 DEF Init, TypeOK, Evaluation
<1>3. RulesInv
  BY DEF Init, RulesInv, AddedIsValid, LeftIsActive, TriggersAreSpentOnce, InHand,
         NoRule
<1> QED
  BY <1>2, <1>3

\* Every reachable state is well typed.
LEMMA TypeInductive ==
    ASSUME TypeOK, [Next]_vars
    PROVE  TypeOK'
<1>1. /\ \A r \in Rules : \A status \in ManagementRuleStatus :
            [rules[r] EXCEPT !.status = status] \in PositionManagementRule
      /\ {"ACTIVE", "CANCELLED"} \subseteq ManagementRuleStatus
      /\ \A r \in Rules : rules[r] \in PositionManagementRule
  BY DEF TypeOK, PositionManagementRule, ManagementRuleStatus
<1>2. ASSUME NEW r \in Rules, AddRule(r) \/ CancelRule(r) PROVE TypeOK'
  <2>1. rules' \in [Rules -> PositionManagementRule]
    BY <1>1, <1>2 DEF TypeOK, AddRule, CancelRule
  <2> QED
    BY <1>2, <2>1 DEF TypeOK, AddRule, CancelRule
<1>3. ASSUME NEW S \in SUBSET Rules, InstallPolicy(S) PROVE TypeOK'
  <2>1. rules' \in [Rules -> PositionManagementRule]
    BY <1>1, <1>3 DEF InstallPolicy
  <2> QED
    BY <1>3, <2>1 DEF TypeOK, InstallPolicy
<1>4. ASSUME NEW s \in Snapshots, Evaluate(s) PROVE TypeOK'
  <2>1. evaluating' \in Evaluation
    BY <1>4 DEF Evaluate, Evaluation
  <2> QED
    BY <1>4, <2>1 DEF TypeOK, Evaluate
<1>5. ASSUME NEW r \in Rules, EvaluateRule(r) PROVE TypeOK'
  <2>1. evaluating \in [at: {"rules"}, snapshot: Snapshots, left: SUBSET Rules,
                        fired: SUBSET Rules]
    BY <1>5, EvaluationType DEF EvaluateRule
  <2>2. evaluating' \in Evaluation
    BY <1>5, <2>1 DEF EvaluateRule, Evaluation
  <2>3. Evaluated(rules[r], Parameters[r], evaluating.snapshot) \in PositionManagementRule
    BY <1>1, <1>5, <2>1, EvaluatedType, RulesAssumption DEF EvaluateRule
  <2>4. rules' \in [Rules -> PositionManagementRule]
    BY <1>5, <2>3 DEF TypeOK, EvaluateRule
  <2> QED
    BY <1>5, <2>2, <2>4 DEF TypeOK, EvaluateRule
<1>6. ASSUME NEW r \in Rules, RaiseExit(r) PROVE TypeOK'
  <2>1. evaluating' \in Evaluation
    BY <1>6, EvaluationType DEF RaiseExit, Evaluation
  <2> QED
    BY <1>6, <2>1 DEF TypeOK, RaiseExit
<1>7. CASE EndEvaluation
  BY <1>7 DEF TypeOK, EndEvaluation, Evaluation
<1>8. CASE CutShort
  <2>1. cut' \in SUBSET Rules
    BY <1>8, EvaluationType DEF TypeOK, CutShort
  <2> QED
    BY <1>8, <2>1 DEF TypeOK, CutShort, Evaluation
<1>9. ASSUME NEW q \in Quantities, Reconcile(q) PROVE TypeOK'
  BY <1>9 DEF TypeOK, Reconcile
<1>10. ASSUME NEW p \in PositionManagementProfile, Convert(p) PROVE TypeOK'
  BY <1>10 DEF TypeOK, Convert
<1>11. CASE UNCHANGED vars
  BY <1>11 DEF TypeOK, vars
<1> QED
  BY <1>2, <1>3, <1>4, <1>5, <1>6, <1>7, <1>8, <1>9, <1>10, <1>11
     DEF Next, RuleRaises, EventFails, EvaluationDies

\* Rules that were added are valid, whatever is evaluated of them.
LEMMA AddedInductive ==
    ASSUME TypeOK, RulesInv, [Next]_vars
    PROVE  AddedIsValid'
<1> USE DEF RulesInv, AddedIsValid
<1>1. CASE UNCHANGED rules
  BY <1>1
<1>2. ASSUME NEW r \in Rules, AddRule(r) \/ CancelRule(r) PROVE AddedIsValid'
  BY <1>2 DEF TypeOK, AddRule, CancelRule
<1>3. ASSUME NEW S \in SUBSET Rules, InstallPolicy(S) PROVE AddedIsValid'
  BY <1>3 DEF TypeOK, InstallPolicy
<1>4. ASSUME NEW r \in Rules, EvaluateRule(r) PROVE AddedIsValid'
  BY <1>4 DEF TypeOK, EvaluateRule, LeftIsActive, Active
<1> QED
  BY <1>1, <1>2, <1>3, <1>4
     DEF Next, vars, Evaluate, RaiseExit, EndEvaluation, RuleRaises, EventFails,
         EvaluationDies, CutShort, Reconcile, Convert

\* Nobody touches a rule that is still to be evaluated.
LEMMA LeftInductive ==
    ASSUME TypeOK, RulesInv, [Next]_vars
    PROVE  LeftIsActive'
<1> USE DEF RulesInv, LeftIsActive
<1>1. CASE evaluating' = Idle
  BY <1>1
<1>2. ASSUME NEW s \in Snapshots, Evaluate(s) PROVE LeftIsActive'
  BY <1>2 DEF Evaluate, Active
<1>3. ASSUME NEW r \in Rules, EvaluateRule(r) PROVE LeftIsActive'
  <2>1. evaluating'.left = evaluating.left \ {r} /\ evaluating.left \subseteq Rules
    BY <1>3, EvaluationType DEF EvaluateRule
  <2>2. \A q \in Rules \ {r} : rules'[q] = rules[q]
    BY <1>3 DEF TypeOK, EvaluateRule
  <2> QED
    BY <1>3, <2>1, <2>2 DEF EvaluateRule, Active
<1>4. ASSUME NEW r \in Rules, RaiseExit(r) PROVE LeftIsActive'
  BY <1>4, EvaluationType DEF RaiseExit, Active
<1>5. CASE UNCHANGED vars
  BY <1>5 DEF vars, Active
<1> QED
  BY <1>1, <1>2, <1>3, <1>4, <1>5
     DEF Next, AddRule, CancelRule, InstallPolicy, MayOperate, EndEvaluation,
         RuleRaises, EventFails, EvaluationDies, CutShort, Reconcile, Convert

\* A trigger moves from the evaluation to the reasons for an exit or to the ones cut off.
LEMMA TriggersInductive ==
    ASSUME TypeOK, RulesInv, [Next]_vars
    PROVE  TriggersAreSpentOnce'
<1> USE DEF RulesInv, TriggersAreSpentOnce
<1>1. ASSUME NEW r \in Rules, AddRule(r) \/ CancelRule(r) PROVE TriggersAreSpentOnce'
  <2>1. /\ rules'[r].status \in {"ACTIVE", "CANCELLED"}
        /\ rules'[r].status = "ACTIVE" => rules[r].status = "NONE"
        /\ \A q \in Rules \ {r} : rules'[q] = rules[q]
        /\ UNCHANGED <<evaluating, raised, cut>>
    BY <1>1 DEF TypeOK, AddRule, CancelRule, PositionManagementRule
  <2>2. raised \cup cut \cup InHand \subseteq Rules
    BY EvaluationType DEF TypeOK, InHand
  <2> QED
    BY <2>1, <2>2 DEF InHand
<1>2. ASSUME NEW S \in SUBSET Rules, InstallPolicy(S) PROVE TriggersAreSpentOnce'
  <2>1. /\ \A q \in Rules : \/ rules'[q] = rules[q]
                            \/ rules[q].status = "NONE" /\ rules'[q].status = "ACTIVE"
        /\ UNCHANGED <<evaluating, raised, cut>>
    BY <1>2 DEF TypeOK, InstallPolicy, PositionManagementRule
  <2>2. raised \cup cut \cup InHand \subseteq Rules
    BY EvaluationType DEF TypeOK, InHand
  <2> QED
    BY <2>1, <2>2 DEF InHand
<1>3. ASSUME NEW s \in Snapshots, Evaluate(s) PROVE TriggersAreSpentOnce'
  <2>1. InHand = {} /\ InHand' = {}
    BY <1>3 DEF Evaluate, MayOperate, InHand, Idle
  <2> QED
    BY <1>3, <2>1 DEF Evaluate
<1>4. ASSUME NEW r \in Rules, EvaluateRule(r) PROVE TriggersAreSpentOnce'
  <2>1. /\ evaluating'.fired =
               IF Fired(r) THEN evaluating.fired \cup {r} ELSE evaluating.fired
        /\ evaluating'.at = "rules"
    BY <1>4, EvaluationType DEF EvaluateRule
  <2>2. /\ InHand = evaluating.fired
        /\ InHand' = IF Fired(r) THEN InHand \cup {r} ELSE InHand
    BY <1>4, <2>1 DEF EvaluateRule, InHand, Idle
  <2>3. /\ \A q \in Rules \ {r} : rules'[q] = rules[q]
        /\ UNCHANGED <<raised, cut>>
    BY <1>4 DEF TypeOK, EvaluateRule
  <2>4. rules[r].status \in {"ACTIVE", "ARMED"}
    BY <1>4 DEF LeftIsActive, EvaluateRule, Active
  <2>5. r \notin raised \cup cut \cup InHand
    BY <2>4
  <2>6. raised \cup cut \cup InHand \subseteq Rules
    BY EvaluationType DEF TypeOK, InHand
  <2> QED
    BY <2>2, <2>3, <2>5, <2>6 DEF Fired
<1>5. ASSUME NEW r \in Rules, RaiseExit(r) PROVE TriggersAreSpentOnce'
  <2>1. evaluating'.fired = evaluating.fired \ {r} /\ evaluating'.at = "rules"
    BY <1>5, EvaluationType DEF RaiseExit
  <2>2. InHand = evaluating.fired /\ r \in InHand /\ InHand' = InHand \ {r}
    BY <1>5, <2>1 DEF RaiseExit, InHand, Idle
  <2>3. rules' = rules /\ cut' = cut /\ raised' = raised \cup {r}
    BY <1>5 DEF RaiseExit
  <2> QED
    BY <2>2, <2>3
<1>6. CASE EndEvaluation
  BY <1>6 DEF EndEvaluation, InHand
<1>7. CASE CutShort
  <2>1. cut' = cut \cup InHand /\ InHand' = {} /\ rules' = rules /\ raised' = raised
    BY <1>7 DEF CutShort, InHand
  <2> QED
    BY <2>1
<1>8. CASE UNCHANGED <<rules, evaluating, raised, cut>>
  BY <1>8 DEF InHand
<1> QED
  BY <1>1, <1>2, <1>3, <1>4, <1>5, <1>6, <1>7, <1>8
     DEF Next, vars, Reconcile, Convert, RuleRaises, EventFails, EvaluationDies

\* The type invariant of ManagementRules holds in every reachable state.
THEOREM TypeCorrect == Spec => []TypeOK
<1> QED
  BY InitialState, TypeInductive, PTL DEF Spec

LEMMA RulesAlways == Spec => [](TypeOK /\ RulesInv)
<1>1. TypeOK /\ RulesInv /\ [Next]_vars => TypeOK' /\ RulesInv'
  BY TypeInductive, AddedInductive, LeftInductive, TriggersInductive DEF RulesInv
<1> QED
  BY <1>1, InitialState, PTL DEF Spec

\* A rule that triggered is a reason for an exit, or about to be, or its evaluation was cut
\* short; only one of them, and it is never active again.
THEOREM TriggersSpentOnce == Spec => []TriggersAreSpentOnce
<1> QED
  BY RulesAlways, PTL DEF RulesInv

\* What changes a rule, and how.
LEMMA RuleSteps ==
    ASSUME TypeOK, [Next]_vars, NEW r \in Rules
    PROVE  \/ rules'[r] = rules[r]
           \/ \E status \in {"ACTIVE", "CANCELLED"} :
                 rules'[r] = [rules[r] EXCEPT !.status = status]
           \/ /\ EvaluateRule(r)
              /\ rules'[r] = Evaluated(rules[r], Parameters[r], evaluating.snapshot)
<1>1. ASSUME NEW q \in Rules, AddRule(q) \/ CancelRule(q) \/ EvaluateRule(q)
      PROVE  \/ rules'[r] = rules[r]
             \/ \E status \in {"ACTIVE", "CANCELLED"} :
                   rules'[r] = [rules[r] EXCEPT !.status = status]
             \/ /\ EvaluateRule(r)
                /\ rules'[r] = Evaluated(rules[r], Parameters[r], evaluating.snapshot)
  <2>1. CASE q = r
    BY <1>1, <2>1 DEF TypeOK, AddRule, CancelRule, EvaluateRule
  <2>2. CASE q # r
    BY <1>1, <2>2 DEF TypeOK, AddRule, CancelRule, EvaluateRule
  <2> QED
    BY <2>1, <2>2
<1>2. ASSUME NEW S \in SUBSET Rules, InstallPolicy(S)
      PROVE  \/ rules'[r] = rules[r]
             \/ rules'[r] = [rules[r] EXCEPT !.status = "ACTIVE"]
  BY <1>2 DEF InstallPolicy
<1> QED
  BY <1>1, <1>2
     DEF Next, vars, Evaluate, RaiseExit, EndEvaluation, RuleRaises, EventFails,
         EvaluationDies, CutShort, Reconcile, Convert

\* A rule that is armed stays so, and its stop never loosens while the position keeps its
\* side.
THEOREM StopsNeverLoosen == Spec => StopNeverLoosens
<1> DEFINE Kept ==
        \A r \in Rules : rules[r].armed =>
          /\ rules'[r].armed
          /\ IsTrailing(r) =>
                \/ rules'[r].watermark = rules[r].watermark
                \/ Better(rules'[r].watermark, rules[r].watermark)
<1>1. ASSUME TypeOK, [Next]_vars PROVE Kept
  <2> SUFFICES ASSUME NEW r \in Rules, rules[r].armed
               PROVE  /\ rules'[r].armed
                      /\ IsTrailing(r) =>
                            \/ rules'[r].watermark = rules[r].watermark
                            \/ Better(rules'[r].watermark, rules[r].watermark)
    OBVIOUS
  <2>1. rules[r] \in PositionManagementRule
    BY <1>1 DEF TypeOK
  <2>2. CASE rules'[r] = rules[r]
    BY <2>2
  <2>3. CASE \E status \in {"ACTIVE", "CANCELLED"} :
                rules'[r] = [rules[r] EXCEPT !.status = status]
    BY <2>1, <2>3 DEF PositionManagementRule
  <2>4. CASE rules'[r] = Evaluated(rules[r], Parameters[r], evaluating.snapshot)
    <3>1. CASE IsTrailing(r)
      <4>1. rules'[r] = Trailing(rules[r], Parameters[r], evaluating.snapshot)
        BY <2>4, <3>1 DEF Evaluated, IsTrailing
      <4> QED
        BY <2>1, <4>1 DEF Trailing, Watermark
    <3>2. CASE Parameters[r].type = "PROFIT_LOCK"
      <4>1. rules'[r] = ProfitLock(rules[r], Parameters[r], evaluating.snapshot)
        BY <2>4, <3>2 DEF Evaluated
      <4> QED
        BY <2>1, <3>2, <4>1 DEF ProfitLock, PositionManagementRule, IsTrailing
    <3>3. CASE Parameters[r].type \notin {"TRAILING_SL", "PROFIT_LOCK"}
      <4>1. rules'[r] \in {rules[r], [rules[r] EXCEPT !.status = "TRIGGERED"]}
        BY <2>4, <3>3 DEF Evaluated
      <4> QED
        BY <2>1, <4>1 DEF PositionManagementRule
    <3> QED
      BY <3>1, <3>2, <3>3 DEF IsTrailing
  <2> QED
    BY <1>1, <2>2, <2>3, <2>4, RuleSteps
<1>2. TypeOK /\ [Next]_vars => Kept
  BY <1>1
<1>3. Spec => [][Kept]_vars
  <2> HIDE DEF Kept
  <2> QED
    BY <1>2, TypeCorrect, PTL DEF Spec
<1> QED
  BY <1>3 DEF StopNeverLoosens

\* The stop of a watermark is strictly below it, or above it for a short position.
LEMMA StopIsApart ==
    ASSUME NEW premium \in Nat \ {0}, NEW trail \in Nat, 0 < trail
    PROVE  ~StopHit(premium, premium, trail)
<1>1. premium * trail \in Nat /\ premium * trail > 0
  OBVIOUS
<1>2. premium * (100 - trail) = premium * 100 - premium * trail
  OBVIOUS
<1>3. premium * (100 + trail) = premium * 100 + premium * trail
  OBVIOUS
<1> QED
  BY <1>1, <1>2, <1>3 DEF StopHit

\* A valid rule does not fire in the evaluation that arms it, a premium of 0 aside.
LEMMA ArmingDoesNotFire ==
    ASSUME NEW rule \in PositionManagementRule, NEW spec \in ManagementRuleSpec,
           NEW s \in PositionManagementSnapshot, ~Raises(rule, spec, s), Valid(spec),
           ~rule.armed,
           spec.type \in {"TRAILING_SL", "PROFIT_LOCK"}, s.premium # 0,
           rule.status # "TRIGGERED"
    PROVE  Evaluated(rule, spec, s).status # "TRIGGERED"
<1>1. CASE spec.type = "TRAILING_SL"
  <2>1. spec.trail \in Nat /\ 0 < spec.trail
    BY <1>1 DEF ManagementRuleSpec, Valid
  <2>2. CASE Trailing(rule, spec, s) = rule
    BY <1>1, <2>2 DEF Evaluated
  <2>3. CASE Trailing(rule, spec, s) # rule
    <3>1. s.premium \in Nat \ {0}
      BY <1>1, <2>3 DEF Trailing, PositionManagementSnapshot, Raises
    <3>2. Trailing(rule, spec, s).status = Status(StopHit(s.premium, s.premium, spec.trail))
      BY <2>3 DEF Trailing, Watermark
    <3>3. ~StopHit(s.premium, s.premium, spec.trail)
      BY <2>1, <3>1, StopIsApart
    <3> QED
      BY <1>1, <3>2, <3>3 DEF Evaluated, Status
  <2> QED
    BY <2>2, <2>3
<1>2. CASE spec.type = "PROFIT_LOCK"
  <2>1. spec.floor \in Int /\ spec.activate \in Int /\ spec.floor < spec.activate
    BY <1>2 DEF ManagementRuleSpec, Valid
  <2>2. CASE ProfitLock(rule, spec, s) = rule
    BY <1>2, <2>2 DEF Evaluated
  <2>3. CASE ProfitLock(rule, spec, s) # rule
    <3>1. s.pnl \in Int /\ ~(s.pnl < spec.activate)
      BY <1>2, <2>3 DEF ProfitLock, PositionManagementSnapshot, Raises
    <3>2. ~(s.pnl <= spec.floor)
      BY <2>1, <3>1
    <3>3. ProfitLock(rule, spec, s).status = Status(s.pnl <= spec.floor)
      BY <2>3 DEF ProfitLock, PositionManagementRule
    <3> QED
      BY <1>2, <3>2, <3>3 DEF Evaluated, Status
  <2> QED
    BY <2>2, <2>3
<1> QED
  BY <1>1, <1>2

\* A stateful rule never fires in the evaluation that arms it.
THEOREM ArmsFirst == Spec => ArmsBeforeItFires
<1> DEFINE Armed ==
        \A r \in Rules :
          /\ Stateful(r) /\ rules[r].status # "TRIGGERED" /\ rules'[r].status = "TRIGGERED"
          /\ evaluating.snapshot.premium # 0
          => rules[r].armed
<1>1. ASSUME TypeOK, RulesInv, [Next]_vars PROVE Armed
  <2> SUFFICES ASSUME NEW r \in Rules, Stateful(r), rules[r].status # "TRIGGERED",
                      rules'[r].status = "TRIGGERED", evaluating.snapshot.premium # 0,
                      ~rules[r].armed
               PROVE  FALSE
    OBVIOUS
  <2>1. rules[r] \in PositionManagementRule /\ Parameters[r] \in ManagementRuleSpec
    BY <1>1, RulesAssumption DEF TypeOK
  <2>2. /\ EvaluateRule(r)
        /\ rules'[r] = Evaluated(rules[r], Parameters[r], evaluating.snapshot)
    BY <1>1, <2>1, RuleSteps DEF PositionManagementRule
  <2>3. evaluating.snapshot \in PositionManagementSnapshot
    BY <1>1, <2>2, EvaluationType, RulesAssumption DEF EvaluateRule
  <2>4. Valid(Parameters[r])
    BY <1>1, <2>2 DEF RulesInv, AddedIsValid, LeftIsActive, EvaluateRule, Active
  <2> QED
    BY <2>1, <2>2, <2>3, <2>4, ArmingDoesNotFire DEF Stateful, EvaluateRule
<1>2. TypeOK /\ RulesInv /\ [Next]_vars => Armed
  BY <1>1
<1>3. Spec => [][Armed]_vars
  <2> HIDE DEF Armed
  <2> QED
    BY <1>2, RulesAlways, PTL DEF Spec
<1> QED
  BY <1>3 DEF ArmsBeforeItFires
================================================================================
