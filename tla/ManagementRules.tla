--------------------------- MODULE ManagementRules ---------------------------
(***************************************************************************)
(* The deterministic rules of one managed position (positions/rules.py):    *)
(* trailing stops, profit locks, conditions on a metric, and time limits.   *)
(* An evaluation saves each rule it changes in a transaction of its own and *)
(* then raises an exit for each rule that triggered (positions/exit.py), so *)
(* the process may die in between, and a later rule, a later save or the    *)
(* recording of an event may raise.  It holds the Core lock throughout.     *)
(*                                                                          *)
(* A snapshot holds the effective facts: the premium, or the broker's last  *)
(* price; the P&L, or what the premium makes of it.  A rule has the         *)
(* parameters it is added with for life, so they are a constant here.       *)
(***************************************************************************)
EXTENDS Integers, FiniteSets

CONSTANTS
    Rules,        \* the rules that may be added to the position
    Parameters,   \* the parameters of each: see ManagementRuleSpec
    Snapshots,    \* the snapshots that occur
    Quantities,   \* the quantities the broker reports
    Unknown,      \* a fact that is missing, or a parameter that is not given
    Incomparable, \* what raises when it is compared: a time without a zone, a NaN
    MaxTime       \* bound: times

Metric == {"premium", "spot", "pnl"}
ConditionOperator == {"ABOVE", "AT_OR_ABOVE", "BELOW", "AT_OR_BELOW"}

ManagementRuleSpec ==
    [type: {"TRAILING_SL"}, trail: Nat, activate: Nat \cup {Unknown, Incomparable}]
    \cup [type: {"PROFIT_LOCK"}, activate: Int, floor: Int]
    \cup [type: {"CONDITION"}, metric: Metric, operator: ConditionOperator,
          value: Int \cup {Incomparable}]
    \cup [type: {"TIME_EXIT"}, at: 0..MaxTime \cup {Incomparable}]
    \cup [type: {"HORIZON"}]

PositionManagementSnapshot ==
    [at: 0..MaxTime, premium: Nat \cup {Unknown, Incomparable},
     spot: Nat \cup {Unknown, Incomparable}, pnl: Int \cup {Unknown, Incomparable}]

ASSUME RulesAssumption ==
    /\ Parameters \in [Rules -> ManagementRuleSpec]
    /\ Snapshots \subseteq PositionManagementSnapshot
    /\ Quantities \subseteq Int
    /\ {Unknown, Incomparable} \cap Int = {} /\ Unknown # Incomparable
    /\ MaxTime \in Nat

VARIABLES
    quantity,     \* the position's quantity: short if negative, 0 when closed
    profile,      \* its management profile
    rules,        \* the position_management_rules table
    evaluating,   \* the evaluation in progress, in memory only
    raised,       \* the rules whose trigger has become a reason for an exit
    cut           \* history: the rules that triggered in an evaluation that was cut short

vars == <<quantity, profile, rules, evaluating, raised, cut>>
------------------------------------------------------------------------------
(* Data. *)

ManagementRuleStatus == {"NONE", "ACTIVE", "ARMED", "TRIGGERED", "CANCELLED"}

\* armed and watermark are the runtime state; the profit lock has no watermark.
PositionManagementRule ==
    [status: ManagementRuleStatus, armed: BOOLEAN, watermark: Nat \cup {Unknown}]

NoRule == [status |-> "NONE", armed |-> FALSE, watermark |-> Unknown]

\* No rule asks for the trade type.
PositionManagementProfile == [horizon: 0..MaxTime]

Idle == [at |-> "idle"]
Evaluation ==
    {Idle}
    \cup [at: {"rules"}, snapshot: Snapshots, left: SUBSET Rules, fired: SUBSET Rules]

TypeOK ==
    /\ quantity \in Quantities
    /\ profile \in PositionManagementProfile
    /\ rules \in [Rules -> PositionManagementRule]
    /\ evaluating \in Evaluation
    /\ {raised, cut} \subseteq SUBSET Rules

Long == quantity > 0
Active(r) == rules[r].status \in {"ACTIVE", "ARMED"}

\* require_open_managed; the Core lock is free.
MayOperate == evaluating = Idle /\ quantity # 0
------------------------------------------------------------------------------
(* Rules. *)

ValidLoosely(spec) ==
    CASE spec.type = "TRAILING_SL" -> 0 < spec.trail /\ spec.trail < 100
      [] OTHER -> TRUE

\* _validate_spec
Valid(spec) ==
    CASE spec.type = "TRAILING_SL" -> 0 < spec.trail /\ spec.trail < 100
      [] spec.type = "PROFIT_LOCK" -> spec.floor < spec.activate
      [] OTHER -> TRUE

\* add_rule
AddRule(r) ==
    /\ MayOperate
    /\ Valid(Parameters[r])
    /\ rules[r].status = "NONE"
    /\ rules' = [rules EXCEPT ![r].status = "ACTIVE"]
    /\ UNCHANGED <<quantity, profile, evaluating, raised, cut>>

\* install_policy: the whole batch is validated, then the rules are saved one by one, and
\* a crash may leave only some of them.
InstallPolicy(S) ==
    /\ MayOperate
    /\ \A r \in S : Valid(Parameters[r]) /\ rules[r].status = "NONE"
    /\ \E saved \in SUBSET S :
          rules' = [r \in Rules |->
              IF r \in saved THEN [rules[r] EXCEPT !.status = "ACTIVE"] ELSE rules[r]]
    /\ UNCHANGED <<quantity, profile, evaluating, raised, cut>>

\* A rule that has triggered can be cancelled too.
CancelRule(r) ==
    /\ MayOperate
    /\ rules[r].status \notin {"NONE", "CANCELLED"}
    /\ rules' = [rules EXCEPT ![r].status = "CANCELLED"]
    /\ UNCHANGED <<quantity, profile, evaluating, raised, cut>>
------------------------------------------------------------------------------
(* Evaluation of one rule under a snapshot s. *)

Better(a, b) == IF Long THEN a > b ELSE a < b

Reaches(premium, activation) == premium = activation \/ Better(premium, activation)

\* The premium is at the stop or beyond: the watermark less, or plus, the trail.
StopHit(premium, watermark, trail) ==
    IF Long THEN premium * 100 <= watermark * (100 - trail)
            ELSE premium * 100 >= watermark * (100 + trail)

Status(triggered) == IF triggered THEN "TRIGGERED" ELSE "ARMED"

WatermarkFollows(rule, premium) == premium

\* The best premium since the rule was armed.
Watermark(rule, premium) ==
    IF rule.armed /\ ~Better(premium, rule.watermark) THEN rule.watermark ELSE premium

Trailing(rule, spec, s) ==
    IF \/ s.premium = Unknown
       \/ ~rule.armed /\ spec.activate # Unknown /\ ~Reaches(s.premium, spec.activate)
    THEN rule
    ELSE LET watermark == Watermark(rule, s.premium) IN
         [status |-> Status(StopHit(s.premium, watermark, spec.trail)),
          armed |-> TRUE, watermark |-> watermark]

ProfitLockMarks(rule, spec, s) ==
    IF s.pnl = Unknown \/ (~rule.armed /\ s.pnl < spec.activate)
    THEN rule
    ELSE [status |-> Status(s.pnl <= spec.floor), armed |-> TRUE, watermark |-> s.pnl]

ProfitLock(rule, spec, s) ==
    IF s.pnl = Unknown \/ (~rule.armed /\ s.pnl < spec.activate)
    THEN rule
    ELSE [rule EXCEPT !.status = Status(s.pnl <= spec.floor), !.armed = TRUE]

\* _compare
Satisfies(value, operator, threshold) ==
    CASE operator = "ABOVE" -> value > threshold
      [] operator = "AT_OR_ABOVE" -> value >= threshold
      [] operator = "BELOW" -> value < threshold
      [] operator = "AT_OR_BELOW" -> value <= threshold

Met(spec, s) ==
    CASE spec.type = "CONDITION" ->
            s[spec.metric] # Unknown /\ Satisfies(s[spec.metric], spec.operator, spec.value)
      [] spec.type = "TIME_EXIT" -> s.at >= spec.at
      [] spec.type = "HORIZON" -> s.at >= profile.horizon

\* _evaluate_rule raises.  A lock with a NaN and a trail that is one are not valid, and a
\* horizon was compared with the time of its adoption.
Raises(rule, spec, s) ==
    CASE spec.type = "TRAILING_SL" ->
            /\ s.premium # Unknown
            /\ s.premium = Incomparable \/ (~rule.armed /\ spec.activate = Incomparable)
      [] spec.type = "PROFIT_LOCK" -> s.pnl = Incomparable
      [] spec.type = "CONDITION" ->
            /\ s[spec.metric] # Unknown
            /\ Incomparable \in {s[spec.metric], spec.value}
      [] spec.type = "TIME_EXIT" -> spec.at = Incomparable
      [] spec.type = "HORIZON" -> FALSE

\* _evaluate_rule
Evaluated(rule, spec, s) ==
    CASE spec.type = "TRAILING_SL" -> Trailing(rule, spec, s)
      [] spec.type = "PROFIT_LOCK" -> ProfitLock(rule, spec, s)
      [] OTHER -> IF Met(spec, s) THEN [rule EXCEPT !.status = "TRIGGERED"] ELSE rule
------------------------------------------------------------------------------
(* Evaluation of the position. *)

Evaluate(s) ==
    /\ MayOperate
    /\ evaluating' =
           [at |-> "rules", snapshot |-> s, left |-> {r \in Rules : Active(r)}, fired |-> {}]
    /\ UNCHANGED <<quantity, profile, rules, raised, cut>>

FiredUnlessArmed(r) == rules'[r].status = "TRIGGERED" /\ rules[r].status = "ACTIVE"

\* The evaluations that consume_rule_evaluations turns into exits.
Fired(r) == rules'[r].status = "TRIGGERED"

EvaluateRule(r) ==
    /\ evaluating # Idle
    /\ r \in evaluating.left
    /\ ~Raises(rules[r], Parameters[r], evaluating.snapshot)
    /\ rules' = [rules EXCEPT ![r] = Evaluated(@, Parameters[r], evaluating.snapshot)]
    /\ evaluating' = [evaluating EXCEPT
           !.left = @ \ {r}, !.fired = IF Fired(r) THEN @ \cup {r} ELSE @]
    /\ UNCHANGED <<quantity, profile, raised, cut>>

\* consume_rule_evaluations: a full exit is raised, or one there is gets another reason.
RaiseExit(r) ==
    /\ evaluating # Idle
    /\ evaluating.left = {}
    /\ r \in evaluating.fired
    /\ raised' = raised \cup {r}
    /\ evaluating' = [evaluating EXCEPT !.fired = @ \ {r}]
    /\ UNCHANGED <<quantity, profile, rules, cut>>

EndEvaluation ==
    /\ evaluating # Idle
    /\ evaluating.left = {} /\ evaluating.fired = {}
    /\ evaluating' = Idle
    /\ UNCHANGED <<quantity, profile, rules, raised, cut>>

\* What was saved stays; the evaluations in hand, and so the exits still to raise, are gone.
CutShort ==
    /\ evaluating # Idle
    /\ evaluating' = Idle
    /\ cut' = cut \cup evaluating.fired
    /\ UNCHANGED <<quantity, profile, rules, raised>>

\* The rules before it have been saved; it raises again in every evaluation with such a
\* snapshot, until somebody cancels it.
RuleRaises(r) ==
    /\ CutShort
    /\ r \in evaluating.left
    /\ Raises(rules[r], Parameters[r], evaluating.snapshot)

\* _record_event raises, for a rule's events or for those of the exits: the database, or a
\* handler on the event bus.
EventFails ==
    /\ CutShort
    /\ evaluating.left = {}

\* The process dies, or a save raises.
EvaluationDies == CutShort
------------------------------------------------------------------------------
(* The position: its rules stay, whatever becomes of it. *)

Reconcile(q) ==
    /\ evaluating = Idle
    /\ quantity' = q
    /\ UNCHANGED <<profile, rules, evaluating, raised, cut>>

\* convert_position
Convert(p) ==
    /\ MayOperate
    /\ profile' = p
    /\ UNCHANGED <<quantity, rules, evaluating, raised, cut>>

Init ==
    /\ quantity \in Quantities \ {0}
    /\ profile \in PositionManagementProfile
    /\ rules = [r \in Rules |-> NoRule]
    /\ evaluating = Idle
    /\ raised = {}
    /\ cut = {}

Next ==
    \/ \E r \in Rules :
          \/ AddRule(r)
          \/ CancelRule(r)
          \/ EvaluateRule(r)
          \/ RuleRaises(r)
          \/ RaiseExit(r)
    \/ \E S \in SUBSET Rules : InstallPolicy(S)
    \/ \E s \in Snapshots : Evaluate(s)
    \/ EndEvaluation
    \/ EventFails
    \/ EvaluationDies
    \/ \E q \in Quantities : Reconcile(q)
    \/ \E p \in PositionManagementProfile : Convert(p)

Spec == Init /\ [][Next]_vars
------------------------------------------------------------------------------
(* Properties. *)

IsTrailing(r) == Parameters[r].type = "TRAILING_SL"
Stateful(r) == Parameters[r].type \in {"TRAILING_SL", "PROFIT_LOCK"}

\* A rule that is armed stays so, and its stop never loosens while the position keeps its
\* side: whatever is evaluated, reconciled or cancelled and wherever the process dies, the
\* watermark only gets better (positions/rules.py:253, docs/SAFETY_INVARIANTS.md:93).
StopNeverLoosens ==
    [][\A r \in Rules : rules[r].armed =>
          /\ rules'[r].armed
          /\ IsTrailing(r) =>
                \/ rules'[r].watermark = rules[r].watermark
                \/ Better(rules'[r].watermark, rules[r].watermark)]_vars

\* A stateful rule never fires in the evaluation that arms it: what a valid rule locks in
\* is below what arms it (positions/rules.py:433).  A premium of 0 is the exception: its
\* stop is 0 too.
ArmsBeforeItFires ==
    [][\A r \in Rules :
          /\ Stateful(r) /\ rules[r].status # "TRIGGERED" /\ rules'[r].status = "TRIGGERED"
          /\ evaluating.snapshot.premium # 0
          => rules[r].armed]_vars

\* The triggers of the evaluation in progress that have not become a reason yet.
InHand == IF evaluating = Idle THEN {} ELSE evaluating.fired

\* A trigger is spent once.  A rule that triggered is a reason for an exit, or about to be,
\* or its evaluation was cut short: one that ends loses no trigger.  Whichever it is, it is
\* only one of them and the rule is never active again, so a retry, a restart or a
\* reopening neither raises an exit twice nor makes up for one that was cut off
\* (core/manager.py:1033-1036, persistence/repository.py:461).
TriggersAreSpentOnce ==
    /\ \A r \in Rules :
          rules[r].status = "TRIGGERED" => r \in raised \cup cut \cup InHand
    /\ \A r \in raised \cup cut \cup InHand :
          rules[r].status \in {"TRIGGERED", "CANCELLED"}
    /\ raised \cap cut = {} /\ InHand \cap (raised \cup cut) = {}
==============================================================================
