----------------------------- MODULE LiveWrites -----------------------------
(***************************************************************************)
(* What must be true before an order may go to the real broker: the mode of *)
(* the runtime and its arming flags (core/manager.py), in SEMI_AUTO the     *)
(* User's approval of the request, which expires (execution/approval.py),   *)
(* and in AUTO a decision to enable AUTO that matches the evidence for it   *)
(* (execution/readiness.py).                                                *)
(*                                                                          *)
(* The runtime works on its copy of the AUTO record, read when it starts.   *)
(* scripts/auto_readiness.py is another process with a copy of its own;     *)
(* either saves its copy whole, and either may die.  Deployments to the     *)
(* simulator need no permission and are left out.                           *)
(***************************************************************************)
EXTENDS Naturals

CONSTANTS
    Requests,     \* execution requests
    Evidence,     \* what the evidence may say: its digest, without who recorded it and when
    NoEvidence,   \* the evidence before any is recorded
    Ready,        \* the evidence that passes every check of AutoReadinessGate
    NoDecision,   \* AUTO is not enabled
    Absent,       \* the script is not running
    TTL,          \* how long an approval lasts
    MaxTime       \* bound: the clock

ASSUME LiveAssumption ==
    /\ NoEvidence \in Evidence \ Ready
    /\ Ready \subseteq Evidence
    /\ NoDecision \notin Evidence
    /\ TTL \in Nat \ {0}
    /\ MaxTime \in Nat

VARIABLES
    mode,         \* the runtime's ExecutionMode, DOWN when it is not running
    arming,       \* the flags it was started with
    held,         \* its copy of the AUTO record
    stored,       \* the AUTO record in the database
    tool,         \* the copy of the script
    requests,     \* whether each request was sent
    approvals,    \* the latest approval of each request
    now,          \* the clock
    answer,       \* history: the User's last answer about each request that still stands
    revoked       \* history: evidence was recorded while the runtime was down, and the
                  \* User has not enabled AUTO since

auto == <<held, stored, tool>>
vars == <<mode, arming, auto, requests, approvals, now, answer, revoked>>
------------------------------------------------------------------------------
(* Data. *)

ExecutionMode == {"PAPER", "SEMI_AUTO", "AUTO"}

\* WRITES: allow_real_broker_writes.  AUTO: allow_auto_execution.
Flag == {"WRITES", "AUTO"}

\* enabled is the digest an enabling decision was made for.
AutoRecord == [evidence: Evidence, enabled: Evidence \cup {NoDecision}]

ExecutionApproval ==
    [status: {"NONE", "PENDING"}]
    \cup [status: {"APPROVED", "REJECTED"}, decided: 0..MaxTime]

Unanswered == [says |-> "NOTHING"]
Answer == {Unanswered} \cup [says: {"YES"}, at: 0..MaxTime]

TypeOK ==
    /\ mode \in ExecutionMode \cup {"DOWN"}
    /\ arming \subseteq Flag
    /\ {held, stored} \subseteq AutoRecord
    /\ tool \in AutoRecord \cup {Absent}
    /\ requests \in [Requests -> {"READY", "SENT"}]
    /\ approvals \in [Requests -> ExecutionApproval]
    /\ now \in 0..MaxTime
    /\ answer \in [Requests -> Answer]
    /\ revoked \in BOOLEAN

\* assess, and the decision it asks for.
Enabled(r) == r.evidence \in Ready /\ r.enabled = r.evidence

\* _assert_auto_runtime_start_allowed
AutoAllowed(flags, r) == flags = Flag /\ Enabled(r)

\* _refresh_execution_context, at the end of every operation: the copy is saved whole.
Refresh == stored' = held /\ UNCHANGED <<held, tool>>
------------------------------------------------------------------------------
(* The runtime. *)

Start(m, flags) ==
    /\ mode = "DOWN"
    /\ m = "AUTO" => AutoAllowed(flags, stored)
    /\ mode' = m
    /\ arming' = flags
    /\ held' = stored
    /\ UNCHANGED <<stored, tool, requests, approvals, now, answer, revoked>>

Stop ==
    /\ mode # "DOWN"
    /\ mode' = "DOWN"
    /\ Refresh
    /\ UNCHANGED <<arming, requests, approvals, now, answer, revoked>>

Dies ==
    /\ mode # "DOWN"
    /\ mode' = "DOWN"
    /\ UNCHANGED <<arming, auto, requests, approvals, now, answer, revoked>>

\* The end of start, an operation about another request, or one that prepares a request.
Works ==
    /\ mode # "DOWN"
    /\ Refresh
    /\ UNCHANGED <<mode, arming, requests, approvals, now, answer, revoked>>
------------------------------------------------------------------------------
(* SEMI_AUTO. *)

\* A question that is open stays the only one.
RequestApproval(r) ==
    /\ mode = "SEMI_AUTO"
    /\ requests[r] = "READY"
    /\ approvals[r].status # "PENDING"
    /\ approvals' = [approvals EXCEPT ![r] = [status |-> "PENDING"]]
    /\ answer' = [answer EXCEPT ![r] = Unanswered]
    /\ Refresh
    /\ UNCHANGED <<mode, arming, requests, now, revoked>>

DecideUndated(r, approve) ==
    /\ mode = "SEMI_AUTO"
    /\ approvals[r].status = "PENDING"
    /\ approvals' = [approvals EXCEPT ![r] =
           [status |-> IF approve THEN "APPROVED" ELSE "REJECTED"]]
    /\ answer' = [answer EXCEPT ![r] = IF approve THEN [says |-> "YES", at |-> now] ELSE Unanswered]
    /\ Refresh
    /\ UNCHANGED <<mode, arming, requests, now, revoked>>

\* The request may have been sent since.
Decide(r, approve) ==
    /\ mode = "SEMI_AUTO"
    /\ approvals[r].status = "PENDING"
    /\ approvals' = [approvals EXCEPT ![r] =
           [status |-> IF approve THEN "APPROVED" ELSE "REJECTED", decided |-> now]]
    /\ answer' = [answer EXCEPT ![r] = IF approve THEN [says |-> "YES", at |-> now] ELSE Unanswered]
    /\ Refresh
    /\ UNCHANGED <<mode, arming, requests, now, revoked>>

ApprovedAtSomeTime(r) == approvals[r].status = "APPROVED"

\* assert_current_approval
CurrentApproval(r) ==
    /\ approvals[r].status = "APPROVED"
    /\ now - approvals[r].decided <= TTL
------------------------------------------------------------------------------
(* Deployment. *)

\* _assert_real_broker_write_enabled
RealWriteEnabled ==
    \/ mode = "SEMI_AUTO" /\ "WRITES" \in arming
    \/ mode = "AUTO" /\ AutoAllowed(arming, held)

\* deploy_execution_request to the real broker.
Deploy(r) ==
    /\ requests[r] = "READY"
    /\ RealWriteEnabled
    /\ mode = "SEMI_AUTO" => CurrentApproval(r)
    /\ requests' = [requests EXCEPT ![r] = "SENT"]
    /\ Refresh
    /\ UNCHANGED <<mode, arming, approvals, now, answer, revoked>>
------------------------------------------------------------------------------
(* The script. *)

\* What it starts with it saves at once, or later than the runtime saves its own.
ToolStarts ==
    /\ tool = Absent
    /\ tool' = stored
    /\ UNCHANGED <<mode, arming, held, stored, requests, approvals, now, answer, revoked>>

RevokedIfChanged(r, e) ==
    [evidence |-> e, enabled |-> IF r.enabled = e THEN e ELSE NoDecision]

\* record_auto_readiness_evidence: an enabling decision is revoked, whatever is recorded.
Recorded(r, e) == [evidence |-> e, enabled |-> NoDecision]

ToolSaves(r) ==
    /\ tool' = r
    /\ stored' = r
    /\ UNCHANGED <<mode, arming, held, requests, approvals, now, answer>>

ToolRecords(e) ==
    /\ tool # Absent
    /\ ToolSaves(Recorded(tool, e))
    /\ revoked' = (revoked \/ mode = "DOWN")

ToolDecidesUnchecked(enable) ==
    /\ tool # Absent
    /\ ToolSaves([tool EXCEPT !.enabled = IF enable THEN tool.evidence ELSE NoDecision])
    /\ revoked' = (revoked /\ ~enable)

\* decide_auto_enable: what is not READY cannot be enabled.
ToolDecides(enable) ==
    /\ tool # Absent
    /\ enable => tool.evidence \in Ready
    /\ ToolSaves([tool EXCEPT !.enabled = IF enable THEN tool.evidence ELSE NoDecision])
    /\ revoked' = (revoked /\ ~enable)

ToolWorks == tool # Absent /\ ToolSaves(tool) /\ UNCHANGED revoked

ToolStops ==
    /\ tool # Absent
    /\ tool' = Absent
    /\ stored' = tool
    /\ UNCHANGED <<mode, arming, held, requests, approvals, now, answer, revoked>>

ToolDies ==
    /\ tool # Absent
    /\ tool' = Absent
    /\ UNCHANGED <<mode, arming, held, stored, requests, approvals, now, answer, revoked>>

Tick ==
    /\ now < MaxTime
    /\ now' = now + 1
    /\ UNCHANGED <<mode, arming, auto, requests, approvals, answer, revoked>>
------------------------------------------------------------------------------
Init ==
    LET nothing == [evidence |-> NoEvidence, enabled |-> NoDecision] IN
    /\ mode = "DOWN"
    /\ arming = {}
    /\ held = nothing
    /\ stored = nothing
    /\ tool = Absent
    /\ requests = [r \in Requests |-> "READY"]
    /\ approvals = [r \in Requests |-> [status |-> "NONE"]]
    /\ now = 0
    /\ answer = [r \in Requests |-> Unanswered]
    /\ revoked = FALSE

Runtime ==
    \/ \E m \in ExecutionMode, flags \in SUBSET Flag : Start(m, flags)
    \/ Stop
    \/ Dies
    \/ Works
    \/ \E r \in Requests :
          \/ RequestApproval(r)
          \/ \E approve \in BOOLEAN : Decide(r, approve)
          \/ Deploy(r)

Tool ==
    \/ ToolStarts
    \/ \E e \in Evidence : ToolRecords(e)
    \/ \E enable \in BOOLEAN : ToolDecides(enable)
    \/ ToolWorks
    \/ ToolStops
    \/ ToolDies

Next == Runtime \/ Tool \/ Tick

Spec == Init /\ [][Next]_vars
------------------------------------------------------------------------------
(* Properties. *)

\* No copy of the AUTO record ever pairs a decision with evidence it was not made for or
\* that is not READY, however the runtime and the script overwrite each other
\* (core/manager.py:1278, docs/TM4_TGT4_ACCEPTANCE.md:16).
DecisionMatchesEvidence ==
    \A r \in {held, stored, tool} \ {Absent} :
        r.enabled # NoDecision => r.enabled = r.evidence /\ r.evidence \in Ready

\* Evidence that is recorded while the runtime is down keeps it out of AUTO until the User
\* enables AUTO again, also when it is the evidence AUTO was enabled with before.  Evidence
\* recorded while the runtime is up has no such effect: the runtime works on its own copy
\* and saves that over the script's.
RevocationHolds == revoked => mode # "AUTO"

\* An order goes to the real broker only when the runtime was armed for it and, in
\* SEMI_AUTO, while the User's last answer about the request is a yes no older than TTL and
\* no newer question is open (execution/approval.py:101).
RealOrdersAreConsented ==
    [][\A r \in Requests : requests[r] # requests'[r] =>
          /\ mode \in {"SEMI_AUTO", "AUTO"} /\ "WRITES" \in arming
          /\ mode = "SEMI_AUTO" => answer[r].says = "YES" /\ now - answer[r].at <= TTL]_vars
==============================================================================
