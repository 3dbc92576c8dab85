--------------------------- MODULE LiveWritesProofs ---------------------------
(***************************************************************************)
(* Theorems about LiveWrites, for any requests, evidence and TTL, and for   *)
(* any number of steps of the runtime and of the script.  LiveInv is        *)
(* inductive with TypeOK: every copy of the AUTO record is consistent, a    *)
(* revocation has reached every copy that counts, and an approval carries   *)
(* the time of the User's answer.                                           *)
(***************************************************************************)
EXTENDS LiveWrites, TLAPS

Consistent(r) == r.enabled # NoDecision => r.enabled = r.evidence /\ r.evidence \in Ready

CopiesAreConsistent ==
    /\ Consistent(held)
    /\ Consistent(stored)
    /\ tool # Absent => Consistent(tool)

RevocationIsEverywhere ==
    revoked =>
        /\ mode # "AUTO"
        /\ stored.enabled = NoDecision
        /\ tool # Absent => tool.enabled = NoDecision
        /\ mode # "DOWN" => held.enabled = NoDecision

ApprovalIsTheAnswer ==
    \A r \in Requests : approvals[r].status = "APPROVED" =>
        answer[r] = [says |-> "YES", at |-> approvals[r].decided]

LiveInv == CopiesAreConsistent /\ RevocationIsEverywhere /\ ApprovalIsTheAnswer

LEMMA InitialState == Init => TypeOK /\ LiveInv
<1> SUFFICES ASSUME Init PROVE TypeOK /\ LiveInv
  OBVIOUS
<1> USE LiveAssumption DEF Init
<1>1. TypeOK
  <2>1. [evidence |-> NoEvidence, enabled |-> NoDecision] \in AutoRecord
    BY DEF AutoRecord
  <2>2. [status |-> "NONE"] \in ExecutionApproval /\ Unanswered \in Answer
    BY DEF ExecutionApproval, Answer
  <2>3. held \in AutoRecord /\ stored \in AutoRecord
    BY <2>1
  <2>4. /\ requests \in [Requests -> {"READY", "SENT"}]
        /\ approvals \in [Requests -> ExecutionApproval]
        /\ answer \in [Requests -> Answer]
    BY <2>2
  <2>5. 0 \in 0..MaxTime
    OBVIOUS
  <2> QED
    BY <2>3, <2>4, <2>5 DEF TypeOK
<1>2. LiveInv
  BY DEF LiveInv, CopiesAreConsistent, RevocationIsEverywhere, ApprovalIsTheAnswer, Consistent
<1> QED
  BY <1>1, <1>2

\* What the script saves is a record, and consistent if what it started from is.
LEMMA SavedRecords ==
    ASSUME NEW r \in AutoRecord, NEW e \in Evidence
    PROVE  /\ Recorded(r, e) \in AutoRecord
           /\ Recorded(r, e).enabled = NoDecision
           /\ [r EXCEPT !.enabled = r.evidence] \in AutoRecord
           /\ [r EXCEPT !.enabled = NoDecision] \in AutoRecord
           /\ [r EXCEPT !.enabled = NoDecision].enabled = NoDecision
           /\ r.evidence \in Ready => Consistent([r EXCEPT !.enabled = r.evidence])
BY LiveAssumption DEF Recorded, AutoRecord, Consistent

\* Every reachable state is well typed.
LEMMA TypeInductive ==
    ASSUME TypeOK, [Next]_vars
    PROVE  TypeOK'
<1> USE LiveAssumption
<1>1. ASSUME NEW m \in ExecutionMode, NEW flags \in SUBSET Flag, Start(m, flags) PROVE TypeOK'
  BY <1>1 DEF TypeOK, Start
<1>2. CASE Stop
  BY <1>2 DEF TypeOK, Stop, Refresh
<1>3. CASE Dies
  BY <1>3 DEF TypeOK, Dies, auto
<1>4. CASE Works
  BY <1>4 DEF TypeOK, Works, Refresh
<1>5. ASSUME NEW r \in Requests, RequestApproval(r) PROVE TypeOK'
  <2>1. approvals' \in [Requests -> ExecutionApproval]
    BY <1>5 DEF TypeOK, RequestApproval, ExecutionApproval
  <2>2. answer' \in [Requests -> Answer]
    BY <1>5 DEF TypeOK, RequestApproval, Answer
  <2> QED
    BY <1>5, <2>1, <2>2 DEF TypeOK, RequestApproval, Refresh
<1>6. ASSUME NEW r \in Requests, NEW approve \in BOOLEAN, Decide(r, approve) PROVE TypeOK'
  <2>1. approvals' \in [Requests -> ExecutionApproval]
    <3>1. [status |-> IF approve THEN "APPROVED" ELSE "REJECTED", decided |-> now]
              \in ExecutionApproval
      BY DEF TypeOK, ExecutionApproval
    <3> QED
      BY <1>6, <3>1 DEF TypeOK, Decide
  <2>2. answer' \in [Requests -> Answer]
    <3>1. (IF approve THEN [says |-> "YES", at |-> now] ELSE Unanswered) \in Answer
      BY DEF TypeOK, Answer
    <3> QED
      BY <1>6, <3>1 DEF TypeOK, Decide
  <2> QED
    BY <1>6, <2>1, <2>2 DEF TypeOK, Decide, Refresh
<1>7. ASSUME NEW r \in Requests, Deploy(r) PROVE TypeOK'
  BY <1>7 DEF TypeOK, Deploy, Refresh
<1>8. CASE ToolStarts
  BY <1>8 DEF TypeOK, ToolStarts
<1>9. ASSUME NEW e \in Evidence, ToolRecords(e) PROVE TypeOK'
  <2>1. tool \in AutoRecord
    BY <1>9 DEF TypeOK, ToolRecords
  <2> QED
    BY <1>9, <2>1, SavedRecords DEF TypeOK, ToolRecords, ToolSaves
<1>10. ASSUME NEW enable \in BOOLEAN, ToolDecides(enable) PROVE TypeOK'
  <2>1. tool \in AutoRecord
    BY <1>10 DEF TypeOK, ToolDecides
  <2>2. stored' \in AutoRecord /\ tool' \in AutoRecord
    BY <1>10, <2>1, SavedRecords DEF ToolDecides, ToolSaves
  <2> QED
    BY <1>10, <2>2 DEF TypeOK, ToolDecides, ToolSaves
<1>11. CASE ToolWorks
  BY <1>11 DEF TypeOK, ToolWorks, ToolSaves
<1>12. CASE ToolStops
  BY <1>12 DEF TypeOK, ToolStops
<1>13. CASE ToolDies
  BY <1>13 DEF TypeOK, ToolDies
<1>14. CASE Tick
  BY <1>14 DEF TypeOK, Tick, auto
<1>15. CASE UNCHANGED vars
  BY <1>15 DEF TypeOK, vars, auto
<1> QED
  BY <1>1, <1>2, <1>3, <1>4, <1>5, <1>6, <1>7, <1>8, <1>9, <1>10, <1>11, <1>12, <1>13, <1>14,
     <1>15 DEF Next, Runtime, Tool

\* Whoever saves a copy, the copies stay consistent.
LEMMA CopiesInductive ==
    ASSUME TypeOK, CopiesAreConsistent, [Next]_vars
    PROVE  CopiesAreConsistent'
<1> USE DEF CopiesAreConsistent
<1>1. ASSUME NEW m \in ExecutionMode, NEW flags \in SUBSET Flag, Start(m, flags)
      PROVE CopiesAreConsistent'
  BY <1>1 DEF Start, Consistent
<1>2. CASE UNCHANGED auto
  BY <1>2 DEF auto, Consistent
<1>3. CASE Refresh
  BY <1>3 DEF Refresh, Consistent
<1>4. CASE ToolStarts
  BY <1>4 DEF ToolStarts, Consistent
<1>5. ASSUME NEW e \in Evidence, ToolRecords(e) PROVE CopiesAreConsistent'
  <2>1. tool \in AutoRecord
    BY <1>5 DEF TypeOK, ToolRecords
  <2> QED
    BY <1>5, <2>1, SavedRecords DEF ToolRecords, ToolSaves, Consistent
<1>6. ASSUME NEW enable \in BOOLEAN, ToolDecides(enable) PROVE CopiesAreConsistent'
  <2>1. tool \in AutoRecord
    BY <1>6 DEF TypeOK, ToolDecides
  <2>2. tool' = [tool EXCEPT !.enabled = IF enable THEN tool.evidence ELSE NoDecision]
    BY <1>6 DEF ToolDecides, ToolSaves
  <2>3. Consistent(tool')
    BY <1>6, <2>1, <2>2, SavedRecords DEF ToolDecides, Consistent, AutoRecord
  <2> QED
    BY <1>6, <2>3 DEF ToolDecides, ToolSaves, Consistent
<1>7. CASE ToolWorks
  BY <1>7 DEF ToolWorks, ToolSaves, Consistent
<1>8. CASE ToolStops
  BY <1>8 DEF ToolStops, Consistent
<1>9. CASE ToolDies
  BY <1>9 DEF ToolDies, Consistent
<1> QED
  BY <1>1, <1>2, <1>3, <1>4, <1>5, <1>6, <1>7, <1>8, <1>9
     DEF Next, Runtime, Tool, vars, Stop, Dies, Works, RequestApproval, Decide, Deploy, Tick

\* A revocation stays in every copy until the User enables AUTO again.
LEMMA RevocationInductive ==
    ASSUME TypeOK, RevocationIsEverywhere, [Next]_vars
    PROVE  RevocationIsEverywhere'
<1> USE LiveAssumption DEF RevocationIsEverywhere
<1>1. ASSUME NEW m \in ExecutionMode, NEW flags \in SUBSET Flag, Start(m, flags)
      PROVE RevocationIsEverywhere'
  <2>1. revoked => m # "AUTO"
    BY <1>1 DEF Start, AutoAllowed, Enabled
  <2> QED
    BY <1>1, <2>1 DEF Start, ExecutionMode
<1>2. CASE Stop
  BY <1>2 DEF Stop, Refresh
<1>3. CASE Dies
  BY <1>3 DEF Dies, auto
<1>4. CASE mode # "DOWN" /\ Refresh /\ UNCHANGED <<mode, revoked>>
  BY <1>4 DEF Refresh
<1>5. CASE UNCHANGED <<mode, auto, revoked>>
  BY <1>5 DEF auto
<1>6. CASE ToolStarts
  BY <1>6 DEF ToolStarts
<1>7. ASSUME NEW e \in Evidence, ToolRecords(e) PROVE RevocationIsEverywhere'
  <2>1. tool \in AutoRecord
    BY <1>7 DEF TypeOK, ToolRecords
  <2>2. tool'.enabled = NoDecision /\ stored'.enabled = NoDecision
    BY <1>7, <2>1, SavedRecords DEF ToolRecords, ToolSaves
  <2> QED
    BY <1>7, <2>2 DEF ToolRecords, ToolSaves
<1>8. ASSUME NEW enable \in BOOLEAN, ToolDecides(enable) PROVE RevocationIsEverywhere'
  <2>1. CASE enable
    BY <1>8, <2>1 DEF ToolDecides
  <2>2. CASE ~enable
    <3>1. tool \in AutoRecord
      BY <1>8 DEF TypeOK, ToolDecides
    <3>2. tool'.enabled = NoDecision /\ stored'.enabled = NoDecision
      BY <1>8, <2>2, <3>1, SavedRecords DEF ToolDecides, ToolSaves, AutoRecord
    <3> QED
      BY <1>8, <2>2, <3>2 DEF ToolDecides, ToolSaves
  <2> QED
    BY <2>1, <2>2
<1>9. CASE ToolWorks
  BY <1>9 DEF ToolWorks, ToolSaves
<1>10. CASE ToolStops
  BY <1>10 DEF ToolStops
<1>11. CASE ToolDies
  BY <1>11 DEF ToolDies
<1>12. CASE Works \/ (\E r \in Requests : RequestApproval(r) \/ Deploy(r)
                         \/ \E approve \in BOOLEAN : Decide(r, approve))
  <2>1. CASE Works
    BY <1>4, <2>1 DEF Works
  <2>2. ASSUME NEW r \in Requests, RequestApproval(r) PROVE RevocationIsEverywhere'
    BY <1>4, <2>2 DEF RequestApproval
  <2>3. ASSUME NEW r \in Requests, Deploy(r) PROVE RevocationIsEverywhere'
    <3>1. mode # "DOWN"
      BY <2>3 DEF Deploy, RealWriteEnabled
    <3> QED
      BY <1>4, <2>3, <3>1 DEF Deploy
  <2>4. ASSUME NEW r \in Requests, NEW approve \in BOOLEAN, Decide(r, approve)
        PROVE RevocationIsEverywhere'
    BY <1>4, <2>4 DEF Decide
  <2> QED
    BY <1>12, <2>1, <2>2, <2>3, <2>4
<1> QED
  BY <1>1, <1>2, <1>3, <1>5, <1>6, <1>7, <1>8, <1>9, <1>10, <1>11, <1>12
     DEF Next, Runtime, Tool, vars, Tick

\* An approval is written with the User's answer and dropped with it.
LEMMA ApprovalInductive ==
    ASSUME TypeOK, ApprovalIsTheAnswer, [Next]_vars
    PROVE  ApprovalIsTheAnswer'
<1> USE DEF ApprovalIsTheAnswer
<1>1. CASE UNCHANGED <<approvals, answer>>
  BY <1>1
<1>2. ASSUME NEW r \in Requests, RequestApproval(r) PROVE ApprovalIsTheAnswer'
  <2>1. approvals'[r].status = "PENDING"
    BY <1>2 DEF TypeOK, RequestApproval
  <2>2. \A q \in Requests \ {r} : approvals'[q] = approvals[q] /\ answer'[q] = answer[q]
    BY <1>2 DEF TypeOK, RequestApproval
  <2> QED
    BY <2>1, <2>2
<1>3. ASSUME NEW r \in Requests, NEW approve \in BOOLEAN, Decide(r, approve)
      PROVE ApprovalIsTheAnswer'
  <2>1. approvals'[r].status = "APPROVED" => approve /\ approvals'[r].decided = now
    BY <1>3 DEF TypeOK, Decide
  <2>2. approve => answer'[r] = [says |-> "YES", at |-> now]
    BY <1>3 DEF TypeOK, Decide
  <2>3. \A q \in Requests \ {r} : approvals'[q] = approvals[q] /\ answer'[q] = answer[q]
    BY <1>3 DEF TypeOK, Decide
  <2> QED
    BY <2>1, <2>2, <2>3
<1> QED
  BY <1>1, <1>2, <1>3
     DEF Next, Runtime, Tool, vars, Start, Stop, Dies, Works, Deploy, Tick, ToolStarts,
         ToolRecords, ToolDecides, ToolWorks, ToolSaves, ToolStops, ToolDies

\* The type invariant of LiveWrites holds in every reachable state.
THEOREM TypeCorrect == Spec => []TypeOK
<1>1. TypeOK /\ [Next]_vars => TypeOK'
  BY TypeInductive
<1> QED
  BY <1>1, InitialState, PTL DEF Spec

LEMMA LiveInvariant == Spec => [](TypeOK /\ LiveInv)
<1>1. TypeOK /\ LiveInv /\ [Next]_vars => TypeOK' /\ LiveInv'
  BY TypeInductive, CopiesInductive, RevocationInductive, ApprovalInductive DEF LiveInv
<1> QED
  BY <1>1, InitialState, PTL DEF Spec

\* However the runtime and the script overwrite each other's copy of the AUTO record, none
\* pairs a decision with evidence it was not made for or that is not READY.
THEOREM DecisionsMatchEvidence == Spec => []DecisionMatchesEvidence
<1>1. LiveInv => DecisionMatchesEvidence
  BY DEF LiveInv, CopiesAreConsistent, Consistent, DecisionMatchesEvidence
<1> QED
  BY <1>1, LiveInvariant, PTL

\* Evidence recorded while the runtime is down keeps it out of AUTO until the User enables
\* AUTO again, through any crashes and restarts of either process.
THEOREM RevocationsHold == Spec => []RevocationHolds
<1>1. LiveInv => RevocationHolds
  BY DEF LiveInv, RevocationIsEverywhere, RevocationHolds
<1> QED
  BY <1>1, LiveInvariant, PTL

\* An order goes to the real broker only with the runtime armed for it and, in SEMI_AUTO,
\* with the User's last answer a yes that is no older than TTL.
THEOREM RealOrdersConsented == Spec => RealOrdersAreConsented
<1>1. ASSUME TypeOK, LiveInv, [Next]_vars, NEW r \in Requests, requests[r] # requests'[r]
      PROVE  /\ mode \in {"SEMI_AUTO", "AUTO"} /\ "WRITES" \in arming
             /\ mode = "SEMI_AUTO" => answer[r].says = "YES" /\ now - answer[r].at <= TTL
  <2>1. PICK q \in Requests : Deploy(q)
    BY <1>1
       DEF Next, Runtime, Tool, vars, Start, Stop, Dies, Works, RequestApproval, Decide, Tick,
           ToolStarts, ToolRecords, ToolDecides, ToolWorks, ToolSaves, ToolStops, ToolDies
  <2>2. q = r
    BY <1>1, <2>1 DEF TypeOK, Deploy
  <2>3. mode \in {"SEMI_AUTO", "AUTO"} /\ "WRITES" \in arming
    BY <2>1 DEF Deploy, RealWriteEnabled, AutoAllowed, Flag
  <2>4. mode = "SEMI_AUTO" => answer[r].says = "YES" /\ now - answer[r].at <= TTL
    <3> SUFFICES ASSUME mode = "SEMI_AUTO"
                 PROVE  answer[r].says = "YES" /\ now - answer[r].at <= TTL
      OBVIOUS
    <3>1. approvals[r].status = "APPROVED" /\ now - approvals[r].decided <= TTL
      BY <2>1, <2>2 DEF Deploy, CurrentApproval
    <3>2. answer[r] = [says |-> "YES", at |-> approvals[r].decided]
      BY <1>1, <3>1 DEF LiveInv, ApprovalIsTheAnswer
    <3> QED
      BY <3>1, <3>2
  <2> QED
    BY <2>3, <2>4
<1> DEFINE Consented ==
        \A r \in Requests : requests[r] # requests'[r] =>
          /\ mode \in {"SEMI_AUTO", "AUTO"} /\ "WRITES" \in arming
          /\ mode = "SEMI_AUTO" => answer[r].says = "YES" /\ now - answer[r].at <= TTL
<1>2. TypeOK /\ LiveInv /\ [Next]_vars => Consented
  BY <1>1
<1>3. Spec => [][Consented]_vars
  <2> HIDE DEF Consented
  <2> QED
    BY <1>2, LiveInvariant, PTL DEF Spec
<1> QED
  BY <1>3 DEF RealOrdersAreConsented
===============================================================================
