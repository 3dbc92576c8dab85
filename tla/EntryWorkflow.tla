---------------------------- MODULE EntryWorkflow ----------------------------
(***************************************************************************)
(* Entry intents from their creation to the Risk gate: deterministic        *)
(* monitoring of the market (entry/monitor.py) and the review by external   *)
(* Agents with the User as the fallback (entry/review.py).  Operations run  *)
(* under the Core lock, one at a time; each save is a transaction of its    *)
(* own and the Agents are called in between, so the process may die between *)
(* two saves.  EntryAuthorization takes an intent over at READY_FOR_RISK.   *)
(*                                                                          *)
(* A market snapshot is the set of facts the monitor compares: an intent    *)
(* without a confirmation sees every candle pass, and a premium that is     *)
(* missing is outside its zone.  Of an intent's reviews, the one the User's *)
(* decision goes to is the one updated last; the times are the Agents' own  *)
(* and the caller's, so this need not be the review just asked for.         *)
(***************************************************************************)
EXTENDS Naturals, Sequences

CONSTANTS
    Terms,        \* what an entry is created from
    Snapshots,    \* the market snapshots that occur: see EntryMarketSnapshot
    NoVerdict,    \* no verdict, or no user decision
    MaxIntents,   \* bound: entry intents
    MaxReviews    \* bound: reviews

EntryMarketSnapshot ==
    [expired: BOOLEAN, invalid: BOOLEAN, triggered: BOOLEAN,
     candle: {"MISSING", "PASSES", "FAILS"}, premium: {"INSIDE", "OUTSIDE"}]

ASSUME EntryAssumption ==
    /\ Snapshots \subseteq EntryMarketSnapshot
    /\ NoVerdict \notin {"APPROVE", "AGAINST"}
    /\ {MaxIntents, MaxReviews} \subseteq Nat

VARIABLES
    intents,      \* the entry_intents table, in the order of creation
    reviews,      \* the entry_reviews table, in the order of creation
    working,      \* the operation in progress, lost in a crash
    approved      \* history: the intents approved, and not refused since, in their current review

entry == <<intents, reviews, working, approved>>
------------------------------------------------------------------------------
(* Data. *)

Monitored ==
    {"MONITORING", "TRIGGERED", "CONFIRMING", "READY_FOR_REVIEW", "RETREAT_WAIT"}
Closed == {"REJECTED", "INVALIDATED", "EXPIRED", "CANCELLED"}
EntryIntentState ==
    Monitored \cup {"AGENT_REVIEW_PENDING", "USER_DECISION_PENDING", "READY_FOR_RISK"}
    \cup Closed

AgentVerdict == {"APPROVE", "REJECT", "RETREAT_WAIT"}

EntryIntentRecord == [episode: Nat \ {0}, terms: Terms, state: EntryIntentState]

\* REJECT and RETREAT_WAIT are one in the record of a review.
Answer == {"APPROVE", "AGAINST"}
Recording(v) == IF v = "APPROVE" THEN v ELSE "AGAINST"

EntryReviewRecord ==
    [intent: Nat \ {0}, status: {"PENDING", "COMPLETED", "FAILED"},
     verdict: Answer \cup {NoVerdict}, user: Answer \cup {NoVerdict}]

Operation ==
    [at: {"idle"}]
    \cup [at: {"requesting", "asking"}, intent: Nat \ {0}, review: Nat \ {0}]
    \cup [at: {"saving"}, intent: Nat \ {0}, state: EntryIntentState]

NoOperation == [at |-> "idle"]

EntryTypeOK ==
    /\ intents \in Seq(EntryIntentRecord)
    /\ reviews \in Seq(EntryReviewRecord)
    /\ working \in Operation
    /\ approved \subseteq Nat \ {0}

IsActive(i) == intents[i].state \notin Closed
ActiveIntents == {i \in DOMAIN intents : IsActive(i)}

SetState(i, s) == intents' = [intents EXCEPT ![i].state = s]

\* _set_state or _transition after another save of the same operation.
Saving(i, s) == [at |-> "saving", intent |-> i, state |-> s]
------------------------------------------------------------------------------
(* Creation. *)

CreateIntentUnchecked(e, t) ==
    intents' = Append(intents, [episode |-> e, terms |-> t, state |-> "MONITORING"])

\* create_intent: an episode that has an active intent keeps it as it is.
CreateIntent(e, t) ==
    IF \E i \in ActiveIntents : intents[i].episode = e
    THEN UNCHANGED intents
    ELSE intents' = Append(intents, [episode |-> e, terms |-> t, state |-> "MONITORING"])
------------------------------------------------------------------------------
(* Monitoring. *)

\* The part of evaluate that follows a trigger that matches.
Triggered(s) ==
    CASE s.candle = "MISSING" -> "CONFIRMING"
      [] s.candle = "FAILS" -> "RETREAT_WAIT"
      [] s.premium = "OUTSIDE" -> "RETREAT_WAIT"
      [] OTHER -> "READY_FOR_REVIEW"

\* Where evaluate leaves an intent it may move.
Evaluated(state, s) ==
    CASE s.expired -> "EXPIRED"
      [] s.invalid -> "INVALIDATED"
      [] state = "RETREAT_WAIT" -> state
      [] ~s.triggered -> "MONITORING"
      [] OTHER -> Triggered(s)

MovableEverywhere == EntryIntentState \ Closed

\* The states evaluate does not skip: the others belong to later gates or are final.
Movable == Monitored

\* A matching trigger is saved first when the intent was only monitored.
Evaluate(i, s) ==
    /\ working.at = "idle"
    /\ intents[i].state \in Movable
    /\ LET next == Evaluated(intents[i].state, s) IN
       IF intents[i].state = "MONITORING" /\ next \notin {"EXPIRED", "INVALIDATED", "MONITORING"}
       THEN SetState(i, "TRIGGERED") /\ working' = Saving(i, next)
       ELSE SetState(i, next) /\ UNCHANGED working
    /\ UNCHANGED <<reviews, approved>>

Rearm(i) ==
    /\ working.at = "idle"
    /\ intents[i].state = "RETREAT_WAIT"
    /\ SetState(i, "MONITORING")
    /\ UNCHANGED <<reviews, working, approved>>

\* Whatever its state.
Cancel(i) ==
    /\ working.at = "idle"
    /\ SetState(i, "CANCELLED")
    /\ UNCHANGED <<reviews, working, approved>>

\* The last save of evaluate, of the Agents' answer and of the User's decision.
SaveState ==
    /\ working.at = "saving"
    /\ SetState(working.intent, working.state)
    /\ working' = NoOperation
    /\ UNCHANGED <<reviews, approved>>
------------------------------------------------------------------------------
(* Review. *)

\* What the Agents or the User say of an intent, for the history.
Judged(i, v) == approved' = IF v = "APPROVE" THEN approved \cup {i} ELSE approved \ {i}

RequestReview(i) ==
    /\ working.at = "idle"
    /\ intents[i].state = "READY_FOR_REVIEW"
    /\ Len(reviews) < MaxReviews
    /\ reviews' = Append(reviews,
           [intent |-> i, status |-> "PENDING", verdict |-> NoVerdict, user |-> NoVerdict])
    /\ working' = [at |-> "requesting", intent |-> i, review |-> Len(reviews) + 1]
    /\ approved' = approved \ {i}
    /\ UNCHANGED intents

AskAgents ==
    /\ working.at = "requesting"
    /\ SetState(working.intent, "AGENT_REVIEW_PENDING")
    /\ working' = [working EXCEPT !.at = "asking"]
    /\ UNCHANGED <<reviews, approved>>

AfterVerdict(v) == IF v = "APPROVE" THEN "READY_FOR_RISK" ELSE "USER_DECISION_PENDING"

AgentsAnswer(v) ==
    /\ working.at = "asking"
    /\ reviews' = [reviews EXCEPT ![working.review] =
                       [@ EXCEPT !.status = "COMPLETED", !.verdict = Recording(v)]]
    /\ working' = Saving(working.intent, AfterVerdict(v))
    /\ Judged(working.intent, v)
    /\ UNCHANGED intents

AfterFailureIgnored == "READY_FOR_RISK"

\* The Agents cannot answer: the User decides.
AfterFailure == "USER_DECISION_PENDING"

\* The gateway raises, or its answer carries another review id.
AgentsFail ==
    /\ working.at = "asking"
    /\ reviews' = [reviews EXCEPT ![working.review].status = "FAILED"]
    /\ working' = Saving(working.intent, AfterFailure)
    /\ UNCHANGED <<intents, approved>>

ReviewsOf(i) == {r \in DOMAIN reviews : reviews[r].intent = i}

\* get_latest_entry_review: any of them, by times that come from the Agents' answers and
\* from whoever passes on the User's decisions.
LatestReview(i, r) == r \in ReviewsOf(i)

AfterUser(v) ==
    CASE v = "APPROVE" -> "READY_FOR_RISK"
      [] v = "REJECT" -> "REJECTED"
      [] v = "RETREAT_WAIT" -> "RETREAT_WAIT"

UserDecides(i, v) ==
    /\ working.at = "idle"
    /\ intents[i].state = "USER_DECISION_PENDING"
    /\ \E r \in DOMAIN reviews :
          /\ LatestReview(i, r)
          /\ reviews' = [reviews EXCEPT ![r].user = Recording(v)]
    /\ working' = Saving(i, AfterUser(v))
    /\ Judged(i, v)
    /\ UNCHANGED intents

EntryInit ==
    /\ intents = <<>>
    /\ reviews = <<>>
    /\ working = NoOperation
    /\ approved = {}

\* The steps of an operation that has begun.
EntryStep ==
    \/ SaveState
    \/ AskAgents
    \/ \E v \in AgentVerdict : AgentsAnswer(v)
    \/ AgentsFail

\* What the monitor, the Agents and the User may begin.
EntryBegins ==
    \E i \in DOMAIN intents :
        \/ \E s \in Snapshots : Evaluate(i, s)
        \/ Rearm(i)
        \/ Cancel(i)
        \/ RequestReview(i)
        \/ \E v \in AgentVerdict : UserDecides(i, v)

EntryDies == working' = NoOperation /\ UNCHANGED <<intents, reviews, approved>>
------------------------------------------------------------------------------
(* Properties. *)

\* An episode has at most one active intent.
OneActiveIntent ==
    \A i, j \in ActiveIntents : intents[i].episode = intents[j].episode => i = j

\* A review with an approval on record: the Agents', or the User's.
ApprovedBy(r) ==
    \/ r.status = "COMPLETED" /\ r.verdict = "APPROVE"
    \/ r.user = "APPROVE"

\* An intent reaches Risk Management only approved: by the Agents or the User, since its
\* current review was asked for and not taken back, and with an approval in one of its
\* reviews.  What was said in an earlier attempt, an unanswered or a failed review does not
\* count, whenever the process dies (entry/review.py:86, :144, :186).
ReadyForRiskIsApproved ==
    \A i \in DOMAIN intents :
        intents[i].state = "READY_FOR_RISK" =>
            /\ i \in approved
            /\ \E r \in ReviewsOf(i) : ApprovedBy(reviews[r])
==============================================================================
