-------------------------- MODULE EntryPipelineProofs --------------------------
(***************************************************************************)
(* Theorems about EntryPipeline, for any sources, payloads, snapshots and   *)
(* bounds.  PipelineInv is inductive with TypeOK.  It says of an operation  *)
(* on an intent that nobody else has moved the intent since it began, that  *)
(* what it will save is a legal next state, and that an intent it will      *)
(* grant is approved in its current review and has an approval on record;   *)
(* of an ingestion, that an outcome whose next episode is being opened has  *)
(* no active one; and of a run of the feeder, that it has a row in hand.    *)
(***************************************************************************)
EXTENDS EntryPipeline, WellFoundedInduction, SequenceTheorems, TLAPS

RowInHand == feed.at \in {"ingesting", "entering"} => feed.left # {}

OpeningIsClear ==
    ingest.at = "opening" => Active(ingest.observation.payload.outcome) = {}

Judging == {"AGENT_REVIEW_PENDING", "USER_DECISION_PENDING"}

Approved(i) == i \in approved /\ \E r \in ReviewsOf(i) : ApprovedBy(reviews[r])

\* The review of the operation in progress is the newest one.
OwnReview ==
    /\ working.review = Len(reviews)
    /\ reviews # <<>>
    /\ reviews[working.review].intent = working.intent

OperationIsSound ==
    /\ working.at # "idle" => working.intent \in DOMAIN intents
    /\ working.at = "requesting" =>
          intents[working.intent].state = "READY_FOR_REVIEW" /\ OwnReview
    /\ working.at = "asking" =>
          intents[working.intent].state = "AGENT_REVIEW_PENDING" /\ OwnReview
    /\ working.at = "saving" =>
          \/ /\ intents[working.intent].state = "TRIGGERED"
             /\ working.state \in Monitored
          \/ /\ intents[working.intent].state \in Judging
             /\ working.state \in
                   {"READY_FOR_RISK", "USER_DECISION_PENDING", "RETREAT_WAIT", "REJECTED"}
             /\ working.state = "READY_FOR_RISK" => Approved(working.intent)

JudgedHasReview ==
    \A i \in DOMAIN intents : intents[i].state \in Judging => ReviewsOf(i) # {}

TablesInv ==
    /\ Len(intents) <= MaxIntents
    /\ OneActiveIntent
    /\ JudgedHasReview
    /\ ReadyForRiskIsApproved

EntryInv == TablesInv /\ OperationIsSound

PipelineInv == RowInHand /\ OpeningIsClear /\ OneActiveEpisode /\ EntryInv
-------------------------------------------------------------------------------
(* Least and greatest elements. *)

LEMMA NatIsWellFounded == IsWellFoundedOn({p \in Nat \X Nat : p[1] < p[2]}, Nat)
BY NatLessThanWellFounded, Zenon DEF OpToRel

LEMMA LeastElement ==
    ASSUME NEW T, T \subseteq Nat, T # {}
    PROVE  \E x \in T : \A y \in T : x <= y
<1>1. \E x \in T : \A y \in T : <<y, x>> \notin {p \in Nat \X Nat : p[1] < p[2]}
  BY NatIsWellFounded, WFMin
<1>2. PICK x \in T : \A y \in T : <<y, x>> \notin {p \in Nat \X Nat : p[1] < p[2]}
  BY <1>1
<1>3. \A y \in T : ~(y < x)
  BY <1>2
<1> QED
  BY <1>2, <1>3

\* The row in hand is one of the rows that are left.
LEMMA RowIsLeft ==
    ASSUME feed.left \subseteq Sources, feed.left # {}
    PROVE  Row \in feed.left
<1>1. \E r \in feed.left : \A q \in feed.left : r <= q
  BY LeastElement, PipelineAssumption
<1> QED
  BY <1>1 DEF Row

-------------------------------------------------------------------------------
(* Steps. *)

Creates ==
    /\ Len(intents) < MaxIntents
    /\ \E e \in Nat \ {0}, t \in Terms : CreateIntent(e, t)
    /\ UNCHANGED <<reviews, working, approved>>

EntryMoves == UNCHANGED entry \/ EntryBegins \/ EntryStep \/ EntryDies \/ Creates

IntakeMoves ==
    \/ UNCHANGED intake
    \/ ingest' = NoIngestion /\ UNCHANGED <<outcomes, episodes, recorded>>
    \/ \E o \in SourceObservation : Ingest(o) \/ IngestDuplicate(o)
    \/ IntakeStep

\* What a run of the feeder in progress looks like.
LEMMA RunType ==
    ASSUME TypeOK, feed.at # "idle"
    PROVE  /\ feed.at \in {"next", "ingesting", "entering"}
           /\ feed.time \in 0..MaxTime /\ feed.armed \in BOOLEAN
           /\ feed.left \subseteq Sources /\ feed.done \subseteq Sources
           /\ feed.at = "entering" => feed.episode \in Nat \ {0}
BY DEF TypeOK, Run

\* A step of the pipeline is a step of trade intake, of the entry domain, or of neither.
LEMMA StepsAreOfTheParts ==
    ASSUME TypeOK, RowInHand, [Next]_vars
    PROVE  EntryMoves /\ IntakeMoves
<1> USE DEF EntryMoves, IntakeMoves
<1>1. CASE IngestRow
  <2>1. Row \in Sources
    BY <1>1, RunType, RowIsLeft DEF IngestRow
  <2>2. ObservationOf(Row) \in SourceObservation
    BY <1>1, <2>1, RunType DEF TypeOK, IngestRow, ObservationOf, SourceObservation
  <2> QED
    BY <1>1, <2>2 DEF IngestRow
<1>2. CASE RowEntered
  <2>1. Row \in Sources
    BY <1>2, RunType, RowIsLeft DEF RowEntered, RowInHand
  <2>2. sheet[Row] \in PayloadFields /\ feed.episode \in Nat \ {0}
    BY <1>2, <2>1, RunType, IntakeAssumption DEF TypeOK, RowEntered
  <2>3. Translated(sheet[Row]) \in Terms
    BY <2>2, PipelineAssumption DEF PayloadFields, Translated
  <2> QED
    BY <1>2, <2>2, <2>3 DEF RowEntered, Creates, entry
<1>3. CASE RowIngested \/ FeederDies
  BY <1>3 DEF RowIngested, FeederDies
<1>4. CASE \/ \E armed \in BOOLEAN, time \in 0..MaxTime : StartRun(armed, time)
           \/ RunAborts \/ FinishRun
           \/ \E r \in Sources, p \in Payloads : SheetChanges(r, p)
  BY <1>4 DEF StartRun, RunAborts, FinishRun, SheetChanges
<1>5. CASE \/ IntakeStep /\ UNCHANGED <<entry, feeder>>
           \/ (EntryBegins \/ EntryStep \/ EntryDies) /\ UNCHANGED <<intake, feeder>>
           \/ UNCHANGED vars
  BY <1>5 DEF vars
<1> QED
  BY <1>1, <1>2, <1>3, <1>4, <1>5 DEF Next, FeederNext
-------------------------------------------------------------------------------
(* Trade intake. *)

\* What an ingestion in progress and an episode look like.
LEMMA IngestionType ==
    ASSUME IntakeTypeOK
    PROVE  /\ ingest.at # "idle" => ingest.observation \in SourceObservation
           /\ ingest.at \in {"observing", "done"} => ingest.episode \in Nat \ {0}
           /\ \A e \in DOMAIN episodes : episodes[e] \in EpisodeRecord
<1>1. ingest \in Ingestion /\ episodes \in Seq(EpisodeRecord)
  BY DEF IntakeTypeOK
<1>2. \A e \in DOMAIN episodes : episodes[e] \in EpisodeRecord
  BY <1>1
<1>3. ingest.at # "idle" => ingest.observation \in SourceObservation
  BY <1>1 DEF Ingestion
<1>4. ingest.at \in {"observing", "done"} => ingest.episode \in Nat \ {0}
  BY <1>1 DEF Ingestion
<1> QED
  BY <1>2, <1>3, <1>4

\* Episodes that stay as they are do not retreat.
LEMMA NoRetreat ==
    ASSUME IntakeTypeOK, NEW e \in DOMAIN episodes, episodes'[e] = episodes[e]
    PROVE  episodes[e].status = "ACTIVE" =>
             IF episodes'[e].status = "ACTIVE"
             THEN episodes'[e].last >= episodes[e].last
             ELSE ingest.observation.at >= episodes[e].last
<1>1. episodes[e].last \in Nat
  BY IngestionType DEF EpisodeRecord
<1> QED
  BY <1>1

\* Saving a new episode appends it, and it is the active one if there was none.
LEMMA NewEpisode ==
    ASSUME IntakeTypeOK, NEW o \in SourceObservation, SaveNewEpisode(o),
           ingest.observation = o
    PROVE  /\ episodes' \in Seq(EpisodeRecord)
           /\ ingest' \in Ingestion
           /\ ingest'.at = "observing"
           /\ DOMAIN episodes \subseteq DOMAIN episodes'
           /\ \A e \in DOMAIN episodes : episodes'[e] = episodes[e]
           /\ \A out \in Outcomes :
                Active(out)' = IF out = o.payload.outcome
                               THEN Active(out) \cup {Len(episodes) + 1} ELSE Active(out)
<1> DEFINE new == [outcome |-> o.payload.outcome, signature |-> episode_identity(o),
                   status |-> "ACTIVE", last |-> o.at]
<1>1. new \in EpisodeRecord
  BY IntakeAssumption
     DEF SourceObservation, PayloadFields, episode_identity, Signature, EpisodeRecord
<1>2. episodes \in Seq(EpisodeRecord) /\ episodes' = Append(episodes, new)
  BY DEF IntakeTypeOK, SaveNewEpisode
<1>3. /\ episodes' \in Seq(EpisodeRecord)
      /\ Len(episodes) \in Nat
      /\ Len(episodes') = Len(episodes) + 1
      /\ DOMAIN episodes = 1..Len(episodes)
      /\ DOMAIN episodes' = 1..(Len(episodes) + 1)
      /\ \A e \in 1..Len(episodes) : episodes'[e] = episodes[e]
      /\ episodes'[Len(episodes) + 1] = new
  <2> HIDE DEF new
  <2> QED
    BY <1>1, <1>2, AppendProperties
<1>4. ingest' = [at |-> "observing", observation |-> o, episode |-> Len(episodes) + 1]
  BY DEF SaveNewEpisode, Observing
<1>5. ingest' \in Ingestion /\ ingest'.at = "observing"
  BY <1>3, <1>4 DEF Ingestion
<1>6. ASSUME NEW out \in Outcomes
      PROVE  Active(out)' = IF out = o.payload.outcome
                            THEN Active(out) \cup {Len(episodes) + 1} ELSE Active(out)
  <2>1. new.outcome = o.payload.outcome /\ new.status = "ACTIVE"
    OBVIOUS
  <2> HIDE DEF new
  <2> QED
    BY <1>3, <2>1 DEF Active
<1> QED
  BY <1>3, <1>5, <1>6

\* The episode an observation is compared with is an active one of its outcome.
LEMMA ComparedEpisode ==
    ASSUME IntakeTypeOK, OneActiveEpisode, ingest \in Ingestion,
           NEW d, NEW e \in DOMAIN episodes, Decides(d, e)
    PROVE  /\ ingest.at = "deciding"
           /\ ingest.observation \in SourceObservation
           /\ ingest.observation.payload.outcome \in Outcomes
           /\ Active(ingest.observation.payload.outcome) = {e}
<1>1. ingest.at = "deciding" /\ ingest.observation \in SourceObservation
  BY IngestionType DEF Decides
<1>2. ingest.observation.payload.outcome \in Outcomes
  BY <1>1, IntakeAssumption DEF SourceObservation, PayloadFields
<1> DEFINE out == ingest.observation.payload.outcome
<1>3. PICK a \in Active(out) : Active(out) = {a}
  BY <1>2 DEF Decides, OneActiveEpisode
<1>4. \A f \in Active(out) : episodes[f].last <= episodes[a].last
  BY <1>3, IngestionType DEF Active, EpisodeRecord
<1>5. CurrentEpisode(out) \in Active(out)
  BY <1>3, <1>4 DEF CurrentEpisode
<1>6. Active(out) = {e}
  BY <1>3, <1>5 DEF Decides
<1> QED
  BY <1>1, <1>2, <1>6

\* What an update and a supersession save.
LEMMA ChangedEpisode ==
    ASSUME IntakeTypeOK, NEW e \in DOMAIN episodes, NEW r \in EpisodeRecord,
           episodes' = [episodes EXCEPT ![e] = r], r.outcome = episodes[e].outcome
    PROVE  /\ episodes' \in Seq(EpisodeRecord)
           /\ DOMAIN episodes' = DOMAIN episodes
           /\ episodes'[e] = r
           /\ \A f \in DOMAIN episodes \ {e} : episodes'[f] = episodes[f]
           /\ r.status = episodes[e].status =>
                 \A out \in Outcomes : Active(out)' = Active(out)
           /\ r.status = "SUPERSEDED" =>
                 \A out \in Outcomes : Active(out)' = Active(out) \ {e}
<1>1. episodes \in Seq(EpisodeRecord)
  BY DEF IntakeTypeOK
<1>2. /\ episodes' \in Seq(EpisodeRecord)
      /\ DOMAIN episodes' = DOMAIN episodes
      /\ episodes'[e] = r
      /\ \A f \in DOMAIN episodes \ {e} : episodes'[f] = episodes[f]
  BY <1>1
<1> QED
  BY <1>2 DEF Active

\* Each step of intake, and what is left of the episodes after it.
LEMMA IntakeInductive ==
    ASSUME IntakeTypeOK, OneActiveEpisode, OpeningIsClear, IntakeMoves
    PROVE  /\ IntakeTypeOK' /\ OneActiveEpisode' /\ OpeningIsClear'
           /\ RelevanceNeverRetreats
<1> USE IntakeAssumption
<1>1. ASSUME UNCHANGED episodes, ingest'.at # "opening"
      PROVE  OneActiveEpisode' /\ OpeningIsClear' /\ RelevanceNeverRetreats
  BY <1>1, NoRetreat DEF OneActiveEpisode, OpeningIsClear, Active, RelevanceNeverRetreats
<1>2. CASE UNCHANGED intake
  BY <1>2, NoRetreat
     DEF intake, IntakeTypeOK, OneActiveEpisode, OpeningIsClear, Active,
         RelevanceNeverRetreats
<1>3. CASE ingest' = NoIngestion /\ UNCHANGED <<outcomes, episodes, recorded>>
  BY <1>1, <1>3 DEF IntakeTypeOK, Ingestion, NoIngestion
<1>4. ASSUME NEW o \in SourceObservation, Ingest(o)
      PROVE  IntakeTypeOK' /\ UNCHANGED episodes /\ ingest'.at # "opening"
  BY <1>4 DEF Ingest, IntakeTypeOK, Ingestion, SourceObservation, PayloadFields
<1>5. ASSUME NEW o \in SourceObservation, IngestDuplicate(o)
      PROVE  IntakeTypeOK' /\ UNCHANGED episodes /\ ingest'.at # "opening"
  <2>1. PICK r \in recorded :
            ingest' = [at |-> "done", observation |-> o, episode |-> r.episode]
    BY <1>5 DEF IngestDuplicate
  <2>2. r.episode \in Nat \ {0}
    BY <2>1 DEF IntakeTypeOK, Recorded
  <2>3. ingest' \in Ingestion /\ ingest'.at # "opening"
    BY <2>1, <2>2 DEF Ingestion
  <2> QED
    BY <1>5, <2>3 DEF IngestDuplicate, IntakeTypeOK
<1>6. ASSUME ingest.at \in {"deciding", "opening"}, SaveNewEpisode(ingest.observation),
             Active(ingest.observation.payload.outcome) = {},
             UNCHANGED <<outcomes, recorded>>
      PROVE  IntakeTypeOK' /\ OneActiveEpisode' /\ OpeningIsClear' /\ RelevanceNeverRetreats
    <2>1. ingest.observation \in SourceObservation
    BY <1>6, IngestionType
  <2>2. /\ episodes' \in Seq(EpisodeRecord)
        /\ ingest' \in Ingestion
        /\ ingest'.at = "observing"
        /\ DOMAIN episodes \subseteq DOMAIN episodes'
        /\ \A e \in DOMAIN episodes : episodes'[e] = episodes[e]
        /\ \A out \in Outcomes :
             Active(out)' = IF out = ingest.observation.payload.outcome
                            THEN Active(out) \cup {Len(episodes) + 1} ELSE Active(out)
    BY <1>6, <2>1, NewEpisode
  <2>3. IntakeTypeOK'
    BY <1>6, <2>2 DEF IntakeTypeOK
  <2>4. OneActiveEpisode'
    BY <1>6, <2>2 DEF OneActiveEpisode
  <2>5. RelevanceNeverRetreats
    BY <2>2, NoRetreat DEF RelevanceNeverRetreats
  <2> QED
    BY <2>2, <2>3, <2>4, <2>5 DEF OpeningIsClear
<1>7. CASE OpenFirstEpisode
  BY <1>6, <1>7 DEF OpenFirstEpisode
<1>8. CASE OpenNextEpisode
  BY <1>6, <1>8 DEF OpenNextEpisode, OpeningIsClear
<1>9. CASE UpdateEpisode
  <2>1. PICK e \in DOMAIN episodes :
            /\ Decides("SAME_EPISODE", e)
            /\ episodes' = [episodes EXCEPT
                   ![e].signature = episode_identity(ingest.observation),
                   ![e].last = IF @ > ingest.observation.at THEN @ ELSE ingest.observation.at]
            /\ ingest' = Observing(e)
    BY <1>9 DEF UpdateEpisode
  <2>2. ingest.observation \in SourceObservation
    BY <2>1, ComparedEpisode DEF IntakeTypeOK
  <2>3. PICK r \in EpisodeRecord :
            /\ r.outcome = episodes[e].outcome /\ r.status = episodes[e].status
            /\ r.last >= episodes[e].last
            /\ episodes' = [episodes EXCEPT ![e] = r]
    <3> DEFINE last == IF episodes[e].last > ingest.observation.at
                       THEN episodes[e].last ELSE ingest.observation.at
               r == [episodes[e] EXCEPT !.signature = episode_identity(ingest.observation),
                                        !.last = last]
    <3>1. episodes[e] \in EpisodeRecord /\ episode_identity(ingest.observation) \in Signature
      BY <2>2, IngestionType
         DEF SourceObservation, PayloadFields, episode_identity, Signature
    <3>2. last \in 0..MaxTime /\ last >= episodes[e].last
      BY <2>2, <3>1 DEF EpisodeRecord, SourceObservation
    <3>3. episodes' = [episodes EXCEPT ![e] = r]
      BY <2>1 DEF IntakeTypeOK
    <3> HIDE DEF last
    <3>4. /\ r \in EpisodeRecord /\ r.last >= episodes[e].last
          /\ r.outcome = episodes[e].outcome /\ r.status = episodes[e].status
      BY <3>1, <3>2 DEF EpisodeRecord
    <3> QED
      BY <3>3, <3>4
  <2>4. ingest' \in Ingestion /\ ingest'.at = "observing"
    BY <2>1, <2>2 DEF Observing, Ingestion, IntakeTypeOK
  <2>5. /\ episodes' \in Seq(EpisodeRecord)
        /\ DOMAIN episodes' = DOMAIN episodes
        /\ episodes'[e] = r
        /\ \A f \in DOMAIN episodes \ {e} : episodes'[f] = episodes[f]
        /\ \A out \in Outcomes : Active(out)' = Active(out)
    BY <2>3, ChangedEpisode
  <2>6. RelevanceNeverRetreats
    BY <2>3, <2>5, NoRetreat DEF RelevanceNeverRetreats
  <2> QED
    BY <1>9, <2>4, <2>5, <2>6 DEF UpdateEpisode, IntakeTypeOK, OneActiveEpisode, OpeningIsClear
<1>10. CASE KeepEpisode
  <2>1. PICK e \in DOMAIN episodes : Decides("STALE_OBSERVATION", e) /\ ingest' = Observing(e)
    BY <1>10 DEF KeepEpisode
  <2>2. ingest.observation \in SourceObservation
    BY <2>1, ComparedEpisode DEF IntakeTypeOK
  <2>3. ingest' \in Ingestion /\ ingest'.at = "observing"
    BY <2>1, <2>2 DEF Observing, Ingestion, IntakeTypeOK
  <2> QED
    BY <1>1, <1>10, <2>3 DEF KeepEpisode, IntakeTypeOK
<1>11. CASE SupersedeEpisode
  <2>1. PICK e \in DOMAIN episodes :
            /\ Decides("NEW_EPISODE", e)
            /\ episodes' = [episodes EXCEPT ![e].status = "SUPERSEDED"]
    BY <1>11 DEF SupersedeEpisode
  <2> DEFINE r == [episodes[e] EXCEPT !.status = "SUPERSEDED"]
  <2>2. /\ ingest.at = "deciding"
        /\ ingest.observation \in SourceObservation
        /\ ingest.observation.payload.outcome \in Outcomes
        /\ Active(ingest.observation.payload.outcome) = {e}
    BY <2>1, ComparedEpisode DEF IntakeTypeOK
  <2>3. /\ r \in EpisodeRecord /\ r.outcome = episodes[e].outcome /\ r.status = "SUPERSEDED"
        /\ episodes' = [episodes EXCEPT ![e] = r]
    BY <2>1, IngestionType DEF EpisodeRecord
  <2> HIDE DEF r
  <2>4. /\ episodes' \in Seq(EpisodeRecord)
        /\ DOMAIN episodes' = DOMAIN episodes
        /\ episodes'[e] = r
        /\ \A f \in DOMAIN episodes \ {e} : episodes'[f] = episodes[f]
        /\ \A out \in Outcomes : Active(out)' = Active(out) \ {e}
    BY <2>3, ChangedEpisode
  <2>5. /\ ingest' = [ingest EXCEPT !.at = "opening"]
        /\ ingest' \in Ingestion
        /\ ingest'.observation = ingest.observation
    BY <1>11, <2>2 DEF SupersedeEpisode, IntakeTypeOK, Ingestion
  <2>6. OpeningIsClear'
    BY <2>2, <2>4, <2>5 DEF OpeningIsClear
  <2>7. ingest.observation.at >= episodes[e].last
    <3>1. episodes[e].last \in Nat /\ ingest.observation.at \in Nat /\ MaxGap \in Nat
      BY <2>2, IngestionType DEF EpisodeRecord, SourceObservation
    <3>2. Decide(ingest.observation, episodes[e]) = "NEW_EPISODE"
      BY <2>1 DEF Decides
    <3> QED
      BY <3>1, <3>2 DEF Decide
  <2>8. RelevanceNeverRetreats
    BY <2>3, <2>4, <2>7, NoRetreat DEF RelevanceNeverRetreats
  <2> QED
    BY <1>11, <2>4, <2>5, <2>6, <2>8 DEF SupersedeEpisode, IntakeTypeOK, OneActiveEpisode
<1>12. CASE SaveObservation
  <2>1. /\ ingest.observation \in SourceObservation /\ ingest.episode \in Nat \ {0}
        /\ ingest' \in Ingestion /\ ingest'.at = "done"
    <3>1. ingest.observation \in SourceObservation /\ ingest.episode \in Nat \ {0}
      BY <1>12, IngestionType DEF SaveObservation
    <3>2. ingest \in [at: {"observing", "done"}, observation: SourceObservation,
                      episode: Nat \ {0}]
      BY <1>12 DEF SaveObservation, IntakeTypeOK, Ingestion
    <3> QED
      BY <1>12, <3>1, <3>2 DEF SaveObservation, Ingestion
  <2>2. recorded' \subseteq Recorded
    BY <1>12, <2>1 DEF SaveObservation, IntakeTypeOK, Recorded
  <2> QED
    BY <1>1, <1>12, <2>1, <2>2 DEF SaveObservation, IntakeTypeOK
<1>13. CASE IntakeStep
  BY <1>7, <1>8, <1>9, <1>10, <1>11, <1>12, <1>13 DEF IntakeStep, UpdateEpisode, KeepEpisode,
     SupersedeEpisode, SaveObservation
<1> QED
  BY <1>1, <1>2, <1>3, <1>4, <1>5, <1>13 DEF IntakeMoves, intake
-------------------------------------------------------------------------------
(* The entry domain: types. *)

\* What an operation in progress looks like.
LEMMA OperationType ==
    ASSUME EntryTypeOK
    PROVE  /\ working.at # "idle" => working.intent \in Nat \ {0}
           /\ working.at = "requesting" => [working EXCEPT !.at = "asking"] \in Operation
           /\ working.at = "saving" => working.state \in EntryIntentState
<1>1. working \in Operation
  BY DEF EntryTypeOK
<1>2. working.at # "idle" => working.intent \in Nat \ {0}
  BY <1>1 DEF Operation
<1>3. working.at = "requesting" => [working EXCEPT !.at = "asking"] \in Operation
  BY <1>1 DEF Operation
<1>4. working.at = "saving" => working.state \in EntryIntentState
  BY <1>1 DEF Operation
<1> QED
  BY <1>2, <1>3, <1>4

\* Setting a state changes only that.
LEMMA StateSet ==
    ASSUME EntryTypeOK, NEW i \in DOMAIN intents, NEW s \in EntryIntentState, SetState(i, s)
    PROVE  /\ intents' \in Seq(EntryIntentRecord)
           /\ DOMAIN intents' = DOMAIN intents /\ Len(intents') = Len(intents)
           /\ intents'[i].state = s
           /\ \A j \in DOMAIN intents \ {i} : intents'[j] = intents[j]
           /\ \A j \in DOMAIN intents : /\ intents'[j].episode = intents[j].episode
                                       /\ intents'[j].terms = intents[j].terms
<1>1. intents \in Seq(EntryIntentRecord) /\ intents[i] \in EntryIntentRecord
  BY DEF EntryTypeOK
<1>2. intents' = [intents EXCEPT ![i] = [intents[i] EXCEPT !.state = s]]
  BY <1>1 DEF SetState
<1> DEFINE r == [intents[i] EXCEPT !.state = s]
<1>3. /\ r \in EntryIntentRecord /\ r.state = s
      /\ r.episode = intents[i].episode /\ r.terms = intents[i].terms
  BY <1>1 DEF EntryIntentRecord
<1> HIDE DEF r
<1>4. /\ intents' \in Seq(EntryIntentRecord)
      /\ DOMAIN intents' = DOMAIN intents /\ Len(intents') = Len(intents)
      /\ intents'[i] = r
      /\ \A j \in DOMAIN intents \ {i} : intents'[j] = intents[j]
  BY <1>1, <1>2, <1>3 DEF r
<1> QED
  BY <1>3, <1>4

\* Creating an intent appends it, unless its episode has an active one.
LEMMA IntentCreated ==
    ASSUME EntryTypeOK, NEW e \in Nat \ {0}, NEW t \in Terms, CreateIntent(e, t)
    PROVE  \/ UNCHANGED intents
           \/ /\ \A i \in ActiveIntents : intents[i].episode # e
              /\ intents' \in Seq(EntryIntentRecord)
              /\ Len(intents') = Len(intents) + 1
              /\ DOMAIN intents = 1..Len(intents)
              /\ DOMAIN intents' = 1..(Len(intents) + 1)
              /\ \A i \in DOMAIN intents : intents'[i] = intents[i]
              /\ intents'[Len(intents) + 1] = [episode |-> e, terms |-> t, state |-> "MONITORING"]
<1> DEFINE new == [episode |-> e, terms |-> t, state |-> "MONITORING"]
<1>1. new \in EntryIntentRecord
  BY DEF EntryIntentRecord, EntryIntentState, Monitored
<1>2. intents \in Seq(EntryIntentRecord)
  BY DEF EntryTypeOK
<1> SUFFICES ASSUME intents' = Append(intents, new),
                    ~ \E i \in ActiveIntents : intents[i].episode = e
             PROVE  /\ intents' \in Seq(EntryIntentRecord)
                    /\ Len(intents') = Len(intents) + 1
                    /\ DOMAIN intents = 1..Len(intents)
                    /\ DOMAIN intents' = 1..(Len(intents) + 1)
                    /\ \A i \in DOMAIN intents : intents'[i] = intents[i]
                    /\ intents'[Len(intents) + 1] = new
  BY DEF CreateIntent
<1> HIDE DEF new
<1> QED
  BY <1>1, <1>2, AppendProperties

\* A review is replaced by one of the same intent.
LEMMA ReviewChanged ==
    ASSUME EntryTypeOK, NEW r \in DOMAIN reviews, NEW x \in EntryReviewRecord,
           reviews' = [reviews EXCEPT ![r] = x], x.intent = reviews[r].intent
    PROVE  /\ reviews' \in Seq(EntryReviewRecord)
           /\ Len(reviews') = Len(reviews)
           /\ reviews'[r] = x
           /\ \A q \in DOMAIN reviews : q # r => reviews'[q] = reviews[q]
           /\ \A i : ReviewsOf(i)' = ReviewsOf(i)
<1>1. reviews \in Seq(EntryReviewRecord)
  BY DEF EntryTypeOK
<1>2. /\ reviews' \in Seq(EntryReviewRecord)
      /\ Len(reviews') = Len(reviews) /\ DOMAIN reviews' = DOMAIN reviews
      /\ reviews'[r] = x
      /\ \A q \in DOMAIN reviews : q # r => reviews'[q] = reviews[q]
  BY <1>1
<1>3. \A i : ReviewsOf(i)' = ReviewsOf(i)
  BY <1>2 DEF ReviewsOf
<1> QED
  BY <1>2, <1>3

\* The review of the operation in progress, and the one the User answers, as they change.
LEMMA AnswerIsOfTheReview ==
    ASSUME EntryTypeOK, NEW r \in DOMAIN reviews, NEW v \in AgentVerdict
    PROVE  /\ [reviews[r] EXCEPT !.status = "COMPLETED", !.verdict = Recording(v)]
                  \in EntryReviewRecord
           /\ [reviews[r] EXCEPT !.status = "FAILED"] \in EntryReviewRecord
           /\ [reviews[r] EXCEPT !.user = Recording(v)] \in EntryReviewRecord
<1>1. reviews[r] \in EntryReviewRecord
  BY DEF EntryTypeOK
<1>2. Recording(v) \in Answer
  BY DEF Recording, Answer
<1> QED
  BY <1>1, <1>2 DEF EntryReviewRecord

\* Where the operations take an intent are states of an intent.
LEMMA StatesReached ==
    /\ \A state \in EntryIntentState : \A s : Evaluated(state, s) \in EntryIntentState
    /\ \A v \in AgentVerdict :
          AfterVerdict(v) \in {"READY_FOR_RISK", "USER_DECISION_PENDING"}
    /\ \A v \in AgentVerdict : AfterUser(v) \in {"READY_FOR_RISK", "REJECTED", "RETREAT_WAIT"}
    /\ {"READY_FOR_RISK", "USER_DECISION_PENDING", "REJECTED", "RETREAT_WAIT", "TRIGGERED",
        "MONITORING", "CANCELLED", "AGENT_REVIEW_PENDING"} \subseteq EntryIntentState
BY DEF Evaluated, Triggered, AfterVerdict, AfterUser, AgentVerdict, EntryIntentState, Monitored,
       Closed
-------------------------------------------------------------------------------
(* The entry domain: its invariant. *)

\* A state that is saved keeps the tables sound if it does not open what is closed and has
\* the review it needs.
LEMMA SavedState ==
    ASSUME EntryTypeOK, TablesInv, NEW i \in DOMAIN intents, NEW s \in EntryIntentState,
           SetState(i, s), UNCHANGED <<reviews, approved>>,
           IsActive(i) \/ s \in Closed,
           s \in Judging => ReviewsOf(i) # {},
           s = "READY_FOR_RISK" => Approved(i)
    PROVE  intents' \in Seq(EntryIntentRecord) /\ TablesInv'
<1>1. /\ intents' \in Seq(EntryIntentRecord)
      /\ DOMAIN intents' = DOMAIN intents /\ Len(intents') = Len(intents)
      /\ intents'[i].state = s
      /\ \A j \in DOMAIN intents \ {i} : intents'[j] = intents[j]
      /\ \A j \in DOMAIN intents : intents'[j].episode = intents[j].episode
  BY StateSet
<1>2. \A j : ReviewsOf(j)' = ReviewsOf(j)
  BY DEF ReviewsOf
<1>3. ActiveIntents' \subseteq ActiveIntents
  BY <1>1 DEF ActiveIntents, IsActive
<1>4. OneActiveIntent'
  BY <1>1, <1>3 DEF TablesInv, OneActiveIntent, ActiveIntents
<1>5. JudgedHasReview'
  BY <1>1, <1>2 DEF TablesInv, JudgedHasReview
<1>6. ASSUME NEW j \in DOMAIN intents, intents'[j].state = "READY_FOR_RISK"
      PROVE  Approved(j)
  BY <1>1, <1>6 DEF TablesInv, ReadyForRiskIsApproved, Approved
<1>7. ReadyForRiskIsApproved'
  BY <1>1, <1>2, <1>6 DEF ReadyForRiskIsApproved, Approved, ApprovedBy
<1> QED
  BY <1>1, <1>4, <1>5, <1>7 DEF TablesInv

\* An answer that is saved keeps the tables sound if the intent was not granted on it.
LEMMA SavedAnswer ==
    ASSUME EntryTypeOK, TablesInv, UNCHANGED intents,
           NEW r \in DOMAIN reviews, NEW x \in EntryReviewRecord,
           reviews' = [reviews EXCEPT ![r] = x], x.intent = reviews[r].intent,
           reviews[r].intent \in DOMAIN intents,
           intents[reviews[r].intent].state # "READY_FOR_RISK",
           approved \subseteq approved' \cup {reviews[r].intent}
    PROVE  TablesInv'
<1>1. /\ reviews'[r] = x
      /\ \A q \in DOMAIN reviews : q # r => reviews'[q] = reviews[q]
      /\ \A i : ReviewsOf(i)' = ReviewsOf(i)
  BY ReviewChanged
<1>2. OneActiveIntent' /\ JudgedHasReview'
  BY <1>1 DEF TablesInv, OneActiveIntent, ActiveIntents, IsActive, JudgedHasReview
<1>3. ASSUME NEW j \in DOMAIN intents, intents[j].state = "READY_FOR_RISK"
      PROVE  j \in approved' /\ \E q \in ReviewsOf(j) : ApprovedBy(reviews'[q])
  <2>1. PICK q \in ReviewsOf(j) : ApprovedBy(reviews[q])
    BY <1>3 DEF TablesInv, ReadyForRiskIsApproved
  <2>2. q # r /\ reviews'[q] = reviews[q]
    BY <1>1, <1>3, <2>1 DEF ReviewsOf
  <2>3. j \in approved'
    BY <1>3 DEF TablesInv, ReadyForRiskIsApproved
  <2> QED
    BY <2>1, <2>2, <2>3
<1>4. ReadyForRiskIsApproved'
  BY <1>1, <1>3 DEF ReadyForRiskIsApproved, ApprovedBy
<1> QED
  BY <1>2, <1>4 DEF TablesInv

\* A review that is requested is the newest one of all, and changes no other intent's.
LEMMA ReviewRequested ==
    ASSUME EntryTypeOK, TablesInv, NEW i \in DOMAIN intents, RequestReview(i)
    PROVE  /\ reviews' \in Seq(EntryReviewRecord)
           /\ reviews' # <<>>
           /\ working'.review = Len(reviews') /\ reviews'[Len(reviews')].intent = i
           /\ TablesInv'
<1> DEFINE new ==
        [intent |-> i, status |-> "PENDING", verdict |-> NoVerdict, user |-> NoVerdict]
<1>1. reviews \in Seq(EntryReviewRecord) /\ new \in EntryReviewRecord /\ new.intent = i
  BY DEF EntryTypeOK, EntryReviewRecord
<1>2. reviews' = Append(reviews, new)
  BY DEF RequestReview
<1> HIDE DEF new
<1>3. /\ reviews' \in Seq(EntryReviewRecord)
      /\ Len(reviews) \in Nat
      /\ Len(reviews') = Len(reviews) + 1
      /\ DOMAIN reviews = 1..Len(reviews)
      /\ DOMAIN reviews' = 1..(Len(reviews) + 1)
      /\ \A q \in 1..Len(reviews) : reviews'[q] = reviews[q]
      /\ reviews'[Len(reviews) + 1] = new
  BY <1>1, <1>2, AppendProperties
<1>4. ASSUME NEW j \in DOMAIN intents, j # i
      PROVE  ReviewsOf(j)' = ReviewsOf(j)
  BY <1>1, <1>3, <1>4 DEF ReviewsOf
<1>5. UNCHANGED intents /\ intents[i].state = "READY_FOR_REVIEW"
  BY DEF RequestReview
<1>6. OneActiveIntent' /\ JudgedHasReview'
  BY <1>4, <1>5
     DEF TablesInv, OneActiveIntent, ActiveIntents, IsActive, JudgedHasReview, Judging
<1>7. ASSUME NEW j \in DOMAIN intents, intents[j].state = "READY_FOR_RISK"
      PROVE  /\ j \in approved' /\ j # i
             /\ \E q \in ReviewsOf(j) : ApprovedBy(reviews'[q])
  <2>1. j # i /\ j \in approved'
    BY <1>5, <1>7 DEF TablesInv, ReadyForRiskIsApproved, RequestReview
  <2>2. PICK q \in ReviewsOf(j) : ApprovedBy(reviews[q])
    BY <1>7 DEF TablesInv, ReadyForRiskIsApproved
  <2>3. reviews'[q] = reviews[q]
    BY <1>3, <2>2 DEF ReviewsOf
  <2> QED
    BY <2>1, <2>2, <2>3
<1>8. ReadyForRiskIsApproved'
  BY <1>4, <1>5, <1>7 DEF ReadyForRiskIsApproved, ApprovedBy
<1>9. working'.review = Len(reviews')
  BY <1>3 DEF RequestReview
<1>10. reviews' # <<>>
  BY <1>3
<1> QED
  BY <1>1, <1>3, <1>5, <1>6, <1>8, <1>9, <1>10 DEF TablesInv

\* Tables and operation that stay as they are stay sound.
LEMMA EntryUnmoved ==
    ASSUME EntryTypeOK, EntryInv, UNCHANGED entry
    PROVE  EntryTypeOK' /\ EntryInv'
<1>1. \A i : ReviewsOf(i)' = ReviewsOf(i)
  BY DEF entry, ReviewsOf
<1>2. EntryTypeOK' /\ OneActiveIntent' /\ JudgedHasReview'
  BY <1>1
     DEF entry, EntryTypeOK, EntryInv, TablesInv, OneActiveIntent, ActiveIntents, IsActive,
         JudgedHasReview
<1>3. OperationIsSound'
  BY <1>1 DEF entry, EntryInv, TablesInv, OperationIsSound, OwnReview, Approved, ApprovedBy
<1>4. ReadyForRiskIsApproved'
  BY <1>1 DEF entry, EntryInv, TablesInv, ReadyForRiskIsApproved, ApprovedBy
<1> QED
  BY <1>2, <1>3, <1>4 DEF entry, EntryInv, TablesInv

\* A new intent is the only active one of its episode.
LEMMA CreationKeepsTables ==
    ASSUME EntryTypeOK, EntryInv, Creates
    PROVE  EntryTypeOK' /\ EntryInv'
<1>1. CASE UNCHANGED intents
  BY <1>1, EntryUnmoved DEF Creates, entry
<1>2. CASE ~ UNCHANGED intents
  <2>1. PICK e \in Nat \ {0}, t \in Terms : CreateIntent(e, t)
    BY DEF Creates
  <2> DEFINE n == Len(intents) + 1
  <2>2. /\ \A i \in ActiveIntents : intents[i].episode # e
        /\ intents' \in Seq(EntryIntentRecord)
        /\ Len(intents') = n
        /\ DOMAIN intents = 1..Len(intents)
        /\ DOMAIN intents' = 1..n
        /\ \A i \in DOMAIN intents : intents'[i] = intents[i]
        /\ intents'[n] = [episode |-> e, terms |-> t, state |-> "MONITORING"]
    BY <1>2, <2>1, IntentCreated
  <2>3. Len(intents) \in Nat /\ n = Len(intents) + 1 /\ Len(intents') <= MaxIntents
    BY <2>2, EntryAssumption DEF Creates, EntryTypeOK
  <2>4. \A i : ReviewsOf(i)' = ReviewsOf(i)
    BY DEF Creates, ReviewsOf
  <2> HIDE DEF n
  <2>5. \A i \in DOMAIN intents' : i = n \/ i \in DOMAIN intents
    BY <2>2, <2>3
  <2>6. ActiveIntents' \subseteq ActiveIntents \cup {n}
    BY <2>2, <2>5 DEF ActiveIntents, IsActive
  <2>7. OneActiveIntent'
    BY <2>2, <2>6 DEF EntryInv, TablesInv, OneActiveIntent, ActiveIntents
  <2>8. JudgedHasReview'
    BY <2>2, <2>4, <2>5 DEF EntryInv, TablesInv, JudgedHasReview, Judging
  <2>9. ReadyForRiskIsApproved'
    BY <2>2, <2>4, <2>5 DEF Creates, EntryInv, TablesInv, ReadyForRiskIsApproved, ApprovedBy
  <2>10. OperationIsSound'
    <3>1. UNCHANGED <<reviews, working, approved>> /\ OperationIsSound
      BY DEF Creates, EntryInv, TablesInv
    <3>2. DOMAIN intents \subseteq DOMAIN intents'
      BY <2>2, <2>3
    <3>3. OwnReview' = OwnReview /\ \A i : Approved(i)' = Approved(i)
      BY <2>4, <3>1 DEF OwnReview, Approved, ApprovedBy
    <3>4. working.at # "idle" => intents'[working.intent] = intents[working.intent]
      BY <2>2, <3>1 DEF OperationIsSound
    <3> QED
      BY <3>1, <3>2, <3>3, <3>4 DEF OperationIsSound
  <2> QED
    BY <2>2, <2>3, <2>7, <2>8, <2>9, <2>10 DEF Creates, EntryTypeOK, EntryInv, TablesInv
<1> QED
  BY <1>1, <1>2

\* The moves of an intent that the stages of EntryOutcome allow.
Legal(i, s) ==
    \/ s \in Closed
    \/ intents[i].state \in Monitored /\ s \in Monitored \cup {"AGENT_REVIEW_PENDING"}
    \/ intents[i].state \in Judging /\ s \in Monitored \cup Judging \cup {"READY_FOR_RISK"}

IntentMoves ==
    \/ UNCHANGED intents
    \/ \E i \in DOMAIN intents, s \in EntryIntentState : SetState(i, s) /\ Legal(i, s)
    \/ Creates

\* The part of OperationIsSound that is about the operation in progress when a state is
\* saved as the last or the only save of an operation.
LEMMA IdleIsSound ==
    ASSUME working'.at = "idle"
    PROVE  OperationIsSound'
BY DEF OperationIsSound

\* Every step of the entry domain keeps its invariant and moves at most one intent.
LEMMA EntryInductive ==
    ASSUME EntryTypeOK, EntryInv, EntryMoves
    PROVE  EntryTypeOK' /\ EntryInv' /\ IntentMoves
<1> USE DEF EntryInv
<1>0. /\ TablesInv /\ OperationIsSound
      /\ intents \in Seq(EntryIntentRecord) /\ reviews \in Seq(EntryReviewRecord)
      /\ \A i \in DOMAIN intents : i \in Nat \ {0} /\ intents[i].state \in EntryIntentState
      /\ NoOperation \in Operation /\ NoOperation.at = "idle"
  <2>1. intents \in Seq(EntryIntentRecord) /\ reviews \in Seq(EntryReviewRecord)
    BY DEF EntryTypeOK
  <2>2. \A i \in DOMAIN intents : i \in Nat \ {0} /\ intents[i].state \in EntryIntentState
    <3> TAKE i \in DOMAIN intents
    <3>1. DOMAIN intents = 1..Len(intents) /\ Len(intents) \in Nat
      BY <2>1, LenProperties
    <3>2. intents[i] \in EntryIntentRecord
      BY <2>1
    <3> QED
      BY <3>1, <3>2 DEF EntryIntentRecord
  <2>3. NoOperation \in Operation /\ NoOperation.at = "idle"
    BY DEF NoOperation, Operation
  <2> QED
    BY <2>1, <2>2, <2>3
<1>1. CASE UNCHANGED entry
  BY <1>1, EntryUnmoved DEF IntentMoves, entry
<1>2. CASE Creates
  BY <1>2, CreationKeepsTables DEF IntentMoves
<1>3. CASE EntryDies
  <2>1. TablesInv'
    <3>1. \A i : ReviewsOf(i)' = ReviewsOf(i)
      BY <1>3 DEF EntryDies, ReviewsOf
    <3>2. OneActiveIntent' /\ JudgedHasReview' /\ ReadyForRiskIsApproved'
      BY <1>0, <1>3, <3>1
         DEF EntryDies, TablesInv, OneActiveIntent, ActiveIntents, IsActive, JudgedHasReview,
             ReadyForRiskIsApproved, ApprovedBy
    <3> QED
      BY <1>0, <1>3, <3>2 DEF EntryDies, TablesInv
  <2> QED
    BY <1>0, <1>3, <2>1, IdleIsSound DEF EntryDies, EntryTypeOK, IntentMoves
<1>4. ASSUME NEW i \in DOMAIN intents, NEW s \in Snapshots, Evaluate(i, s)
      PROVE  EntryTypeOK' /\ EntryInv' /\ IntentMoves
  <2> DEFINE next == Evaluated(intents[i].state, s)
  <2>1. /\ intents[i].state \in Monitored
        /\ IsActive(i)
        /\ next \in EntryIntentState
        /\ next \in Monitored \cup {"EXPIRED", "INVALIDATED"}
    BY <1>0, <1>4, StatesReached
       DEF Evaluate, Movable, IsActive, Monitored, Closed, Evaluated, Triggered
  <2>2. UNCHANGED <<reviews, approved>> /\ working.at = "idle"
    BY <1>4 DEF Evaluate
  <2>3. CASE SetState(i, "TRIGGERED") /\ working' = Saving(i, next)
             /\ next \notin {"EXPIRED", "INVALIDATED", "MONITORING"}
    <3>1. intents' \in Seq(EntryIntentRecord) /\ TablesInv'
      BY <1>0, <2>1, <2>2, <2>3, SavedState, StatesReached DEF Judging
    <3>2. DOMAIN intents' = DOMAIN intents /\ intents'[i].state = "TRIGGERED"
      BY <2>3, StateSet, StatesReached
    <3>3. working' \in Operation
      BY <1>0, <2>1, <2>3 DEF Saving, Operation
    <3>4. OperationIsSound'
      BY <2>1, <2>3, <3>2 DEF OperationIsSound, Saving, Monitored
    <3>5. Legal(i, "TRIGGERED")
      BY <2>1 DEF Legal, Monitored
    <3> QED
      BY <2>2, <2>3, <3>1, <3>3, <3>4, <3>5, <1>0, StatesReached
         DEF EntryTypeOK, IntentMoves
  <2>4. CASE SetState(i, next) /\ UNCHANGED working
    <3>1. intents' \in Seq(EntryIntentRecord) /\ TablesInv'
      BY <1>0, <2>1, <2>2, <2>4, SavedState DEF Judging, Monitored
    <3>2. Legal(i, next)
      BY <2>1 DEF Legal, Closed
    <3> QED
      BY <1>0, <2>1, <2>2, <2>4, <3>1, <3>2, IdleIsSound DEF EntryTypeOK, IntentMoves
  <2> QED
    BY <1>4, <2>3, <2>4 DEF Evaluate
<1>5. ASSUME NEW i \in DOMAIN intents, NEW s \in {"MONITORING", "CANCELLED"},
             SetState(i, s), UNCHANGED <<reviews, working, approved>>, working.at = "idle",
             s = "MONITORING" => intents[i].state = "RETREAT_WAIT"
      PROVE  EntryTypeOK' /\ EntryInv' /\ IntentMoves
  <2>1. s \in EntryIntentState /\ Legal(i, s) /\ (IsActive(i) \/ s \in Closed)
    BY <1>5, StatesReached DEF Legal, IsActive, Monitored, Closed
  <2>2. intents' \in Seq(EntryIntentRecord) /\ TablesInv'
    BY <1>0, <1>5, <2>1, SavedState DEF Judging
  <2> QED
    BY <1>0, <1>5, <2>1, <2>2, IdleIsSound DEF EntryTypeOK, IntentMoves
<1>6. ASSUME NEW i \in DOMAIN intents, RequestReview(i)
      PROVE  EntryTypeOK' /\ EntryInv' /\ IntentMoves
  <2>1. /\ reviews' \in Seq(EntryReviewRecord)
        /\ reviews' # <<>>
        /\ working'.review = Len(reviews') /\ reviews'[Len(reviews')].intent = i
        /\ TablesInv'
    BY <1>0, <1>6, ReviewRequested
  <2>2. /\ working' = [at |-> "requesting", intent |-> i, review |-> Len(reviews) + 1]
        /\ UNCHANGED intents /\ approved' \subseteq Nat \ {0}
        /\ intents[i].state = "READY_FOR_REVIEW"
    BY <1>6 DEF RequestReview, EntryTypeOK
  <2>3. Len(reviews) + 1 \in Nat \ {0}
    BY <1>0
  <2>4. working' \in Operation
    BY <1>0, <2>2, <2>3 DEF Operation
  <2>5. OperationIsSound'
    BY <2>1, <2>2 DEF OperationIsSound, OwnReview
  <2> QED
    BY <1>0, <2>1, <2>2, <2>4, <2>5 DEF EntryTypeOK, IntentMoves
<1>7. ASSUME NEW i \in DOMAIN intents, NEW v \in AgentVerdict, UserDecides(i, v)
      PROVE  EntryTypeOK' /\ EntryInv' /\ IntentMoves
  <2>1. intents[i].state = "USER_DECISION_PENDING" /\ UNCHANGED intents
    BY <1>7 DEF UserDecides
  <2>2. PICK r \in ReviewsOf(i) : reviews' = [reviews EXCEPT ![r].user = Recording(v)]
    BY <1>7 DEF UserDecides, LatestReview
  <2> DEFINE x == [reviews[r] EXCEPT !.user = Recording(v)]
  <2>3. /\ r \in DOMAIN reviews /\ reviews[r].intent = i
        /\ x \in EntryReviewRecord /\ x.intent = reviews[r].intent
    BY <1>0, <2>2, AnswerIsOfTheReview DEF EntryReviewRecord, ReviewsOf
  <2>4. reviews' = [reviews EXCEPT ![r] = x]
    BY <1>0, <2>2, <2>3
  <2>5. v = "APPROVE" => x.user = "APPROVE"
    BY <1>0, <2>3 DEF Recording, EntryReviewRecord
  <2> HIDE DEF x
  <2>6. /\ approved' \subseteq Nat \ {0}
        /\ approved \subseteq approved' \cup {i}
        /\ v = "APPROVE" => i \in approved'
    BY <1>0, <1>7 DEF UserDecides, Judged, EntryTypeOK
  <2>7. TablesInv'
    BY <1>0, <2>1, <2>3, <2>4, <2>6, SavedAnswer
  <2>12. /\ reviews' \in Seq(EntryReviewRecord) /\ reviews'[r] = x
        /\ ReviewsOf(i)' = ReviewsOf(i)
    BY <2>3, <2>4, ReviewChanged
  <2>8. working' = Saving(i, AfterUser(v)) /\ AfterUser(v) \in EntryIntentState
    BY <1>7, StatesReached DEF UserDecides
  <2>9. working' \in Operation
    BY <1>0, <2>8 DEF Saving, Operation
  <2>10. AfterUser(v) = "READY_FOR_RISK" => Approved(i)'
    <3>1. AfterUser(v) = "READY_FOR_RISK" => v = "APPROVE"
      BY DEF AfterUser, AgentVerdict
    <3> QED
      BY <2>2, <2>5, <2>6, <2>12, <3>1 DEF Approved, ApprovedBy
  <2>11. OperationIsSound'
    BY <2>1, <2>8, <2>10, StatesReached DEF OperationIsSound, Saving, Judging
  <2> QED
    BY <1>0, <2>1, <2>6, <2>7, <2>9, <2>11, <2>12 DEF EntryTypeOK, IntentMoves
<1>8. CASE SaveState
  <2>1. /\ working.at = "saving" /\ working.intent \in DOMAIN intents
        /\ working.state \in EntryIntentState
        /\ SetState(working.intent, working.state)
        /\ working' = NoOperation /\ UNCHANGED <<reviews, approved>>
    BY <1>0, <1>8, OperationType DEF SaveState, OperationIsSound
  <2> DEFINE i == working.intent
             s == working.state
  <2>2. /\ IsActive(i)
        /\ Legal(i, s)
        /\ s \in Judging => ReviewsOf(i) # {}
        /\ s = "READY_FOR_RISK" => Approved(i)
    BY <1>0, <2>1
       DEF OperationIsSound, TablesInv, JudgedHasReview, IsActive, Legal, Judging, Monitored,
           Closed
  <2>3. intents' \in Seq(EntryIntentRecord) /\ TablesInv'
    BY <1>0, <2>1, <2>2, SavedState
  <2> QED
    BY <1>0, <2>1, <2>2, <2>3, IdleIsSound DEF EntryTypeOK, IntentMoves
<1>9. CASE AskAgents
  <2> DEFINE i == working.intent
  <2>1. /\ working.at = "requesting" /\ i \in DOMAIN intents
        /\ intents[i].state = "READY_FOR_REVIEW" /\ OwnReview
        /\ SetState(i, "AGENT_REVIEW_PENDING") /\ UNCHANGED <<reviews, approved>>
        /\ working' = [working EXCEPT !.at = "asking"]
    BY <1>0, <1>9 DEF AskAgents, OperationIsSound
  <2>2. ReviewsOf(i) # {}
    BY <1>0, <2>1 DEF OwnReview, ReviewsOf
  <2>3. /\ "AGENT_REVIEW_PENDING" \in EntryIntentState
        /\ IsActive(i) /\ Legal(i, "AGENT_REVIEW_PENDING")
    BY <2>1, StatesReached DEF IsActive, Legal, Monitored, Closed
  <2>4. intents' \in Seq(EntryIntentRecord) /\ TablesInv'
    BY <1>0, <2>1, <2>2, <2>3, SavedState
  <2>5. DOMAIN intents' = DOMAIN intents /\ intents'[i].state = "AGENT_REVIEW_PENDING"
    BY <2>1, <2>3, StateSet
  <2>6. /\ working' \in Operation /\ working'.at = "asking"
        /\ working'.intent = i /\ working'.review = working.review
    <3>1. working \in [at: {"requesting", "asking"}, intent: Nat \ {0}, review: Nat \ {0}]
      BY <2>1 DEF EntryTypeOK, Operation
    <3> QED
      BY <2>1, <3>1 DEF Operation
  <2>7. OwnReview'
    BY <2>1, <2>6 DEF OwnReview
  <2>8. OperationIsSound'
    BY <2>1, <2>5, <2>6, <2>7 DEF OperationIsSound
  <2> QED
    BY <1>0, <2>1, <2>3, <2>4, <2>6, <2>8 DEF EntryTypeOK, IntentMoves
<1>10. ASSUME NEW s \in {"READY_FOR_RISK", "USER_DECISION_PENDING"},
              NEW x \in EntryReviewRecord,
              working.at = "asking", UNCHANGED intents,
              x.intent = reviews[working.review].intent,
              reviews' = [reviews EXCEPT ![working.review] = x],
              working' = Saving(working.intent, s),
              approved' \subseteq approved \cup {working.intent},
              approved \subseteq approved' \cup {working.intent},
              s = "READY_FOR_RISK" => working.intent \in approved' /\ ApprovedBy(x)
       PROVE  EntryTypeOK' /\ EntryInv' /\ IntentMoves
  <2>1. PICK i \in DOMAIN intents :
            /\ i = working.intent
            /\ intents[i].state = "AGENT_REVIEW_PENDING"
            /\ OwnReview
    BY <1>0, <1>10 DEF OperationIsSound
  <2>2. PICK r : r = working.review
    OBVIOUS
  <2>3. /\ r \in DOMAIN reviews /\ reviews[r].intent = i
        /\ r \in ReviewsOf(i)
    BY <1>0, <2>1, <2>2 DEF OwnReview, ReviewsOf
  <2>4. TablesInv'
    BY <1>0, <1>10, <2>1, <2>2, <2>3, SavedAnswer
  <2>5. /\ reviews' \in Seq(EntryReviewRecord) /\ reviews'[r] = x
        /\ ReviewsOf(i)' = ReviewsOf(i)
    BY <1>10, <2>2, <2>3, ReviewChanged
  <2>6. s \in EntryIntentState /\ i \in Nat \ {0}
    BY <1>0, <2>1, StatesReached
  <2>7. working' \in Operation
    BY <1>10, <2>1, <2>6 DEF Saving, Operation
  <2>8. s = "READY_FOR_RISK" => Approved(i)'
    BY <1>10, <2>1, <2>3, <2>5 DEF Approved, ApprovedBy
  <2>9. OperationIsSound'
    BY <1>10, <2>1, <2>8 DEF OperationIsSound, Saving, Judging
  <2>10. approved' \subseteq Nat \ {0}
    BY <1>10, <2>1, <2>6 DEF EntryTypeOK
  <2> QED
    BY <1>0, <1>10, <2>4, <2>5, <2>7, <2>9, <2>10 DEF EntryTypeOK, IntentMoves
<1>11. CASE AgentsFail \/ \E v \in AgentVerdict : AgentsAnswer(v)
  <2>1. working.at = "asking" /\ UNCHANGED intents
    BY <1>11 DEF AgentsFail, AgentsAnswer
  <2>2. working.review \in DOMAIN reviews /\ reviews[working.review] \in EntryReviewRecord
    BY <1>0, <2>1 DEF OperationIsSound, OwnReview
  <2>3. CASE AgentsFail
    <3> DEFINE x == [reviews[working.review] EXCEPT !.status = "FAILED"]
    <3>1. x \in EntryReviewRecord /\ x.intent = reviews[working.review].intent
      BY <2>2, AnswerIsOfTheReview DEF EntryReviewRecord
    <3>2. reviews' = [reviews EXCEPT ![working.review] = x]
      BY <1>0, <2>2, <2>3 DEF AgentsFail
    <3>3. working' = Saving(working.intent, "USER_DECISION_PENDING") /\ UNCHANGED approved
      BY <2>3 DEF AgentsFail, AfterFailure
    <3> HIDE DEF x
    <3> QED
      BY <1>10, <2>1, <3>1, <3>2, <3>3
  <2>4. ASSUME NEW v \in AgentVerdict, AgentsAnswer(v)
        PROVE  EntryTypeOK' /\ EntryInv' /\ IntentMoves
    <3> DEFINE x == [reviews[working.review] EXCEPT !.status = "COMPLETED",
                                                    !.verdict = Recording(v)]
    <3>1. /\ x \in EntryReviewRecord /\ x.intent = reviews[working.review].intent
          /\ x.status = "COMPLETED" /\ x.verdict = Recording(v)
      BY <2>2, AnswerIsOfTheReview DEF EntryReviewRecord
    <3>2. reviews' = [reviews EXCEPT ![working.review] = x]
      BY <1>0, <2>2, <2>4 DEF AgentsAnswer
    <3> HIDE DEF x
    <3>3. /\ AfterVerdict(v) = "READY_FOR_RISK" => working.intent \in approved' /\ ApprovedBy(x)
          /\ approved' \subseteq approved \cup {working.intent}
          /\ approved \subseteq approved' \cup {working.intent}
      BY <2>4, <3>1 DEF AfterVerdict, ApprovedBy, Recording, AgentsAnswer, Judged
    <3>4. AfterVerdict(v) \in {"READY_FOR_RISK", "USER_DECISION_PENDING"}
      BY DEF AfterVerdict
    <3> QED
      BY <1>10, <2>1, <2>4, <3>1, <3>2, <3>3, <3>4 DEF AgentsAnswer
  <2> QED
    BY <1>11, <2>3, <2>4
<1>12. CASE EntryBegins
  <2>1. PICK i \in DOMAIN intents :
            \/ \E s \in Snapshots : Evaluate(i, s)
            \/ Rearm(i)
            \/ Cancel(i)
            \/ RequestReview(i)
            \/ \E v \in AgentVerdict : UserDecides(i, v)
    BY <1>12 DEF EntryBegins
  <2>2. CASE Rearm(i) \/ Cancel(i)
    BY <1>5, <2>2 DEF Rearm, Cancel
  <2> QED
    BY <1>4, <1>6, <1>7, <2>1, <2>2
<1> QED
  BY <1>1, <1>2, <1>3, <1>8, <1>9, <1>11, <1>12 DEF EntryMoves, EntryStep
-------------------------------------------------------------------------------
(* The feeder, and the pipeline as a whole. *)

\* The feeder's files and its run stay well typed, and it has a row in hand while it works.
LEMMA FeederTypes ==
    ASSUME TypeOK, RowInHand, [Next]_vars
    PROVE  /\ sheet' \in [Sources -> Payloads]
           /\ {saved', marked'} \subseteq [Sources -> Payloads \cup {Nothing}]
           /\ feed' \in Run
           /\ runs' \in 0..MaxRuns
           /\ RowInHand'
<1> USE PipelineAssumption
<1>1. ASSUME NEW armed \in BOOLEAN, NEW time \in 0..MaxTime, StartRun(armed, time)
      PROVE  /\ sheet' \in [Sources -> Payloads]
             /\ {saved', marked'} \subseteq [Sources -> Payloads \cup {Nothing}]
             /\ feed' \in Run /\ runs' \in 0..MaxRuns /\ RowInHand'
  <2>1. Selected(armed) \subseteq Sources
    BY DEF Selected
  <2>2. feed' \in Run /\ feed'.at = "next"
    BY <1>1, <2>1 DEF StartRun, Run
  <2>3. marked' \in [Sources -> Payloads \cup {Nothing}]
    BY <1>1 DEF StartRun, TypeOK
  <2> QED
    BY <1>1, <2>2, <2>3 DEF StartRun, TypeOK, RowInHand
<1>2. CASE IngestRow
  <2>1. feed \in [at: {"next", "ingesting"}, time: 0..MaxTime, armed: BOOLEAN,
                  left: SUBSET Sources, done: SUBSET Sources]
    BY <1>2 DEF IngestRow, TypeOK, Run
  <2>2. feed' \in Run /\ feed'.left # {}
    BY <1>2, <2>1 DEF IngestRow, Run
  <2> QED
    BY <1>2, <2>2 DEF IngestRow, TypeOK, RowInHand
<1>3. CASE RowIngested
  <2>1. ingest.episode \in Nat \ {0}
    BY <1>3, IngestionType DEF RowIngested, TypeOK
  <2>2. feed' \in Run /\ feed'.left # {}
    BY <1>3, <2>1, RunType DEF RowIngested, Run, RowInHand
  <2> QED
    BY <1>3, <2>2 DEF RowIngested, TypeOK, RowInHand
<1>4. CASE RowEntered
  <2>1. Row \in Sources
    BY <1>4, RunType, RowIsLeft DEF RowEntered, RowInHand
  <2>2. Remembered \in Run /\ Remembered.at = "next"
    BY <1>4, <2>1, RunType DEF RowEntered, Remembered, Run
  <2> QED
    BY <1>4, <2>2 DEF RowEntered, TypeOK, RowInHand
<1>5. CASE FinishRun
  <2>1. /\ saved' \in [Sources -> Payloads \cup {Nothing}]
        /\ marked' \in [Sources -> Payloads \cup {Nothing}]
    BY <1>5 DEF FinishRun, TypeOK
  <2> QED
    BY <1>5, <2>1 DEF FinishRun, TypeOK, RowInHand, NoRun, Run
<1>6. CASE RunAborts \/ FeederDies
  BY <1>6 DEF RunAborts, FeederDies, TypeOK, RowInHand, NoRun, Run
<1>7. ASSUME NEW r \in Sources, NEW p \in Payloads, SheetChanges(r, p)
      PROVE  /\ sheet' \in [Sources -> Payloads]
             /\ {saved', marked'} \subseteq [Sources -> Payloads \cup {Nothing}]
             /\ feed' \in Run /\ runs' \in 0..MaxRuns /\ RowInHand'
  BY <1>7 DEF SheetChanges, TypeOK, RowInHand
<1>8. CASE UNCHANGED feeder
  BY <1>8 DEF feeder, TypeOK, RowInHand
<1> QED
  BY <1>1, <1>2, <1>3, <1>4, <1>5, <1>6, <1>7, <1>8 DEF Next, FeederNext, vars

LEMMA InitialState == Init => TypeOK /\ PipelineInv
<1> SUFFICES ASSUME Init PROVE TypeOK /\ PipelineInv
  OBVIOUS
<1> USE IntakeAssumption, EntryAssumption, PipelineAssumption DEF Init, IntakeInit, EntryInit
<1>1. IntakeTypeOK
  BY DEF IntakeTypeOK, Ingestion, NoIngestion
<1>2. EntryTypeOK
  BY DEF EntryTypeOK, Operation, NoOperation
<1>3. TypeOK
  BY <1>1, <1>2 DEF TypeOK, Run, NoRun
<1>4. RowInHand /\ OpeningIsClear /\ OneActiveEpisode
  BY DEF RowInHand, NoRun, OpeningIsClear, NoIngestion, OneActiveEpisode, Active
<1>5. EntryInv
  BY DEF EntryInv, TablesInv, OneActiveIntent, ActiveIntents, OperationIsSound, NoOperation,
         JudgedHasReview, ReadyForRiskIsApproved
<1> QED
  BY <1>3, <1>4, <1>5 DEF PipelineInv

LEMMA PipelineInductive ==
    ASSUME TypeOK, PipelineInv, [Next]_vars
    PROVE  TypeOK' /\ PipelineInv' /\ RelevanceNeverRetreats /\ IntentMoves
<1>1. EntryMoves /\ IntakeMoves
  BY StepsAreOfTheParts DEF PipelineInv
<1>2. IntakeTypeOK' /\ OneActiveEpisode' /\ OpeningIsClear' /\ RelevanceNeverRetreats
  BY <1>1, IntakeInductive DEF PipelineInv, TypeOK
<1>3. EntryTypeOK' /\ EntryInv' /\ IntentMoves
  BY <1>1, EntryInductive DEF PipelineInv, TypeOK
<1>4. /\ sheet' \in [Sources -> Payloads]
      /\ {saved', marked'} \subseteq [Sources -> Payloads \cup {Nothing}]
      /\ feed' \in Run
      /\ runs' \in 0..MaxRuns
      /\ RowInHand'
  BY FeederTypes DEF PipelineInv
<1> QED
  BY <1>2, <1>3, <1>4 DEF TypeOK, PipelineInv

LEMMA PipelineInvariant == Spec => [](TypeOK /\ PipelineInv)
<1>1. TypeOK /\ PipelineInv /\ [Next]_vars => TypeOK' /\ PipelineInv'
  BY PipelineInductive
<1> QED
  BY <1>1, InitialState, PTL DEF Spec

\* The type invariant of EntryPipeline, and of the two modules it composes, holds in every
\* reachable state.
THEOREM TypeCorrect == Spec => []TypeOK
<1> QED
  BY PipelineInvariant, PTL

\* An outcome never has two active episodes, whatever is observed and wherever the feeder
\* dies in an ingestion.
THEOREM OneEpisode == Spec => []OneActiveEpisode
<1>1. PipelineInv => OneActiveEpisode
  BY DEF PipelineInv
<1> QED
  BY <1>1, PipelineInvariant, PTL

\* An episode has at most one active intent, however often its rows are fed.
THEOREM OneIntent == Spec => []OneActiveIntent
<1>1. PipelineInv => OneActiveIntent
  BY DEF PipelineInv, EntryInv, TablesInv
<1> QED
  BY <1>1, PipelineInvariant, PTL

\* An intent reaches Risk Management only approved by Agents or User since its current review
\* was asked for, and with an approval on record, whatever times its reviews carry.
THEOREM GrantedIsApproved == Spec => []ReadyForRiskIsApproved
<1>1. PipelineInv => ReadyForRiskIsApproved
  BY DEF PipelineInv, EntryInv, TablesInv
<1> QED
  BY <1>1, PipelineInvariant, PTL

\* A late observation never takes the place of a newer one.
THEOREM NewestEpisode == Spec => CurrentEpisodeIsNewest
<1>1. TypeOK /\ PipelineInv /\ [Next]_vars => RelevanceNeverRetreats
  BY PipelineInductive
<1> QED
  BY <1>1, PipelineInvariant, PTL DEF Spec, CurrentEpisodeIsNewest
-------------------------------------------------------------------------------
(* Rows that are remembered. *)

Observed(r, p) ==
    \E x \in recorded : x.observation.src = r /\ x.observation.payload = p

Entered(r, p) ==
    \E i \in DOMAIN intents :
        \/ intents[i].terms.outcome = p.outcome /\ intents[i].terms.contract = p.contract
        \/ \E x \in recorded :
              /\ x.observation.src = r /\ x.observation.payload = p
              /\ intents[i].episode = x.episode

\* What the run of the feeder has behind it, up to the row in hand.
RunIsOnRecord ==
    /\ feed.at # "ingesting" => ingest.at = "idle"
    /\ feed.at = "ingesting" => /\ ingest.at # "idle"
                                /\ ingest.observation = ObservationOf(Row)
    /\ feed.at = "ingesting" /\ ingest.at = "done" =>
          \E x \in recorded : x.observation = ObservationOf(Row) /\ x.episode = ingest.episode
    /\ feed.at = "entering" =>
          \E x \in recorded : x.observation = ObservationOf(Row) /\ x.episode = feed.episode
    /\ feed.at # "idle" =>
          \A r \in feed.done :
              /\ Observed(r, sheet[r])
              /\ feed.armed /\ Arms(sheet[r]) => Entered(r, sheet[r])

FilesAreTrue ==
    \A r \in Sources :
        /\ saved[r] # Nothing => Observed(r, saved[r])
        /\ marked[r] # Nothing /\ Arms(marked[r]) => Entered(r, marked[r])

\* Nothing that is on record is ever taken off it.
LEMMA RecordsStay ==
    ASSUME TypeOK, PipelineInv, [Next]_vars
    PROVE  /\ recorded \subseteq recorded'
           /\ \A r, p : Observed(r, p) => Observed(r, p)'
           /\ \A r, p : Entered(r, p) => Entered(r, p)'
<1>1. EntryTypeOK /\ IntentMoves /\ IntakeMoves
  BY PipelineInductive, StepsAreOfTheParts DEF TypeOK, PipelineInv
<1>2. recorded \subseteq recorded'
  BY <1>1
     DEF IntakeMoves, intake, Ingest, IngestDuplicate, IntakeStep, OpenFirstEpisode,
         UpdateEpisode, KeepEpisode, SupersedeEpisode, OpenNextEpisode, SaveObservation
<1>3. ASSUME NEW i \in DOMAIN intents
      PROVE  /\ i \in DOMAIN intents'
             /\ intents'[i].episode = intents[i].episode
             /\ intents'[i].terms = intents[i].terms
  <2>1. CASE UNCHANGED intents
    BY <2>1
  <2>2. ASSUME NEW j \in DOMAIN intents, NEW s \in EntryIntentState, SetState(j, s)
        PROVE  /\ DOMAIN intents' = DOMAIN intents
               /\ intents'[i].episode = intents[i].episode
               /\ intents'[i].terms = intents[i].terms
    BY <1>1, <2>2, StateSet
  <2>3. ASSUME NEW e \in Nat \ {0}, NEW t \in Terms, CreateIntent(e, t), intents' # intents
        PROVE  i \in DOMAIN intents' /\ intents'[i] = intents[i]
    <3>1. /\ DOMAIN intents = 1..Len(intents)
          /\ DOMAIN intents' = 1..(Len(intents) + 1)
          /\ \A k \in DOMAIN intents : intents'[k] = intents[k]
      BY <1>1, <2>3, IntentCreated
    <3>2. Len(intents) \in Nat
      BY <1>1 DEF EntryTypeOK
    <3> QED
      BY <3>1, <3>2
  <2> QED
    BY <1>1, <2>1, <2>2, <2>3 DEF IntentMoves, Creates
<1>4. ASSUME NEW r, NEW p, Observed(r, p) PROVE Observed(r, p)'
  BY <1>2, <1>4 DEF Observed
<1>5. ASSUME NEW r, NEW p, Entered(r, p) PROVE Entered(r, p)'
  <2>1. PICK i \in DOMAIN intents :
            \/ intents[i].terms.outcome = p.outcome /\ intents[i].terms.contract = p.contract
            \/ \E x \in recorded :
                  /\ x.observation.src = r /\ x.observation.payload = p
                  /\ intents[i].episode = x.episode
    BY <1>5 DEF Entered
  <2>2. /\ i \in DOMAIN intents'
        /\ intents'[i].episode = intents[i].episode
        /\ intents'[i].terms = intents[i].terms
    BY <1>3
  <2> QED
    BY <1>2, <2>1, <2>2 DEF Entered
<1> QED
  BY <1>2, <1>4, <1>5

\* The steps of an ingestion keep its observation, and the last one puts it on record.
LEMMA IntakeUntilDone ==
    ASSUME IntakeTypeOK, IntakeStep
    PROVE  /\ ingest.at # "idle"
           /\ ingest'.at # "idle"
           /\ ingest'.observation = ingest.observation
           /\ ingest'.at = "done" =>
                 \E x \in recorded' : /\ x.observation = ingest.observation
                                      /\ x.episode = ingest'.episode
<1>1. CASE OpenFirstEpisode \/ OpenNextEpisode
  BY <1>1 DEF OpenFirstEpisode, OpenNextEpisode, SaveNewEpisode, Observing
<1>2. CASE UpdateEpisode \/ KeepEpisode
  <2>1. ingest.at # "idle" /\ \E e : ingest' = Observing(e)
    BY <1>2 DEF UpdateEpisode, KeepEpisode, Decides
  <2> QED
    BY <2>1 DEF Observing
<1>3. CASE SupersedeEpisode
  <2>1. ingest \in [at: {"deciding", "opening"}, observation: SourceObservation]
    BY <1>3 DEF SupersedeEpisode, Decides, IntakeTypeOK, Ingestion
  <2> QED
    BY <1>3, <2>1 DEF SupersedeEpisode
<1>4. CASE SaveObservation
  <2>1. ingest \in [at: {"observing", "done"}, observation: SourceObservation,
                    episode: Nat \ {0}]
    BY <1>4 DEF SaveObservation, IntakeTypeOK, Ingestion
  <2>2. /\ ingest.at = "observing"
        /\ ingest'.at = "done"
        /\ ingest'.observation = ingest.observation
        /\ ingest'.episode = ingest.episode
    BY <1>4, <2>1 DEF SaveObservation
  <2> DEFINE x == [observation |-> ingest.observation, episode |-> ingest.episode]
  <2>3. x \in recorded'
    BY <1>4 DEF SaveObservation
  <2>4. x.observation = ingest.observation /\ x.episode = ingest'.episode
    BY <2>2
  <2> HIDE DEF x
  <2> QED
    BY <2>2, <2>3, <2>4
<1> QED
  BY <1>1, <1>2, <1>3, <1>4 DEF IntakeStep

\* The run's records follow each of its steps.
LEMMA RunInductive ==
    ASSUME TypeOK, PipelineInv, RunIsOnRecord, [Next]_vars
    PROVE  RunIsOnRecord'
<1> USE DEF RunIsOnRecord
<1>1. /\ recorded \subseteq recorded'
      /\ \A r, p : Observed(r, p) => Observed(r, p)'
      /\ \A r, p : Entered(r, p) => Entered(r, p)'
  BY RecordsStay
<1>2. ASSUME UNCHANGED <<feed, sheet>>
      PROVE  /\ ObservationOf(Row)' = ObservationOf(Row)
             /\ feed'.at # "idle" =>
                   \A r \in feed'.done :
                       /\ Observed(r, sheet[r])'
                       /\ feed'.armed /\ Arms(sheet'[r]) => Entered(r, sheet[r])'
  <2>1. ObservationOf(Row)' = ObservationOf(Row)
    BY <1>2 DEF ObservationOf, Row
  <2> QED
    BY <1>1, <1>2, <2>1 DEF Arms
<1>3. CASE UNCHANGED <<feed, sheet, ingest>>
  BY <1>1, <1>2, <1>3
<1>4. CASE IntakeStep /\ UNCHANGED <<entry, feeder>>
  <2>1. UNCHANGED <<feed, sheet>>
    BY <1>4 DEF feeder
  <2>2. /\ ingest.at # "idle" /\ ingest'.at # "idle"
        /\ ingest'.observation = ingest.observation
        /\ ingest'.at = "done" =>
              \E x \in recorded' : /\ x.observation = ingest.observation
                                   /\ x.episode = ingest'.episode
    BY <1>4, IntakeUntilDone DEF TypeOK
  <2> QED
    BY <1>1, <1>2, <2>1, <2>2
<1>5. CASE IngestRow
  <2>1. /\ feed.at = "next" /\ UNCHANGED sheet
        /\ feed' = [feed EXCEPT !.at = "ingesting"]
        /\ Ingest(ObservationOf(Row)) \/ IngestDuplicate(ObservationOf(Row))
    BY <1>5 DEF IngestRow
  <2>2. feed \in [at: {"next", "ingesting"}, time: 0..MaxTime, armed: BOOLEAN,
                  left: SUBSET Sources, done: SUBSET Sources]
    BY <2>1 DEF TypeOK, Run
  <2>3. /\ feed'.at = "ingesting" /\ feed'.left = feed.left /\ feed'.time = feed.time
        /\ feed'.done = feed.done /\ feed'.armed = feed.armed
    BY <2>1, <2>2
  <2>4. ObservationOf(Row)' = ObservationOf(Row)
    BY <2>1, <2>3 DEF ObservationOf, Row
  <2>5. /\ ingest'.at # "idle" /\ ingest'.observation = ObservationOf(Row)
        /\ ingest'.at = "done" =>
              \E x \in recorded : /\ x.observation = ObservationOf(Row)
                                  /\ x.episode = ingest'.episode
    BY <2>1 DEF Ingest, IngestDuplicate
  <2>6. \A r \in feed'.done :
            /\ Observed(r, sheet[r])'
            /\ feed'.armed /\ Arms(sheet'[r]) => Entered(r, sheet[r])'
    BY <1>1, <2>1, <2>3 DEF Arms
  <2> QED
    BY <1>1, <2>3, <2>4, <2>5, <2>6
<1>6. CASE RowIngested
  <2>1. /\ feed.at = "ingesting" /\ ingest.at = "done" /\ UNCHANGED <<sheet, recorded>>
        /\ feed' = [at |-> "entering", time |-> feed.time, armed |-> feed.armed,
                    left |-> feed.left, done |-> feed.done, episode |-> ingest.episode]
        /\ ingest'.at = "idle"
    BY <1>6 DEF RowIngested, NoIngestion
  <2>2. ObservationOf(Row)' = ObservationOf(Row)
    BY <2>1 DEF ObservationOf, Row
  <2>3. \A r \in feed'.done :
            /\ Observed(r, sheet[r])'
            /\ feed'.armed /\ Arms(sheet'[r]) => Entered(r, sheet[r])'
    BY <1>1, <2>1 DEF Arms
  <2> QED
    BY <2>1, <2>2, <2>3
<1>7. CASE RowEntered
  <2>1. PICK q, p : q = Row /\ p = sheet[Row]
    OBVIOUS
  <2>2. /\ feed.at = "entering" /\ UNCHANGED <<sheet, recorded, ingest>>
        /\ feed'.at = "next" /\ feed'.done = feed.done \cup {q}
        /\ feed'.armed = feed.armed
    BY <1>7, <2>1 DEF RowEntered, Remembered, intake
  <2>3. PICK x \in recorded : /\ x.observation.src = q /\ x.observation.payload = p
                              /\ x.episode = feed.episode
    BY <2>1, <2>2 DEF ObservationOf
  <2>4. Observed(q, p)
    BY <2>3 DEF Observed
  <2>5. ASSUME feed.armed, Arms(p)
        PROVE  \E i \in DOMAIN intents' : intents'[i].episode = feed.episode
    <3>1. PICK t : t = Translated(p)
      OBVIOUS
    <3>2. CreateIntent(feed.episode, t)
      BY <1>7, <2>1, <2>5, <3>1 DEF RowEntered
    <3>3. CASE \E i \in ActiveIntents : intents[i].episode = feed.episode
      BY <3>2, <3>3 DEF CreateIntent, ActiveIntents
    <3>4. CASE ~ \E i \in ActiveIntents : intents[i].episode = feed.episode
      <4> DEFINE new == [episode |-> feed.episode, terms |-> t, state |-> "MONITORING"]
      <4>1. intents' = Append(intents, new) /\ new.episode = feed.episode
        BY <3>2, <3>4 DEF CreateIntent
      <4>2. intents \in Seq(EntryIntentRecord) /\ Len(intents) \in Nat
        BY DEF TypeOK, EntryTypeOK
      <4> HIDE DEF new
      <4>3. /\ Len(intents) + 1 \in DOMAIN intents'
            /\ intents'[Len(intents) + 1].episode = feed.episode
        BY <4>1, <4>2
      <4> QED
        BY <4>3
    <3> QED
      BY <3>3, <3>4
  <2>6. feed.armed /\ Arms(p) => Entered(q, p)'
    BY <2>2, <2>3, <2>5 DEF Entered
  <2>7. ASSUME NEW r \in feed'.done
        PROVE  /\ Observed(r, sheet[r])'
               /\ feed'.armed /\ Arms(sheet'[r]) => Entered(r, sheet[r])'
    <3>1. PICK t : t = sheet[r]
      OBVIOUS
    <3>2. Observed(r, t)' /\ (feed.armed /\ Arms(t) => Entered(r, t)')
      <4>1. CASE r = q
        BY <1>1, <2>1, <2>4, <2>6, <3>1, <4>1
      <4>2. CASE r # q
        BY <1>1, <2>2, <2>7, <3>1, <4>2
      <4> QED
        BY <4>1, <4>2
    <3> QED
      BY <2>2, <3>1, <3>2 DEF Observed, Entered, Arms
  <2> QED
    BY <2>2, <2>7
<1>8. ASSUME NEW armed \in BOOLEAN, NEW time \in 0..MaxTime, StartRun(armed, time)
      PROVE  RunIsOnRecord'
  <2>1. /\ feed.at = "idle" /\ ingest' = ingest
        /\ feed'.at = "next" /\ feed'.done = {}
    BY <1>8 DEF StartRun, intake
  <2> QED
    BY <2>1
<1>9. CASE RunAborts \/ FinishRun \/ FeederDies
  <2>1. feed'.at = "idle" /\ ingest'.at = "idle"
    BY <1>9 DEF RunAborts, FinishRun, FeederDies, NoRun, NoIngestion, intake
  <2> QED
    BY <2>1
<1>10. ASSUME NEW r \in Sources, NEW p \in Payloads, SheetChanges(r, p)
       PROVE  RunIsOnRecord'
  <2>1. feed'.at = "idle" /\ ingest'.at = "idle"
    BY <1>10 DEF SheetChanges, intake
  <2> QED
    BY <2>1
<1> QED
  BY <1>3, <1>4, <1>5, <1>6, <1>7, <1>8, <1>9, <1>10
     DEF Next, FeederNext, vars, feeder, intake

\* What the state file says is true after each step.
LEMMA FilesInductive ==
    ASSUME TypeOK, PipelineInv, RunIsOnRecord, FilesAreTrue, [Next]_vars
    PROVE  FilesAreTrue'
<1> USE DEF FilesAreTrue
<1>1. /\ \A r, p : Observed(r, p) => Observed(r, p)'
      /\ \A r, p : Entered(r, p) => Entered(r, p)'
  BY RecordsStay
<1>2. ASSUME NEW r \in Sources
      PROVE  /\ saved'[r] = saved[r] \/ Observed(r, saved'[r])
             /\ \/ marked'[r] = marked[r]
                \/ Arms(marked'[r]) => Entered(r, marked'[r])
  <2>1. CASE UNCHANGED <<saved, marked>>
    BY <2>1
  <2>2. ASSUME NEW armed \in BOOLEAN, NEW time \in 0..MaxTime, StartRun(armed, time)
        PROVE  /\ saved' = saved
               /\ marked'[r] = marked[r] \/ Entered(r, marked'[r])
    <3>1. Backfilled(r) => Entered(r, sheet[r])
      BY DEF Backfilled, EntryExists, Entered, ActiveIntents
    <3> QED
      BY <2>2, <3>1 DEF StartRun
  <2>3. CASE FinishRun
    <3>1. r \in feed.done =>
             /\ Observed(r, sheet[r])
             /\ feed.armed /\ Arms(sheet[r]) => Entered(r, sheet[r])
      BY <2>3 DEF FinishRun, RunIsOnRecord
    <3> QED
      BY <2>3, <3>1 DEF FinishRun
  <2> QED
    BY <2>1, <2>2, <2>3
       DEF Next, FeederNext, vars, feeder, IngestRow, RowIngested, RowEntered, RunAborts,
           FeederDies, SheetChanges
<1>3. ASSUME NEW r \in Sources
      PROVE  /\ saved'[r] # Nothing => Observed(r, saved[r])'
             /\ marked'[r] # Nothing /\ Arms(marked'[r]) => Entered(r, marked[r])'
  <2>1. PICK s, m : s = saved'[r] /\ m = marked'[r]
    OBVIOUS
  <2>2. /\ s # Nothing => Observed(r, s)
        /\ m # Nothing /\ Arms(m) => Entered(r, m)
    BY <1>2, <2>1
  <2>3. /\ s # Nothing => Observed(r, s)'
        /\ m # Nothing /\ Arms(m) => Entered(r, m)'
    BY <1>1, <2>2
  <2> QED
    BY <2>1, <2>3 DEF Observed, Entered
<1> QED
  BY <1>3

\* No row is lost: what the state file calls ingested has its observation on record, and
\* what it calls translated has an entry, wherever the runs of the feeder die.
THEOREM RememberedRows == Spec => []RememberedRowsWereHandled
<1>1. Init => RunIsOnRecord /\ FilesAreTrue
  BY DEF Init, IntakeInit, NoRun, NoIngestion, RunIsOnRecord, FilesAreTrue
<1>2. TypeOK /\ PipelineInv /\ RunIsOnRecord /\ FilesAreTrue /\ [Next]_vars
        => RunIsOnRecord' /\ FilesAreTrue'
  BY RunInductive, FilesInductive
<1>3. FilesAreTrue => RememberedRowsWereHandled
  BY DEF FilesAreTrue, Observed, Entered, RememberedRowsWereHandled
<1> QED
  BY <1>1, <1>2, <1>3, PipelineInvariant, PTL DEF Spec
-------------------------------------------------------------------------------
(* The entry domain implements EntryOutcome. *)

Stages == [i \in 1..MaxIntents |-> StageOf(i)]

\* Stages follow from states.
LEMMA StageIs ==
    ASSUME NEW i \in DOMAIN intents, intents[i].state \in EntryIntentState
    PROVE  /\ StageOf(i) \in {"watched", "judged", "granted", "closed"}
           /\ intents[i].state \in Monitored <=> StageOf(i) = "watched"
           /\ intents[i].state \in Judging <=> StageOf(i) = "judged"
           /\ intents[i].state = "READY_FOR_RISK" <=> StageOf(i) = "granted"
           /\ intents[i].state \in Closed <=> StageOf(i) = "closed"
BY DEF StageOf, Monitored, Judging, Closed, EntryIntentState

\* A legal move of an intent is a move of its stage.
LEMMA LegalMoveOfStage ==
    ASSUME EntryTypeOK, Len(intents) <= MaxIntents,
           NEW i \in DOMAIN intents, NEW s \in EntryIntentState, SetState(i, s), Legal(i, s)
    PROVE  Outcome!Next \/ Stages' = Stages
<1>1. /\ DOMAIN intents' = DOMAIN intents
      /\ intents'[i].state = s
      /\ \A j \in DOMAIN intents \ {i} : intents'[j] = intents[j]
  BY StateSet
<1>2. i \in 1..MaxIntents
  <2>1. DOMAIN intents = 1..Len(intents) /\ Len(intents) \in Nat
    BY LenProperties DEF EntryTypeOK
  <2> QED
    BY <2>1, EntryAssumption
<1>3. \A j \in 1..MaxIntents : j # i => StageOf(j)' = StageOf(j)
  BY <1>1 DEF StageOf
<1>4. Stages' = [Stages EXCEPT ![i] = StageOf(i)']
  BY <1>2, <1>3 DEF Stages
<1>5. intents[i].state \in EntryIntentState
  <2>1. intents \in Seq(EntryIntentRecord)
    BY DEF EntryTypeOK
  <2>2. intents[i] \in EntryIntentRecord
    BY <2>1
  <2> QED
    BY <2>2 DEF EntryIntentRecord
<1>6. /\ StageOf(i)' \in {"watched", "judged", "granted", "closed"}
      /\ s \in Monitored <=> StageOf(i)' = "watched"
      /\ s \in Judging <=> StageOf(i)' = "judged"
      /\ s = "READY_FOR_RISK" <=> StageOf(i)' = "granted"
      /\ s \in Closed <=> StageOf(i)' = "closed"
  BY <1>1 DEF StageOf, Monitored, Judging, Closed, EntryIntentState
<1>7. \/ StageOf(i)' = "closed" /\ StageOf(i) # "none" /\ StageOf(i) \in Outcome!Stage
      \/ StageOf(i)' = StageOf(i)
      \/ StageOf(i) = "watched" /\ StageOf(i)' = "judged"
      \/ StageOf(i) = "judged" /\ StageOf(i)' \in {"watched", "granted"}
  BY <1>5, <1>6, StageIs DEF Legal, Judging, Outcome!Stage
<1>8. Stages[i] = StageOf(i)
  BY <1>2 DEF Stages
<1>9. CASE StageOf(i)' = StageOf(i)
  BY <1>4, <1>8, <1>9 DEF Stages
<1>10. CASE StageOf(i)' = "closed" /\ StageOf(i) # "none" /\ StageOf(i) \in Outcome!Stage
  <2>1. Outcome!Close(i)
    BY <1>4, <1>8, <1>10 DEF Stages, Outcome!Close, Outcome!Move
  <2> QED
    BY <1>2, <2>1 DEF Outcome!Next
<1>11. CASE StageOf(i) = "watched" /\ StageOf(i)' = "judged"
  <2>1. Outcome!Submit(i)
    BY <1>4, <1>8, <1>11 DEF Stages, Outcome!Submit, Outcome!Move
  <2> QED
    BY <1>2, <2>1 DEF Outcome!Next
<1>12. CASE StageOf(i) = "judged" /\ StageOf(i)' \in {"watched", "granted"}
  <2>1. Outcome!Return(i) \/ Outcome!Grant(i)
    BY <1>4, <1>8, <1>12 DEF Stages, Outcome!Return, Outcome!Grant, Outcome!Move
  <2> QED
    BY <1>2, <2>1 DEF Outcome!Next
<1> QED
  BY <1>7, <1>9, <1>10, <1>11, <1>12

\* A new intent is a stage that begins.
LEMMA CreationOfStage ==
    ASSUME EntryTypeOK, Creates
    PROVE  Outcome!Next \/ Stages' = Stages
<1>1. CASE UNCHANGED intents
  BY <1>1 DEF Stages, StageOf
<1>2. CASE ~ UNCHANGED intents
  <2>1. PICK e \in Nat \ {0}, t \in Terms : CreateIntent(e, t)
    BY DEF Creates
  <2>2. PICK n : n = Len(intents) + 1
    OBVIOUS
  <2>3. /\ DOMAIN intents = 1..Len(intents)
        /\ DOMAIN intents' = 1..n
        /\ \A i \in DOMAIN intents : intents'[i] = intents[i]
        /\ intents'[n] = [episode |-> e, terms |-> t, state |-> "MONITORING"]
    BY <1>2, <2>1, <2>2, IntentCreated
  <2>4. Len(intents) \in Nat /\ n \in 1..MaxIntents
    BY <2>2, EntryAssumption DEF Creates, EntryTypeOK
  <2>5. StageOf(n) = "none" /\ StageOf(n)' = "watched"
    <3>1. n \notin DOMAIN intents /\ n \in DOMAIN intents'
      BY <2>2, <2>3, <2>4
    <3>2. intents'[n].state = "MONITORING"
      BY <2>3
    <3>3. StageOf(n) = "none"
      BY <3>1 DEF StageOf
    <3> QED
      BY <3>1, <3>2, <3>3 DEF StageOf, Monitored
  <2>6. \A j \in 1..MaxIntents : j # n => StageOf(j)' = StageOf(j)
    <3> TAKE j \in 1..MaxIntents
    <3> HAVE j # n
    <3>1. j \in DOMAIN intents' <=> j \in DOMAIN intents
      BY <2>2, <2>3, <2>4
    <3>2. j \in DOMAIN intents => intents'[j] = intents[j]
      BY <2>3
    <3>3. CASE j \in DOMAIN intents
      BY <3>1, <3>2, <3>3 DEF StageOf
    <3>4. CASE j \notin DOMAIN intents
      BY <3>1, <3>4 DEF StageOf
    <3> QED
      BY <3>3, <3>4
  <2>7. Stages' = [Stages EXCEPT ![n] = "watched"] /\ Stages[n] = "none"
    BY <2>4, <2>5, <2>6 DEF Stages
  <2>8. Outcome!Create(n)
    BY <2>7 DEF Stages, Outcome!Create, Outcome!Move
  <2> QED
    BY <2>4, <2>8 DEF Outcome!Next
<1> QED
  BY <1>1, <1>2

\* The entry domain implements EntryOutcome: whatever the feeder, the market, the Agents, the
\* User and the crashes of either process do, an intent is granted only from where it is
\* judged, and one that is closed stays so.
THEOREM ImplementsOutcome == Spec => ImplementsEntryOutcome
<1>1. Init => Outcome!Init
  <2> SUFFICES ASSUME Init PROVE \A i \in 1..MaxIntents : StageOf(i) = "none"
    BY DEF Outcome!Init
  <2>1. DOMAIN intents = {}
    BY DEF Init, EntryInit
  <2> QED
    BY <2>1 DEF StageOf
<1>2. TypeOK /\ PipelineInv /\ [Next]_vars => Outcome!Next \/ Stages' = Stages
  <2> SUFFICES ASSUME TypeOK, PipelineInv, [Next]_vars
               PROVE  Outcome!Next \/ Stages' = Stages
    OBVIOUS
  <2>1. EntryTypeOK /\ Len(intents) <= MaxIntents /\ IntentMoves
    BY PipelineInductive DEF TypeOK, PipelineInv, EntryInv, TablesInv
  <2>2. CASE UNCHANGED intents
    BY <2>2 DEF Stages, StageOf
  <2> QED
    BY <2>1, <2>2, LegalMoveOfStage, CreationOfStage DEF IntentMoves
<1>3. TypeOK /\ PipelineInv /\ [Next]_vars
        => [Outcome!Next]_([i \in 1..MaxIntents |-> StageOf(i)])
  BY <1>2 DEF Stages
<1> QED
  BY <1>1, <1>3, PipelineInvariant, PTL DEF Spec, ImplementsEntryOutcome, Outcome!Spec
================================================================================
