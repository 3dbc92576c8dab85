----------------------------- MODULE TradeIntake -----------------------------
(***************************************************************************)
(* Trade intake (candidates/manager.py): what a source observes is kept as  *)
(* an observation and reconciled with the one active episode of its outcome *)
(* (candidates/relevance.py).  The outcome, the superseded episode, the new *)
(* or updated one and the observation are saved one after the other, each   *)
(* in a transaction of its own, so the caller's process may die in between. *)
(*                                                                          *)
(* Existing exposure only changes the disposition that is reported; that    *)
(* and the events are left out.                                             *)
(***************************************************************************)
EXTENDS Naturals, Sequences, FiniteSets

CONSTANTS
    Sources,          \* the src_id of what is observed
    Payloads,         \* what a source may say: see PayloadFields
    Outcomes,         \* broad opportunities
    Contracts,        \* contract, strike and expiry, as they are written
    Contexts,         \* context keys
    NoContext,        \* context_key is None
    MaxGap,           \* the relevance window
    MaxTime,          \* bound: observation times
    MaxObservations,  \* bound: observations recorded
    MaxEpisodes       \* bound: episodes

\* arms and valid are facts of the raw payload: whether its status is translated to an
\* entry, and for which observation times the entry record accepts the result.
PayloadFields ==
    [outcome: Outcomes, contract: Contracts, context: Contexts \cup {NoContext},
     arms: BOOLEAN, valid: SUBSET (0..MaxTime)]

ASSUME IntakeAssumption ==
    /\ Payloads \subseteq PayloadFields
    /\ NoContext \notin Contexts
    /\ {MaxGap, MaxTime, MaxObservations, MaxEpisodes} \subseteq Nat

VARIABLES
    outcomes,     \* the intake_outcomes table
    episodes,     \* the intake_episodes table, in the order they were opened
    recorded,     \* the source_observations table
    ingest        \* the ingestion in progress, lost in a crash

intake == <<outcomes, episodes, recorded, ingest>>
------------------------------------------------------------------------------
(* Data. *)

\* An observation is its own dedupe key.
SourceObservation == [src: Sources, payload: Payloads, at: 0..MaxTime]

Signature == [contract: Contracts, context: Contexts \cup {NoContext}]

EpisodeRecord ==
    [outcome: Outcomes, signature: Signature, status: {"ACTIVE", "SUPERSEDED"},
     last: 0..MaxTime]

Recorded == [observation: SourceObservation, episode: Nat \ {0}]

\* episode is 0 until it is known which one the observation belongs to.
Ingestion ==
    [at: {"idle"}]
    \cup [at: {"deciding", "opening"}, observation: SourceObservation]
    \cup [at: {"observing", "done"}, observation: SourceObservation, episode: Nat \ {0}]

NoIngestion == [at |-> "idle"]

IntakeTypeOK ==
    /\ outcomes \subseteq Outcomes
    /\ episodes \in Seq(EpisodeRecord)
    /\ recorded \subseteq Recorded
    /\ ingest \in Ingestion

episode_identity(o) == [contract |-> o.payload.contract, context |-> o.payload.context]

Active(out) ==
    {e \in DOMAIN episodes : episodes[e].outcome = out /\ episodes[e].status = "ACTIVE"}

\* get_active_episode_for_outcome: the active episode observed last.
CurrentEpisode(out) ==
    CHOOSE e \in Active(out) : \A f \in Active(out) : episodes[f].last <= episodes[e].last
------------------------------------------------------------------------------
(* Relevance. *)

SameManifestation(o, e) ==
    \/ episode_identity(o) = e.signature
    \/ o.payload.context # NoContext /\ o.payload.context = e.signature.context

DecideAnyOrder(o, e) == IF SameManifestation(o, e) THEN "SAME_EPISODE" ELSE "NEW_EPISODE"

\* No ambiguity resolver is connected, so what is ambiguous is a new episode.
Decide(o, e) ==
    CASE o.at < e.last -> "STALE_OBSERVATION"
      [] o.at > e.last + MaxGap -> "NEW_EPISODE"
      [] OTHER -> IF SameManifestation(o, e) THEN "SAME_EPISODE" ELSE "NEW_EPISODE"
------------------------------------------------------------------------------
(* Ingestion, one action for each save. *)

\* An observation ingested before is answered with the episode it was put in.
IngestDuplicate(o) ==
    /\ ingest.at = "idle"
    /\ \E r \in recorded :
          /\ r.observation = o
          /\ ingest' = [at |-> "done", observation |-> o, episode |-> r.episode]
    /\ UNCHANGED <<outcomes, episodes, recorded>>

Ingest(o) ==
    /\ ingest.at = "idle"
    /\ \A r \in recorded : r.observation # o
    /\ Cardinality(recorded) < MaxObservations
    /\ outcomes' = outcomes \cup {o.payload.outcome}
    /\ ingest' = [at |-> "deciding", observation |-> o]
    /\ UNCHANGED <<episodes, recorded>>

Observing(e) == [at |-> "observing", observation |-> ingest.observation, episode |-> e]

SaveNewEpisodeAtEnd(o) ==
    /\ Len(episodes) < MaxEpisodes
    /\ episodes' = Append(episodes,
           [outcome |-> o.payload.outcome, signature |-> episode_identity(o),
            status |-> "ACTIVE", last |-> o.at])
    /\ ingest' = Observing(Len(episodes))

\* _new_episode
SaveNewEpisode(o) ==
    /\ Len(episodes) < MaxEpisodes
    /\ episodes' = Append(episodes,
           [outcome |-> o.payload.outcome, signature |-> episode_identity(o),
            status |-> "ACTIVE", last |-> o.at])
    /\ ingest' = Observing(Len(episodes) + 1)

OpenFirstEpisode ==
    /\ ingest.at = "deciding"
    /\ Active(ingest.observation.payload.outcome) = {}
    /\ SaveNewEpisode(ingest.observation)
    /\ UNCHANGED <<outcomes, recorded>>

Decides(d, e) ==
    /\ ingest.at = "deciding"
    /\ Active(ingest.observation.payload.outcome) # {}
    /\ e = CurrentEpisode(ingest.observation.payload.outcome)
    /\ Decide(ingest.observation, episodes[e]) = d

UpdateEpisode ==
    /\ \E e \in DOMAIN episodes :
          /\ Decides("SAME_EPISODE", e)
          /\ episodes' = [episodes EXCEPT
                 ![e].signature = episode_identity(ingest.observation),
                 ![e].last = IF @ > ingest.observation.at THEN @ ELSE ingest.observation.at]
          /\ ingest' = Observing(e)
    /\ UNCHANGED <<outcomes, recorded>>

KeepEpisode ==
    /\ \E e \in DOMAIN episodes :
          /\ Decides("STALE_OBSERVATION", e)
          /\ ingest' = Observing(e)
    /\ UNCHANGED <<outcomes, episodes, recorded>>

SupersedeLater ==
    /\ \E e \in DOMAIN episodes : Decides("NEW_EPISODE", e)
    /\ ingest' = [ingest EXCEPT !.at = "opening"]
    /\ UNCHANGED <<outcomes, episodes, recorded>>

SupersedeEpisode ==
    /\ \E e \in DOMAIN episodes :
          /\ Decides("NEW_EPISODE", e)
          /\ episodes' = [episodes EXCEPT ![e].status = "SUPERSEDED"]
    /\ ingest' = [ingest EXCEPT !.at = "opening"]
    /\ UNCHANGED <<outcomes, recorded>>

OpenNextEpisode ==
    /\ ingest.at = "opening"
    /\ SaveNewEpisode(ingest.observation)
    /\ UNCHANGED <<outcomes, recorded>>

SaveObservation ==
    /\ ingest.at = "observing"
    /\ recorded' = recorded \cup
           {[observation |-> ingest.observation, episode |-> ingest.episode]}
    /\ ingest' = [ingest EXCEPT !.at = "done"]
    /\ UNCHANGED <<outcomes, episodes>>

IntakeInit ==
    /\ outcomes = {}
    /\ episodes = <<>>
    /\ recorded = {}
    /\ ingest = NoIngestion

\* The steps of an ingestion that has begun.
IntakeStep ==
    \/ OpenFirstEpisode
    \/ UpdateEpisode
    \/ KeepEpisode
    \/ SupersedeEpisode
    \/ OpenNextEpisode
    \/ SaveObservation
------------------------------------------------------------------------------
(* Properties. *)

\* An outcome never has two active episodes, whenever the process dies: the old one is
\* superseded before the new one is saved (candidates/manager.py:138).
OneActiveEpisode == \A out \in Outcomes : \A e, f \in Active(out) : e = f

\* A late observation never takes the place of a newer one: an active episode only gets
\* newer, and what supersedes it is no older (candidates/relevance.py:48).
RelevanceNeverRetreats ==
    \A e \in DOMAIN episodes : episodes[e].status = "ACTIVE" =>
        IF episodes'[e].status = "ACTIVE"
        THEN episodes'[e].last >= episodes[e].last
        ELSE ingest.observation.at >= episodes[e].last
==============================================================================
