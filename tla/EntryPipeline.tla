---------------------------- MODULE EntryPipeline ----------------------------
(***************************************************************************)
(* From a row of the Top Picks sheet to an entry that may go to Risk        *)
(* Management: the feeder (scripts/feed_google_top_picks.py), which is a    *)
(* process of its own that ends after one pass over the sheet, trade intake *)
(* (TradeIntake) in that process, and the entry domain (EntryWorkflow) in   *)
(* the process of the shell.  Both share the database and either may die.   *)
(*                                                                          *)
(* A row is what adapters/google_sheet.py reads of it.  Its fingerprint is  *)
(* its payload.  A run reads the sheet once, so a change of the sheet       *)
(* during a run is one after it.                                            *)
(***************************************************************************)
EXTENDS TradeIntake, EntryWorkflow

CONSTANTS
    clean_contract_symbol,  \* a contract without what is displayed along with it
    Nothing,      \* no fingerprint
    MaxRuns       \* bound: runs of the feeder

ASSUME PipelineAssumption ==
    /\ Sources \subseteq Nat
    /\ Nothing \notin Payloads
    /\ Terms = [outcome: Outcomes, contract: Contracts]
    /\ clean_contract_symbol \in [Contracts -> Contracts]
    /\ \A c \in Contracts :
          clean_contract_symbol[clean_contract_symbol[c]] = clean_contract_symbol[c]
    /\ MaxRuns \in Nat

VARIABLES
    sheet,        \* the rows of the sheet
    saved,        \* the feeder's state file: the fingerprint each row was ingested with
    marked,       \* the same file: the fingerprint each row was translated with
    feed,         \* the run of the feeder in progress
    runs          \* the runs begun

feeder == <<sheet, saved, marked, feed, runs>>
vars == <<intake, entry, feeder>>
------------------------------------------------------------------------------
(* Data. *)

\* armed: --create-entry-intents.  left and done are rows; at is the time of the run.
Run ==
    [at: {"idle"}]
    \cup [at: {"next", "ingesting"}, time: 0..MaxTime, armed: BOOLEAN,
          left: SUBSET Sources, done: SUBSET Sources]
    \cup [at: {"entering"}, time: 0..MaxTime, armed: BOOLEAN,
          left: SUBSET Sources, done: SUBSET Sources, episode: Nat \ {0}]

NoRun == [at |-> "idle"]

TypeOK ==
    /\ IntakeTypeOK
    /\ EntryTypeOK
    /\ sheet \in [Sources -> Payloads]
    /\ {saved, marked} \subseteq [Sources -> Payloads \cup {Nothing}]
    /\ feed \in Run
    /\ runs \in 0..MaxRuns

\* The row in hand: the rows are taken from the top of the sheet.
Row == CHOOSE r \in feed.left : \A q \in feed.left : r <= q

\* prepare_row: a row without a timestamp was observed at the time of the run.
ObservationOf(r) == [src |-> r, payload |-> sheet[r], at |-> feed.time]

\* translate_top_pick_to_entry gives an entry for some picks; EntryIntentRecord takes it
\* if the horizon, the end of the day of the observation, is not after the contract's expiry.
Arms(p) == p.arms
Translated(p) == [outcome |-> p.outcome, contract |-> clean_contract_symbol[p.contract]]
Valid(p) == feed.time \in p.valid
------------------------------------------------------------------------------
(* The feeder. *)

\* _entry_already_exists: the contract as it is written, against those of the entries.
EntryExists(p) ==
    \E i \in ActiveIntents :
        intents[i].terms.outcome = p.outcome /\ intents[i].terms.contract = p.contract

\* An unchanged row that was never translated although it should be.
Untranslated(r) == Arms(sheet[r]) /\ marked[r] # sheet[r]

Backfilled(r) == Untranslated(r) /\ EntryExists(sheet[r])

Selected(armed) ==
    {r \in Sources : \/ saved[r] # sheet[r]
                     \/ armed /\ Untranslated(r) /\ ~EntryExists(sheet[r])}

\* Markers of rows whose entry exists are saved before anything is ingested.
StartRun(armed, time) ==
    /\ feed.at = "idle"
    /\ runs < MaxRuns
    /\ runs' = runs + 1
    /\ marked' = [r \in Sources |->
           IF armed /\ saved[r] = sheet[r] /\ Backfilled(r) THEN sheet[r] ELSE marked[r]]
    /\ feed' = [at |-> "next", time |-> time, armed |-> armed,
                left |-> Selected(armed), done |-> {}]
    /\ UNCHANGED <<intake, entry, sheet, saved>>

IngestRow ==
    /\ feed.at = "next" /\ feed.left # {}
    /\ Ingest(ObservationOf(Row)) \/ IngestDuplicate(ObservationOf(Row))
    /\ feed' = [feed EXCEPT !.at = "ingesting"]
    /\ UNCHANGED <<entry, sheet, saved, marked, runs>>

\* ingest returns.
RowIngested ==
    /\ feed.at = "ingesting" /\ ingest.at = "done"
    /\ feed' = [at |-> "entering", time |-> feed.time, armed |-> feed.armed,
                left |-> feed.left, done |-> feed.done, episode |-> ingest.episode]
    /\ ingest' = NoIngestion
    /\ UNCHANGED <<outcomes, episodes, recorded, entry, sheet, saved, marked, runs>>

\* remember: in memory only.
Remembered ==
    [at |-> "next", time |-> feed.time, armed |-> feed.armed,
     left |-> feed.left \ {Row}, done |-> feed.done \cup {Row}]

\* The row is only remembered, or an entry is created from it.
RowEntered ==
    /\ feed.at = "entering"
    /\ IF feed.armed /\ Arms(sheet[Row])
       THEN /\ Valid(sheet[Row])
            /\ Len(intents) < MaxIntents
            /\ CreateIntent(feed.episode, Translated(sheet[Row]))
       ELSE UNCHANGED intents
    /\ feed' = Remembered
    /\ UNCHANGED <<intake, reviews, working, approved, sheet, saved, marked, runs>>

RunAbortsButRemembers ==
    /\ feed.at = "entering"
    /\ feed.armed /\ Arms(sheet[Row]) /\ ~Valid(sheet[Row])
    /\ saved' = [saved EXCEPT ![Row] = sheet[Row]]
    /\ marked' = [marked EXCEPT ![Row] = sheet[Row]]
    /\ feed' = NoRun
    /\ UNCHANGED <<intake, entry, sheet, runs>>

\* EntryIntentRecord rejects the row, say an expired contract: the run ends there.
RunAborts ==
    /\ feed.at = "entering"
    /\ feed.armed /\ Arms(sheet[Row]) /\ ~Valid(sheet[Row])
    /\ feed' = NoRun
    /\ UNCHANGED <<intake, entry, sheet, saved, marked, runs>>

\* Only a run that ends saves what it remembers.
FinishRun ==
    /\ feed.at = "next" /\ feed.left = {}
    /\ saved' = [r \in Sources |->
           IF r \in feed.done THEN sheet[r] ELSE saved[r]]
    /\ marked' = [r \in Sources |->
           IF feed.armed /\ r \in feed.done THEN sheet[r] ELSE marked[r]]
    /\ feed' = NoRun
    /\ UNCHANGED <<intake, entry, sheet, runs>>

FeederDies ==
    /\ feed.at # "idle"
    /\ feed' = NoRun
    /\ ingest' = NoIngestion
    /\ UNCHANGED <<outcomes, episodes, recorded, entry, sheet, saved, marked, runs>>

\* The scanner writes another pick into a row; after the last run nobody reads it.
SheetChanges(r, p) ==
    /\ feed.at = "idle"
    /\ runs < MaxRuns
    /\ sheet' = [sheet EXCEPT ![r] = p]
    /\ UNCHANGED <<intake, entry, saved, marked, feed, runs>>
------------------------------------------------------------------------------
Init ==
    /\ IntakeInit
    /\ EntryInit
    /\ sheet \in [Sources -> Payloads]
    /\ saved = [r \in Sources |-> Nothing]
    /\ marked = [r \in Sources |-> Nothing]
    /\ feed = NoRun
    /\ runs = 0

FeederNext ==
    \/ \E armed \in BOOLEAN, time \in 0..MaxTime : StartRun(armed, time)
    \/ IngestRow
    \/ RowIngested
    \/ RowEntered
    \/ RunAborts
    \/ FinishRun
    \/ FeederDies
    \/ \E r \in Sources, p \in Payloads : SheetChanges(r, p)

Next ==
    \/ FeederNext
    \/ IntakeStep /\ UNCHANGED <<entry, feeder>>
    \/ EntryBegins /\ UNCHANGED <<intake, feeder>>
    \/ EntryStep /\ UNCHANGED <<intake, feeder>>
    \/ EntryDies /\ UNCHANGED <<intake, feeder>>

Spec == Init /\ [][Next]_vars
------------------------------------------------------------------------------
(* Properties. *)

\* No row is lost: a row the state file calls ingested has its observation on record,
\* and one it calls translated has an entry intent, either for the episode its
\* observation was put in or for the same contract (feed_google_top_picks.py:398).
RememberedRowsWereHandled ==
    \A r \in Sources :
        /\ saved[r] # Nothing =>
              \E x \in recorded : x.observation.src = r /\ x.observation.payload = saved[r]
        /\ marked[r] # Nothing /\ Arms(marked[r]) =>
              \E i \in DOMAIN intents :
                  \/ /\ intents[i].terms.outcome = marked[r].outcome
                     /\ intents[i].terms.contract = marked[r].contract
                  \/ \E x \in recorded :
                        /\ x.observation.src = r /\ x.observation.payload = marked[r]
                        /\ intents[i].episode = x.episode

\* CurrentEpisodeIsNewest: see RelevanceNeverRetreats.
CurrentEpisodeIsNewest == [][RelevanceNeverRetreats]_vars

StageOf(i) ==
    IF i \notin DOMAIN intents THEN "none"
    ELSE CASE intents[i].state \in Monitored -> "watched"
           [] intents[i].state \in {"AGENT_REVIEW_PENDING", "USER_DECISION_PENDING"} -> "judged"
           [] intents[i].state = "READY_FOR_RISK" -> "granted"
           [] OTHER -> "closed"

Outcome == INSTANCE EntryOutcome WITH
    stage <- [i \in 1..MaxIntents |-> StageOf(i)]

\* The entry domain implements what it promises of every intent, with the feeder, the
\* market, the Agents, the User and the crashes of either process interleaved.
ImplementsEntryOutcome == Outcome!Spec
==============================================================================
