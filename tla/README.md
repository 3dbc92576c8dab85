# TradeMonitor in TLA+

This directory holds a formal model of TradeMonitor (`src/trademonitor`): TLA+ modules, TLC
configurations that check them on small instances, and TLAPS proofs of the properties that
matter most. The modules are translated from the code; `PROJECT.json` maps each definition
to the lines it stands for.

```
tlc -workers 2 -config MCExecutionEngine.cfg MCExecutionEngine.tla   # any run of PROJECT.json
tlapm ExecutionEngineProofs.tla                                      # the proofs
```

## 1. The system

TradeMonitor watches a trader's candidate trades and broker positions, decides when to propose
an entry or an exit, collects the permissions the proposal needs, and hands an authorised
request to the broker, in PAPER, SEMI_AUTO or AUTO mode. The runtime is one process:
`CoreTMManager` (core/manager.py) holds one re-entrant lock and runs every operation under it,
so operations never interleave with each other. Two scripts work on the same database in
processes of their own: the feeder (scripts/feed_google_top_picks.py), which brings rows of a
sheet into intake, and scripts/auto_readiness.py, which records evidence and decisions for AUTO.
What makes it hard:

- **Saves are separate transactions.** Each repository save is its own SQLite transaction, so a
  crash (or an exception halfway) leaves a prefix of an operation's saves behind.
- **The broker is remote and has its own life.** Calls time out after they took effect,
  placements arrive late, reads lag or fail, positions and orders change at the broker.
- **Memory is lost.** The contexts' freshness flag (`runtime_reconciled`), the adapter's map
  from order ids to client ids and what a run of the feeder remembers do not survive a restart.
- **Decisions arrive late.** Agents, User, rules and broker truth act on the same proposal at
  different times; a decision may answer a question that no longer stands.
- **Authorisations go stale.** A risk PASS, an approval or an exit proposal was true of a broker
  state, a profile or a moment that may be gone when the order is sent.
- **Copies are saved whole.** The AUTO record is read once and written back at the end of every
  operation, by the runtime and by the script, each from its own copy.

| Component | Source | State | Operations | Correct when |
|---|---|---|---|---|
| Module M | execution/engine.py | `execution_requests` | deploy, reconcile, cancel | one order per request; outcomes are the broker's; none is lost |
| Execution brokers | brokers/zerodha.py, execution_simulator.py | orders; adapter cache | submit, fetch, cancel | reads are correlated with the right request |
| Exit monitor | positions/exit.py | `exit_proposals` | propose, coalesce, supersede, satisfy | one full-exit path; authority never blocked |
| Exit review | positions/review.py | `exit_reviews` | request review, User decision | strategic exits only on a recorded decision |
| Positions | positions/manager.py | `positions`, profiles | reconcile, adopt | broker truth wins; unmanaged is read-only |
| Management rules | positions/rules.py | `position_management_rules` | add, cancel, evaluate | fire once, never loosen |
| Core runtime | core/manager.py, core/context.py | contexts | start, reconcile broker truth, gates | truth never retreats; nothing acts on stale truth |
| Exit requests and gate | execution/requests.py, core/manager.py | requests | from_exit, deploy gate | exits only reduce exposure |
| Entry requests and gate | execution/requests.py, core/manager.py | requests | prepare, deploy gate | "nothing creating risk reaches Module M without current Risk Management permission" |
| Approval and AUTO readiness | execution/approval.py, readiness.py, scripts/auto_readiness.py | approvals, AUTO record | request, decide, record, enable | a real order has consent that is current |
| Risk | risk/engine.py | decisions, profile, changes | evaluate, rearm, change profile | a PASS binds to one profile and one broker state |
| Entry monitor and review | entry/monitor.py, entry/review.py | entry intents, reviews | evaluate, review, rearm, cancel | an intent advances only through its gates |
| Trade intake | candidates/manager.py, relevance.py, adapters/intake.py | outcomes, episodes, observations | ingest | one active episode per outcome, never an older one |
| Adapters and feeder | adapters/google_*.py, scripts/feed_google_top_picks.py | the state file | select, ingest, arm, remember | no row is lost, none is entered twice |
| Persistence | persistence/*.py | the database | save, query | each save is one transaction |
| Event bus, attention; console; stubs | core/event_bus.py, attention.py; app.py; commands/ ... | audit events | publish, render | nothing is decided from them |

How they interact: broker truth enters through `reconcile_broker_truth` and updates positions,
contexts and exit proposals. Rules, the User and the day-end policy raise exit proposals on
managed positions; strategic ones wait for the review. The feeder reads the sheet, calls intake in
its own process and creates entry intents in the database; the runtime watches them until their
trigger, asks the Agents or the User, and hands them to the risk gate. An approved exit or a PASSed
entry becomes an execution request, which the deployment gate checks again, with the approval or
the AUTO decision when the broker is the real one, before Module M sends it. Events go to an
append-only table and a synchronous bus; nothing reads them back to decide.

`PROJECT.json` lists every component with its status and every hazard with its line.

## 2. Modules

```
sheet -> EntryPipeline = TradeIntake + EntryWorkflow
                 |
                 v
         EntryExecution = EntryAuthorization + ExecutionEngine
                                                     ^   ^
         ManagementRules -> ExitMonitor -> ExitExecution |
                                                 LiveWrites (real broker)
```

| Module | What it is |
|---|---|
| `ExecutionEngine` | Module M, one live broker and its adapter, with crashes and faults |
| `OrderOutcome` | abstract: a request, or an entry, is placed at most once, ended once, reported once and truly |
| `ExitMonitor` | one position's adoption, rules, exit proposals and reviews, with broker truth and crashes |
| `ManagementRules` | the rules of a position with their prices, watermarks and stops, evaluated save by save |
| `ExitExecution` | approved exits to requests, the exit gate, fills, broker truth that is late, lost or repeated |
| `EntryAuthorization` | the permission for new exposure: broker truth, profile versions, decisions, requests, the gate |
| `EntryExecution` | the two composed under the Core lock: an entry from the risk gate to its orders |
| `LiveWrites` | the permission for real orders: modes, arming, approvals that expire, the AUTO record and its copies |
| `TradeIntake` | observations, outcomes and episodes, save by save |
| `EntryWorkflow` | entry intents from creation over monitoring and review to the risk gate, save by save |
| `EntryPipeline` | the feeder, which composes `TradeIntake` (in its process) and `EntryWorkflow` (in the runtime's) |
| `EntryOutcome` | abstract: what the entry domain promises of an intent |
| `*Proofs` | the theorems about the module of that name (section 5) |
| `MC*` | the instances TLC checks |

`EntryExecution` joins the two modules it composes step by step. Elsewhere each model hands over to the next
where the code does: an intent leaves `EntryWorkflow` as
READY_FOR_RISK, where `EntryAuthorization` begins; a request that a gate lets through is SENT, and
what becomes of it is `ExecutionEngine`'s. What a neighbour may do is free at the boundary (an exit is
approved or withdrawn at any time, an order fills or ends at any time), so a property of one module
does not depend on a restriction that another would have to keep.

### ExecutionEngine

| Variable | Code |
|---|---|
| `request[r]` | the row of `execution_requests`: its broker, status, broker order id, filled quantity, `last_broker_observed_at` |
| `client`, `truths` | the broker: for whom each order was placed, and the states it published |
| `wire` | placements that left TradeMonitor and have not arrived |
| `call` | where `deploy` or `cancel` is between its saves and its broker call |
| `adapter` | `_client_by_order_id` of the Zerodha adapter |

`deploy` is cut at its save and its call: `StartSubmission` saves SUBMITTING, `SendOrder` calls
the broker, `SubmitAnswered` or `SubmitFails` ends the call, `SaveSubmitReply` or
`SaveSubmitLost` saves what it means. A broker step or a crash fits between any two.
`reconcile` has one save after one read, so it is one step; its read may return any state the
order ever had, may fail, or may find nothing. `cancel` reaches the broker (`Cancel`), comes back
with a read (`CancelAnswered`) or raises (`CancelFails`), and saves (`SaveCancelReply`). The broker
makes a new order of every placement: only Module M prevents a second one. The simulator, which
returns the existing order instead, is the kinder case. `Correlates` is the identity check of
`_apply_broker_truth`: a read without the adapter's cache carries a hashed tag and is refused, and
so is an order whose quantity was amended at the broker.

Observation times are the positions of an order's published states; equal times are not stale, as in the
code. What time an answer carries is `ObservedAt`, and the two adapters differ: the simulator's answer has
the time its state was published (execution_simulator.py, `set_order_truth`), the live one the clock at
the moment of reading (zerodha.py:257 and :314). A lagging live read therefore looks new and is stored: it can
take the fill, and a status that is not final, back until the next read. A request's `broker` is either,
from `Adapters`.

### ExitMonitor

| Variable | Code |
|---|---|
| `position` | quantity, MANAGED or not, whether a management profile is saved |
| `broker` | the broker context: `status`, `runtime_reconciled` (`current`), and whether a snapshot was ever accepted |
| `rules` | the status of each rule; ARMED counts as ACTIVE, both are evaluated |
| `proposals` | the rows of `exit_proposals` in the order of creation |
| `reviews` | each proposal's latest review, with the Agents' verdict or the User's decision |
| `demanded` | history: a protective or deterministic full exit was raised for the open exposure |

The lock makes an operation one step. An operation with several saves has a second action, ending
in `Dies`, for what a crash in the middle leaves. `ProposeExit` is also the day-end review.
`Reconcile` is a first or newer snapshot, absent positions included (quantity 0);
`ReconcileReplay` is the last snapshot once more; an older one changes nothing and is no step.
`UserDecides` has the code's guard, which is about the review alone.
A second review of a proposal is asked for only after a decision that a crash cut off. The latest is chosen by
`updated_at`, which for an answer is the Agents' own time (positions/review.py:147), so the decision before it may stay
the latest (`Answered`); the second review is then not the one a User can decide.

### EntryAuthorization

| Variable | Code |
|---|---|
| `published` | the brokers: the successive states of each account |
| `positions` | what the positions table holds open at each broker |
| `context`, `market` | the one broker context, with the facts of the snapshot accepted last; the market context's status |
| `profiles`, `changes` | the risk profile's versions (the limit on open positions) and the changes proposed to it |
| `intent` | READY_FOR_RISK, RISK_APPROVED, RISK_BLOCKED or CANCELLED |
| `decisions`, `latest` | the risk decisions on each intent, and the one `latest_risk_decision` returns |
| `ready`, `sent` | execution requests, named by the decision they carry, before and after Module M begins to submit them |

As above, an operation is one step and one ending in `Dies` is its broken half: a decision
saved without its intent, a profile without its confirmed change, positions without their context
(the operation may also raise, which marks the context UNAVAILABLE). The risk token covers more of
an account than its positions (orders, holdings, margin); `Account` keeps the part a limit is about.
The limits on the proposed trade (loss, quantity, exposure) are the choice to BLOCK that `Verdicts`
always leaves. `latest` is chosen between the old and the new decision because the caller may supply
`evaluated_at` and equal times are ordered by a random identifier. An execution request uses the
broker its token names. A request that Module M has begun to submit is `sent`; what happens to it
there, and the reconciliation of one never submitted, are in `ExecutionEngine`. The User's approval
and the evidence for AUTO are further conditions of the deployment; leaving them out allows more
deployments, so the safety properties hold with them too. `Cancel` is the entry monitor's, which asks for no state:
an approved intent, or one whose request exists, can be cancelled too. The gate does not look at the intent, so
a request made before the cancel can still be deployed, as in the code.

### EntryExecution

The module extends `EntryAuthorization` and instantiates `ExecutionEngine` with the requests that entries
can have, one for each decision. It has no state of its own: its variables are those of the two parts.

| Action | Code |
|---|---|
| `RuntimeWorks` | an operation on broker truth, profiles or entries: `EntryAuthorization`'s, when no broker call is in progress (`Free`) |
| `Submit` | `deploy_execution_request` of a READY request: the gate, then the engine's save, in one step (core/manager.py:571) |
| `EngineWorks` | what reaches the engine past the gate: a deploy that is not READY any more, reconcile, cancel, and the rest of a call |
| `BrokerWorks` | the broker's orders and account, at any time, also in the middle of a call |
| `Dies` | a crash between operations, in one of them, or in a call of the engine; it takes the call, the adapter's cache and the freshness of broker truth together |

The lock is the point of the composition: `deploy` holds it from the gate through the broker call to its last save,
so broker truth, the profile and the decisions stand still while an order is about to leave, though the broker's
own state does not. `RuntimeWorksUnlocked`, the same without the lock, is what the mutant of `PermittedWhenItLeaves`
uses. Reconciling or cancelling goes through no gate, which is how a READY request is burned (finding 1).

### ManagementRules

| Variable | Code |
|---|---|
| `quantity`, `profile` | the position's quantity, and its horizon |
| `rules` | the rows of `position_management_rules`: status, armed, watermark |
| `evaluating` | the evaluation in progress, in memory only: its snapshot, the rules left, those that fired |
| `raised` | the rules whose trigger became a reason for an exit |
| `cut` | history: the rules that triggered in an evaluation that was cut short |

`Evaluate` takes the effective facts of a snapshot; `EvaluateRule` is `_evaluate_rule` with its save, for
one rule; `RaiseExit` is `consume_rule_evaluations` for one that fired. The rules are taken in any order. An
evaluation may be cut short at any point, and then the triggers in hand are gone although they are saved:
`RuleRaises` is a rule whose comparison raises (`Raises`: a TIME_EXIT without a zone, a NaN in a parameter or a
snapshot; `Incomparable` stands for either), `EventFails` is `_record_event` raising before or after the exits,
`EvaluationDies` the process dying or a save raising. `Trailing`, `ProfitLock` and `Met` are the code's
functions, with products in place of the decimal quotients, which gives the same comparison exactly.
`InstallPolicy` validates the batch and then saves any part of it; the whole is one of the parts.
`Reconcile` changes the quantity and leaves the rules as they are, as the code does.

### ExitExecution

| Variable | Code |
|---|---|
| `actual`, `position` | the position at the broker, and the quantity in its row |
| `truth` | the broker context: reconciled by this process, by an earlier one, or not |
| `proposals`, `requests` | exit proposals with what they ask for; the execution request of each |
| `undisturbed` | history: the order sent on a true view that nothing has interfered with |

`Prepare` is `from_exit` with `_exit_quantity` (a percentage rounds down, zero is refused); the request
there is already is returned as it is, which is no step. `Gate` is
`_assert_exit_execution_authorization_current`, early returns and all. `Reconcile`, `ReconcileDies`,
`ReconcileReplay`, `ReconcileFails` and `Restart` are the snapshot operations as far as the gate sees
them. `Approve`, `Withdraw` and `Reinstate` let the exit decisions do anything `ExitMonitor` allows,
and `Fill`, `OrderEnds` and `Trade` let the broker and the market do anything.

### LiveWrites

| Variable | Code |
|---|---|
| `mode`, `arming` | the runtime's mode (DOWN when it is not running) and its two flags |
| `held`, `stored`, `tool` | the AUTO record: the runtime's copy, the database's, the script's |
| `requests`, `approvals` | whether each request was sent; its latest approval |
| `now` | the clock approvals expire by |
| `answer` | history: the User's last answer that still stands |
| `revoked` | history: evidence recorded while the runtime was down, AUTO not enabled since |

`Refresh` is `_refresh_execution_context`, the save at the end of every operation: it writes the
runtime's own copy. So every operation that is under the lock has it, `Works` is any other operation, and
the script's actions save the script's copy. A decision is bound to the digest of its evidence.

### EntryPipeline, TradeIntake and EntryWorkflow

| Variable | Code |
|---|---|
| `outcomes`, `episodes`, `recorded` | the tables `intake_outcomes`, `intake_episodes`, `source_observations` |
| `ingest` | the ingestion in progress, in the feeder's process |
| `intents`, `reviews` | the tables `entry_intents`, `entry_reviews` |
| `working` | the operation in progress, in the runtime's process |
| `approved` | history: the intents approved, and not refused since, in their current review |
| `sheet` | the rows as the adapter reads them |
| `saved`, `marked` | the feeder's state file: the fingerprint a row was ingested with, and translated with |
| `feed`, `runs` | the run of the feeder in progress; how many have begun |

`TradeIntake` has one action for each save of `ingest`: the outcome (`Ingest`), the episode
(`OpenFirstEpisode`, `UpdateEpisode`, `SupersedeEpisode` then `OpenNextEpisode`; `KeepEpisode` saves none)
and the observation (`SaveObservation`); `Decide` is candidates/relevance.py. `EntryWorkflow` has
`Evaluate`, `Rearm`, `Cancel` and `SaveState` of the monitor, `RequestReview`, `AskAgents`,
`AgentsAnswer`, `AgentsFail` and `UserDecides` of the review; a second save of the same operation is a
step of its own. `LatestReview` is any review of the intent: the query orders them by `updated_at`, which is the
Agents' own time (entry/review.py:135) or the caller's (:202), so that with a clock that lags the User's decision is
recorded in an older review than the one it answers. `EntryPipeline` adds the run: `StartRun` selects the rows and saves the markers that
only needed a backfill, `IngestRow` and `RowIngested` call intake, `RowEntered` creates the intent from the
cleaned contract (`Translated`), while `EntryExists` compares the contract as it is written, and
`RunAborts` is an exception in one row, `FinishRun` writes the state file. `FeederDies` and `EntryDies`
end either process at any point. The check for an active intent and the save of a new one are one step
because no second feeder runs.

## 3. Runs

| Run | Checks | Bounds |
|---|---|---|
| `engine` | type, four safety properties, refinement of `OrderOutcome`, `EveryOutcomeIsReported` | 1 request to either broker, 2 order ids, quantity 2, 3 states per order |
| `engine_ready_burn` | finding: `ReadyLeavesOnlyBySubmission` fails | 1 request |
| `exit_decisions` | type, four safety properties, `ClosureEndsExits` | 1 protective rule, quantities 0 and 1, 2 proposals |
| `exit_blocked` | finding: `TriggerIsNotBlocked` fails | the same |
| `exit_diverges` | finding: `FullExitsConverge` fails | the same |
| `management_rules` | type, `TriggersAreSpentOnce`, `StopNeverLoosens`, `ArmsBeforeItFires` | 6 rules, positions -1, 0 and 1, 4 snapshots, times 0 and 1 |
| `exit_execution` | type, `ExitOnlyReduces`, `ExitIsSpentOnce` | 2 proposals; full, unit and half exits; positions -2, 0 and 3 |
| `entry_permission` | type, eight safety properties of `EntryExecution` and its permission | 1 broker with 2 account states, 1 symbol, 1 change, 2 profiles, 1 intent, 2 decisions with a request each; 2 order ids, quantity 1, 1 state per order, acknowledged or filled |
| `entry_truth` | finding: `PermissionFollowsBrokerTruth` fails | 2 brokers |
| `entry_dead_end` | finding: `StalePermissionIsRenewable` fails | 1 broker |
| `live_writes` | type, `DecisionMatchesEvidence`, `RevocationHolds`, `RealOrdersAreConsented` | 1 request, 3 pieces of evidence (2 READY), TTL 1, clock 0 to 3 |
| `entry_pipeline` | type, five safety properties, refinement of `EntryOutcome` | 1 row, 3 picks, 7 market snapshots, times 0 to 2, gap 1; 2 observations, episodes, intents, reviews and runs |

Why the bounds are enough. None of them (`Max...`) exists in the code, and every safety property holds
for all of their values by the theorems of section 5; a run shows that the interesting cases happen, and
the mutants of `PROJECT.json` that the properties notice a bug within the bounds.

- Requests share nothing but the process and the adapter, whose calls name one request. Two order ids
  give a duplicate order somewhere to be. Quantity 2 has an empty, a partial and a full fill; three states
  let an order be acknowledged, filled in part or amended, and ended, and let a read lag behind more than
  one of them.
- Two proposals are a partial exit and the full one that supersedes it, or a full exit and that of a
  reopened position; proposals of all three classes are raised without a rule as well, so one rule is
  enough to have TRIGGERED lost or kept.
- The six rules are a trailing stop (50 percent, armed at 3), a profit lock (armed at 2, floor 1), a lock
  whose floor is what arms it (it must be refused), a horizon, a premium condition, and a time without a zone, which
  raises. The snapshots
  climb past the activation, reach a new best, fall to the stop and lack the premium; short positions make
  every comparison turn round.
- Two exits are enough to be sent one after the other; the positions are long, short and closed, of
  different sizes, so that a half is rounded and a full exit goes stale. The proposals are symmetric: no
  definition tells them apart, and the run has no liveness property.
- In `entry_permission` two decisions on an intent are the PASS and the BLOCK, in either order, that could be taken
  for each other, or two PASSes whose two requests could become two orders. Two account states void a permission;
  a change of the profile is confirmed or left half done by a crash. An order is acknowledged or filled at once, and
  keeps that state, as the live adapter reads it (`MaxTruths`, and the constraint `OrdersWorkOrFill`): how orders end and go on is the `engine` run's question.
  Order ids are symmetric: the broker gives them out in any order, no definition tells them apart, and every property
  checked here is a safety property. The run has half a million distinct states; a third account state or profile
  multiplies them, and the theorems hold for any number.
- The two pieces of READY evidence make it visible when a decision meets evidence it was not made for, though
  that evidence would pass too. An approval lasts one tick, so it can be used in time and too late, and renewed.
- The three picks are one to enter, on a contract that is written with its display suffix; the same scan on a
  contract whose entry record raises but at one time; and one to watch only; two runs of the feeder feed the same pick twice, a changed one, or a late one. The seven snapshots are
  one for each way `evaluate` can go. Two intents are an old and a new episode's.

Deadlock is checked in `exit_decisions` and `entry_permission`. The other passing runs turn it off, because
they may be at rest: in `engine`, every order ended and every request final; in the others, every bounded
step used up, such as all requests sent with the clock at its end.

### Fairness

Only two properties need it; the other runs check safety under no fairness at all.

- `ExecutionEngine!FairSpec`: the process finishes a call it began (weak fairness of its own
  steps), and somebody keeps reconciling each request with answers that are current again and
  again (strong fairness). The repository has no scheduler: this is what its operator or a polling
  caller does. Crashes, failed and stale reads may happen any number of times in between.
  Nothing is assumed of the broker.
- `ExitMonitor!FairSpec`: somebody keeps reconciling broker truth and some of those reads
  succeed. Nothing is assumed of rules, Agents or User.

## 4. What the checks found

1. **A request reconciled before it is deployed is never deployed** (`engine_ready_burn`).
   `reconcile` does not ask whether the request was ever submitted. The broker knows no such
   order, the request becomes UNCERTAIN, and `deploy` submits only READY requests. The
   documents say that a failed reconciliation does not erase the durable intent
   (docs/SAFETY_INVARIANTS.md:144).
2. **A protective exit is taken back by the answer to an older question** (`exit_blocked`). A
   strategic full exit is disputed by the Agents; a stop loss promotes it to an approved protective
   exit; the User, asked about the strategic one, answers REJECT; the exit is REJECTED and the rule,
   already TRIGGERED, does not fire again (against docs/TM3_TGT4_ACCEPTANCE.md:17).
3. **A late decision makes a second full exit** (`exit_diverges`). The position closes at the broker
   with a review open, reopens and gets a new full exit; APPROVE on the old review makes the old
   exit active again (against docs/SAFETY_INVARIANTS.md:103 and :148).
4. **A permission outlives a change of broker truth** (`entry_truth`). The gates compare the token of
   the decision with that of the one broker context (core/manager.py:1385), which holds the facts of the
   broker reconciled last. A position known at another broker is counted by the limits, but not
   compared: a PASS that counted fewer positions than are open is still deployed (against
   docs/TM4_TGT1_ACCEPTANCE.md:11).
5. **A stale permission cannot be renewed** (`entry_dead_end`). The gates refuse it and ask for Risk to be
   evaluated again (core/manager.py:474 and :1388), but evaluation takes only READY_FOR_RISK intents
   and rearming only RISK_BLOCKED ones (risk/engine.py:62 and :152): a RISK_APPROVED entry is stuck.

`BurnIsForGood` and `OutdatedIsForGood` say how final findings 1 and 5 are, and that they are safe: such an entry never has an
order, whatever is retried, restarted or cancelled, from the request it has or from another.
`AuthorityHolds` and `OneExitPath` say how far the code does keep these promises: only a User's
late decision breaks them, and no crash, trigger or snapshot does.

Four properties are as strong as the code allows, and no stronger:

- `BrokerTruthNeverRetreats` has the fill only for a broker whose answers carry their state's own time, the simulator. For
  the live adapter it says that the order, the time and an end do not go back; the fill and a status that is not
  final can, until the next read. docs/SAFETY_INVARIANTS.md:146 refuses older observations, by the times they carry.
- `TriggersAreSpentOnce` says that an evaluation that ends loses no trigger. One that is cut short does: the rule is
  TRIGGERED, nothing raises its exit later, and a rule that raises does this in every evaluation and leaves those
  behind it unwatched (positions/rules.py:168).

- `ExitOnlyReduces` is about orders sent on a true view (`TrueView`): no other order outstanding, the row
  equal to the broker's quantity, the side that of the request. The gate compares the request with the row
  only, and not its side (core/manager.py:1392), so two exits in flight, a row that lags, or a position that
  turned round since the request was made can sell more than is held. What the property does say
  is that the request, the gate and the fills are right about the quantity then, through restarts, replays and
  partial fills, until somebody trades outside.
- `RevocationHolds` is about evidence recorded while the runtime is down. While it is up it works on the
  copy it started with and saves that over the script's: the record, and the revocation, are lost
  (core/manager.py:1278; docs/TM4_TGT4_ACCEPTANCE.md:12 has recording changed evidence revoke).

Behaviour the models show and no document promises otherwise, so no run is about it:

- An EXIT_ALL whose position changed after its request was made is refused, with the advice to rebuild the request,
  but the builder returns the same one; later exits coalesce into the approved proposal.
- An exit that the broker rejected cannot be tried again from its proposal (the other side of `ExitIsSpentOnce`).
- A request made before its entry intent was cancelled can still be deployed: the gate asks about the decision, the
  profile and broker truth, not about the intent (core/manager.py:1369). Nothing in src/trademonitor calls that cancel.
- An exit proposal whose review verdict was saved before a crash stays PENDING: no operation takes it further. An
  entry intent in the same place stays AGENT_REVIEW_PENDING until it is cancelled.
- A crash between MANAGED and the management profile leaves a position that cannot be adopted again.
- Rules outlive the exposure: reopened, a position is watched with the old watermark, also on the other side.
- After a crash between superseding an episode and saving the next one, no active episode is left to compare with,
  and an older observation may open the next.
- One row whose entry record raises ends the run before its state file is written: the rows before it are
  ingested again by every later run, and those after it are not reached.

## 5. Proofs

Every safety and action property of every passing run is a theorem, for any values of the constants. `PROJECT.json`
lists the theorems. Each module's constants are assumed only to be well formed (`EngineAssumption`,
`ExitAssumption`, `RulesAssumption`, `ExecutionAssumption`, `LiveAssumption`, `IntakeAssumption`,
`EntryAssumption`, `HandoverAssumption`, `PipelineAssumption`): null values are not members, bounds and prices are numbers, parameters are
of their types. Nothing is assumed finite.

| Module | Theorems | Inductive invariant |
|---|---|---|
| `ExecutionEngineProofs` | `OneOrder`, `DurableExposure`, `FinalIsTrue`, `TruthAdvances`, `ImplementsOutcome` | `EngineInv` |
| `ExitMonitorProofs` | `SafetyNeverWaits`, `RecordedApprovals`, `OnePath`, `AuthorityStands` | `ExitInv` |
| `ManagementRulesProofs` | `TriggersSpentOnce`, `StopsNeverLoosen`, `ArmsFirst` | `RulesInv` |
| `ExitExecutionProofs` | `ExitsReduce`, `SpentOnce` | `SoundOrders` |
| `EntryAuthorizationProofs` | `OneHandover`, `BlockStands`, `LimitKept` | `HandoverInv` |
| `EntryExecutionProofs` | `ImplementsPermission`, `ImplementsEngine`, `OneOrder`, `PassComesFirst`, `PermissionHolds`, `BurnStays`, `OutdatedForGood`, `ImplementsEntryOutcome` | `GateInv` |
| `LiveWritesProofs` | `DecisionsMatchEvidence`, `RevocationsHold`, `RealOrdersConsented` | `LiveInv` |
| `EntryPipelineProofs` | `OneEpisode`, `OneIntent`, `GrantedIsApproved`, `NewestEpisode`, `RememberedRows`, `ImplementsOutcome` | `PipelineInv`, `RunIsOnRecord`, `FilesAreTrue` |

Each component also has its `TypeCorrect`. Why the properties are not inductive, and what is added:

- **Module M.** `AtMostOneOrder` says nothing of a placement still on its way, which would become the second
  order. `ExposureInv` adds that a placement in flight has no order yet, and that a request about to be sent has left
  no trace and is not READY any more. For the truth of what is reported, `HistoryInv` says how an order's published
  states follow each other, `StoredInv` that stored truth is one of them, and two parts cover the reply in hand and an
  order amended at the broker. All actions fall under a few kinds: the broker moves an order or makes one
  (`BrokerStep`), or a request is stored, ended or left alone (`RequestStep`); each kind keeps the invariant once. The
  refinement maps a request to the last state of its one order and to its own final state; a step of the engine
  is then a step of `OrderOutcome` or none (`AbstractStep`).
- **Exit decisions.** `OneExitPath` leaves exits that a User's decision reopened out of account. It is not
  inductive: a crash between the decision and its proposal leaves an exit decided and still pending, and a new review
  makes it undecided again. `PathInv` counts those too. Every action is one of five moves on
  proposals: they end, one is joined, made, reviewed or decided.
- **Management rules.** A trigger is spent once because what an evaluation has left is active (`LeftIsActive`), so
  no rule triggers that already did. A stop only tightens because every
  rule added was valid (`AddedIsValid`); `StopIsApart` is the arithmetic: the stop of a watermark is never at the
  watermark itself unless that is 0.
- **Exit execution.** An undisturbed order is the only one at work and has no more left than the position (`Covered`); a
  request is never sent with less left than its quantity (`ReadyIsWhole`).
- **Entry permission.** A request names the latest decision on its intent, which is RISK_APPROVED, or CANCELLED
  since, and whose last decision is a PASS (`RequestIsBound`); an approved intent's last decision is a PASS (`ApprovedByPass`); and a PASS counted no more than
  the limit of its version allows (`PassWithinItsLimit`). RISK_APPROVED has no way back, nor has CANCELLED: only
  READY_FOR_RISK intents are evaluated, so once a request exists its intent gets no further decision. It is the same fact that
  makes finding 5.
- **Entries and their orders.** The system is shown to implement both of its parts (`ImplementsPermission`,
  `ImplementsEngine`), which carries their theorems over: a crash of the system is a crash of each or leaves it alone, and
  the engine's requests stay within those it knows (`RequestsAreKnown`). What neither part can say alone needs
  `GateInv`: what was handed over has left READY, what the broker has or may still get was handed over, and while
  `call` is a submission the permission it was given holds. One order per entry is then the permission's "handed over once"
  and the engine's "one order per request" together. An entry is shown to follow `OrderOutcome` as a request does,
  because at most one of its requests ever shows anything (`OneRequestShows`), so each abstract step of that request is the same
  step of its entry. `ExecutionEngineProofs` is instantiated as `P` for its theorems; the lemmas `Same...` say that its
  engine is the one the system is built from (`M`).
- **Real orders.** All three copies of the AUTO record are consistent, and after a revocation none of those that can
  still be saved is enabled (`RevocationIsEverywhere`); an APPROVED approval is the User's answer with its time.
- **Entries.** An operation in progress knows the state its intent was left in, and its review is the newest one
  (`OperationIsSound`); what is judged has a review. While an ingestion is between two episodes, no active one
  exists (`OpeningIsClear`). A run's rows behind it are on record (`RunIsOnRecord`), so the file it saves is true
  (`FilesAreTrue`). The refinement reduces every step to a legal move of one intent (`Legal`) or a creation.

TLC checked each invariant on the run's instance before it was proved. Only proved: `EntryHasOneOutcome`, the refinement of
`ImplementsEntryOutcome` in `EntryExecutionProofs`, since TLC takes many times as long with it as the rest of
`entry_permission` takes. Only model-checked: the two liveness
properties `EveryOutcomeIsReported` and `ClosureEndsExits`, since the provers handle neither fairness nor ENABLED, and
the five findings, which are counterexamples.

## 6. Plan

The modules planned at first are written, checked and proved: `ExecutionEngine`, `ExitMonitor`,
`EntryAuthorization`, `ExitExecution`, `LiveWrites`, the entry pipeline and `ManagementRules`; so is `EntryExecution`, which
composes the entry permission with Module M. What would add most
next:

1. Several positions and brokers under one `reconcile_broker_truth`, with the order of the saves over the
   positions of a snapshot (`ExitMonitor` has one position, `EntryAuthorization` counts the others).
2. Two feeders, or a feeder and an import, at the same time: the checks before a save are in another process's
   way (`_entry_already_exists`, `create_intent`).
3. `ExitExecution` composed with Module M as entries are, with the exits of one position as the engine's requests.
4. Should the gate of an exit come to compare the side, or to count what is outstanding, `TrueView` loses the
   conjunct.

## 7. Not modelled

- Parsing of sheets, commands and prices, console output, settings, attention wording and audit events, database
  schema and record encoding: no property is about them. The event bus and the attention queue are written and shown;
  no component reads them back to decide. The stubs have no behaviour.
- The feeder's `--force`, `--limit` and dry run, and the older copy of the script
  (`__feed_google_top_picks.py`). How a row is parsed is a fact of the row.
- More than one feeder, or more than one runtime, on the same database: the code is written for one of each.
- The exposure that an intake result reports: no code decides from it. Prices and P&L outside the management rules;
  limits on the trade itself, which are a free choice to BLOCK.
- Instrument resolution of the live adapter and the mock brokers, which are stand-ins for tests.
- The order in which the rules of one evaluation are taken is left open, which allows more than the code does.
- How a position without a profile could be recovered: the code has no operation for it.
