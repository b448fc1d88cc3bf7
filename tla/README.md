# Verification of VS_READER_ENGINE_V2

TLA+ models, TLC runs and TLAPS proofs for the trading engine in `src/SYSTEM`:
a Python process (`engine/`) that reads market files, decides and writes command
files, and a MetaTrader 4 expert advisor (`mql4/`, "the EA") that writes the market
files and carries the commands out. The two share nothing but files.

Contents: [inventory](#1-inventory) · [plan](#2-plan) · [modules](#3-modules-and-the-code) ·
[runs](#4-runs) · [fairness](#5-fairness) · [proofs](#6-proofs) ·
[disagreements](#7-disagreements-between-code-and-documents) · [limits](#8-what-is-not-modelled)

## 1. Inventory

An *instance* is an (account, symbol, magic) triple. One Python process serves all
instances, one after the other; each chart of the terminal runs one EA for one instance.

| Component | State | Operations | Hard behaviour | What makes it correct |
|---|---|---|---|---|
| execution engine (`engine/execution`) | the order at work, the control and ack files | build an order, write the control file, poll for the ack, time out | the ack file holds one ack and may hold an old one; the EA may run a command after it timed out | the recorded verdict is one the EA reached for this command |
| EA control handling (`mql4/…/SYSTEM_Execution.mqh`, `SYSTEM_Control.mqh`, `SYSTEM_EA.mq4`) | `g_last_command_id`, the open orders | read the command on a tick, execute, write the ack | restart between execution and ack; a failed ack write | a command runs a bounded number of times |
| EA exports (`SYSTEM_Export/Status/Universe/IO.mqh`) | market, sensor, universe and status files | rewrite or append on every M1 bar | status is older than what the EA did since; several EAs write one account's files | readers see whole files |
| startup recovery (`core/recovery.py`) | — | reload state, take up an unconfirmed command, read the status, rebuild the spread model | a kill at every point of the cycle before | every command is either settled or found again |
| position reconciliation (`core/position_sync.py`) | position fields of `InstanceState` | adopt, reduce or clear the believed position | status is stale; closes that nobody commanded | belief converges to what the terminal holds |
| instance state and spread state (`state/`) | one JSON file each, and a copy in memory | load, change, save | reloaded in every cycle; failure between change and save | never rolled back, never silently reset |
| atomic file writing (`core/atomic_io.py`) | `.tmp` beside the file | write `.tmp`, replace; refuse to read while a `.tmp` exists | a kill between the two | no half-written file is read, and the file becomes readable again |
| trade journal, rotation (`journal/`) | journals, history files by day | append intent, settle, rotate | kill between history write and pruning; an append that is cut | no line lost, none left for ever |
| decision and error journals (`journal/`) | one text each | append, rotate | a line cut in the middle spoils the next one | a cut costs at most the line after it |
| market analysis (`analysis/`, `decision/filters/`, `decision/candidate.py`) | — (pure, over the whole market file) | swings, bias, trend, pressure, behaviour, context, impact, filters, weighted scores | the file only grows; ties, flat bars, clamps | the two sides are judged alike |
| trade management (`risk/trade_management.py`) | bar count, partial-close flag | breakeven, trailing, partial close, time stop | computed from a believed position, carried out later | the stop never risks more than the first |
| decision engine (`decision/`) | — (pure) | candidates, comparison, WAIT and BLOCK | boundary values | only valid levels are proposed |
| risk engine (`risk/`) | `day_start_balance`, `peak_equity` | limits, levels, size | decides on a status of any age; metrics unsaved after a failed cycle | losses stay within what the limits leave room for |
| AI layer (`ai_decision_layer.py`) | — | ask, parse, apply the answer | no answer, wrong answer, skipped question | a required consent is there |
| spread model (`normalizer/spread_model.py`, `decision/filters/spread_filter.py`) | history of samples, saved record | update, judge, save, restore | the record holds less than the history | a spread is judged by the history (it is not: see section 7) |
| cycle, orchestrator, lifecycle (`core/cycle.py`, `orchestrator.py`, `lifecycle.py`) | instances in memory, shutdown flag | startup, pass, isolation, discovery, shutdown | one instance fails, a signal in the middle, an error in the error path | others go on; a stop saves everything and ends |
| loaders, validators, cache, retries (`loader/`, `validator/`, `core/cache.py`, `core/retry.py`) | hash files, the cache of a pass | read, validate, retry | files that change while read; a cache that is stale | data in a decision is whole and fresh |
| monitoring, alerts, performance | metrics files | observe each cycle | its failure ends the pass | no effect on trading |
| dashboard, tools, configuration, logging | — | read-only or start-up only | none modelled | — |

Interactions: control file (Python → EA), ack file (EA → Python), status file (EA of an
account → Python, all instances of the account), market, sensor and universe files (EA →
Python), state, journal and history files (Python → itself after a restart). Inside the
process the calls are sequential; concurrency is between Python, each EA, the
terminal's own stop orders and the operator.

`PROJECT.json` lists the components with their sources and status, and every hazard at
its line with the properties that would show it going wrong.

## 2. Plan

| Step | Modules | State |
|---|---|---|
| 1 | `OrderLedger` (abstract), `ExecutionChannel`, `MCExecutionChannel`, `ExecutionChannelProofs` | done; refinement model-checked and proved |
| 2 | `InstanceFiles`, `MCInstanceFiles`, `InstanceFilesProofs` | done, proved |
| 3 | `TradeManagement`, `PositionLife` (abstract), `ManagedPosition`, `ManagedPositionProofs` | done; refinement model-checked and proved |
| 4 | `TradeDecision`, `RiskControl`, `MCRiskControl`, `MCDailyLoss`, `RiskControlProofs` | done, proved |
| 5 | `SpreadModel`, `Runtime`, `RuntimeProofs` | done, safety proved |
| 6 | `DataFeed`, `DataFeedProofs` | done, safety proved |
| 7 | `JournalText`, `JournalTextProofs` | done, proved |
| 8 | `MarketAnalysis`, `MarketFile`, `MCMarketFile`, `MarketFileProofs` | done, proved |
| 9 | the values of sensor and universe files | open |

Composition: `TradeDecision` is extended by `RiskControl` and by `MarketAnalysis`, that by
`MarketFile`; `TradeManagement` is extended by `ManagedPosition`, `SpreadModel` by `Runtime`; `ExecutionChannel` instantiates
`OrderLedger` and `ManagedPosition` instantiates `PositionLife` for their
refinements. `ManagedPosition` and `RiskControl` take from
`ExecutionChannel` what it shows of the channel (late acks, lost acks) in fewer steps.

Worth proving, in this order: types, who produced an ack, how often a command runs, the
refinement of the ledger; no lost lines, no rolled-back state; the stop's risk and the life of a
position; the loss bound, the consent of the AI layer and when a second position is opened; what a cut append
costs; the rows of a market file and the symmetry of what is made of them; the runtime and the data feed.

## 3. Modules and the code

`PROJECT.json` maps each definition to its lines. The correspondence in outline:

**OrderLedger** — what the trade journal promises: a command is issued once, executed by
the terminal any number of times, gets an intent line and at most one verdict, which is
one the terminal really reached or `TIMEOUT`.

**ExecutionChannel** — one instance, its Python process and its EA. `pc` follows the
process through recovery (`recoverControl … recoverSave`), the cycle (`BeginCycle`,
`SkipExecution`, `Publish`, `LogIntent`), the wait (`AckArrives`, `StaleAckRaises`,
`AckTimesOut`) and what follows it (`RecordAck`, `RecordTimeout`, `Archive`, `SaveState`). The EA
is `EaPickUp`, one action per command kind, `EaWriteAck`, `EaExport`. Faults: `Crash`, `Shutdown`,
`CycleRaises`, `EaRestart`, `EaAckWriteFails`, `ExternalClose`. `disk` is the saved state,
`mem` the one in the cycle. A journal entry `INTENT` is the line with the `REJECTED`
placeholder that `log_order_intent` writes; `TIMEOUT` is `FAILED` with reason `ACK_TIMEOUT`.
`repeats`, a history variable, counts the
executions of commands that had run before, all commands together. `Proposals` (what a cycle may order) assumes `max_open_positions_per_instance = 1`. Command
ids are fresh, so the republish guard never refuses; recovery's own timeout branch is never taken.
Abstracted: side, prices, levels, half-written files (those are in `InstanceFiles`). The terminal keeps the
ticket for the rest of a partly closed position (see [limits](#8-what-is-not-modelled)). A stop
of the process and a kill share the bound `MaxCrashes`; `MaxFaults` bounds all faults together,
so that one run may have any two of them.

**InstanceFiles** — the files Python keeps: per instance a state and a trade journal, per
day a history file. Each atomic write is two steps, the `.tmp` and the replacement;
`Kill` and `StepFails` may come between. A state is a version number (0 no file, 1 a blank
state), a journal a set of lines. Steps of a cycle that may log, save or return early are
kept; what they decide is free. `MaxFaults` bounds kills and errors together. One account; an orderly stop is taken between passes (the
general case is in `Runtime`).

**TradeManagement** — the pure part: `TrailingDue`, `BreakevenDue`, `PartialCloseDue`,
`TimeStopDue` and the order in which `evaluate_trade_management` tries them. Ratios are
percentages, prices whole points.

**PositionLife** — what an instance promises about the position it has taken: side and levels stay, the volume
only shrinks, the stop is never behind the first one. `ManagedPosition` has one position and every message, and shows
that management keeps the promise whatever is late or lost. That is what `RiskControl` takes `CycleMovesStop`
and `CycleCloses` from.

**ManagedPosition** — one position from the ack of its OPEN to its end: the terminal, the
status file, the believed and the saved position, the order on its way. Every command,
`NONE` included, is acked, so an old ack in the file is common. `trade_management.enabled`
is assumed. `MaxBarCount` caps all counts. The bars of a position are counted by cycles, as in the code; M1 bars
appear as exports only.

**JournalText** — the text of the three journals of an instance. A text is its readable lines,
whether some line does not parse, and a last line without its newline. `Appends` writes a
line, `CutShort` writes a part of it, nothing, or all but the newline, and ends the cycle or
the process; `Merged` is what becomes of a line written after a cut one. Around it are the
cycle, recovery and the terminal as far as they decide which line is written when: the two
orders of line and belief in `LogExternalClose` and `LogPartialClose`, the line of every
published command (`LogIntent`, `Settle`), the decision line of every cycle and the error
lines. `SettleRaises`: one line that does not parse is enough for
`update_trade_journal_ack` to raise. `Rotate` takes the lines before any cutoff in one step,
since its two are in `InstanceFiles`. A cut inside a multi-byte character, which makes the whole file
unreadable, is left out.

**MarketAnalysis** — the pure functions from bars to candidates: `SwingHigh`, `SwingLow`,
`Bias`, `Trend`, `MomentumScore`, `BuyPressure`, `BehaviorScore`, `ContextQuality`, `ImpactScore`, the volatility
and news filters and `WeightedScore`; `MarketOf` is what `TradeDecision` gets of
them. A score 1.0 is `Unit`. `Quotient` rounds alike on both sides of zero, as a quotient of floats does.
Bars are whole points; the absorption, rejection, acceleration, break-of-structure and label fields, which
only the journal reads, are left out.

**MarketFile** — the EA that appends a row per closed bar (`ExportMarketBar`; `ExportAll` also
remembers the bar, `ExportCutShort` does not, `EaRestart` forgets it), the clocks that date
the row (`RowTime`), and what the validator (`Accepted`) and the normalizer (`BarsOf`) make of the file. The file
never loses a row and every cycle reads all of it. `ExactAssumption` asks of `Unit`, a scale of the model and of nothing
in the code, that the shares of a bar's range and their means over a file are whole numbers. For any
finite set of bars and any bounds there is such a `Unit`. With it the model has no rounding where
the code has the last digits of a float: `SidesMirror` says what the formulas do, and not what becomes of two scores that
differ by less than a float can show.

**TradeDecision** — the pure chain from a market to an order: candidates, comparison,
limits, precheck, AI answer, levels, size. Scores and filters come from `MarketAnalysis` or are
free in `RiskControl`; the AI's answer is free.

**RiskControl** — an instance on its account: price moves, fills, stops; a cycle reads the status,
reconciles its metrics, decides and the EA answers in one step. The terminal has a position per
ticket. Cycles run at any time and the EA exports at any time, so an OPEN may be judged by a status that is
older than the last OPEN, or than any number of closes: then `Reconciled` lets the status clear the belief, and a second
position is opened. `CycleEnds` is the cycle that opens nothing; one that saves nothing, or whose status is
invalid, changes nothing. An ack that is late or lost leaves the saved belief without the position. A fill is at the
present price, which need not be the last close of the market file that the levels come from; stops and
targets are filled at their level (no gaps), and there is one price (no spread). The size is computed with `PointValue`, the fixed
`units_per_lot * point` of `risk/position_sizing.py`; what a point really makes or loses in the currency of the account
is `PointWorth`, another constant, since the code converts nothing. Management's commands are free within what
`PositionLife` promises. The other instances of the account are in `Export`: balance and
equity of a status contain a share of theirs (`OthersShares`). Nothing else of theirs is read, since positions are
listed by symbol and magic number. `since` and `lastOpen.history` record what a bound on the loss needs of the
status that an OPEN is judged by: that share, how far the positions stood above their first stops, how many OPENs it has judged, and
what prices moved before they were filled. `MCDailyLoss` adds a calendar.

**SpreadModel** — `update_spread_model`, the record that `SpreadState` keeps of it, what
`spread_snapshot_from_record` makes of the record, and the filter, compared exactly in
whole numbers.

**Runtime** — startup, recovery, passes and shutdown over several instances: `Startup`,
`RecoverInstance`, `BeginPass` (discovery and registration), the cycle as far as others
notice it (`CycleSkipped`, `CycleJudgesSpread`, `CycleSaves`, `DecisionFails`, `CycleRaises`),
`ErrorLogged`, `Observed`, `BeginShutdown`, `Persist`. `RequestShutdown` may come at any
point after startup. `Obstruction` is whatever ends discovery or registration (a directory that is no account, a state
that cannot be read) and is taken away again: under it `StartupFails` ends the process, and `RegistrationFails` ends
the pass before its first cycle, with those instances registered that come before a new one. `InstanceState` is saved beside the spread record and is in the other
modules. `sensor` is the last `LookbackBars` rows of the file. An instance that is
discovered while the process runs is registered without recovery, as in the code.

**DataFeed** — the EAs of one account (`OnTick`, then `OpenTmp`, `CloseTmp`, `Replace` for
each file, `ExportFails`, `WriteFails`, `EaStops`) and the reader: a pass (`BeginPass`, `NextInstance`) that
per file looks into the cache (`LoadCached`) or checks, opens, closes and looks at the
modification time (`CheckFile`, `Retry`, `LoadFails`, `OpenFile`, `CloseFile`, `LoadRead`), and
a cycle that refuses invalid or stale data or decides (`SkipCycle`, `Decide`). Two kinds of file
stand for four: the market file, of one EA, for market and sensor, and the status file, of all EAs, for
status and universe. A text is the bar it was exported at. Windows decides who may move
what: a `.tmp` is opened for one EA alone, and a file that Python has open is not replaced. `WriteFails` is a write, flush or close
that reports an error (`SYSTEM_IO.mqh:105`): the EA goes on, and its `.tmp` stays, half or whole.
The second look that monitoring takes at the market file has no effect on a decision and is left out.

The `MC…` modules add what a run needs beyond the model: `MCExecutionChannel`, `MCInstanceFiles`
and `MCDailyLoss` state claims of the documents that the code does not keep;
`MCRiskControl` says what the others may lose;
`MCMarketFile` names the bars a chart may show and the weights of the configuration.
Definitions marked *Faulty* are plausible bugs; each property is known to fail when the
definition after it is replaced by the faulty one.

## 4. Runs

| Run | Bounds | Shows |
|---|---|---|
| `channel` | 2 commands, 2 tickets of 2 lots; any two faults out of kills and stops, an exception, an EA restart, a failed ack write; 2 external closes | the verdict recorded is the EA's for that command, tickets likewise; all repeats of commands together are no more than EA restarts and failed acks; the EA only picks up the newest command, and none that timed out; recovery finds what a kill left; state and journal agree while nothing is cut short; refinement of `OrderLedger`; the saved belief ends at what the terminal holds |
| `files` | 2 instances, 2 lines, 4 days, 1 kill or error, 1 stop | no line lost, oldest out first, copies bounded by the faults, no state rolled back, expired lines leave unless a leftover `.tmp` is in the way |
| `management` | BUY at 3, stop 1, target 5, 2 lots, time stop after 3 counts | refinement of `PositionLife`: no part comes back, the stop never risks more than the first; the time stop closes in the end |
| `risk_control` | balance 12, prices 2 and 3, 3 OPENs, a point worth twice what the size is computed with; another instance loses 4 and wins them back, any number of times | the loss is contained in what the limits leave room for, AI consulted; a second position is opened beside another only under a status older than an OPEN, or with a belief in another ticket |
| `runtime` | 3 instances, lookback 3, threshold 1.0, 2 sensor rows, 1 kill, 1 unhandled error, 1 stop; discovery obstructed and freed any number of times | a clean exit has saved everything, each instance is visited again and again, a request to stop ends the process |
| `data_feed` | 2 EAs that have exported bar 1 and export bar 2, 1 stop of an EA or failed write, 1 retry, stale after 1 bar | a private file is always whole, the shared one unless an EA was stopped or failed while it wrote; a decision rests on whole texts of its own pass; each instance decides on the last bar |
| `journal` | 4 lines, 2 commands, 2 tickets of 2 lots, 2 kills or cut appends | a cut append costs at most the line after it, a settled line is never lost; the end of a position is told of once, but for one line more or less per fault |
| `market` | 4 bars of 3 shapes, 1 repeat, 2 clock distances, lookback 2 | rows per bar; a chart upside down is judged upside down |
| `claim_wait_ends`, `claim_one_position`, `claim_restart`, `claim_daily_loss` | as small as the counterexample allows | [disagreements](#7-disagreements-between-code-and-documents) |

Why the bounds are enough to be interesting. Two commands give an old and a new ack; two
tickets a stale status that shows a position while the next is opened; two faults one in the cycle and
one in the recovery after it, or one of the process and one of the EA. Two lines and four days give two rotations into the same
history file. Three instances give one between the others, and one that is discovered late, before or after them. Three OPENs
are two that are open together and one that is judged by what they left. With lookback 3 and threshold 1.0 a
history of equal samples is long enough to judge and short enough to be replaced.
Two EAs and two instances are the fewest that share a file and a cache.
Four bars have a first, a last, one in between, and one more after a trend was lost; their
three shapes rise, fall and stand still. `Unit` = 144000 satisfies `ExactAssumption` for
ranges of 2 and 4 and up to 5 rows. Two faults in
`journal` are a cut append and the kill or cut of the line written over it.
For the properties that are proved, the bounds no longer matter.

Where a property is limited: `StateAndJournalAgree` speaks of histories without
a kill or exception; `NeverPicksUpSettled` of those without an EA restart (an EA that restarts
reads the control file again, and a kill or exception may have kept it from being archived). `ClosesTold`
allows two untold closes per fault: the belief of a cycle that raised, and what that cycle's successor
makes of it. In `runtime` cycles fail as often as they like, while errors
outside every handler are bounded. `EveryInstanceVisited` asks that discovery is obstructed only for a time: while a bad
directory or state file stays, the code visits nobody. `LossContained` bounds the loss by the OPENs that one status file judged,
and nothing bounds their number but the time until the next export.

## 5. Fairness

- `ExecutionChannel`: weak fairness of `PythonStep` (the loop runs every `cycle_interval_ms` and is
  started again), `EaStep` (`OnTick`), `EaExport` (every M1 bar). None of faults. The subscripts are `pc`, `ea` and
  `status`: each of these steps changes its own, but for an export that writes the same status again, which
  changes nothing at all, so this is fairness over all variables.
- `InstanceFiles`, `Runtime`: weak fairness of the process, which runs and is started
  again; none of the EAs, the clock or the operator.
- `DataFeed`: weak fairness of the reader and of each EA, and strong fairness of moving the
  status file: two EAs can spoil each other's shared `.tmp` again and again, but a write
  takes far less time than there is between ticks. Without it `LastBarDecided` fails.
- `ManagedPosition`: weak fairness of Python, the EA and new bars. `TimeStopCloses` further needs that the AI
  layer does not veto for ever and that timeouts and refusals end, which is why they
  have bounds (`MaxHeld`, `MaxTimeouts`, `MaxRefusals`).

## 6. Proofs

`tlapm` checks the proof modules' theorems for every value of the constants that the
named assumptions allow; TLC evaluates the assumptions in the runs.

| Module | Inductive invariant | Theorems |
|---|---|---|
| `ExecutionChannelProofs` | `ChannelInv` = types, orders on the way were issued, acks and what the EA remembers were produced, the journal is in step with `pc`, a budget in which every lost memory of the EA pays for one repeat of one command; and given that, four parts on recovery, tickets, agreement and the EA's memory | `TypeCorrect`, `AcksAreGenuine`, `BoundedExecution`, `NewestCommandOnly`, `NothingPending`, `TicketsAreGenuine`, `StateMatchesJournal`, `SettledStaysSettled`, `JournalIsLedger` |
| `InstanceFilesProofs` | `FilesInv` = types, lines numbered in the order of time, only expired lines in history files, what is pruned is archived already, memory not behind the saved state; and given that, every copy of a line is paid for by a kill or an error | `FilesTypeCorrect`, `NoLineLost`, `OldestFirst`, `NoRollBack`, `FewCopies` |
| `ManagedPositionProofs` | every copy of the stop — terminal, status, belief, order, ack — is within the initial one; and the types | `ManagementTypes`, `RiskNeverGrows`, `PositionLivesAsPromised` |
| `RuntimeProofs` | `RuntimeInv` = types with every history a sequence, a loop over the instances ends with its queue empty, the instances a shutdown has passed are saved, exit code 0 only at its end; and given that, `ModelFresh` = the instances a pass has still to judge have a spread history made of their record | `RuntimeTypes`, `ExitIsClean`, `LastSpreadIsAllThatCounts` |
| `DataFeedProofs` | `FeedInv` = types, whoever has a `.tmp` open is its writer, where half a text can be, what the reader holds at each stage was in its file since the pass began | `FeedTypes`, `FilesWhole`, `DecisionsOfThisPass` |
| `JournalTextProofs` | `JournalInv` = types, every line that a text holds was written, a last line without newline is the work of the last cut append of its journal, the pending intent can be found; and given that, `TellInv` = tickets are handed out in order, belief, saved state and command file agree on the position as far as the point in the cycle lets them, and two counts: external-close lines still owed, dropped tickets still owed, each paid for by a fault | `JournalTypes`, `LinesSurvive`, `ClosesAreTold` |
| `MarketFileProofs` | `FileInv` = types, each row dated within its bar, a budget of rows that a repeat raises, the order of the rows | `FileTypes`, `RowsCounted`, `OldBarsBindForEver`, `SidesAreMirrored` |
| `RiskControlProofs` | `RiskInv` = types, open positions lie between stop and target and their stop is the first one or beyond, unused tickets are flat, a status newer than every OPEN shows a position if there is one, consent, and two bounds on the floor (what is left when every position ends at its first stop): from the equity of the status file, and from the peak of the last OPEN | `AccountTypes`, `LossIsContained`, `AiIsConsulted`, `SecondPositionHasReason`, `FirstBalanceForEver`, `DailyLimitCountsFromTheStart` |

Why the invariants are needed: `ExecutionBound` adds up the repeats of all commands, so that one restart may not
pay for two of them. Only two commands can ever be repeated, the one the EA holds
and the newest, and only if it has run and is not remembered (`MayRepeat`); that there is never more than one of
them to pay for needs that nothing newer than what the EA holds has run. `AckProvenance` is not inductive, since the ack file
written now decides the verdict recorded later, so every place a verdict passes through
must be covered; `LinesKept` needs that a line is archived before it is pruned; `StateAndJournalAgree` that a line
in progress agrees with no saved verdict;
`NoOpenPastDailyLoss` is refuted by `claim_daily_loss`; what the code does instead is proved: the first balance
stays the one that is compared with (`FirstBalanceForEver`), so the limit holds since the first status;
`LossContained` follows from `FloorHolds`: the equity is never below the floor. The floor falls at OPENs only, by one risk
each, and every OPEN since an export is judged by the same equity; so `FloorSince` counts the OPENs of a status file
and starts anew with the next one, where `stake` is what the floor lies below the equity, and `others` the share that the
status shows and the instance does not have. The risk rules compare that equity with the peak at the OPEN, which makes `FloorHolds` of
`FloorSince`. Nothing is assumed of how many positions are open, of the age of a status, or of the worth of a point but that it does
not change; `OpensBesideAnother` needs `NewestShown`, and says when a second position is opened after all;
`WholeFiles` needs that a half text in the shared `.tmp` has a writer, a stop or a failed write behind it;
`CleanExitSaves` speaks of the end of a shutdown, so the instances saved so far must be known.
`ClosesTold` counts what is written, and a ticket is dropped several steps after the fault that
makes it possible: the line of a close is cut, the ack stays in the control file, the process
restarts, recovery applies the ack, and only then the saved state forgets the ticket. `TellInv`
therefore charges a ticket from the moment when the command file, the saved state or an
unreadable journal can first make recovery drop it (`AtRisk`), and a line from the moment when
it is due (`Due`). TLC checked `TellInv` on the instance of `journal` before it was proved.

Two theorems are no properties of the project and no run checks them, since they say what the code does against its
documents ([disagreements](#7-disagreements-between-code-and-documents)): `OldBarsBindForEver` and `LastSpreadIsAllThatCounts`.

`LastSpreadDecides` says exactly which spread the filter refuses. It rests on what the two folds of
`SpreadModel` are for a history of n - 1 samples c and a last one x = c + d (`FlatMoments`): the deviation is
(n - 1)d and the variance (n - 1)d^2. A fall lies below the mean and is accepted (`FallAccepted`); a rise
is refused, however small it is, if and only if 10000(n - 1) exceeds the threshold squared, which is what
`Judges` says (`RiseVerdict`). The
folds are defined by recursion over sets of places. The induction is by a least counterexample
(`Induction`, from `NatLessThanWellFounded` and `WFMin`): the set of numbers for which the claim
holds is written down, so no operator has to be passed to a theorem; `SumsExist` builds the
recursive function, which `CHOOSE` then denotes (`FlatTotal`, `FlatSquares`).

`SidesMirror` is proved one score at a time. Upside down, bias, trend and the sign of the momentum
turn around (`BiasTurns`, `TrendTurns`, `MomentumTurns`), the two swings change places (`SwingsTurn`), and the buy
pressure p of the file becomes `Unit` - p (`PressureTurns`): bar by bar because the clamp is
symmetric, in the mean because `ExactAssumption` leaves nothing to round. So in the four components that differ between the
sides each side scores what the other scored (`DecidingTurn`), and in behaviour, impact and
context, which may change with the universe, both sides score the same. Hence the two BUY scores
together are the two SELL scores together (`WeightedTurns`), and the decision itself turns around,
an undecided one included (`OnePreferred`, `DecisionTurns`). The folds of pressures
and of weights are sums over a finite set: `SumsExist` builds the sum from `Induction`, and
`SetInduction`, again by a least counterexample, carries a balance or a divisor from the parts to the sum.

Model-checked only: liveness (`BeliefConverges`, `OldLinesLeave`, `TimeStopCloses`,
`EveryInstanceVisited`, `ShutdownEnds`, `LastBarDecided`), which the proof system does not reach.

## 7. Disagreements between code and documents

Shown by a run (details and quotations in `PROJECT.json`, "findings"):

1. `claim_wait_ends`: the poll for an ack catches the builtin `SystemError` and not the
   project's, so an old ack ends the wait with an exception (`execution/engine.py:269`).
2. `claim_one_position`: a status older than an OPEN clears the belief and the next cycle
   opens again (`core/position_sync.py:87`).
3. `claim_restart`: a kill inside a save leaves a `.tmp` that stops every later startup
   (`core/atomic_io.py:129`).
4. `claim_daily_loss`: `day_start_balance` is set once, so the daily limit is a limit since the
   first start (`core/position_sync.py:75`).

Met while modelling and not given a run:

- Every pass replaces the spread history by copies of its last sample, so a high spread is blocked
  for one cycle and accepted in the next (`core/orchestrator.py:77`); SYSTEM_SPECIFICATION.md:2087, :2755 and :2769 have it
  judged by the historical dispersion. `LastSpreadIsAllThatCounts` proves that only the last spread matters.
- Trailing is never due while the file and the configuration stay: the trailing level and the initial stop are
  both the swing of the whole file with `analysis.stop_loss_buffer` (`core/cycle.py:169`, `analysis/structure.py:32`);
  SYSTEM_SPECIFICATION.md:1677 has the last swing, IMPLEMENTATION_PLAN.md:1139 and TRADING_BEHAVIOR_AUDIT.md:474 describe trailing as
  working. `OldBarsBindForEver` proves it.
- Analysis reads the whole file where SYSTEM_SPECIFICATION.md:870 and :1620 speak of `lookback_bars`
  (`analysis/structure.py:32`, `analysis/momentum.py:74`); only volatility and spread use it. A trend that the first bars broke never comes back (`OldBarsBindForEver`).
- A trend of a strength below one half votes against its own direction (`decision/candidate.py:56`).
- Context, behaviour and impact add the same to both sides; their weights never decide between them
  (`decision/candidate.py:76`).
- After a line of the trade journal was cut, every settlement raises until rotation, and the cycle is not
  saved: closes are logged again in each cycle, and positions may be opened one after another
  (`journal/trade_journal.py:188`; PROTOCOL.md:94).
- A partial close whose append fails is never told of, because the belief is reduced first
  (`core/position_sync.py:101`; SYSTEM_SPECIFICATION.md:2185).
- Recovery confirms a CLOSE whose intent line was never written (`core/recovery.py:218`).
- Recovery puts an ack into the state and leaves the journal line an intent
  (`core/recovery.py:218`; PROTOCOL.md:94).
- An EA that restarts executes the command in the control file again
  (`SYSTEM_EA.mq4:13`; SYSTEM_SPECIFICATION.md:1241). `ExecutionBound` counts it.
- A lost position is logged as closed externally also when our own CLOSE closed it and
  the ack was missed (`core/position_sync.py:88`).
- Adoption clears `partial_close_applied`, so a partial close may be repeated
  (`state/instance_state.py:81`). A status that is older than an acked partial close is enough: it shows the full
  volume, which is adopted, and the next partial close closes what is left.
- The size of a trade is computed with 100000 units per lot and no conversion to the currency of the account
  (`risk/position_sizing.py:38`, `risk/engine.py:25`, `core/cycle.py:243`), so the risk of a trade is
  `max_risk_per_trade_percent` only where a point happens to be worth that. `LossContained` has both values.
- After a partial close MetaTrader gives the rest of the position a new ticket, while the EA acks the old one
  (`SYSTEM_Execution.mqh:290`) and Python keeps it (`state/instance_state.py`): the next status lists
  another ticket, the belief ends with an external-close line, and a later cycle adopts the rest as a new position.
- A journal that cannot be read ends the rotation of the later ones of its account
  (`journal/rotation.py:141`).
- Adopting a status position takes over its stop, so trailing may lower a stop that an
  unacknowledged MODIFY had raised; the initial stop is still kept (`core/position_sync.py:140`).
- The time stop counts cycles, many to a bar, and not M1 bars, so it closes too soon (`core/cycle.py:155`;
  SYSTEM_SPECIFICATION.md:2071). Only that it closes in the end is checked (`TimeStopCloses`).
- The open-position count of an instance is 0 or 1, so a limit above 1 never blocks
  (`risk/rules.py:36`).
- A stop of 0 or below is not rejected (`risk/sl_tp.py`); `Price` in `RiskControl` keeps away from it.
- An EA that is stopped between opening and closing the shared `.tmp` leaves half a text, and another one
  that has closed its own text and not yet moved it moves the half one (`SYSTEM_IO.mqh:85`).
  So does an EA whose write, flush or close fails (`SYSTEM_IO.mqh:105`).
  `WholeFiles` allows exactly these cases; the validators refuse the text.
- `should_reload` compares the cached text with its own hash, so it never finds a change
  (`core/cache.py:37`). No decision is affected, as each pass has a new cache.
- Staleness is measured at the start of the pass and only for market and sensor
  (`core/cycle.py:738`); a status of any age is accepted.
- A repeated export may append the same bar under another UTC time, because the shift of the clock is
  computed each time (`SYSTEM_Export.mqh:45`); the market validator then refuses the file for good. `RowsPerBar` counts such rows.
- A directory under `clients` whose name is not an account id ends every pass, for all instances
  (`core/lifecycle.py:108`; `RegistrationFails`); `MonitoringState` and `PerformanceState` are new in every pass, so
  error counts never exceed 1 (`core/orchestrator.py:152`).

## 8. What is not modelled

Configuration, logging, the dashboard and the command-line tools: they have no state that
trading depends on, or run outside the system. The values in sensor, status and universe files beyond
what the modules name, and number formatting: a number is written as it is. Market snapshots, monitoring figures and
performance figures, which nothing reads back. A bound on what several
instances lose together on one account: the repository states none, and `LossContained` bounds what one of them
adds to the losses of the others.
A cut inside a multi-byte character of a journal.
The new ticket that MetaTrader gives to the rest of a partly closed position: `ExecutionChannel`, `JournalText`,
`ManagedPosition` and `RiskControl` keep the ticket, as the EA and Python assume; what the code makes of a new one
is an external close and an adoption, both of which the models have, and is told in section 7. Price gaps, the spread
between bid and ask in a fill, swaps and commissions.
