# Verification of Circuit Framework

TLA+ modules for the program under `src/`: a framework in which language-model
agents analyse a market, argue, propose a trade, and a deterministic gate decides
on it; approved crypto trades are simulated in a local paper portfolio.  Each
module is translated from the code it names (`PROJECT.json`, "map"), checked by
TLC on small instances, and the modules named `...Proofs` hold theorems that
TLAPS proves for all values of the constants.

## 1. The system

| Component | State it keeps | Operations | Talks to | Status |
|---|---|---|---|---|
| Paper trading (`paper/execution.py`, `portfolio.py`, `database.py`) | SQLite tables: portfolio cash, positions, strategy runs, orders, fills, equity snapshots | `execute`, `mark_to_market`, `record_equity_snapshot` | called by the risk gate; several processes share the file | modelled |
| Paper performance, leaderboard (`paper/performance.py`, CLI) | none | sums over fills, drawdown along the equity curve | reads the tables | partly |
| Risk engine (`risk/engine.py`, `sizing.py`) | none | `evaluate_risk` | called by the gate | modelled |
| Schemas (`crypto/schemas.py`) | none | validators of proposals and snapshots | agents, gate | not modelled |
| Agent graph (`graph/setup.py`, `conditional_logic.py`, `propagation.py`, `agents/`) | the graph's channels: messages, reports, two debates, plans | one node per agent, routers | tools, language models | modelled |
| Crypto nodes, snapshot store (`graph/crypto_nodes.py`, `crypto/snapshot_store.py`) | the current snapshot of the process | build, read, judge, paper fill | risk engine, paper trading | modelled |
| Run orchestration (`graph/trading_graph.py`, `checkpointer.py`) | process configuration, checkpoints on disk | `propagate`, `_run_graph` | everything | partly |
| Strategy profiles (`strategies/loader.py`, `dataflows/config.py`) | process configuration | overlay, restore | orchestration, gate | partly |
| Decision memory (`agents/utils/memory.py`, `crypto_memory.py`) | one markdown file | store, resolve, rotate, read lessons | orchestration, price data | modelled |
| Command line (`cli/`) | status display, wall times | the loop over the stream | agent graph | partly |
| Hyperliquid client (`dataflows/hyperliquid.py`) | TTL cache | fetch with retries, build a snapshot | HTTP API | partly |
| Vendor routing, price data (`dataflows/interface.py`, `stockstats_utils.py`) | one price file per symbol and day | fallback over vendors, load of prices | vendors; parallel threads and processes share the files | modelled |
| Data vendors (`dataflows/y_finance.py`, `alpha_vantage*.py`, `fred.py`, `polymarket.py`, ...) | none | one request and a formatter each | third parties | partly: what a routed one makes of each kind of answer |
| LLM clients, reports | none | one call or one file each | third parties | not modelled: pure I/O and layout |

**What makes each hard, and what makes it right**

- *Paper trading.* `execute` opens a connection of its own for each query outside
  its main transaction: what it read can be stale when it is used, and any step can
  be its last.  Right means: no id is filled twice; runs, orders, fills and equity
  snapshots tell the same story; position, profit and cash follow from the fills.
- *Risk engine.* A chain of clamps, scalars and roundings whose order matters.  Right
  means: it approves exactly what its rules allow, the loss at the stop stays within
  the budget, nothing is ever added, and more risk never gives a larger trade.
- *Agent graph.* Turns and ends of loops are decided by counters, message shapes and
  the first word of a text.  Right means: every selection of analysts goes through in
  order, debates are balanced, analysts do not see each other's messages, and a run
  ends and takes the steps its setup predicts.
- *Run orchestration, crypto nodes, profiles.* A snapshot and a configuration of the
  process, checkpoints and a log on disk outlive a run, which may fail or crash
  anywhere and is then repeated.  Right means: what belongs to one run does not reach
  another.
- *Decision memory.* Entries wait in a file for prices, through rewrites, rotation and
  crashes.  Right means: each is scored once, with its own prices, as soon as it can
  be, and the oldest outcome is forgotten first.
- *Market data.* Time passes while a snapshot is put together from cached, retried and
  missing answers; threads and processes load one price file without a lock, and may die
  writing it; a chain of vendors turns what went wrong into text, an error or the next
  vendor.  Right means: no part of a snapshot is older than the cache allows, and its age
  says so; what is served is what the vendor had; a verdict such as "no data" is warranted
  by what the vendors said; every call returns.
- *Performance.* Its figures come from three tables that were written at different times.
  Right means: they add up with the fills.
- *Display.* It is not told which node ran and infers it from the state.  Right means:
  what it shows as completed is, and stays so.

The hazards behind these properties are listed at their lines in `PROJECT.json`.

## 2. Modules

```
PaperLedger  <--implements--  PaperExecution  <--  PaperPerformance  <--  MCPaperExecution
                              PaperPerformance  <--  PaperExecutionProofs  -->  DataLemmas
RiskEngine   <--  MCRiskEngine, RiskEngineProofs
AgentGraph   <--  RunDisplay  <--  MCRunDisplay, AgentGraphProofs
CryptoRun    <--  MCCryptoRun, CryptoRunProofs
DecisionLog  <--implements--  MemoryLog  <--  MemoryLogProofs  -->  DataLemmas
PriceCache   <--  VendorRouting  <--  MarketData  -->  HyperliquidClient
MarketData   <--  MCMarketData, MarketDataProofs
VendorRouting  <--  VendorRoutingProofs  <--  MarketDataProofs  -->  DataLemmas
```

**PaperExecution** models one strategy's portfolio and any number of processes that
call `execute`.  `exec[p]` is the call of process `p`.  Each query outside the main
transaction is an action (`OpenPortfolio`, `ReadCash`, `ReadRows`, `Size`), each row
that `mark_to_market` writes back is one (`WriteMark`), and the block between `BEGIN
IMMEDIATE` and `COMMIT` is one (`CommitDuplicate`, `CommitInsufficient`,
`CommitFill`).  `RecordRefusal` is `_rejected`.  `Abort` is a kill or an exception at
any step.  Sizes are whole lots and prices chosen so that no division has a remainder:
the accounting identities are then exact.  Left out: stops and targets of a row, JSON
columns, timestamps.

**PaperLedger** is what the store promises: an id is decided once, a trade is written
together with its decision, and cash moves only with a trade.  `PaperExecution`
implements it (`ImplementsLedger`: a verdict per id from the `runs` table, the ids of
the fills, and the cash).

**PaperPerformance** adds `compute_performance` as operators over the tables that
`PaperExecution` writes: fees, profit, return, drawdown.  Ratios are given by their
numerators or in whole percents.

**RiskEngine** has the rules in the code's order, sizes as exact fractions until the
engine rounds.  `Wait` lets time pass between the snapshot and the decision.
Reason texts and the list of adjustments are left out.

**AgentGraph** has one action per kind of node and one operator per router.  `setup`
is the selection of analysts, the numbers of rounds, and the step limit; `turn` says
whose part of the graph it is; texts are empty or not, a message is known by who left
it.  A node may raise (`Fail`), and LangGraph stops a run at the limit (`OutOfSteps`).

**RunDisplay** extends it with `MessageBuffer`, the wall-time tracker and the loop of
`run_analysis`.  The loop is finished with a chunk before the next node runs, so node
and chunk are one step.  Prompts, layout and saved files are left out.

**CryptoRun** is a process that calls `propagate` again and again: the nodes and calls
that read or write something shared, in order, with failures (`Fail`, `ResolveFails`:
with the `finally` clause or without) and crashes (`Crash`).  A snapshot is known by
its market and when it was taken; reports and messages by the snapshots they rest on.
What the model of the language says is a choice.  LangGraph is external: an input
given to a thread with a checkpoint starts the graph over on the saved channels, only
an input of `None` goes on (`src/tests/test_checkpoint_resume.py:74`); the checkpoint
is saved together with the node's result.

**MemoryLog** has the file as a set of entries whose ids are their places (appends come
last and rewrites keep the order), and each read and write of it by a run as a step: `LoadPending`, `Rewrite`, `WriteTmp`, `Replace`, `ReadContext`,
`CheckPending`, `StoreDecision`.  An outcome is known by the price bars it was
computed from, so that the properties can ask which.  `Stop` is an exception or a
crash at any step.  An append is one write; torn appends are left out.

**DecisionLog** is what the log promises, with no files, runs or steps in between: a journal
of numbered decisions.  A decision is recorded unless one for its topic and date waits;
the decisions of a topic that results have come for get them in one instant, each once; one
is forgotten only when the cap is reached and for newer ones.  `MemoryLog` implements it
(`ImplementsJournal`: the journal is what the entries of the file decide, by their places).

**HyperliquidClient** is `get_market_snapshot`: one source after another, each from the
cache (`Reuse`) or by a request with its retries (`Request`, `Respond`, `Retry`,
`GiveUp`), then the assembly (`Return`).  Time passes during requests and
between them, the venue publishes when it likes, and every source can answer in each form
that the code tells apart: a context without a funding rate, a book without levels or
without a time or both, fundings without a time, malformed bodies, a null (cached, but
taken for a miss) and bodies that raise an error of another class and end the call.  An
answer is known by when the venue had published it; for candles and fundings, whose window
ends at the time of the snapshot, no later than that, so that only the bodies without a
window can be found in the cache again.  Prices, indicators, warnings and the
snapshot id are left out.

**PriceCache** is `load_ohlcv` for one symbol: `today`, the file of each day as a set of
lines, the steps of each thread (`Lookup`, `Downloaded`, `Throttled`, `DownloadFails`,
`Open`, `WriteLine`, `Check`), `Die` at any of them, `Midnight`.  Row numbers stand for the rows.

**VendorRouting** puts `route_to_vendor` on top: the chain of a method and a configuration,
what each vendor's function makes of what happens on the wire (`YahooPrices`,
`AlphaVantage...`, `FredRequest`, `Polymarket`, ...), and what the router makes of that:
an answer, the next vendor, a sentinel text or an exception.  Indicators from Yahoo and the
verified snapshot go through `PriceCache`.  The vendors are external; their wrappers are
translated.

**MarketData** composes the two paths to the data.  `paths` says which of them the run takes: the
analysts of a stock run ask the vendors only, those of a crypto run the client and, for news, the
vendors (`catalyst_analyst.py:16`).  The paths share no state.

## 3. Runs

| Run | Instance | Question and answer |
|---|---|---|
| `paper_concurrent` | two processes, one instrument, two ids, eight kinds of calls each: both sides, too large, too small, no price, no mid, rejected, NO_TRADE | `AtMostOneFill`, `JournalAgrees` and `ImplementsLedger` hold under every interleaving, kill and retry. |
| `paper_desks` | one desk makes three orders of either side, two sizes, two prices; a second process trades another instrument of the same portfolio | `NetPosition`, `ProfitIdentity` and `ReportAddsUp` hold through adds, partial and exact closes, flips and reopened rows, with one leverage. |
| `paper_leverage` | one desk, two leverages | violated: the row keeps one leverage, so the margin released is not the margin reserved. |
| `paper_lost_update` | as `paper_concurrent` | violated: marking writes back rows it read before another process's fill. |
| `risk_engine` | 27,018 pairs of a proposal and a snapshot: stops on both sides, near and far; targets of every quality; size, leverage, confidence, loss at the stop, reward ratio, spread, volatility and age of the data on both sides of their limits and exactly at them; stale snapshots | all five properties hold. |
| `crypto_run` | two markets, two dates, requests with and without a profile, three runs, one move of the market | six properties about snapshots, profiles, threads and entries hold through failures and crashes. |
| `crypto_run_reports` | two runs | violated: a repeated run starts over on the messages of the failed attempt, and analysts report on two snapshots. |
| `crypto_run_baseline` | two runs | violated: a run without a profile is judged with what an earlier run left in the configuration. |
| `agent_graph` | 75 setups: one, two, four and five analysts, 0 to 3 rounds, limits that fit exactly, with room, and not | nine properties of the graph and of its display, among them `Terminates`. |
| `memory_log` | one process, a crypto and a stock ticker, two days of three hours, three decisions, a cap of two outcomes | five properties hold through crashes and repeated runs, and so does `ImplementsJournal`. |
| `memory_hindsight` | as `memory_log` | violated: a decision of the afternoon is scored with candles of the morning. |
| `market_data` | crypto: one candle interval, two snapshots in three ticks, two attempts; stock: two threads, two tool calls, six methods, two configurations, three price histories, midnight | seven properties hold: parts within the TTL, ages that say so, files that are served whole and only then, verdicts that are warranted, and every call returns. |

**Why the bounds are enough.**  Each is at least the smallest number at which the case
in question occurs.
A conflict in the paper store is between what one process has read and what another
then writes, and two processes show it.  Three orders reach a row
that was opened, closed and reopened, or flipped and added to.  Three runs give a run
that failed, one that follows it on another market, and the first repeated.  In
`memory_log`, three decisions and a cap of two are the first numbers at which rotation
drops something, and two days at which two entries of one ticker are pending together.
In `market_data` a cache entry lives two of three ticks, so that it is hit and
expires, and the second snapshot can be made of parts of the first; two threads and two
calls show every conflict over a file, and a day more than the first lets a file
outlive its day.  The instance takes one path at a time, which keeps it small: they share no
state, and that a run with both keeps what each promises is proved (`PathsKeepTheirPromises`).
`agent_graph` has setups in which the limit is met one step early, exactly and never.
The bounds by name: `MaxLots`; `MaxWait`; `MaxRuns`, `MaxMoves`; `stepLimit` (the code's
own); `DayLength`, `MaxHours`, `MaxDecisions`; `MaxClock`,
`MaxCalls`; `FirstDay`, `MaxDay`, `Histories`, `MaxToolCalls`, `PathSets`.  What they cut off is a longer sequence
of the same calls.

**Fairness.**  Two specifications state it.  `RunDisplay`: weak fairness of its next step.  The graph
is run by one synchronous loop in one thread, which goes on as long as it can; that a
call of a model or a tool returns or raises is assumed of the clients.  With it,
`Terminates` holds because of the step limit alone: its mutant without the limit loops
for ever between an analyst and its tools.  `MarketData!DataSpec`: weak fairness of the
client's next step, and of each thread's.  Requests carry timeouts, the client is
synchronous, and the threads of the tool node are scheduled by the system; no fairness is
given to starting a call, to the clock, to midnight or to crashes.  The calls are bounded,
so `EveryCallReturns` can say that there are always again times without one.  Nothing schedules further runs, processes
or retries, so the other modules promise nothing will happen.

**Deadlock** is not checked where the system may stop: a finished graph, a judged trade,
the last run within the bounds.  The paper and memory runs check it.

## 4. Proofs

All are for every value of the constants under the assumption stated with them in the
module (`ExecutionAssumption`, `RiskAssumption`, `SetupAssumption`, `RunAssumption`, `LogAssumption`,
`ClientAssumption`, `PriceCacheAssumption`, `RoutingAssumption`, `PathAssumption`: types, finite sets, and the ranges
the configuration allows).  A hypothesis beyond these is named in the statement of the theorem and
discussed below.

- **PaperExecutionProofs.**  `TypeCorrect`; `NoDoubleFill`; `JournalsAgree`; `Refinement`;
  `PositionsAddUp`; `ProfitsAddUp`; `MoneyIsConserved`; `RoundingIsSmall`; `RoundingIsBounded`;
  `LittleGoesAstray`; `MoneyIsNearlyConserved`; of `PaperPerformance`, `DrawdownIsRight`
  and `ReportsAddUp`.  `AtMostOneFill` is not inductive: a fill could be
  appended for an id that has one already.  The invariant adds `FillsHaveRuns`: an id with a
  fill is a decided id.  The commit looks for a run under the write lock, so it cannot fill a
  decided id.  `JournalAgrees` is inductive given the types.  The refinement has a
  step of the ledger, or none, for each action; only `OpenPortfolio`, `RecordRefusal` and
  the commits are steps of the ledger.
  The accounts need two hypotheses, since `paper_lost_update` shows that they fail without the
  first and an average that is rounded spoils them without the second: `OneDeskPerInstrument`
  (no two processes trade one instrument; `PositionsAddUp`, `ProfitsAddUp`) and `ExactAverages` (an
  average entry price has no remainder; `ProfitsAddUp`).  The instance of `paper_desks` satisfies
  both.  `MarkInv` says that a row read for marking has still the side, quantity, entry and leverage
  of the table when it is written back; then each fill changes the sum over the
  fills and the row by the same amount, case by case of `NewRow`.
  Money needs two more: `OneLeverage` (one leverage for an instrument; `paper_leverage` shows the failure
  without it) and `ExactMargins` (the margins of an order have no remainder).  The code
  calculates with `Decimal`, whose remainders lie 28 digits down; the model has integers.  `paper_desks`
  satisfies these too: `Order` always has leverage 2, and TLC has checked on its states that no average
  or margin of a commit has a remainder.  `RowInv` says
  that a flat row holds nothing and that a row has the leverage of an order for its instrument;
  `MarginsAddUp`, the arithmetic of the four branches, that what an order takes from cash is what
  its row gains in margin less what it realizes; `MoneyInv` sums this over rows and
  fills, and `CurveInv` carries it to the last equity snapshot.
  Exactness is a hypothesis only of the exact identities.  Without `ExactAverages` and
  `ExactMargins`, where an average entry price and a margin are rounded down, what is proved is
  by how much the books can be off.  `Drift(i)` is the difference that `ProfitIdentity` says is
  0: `StepDrift` finds that only an add moves it, by the remainder of its average (`Lost`), which
  is less than one price unit for each lot then held (`RoundingIsSmall`).  `MoneyDrift` is that of
  `MarginConservation`: a fill moves it by the quotients of its margins (`Astray`), at most one unit
  for each lot then held (`LittleGoesAstray`).  No other step moves either.  So after n
  fills they are off by at most n units for each lot traded (`RoundingIsBounded`,
  `MoneyIsNearlyConserved`), with the hypotheses on desks and leverages still.  The unit is that of the
  model's integers; the code's `Decimal` rounds at 28 significant digits and to the nearest,
  which errs by far less, but the theorems are about whole units rounded down.
  The drawdown needs none of them:
  `SeenUntil` says what the one pass over the curve holds after m rows, of all pairs of rows.
- **RiskEngineProofs.**  `TypeCorrect`; `LossBounded`; `NothingAdded`; `ApprovalIsExact`;
  `RiskierIsNotLarger`; `RiskierAtHand`.
  The engine is one action, so the invariant `ReviewInv` says that a decision is what the
  rules make of the proposal and the snapshot; the work is in the lemmas on the
  arithmetic: `StopSizedBounds` and `ApprovedSizeBounds` (clamp, stop size and scalars in
  their order never exceed the size asked for, the limit, or the budget but for half a
  rounding step), `NearestSpeaksForAll` (judging the nearest target judges them all) and
  `SizedUnlessNothing`.  More risk is no larger trade because each stage keeps an order
  of fractions, compared by cross-multiplication (`ApprovedSizeOrder`), and rounding half up
  is monotone (`HalfUpMonotone`); a wider stop is farther (`WiderIsFarther`) and is given less
  (`WiderStopSizesLess`).  `RiskierInAnyRespect` states it for every widening, lower confidence and
  wilder snapshot, and implies `RiskierNeverLarger`, which names the finite choices of the runs.
- **AgentGraphProofs.**  Of the graph: `TypeCorrect`; `DebateIsBalanced`; `RiskIsBalanced`;
  `AnalystsSeeTheirOwn`; `StepsAreAccountedFor`, each for any selection, rounds and limit.
  The invariants tie the place in the graph to the counters: `DebateInv` (who has spoken
  how often when whose turn it is), `RiskInv`, `MessageInv` (whose messages the shared list
  can hold at each node), `StepInv` (steps taken are those of the parts passed, the
  arguments made and two for each round of tools).
  Of the display: `CompletedAgentsAreDone`; `DisplayAndTrackerAgree`; `CompletedStays`.  `ReportInv`
  says which reports are written at each node (they only grow), `StageInv` how far what
  the debates have produced tells the stage, and `DisplayInv` what each agent is shown as
  after the chunk of each node.  One lemma for each part of the loop (`AnalystPart`,
  `ResearchPart`, `TraderPart`, `RiskPart`, `DecisionPart`) says what it makes of that.
- **CryptoRunProofs.**  `TypeCorrect`; `OwnSnapshotJudged`; `ProfileGoverns`; `OneEntryPending`;
  `ThreadsAreOwn`; `NoCheckpointLeft`, for any markets, dates, profiles and numbers of runs.
  The snapshot of a run passes through the store of the process and the channel of the
  thread, which both outlive it.  `SnapshotInv` says that from the builder on they
  hold the same snapshot, or neither does.  `ProfileInv` says what the configuration is between the
  overlay and its restoration, `ThreadInv` that what a thread has saved is its own.
- **MemoryLogProofs.**  `TypeCorrect`, for any number of processes.  `OutcomesAreOwn`;
  `NothingDueIsLeft`; `LessonsAreNewest`; `PendingStays`; `Refinement` under `OneProcess`, for any
  tickers, cap and number of decisions: with two processes TLC violates each of
  them (they rewrite the file without a lock).  `SoleInv` says that what a run holds between two
  steps is still what the log gives (`AtWork`), that the log has at most one pending entry for a key, so that
  an update reaches the entry it was computed for (`UpdateIsResolve`), and that what is scored is
  scored well.  `NewestFacts` is the fact on which rotation and lessons rest: if one
  of the entries is not among the last n, there are n, all newer.
  For the refinement of `DecisionLog`, the rename of the temporary file is a settlement
  (`ReplaceIsSettle`, with `RewriteFacts`: what a rewrite does to each entry, and what it can
  drop), an append is a record (`StoreIsRecord`), and the journal does not see the other steps.
- **MarketDataProofs**.  Of the client: `TypeCorrect`; `PartsAreFresh`; `VerdictOnAge`; `SnapshotsRunOut`.
  Of both paths: `DataTyped`; `PathsKeepTheirPromises`; `CallsRunOut`.
  A finished snapshot says too little about the call that made it, so `Inv` adds `CallInv`:
  a source is still to be asked, or its part is settled, that is, read at most one
  lifetime before the present; and `CacheInv`: what the cache holds expires within its lifetime.  The
  snapshot follows when no source is left.  For `VerdictOnAge`, which speaks of the parts and not of
  `source_timestamps`, `StampFacts` says what a time was stamped on: the parts the venue dated and
  those that pass for new, and no other.  These are proved of the initial states and the steps, without
  the fairness, so that they hold of a run that takes both paths (`PathsByThemselves`: what such a run does to
  the state of one path is a behaviour of that path).
  `ClientLeft` counts the steps a call has left at most: an attempt is used up by each request, and a
  source that is done, however it went, takes its attempts with it.
- **VendorRoutingProofs**, of `StockSpec`.  `StockTyped` and `PricesTyped`; `FramesFit`;
  `OnlyCrashesPoison`; `VerdictsAreWarranted`, for chains of any length.  While two threads write a file it may lack what one of them has truncated away.
  `FileInv` therefore names who repairs it: the thread that opened it last still has all it wrote in the
  file or to write (`Backs`).  `RouteInv` says that only a thread that asks yfinance for
  prices loads them, so that the router cannot drop a load that is writing.
  A verdict is warranted both ways: only the last vendor asked has answered, or every vendor of the chain
  was asked in vain, and then the verdict is no data just when one of them had none.
  It speaks of a call that has ended; `Noted` says what the loop holds of the vendors it has
  asked in vain: each that had no data is noted, so is an error other than a rate limit, and
  vendors of optional data report none (`ReplyFacts`, over every vendor and method), without which an
  optional call could end with neither and raise.
  `ToolCallsRunOut`: `StepsLeft` counts the vendors of the chain that have not answered, two loads for each
  (Yahoo's indicators try again) and the attempts and lines of the present load; the thread's own steps
  lower it, and no other thread's changes it.  `KeptFacts` shows that a chain
  holds only vendors that have the method, from the defining equation of its recursive function (`KeptExists`).
- **DataLemmas.**  A set of naturals has a least element, a bounded one of integers a
  greatest, from the library's well-founded order; and sums: what `SumFunction` of the
  community modules gives for a function with one value changed or added.
  The induction theorems of the library cannot be instantiated, so these go by the least counterexample.

**Only model-checked.**  Liveness (`Terminates`, `EveryCallReturns`), which is out of the prover's
reach.  Of `EveryCallReturns` the part that is not about fairness is proved (`CallsRunOut`): no call
can go on for ever on steps of its own; that its thread takes them, whenever it has some left, is
what fairness and ENABLED add.  `MarginConservation` is checked by
`paper_leverage`, where it fails; with one leverage it is proved (`MoneyIsConserved`), and
`ReportsAddUp` carries it to the report.

## 5. Where code and documents part

Runs show five (the findings of `PROJECT.json`).  Met on the way, without a run:

- Paper trading: no fallback to the mark when the mid is missing, which
  `CIRCUIT_FRAMEWORK_SPEC.md:557` asks for (`execution.py:86`); the deduplication key is the
  snapshot id the language model repeated (`execution.py:77`, spec :559); marks are at mid
  (:116, spec :561); the realized column of an equity snapshot is summed on a connection that
  cannot see the fill being committed (`portfolio.py:146`; nothing reads it back); the entry band of a proposal is never compared with the fill; a second
  fill for one run is possible after a crash between the fill and the end of the run, since
  the repeated run has a new snapshot id.
- Performance: the equity of a snapshot is cash and unrealized profit, without the margin
  that open positions hold (`portfolio.py:149`): the return that ranks strategies is low by
  that margin while the fallback without a curve (`performance.py:59`) is not, and a
  drawdown counts margin as loss.
- Hyperliquid client: the context of an asset is stamped with the time it was read, so one
  that answers is never stale; a snapshot no source answered for is not stale either, while
  the builder's own failure payload says it is (`crypto_nodes.py:46`), and neither is one
  whose only answer is fundings without a time (`hyperliquid.py:532`); a funding time that
  is not a number raises an error the snapshot does not catch (:416); an undated book puts
  the present time into the snapshot id, which the docstring calls deterministic
  (`hyperliquid.py:129`); a malformed body is kept for the TTL; requests with a window leave
  entries in the cache that nothing finds again; the client keeps the limits of the first
  configuration (`crypto_interface.py:34`).
- Price files: a file left empty, by a crash or for a moment by another thread that has
  opened it, makes `load_ohlcv` raise, all day in the first case, although the comment
  (`stockstats_utils.py:156`) calls an empty cache a miss; a file that was cut off after a
  row is served; gaps are filled from later days before the cut at the trade date; the bar
  of today is kept as it was when first loaded.
- Vendors: the indicators of Alpha Vantage swallow its rate limit, which `errors.py:10` wants
  to reach the router; bodies with an error are returned as data; Yahoo's rate limit is no
  `VendorRateLimitError`; after failing loads Yahoo's indicators answer with blank days.
- Gate: without a snapshot, after a failed fetch, the staleness and volatility rules do not
  apply and a trade can be approved (`engine.py:138`, spec :444); a profile's
  `minimum_confidence` reaches the configuration and no rule reads it; the age of the
  snapshot and the age its data had are compared with the limit one by one and never added.
- Orchestration: venue and instrument type are not part of the run signature
  (`trading_graph.py:473`, spec :365); `propagate(strategy_profile="")` is signed with the
  graph's profile; the comment "Streamed chunks are per-node deltas" does not hold for the
  stream mode in use.
- Memory: the log keeps the trader's proposal, not the gate's decision, so a rejected LONG is
  scored as a position; an entry resolved late can be dropped by the rewrite that resolves it
  (`_apply_rotation` goes by place in the file); two processes lose entries, since the log is
  rewritten without a lock and the `.tmp` file has one name.

## 6. Plan

1. *Proofs.*  The price cache as a specification that the
   client with one process implements.
2. *Memory.*  The arithmetic of `evaluate_crypto_decision` (outcome, excursions, stop and
   target hits) as operators against a reference.

**Not modelled.**  Model clients (adapters to third-party packages without state), reports and
prompts (layout), Reddit and StockTwits (fetchers that no chain reaches), the validators of the
schemas (the gate makes a proposal they refuse a NO_TRADE; `RiskEngine` is checked and
proved with proposals they would refuse too, and rests on them in one thing: a directional
proposal without an entry band or a stop, which `crypto/schemas.py:254` refuses and `engine.py:105`
would reject, is not among its proposals), the YAML
of the profiles, the state log file.
