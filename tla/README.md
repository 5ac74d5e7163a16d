# A formal model of the trading research system

TLA+ modules, TLC configurations and machine-checked proofs about the historical
research system in `src/src/trading_bot`: the event-driven backtest simulator
with its charges, accounts, strategies and report, the trading calendar and the
providers of market data, the import of historical candles, the store of derived
features, and the audit of backtests in PostgreSQL.
Paths below are relative to `src/src/trading_bot/`.

## 1. The system

A deployment is one PostgreSQL database and command-line programs that run
against it, several at once if their users start several. Nothing is sent
between programs: they meet in the database only. Inside one program
everything that matters is a single thread.

```
 provider --> import_history --> ingestion ---> market_bars, ingestion_runs,
                                                system_events (identities)
                                                     |
                    generate --> features/service <--+-- snapshots (data/query)
                                     |               |
                                     v               |
                            feature_sets/values      |
                                     |               |
   backtesting/run --> service --> inputs <----------+
                          |          |
                          |        Simulation <--> StrategyRuntime <--> strategy
                          v
                  backtest_runs and its result tables --> get_result
```

### Inventory

| Component | State | Operations | What is hard about it |
|---|---|---|---|
| Simulation engine (`backtesting/engine.py`, `events.py`, `decisions.py`) | orders, fills, events, equity points, used references, the candle at hand | run, new_order, complete, transition, evaluate_strategy, record_equity | the order of things at one instant; orders changed in the middle of the loop that visits them; partial fills; the forced exit |
| Event clock (`backtesting/clock.py`) | sorted ticks | timeline | ties |
| Orders, execution, slippage (`orders.py`, `execution.py`, `slippage.py`, `config.py`) | order records | reference price, adverse price | which price a gap gives |
| Charges (`costs.py`) | cumulative turnover of an order | incremental charge of a part | caps, minima and roundings must not make a part cheaper than nothing |
| Accounts (`accounting.py`, `results.py`) | cash, positions, basis, realized result, trades, peak | apply, mark | residual basis; the two tests of cash |
| Strategy runtime (`strategies/runtime.py`, `contracts.py`) | references used | evaluate | refuses what a strategy gets wrong, and the run with it |
| Baseline strategy (`strategies/baseline.py`) | counter of references, cycle, entry, range, protected holding, armed | evaluate | its picture of its orders is one candle old; its memory outlives the session |
| Registry (`strategies/registry.py`) | – | construct | – |
| Ingestion (`data/ingestion.py`, `quality.py`, `normalize.py`, `contracts.py`) | audit row, counters, findings, candles | ingest | concurrent imports, partial failure, lost answers, crashes |
| Queries (`data/query.py`, `snapshot.py`, `identity.py`) | – | get_snapshot, get_bars, identity | two queries, one view |
| Feature engine (`features/engine.py`, `numerics.py`, `price.py`, `volume.py`, `registry.py`) | – | generate, segment | gaps, warm-up, causality |
| Feature store (`features/repository.py`, `service.py`, `generate.py`) | feature sets and values | save, get_features, get_manifest | two writers of one key; whole sets only |
| Backtest inputs (`backtesting/inputs.py`) | – | load_inputs | separate transactions while imports go on |
| Backtest audit (`backtesting/service.py`, `repository.py`) | run rows and five result tables | start, save, fail, get_result | lost answers; results read in six statements |
| Metrics, reports (`metrics.py`, `report.py`) | the equity curve | performance | division by zero, a peak and a daily series over sessions |
| Calendar (`data/calendar.py`) | the policy | provenance, sessions, expected_bars, next_bar | short and special sessions, half-open ranges, unknown days |
| Providers (`data/providers/`) | Yahoo's prepared request, rows and evidence | prepare, fetch_bars, semantics_manifest | seams of chunks, rows and evidence that outlive their request |
| API, settings, logging, domain, schema, command lines, scripts | – | – | – |

`PROJECT.json` lists the same parts with their status, and every hazard at the
line where it bites, with the property that would catch it or the reason why
there is none.

What makes each part correct:

* *engine*: nothing fills before it could have been known; a candle's volume
  and the account's cash are never used twice; conflicting exits never both
  fill, and the unfavourable one wins; from the cutoff on there is exactly one
  order per holding and it sells all of it; every order ends with its session;
  what has ended stays as it is;
* *charges and accounts*: charges of parts are never negative and add up; cash
  and results are explained by the fills, to the last unit;
* *runtime and baseline*: whatever the market does to its orders, the strategy
  protects exactly what it holds, buys once, and says nothing the runtime refuses;
* *ingestion*: candles are written once, each import appears whole or not at
  all, its report tells the truth about both the provider and the store, and
  no failure keeps others out;
* *calendar and providers*: a range is accepted when all of it is known, its
  candles cover the hours of trading and do not depend on how it is cut; a fetch
  hands on all the vendor has in the range; nothing unverified is imported;
* *report*: drawdown, daily results and trades agree with the curve and the ledger;
* *features*: a stored set is whole, computed from an unbroken run of earlier
  candles, and never used when the candles say otherwise by now;
* *backtest audit*: what a reader is given is whole and stands.

## 2. Modules

| Module | Models | Lines of code it stands for |
|---|---|---|
| `Orders` | order records, types, statuses, reference and adverse prices | `orders.py`, `execution.py`, `slippage.py` |
| `Costs` (extends `Orders`) | charges in integers | `costs.py` |
| `Portfolio` (extends `Costs`) | `Portfolio.apply`, positions, trades | `accounting.py` |
| `Simulation` (extends `Portfolio`) | the event loop | `engine.py`, `clock.py`, `runtime.py` |
| `Performance` (extends `Simulation`) | equity curve, peak, report | `accounting.py` (mark), `metrics.py` |
| `IntradayBook` | abstract: what a backtest promises about its book | – |
| `Baseline` (extends `Simulation`) | the baseline strategy in the loop | `strategies/baseline.py` |
| `Calendar` | policy, authority, sessions, expected candles | `data/calendar.py` |
| `Groww` | one fetch in chunks | `data/providers/groww.py`, `groww_semantics.py` |
| `Yahoo` (extends `Calendar`) | prepared rows, and the imports that use them | `data/providers/yahoo.py`, `scripts/pilot_yahoo.py` |
| `Sources` (extends `Groww`, `Yahoo`) | a deployment's calendar and one of the two providers | – |
| `Ingestion` | concurrent imports | `data/ingestion.py`, `quality.py`, `normalize.py` |
| `BacktestAudit` | runs, results and their readers | `backtesting/service.py`, `repository.py` |
| `AuditedRun` | abstract: what the audit table promises, for imports and backtests alike | – |
| `FeatureSeries` | segments, warm-up and inputs of rows | `features/engine.py` |
| `FeatureStore` (extends `FeatureSeries`) | generators, loaders and imports around stored sets | `features/repository.py`, `service.py`, `data/query.py`, `backtesting/inputs.py` |
| `MCSimulation`, `MCPerformance`, `MCBaseline`, `MCSources`, `MCIngestion`, `MCFeatureStore` | values of the constants | – |
| `SimulationProofs`, `OrderProofs`, `LedgerProofs` (each extends the one before) | theorems on charges, the event loop and the report | – |
| `BaselineProofs` (extends `LedgerProofs`) | theorems on the baseline strategy in the loop | – |
| `IngestionProofs`, `BacktestAuditProofs`, `FeatureStoreProofs`, `SourceProofs` | theorems on the components they are named for | – |

### Simulation

Time is counted in half slots: opening *k* of a session is at `2(k-1)`, a
candle completes at the next opening, and scripted decisions may fall in the
middle. `phase` is the position of the loop: `complete` (the candles that
complete now), `settle` (one candle's orders, one at a time), `strategy` and
`apply` (a strategy's answer, one request at a time), `decide` (scripted
intents of this instant), `barOpen` (cutoff and forced exits), `inside`
(intents between openings), `close` (expiry, incomplete exits, the next
session). That is the priority of the ticks in `clock.py:20-41` and the branches
of `engine.py:464-519`; within a stage the symbols are visited in any order.

`BeginBar`, the four `Settle` actions and `EndBar` are one call of `complete`
(`engine.py:232-380`): the first takes the list of eligible orders, stops before
others, and each of the next visits one of them: one that has ended meanwhile
is skipped (277-280), one that the candle does not reach or that has no volume
left is passed over, one that the cash does not cover is rejected
(304-319), any other fills by the smaller of its remainder and the volume left,
and cancels its OCO siblings (366-376). `CallStrategy`, `Evaluate`, `ApplyTrade`,
`ApplyCancel`, `EndApply` are `evaluate_strategy` (382-450). `mode` tells
scripts from strategies, as `run` does. Scripts and strategies are arbitrary:
any sequence of requests of the bounded vocabulary that the records
and the runtime admit, and, for strategies, ones that the runtime refuses. One
refusal is left out, that of a feature a request needs and the bar lacks
(`runtime.py:61-64`): the model then accepts more than the runtime does.

Prices are natural numbers of ticks, sums of money are multiples of
`1/SlipDen` tick; charges are rounded to `Paisa` of those as `quantize` does.
Decimal division of the basis, which the code makes at 28 digits or more, is an
integer division with the remainder left in the position; the
properties on the ledger hold for any such rounding, because they rest
on the last sale releasing what is left.

`IntradayBook` is the promise to the reader of a result: long only, paid from
cash at hand, only shrinking from the cutoff on, flat at every close of a run
that succeeds. `ImplementsBook` maps `session`, the regime given by slot and
phase, cash and holdings.

### Performance

`Performance` adds one variable, the points of `record_equity`, to the loop of
`Simulation`, and leaves its steps alone: `Recorded` says which points a step
adds. The peak of a point is the greater of the last peak and the equity, as
in `mark` (108). What `performance` computes of the curve and the trades are
operators on the state; they are looked at when the run is done, and the
drawdown at any time. Its charges, in the runs, are those of `MCProfile`; the
slippage part of the gross result is left out.

### Calendar, Groww, Yahoo, Sources

`Calendar` has no state: a calendar is a record, and its operators are
`provenance`, `sessions`, `expected_bars` and `next_bar`. Instants are numbers,
a day is `DayLength` of them; the package's schedule is a function from days to
sessions. The schedule names for each day the hours of that very day (`OwnHours`,
`InItsDay`), which is what the package returns and what a special session may
replace. `next_bar` is called by nothing in the repository at present.

`Groww` is one call of `fetch_bars`: `Resolve` settles all names before the first
call (109-112), `Chunk` is one turn of the loop over `start` with the rows it
yields, `ChunkFails` any of its three errors. The vendor answers with what it has
between two whole seconds, both included, as the comment at 147 says of it; it is
taken to answer in order and to have candles at whole seconds only; any row of
an answer may be unreadable. Times with and without a zone mean the same
instant there, so that an opening is just an instant.

`Yahoo` has the three attributes of the provider (`held`, `kept`, `evidence`) and
the two statements of `ingest` that touch it: the identity, which takes the
evidence (75-92), and the fetch. `Prepare` and the two actions
`FetchPrepares` and `FetchFails` share the gates; a refusal at any of them
leaves the provider empty. `pilot` restricts imports to requests prepared
before, as `scripts/pilot_yahoo.py` does; otherwise requests are prepared,
imported and abandoned in any order. Prices are left out: they are converted, not
examined.

`Sources` puts the calendar and the providers into one specification. The two
providers share no state; a deployment has one of them at a time.

### Baseline

`Baseline` replaces the arbitrary strategy by the one in the repository:
`BaselineEvaluate` has one action for each branch of `evaluate`
(`baseline.py:125-306`), and `memory` holds the instance's attributes. Features
are reduced to what the branches ask: the entry conditions hold, the trend is
reversed, or neither; the true range is one of a few values. An entry whose order
has not been seen yet (273-274) is no branch: an accepted request is
an order before the next evaluation. Prices of stop and
target follow from the average price, rounded as in the code.

### Ingestion, BacktestAudit, AuditedRun

Every process has a `pc` with one position per database transaction or
external call; whatever one transaction does is one step, or several
when it holds the advisory lock in between (`Lock`, `Merge`, `Commit`). A
statement or a provider may fail anywhere, processes may die anywhere, and
for the runs in `Unheard` a commit may succeed without its answer arriving.
Counters, findings and the staged candles change where `ingest` changes them.
Rows are malformed, of another symbol, unexpected, out of order, repeated or
conflicting as the provider likes.

`AuditedRun` is what both audit tables promise: a run is recorded before it
works; what it produces is stored by the step that completes it; a failed
run has stored nothing; an end is final. Both modules implement it
for the runs that hear of their own commits, and the runs
that do not are the subject of two findings.

### FeatureSeries, FeatureStore

A row is known by the candles it is computed from and by whether its values are
withheld. `FeatureSeries` has the index loop of `generate` (116-135) and
the warm-up of `_segment` (192-271); the formulas, recursive ones over a segment,
do not matter to it. The sorted series is given by rank (`Rank`): its place *i* has
the candle with *i* - 1 before it (`InOrder`). `FeatureStore` has imports that add candles, generators that
snapshot, compute and save under the key's lock, and backtests that read
manifest, snapshot and, symbol by symbol, rows in transactions of their own.
Candles are written once (`WriteOnce` of `Ingestion`), so a candle is its symbol
and slot. A digest is represented by what it digests.

## 3. Runs

| Run | Question | Distinct states | Bounds |
|---|---|---|---|
| `exits` | May two exits of a group both fill? Does a stop give way to a target? Does anything fill too early, or beyond the candle's volume? Does the ledger add up? | 1.3 M | 6 candles, 3 requests, 1 per strategy call, 2 kinds of candle |
| `pair` | Do two symbols that compete for cash ever make the account refuse, and is the book kept? | 1.0 M | 2 symbols, 4 candles, 3 requests, 1 per strategy call |
| `sessions` | Over two sessions, with scripts and arbitrary strategies: does every order end with its session and stay ended, does the forced exit cover the holding, does the run end flat, and do curve and report agree with the ledger? | 312 k | 2 × 4 candles, 3 kinds of candle, 2 requests, 2 per call |
| `baseline` | Does the baseline strategy protect what it holds, buy once, and stay within what the runtime admits? | 625 k | 2 × 7 candles, entry of 3 shares |
| `imports` | Concurrent imports: fresh under the lock, truthful reports, written once, always ending | 240 k | 2 imports, 2 openings, 2 values, 2 rows, one import that may not hear of its commit |
| `sources` | Do the calendar's candles tile the hours of trading, however a range is cut? Does a fetch in chunks lose, repeat or add candles? Does an import get rows that were not verified for it, or record evidence of others? | 333 k | 8 calendars of 3 days, 4 lengths of candles; 11 requests in 2 to 4 chunks; 6 requests, 2 imports, 3 instants |
| `results` | Are results whole and do they stand? | 13 k | 2 runs, 2 readers, one run that may not hear of its commit |
| `features` | Are sets whole, exact, causal and current? | 450 k | 2 imports, 2 generators, 1 backtest, 2 symbols, 3 slots, 2 ranges |
| `forced_name`, `baseline_reopened`, `imports_lost_answer`, `results_lost_answer` | four statements of the documentation the code does not keep | – | – |

Why the bounds are enough to be of use. In `exits` three requests allow an entry
and both exits of a group, or an exit outside it, and six candles leave room for
each to fill in parts over several candles; slippage, a minimum, tax on
charges and a square-off fee all round to units that do not divide the prices.
The cap of the brokerage never binds on sums this small: `CumulativeMonotone`
covers it for all profiles.
In `pair` the cash suffices for about two purchases, so that both tests
come out either way. `baseline` needs a session in which an entry
fills in three candles, an exit in two more, before the cutoff, and a second
session for what outlives the first; it has the 70 labels and the limit of 70 requests
that `LabelAssumption` and the hypothesis of `AnswersAreAccepted` ask for. Two
imports, two generators and two readers are enough for any conflict of two; a third would wait for one of the two
(the lock is exclusive). Three slots give a gap, a segment after it, and a
segment at each end.

Symmetry is used for references in runs without liveness: no definition tells
them apart. Deadlock is checked in every run; the last step of each
specification, `Ended`, `AllEnded` or `AllOver`, is a stutter of systems that are
through.

In `sessions` four candles a session leave two before the cutoff and one for
the forced exit; falling, flat and rising candles make the curve fall
over the end of a session. In `sources` every pair and triple of instants of
the three days is tried as a range and its cut; the calendars have a
short day, a special session on a holiday, a closure, unreviewed days with and
without the opt-in, days not covered and not known. A chunk of three instants
with seconds of two makes bounds and seams that are whole seconds and ones that
are not. The clock passes from where a request of two sessions is too recent to
where one is too old.

### Fairness

`sessions` assumes `WF_performanceVars(Run)`, a step of the loop with its points: the
loop is a single thread over a finite list of ticks, so that it goes on until it ends or raises. `imports` assumes
`WF_vars(Work(r))` for each import: a process that lives goes on, and each of its
statements returns or fails, waiting for the lock included, because a statement
that waits may also fail (`LockFails`). Crashes are not fair. No other run
assumes fairness.

### Findings

* `forced_name`: a strategy that names an order of its own
  `FORCED_SESSION_EXIT` can cancel the forced order, which `docs/strategies.md:150`
  excludes.
* `baseline_reopened`: when a partly filled entry and the stop for that part are
  both in the book, one candle sells the position and buys the rest, although
  `docs/baseline-strategy.md:61-62` says that no extra position is opened.
* `imports_lost_answer`: when the answer to the commit is lost, the failure path
  overwrites a completed audit with FAILED and zero inserts while the candles are
  stored; `docs/historical-data.md:172` says zero committed inserts.
* `results_lost_answer`: the same with `BacktestRepository.fail`, against
  `docs/backtesting.md:194`.

One disagreement has no run. `docs/phase21-hardening.md:134-135` says that an
identical rerun has the same dataset key. The key digests the evidence the Yahoo
provider has before the fetch (`ingestion.py:75`, `identity.py:41-51`), so that it
differs when the provider was not prepared for the request the first time,
and between pilots whose answers differ. `EvidenceMatchesRows` holds for pilots only.

## 4. Proofs

TLC checks the runs above; the theorems below hold for every value of the
constants within the named assumptions of the modules, which TLC evaluates in
every run. Each invariant of an argument was first checked by TLC as an invariant of the run.
All safety properties, action properties and refinements of all passing runs are
proved; what is left to TLC is in the last part of this section.

### Charges and the event loop

`SimulationProofs` proves first `CumulativeMonotone`: for every profile, the cumulative
charge of an order is a natural number that grows with its turnover. It
rests on lemmas on division, rounding, each levy, the capped brokerage and the
tax on them. It uses `CostAssumption` only (rates are natural numbers, scale and
paisa positive).

It proves then, for any symbols, sessions, slots, candles, intents,
cash and charges within `SlippageAssumption`, `CostAssumption`,
`SimulationAssumption` and `InputAssumption`:

* `TypeCorrect`: `Spec => []TypeOK`;
* `AccountingCorrect`: `Spec => []AccountingNeverRefuses`.

The types are not inductive: that quantities stay natural numbers needs to know
that no order has filled beyond its quantity, and that a sale takes no more than
is held. The invariant is `IndInv == TypeOK /\ OrdersOK`, kept by every step that
starts where the account has not refused; one lemma per action proves it. That
the account does not refuse is one argument on `SettleFill`: a purchase was let
through because cash covers the turnover *and the charges of all that remains*
of the order; the part that fills has a smaller turnover, its charges are the
difference of two cumulative ones, and by `CumulativeMonotone` that is at most
the difference for the whole remainder; a sale is limited to the holding before
it fills. The two are proved together, since each step's type needs the
absence of a refusal and the reverse, by one induction (`Inductive`).

These and all later theorems on the loop are proved of more than `Spec`. `AnySpec` is
the loop with *any* strategy: `AnyEvaluate` delivers some sequence of requests, of
whatever names, or raises, and touches nothing else; it does not know `Outputs`, the
bounded vocabulary of the runs. `SpecIsAny` says that `Spec` is such a loop, and
`StrategyIsAdmitted` (below) that the loop with the baseline strategy is.

`OrderProofs` is about single orders. What any step may do to one is said once:
`KeptOrder` lets an order keep what it was made with, gain executed shares while
it is alive, and end; each action is shown to keep orders so. On it rest:

* `FinishedOrdersStay` (`TerminalFrozen`), an action property;
* `OrdersLiveOneDay` (`DayOrders`), with `Timed`: an order that is alive was made in
  this session, and the places of the loop's lists are those of orders that exist;
* `NoFillFromHindsight` (`NoLookahead`), with `InCandle`: what the loop has listed
  for a candle was made before the candle opened, or is the forced order;
* `OneExitExecutes` (`OcoExclusive`), with `RivalsSpent`: once an order of a group has
  executed a share, no other of the group is alive. The step that executes cancels
  the siblings; the list of the candle may still name them, but the loop skips what has ended;
* `StopsComeFirst` (`StopBeatsTarget`), with `TargetsWait` and `StopsPrevail`: while a
  target is listed, every live stop that the candle reaches is listed before it,
  so that by the time the target's turn comes the stop is spent or the volume is;
* `ForcedExitHolds` (`ForcedExitCovers`) and `ForcedOrderStands`, with `ForcedLate`
  and `Covered`: past the cutoff a symbol has a live forced order exactly
  for what is held, and no other live order. Both assume that no request bears the
  forced order's own name (`ForcedReference \notin References`). The code does
  not refuse that name, and the run `forced_name` shows the second false without it.

`LedgerProofs` is about sums:

* `LedgerExplained` (`LedgerReconciles`): basis, released cost, proceeds and charges of
  positions and finished trades explain cash and realized result to the last
  unit. `Balanced` says so of every position, `NetWorth` and `Flow` of the
  account; a step changes one summand, and a fill changes cash by as much.
* `VolumeUsedOnce` (`BarCapacity`), with `VolumeShared`: what all fills of a candle
  sum to and what the loop still has to give are the candle's capacity.
* `BookImplemented` (`ImplementsBook`): each step of the loop is a step or a stutter
  of `IntradayBook`; that nothing is bought or opened from the cutoff on, and that
  the book is flat when a session of a run that has not failed closes, are the
  invariants `ClosesLate` and the type's.

Sums over finite sets are defined by recursive functions. Since a fact about
these by induction needs the library's theorems with an operator as parameter, which
the provers cannot instantiate, the facts needed (a sum without one of its
elements, a sum of which one summand changes) are proved by smallest counterexample:
the sizes at which a fact fails would have a least one (`WFMin`,
`NatLessThanWellFounded`), and it cannot exist.

### The report

`LedgerProofs` proves of the run that records its equity curve:

* `DrawdownIsTheWorstFall` (`DrawdownIsWorstFall`), with `Peaks`: the peak of every
  point, which the account carries from mark to mark and across sessions, is the
  greatest equity of the points so far. The greatest of the differences is then the
  worst fall between any two points;
* `ReportAgreesWithLedger` (`MetricsAgree`). The daily results telescope
  (`Telescope`) from the capital to the last point, since every session that is over has
  a point (`CurveInv`); a run that is done is flat and has marked its account since
  (`RunOver`), so the last point is its cash. The profits and losses of
  trades are the positive and the negative part of one sum (`SumOfSigns`), which the
  ledger's invariant makes the change of cash. For the results before
  charges and the turnover, `TotalsAgree` says that what finished trades and open
  positions have cost and brought are the account's totals, which a fill keeps
  (`FillTotals`).

### The baseline strategy

`BaselineProofs` is about the strategy and the loop together. What the strategy relies
on at one candle must survive all that the engine does to its orders until the next:
fills in part, cancelled siblings, rejections, forced exits, expiry. The invariant is
`Kept`: that of the loop, and three parts of its own.

* `InTurns`: the candle that is put to an instance is one that has not been put to it
  yet. So an instance is called at most once a slot.
* `Remembers`: what it has made up so far is at most `LongestAnswer` references a call;
  those of the cycle are among them, and it knows a range exactly while it knows an entry.
* `Disciplined`, as long as the run has not failed. `Naming`: every order bears a name
  its own instance made up, no two the same, and requests that wait to be applied bear
  names that no order has. `Feasible`: what waits was asked for in time, and sells what is
  held. `Shape` and `Covers` are about a symbol's `Offers`.

An answer is applied one request at a time, and in between the book holds old exits
beside new ones: neither what is alive nor what is protected says anything there. `Offers`
are therefore the active orders *as they will be* once the answer under way has been applied:
without those it still cancels, with those it still places. Applying one request
leaves them as they are (`TradeDiscipline`, `CancelDiscipline`), an evaluation
changes them at one stroke (`EvaluateKeeps`), and between answers they are the active
orders. `Shape` says that a sale at the market is the only offer and sells everything;
that of two exits neither has sold and both share a group; that without a known
range nothing is held or bought. `Covers` says that once the last candle has been answered
what is held is on offer, whole, and not bought again after an exit has sold.

Each branch of the evaluation has a lemma (`StandAsideWell`, ..., `EnterWell`): its answer,
put together of parts whose names follow one another (`Part`, `JoinPart`), is well formed
and leaves the offers disciplined. Each step of the loop has one: a fill
takes as much from the holding as from the offer that fills, and cancels
the other exit when there are two (`FillDiscipline`); an order that is rejected leaves
the shape, and its symbol's candle is still to be answered (`RejectDiscipline`); a forced
exit cancels everything (`LiquidateDiscipline`).

* `ExitsCoverHolding` (`ExitsMatchHolding`) and `ExitsEndPurchases` (`NoReopening`) follow
  from `Kept` where no answer is under way.
* `AnswersAreAccepted` (`NeverRefused`). That names are new, that targets are known and
  that nothing is asked for after the close is part of `Kept`. The runtime also
  refuses a run's requests beyond a limit (10,000 in the code), which the strategy does
  not watch, so this one theorem has a hypothesis: that the limit is at least
  `LongestAnswer` for each symbol, session and slot. With it the references in use
  and those of an answer are among `MadeUp`, and these are not too many (`MadeUpFinite`,
  `AnswerFits`). It is far from tight, as most answers are empty; 75 candles a
  session reach it after 26 sessions of one symbol. The run `baseline` is within it.
* `EntryIsKnown`: without that hypothesis, the strategy never fails for not knowing the
  entry of what it holds.
* `MemoryCorrect`: the types of the memory.
* `StrategyIsAdmitted`, `LoopKeepsItsInvariants`, `LoopForcesExit` and
  `BaselineImplementsBook`: what is proved of the loop with any strategy holds with this
  one, the refinement of `IntradayBook` included.

The theorems assume `BaselineAssumption` and `LabelAssumption`: a made-up reference contains
the symbol and a counter that only grows, so that it is like no other, and is not
the forced order's name.

### Imports and backtest runs

`IngestionProofs` assumes `IngestionAssumption` (finitely many openings and symbols,
`NoRun` is no run). `IndInv` is `Shape`, the types, and for each run five
predicates, each of them about one kind of state:

* `LockHeld`: who is between `Lock` and the end of its transaction holds the lock;
* `InStep`: what the audit row says at each position of `pc`;
* `Received`: the counters and findings agree with the rows received so far;
* `Decided`: what is staged for insertion is absent from the table, and what is not
  staged has been counted as unchanged or in conflict;
* `Reported`: what the row of a completed run says was committed with it.

Theorems: `ImportsTypeCorrect`, `LockKeepsFresh` (`StagedStillFresh`),
`CountersReconcile`, `CleanImportsComplete`, `EveryConflictSurfaces`,
`StoredOnce` (`WriteOnce`), `ImportAuditImplemented` (`ImplementsAudit`, for the runs
that hear of their commits).

`BacktestAuditProofs` (`AuditAssumption`) has the invariant `TypeOK`, `RunsInStep`,
`AllOrNothing` (the five tables of a run have rows together), `ReadersLetIn` (who reads
rows has seen a completed run) and `ReadersInStep` (what it has read so far is what is stored).
Theorems: `ResultsWhole`, `AnswersStand`, `AuditImplemented`.

### Calendar and providers

`SourceProofs` proves of *every* valid calendar, not of those in the run, that an
accepted range is known throughout (`AcceptsKnown`), that candles lie within it
(`ExpectedWithin`), that the parts of a range have its candles (`SplitsAlways`),
that candles do not overlap (`CandlesApart`) and fill the hours of trading
(`TilesAlways`), and that `next_bar` agrees with them (`NextAgreesAlways`). It needs
`OwnHours`: with sessions that reach over midnight the parts of a
range would not have the candles of the whole. Hence `HoursCovered` (`CandlesTile`) and
`RangesConsistent` (`RangesAgree`). `YahooInv` says that whatever the provider holds
has passed the gates for the request it is held for; `RowsVerified`
(`DeliveredVerified`) and `PilotEvidence` (`EvidenceMatchesRows`) follow from it.

`FetchesComplete` (`FetchComplete`) is proved of Groww for every history, second, chunk length
and request. `GrowwInv` counts: of a symbol asked for up to the cursor the rows have each of
the vendor's candles once, those at a seam before the cursor twice, and none later
(`Counted`); the symbols before it are complete (`Complete`). A chunk adds one row of
each of its candles (`BatchAdded`), and its first is the last of the chunk before,
since chunks start and end in the same whole second (`SeamsSeen`). That the
longest chunk is no shorter than a second (`GrowwAssumption`) is needed: else a candle
could lie at two seams.

### Features

`FeatureStoreProofs` has two parts. On the computation: the places of a series are in
order and hold all its candles (`SlotsInOrder`), a segment is a maximal unbroken
run (`SegmentIsRun`), a row's inputs and its being withheld are functions
of the run that ends at it (`RowOfRun`, `RowsOfRuns`). On the store: `StoreInv`, with
`Announcements` (candles have an import with an identity), `Tables` (each
stored set is the rows of its key's snapshot, with the counts), `Saving` and `Loading`
(what generators and backtests have in hand), and that two generators that
hold locks hold them on different keys. Theorems: `StoreTypeCorrect`, `ImportsIdentified`
(`AlwaysIdentified`), `SetsStoredOnce` (`WritersNeverClash`), `SetsSavedAsComputed`
(`SavedAsComputed`), `ChecksNeverFire` (`StoredSetsHold`), `RowsOfUnbrokenRuns`
(`RowsFromUnbrokenRuns`), `NoHindsightInFeatures` (`FeaturesCausal`) and
`StaleSetsRefused`. The last is the temporal property `StaleNeverLoads`: from the step in which
a backtest sets out with an overtaken key it is `Doomed`, which every later step
keeps (`DoomedForEver`), and who is doomed has loaded nothing.

### What the proofs changed in the model

Two operators, `Authority` of `Calendar` and `Fetch` of `FeatureStore`, were CASE
expressions with guards that overlap; TLC takes the first that holds, the logic
any. They are now IF ... ELSE, in the order of the code's tests. `OwnHours`, that
symbols are not empty, and that names such as `NoRun` and `Nobody` are none of the
runs are now assumptions of the modules. `FeatureSeries` no longer sorts by an operator
whose recursion the provers cannot see through, and neither does `Groww`, whose rows of a chunk are
described instead (`Ascending`). That a request has symbols, which the code's schema
demands, is now among its assumptions. `Simulation` now has strategies that
raise (`Raise`), which `StrategyRuntime.evaluate` lets pass and which end the run; the
baseline strategy needs it, and was no strategy of the loop before. The labels of
`Baseline` are as many as a run can need; before, the model could have run out of them,
as the program cannot.

### Only model-checked

* Liveness: that a run ends (`RunEnds`) and that imports do (`ImportsEnd`). The prover has
  no rules for ENABLED, which fairness needs.
* The runs that expect a violation: TLC's counterexamples are what they show.

## 5. What is not modelled

* Formulas of features (floating point), ratios and averages of the report,
  among them returns divided by an equity that may be zero; the wording of
  events, logs and reports, manifests but for what digests must tell apart.
* Calendar and providers are apart from the rest: `Simulation` and
  `FeatureStore` number the slots of sessions, and in `Ingestion` the calendar
  yields any set of openings and a provider any rows or any failure, which covers
  all three providers and the local file, which keeps no state.
* HTTP, tokens, the conversion of prices and the zone of vendor times.
* Ties of ticks by string index: left open, so that the properties hold for any.
* API, settings, registry, command lines, migrations, scripts.
* Recovery after a crash: the system has none; a run stays RUNNING.

## 6. Plan

In order of importance.

1. Done: `Orders`, `Costs`, `Portfolio`, `Simulation` with `IntradayBook`;
   `Ingestion` and `BacktestAudit` with `AuditedRun`; `Baseline`; `FeatureStore`
   with `FeatureSeries`; `CumulativeMonotone`, `TypeCorrect` and `AccountingCorrect`.
2. Done: `Calendar`, `Groww`, `Yahoo` with `Sources`; `Performance`, whose curve
   now belongs to the run over sessions.
3. Done: the theorems of section 4 about `Simulation`, `Ingestion`, `BacktestAudit`,
   `Performance`, `Calendar`, `Groww`, `Yahoo` and `FeatureStore`.
4. Done: the theorems about `Baseline`, from what its memory says of the engine's orders.

Left: the ties of ticks that `clock.py` sorts by a string index, which the model leaves
open; a property for runs that a crash leaves RUNNING, once the program takes them up again.
