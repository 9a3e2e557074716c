# A verification project for godmode0dte

`godmode0dte` (V1) trades at most a few same-day XSP debit verticals a day on a
tastytrade account; `godmode0dte_v2` (V2) is a later runtime that buys single long
options. Both put all of their money at risk in code that has to survive restarts,
lost answers and races, most of which no unit test reaches. This directory models that
code in TLA+, checks the models with TLC, and proves with TLAPS what the breaker, the
runtime, the governor, the ledger, the two order ladders, the market-data hub, the V2
session and V1's trading day promise. Source paths below are under `src/`, and those
without a directory name files of `godmode0dte/`.

## 1. Inventory

Everything runs in one Python process on one asyncio event loop; the process is
restarted by systemd. Tasks interleave only at `await`. Durable state is a
handful of small files, rewritten in place with `Path.write_text`.

| component | state | operations | what makes it correct |
|---|---|---|---|
| Circuit breaker (`risk/circuit_breaker.py`) | armed / tripped / locked, starting equity, peak; `lockout.json`, `baseline.json`, `peak.json` | `set_starting_equity`, `check`, `trip`, `confirm_flat`, the three restores at boot | a lockout binds its whole date; the baseline of a date never moves; no breach goes unnoticed; the survival lock needs an acknowledgement |
| Governor, equity gate (`risk/governor.py` 86-119) | accepted equity, quarantined reading | `update_equity` | glitches are held back, real moves reach the breaker |
| Governor, approval gate (`risk/governor.py` 206-380, `risk/sizing.py`, `models.py`) | positions, buying power, entry latch, soft tier | `evaluate`, `register_position`, `update_position`, `disable_entries`, `kill` | trade, heat and worst-case-day caps; one half-size trade beyond -4 % |
| Day-trade budget (`risk/day_trades.py`) | ledger of approvals by date, in memory and in a file | restore, `allows`, `record` | daily cap and rolling five-business-day budget over restarts |
| Runtime (`app.py`) | tasks, latches, adopted positions | boot and reconcile, clock, signal, risk, snapshot tasks, `_enter`, `_exit`, crash handler | every live position is tracked; trips flatten; the day ends flat |
| Trading-day machine (`state/machine.py`) | one of nine states | `transition` | illegal transitions are programming errors only |
| Broker adapter (`execution/broker.py`) | remembered live order per trade | `open_position`, `close_position`, `cancel_all_orders`, paper twin | never two live orders per trade; a reported fill is a fill |
| Exit engine (`execution/exits.py`) | consecutive-stop counters | `evaluate` (P0 to P7) | priorities, stale marks, no position left past force-flat |
| Market data hub (`data/market_data.py`) | quotes, candles, connection generation | four stream loops, `_reconnect` | one rebuild per failure, subscriptions restored |
| Opening range and bars (`features/*`) | bars of the range | `add_bar`, `width_ok`, `classify_breakout`, `resample` | breakouts of what was really seen; buckets on the clock |
| Regime, scoring, macro, calendar | none that outlives a call | event verdict, hard gates, points | no gate is passed over; the order of the rows does not matter |
| Vertical construction (`execution/verticals.py`) | none | chain search | liquid legs, the right side and width, a debit within floor and cap |
| Shadow book, journals, stores | simulated trades, JSONL files | open, mark, end, append | bounded, ended with the day |
| V2 (`godmode0dte_v2/*`) | lock and its file, trades of the day, positions | detector, sizing, ladder, exits with scale-out | a lock binds the day; one order per call; books are the account; daily limit |
| Dashboard, scripts | none | read only | (none) |

How they interact. The signal task asks the governor (`evaluate`), then awaits
`open_position`, then registers the position and moves the machine. The risk
task feeds equity to the governor, which feeds the breaker; it marks positions,
asks the exit engine and awaits `close_position`; the last close confirms the
breaker flat. The clock task moves the machine through the day. At boot
`_reconcile` cancels what works at the broker and adopts what is held; a
position or an order it cannot explain engages the kill switch.

Hard behaviours:

* *crash and restart* between two writes of one operation, inside a write, in
  mid-entry, in mid-flatten, and over midnight with a process that stays up;
* *loops that share a connection* and fail together, on half-built streams too;
* *races* of the exchange with the adapters of V1 and V2: a fill against a cancel, a
  cancel whose answer is lost, an order that is filled and dropped from the list;
* *interleavings* of the three tasks at their awaits, above all a trip that
  arrives while the machine is somewhere FLATTENING is not allowed from;
* *one step of several failing*: an append to a journal that raises between an exit or an
  entry and what should follow it;
* *stale state*: an equity older than the last close, marks restamped with the
  present time, a quarantined reading;
* *boundaries*: caps, floors, one-lot minima, zero standing for "unknown".

`PROJECT.json` lists the hazards one by one, at the line where each bites, with
the property that covers it or the reason none does yet.

## 2. Plan

Done, in the order of importance:

1. `CircuitBreaker` and `CircuitBreakerProofs`: what must survive everything.
2. `TradingRuntime` and `TradingRuntimeProofs`: the tasks, the machine, boots and stops;
   liveness.
3. `RiskGovernor` and `RiskGovernorProofs`: how much can be lost.
4. `DayTradeBudget` and `DayTradeBudgetProofs`: how often a trade may be approved.
5. `OrderLadder` and `OrderLadderProofs`: what the adapter believes against what the
   exchange did.
6. `StreamSupervisor` and `ReconnectOnce`: the hub, and the abstract specification
   of its rebuilds, which `StreamSupervisorProofs` shows it to implement.
7. `V2Ladder`, `V2Session` and `V2Proofs`: V2's order ladder, and its session over it.
8. `OpeningRange`, `ExitRules`, `TradingDay` and `TradingDayProofs`: from bar to closed
   trade in V1.
9. `VerticalBuild`, `BarResample`, `SignalGates`, `Conviction`: the pure functions in
   front of the stateful parts, checked against reference definitions.
10. `SessionGate`: the abstract specification of the breaker that `CircuitBreaker` and
    `TradingRuntime` are each shown to implement.

How they compose. `TradingDay` extends `OpeningRange` and `ExitRules`. `V2Session`
takes from `V2Ladder` what an order call answers (its `AnswerIsTrue`), as
`TradingRuntime` takes an ideal broker where `OrderLadder` has the real one.
`StreamSupervisor` instantiates `ReconnectOnce`; `CircuitBreaker` and `TradingRuntime`
instantiate `SessionGate`. `MCRiskGovernor` runs `RiskGovernor`
on the verticals that `VerticalBuild` builds.

## 3. The modules

### CircuitBreaker

Breaker, equity gate and files. `bstate`, `start`, `peak`, `equity`, `pending`
are the attributes of the two Python objects; `lockoutF`, `baselineF`, `peakF`
are the files, each absent, readable or torn. The Python code is synchronous, so
an operation is atomic with respect to every other operation, but not with
respect to a crash. Each operation therefore updates the memory and leaves in
`todo` the writes (and the rest of `check`) still to be done in the code's order;
`Write`, `WriteFails` and `Crash` consume it, and no new operation starts before
it is empty. `update_equity` is one action per way out: a reading that is not
positive, one put in quarantine, a first one far from the baseline, one accepted.
Zero stands for `None` and `0.0`, as the code never tells them apart. `NextDay`
lets a process outlive its date.

Left out: the operator's text, the structured log, and `isoformat` timestamps.

### SessionGate

What the rest of the runtime may rely on of the breaker, without its causes and files:
`gate` is off or the state of the process's breaker, `sealed` says whether the disk
blocks the present date. Nothing starts armed on a sealed date, a process once tripped
is not armed again, and only midnight lifts a seal; but a seal may come after the
trip, or never: its write may fail, and a process that outlives its date, which
`deploy/godmode.service:15-17` rules out, dates its lockout with the day before.
`GateHolds` is its specification, in `CircuitBreaker` under the mapping of the lockout
file read at `day` (`LockedByLockout`) to `sealed`, in `TradingRuntime` under that of
`locked`, on one date (there only the proof states it). So the one-variable breaker of
the runtime keeps the promise that the one with the files keeps. It promises more,
namely that every trip is sealed at once: what `TradingRuntime` says of restarts
supposes that the write of the lockout succeeded.

### TradingRuntime

`mstate` is the machine, `bstate` the breaker (durable once tripped), `tracked` the
governor's open positions; `entering` says that the signal task awaits the broker;
`risk`, `queue` and `closing` say where the risk task is. A step is what a task does
between two awaits: the risk task walks through its exit decisions without giving up
the loop, so no other task moves while `risk = "loop"`, and `RiskTail` is the end of
its iteration. `phase` is the time of day cut at the four instants the code compares
with. `Boot` is `start` with `_reconcile`; `Stop` is SIGINT or a fatal error, after
which the crash handler flattens (`dying`); `Crash` is a death without one. `shadows`
says whether the shadow book is empty, has something open, or has kept a shadow whose
end could not be appended: that append comes before the evaluation of the positions
and may raise (`monitoring/shadow.py:113`), which ends the tick (`RiskTickFails`,
`app.py:618`). The broker is ideal here, so that what these runs find is the runtime's
own; `OrderLadder` has the broker.

Left out: the snapshot task and the volume baseline written at the end of the day.
The outcome of scoring is a free choice; its inputs are in `TradingDay`.

### RiskGovernor

`evaluate`, line by line, in whole dollars per contract, so that the code's
comparisons of floats are exact. `cash` is the broker's account, the truth that
`equity` is a reading of: a reading may be late or never come. Fills, closes and
fees move it. The two resizing loops are one maximum over the sizes that fit.
`Restart` forgets what is memory only and adopts positions at their cost.

Left out: the gates that look at nothing but the intent or the clock (score,
quote age, entry window, spacing); an intent may be rejected at any time.

### DayTradeBudget

The ledger as a function from calendar days to approvals, in memory and on disk.
`Window` is `_business_window` by its meaning; `Record` is memory then write;
`RecordDies` is a death in between. An unreadable file counts as full.

### OrderLadder

`open_position` and `close_position` for one trade. `pc` is the next call of the
broker API; `ord` and `held` belong to the exchange, which fills, in part or
whole, and drops orders at any time. A placement may be accepted, rejected, raise
without effect, or raise with the order taken (`PlaceAnswerLost`). A cancel may
raise with or without effect. `Resolutions` is what polling an order can report.
Prices are left out: any rung may be filled or not. No other position shares the
long leg's symbol. The boot sweep is in `TradingRuntime`; the paper broker is not
modelled.

### StreamSupervisor and ReconnectOnce

Four listen loops over one stream. A loop whose listen ends or raises queues for
`_restart_lock` (asyncio's lock is first in, first out); the first one in whose
generation is still current backs off and runs `_connect`, the others only take
the new generation. `pc`, `on` and `gen` are per loop; `old` and `syms` are the local
variables of the running `_connect`. A step is what a task does between two awaits,
so `watch_options`, the warmup and `stop` come in between any two subscriptions. The
feed is `up` and `subs`; every fault of the network, and every event a handler
chokes on, counts towards `MaxFaults`.

`ReconnectOnce` is the promise without the connection: an epoch, who has joined
it, who is broken, who rebuilds. `RebuildsOnce` is its specification under the
mapping generation -> epoch, gen -> joined, not listening -> broken, lock ->
builder: one rebuild at a time, at most one per failed epoch, and a late reporter
joins instead of rebuilding.

Abstracted: waits, but for one assumption that `Build` names (`Unnoticed`): after the
backoff of at least two seconds a loop whose stream ended has been run. What a
quote or candle says is left out. The warmup's deadline is looked at only when a
candle comes (`data/market_data.py:117`).

### V2Ladder

One call of `LiveV2Broker._ladder`. As in `OrderLadder`, a step is one call of the
broker API; the exchange fills, cancels, expires and lists or no longer lists as it
likes. `trouble` collects what went wrong, and the properties say what each trouble
costs: an order that is listed on after its cancel failed, or filled in part,
lets the ladder trade on a second rung. The module names its state and steps
`LadderInit`, `LadderNext` and so on, because `V2Proofs` extends it beside `V2Session`.

### V2Session

V2 in auto mode: `V2Risk` (the lock, its file, the anchor of the day, the size of a
purchase), `V2ExitEngine` (hard stop on two marks, scale-outs, trail, hold), and
the signal and risk tasks, which interleave while one of them awaits an order. A tick
of the risk task evaluates one position after the other; `selling` is the sale
it awaits, with the part of the snapshot it has still to walk, and `Scan` is the
walk to the next sale. The equity it stores is one that the broker read earlier
(`read`): fills may come in between. `cash`, `held` and `quote` are the account and the
market; a purchase is sized at `Premium`, the mid, and filled anywhere up to `Ask`, and
`slip` is what the last one cost beyond the price it was sized at. `Crash` leaves the
order it awaited done or not; `CrashInLock` leaves a torn file. An option without a
bid is marked at its entry premium, as in the code (`godmode0dte_v2/app.py:213`), and so
never reaches its hard stop; the properties ask only the lock and force-flat to sell it.

Abstracted: what a sale gets less than the mark, the choice of the option, shadow
mode, the floor of the account below which nothing is bought (`min_equity`; without it
the model only does more), and a failing journal.

### OpeningRange, ExitRules and TradingDay

`OpeningRange` is the tracker and the breakout classifier on bars
`[t, hi, lo, close, strong]`, `ExitRules` the per-position rules of the exit engine and
of the shadow book. `TradingDay` puts the signal task, the risk task and the clock
around them: minutes bring bars or none; `Fed` is the three bars the signal task
looks at; `Score` is the verdict (no trade, a shadow, an entry); a position carries
its mark, whether that was ever stamped, and how old the stamp is. `_mark_positions`
stamps the present time whatever the age of the quotes (`app.py:636`), and so does
the model: "fresh" is said of the stamp. The heat and breaker rules take the position
without a look at its mark. The shadows are looked at first; when the append of one that
ends raises, that one and those after it stay, and the tick is over with the position
marked and not looked at (`RiskTaskFails`; `stuck` until a tick succeeds).

Choices: score, vertical and governor's verdict, the heat, the structure stop and
the age for the time stop. One position at a time, and a restart only with an empty
account (`TradingRuntime` adopts). Left out: the latch that logs the first
confirmation.

### VerticalBuild, BarResample, SignalGates, Conviction

Pure functions, evaluated by TLC in assumptions of the MC modules, where a
reference definition says what they are for:

* `BuildIsSearch` (`MCRiskGovernor`): over every chain of a small market, the search
  returns a liquid vertical of the asked side within the debit bounds, and the
  debits that `RiskGovernor` runs with are those of verticals it builds.
* `ResampleIsGrouping` (`MCTradingDay`): over every pattern of missing minutes, the
  resampled bars are the clock buckets, in order, and the last one is withheld
  when partial bars are dropped (also when it is complete, until the next bar).
* `VerdictIsOrderFree`, `GatesAgree` (`MCTradingDay`): the calendar's blackout does not
  depend on the order of its rows (the forced bias is the last row's); the two
  places that drop a wrong-way side agree.
* `DetectorIsSound` (`MCV2Session`): a missing metric never helps a side, and of two
  sides able to fire the more perfect one does.

## 4. The runs

| run | shows |
|---|---|
| `breaker` | the breaker and its files over two days, with torn and failing writes; that they implement `SessionGate` |
| `breaker_survival` | finding 1 |
| `runtime` | the runtime's safety over failing appends and, under fairness, that trips flatten, the day ends and ENTERING is left |
| `runtime_adopted` | finding 2 |
| `governor` | the caps over three trades, two concurrent, one restart; the vertical search |
| `ledger` | the cap and the budget over eight days with a weekend, two bad writes |
| `ladder` | one trade with an entry and any number of exits, two contracts, three rungs |
| `ladder_dropped` | finding 3 |
| `stream` | three loops, two faults: one stream, rebuilt once, whole, and served again |
| `v2_ladder` | one call for two contracts over three rungs |
| `v2_session` | a V2 session with two purchases filled at the mid or above, a bid of zero, one restart, a lock, and force-flat; the detector |
| `day` | four minutes of bars, a restart, shadows, failing appends, one position after another; bars and gates |

`CHECK_DEADLOCK FALSE` stands in every configuration because every bounded model
ends: the last day is over, the restarts are used up, the trade is closed.

What the properties of passing runs are conditional on, and why:

* `NoOrphans`, `FlattensUnlessAdopted`: not after a boot that asked for manual
  review, which is what `kill` at boot means.
* `DayEnds`, `EnteringLeft`: not in a process in which an
  append to the journals failed inside `_enter`. Such a failure does leave the
  machine in ENTERING (see the hazards).
* `FlattensUnlessAdopted`, `DayEnds`: not for a process with adopted positions;
  finding 2 says what happens there.
* `FlattensUnlessAdopted`, `DayEnds`, `Released`: only if the journal takes the end of
  a shadow again and again (`JournalRecovers`, `[]<>~stuck`). It may fail at any tick,
  and at many in a row; section 6 says what happens when it fails from some time on.
* `WorstCaseDay` of the governor: only if every approval saw an equity not above
  the account's cash and nothing open. Section 6 says what an older equity does; with
  a second position the first one's fees, which `open_risk_dollars` omits, can
  exceed the limit by that much.
* `DailyCapHeld`, `RollingBudgetHeld`: not after a boot that read a ledger whose
  last write had failed.
* The ladder's: if no accepted placement lost its answer and no order was filled
  in part. The code never reads the filled quantity of an order, and cannot know
  an order whose answer it never saw.
* `WholeWhenRead`, `Served`: unless a close of a replaced stream failed. Its reader
  stays on it, misses a generation, and later joins a half-built stream instead of
  rebuilding it.
* `WholeWhenRead`, `Served`: not for the symbols of a `watch_options` call that is
  under way, or that raised and that no rebuild has subscribed since.
* `TradesOnce`, `AnswerIsTrue`: under the troubles their definitions name.
* V2's `WorstCaseDay`: with every purchase sized on an equity read after the last
  fill, over no open position, and in the first process (`stacked`). The headroom
  ignores the premium that is open, and a restart anchors the day again at the
  depleted equity. The bound includes `slip`, what the last purchase cost beyond the
  price it was sized at (see section 6); what earlier ones cost is in the equity by then.
* `Managed`: for the first process; V2 adopts nothing at a restart.
* `OneShot`: for the process that saw the loss.

### Bounds

* `breaker`: readings 60, 95 and 115 are one of each kind for the gate under the
  shipped limits (ordinary loss beyond 6 %, jump of more than 20 %, far from the
  baseline, beyond the 20 % drawdown); the module comment of `MCCircuitBreaker`
  says which pair takes which branch. Two days are enough for a lockout to expire
  and for a process to outlive its date; `breaker_survival` needs a
  third. The proofs hold for every set of readings and every bound.
* `runtime`: three trades and a cap of two, so that adoption and entry meet; two
  deaths, so that the handler's leftovers are adopted by a process that may die too.
* `governor`: one price at which every gate decides, one that fails the fee floor;
  contracts worth nothing or a profit; `MCRiskGovernor` gives the arithmetic.
* `ledger`: eight days contain a weekend and a window that has to forget the
  first days.
* `ladder`: two contracts are the least that fill in part; three rungs; two orders
  kept at a time, one whose answer was lost and the current one: an execution in
  which a third would be placed while both still work is cut off, and so is a fill
  that would sell more than two contracts too many (`MaxShort`). The proofs
  hold for every value of both.
* `stream`: three loops (the code has four) are a builder, one that queues behind it
  and one that still reads; two faults reach a half-built stream that is then read, and a
  failed close. Three loops with three faults (1.15 million states) pass too.
* `v2_ladder`: two contracts fill in part; three rungs are the first, a middle and
  the last.
* `v2_session`: `MCV2Session` gives the arithmetic. Two purchases are the least that
  can stack, and the second is clamped to one contract when the first has lost two
  units; the mid is 1 and the ask 2, and a price goes on to 0 or 2, where it stops,
  scales out, trails or has no bid. The proofs hold for every ask, set of quotes and
  number of restarts.
* `day`: two bars make the range, one more breaks out, and one is left for a second
  trade; a lag of two bars is enough for a task that looked at the last bar only to
  lose a part of the range; the bars are one of each kind (`MCTradingDay`). Five
  minutes without a restart (805,000 states) pass too.

### Fairness

`TradingRuntime`: weak for what runs whenever it is due: boots (systemd restarts the
service), time, the handler's end, the steps of the risk task, which owns the loop
while it makes them. Strong for the clock and signal tasks, because the risk task
takes the loop away and gives it back again and again, which breaks continuous
enabling without starving anybody under asyncio's first-in-first-out ready queue.
Strong for an exit that finds quotes and for a close that fills: an exit is retried at
every pass of the risk task, and the promise "flattens" is empty against a market that
never quotes or fills. A risk task that is stuck may tick on and fail for ever:
fairness does not make the journal work. Nothing is assumed of approvals, of entry
fills or of crashes, and stops are bounded.

`StreamSupervisor`: weak for each loop, `watch_options` and the warmup, all of
which are tasks of the event loop, restricted to steps without a fault: faults may
happen and need not. Of the feed it assumes that a candle ends the warmup.

`V2Session` and `TradingDay`: weak for the tick of the risk task (in `TradingDay` one
that is stuck may fail for ever) and for the end of every order call (each ladder
ends); strong for a sale that fills, since the sale is asked for again at every tick.
Nothing is assumed of the market, of signals or of purchases.

## 5. The proofs

`CircuitBreakerProofs` proves, for all readings, limits and numbers of days, with
or without disk faults, from `ReadingsAssumption` (readings are positive; the gate
rejects others) and `LimitsAssumption` (limits are positive integers):

* `TypeCorrect`: `Spec => []TypeOK`;
* `DailyLimitTheorem`, `SurvivalTheorem`: the two invariants of the run;
* `GateTheorem`: the breaker implements `SessionGate`; and so, by `GateBlocks` about the
  abstract specification alone, `SealTheorem`: no process is armed on a sealed date;
* `LockoutTheorem`: no process is armed whose own date has a readable lockout (of the
  present date that is `SealTheorem`, which also covers a torn one);
* `BaselineTheorem`, `PeakTheorem`: a readable baseline of a date never changes on
  that date, and from one readable peak file to the next readable one in a step the peak
  does not fall. Only the proofs state these three.

None of the invariants is inductive. The strengthening is

    IInv == TypeOK /\ LockoutInv /\ DailyInv /\ SurvivalInv /\ FilesInv

* `LockoutInv` adds that a breaker that still owes a lockout write is not armed:
  without it, the write could land on an armed process.
* `DailyInv` adds that an armed breaker over a breach has the check of that very
  equity in front of it, at one of its three stages.
* `SurvivalInv` adds where a flag on disk comes from, and that a flag still owed
  belongs to a breaker that is not armed.
* `FilesInv` says that the memory agrees with the session's files, so that neither
  the baseline nor the peak can be written with a different or a lesser value.

The refinement needs `GateInv` besides: no date, of the session or of the lockout
file, is ahead of the calendar, or midnight could seal; and a breaker that is armed,
or has still to write its lockout, runs on a date that is not sealed, or a process
that outlived its date could lift the seal of the present one by writing the lockout
of its own.

Each part has its own step lemma (`TypeStep`, `LockoutStep`, `DailyStep`,
`SurvivalStep`, `FilesStep`, `GateStep`), one step per action; the temporal theorems only
combine them. What the job lists may be is in `JobLists`, `TailJobs` and
`LimitJobs`, so that no step reasons about sequences by itself.

`OrderLadderProofs` proves, for trades of any size, ladders of any length and any
number of orders, from `LadderAssumption` (at least one contract and one order):

* `LadderTypeCorrect`: `Spec => []TypeOK`, with the ladder never past its last rung;
* `NeverTwoLiveTheorem`, `StrandedTheorem`: what works at the exchange is what the
  adapter remembers;
* `FilledTheorem`, `ClosedTheorem`: what the adapter reports is what is held.

The inductive invariant has an unconditional part, where the calls are and which
side an order may be on (`TypeInv`, `FlowInv`, `SidesInv`), and a part for the
executions without lost answers and partial fills: a working order is the
remembered one and untouched (`LiveInv`); while the entry is worked the contracts
held tell whether it is filled, so that asking the position cannot err
(`OpenInv`); a position is held whole until an exit order is filled, and from
then on nothing of it is (`CloseInv`). The last allows a negative holding, which
is what finding 3 needs. `FillEnds`, `NoneEnds` and `GivesUp` say once how a call
ends, `NewOrder`, `DeadOrder` and `FilledOrder` what becomes of an order.

`TradingRuntimeProofs` proves, for any concurrency cap, daily cap and number of stops,
with or without failing journals, from `RuntimeAssumption`: `RuntimeTypeCorrect`,
`CapTheorem`, `NoOrphansTheorem`, `EndOfDayTheorem` and, from typing alone,
`RuntimeGateTheorem`. The inductive invariant is

    IInv == TypeOK /\ OrderInv /\ LoopInv /\ LockInv /\ OrphanInv /\ DayInv /\ ConcurrencyCap

* `OrderInv`: the order that works is that of the last approval and not yet filled, and
  nothing was ever sent for an approval that was not given.
* `LoopInv` says that what is tracked is open at the broker, and that the risk task
  closes nothing else.
* `LockInv`: a lockout is durable, and no armed process runs over one.
* `OrphanInv` is `NoOrphans` made inductive: an untracked position needs an entry in
  flight or a review that was asked for.
* `DayInv`: no entry is worked at force-flat time, a machine that is FLATTENING under an
  armed breaker is so because of that time, and END_OF_DAY is flat.

`RiskGovernorProofs` proves, for every set of debits, values and sizes, every limit and
any number of trades and restarts, from `PricesAssumption` and `GovernorAssumption`:

* `GovernorTypeCorrect` and `HardCapTheorem`. The resizing loops are one maximum; that
  its sizes fit the cap in integer arithmetic is `SizeFits`, over `Quotient` and
  `Hundredth`.
* `WorstCaseTheorem`. What the day can lose sums over the open positions, so the proof
  needs how the sum moves when one is opened, closed or adopted (`OpenAfterFill`,
  `OpenAfterClose`, `OpenAfterRestart`), and `AloneInv`: while every approval was sound,
  an entry in flight has nothing open beside it.

`PricesAssumption` also says that the cap price of a debit (110 %) and 45 % of the width
are whole, so that integer division loses nothing. The unit of money is free, as every
other quantity is a multiple or a percentage of one: counted in tenths of a dollar per
contract, every debit in whole cents satisfies it.

`DayTradeBudgetProofs` proves `LedgerTypeCorrect`, `DailyCapTheorem` and
`RollingBudgetTheorem` for every cap, budget, number of days and number of faults,
from `BudgetAssumption`. The cap is not inductive: `CountedInv` says that the ledger
in memory counts at least the approvals of its own session, which a torn file
satisfies by counting as full. For the budget `KnownInv` says that nothing is approved
in advance, and `WindowInv` that the ledger counts at least the approvals of the five
business days up to its session, or is full. The totals are folds; `TotalTakes`,
`TotalWithin` and `TotalGrows` are what the steps need of them.

`StreamSupervisorProofs` proves, for any loops (at least two), symbols and number of
faults, from `StreamAssumption` and `LoopsAssumption`:

* `StreamTypeCorrect` and `OneStreamTheorem`, from `LockInv` (the holder of the lock
  is the one loop at work, and reports the current generation), `QueueInv`, `OldInv`
  (the replaced stream is remembered only until it is closed, and there is no current
  one meanwhile) and `UpInv` (what is open is the current stream, the one being
  closed, or leaked);
* `Refinement`: the specification implements `ReconnectOnce`. `RefinedStep` maps a
  loop that dies to `Fail`, the first one in to `Claim`, `Completes` and `Abandons`
  (how a rebuild can end) to `Complete` and `Abandon`, a late one to `Join`, `stop` to
  `Quit`, and everything else to a stutter;
* `WholeTheorem`. Here the argument is about turns. Unless a close failed, at the moment
  a new stream is made no other loop reads (`NobodyReads`), so all of them are queued; the
  queue has those with an old generation in front (`InTurn`, from first in, first out), so
  whoever gets the lock to rebuild leaves behind it only loops that know the current
  generation. If the rebuild fails half-way, one of these is still queued and will
  rebuild again (`BuiltInv`); if it ends, the stream has been asked for everything that
  was remembered (`AskedInv`), with what `watch_options` adds meanwhile. With one loop
  alone the theorem is false, hence `LoopsAssumption`.

`V2Proofs` proves of `V2Session`, for any premium, quotes, limits, scale-outs and
bounds, from `V2Assumption` (the conviction is at most the limit, which is at most 100
%): `SessionTypeCorrect`, `ManagedTheorem`, `LockTheorem` and `WorstCaseTheorem`. They
share `Core`, whose parts say that the books never promise more than the account holds
(`BookInv`), that a sale in flight fits its book (`SaleInv`), that a process that is
down awaits nothing and has no books (`DownInv`), and that a purchase in flight is
within the trades of the day (`RoomInv`). The limit of the day needs two more:
`FirstInv`, that in the first process the anchor is the initial equity and a current
reading of an empty account is its cash, also one that is still on its way
(`read.fresh`), and `BuyInv`, that the purchase in flight, at the price it was sized
at, fits what is left of the day; `slip` is the rest.

`V2Proofs` proves of `V2Ladder`, for calls of any size and any number of rungs, from
`V2LadderAssumption` (at least one contract), `V2LadderTypeCorrect`,
`TradesOnceTheorem` and `AnswerTheorem`. `RungsInv` is the strengthening: as long as no
order was listed on after a failed cancel and none filled in part, the rungs
behind are dead and untouched, those ahead unused, and an order has traded all or
nothing; so only the present rung can have traded. `AnswerInv` adds what its order can
be at each call when nothing went wrong: where a poll or a failed cancel concludes
"filled" from a missing order, that order was working or filled, never cancelled.

`TradingDayProofs` proves, for any bars, marks, filters, limits and bounds, from
`RangeAssumption`, `ExitAssumption` and `DayAssumption` (prices and limits are integers,
bars are records of the right fields, the signal task is at most three bars
behind while it watches, as `Fed` looks at three): `DayTypeCorrect`, `OneShotTheorem`,
`BreakoutTheorem` and `HardStopTheorem`. The inductive invariant is

    IInv == BookTypes /\ ShadowTypes /\ TasksInv /\ BarsInv /\ TradesInv /\ HitInv

* `TasksInv`: outside OPENING_RANGE the minutes of the range are over, so that no entry is
  decided on a range that could still grow.
* `BarsInv`: the range of all bars of the window is the tracker's range with the bars
  the signal task has not seen. Only three of those are ever fed; so while an entry
  is awaited, and when more than three wait, all that wait came after the window.
* `TradesInv`: a side that lost is neither entered nor held, and the governor's account
  of lost sides is that of the day in a process that saw the day.
* `HitInv`: the hard stop's counter stands for a conclusive look that saw the stop.

`BreakoutIsReal` needs besides that a later bar leaves the edges alone (`RangedLate`)
and that a confirmed breakout closes beyond the edge of a range that has a bar
(`BreakoutSays`).

Sums over sets are folds of the community modules, and so is the range after a
sequence of bars. What they are in general would be an induction over an operator,
which the prover cannot instantiate; each proof therefore does its own induction over
the set of numbers for which its claim fails, which has a least element.

Every safety property that a passing run checks is proved. Model-checked only: the
pure functions, against their reference definitions, and all liveness. Liveness under
fairness and ENABLED are beyond the prover, and so is what a fold computes in general;
no module uses a RECURSIVE operator.

## 6. Findings

Each is a run that ends in a counterexample to what the repository says.

1. **The survival flag is lost** (`circuit_breaker.py:104`). `_update_peak` rewrites
   `peak.json` without `survival_tripped` whenever a later reading exceeds the old
   peak, so the next boot is armed with no acknowledgement, against
   `circuit_breaker.py:86-89`.
2. **A trip over an adopted position does not flatten** (`app.py:652`). FLATTENING
   is not reachable from PRE_MARKET, OPENING_RANGE or SCANNING (`machine.py:41-56`),
   every exit attempt raises, and the position stays open, against `app.py:245-248`.
3. **A dropped exit order is sold again** (`broker.py:203`). `_check_remembered` takes
   an order that left the list for cleared and places another closer, against
   `broker.py:448-449`.

Further disagreements between the code and what is said of it, which the models
contain or name and no run is spent on:

* **A journal that fails stops the exits** (`monitoring/shadow.py:113`). The end of a
  shadow is appended before the shadow is deleted (line 123). If the append raises, as on
  a full disk (`state/store.py:63-66`), `app.py:618` catches it outside the evaluation
  and the exits, and the next tick meets the same shadow: past force-flat every open
  shadow is due, and no position is closed, not even under a trip, against
  `execution/exits.py:5-6` ("flatten all, urgent", "unconditional, urgent"). `Released`
  without its condition, and `FlattensUnlessAdopted` without `JournalRecovers`, are
  violated by such a day.
* **A purchase of V2 can exceed the day's limit** (`godmode0dte_v2/executor.py:136`). It is
  sized at the mid and filled up to the ask. When the size was clamped to what is
  left of the day, the difference is beyond the limit, against
  `godmode0dte_v2/risk.py:5-8` ("no single trade may be able to blow through it").
  `WorstCaseDay` without `slip` is violated.
* The acknowledgement keeps the old peak (`circuit_breaker.py:127`), so the first
  reading beyond the same drawdown trips again, against `circuit_breaker.py:94-96`.
* A far first reading checks the breaker at 0.0 (`governor.py:114`), a loss of 100 %,
  and the lockout is persisted, where the comment says "stays unarmed".
* The worst-case-day gate measures by the last accepted equity (`governor.py:334`): an
  approval between a close and the next reading misses the loss just taken and
  can put the day at 8 %, against `README.md:98-99`.
* V2 has the same gap: it awaits the equity while a purchase may fill
  (`godmode0dte_v2/app.py:204`), and its headroom ignores what is open, so that a second
  purchase can lose more than the day allows, against `godmode0dte_v2/risk.py:5-8`.
* V2 goes to the next rung after a failed cancel whose order is still listed, in
  whatever status (`godmode0dte_v2/executor.py:164-173`), against "never two live
  orders per trade" at its lines 114-115.
* `exits.py:85` speaks of two consecutive fresh marks; the second look may be at the
  same mark when no quote came in between.
* A boot inside the opening range builds the range from the bars still to come, and it
  counts as complete (`features/opening_range.py:43`); one after it enters nothing.
* A position adopted at boot that was never quoted cannot be closed, not even by
  force-flat (`app.py:655`), although `exits.py:104-106` says that a position without
  marks is escalated.
* `monitoring/shadow.py:3-5` lists trades stopped by the one-shot rule and abandoned
  entries; the code opens no shadow for them.
* `data/market_data.py:191` says that option symbols are remembered; they are not when
  there is no stream.
* A sale of V2 that raises ends the tick, so the positions after it are not looked
  at (`godmode0dte_v2/app.py:218`), unlike in V1 (`app.py:605`).

## 7. Not modelled

The points of the scoring engine, regimes, indicators, volume ratios and macro
inputs: floating-point functions of samples, whose outcome is a free choice
wherever it matters. The choice of V2's option and the computation of its metrics,
for the same reason. The paper brokers, which fill at once. The snapshot
task, journals and the dashboard, which only report; configuration loading, whose
validated values are the CONSTANTS; the scripts and backtests, which run offline.
