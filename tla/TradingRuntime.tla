--------------------------- MODULE TradingRuntime ---------------------------
(***************************************************************************)
(* One session of godmode0dte/app.py: the clock, signal and risk tasks on   *)
(* one event loop, the trading-day machine of state/machine.py, the breaker *)
(* and the positions the governor tracks, across process deaths and boots.  *)
(*                                                                         *)
(* A step is what a task does between two awaits.  The risk task goes from  *)
(* one close to the next without giving up the loop, which is risk =        *)
(* "loop": no other task moves then.  The broker is ideal here: an order    *)
(* fills, or it does not and is gone (OrderLadder has the rest).  A lockout *)
(* is durable once tripped (CircuitBreaker has the rest).                   *)
(***************************************************************************)
EXTENDS Integers, FiniteSets

CONSTANTS
    MaxConcurrent,  \* risk.max_concurrent_positions
    DailyCap,       \* risk.daily_trade_cap
    MaxStops,       \* bound: how often the process dies in the session
    LogFaults       \* may an append to the decision or trade log fail?

ASSUME RuntimeAssumption ==
    /\ MaxConcurrent \in Nat \ {0} /\ DailyCap \in Nat /\ MaxStops \in Nat
    /\ LogFaults \in BOOLEAN

VARIABLES
    phase,      \* the time of day, cut at or_start, or_end, the entry window's
                \* end and force_flat
    up,         \* is the process running?
    dying,      \* the crash handler of start() is flattening
    mstate,     \* StateMachine._state
    bstate,     \* BreakerState
    latched,    \* entries_disabled_reason is set
    tracked,    \* the governor's open positions
    entering,   \* the signal task awaits open_position
    risk,       \* the risk task: "sleep", "loop" or "close" (awaits close_position)
    queue,      \* the exit decisions not yet carried out
    closing,    \* the trade whose close is awaited, 0 for none
    shadows,    \* the shadow book: "none", some "open", or "stuck": the risk
                \* task's last tick ended where the append of one that ends failed
    locked,     \* disk: lockout.json is of today
    used,       \* disk: approvals today
    order,      \* exchange: the trade of the working entry order, 0 for none
    held,       \* exchange: each trade is "none", "open" or "closed"
    stops,      \* history: how often the process died
    adopted,    \* history: the trades this process adopted at boot
    logLost,    \* history: this process lost an append of the signal task
    review      \* history: a boot asked for manual review (kill)

signal  == <<entering, latched>>
exits   == <<risk, queue, closing>>
outside == <<order, held>>
life    == <<up, dying, stops, adopted, review>>
process == <<life, shadows>>
vars    == <<phase, bstate, tracked, locked, used, logLost, mstate, signal, exits,
             outside, process>>

Trades == 1..DailyCap
Phases == {"pre", "or", "window", "late", "flat"}
States == {"BOOT", "PRE_MARKET", "OPENING_RANGE", "SCANNING", "ENTERING",
           "MANAGING", "FLATTENING", "LOCKED_OUT", "END_OF_DAY"}

\* Mutant: MANAGING has no way to FLATTENING.
AllowedNoFlattening ==
    [BOOT          |-> {"PRE_MARKET", "LOCKED_OUT", "MANAGING"},
     PRE_MARKET    |-> {"OPENING_RANGE", "LOCKED_OUT"},
     OPENING_RANGE |-> {"SCANNING", "LOCKED_OUT", "END_OF_DAY"},
     SCANNING      |-> {"ENTERING", "END_OF_DAY", "LOCKED_OUT", "MANAGING"},
     ENTERING      |-> {"MANAGING", "SCANNING", "FLATTENING", "LOCKED_OUT"},
     MANAGING      |-> {"SCANNING", "END_OF_DAY", "LOCKED_OUT"},
     FLATTENING    |-> {"LOCKED_OUT", "END_OF_DAY", "SCANNING"},
     LOCKED_OUT    |-> {"END_OF_DAY"},
     END_OF_DAY    |-> {}]

Allowed ==
    [BOOT          |-> {"PRE_MARKET", "LOCKED_OUT", "MANAGING"},
     PRE_MARKET    |-> {"OPENING_RANGE", "LOCKED_OUT"},
     OPENING_RANGE |-> {"SCANNING", "LOCKED_OUT", "END_OF_DAY"},
     SCANNING      |-> {"ENTERING", "END_OF_DAY", "LOCKED_OUT", "MANAGING"},
     ENTERING      |-> {"MANAGING", "SCANNING", "FLATTENING", "LOCKED_OUT"},
     MANAGING      |-> {"SCANNING", "FLATTENING", "END_OF_DAY", "LOCKED_OUT"},
     FLATTENING    |-> {"LOCKED_OUT", "END_OF_DAY", "SCANNING"},
     LOCKED_OUT    |-> {"END_OF_DAY"},
     END_OF_DAY    |-> {}]

TypeOK ==
    /\ phase \in Phases /\ up \in BOOLEAN /\ dying \in BOOLEAN
    /\ mstate \in States /\ bstate \in {"ARMED", "TRIPPED", "LOCKED"}
    /\ latched \in BOOLEAN /\ entering \in BOOLEAN
    /\ tracked \subseteq Trades /\ queue \subseteq Trades /\ adopted \subseteq Trades
    /\ risk \in {"sleep", "loop", "close"} /\ closing \in Trades \cup {0}
    /\ locked \in BOOLEAN /\ used \in 0..DailyCap /\ order \in Trades \cup {0}
    /\ held \in [Trades -> {"none", "open", "closed"}]
    /\ stops \in 0..MaxStops
    /\ logLost \in BOOLEAN /\ review \in BOOLEAN
    /\ shadows \in {"none", "open", "stuck"}

Init ==
    /\ phase \in Phases /\ up = FALSE /\ dying = FALSE
    /\ mstate = "BOOT" /\ bstate = "ARMED" /\ latched = FALSE
    /\ tracked = {} /\ entering = FALSE
    /\ risk = "sleep" /\ queue = {} /\ closing = 0
    /\ locked = FALSE /\ used = 0 /\ order = 0 /\ held = [t \in Trades |-> "none"]
    /\ stops = 0 /\ adopted = {} /\ logLost = FALSE
    /\ review = FALSE /\ shadows = "none"

-----------------------------------------------------------------------------
(* The machine and the breaker. *)

Legal(to) == to = mstate \/ to \in Allowed[mstate]

\* transition(to): raises, and moves nothing, when the table forbids it.
Transition(to) ==
    mstate' = IF Legal(to) THEN to ELSE mstate

\* trip persists its lockout and only acts on an armed breaker.
TripBreaker ==
    /\ bstate' = IF bstate = "ARMED" THEN "TRIPPED" ELSE bstate
    /\ locked' = (locked \/ bstate = "ARMED")

MustFlatten == bstate # "ARMED" /\ tracked # {}

Running == up /\ ~dying /\ risk # "loop"

-----------------------------------------------------------------------------
(* start(): the order sweep, the adoption of live positions, the first state. *)

OpenAtBroker == {t \in Trades : held[t] = "open"}

\* A kill trips the breaker, unless it was restored locked.
BootState(kill) ==
    CASE locked          -> "LOCKED"
      [] kill /\ ~locked -> "TRIPPED"
      [] OTHER           -> "ARMED"

\* swept: cancel_all_orders left nothing unknown.  adopt: the positions whose
\* legs paired up; any other leg engages the kill switch.
Boot(swept, adopt) ==
    /\ ~up
    /\ up' = TRUE /\ dying' = FALSE
    /\ order' = IF swept THEN 0 ELSE order
    /\ tracked' = adopt /\ adopted' = adopt
    /\ LET kill == ~swept \/ adopt # OpenAtBroker
       IN  /\ bstate' = BootState(kill)
           /\ locked' = (locked \/ kill)
           /\ review' = (review \/ kill)
    /\ mstate' = IF bstate' = "ARMED" THEN "PRE_MARKET" ELSE "LOCKED_OUT"
    /\ latched' = FALSE /\ entering' = FALSE
    /\ risk' = "sleep" /\ queue' = {} /\ closing' = 0
    /\ logLost' = FALSE /\ shadows' = "none"
    /\ UNCHANGED <<phase, used, held, stops>>

-----------------------------------------------------------------------------
(* _clock_task. *)

Ticks == UNCHANGED <<phase, bstate, tracked, locked, used, logLost, signal, exits,
                     outside, process>>

OpenRange ==
    /\ Running /\ mstate = "PRE_MARKET" /\ phase # "pre"
    /\ Transition("OPENING_RANGE") /\ Ticks

StartScanning ==
    /\ Running /\ mstate = "OPENING_RANGE" /\ phase \notin {"pre", "or"}
    /\ Transition("SCANNING") /\ Ticks

\* Mutant: the clock only ends a day that is MANAGING.
AtForceFlatManaging == phase = "flat" /\ mstate = "MANAGING"

AtForceFlat == phase = "flat" /\ mstate \in {"SCANNING", "MANAGING", "ENTERING"}

ForceFlat ==
    /\ Running /\ AtForceFlat /\ tracked # {}
    /\ Transition("FLATTENING") /\ Ticks

\* Mutant: the day is finished without asking whether it is flat.
FinishFlatBlindly ==
    /\ Running /\ AtForceFlat
    /\ Transition("END_OF_DAY") /\ Ticks

FinishFlat ==
    /\ Running /\ AtForceFlat /\ tracked = {}
    /\ Transition("END_OF_DAY") /\ Ticks

-----------------------------------------------------------------------------
(* _signal_task: score, evaluate, _enter.                                  *)

\* The gates of evaluate that read shared state; the others may reject at will.
\* Mutants: the daily cap is not asked; the concurrency cap is off by one.
ApprovableUncapped ==
    /\ bstate = "ARMED" /\ ~latched /\ phase = "window"
    /\ Cardinality(tracked) < MaxConcurrent

ApprovableOneMore ==
    /\ bstate = "ARMED" /\ ~latched /\ phase = "window"
    /\ Cardinality(tracked) <= MaxConcurrent
    /\ used < DailyCap

Approvable ==
    /\ bstate = "ARMED" /\ ~latched /\ phase = "window"
    /\ Cardinality(tracked) < MaxConcurrent
    /\ used < DailyCap

Approve ==
    /\ Running /\ ~entering /\ mstate = "SCANNING" /\ Approvable
    /\ used' = used + 1 /\ order' = used + 1
    /\ entering' = TRUE
    /\ Transition("ENTERING")
    /\ UNCHANGED <<phase, bstate, tracked, locked, logLost, latched, exits, held, process>>

\* A signal that is not traded is followed on paper.
ShadowOpens ==
    /\ Running /\ ~entering /\ mstate = "SCANNING"
    /\ shadows = "none" /\ shadows' = "open"
    /\ UNCHANGED <<phase, bstate, tracked, locked, used, logLost, mstate, signal, exits,
                   outside, life>>

\* The exchange fills the working order, whatever has become of the process.
OrderFills ==
    /\ order # 0
    /\ held' = [held EXCEPT ![order] = "open"] /\ order' = 0
    /\ UNCHANGED <<phase, bstate, tracked, locked, used, logLost, mstate, signal, exits,
                   process>>

\* Mutant: the position is registered only after the log append.
EnterFilledLogFirst(logged) ==
    /\ Running /\ entering /\ held[used] = "open"
    /\ (~logged => LogFaults)
    /\ tracked' = IF logged THEN tracked \cup {used} ELSE tracked
    /\ entering' = FALSE
    /\ IF logged THEN Transition("MANAGING") ELSE UNCHANGED mstate
    /\ logLost' = (logLost \/ ~logged)
    /\ UNCHANGED <<phase, bstate, locked, used, latched, exits, outside, process>>

\* open_position returns a fill.  A log_trade that raises comes after
\* register_position and before the transition.
EnterFilled(logged) ==
    /\ Running /\ entering /\ held[used] = "open"
    /\ (~logged => LogFaults)
    /\ tracked' = tracked \cup {used} /\ entering' = FALSE
    /\ IF logged THEN Transition("MANAGING") ELSE UNCHANGED mstate
    /\ logLost' = (logLost \/ ~logged)
    /\ UNCHANGED <<phase, bstate, locked, used, latched, exits, outside, process>>

\* Mutant: a failed entry does not return to SCANNING (the wedge of audit B4).
EnterUnfilledStays(latch, logged) ==
    /\ Running /\ entering /\ held[used] = "none"
    /\ (~logged => LogFaults)
    /\ order' = 0
    /\ latched' = (latched \/ latch) /\ entering' = FALSE
    /\ UNCHANGED mstate
    /\ logLost' = (logLost \/ ~logged)
    /\ UNCHANGED <<phase, bstate, tracked, locked, used, exits, held, process>>

\* open_position returns None or raises, its order cancelled.  A rejection of
\* the buying-power or day-trade class latches entries off.
EnterUnfilled(latch, logged) ==
    /\ Running /\ entering /\ held[used] = "none"
    /\ (~logged => LogFaults)
    /\ order' = 0
    /\ latched' = (latched \/ latch) /\ entering' = FALSE
    /\ IF logged THEN Transition("SCANNING") ELSE UNCHANGED mstate
    /\ logLost' = (logLost \/ ~logged)
    /\ UNCHANGED <<phase, bstate, tracked, locked, used, exits, held, process>>

-----------------------------------------------------------------------------
(* _risk_task.                                                             *)

\* What ExitEngine.evaluate may decide: everything under P0 and P1, else any
\* positions (stops, targets and heat are in ExitEngine).
Decisions(b) ==
    IF b # "ARMED" \/ phase = "flat" THEN {tracked} ELSE SUBSET tracked

\* The fetch of the equity resumes: a healthy value, a loss that trips, or a
\* feed dead for long enough, which trips with positions open.
EquityFetched(trips) == IF trips THEN TripBreaker ELSE UNCHANGED <<bstate, locked>>

\* The shadows are looked at first; past force-flat every one of them ends.
RiskTick(trips, decided) ==
    /\ Running /\ risk = "sleep"
    /\ EquityFetched(trips)
    /\ shadows' \in IF shadows = "none" \/ phase = "flat" THEN {"none"}
                    ELSE {"none", "open"}
    /\ decided \in Decisions(bstate')
    /\ queue' = decided /\ risk' = "loop"
    /\ UNCHANGED <<phase, tracked, used, logLost, mstate, signal, closing, outside, life>>

\* The append of a shadow that ends raises: the shadow stays in its book, and the
\* tick is over before evaluate, the exits and the tail.
RiskTickFails(trips) ==
    /\ Running /\ risk = "sleep" /\ LogFaults /\ shadows # "none"
    /\ EquityFetched(trips)
    /\ shadows' = "stuck"
    /\ UNCHANGED <<phase, tracked, used, logLost, mstate, signal, exits, outside, life>>

Looping == up /\ risk = "loop"

\* _exit of a position that must be flattened first enters FLATTENING; if the
\* machine refuses, the exception ends the attempt.
NeedsFlattening == MustFlatten /\ mstate \notin {"FLATTENING", "LOCKED_OUT"}

ExitRefused(t) ==
    /\ Looping /\ t \in queue /\ NeedsFlattening /\ ~Legal("FLATTENING")
    /\ Transition("FLATTENING")
    /\ queue' = queue \ {t}
    /\ UNCHANGED <<phase, bstate, tracked, locked, used, logLost, signal, risk, closing,
                   outside, process>>

\* quoted: both legs have a quote; without one _exit returns before the order.
ExitStarts(t, quoted) ==
    /\ Looping /\ t \in queue /\ (NeedsFlattening => Legal("FLATTENING"))
    /\ IF NeedsFlattening THEN Transition("FLATTENING") ELSE UNCHANGED mstate
    /\ queue' = queue \ {t}
    /\ risk' = IF quoted THEN "close" ELSE "loop"
    /\ closing' = IF quoted THEN t ELSE 0
    /\ UNCHANGED <<phase, bstate, tracked, locked, used, logLost, signal, outside, process>>

CloseFilled ==
    /\ up /\ risk = "close"
    /\ held' = [held EXCEPT ![closing] = "closed"]
    /\ tracked' = tracked \ {closing}
    /\ bstate' = IF bstate = "TRIPPED" /\ tracked' = {} THEN "LOCKED" ELSE bstate
    /\ risk' = "loop" /\ closing' = 0
    /\ UNCHANGED <<phase, locked, used, logLost, mstate, signal, queue, order, process>>

CloseUnfilled ==
    /\ up /\ risk = "close"
    /\ risk' = "loop" /\ closing' = 0
    /\ UNCHANGED <<phase, bstate, tracked, locked, used, logLost, mstate, signal, queue,
                   outside, process>>

\* The end of the iteration: MANAGING and FLATTENING are left when flat.
RiskTail ==
    /\ Looping /\ ~dying /\ queue = {}
    /\ risk' = "sleep"
    /\ CASE mstate = "MANAGING" /\ tracked = {} -> Transition("SCANNING")
         [] mstate = "FLATTENING" /\ tracked = {} ->
               Transition(IF bstate = "ARMED" THEN "END_OF_DAY" ELSE "LOCKED_OUT")
         [] OTHER -> UNCHANGED mstate
    /\ UNCHANGED <<phase, bstate, tracked, locked, used, logLost, signal, queue, closing,
                   outside, process>>

-----------------------------------------------------------------------------
(* Time, and the end of the process.                                       *)

\* The entry ladder is bounded by its rungs and timeouts (under a minute), so
\* no entry begun in the window is still working hours later.
TimePasses ==
    /\ phase' = CASE phase = "pre"    -> "or"
                  [] phase = "or"     -> "window"
                  [] phase = "window" -> "late"
                  [] phase = "late"   -> "flat"
                  [] OTHER            -> phase
    /\ phase # "flat" /\ (phase = "late" => ~entering /\ order = 0)
    /\ UNCHANGED <<bstate, tracked, locked, used, logLost, mstate, signal, exits, outside,
                   process>>

\* SIGINT or a fatal error: the tasks are cancelled and start() trips the
\* breaker and flattens, if positions are open.
Stop ==
    /\ Running /\ stops < MaxStops /\ tracked # {}
    /\ TripBreaker
    /\ dying' = TRUE /\ stops' = stops + 1 /\ entering' = FALSE
    /\ risk' = "loop" /\ queue' = tracked /\ closing' = 0
    /\ UNCHANGED <<phase, tracked, used, logLost, mstate, latched, outside, up, adopted,
                   review, shadows>>

\* The memory of a process that is gone, as far as it is ever looked at.
Gone ==
    /\ up' = FALSE /\ dying' = FALSE /\ mstate' = "BOOT" /\ bstate' = "ARMED"
    /\ latched' = FALSE /\ tracked' = {} /\ entering' = FALSE
    /\ risk' = "sleep" /\ queue' = {} /\ closing' = 0
    /\ adopted' = {} /\ logLost' = FALSE /\ shadows' = "none"
    /\ UNCHANGED <<phase, locked, used, outside, review>>

\* The crash handler is through, or is killed.
Dies == up /\ dying /\ Gone /\ UNCHANGED stops

\* SIGKILL, out of memory, or a stop with nothing open.
Crash == up /\ ~dying /\ stops < MaxStops /\ stops' = stops + 1 /\ Gone

EntryReturns ==
    \E logged \in BOOLEAN :
        EnterFilled(logged) \/ \E latch \in BOOLEAN : EnterUnfilled(latch, logged)
RiskTicks ==
    \E trips \in BOOLEAN :
        RiskTickFails(trips) \/ \E decided \in SUBSET tracked : RiskTick(trips, decided)
NextExit  == \E t \in Trades : ExitRefused(t) \/ \E quoted \in BOOLEAN : ExitStarts(t, quoted)
Boots     == \E swept \in BOOLEAN, adopt \in SUBSET OpenAtBroker : Boot(swept, adopt)

Next ==
    \/ Boots \/ OpenRange \/ StartScanning \/ ForceFlat \/ FinishFlat
    \/ Approve \/ ShadowOpens \/ OrderFills \/ EntryReturns
    \/ RiskTicks \/ NextExit \/ CloseFilled \/ CloseUnfilled \/ RiskTail
    \/ TimePasses \/ Stop \/ Dies \/ Crash

\* The event loop comes round to a task that is ready, although the risk task
\* holds it now and then (SF); systemd restarts the service; the day goes by;
\* an exit that is tried again and again finds quotes and is filled.  Nothing is said
\* of the journal: a risk task that is stuck ticks on, and may fail for ever.
Fairness ==
    /\ WF_vars(Boots) /\ WF_vars(TimePasses) /\ WF_vars(Dies)
    /\ SF_vars(OpenRange) /\ SF_vars(StartScanning)
    /\ SF_vars(ForceFlat) /\ SF_vars(FinishFlat) /\ SF_vars(EntryReturns)
    /\ WF_vars(shadows # "stuck" /\ RiskTicks) /\ WF_vars(NextExit) /\ WF_vars(RiskTail)
    /\ \A t \in Trades : SF_vars(ExitStarts(t, TRUE))
    /\ WF_vars(CloseFilled \/ CloseUnfilled) /\ SF_vars(CloseFilled)

Spec == Init /\ [][Next]_vars /\ Fairness

-----------------------------------------------------------------------------
(* Properties.                                                             *)

\* Positions and the entry in flight never exceed the concurrency cap, although
\* the entry is not counted by the gate (governor.py:256): across restarts and
\* fills that arrive after a trip, the signal task works one entry at a time.
ConcurrencyCap ==
    Cardinality(OpenAtBroker) + (IF order # 0 THEN 1 ELSE 0) <= MaxConcurrent

\* A running process tracks every live position, or is awaiting its entry,
\* unless a boot gave up and asked for manual review (app.py:241-249, 320-323).
NoOrphans ==
    Running /\ ~review =>
        \A t \in OpenAtBroker : t \in tracked \/ (entering /\ t = used)

\* END_OF_DAY is flat: nothing is open and no order is working.
EndOfDayFlat ==
    up /\ mstate = "END_OF_DAY" => tracked = {} /\ ~entering

Gate == INSTANCE SessionGate WITH
            gate   <- IF up THEN bstate ELSE "off",
            sealed <- locked,
            date   <- 1

\* The breaker the tasks share is the session gate that the breaker with its files
\* implements, on one date: whatever the tasks, the kill switch at boot and the crash
\* handler do to it, it is re-armed by nothing (app.py:180-183, 241-249, risk/governor.py:129-133).
GateHolds == Gate!Spec

\* The journal takes the ends of the shadows again and again, if not each time.
JournalRecovers == []<>(shadows # "stuck")

\* A tripped process that adopted nothing gets every position closed, if need be
\* by the process that replaces it, unless a boot asked for manual review or the
\* journal fails for good under the shadow book (monitoring/shadow.py:113, app.py:618).
FlattensUnlessAdopted ==
    JournalRecovers =>
        ((up /\ bstate # "ARMED" /\ tracked # {} /\ adopted = {})
            ~> (OpenAtBroker = {} \/ review))

\* Once force-flat time has come, a process that adopted nothing and lost no log
\* append of an entry reaches END_OF_DAY or LOCKED_OUT, or dies (app.py:336-344,
\* 610-617), unless the journal fails for good under the shadow book.
DayEnds ==
    JournalRecovers =>
        ((up /\ phase = "flat" /\ adopted = {} /\ ~logLost)
            ~> (~up \/ logLost \/ mstate \in {"END_OF_DAY", "LOCKED_OUT"}))

\* ENTERING is always left again, unless a log append failed (app.py:530).
EnteringLeft ==
    (mstate = "ENTERING" /\ ~logLost) ~> (mstate # "ENTERING" \/ logLost)

\* What app.py:245-248 says of adopted positions: the trip only blocks entries,
\* and exits keep working on everything adopted.
TrippedFlattens ==
    (up /\ bstate # "ARMED" /\ tracked # {}) ~> (OpenAtBroker = {} \/ review)

=============================================================================
