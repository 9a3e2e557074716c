----------------------------- MODULE TradingDay -----------------------------
(***************************************************************************)
(* From the bar to the closed trade in one session of godmode0dte: the       *)
(* signal task (bars, opening range, one-shot rule, shadow book, entry), the *)
(* risk task (marks, shadow exits, exit engine, close) and the clock task of *)
(* app.py, which interleave while one of them awaits the broker.             *)
(*                                                                         *)
(* The score, the construction of the vertical and the governor's verdict    *)
(* are choices here; an order fills or not.  The breaker and the kill switch *)
(* are one flag.  CLOSING is FLATTENING, LOCKED_OUT or END_OF_DAY.           *)
(* The process restarts with an empty account only: what it adopts           *)
(* otherwise is TradingRuntime's.  So one position is open at a time.        *)
(***************************************************************************)
EXTENDS OpeningRange, ExitRules, Sequences, SequencesExt

CONSTANTS
    Bars,         \* the bars a minute can bring, their minute apart
    Marks,        \* values of a spread
    ShadowMax,    \* signal.shadow_max_open
    LogFaults,    \* may an append to the decision log fail?
    MaxMinutes,   \* bound: minutes of the session
    MaxLag,       \* bound: bars the signal task may be behind
    MaxRestarts   \* bound

ASSUME DayAssumption ==
    /\ Debit \in Marks /\ Marks \subseteq Nat /\ ShadowMax \in Nat \ {0}
    /\ LogFaults \in BOOLEAN
    /\ Bars \subseteq [t : Nat, hi : Int, lo : Int, close : Int, strong : BOOLEAN]
    /\ MaxMinutes \in Nat /\ MaxLag \in 1..3 /\ MaxRestarts \in Nat

VARIABLES
    minute,     \* minutes of the session that are over
    clock,      \* "day", "flush" past stale_flush, "late" past force_flat
    machine,    \* machine.state
    tripped,    \* governor.must_flatten
    pending,    \* md.session_bars: bars the signal task has not seen
    last,       \* the last bar, NoBar if there is none
    scored,     \* _last_scored_bar is the last bar
    range,      \* or_tracker
    entering,   \* the entry the signal task awaits
    pos,        \* the open position
    closing,    \* the exit the risk task awaits: its reason, or "none"
    lost,       \* governor.closed_positions: sides that lost
    shadows,    \* shadow._open
    sides,      \* shadow._sides_today
    window,     \* history: the range of all window bars of this process
    judged,     \* history: how the position's last conclusive mark was judged
    gone,       \* history: sides that lost on this day
    restarts,   \* history
    stuck       \* history: the last iteration of the risk task ended where the
                \* append of a shadow that ends failed

signal == <<pending, last, scored, range, entering>>
book   == <<pos, closing, lost, judged, gone>>
shadow == <<shadows, sides>>
life   == <<restarts, stuck>>
vars   == <<minute, clock, machine, tripped, signal, book, shadow, window, life>>

NoBar   == [t |-> 0]
NoEntry == [side |-> "none", close |-> 0]
NoPos   == [side |-> "none"]
Reasons == {"circuit_breaker", "force_flat", "heat_breach", "hard_stop", "stale_mark",
            "profit_target", "structure_stop", "time_stop"}

TypeOK ==
    /\ minute \in 0..MaxMinutes /\ clock \in {"day", "flush", "late"}
    /\ machine \in {"OPENING_RANGE", "SCANNING", "ENTERING", "MANAGING", "CLOSING"}
    /\ tripped \in BOOLEAN /\ scored \in BOOLEAN
    /\ range.n \in 0..ORBars /\ (range.complete => range.n > 0)
    /\ entering = NoEntry \/ entering.side \in Sides
    /\ pos = NoPos \/ pos \in [side : Sides, mark : Marks, stamped : BOOLEAN,
                               age : Current..Frozen, hit : BOOLEAN]
    /\ closing = "none" \/ (closing \in Reasons /\ pos # NoPos)
    /\ pos = NoPos \/ entering = NoEntry
    /\ lost \subseteq Sides /\ sides \subseteq Sides
    /\ Cardinality(shadows) <= ShadowMax
    /\ \A s \in shadows : s \in [side : sides, mark : Marks, hit : BOOLEAN]
    /\ stuck \in BOOLEAN

Init ==
    /\ minute = 0 /\ clock = "day" /\ machine = "OPENING_RANGE" /\ tripped = FALSE
    /\ pending = <<>> /\ last = NoBar /\ scored = FALSE /\ range = NoRange
    /\ entering = NoEntry /\ pos = NoPos /\ closing = "none" /\ lost = {}
    /\ shadows = {} /\ sides = {} /\ window = NoRange /\ judged = "none"
    /\ gone = {} /\ restarts = 0 /\ stuck = FALSE

\* Bars, range, closed positions and shadows are memory only.
Restart ==
    /\ restarts < MaxRestarts /\ pos = NoPos /\ entering = NoEntry /\ ~tripped
    /\ restarts' = restarts + 1 /\ machine' = "OPENING_RANGE"
    /\ pending' = <<>> /\ last' = NoBar /\ scored' = FALSE /\ range' = NoRange
    /\ window' = NoRange /\ lost' = {} /\ shadows' = {} /\ sides' = {} /\ stuck' = FALSE
    /\ UNCHANGED <<minute, clock, tripped, entering, pos, closing, judged, gone>>

-----------------------------------------------------------------------------
(* The market and the clock.                                                *)

\* A minute ends, with a bar or without a print.  While it only looks at bars the
\* signal task sees them in time.
NewBar ==
    /\ minute < MaxMinutes /\ clock # "late"
    /\ Len(pending) < MaxLag \/ entering # NoEntry
    /\ minute' = minute + 1
    /\ \/ \E b \in Bars : LET bar == [b EXCEPT !.t = minute'] IN
            /\ pending' = Append(pending, bar) /\ last' = bar /\ scored' = FALSE
            /\ window' = AddBar(bar, window)
       \/ UNCHANGED <<pending, last, scored, window>>
    /\ UNCHANGED <<clock, machine, tripped, range, entering, book, shadow, life>>

Trip ==
    /\ ~tripped /\ tripped' = TRUE
    /\ UNCHANGED <<minute, clock, machine, signal, book, shadow, window, life>>

TimePasses ==
    /\ \/ clock = "day" /\ clock' = "flush"
       \/ clock = "flush" /\ clock' = "late"
    /\ UNCHANGED <<minute, machine, tripped, signal, book, shadow, window, life>>

ClockTask ==
    /\ \/ machine = "OPENING_RANGE" /\ minute >= ORBars /\ machine' = "SCANNING"
       \/ machine \in {"SCANNING", "ENTERING", "MANAGING"} /\ clock = "late"
          /\ machine' = "CLOSING"
    /\ UNCHANGED <<minute, clock, tripped, signal, book, shadow, window, life>>

-----------------------------------------------------------------------------
(* The signal task.                                                         *)

\* Mutant: only the last bar is fed.
FedLast(bars) == SubSeq(bars, Max({1, Len(bars)}), Len(bars))

\* The last three bars are fed.
Fed(bars) == SubSeq(bars, Max({1, Len(bars) - 2}), Len(bars))

\* Mutant: the rule looks at the open position.
OneShotOpen(side) == side = pos.side

\* A trade that lost closes its side.
OneShotBlocks(side) == side \in lost

\* Mutant: the number of open shadows has no limit.
MaybeOpenAny(side) ==
    IF side \in sides THEN UNCHANGED shadow
    ELSE /\ shadows' = shadows \cup {[side |-> side, mark |-> Debit, hit |-> FALSE]}
         /\ sides' = sides \cup {side}

MaybeOpen(side) ==
    IF Cardinality(shadows) >= ShadowMax \/ side \in sides THEN UNCHANGED shadow
    ELSE /\ shadows' = shadows \cup {[side |-> side, mark |-> Debit, hit |-> FALSE]}
         /\ sides' = sides \cup {side}

\* _score_and_maybe_trade: no trade; a shadow, for a score below the threshold or
\* a verdict against it; or an approved entry, which the breaker forbids.
Score ==
    LET side == Breakout(range', last)
        live == side # "none" /\ ~OneShotBlocks(side) /\ WidthOk(range')
    IN  \/ UNCHANGED <<entering, machine, shadow>>
        \/ live /\ MaybeOpen(side) /\ UNCHANGED <<entering, machine>>
        \/ live /\ ~tripped /\ entering' = [side |-> side, close |-> last.close]
           /\ machine' = "ENTERING" /\ UNCHANGED shadow

SignalTask ==
    /\ entering = NoEntry /\ last # NoBar
    /\ pending # <<>> \/ (machine = "SCANNING" /\ ~scored)
    /\ range' = FoldLeft(LAMBDA r, bar : AddBar(bar, r), range, Fed(pending))
    /\ pending' = <<>>
    /\ IF machine = "SCANNING" /\ ~scored
       THEN scored' = TRUE /\ Score
       ELSE UNCHANGED <<scored, entering, machine, shadow>>
    /\ UNCHANGED <<minute, clock, tripped, last, book, window, life>>

\* _enter after its await.  The clock may have moved the machine meanwhile.
EntryFills ==
    /\ entering # NoEntry /\ entering' = NoEntry
    /\ pos' = [side |-> entering.side, mark |-> Debit, stamped |-> FALSE,
               age |-> Current, hit |-> FALSE]
    /\ judged' = "none"
    /\ machine' = IF machine = "ENTERING" THEN "MANAGING" ELSE machine
    /\ UNCHANGED <<minute, clock, tripped, pending, last, scored, range, closing, lost,
                   gone, shadow, window, life>>

EntryFails ==
    /\ entering # NoEntry /\ entering' = NoEntry
    /\ machine' = IF machine = "ENTERING" THEN "SCANNING" ELSE machine
    /\ UNCHANGED <<minute, clock, tripped, pending, last, scored, range, book, shadow,
                   window, life>>

-----------------------------------------------------------------------------
(* The risk task.                                                           *)

\* What the spreads of the shadows are looked at; one without quotes keeps its mark,
\* as one that is quoted at it again does.
Values == [{s.side : s \in shadows} -> Marks]

Marked(s, value) == [s EXCEPT !.mark = value[s.side]]
Ends(s, old)     == clock = "late" \/ ShadowEnds(s, old)
Counted(s)       == IF clock = "late" THEN s ELSE [s EXCEPT !.hit = AtStop(s.mark)]

\* What is left of the shadows of S: the end of one is appended, then it is deleted.
Looked(S, value, old) ==
    {Counted(m) : m \in {n \in {Marked(s, value) : s \in S} : ~Ends(n, old)}}

\* mark_and_exit, over all of them.
ShadowsLooked ==
    shadows' \in {Looked(shadows, value, old) : value \in Values, old \in BOOLEAN}

\* The append of one that ends raises: it stays, and those after it are not looked at.
ShadowsStuck ==
    \E value \in Values, old \in BOOLEAN, s \in shadows, before \in SUBSET shadows :
        /\ s \notin before /\ Ends(Marked(s, value), old)
        /\ shadows' = Looked(before, value, old) \cup {Counted(Marked(s, value))}
                        \cup (shadows \ (before \cup {s}))

\* _mark_positions: a spread with a two-sided long leg is marked now; any other
\* mark gets older.
Remarked(p) ==
    {[p EXCEPT !.mark = m, !.stamped = TRUE, !.age = Current] : m \in Marks}
    \cup {[p EXCEPT !.age = a] : a \in p.age..Frozen}

\* evaluate: P0 the breaker, P1 force-flat and P2 heat decide without a look at
\* the marks; the rest is _evaluate_position.
Unlooked(heat) ==
    CASE tripped                              -> "circuit_breaker"
      [] ~tripped /\ clock = "late"           -> "force_flat"
      [] ~tripped /\ clock # "late" /\ heat   -> "heat_breach"
      [] OTHER                                -> "none"

Judgement(p) == IF ~AtStop(p.mark) THEN "above" ELSE IF Fresh(p) THEN "stop" ELSE judged

Evaluate(p, heat) ==
    IF Unlooked(heat) # "none"
    THEN pos' = p /\ closing' = Unlooked(heat) /\ UNCHANGED judged
    ELSE \E broke, old \in BOOLEAN :
            /\ pos' = [p EXCEPT !.hit = Hits(p)]
            /\ closing' = Reason(p, broke, old, clock = "flush")
            /\ judged' = Judgement(p)

\* One iteration up to the close it awaits; under a trip the machine moves first.
RiskTask ==
    /\ closing = "none" /\ (pos # NoPos \/ shadows # {})
    /\ ShadowsLooked
    /\ IF pos = NoPos
       THEN UNCHANGED <<pos, closing, judged>>
       ELSE \E p \in Remarked(pos), heat \in BOOLEAN : Evaluate(p, heat)
    /\ machine' = IF closing' # "none" /\ tripped THEN "CLOSING" ELSE machine
    /\ stuck' = FALSE
    /\ UNCHANGED <<minute, clock, tripped, signal, lost, gone, sides, window, restarts>>

\* An iteration that a failing append ends: the position is marked, and not looked at.
RiskTaskFails ==
    /\ LogFaults /\ closing = "none"
    /\ ShadowsStuck
    /\ pos' \in IF pos = NoPos THEN {NoPos} ELSE Remarked(pos)
    /\ stuck' = TRUE
    /\ UNCHANGED <<minute, clock, machine, tripped, signal, closing, lost, judged, gone,
                   sides, window, restarts>>

\* The spread is sold at some value, and the machine scans again.
ExitFills ==
    /\ closing # "none" /\ closing' = "none" /\ pos' = NoPos /\ judged' = "none"
    /\ \E price \in Marks :
        LET loss == IF price < Debit THEN {pos.side} ELSE {}
        IN  lost' = lost \cup loss /\ gone' = gone \cup loss
    /\ machine' = IF machine = "MANAGING" THEN "SCANNING" ELSE machine
    /\ UNCHANGED <<minute, clock, tripped, signal, shadow, window, life>>

\* It is not sold, or the attempt raises: the next iteration decides again.
ExitFails ==
    /\ closing # "none" /\ closing' = "none"
    /\ UNCHANGED <<minute, clock, machine, tripped, signal, pos, lost, judged, gone,
                   shadow, window, life>>

-----------------------------------------------------------------------------

EntryEnds == EntryFills \/ EntryFails
ExitEnds  == ExitFills \/ ExitFails

Next == Restart \/ NewBar \/ Trip \/ TimePasses \/ ClockTask \/ SignalTask
        \/ EntryEnds \/ RiskTask \/ RiskTaskFails \/ ExitEnds

Spec == Init /\ [][Next]_vars

\* The risk task goes on, if only to fail, and for ever once it is stuck; every close
\* ends, and one that is tried again and again is filled at last.
FairSpec == Spec /\ WF_vars(~stuck /\ (RiskTask \/ RiskTaskFails))
                 /\ WF_vars(ExitEnds) /\ SF_vars(ExitFills)

-----------------------------------------------------------------------------
(* Properties.                                                              *)

\* One-shot rule: once a trade of a side has lost, the process that made it buys
\* that side no more, however the wins and losses of both sides alternate.
OneShot ==
    restarts = 0 => \A side \in gone : entering.side # side /\ pos.side # side

\* An entry is made on a close beyond everything the process saw of the opening
\* range, whatever the signal task missed or a restart cut off; a process that
\* saw nothing of it enters nothing.
BreakoutIsReal ==
    entering # NoEntry =>
        /\ window.n > 0
        /\ CASE entering.side = "LONG"  -> entering.close > window.hi
             [] entering.side = "SHORT" -> entering.close < window.lo

\* The hard stop takes a fresh mark at the stop, and the last conclusive look
\* before it saw one too: a recovery in between starts the count again.
HardStopConfirmed ==
    [][closing = "none" /\ closing' = "hard_stop" =>
        judged = "stop" /\ AtStop(pos'.mark) /\ Fresh(pos')]_vars

\* A position under a trip, past force-flat or without marks does not stay open,
\* nor does a shadow past force-flat, unless the append of the shadows that end
\* fails at every tick from some time on (monitoring/shadow.py:113, app.py:618).
Released ==
    []<>~stuck =>
        /\ []<>~(pos # NoPos /\ (tripped \/ clock = "late" \/ (pos # NoPos /\ pos.age = Frozen)))
        /\ []<>~(clock = "late" /\ shadows # {})
=============================================================================
