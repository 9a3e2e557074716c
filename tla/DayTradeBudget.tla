--------------------------- MODULE DayTradeBudget ---------------------------
(***************************************************************************)
(* The approval ledger of godmode0dte/risk/day_trades.py: the count behind  *)
(* the daily cap and the rolling budget of five business days, kept in      *)
(* memory, rewritten to one file at each approval, read back at each boot.  *)
(*                                                                         *)
(* A ledger is the number of recorded approvals of each calendar day.  Day  *)
(* 1 is a Monday.                                                          *)
(***************************************************************************)
EXTENDS Integers, FiniteSets, FiniteSetsExt

CONSTANTS
    MaxDay,         \* bound: calendar days considered
    DailyCap,       \* risk.daily_trade_cap
    DayTradesPer5d, \* risk.day_trades_per_5d
    MarginSmall,    \* risk.account_type is margin_small
    MaxFaults       \* bound: writes that fail or are torn

ASSUME BudgetAssumption ==
    /\ MaxDay \in Nat \ {0} /\ DailyCap \in Nat /\ DayTradesPer5d \in Nat
    /\ MarginSmall \in BOOLEAN /\ MaxFaults \in Nat

VARIABLES
    day,        \* the calendar date
    up,         \* is the process running?
    session,    \* memory: _session_date
    trades,     \* memory: _trades
    kind,       \* disk: the file is "absent", "ok" or "torn"
    saved,      \* disk: what the file says
    made,       \* history: the approvals made
    faults,     \* history: the writes that went wrong
    forgotten   \* history: a boot read a ledger that lacked an approval

vars == <<day, up, session, trades, kind, saved, made, faults, forgotten>>

Days     == 1..MaxDay
Ledger   == [Days -> Nat]
Empty    == [d \in Days |-> 0]
Business == {d \in Days : d % 7 \notin {0, 6}}

\* _business_window: the last n business days up to end.
Window(end, n) ==
    {d \in Business : d <= end /\ Cardinality({e \in Business : d < e /\ e <= end}) < n}

Total(ledger, days) == MapThenSumSet(LAMBDA d : ledger[d], days)

TypeOK ==
    /\ day \in Days /\ up \in BOOLEAN /\ session \in Days
    /\ trades \in Ledger /\ saved \in Ledger /\ made \in Ledger
    /\ kind \in {"absent", "ok", "torn"} /\ faults \in 0..MaxFaults /\ forgotten \in BOOLEAN

Init ==
    /\ day = 1 /\ up = FALSE /\ session = 1 /\ trades = Empty
    /\ kind = "absent" /\ saved = Empty /\ made = Empty
    /\ faults = 0 /\ forgotten = FALSE

-----------------------------------------------------------------------------

UsedInWindow == Total(trades, Window(session, 5))
UsedToday    == trades[session]
Allows       == MarginSmall => UsedInWindow < DayTradesPer5d

\* Mutant: an unreadable ledger is an empty one.
UnreadableAsEmpty == Empty

\* An unreadable ledger counts as full, today.
Unreadable ==
    [Empty EXCEPT ![day] = IF DayTradesPer5d > DailyCap THEN DayTradesPer5d ELSE DailyCap]

Boot ==
    /\ ~up
    /\ up' = TRUE /\ session' = day
    /\ trades' = CASE kind = "ok" -> saved [] kind = "torn" -> Unreadable [] OTHER -> Empty
    /\ forgotten' = (forgotten \/ (kind # "torn" /\
                       \E d \in Window(day, 5) : trades'[d] < made[d]))
    /\ UNCHANGED <<day, kind, saved, made, faults>>

\* Mutants: the ledger keeps too few days; it counts what is left.
RecordedShort ==
    [d \in Days |-> IF d \in Window(session, 2)
                    THEN trades[d] + (IF d = session THEN 1 ELSE 0) ELSE 0]

RecordedDown == [trades EXCEPT ![session] = @ - 1]

\* record: today's approval is added, the days beyond ten are dropped.
Recorded ==
    [d \in Days |-> IF d \in Window(session, 10)
                    THEN trades[d] + (IF d = session THEN 1 ELSE 0) ELSE 0]

\* The ways a write ends: done, failed before or after the file was truncated.
Writes(payload) ==
    \/ kind' = "ok" /\ saved' = payload /\ UNCHANGED faults
    \/ /\ faults < MaxFaults /\ faults' = faults + 1
       /\ \/ kind' = "torn" /\ saved' = Empty
          \/ UNCHANGED <<kind, saved>>

\* The gates of evaluate that ask the ledger.  The exchange is open on business
\* days, and a process trades on the date it booted: its machine ends each day
\* in END_OF_DAY or LOCKED_OUT (TradingRuntime).
MayApprove ==
    /\ up /\ day = session /\ day \in Business
    /\ UsedToday < DailyCap /\ Allows

Record ==
    /\ MayApprove
    /\ trades' = Recorded /\ Writes(Recorded)
    /\ made' = [made EXCEPT ![day] = @ + 1]
    /\ UNCHANGED <<day, up, session, forgotten>>

\* The process dies while it records: there is no approval.
RecordDies ==
    /\ MayApprove
    /\ Writes(Recorded)
    /\ up' = FALSE /\ trades' = Empty
    /\ UNCHANGED <<day, session, made, forgotten>>

Dies ==
    /\ up
    /\ up' = FALSE /\ trades' = Empty
    /\ UNCHANGED <<day, session, kind, saved, made, faults, forgotten>>

NextDay ==
    /\ day < MaxDay
    /\ day' = day + 1
    /\ UNCHANGED <<up, session, trades, kind, saved, made, faults, forgotten>>

Next == Boot \/ Record \/ RecordDies \/ Dies \/ NextDay

Spec == Init /\ [][Next]_vars

-----------------------------------------------------------------------------
(* Properties.                                                             *)

\* No day sees more approvals than the cap, over any restarts and torn files,
\* unless a boot read a ledger whose last writes had failed (day_trades.py:95-98).
DailyCapHeld == ~forgotten => \A d \in Days : made[d] <= DailyCap

\* On a small margin account no five business days in a row, over weekends and
\* restarts, see more approvals than the budget, under the same condition.
RollingBudgetHeld ==
    MarginSmall /\ ~forgotten =>
        \A d \in Days : Total(made, Window(d, 5)) <= DayTradesPer5d

=============================================================================
