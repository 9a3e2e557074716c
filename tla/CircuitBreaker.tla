--------------------------- MODULE CircuitBreaker ---------------------------
(***************************************************************************)
(* The daily-loss and survival breaker of godmode0dte/risk/                *)
(* circuit_breaker.py, with the equity plausibility gate of                *)
(* RiskGovernor.update_equity that feeds it, the three files it persists   *)
(* (lockout.json, baseline.json, peak.json) and the process restarts they  *)
(* exist for.                                                              *)
(*                                                                         *)
(* The Python code is synchronous: an operation runs to its end before     *)
(* another starts, but the process can die between any two file writes, or *)
(* inside one (Path.write_text truncates, then writes).  An operation here *)
(* updates the memory and leaves in todo the writes still to be done, in   *)
(* the code's order; no operation starts before todo is empty.  Zero       *)
(* stands for None and for 0.0, which the code never tells apart.          *)
(***************************************************************************)
EXTENDS Integers, Sequences

CONSTANTS
    Readings,       \* positive net-liquidation values the broker may report
    DailyLossPct,   \* risk.daily_loss_limit_pct
    DrawdownPct,    \* risk.max_drawdown_from_peak_pct
    MaxDay,         \* bound: number of session days considered
    DiskFaults      \* may a write fail (OSError) or be torn by a crash?

ASSUME ReadingsAssumption == Readings \subseteq Nat \ {0}
ASSUME LimitsAssumption ==
    /\ DailyLossPct \in Nat \ {0} /\ DrawdownPct \in Nat \ {0}
    /\ MaxDay \in Nat \ {0}
    /\ DiskFaults \in BOOLEAN

VARIABLES
    day,        \* the calendar date
    up,         \* is the process running?
    session,    \* memory: _session_date, fixed when the process booted
    bstate,     \* memory: BreakerState
    reason,     \* memory: _trip_reason, by its cause
    start,      \* memory: _starting_equity
    peak,       \* memory: _peak
    equity,     \* memory: the governor's accepted _equity
    pending,    \* memory: the governor's _pending_equity, as value and count
    probe,      \* memory: the argument of the check in progress
    todo,       \* memory: what the operation in progress has still to do
    lockoutF, baselineF, peakF,   \* disk: the three state files
    survEquity, \* history: the equity at which the survival lock was last set
    ackEquity,  \* history: that equity, once the operator has acknowledged it
    survOwed    \* history: a durable survival lock nobody has acknowledged

memory   == <<up, session, bstate, reason, start, peak, equity, pending, probe, todo>>
disk     == <<lockoutF, baselineF, peakF>>
history  == <<survEquity, ackEquity, survOwed>>
governor == <<equity, pending>>
vars     == <<day, memory, disk, history>>

Days   == 1..MaxDay
Causes == {"none", "restored", "survival", "daily", "manual"}
Jobs   == {"baseline", "check", "peak", "limits", "peakSurv", "lockout"}
Writes == {"baseline", "peak", "peakSurv", "lockout"}
Kinds  == {"absent", "ok", "torn"}

FileType  == [kind : Kinds, date : Nat, value : Nat, surv : BOOLEAN]
Absent    == [kind |-> "absent", date |-> 0, value |-> 0, surv |-> FALSE]
Torn      == [kind |-> "torn", date |-> 0, value |-> 0, surv |-> FALSE]
Saved(d, v, s) == [kind |-> "ok", date |-> d, value |-> v, surv |-> s]
NoPending == [value |-> 0, n |-> 0]
Idle      == up /\ todo = <<>>

Distance(a, b)       == IF a > b THEN a - b ELSE b - a
DailyBreach(base, e) == 100 * (base - e) >= DailyLossPct * base
PeakBreach(top, e)   == 100 * (top - e) >= DrawdownPct * top

TypeOK ==
    /\ day \in Days /\ session \in Days /\ up \in BOOLEAN
    /\ bstate \in {"ARMED", "TRIPPED", "LOCKED"} /\ reason \in Causes
    /\ start \in Nat /\ peak \in Nat /\ equity \in Nat /\ probe \in Nat
    /\ pending \in [value : Nat, n : Nat]
    /\ todo \in Seq(Jobs)
    /\ lockoutF \in FileType /\ baselineF \in FileType /\ peakF \in FileType
    /\ survEquity \in Nat /\ ackEquity \in Nat /\ survOwed \in BOOLEAN

Init ==
    /\ day = 1 /\ session = 1 /\ up = FALSE
    /\ bstate = "ARMED" /\ reason = "none"
    /\ start = 0 /\ peak = 0 /\ equity = 0 /\ probe = 0
    /\ pending = NoPending /\ todo = <<>>
    /\ lockoutF = Absent /\ baselineF = Absent /\ peakF = Absent
    /\ survEquity = 0 /\ ackEquity = 0 /\ survOwed = FALSE

-----------------------------------------------------------------------------
(* Boot: __init__ restores lockout, baseline and peak, in that order.      *)

LockedByLockout ==
    \/ lockoutF.kind = "torn"
    \/ lockoutF.kind = "ok" /\ lockoutF.date = day
SurvivalOnDisk  == peakF.kind = "ok" /\ peakF.surv

\* Mutant: the acknowledgement of the drawdown lifts the day's lockout as well.
RestoredAcknowledged(ack) ==
    IF (LockedByLockout \/ SurvivalOnDisk) /\ ~ack THEN "LOCKED" ELSE "ARMED"

Restored(ack) ==
    IF LockedByLockout \/ (SurvivalOnDisk /\ ~ack) THEN "LOCKED" ELSE "ARMED"

\* ack: the environment holds GODMODE_ACK_DRAWDOWN=YES.
Boot(ack) ==
    /\ ~up
    /\ up' = TRUE /\ session' = day
    /\ start' = IF baselineF.kind = "ok" /\ baselineF.date = day
                THEN baselineF.value ELSE 0
    /\ peak' = IF peakF.kind = "ok" THEN peakF.value ELSE 0
    /\ bstate' = Restored(ack)
    /\ reason' = CASE SurvivalOnDisk /\ ~ack -> "survival"
                   [] LockedByLockout /\ ~(SurvivalOnDisk /\ ~ack) -> "restored"
                   [] OTHER -> "none"
    /\ todo' = IF SurvivalOnDisk /\ ack THEN <<"peak">> ELSE <<>>
    /\ equity' = 0 /\ pending' = NoPending /\ probe' = 0
    /\ ackEquity' = IF SurvivalOnDisk /\ ack THEN survEquity ELSE 0
    /\ survOwed' = (survOwed /\ ~ack)
    /\ UNCHANGED <<day, disk, survEquity>>

-----------------------------------------------------------------------------
(* RiskGovernor.update_equity, one action per way out.                     *)

Jump(e) == equity > 0 /\ 5 * Distance(e, equity) > equity     \* > 20 %

\* The quarantine count after reading e: within 5 % of the first held value
\* counts on, anything else starts again.
Held(e) ==
    IF pending.value > 0 /\ 20 * Distance(e, pending.value) <= pending.value
    THEN [value |-> pending.value, n |-> pending.n + 1]
    ELSE [value |-> e, n |-> 1]

FarFirst(e) == equity = 0 /\ start > 0 /\ 10 * Distance(e, start) > 3 * start

\* A reading that is kept out ends in breaker.check of another value.
CheckOnly(e) ==
    /\ probe' = e /\ todo' = <<"check">>
    /\ UNCHANGED <<day, up, session, bstate, reason, start, peak, equity, disk, history>>

\* Mutant: the rejected reading itself is checked, not the equity held.
NonPositiveReadingChecked ==
    /\ Idle
    /\ CheckOnly(-1) /\ UNCHANGED pending

NonPositiveReading ==
    /\ Idle
    /\ CheckOnly(equity) /\ UNCHANGED pending

QuarantineReading(e) ==
    /\ Idle /\ Jump(e) /\ Held(e).n < 3
    /\ pending' = Held(e)
    /\ CheckOnly(equity)

FarFirstReading(e) ==
    /\ Idle /\ FarFirst(e)
    /\ CheckOnly(0) /\ UNCHANGED pending

\* Mutant: the check is called before the reading becomes the equity.
AcceptReadingLate(e) ==
    /\ Idle /\ (Jump(e) => Held(e).n >= 3) /\ ~FarFirst(e)
    /\ equity' = e /\ pending' = NoPending /\ probe' = equity
    /\ start' = IF start = 0 THEN e ELSE start
    /\ todo' = IF start = 0 THEN <<"baseline", "check">> ELSE <<"check">>
    /\ UNCHANGED <<day, up, session, bstate, reason, peak, disk, history>>

AcceptReading(e) ==
    /\ Idle /\ (Jump(e) => Held(e).n >= 3) /\ ~FarFirst(e)
    /\ equity' = e /\ pending' = NoPending /\ probe' = e
    /\ start' = IF start = 0 THEN e ELSE start
    /\ todo' = IF start = 0 THEN <<"baseline", "check">> ELSE <<"check">>
    /\ UNCHANGED <<day, up, session, bstate, reason, peak, disk, history>>

-----------------------------------------------------------------------------
(* CircuitBreaker.check: the peak first, then both limits if still armed.  *)

CheckPeak ==
    /\ up /\ todo = <<"check">>
    /\ peak' = IF probe > peak THEN probe ELSE peak
    /\ todo' = IF probe > peak THEN <<"peak", "limits">> ELSE <<"limits">>
    /\ UNCHANGED <<day, up, session, bstate, reason, start, governor, probe, disk, history>>

Watching     == bstate = "ARMED" /\ start > 0
DailyTrip    == Watching /\ DailyBreach(start, probe)
SurvivalTrip == Watching /\ peak > 0 /\ probe > 0 /\ PeakBreach(peak, probe)

\* The daily trip persists its lockout before the survival rule is looked at;
\* the survival rule, if it is first, persists its flag before it trips.
TripJobs ==
    CASE DailyTrip /\ SurvivalTrip  -> <<"lockout", "peakSurv">>
      [] DailyTrip /\ ~SurvivalTrip -> <<"lockout">>
      [] ~DailyTrip /\ SurvivalTrip -> <<"peakSurv", "lockout">>
      [] OTHER                      -> <<>>

\* Mutant: the survival rule persists its flag and forgets to trip.
CheckLimitsFlagOnly ==
    /\ up /\ todo = <<"limits">>
    /\ bstate' = IF DailyTrip THEN "TRIPPED" ELSE bstate
    /\ reason' = IF DailyTrip THEN "daily" ELSE reason
    /\ todo' = TripJobs
    /\ survEquity' = IF SurvivalTrip THEN probe ELSE survEquity
    /\ UNCHANGED <<day, up, session, start, peak, governor, probe, disk, ackEquity, survOwed>>

CheckLimits ==
    /\ up /\ todo = <<"limits">>
    /\ bstate' = IF DailyTrip \/ SurvivalTrip THEN "TRIPPED" ELSE bstate
    /\ reason' = CASE DailyTrip                    -> "daily"
                   [] SurvivalTrip /\ ~DailyTrip -> "survival"
                   [] OTHER                       -> reason
    /\ todo' = TripJobs
    /\ survEquity' = IF SurvivalTrip THEN probe ELSE survEquity
    /\ UNCHANGED <<day, up, session, start, peak, governor, probe, disk, ackEquity, survOwed>>

\* trip, called by kill, by the dead-feed rule and by the crash handler.
Trip ==
    /\ Idle /\ bstate = "ARMED"
    /\ bstate' = "TRIPPED" /\ reason' = "manual" /\ todo' = <<"lockout">>
    /\ UNCHANGED <<day, up, session, start, peak, governor, probe, disk, history>>

\* confirm_flat, called by the governor when no position is left open.
ConfirmFlat ==
    /\ Idle /\ bstate = "TRIPPED"
    /\ bstate' = "LOCKED"
    /\ UNCHANGED <<day, up, session, reason, start, peak, governor, probe, todo,
                   disk, history>>

-----------------------------------------------------------------------------
(* The files.                                                              *)

LockoutPayload  == Saved(session, 0, FALSE)
BaselinePayload == Saved(session, start, FALSE)
PeakPayload(s)  == Saved(0, peak, s)

\* The file of job j becomes as given by the three values.
Put(j, lock, base, top) ==
    /\ lockoutF'  = IF j = "lockout" THEN lock ELSE lockoutF
    /\ baselineF' = IF j = "baseline" THEN base ELSE baselineF
    /\ peakF'     = IF j \in {"peak", "peakSurv"} THEN top ELSE peakF

Write ==
    /\ up /\ todo # <<>> /\ Head(todo) \in Writes
    /\ Put(Head(todo), LockoutPayload, BaselinePayload,
           PeakPayload(Head(todo) = "peakSurv"))
    /\ todo' = Tail(todo)
    /\ survOwed' = (survOwed \/ Head(todo) = "peakSurv")
    /\ UNCHANGED <<day, up, session, bstate, reason, start, peak, governor, probe,
                   survEquity, ackEquity>>

\* OSError.  A failing write_text may already have truncated the file.  The
\* lockout and peak writers swallow the error; set_starting_equity does not,
\* and its exception skips the check that would have followed.
WriteFails ==
    /\ DiskFaults /\ up /\ todo # <<>> /\ Head(todo) \in Writes
    /\ \/ Put(Head(todo), Torn, Torn, Torn)
       \/ UNCHANGED disk
    /\ todo' = IF Head(todo) = "baseline" THEN <<>> ELSE Tail(todo)
    /\ UNCHANGED <<day, up, session, bstate, reason, start, peak, governor, probe,
                   history>>

-----------------------------------------------------------------------------
(* The environment.                                                        *)

\* The process dies: the memory is lost, and a write may be cut in half.
Crash ==
    /\ up
    /\ \/ UNCHANGED disk
       \/ /\ DiskFaults /\ todo # <<>>
          /\ Put(Head(todo), Torn, Torn, Torn)
    /\ up' = FALSE /\ bstate' = "ARMED" /\ reason' = "none"
    /\ start' = 0 /\ peak' = 0 /\ equity' = 0 /\ probe' = 0
    /\ pending' = NoPending /\ todo' = <<>> /\ ackEquity' = 0
    /\ UNCHANGED <<day, session, survEquity, survOwed>>

\* Midnight; a process that is not restarted keeps its old session date.
NextDay ==
    /\ day < MaxDay /\ (up => todo = <<>>)
    /\ day' = day + 1
    /\ UNCHANGED <<memory, disk, history>>

Next ==
    \/ \E ack \in BOOLEAN : Boot(ack)
    \/ NonPositiveReading
    \/ \E e \in Readings : QuarantineReading(e) \/ FarFirstReading(e) \/ AcceptReading(e)
    \/ CheckPeak \/ CheckLimits \/ Trip \/ ConfirmFlat
    \/ Write \/ WriteFails
    \/ Crash \/ NextDay

Spec == Init /\ [][Next]_vars

-----------------------------------------------------------------------------
(* Properties.                                                             *)

\* A lockout that reached the disk binds its whole session date: no process of
\* that date is armed, whatever crashes, restarts and disk faults come between
\* (deploy/README.md:85, circuit_breaker.py:8-10).
LockoutHolds ==
    up /\ lockoutF.kind = "ok" /\ lockoutF.date = session => bstate # "ARMED"

\* Between operations an armed breaker's accepted equity is inside the daily
\* limit: no path through quarantine, restart, failed baseline write or far
\* first reading leaves a breach unnoticed (circuit_breaker.py:76-85, governor.py:88-119).
ArmedWithinDailyLimit ==
    Idle /\ bstate = "ARMED" /\ start > 0 /\ equity > 0 => ~DailyBreach(start, equity)

\* A process that was not started with the acknowledgement is never armed over
\* a peak file that carries the survival flag (circuit_breaker.py:123-133).
SurvivalFlagHonoured ==
    Idle /\ ackEquity = 0 /\ SurvivalOnDisk => bstate # "ARMED"

\* A readable baseline of a date is never overwritten on that date: a mid-day
\* restart cannot re-anchor the daily limit (circuit_breaker.py:53-57, audit B6).
BaselineImmutable ==
    [][(baselineF.kind = "ok" /\ baselineF'.kind = "ok" /\ baselineF.date = baselineF'.date)
       => baselineF'.value = baselineF.value]_vars

\* The all-time peak on disk never falls from one readable file to the next
\* (circuit_breaker.py:101-104).
PeakNeverFalls ==
    [][(peakF.kind = "ok" /\ peakF'.kind = "ok") => peakF'.value >= peakF.value]_vars

Gate == INSTANCE SessionGate WITH
            gate   <- IF up THEN bstate ELSE "off",
            sealed <- LockedByLockout,
            date   <- day

\* The breaker is a session gate: on a date the lockout file blocks, readable or
\* torn, nothing starts armed and nothing but midnight lifts the block; a process
\* once tripped is never armed again (circuit_breaker.py:8-10, 136-143).
GateHolds == Gate!Spec

\* What the comment at circuit_breaker.py:86-89 and docs/SMALL_ACCOUNTS.md:194-197
\* say: once the survival lock is on disk, only the operator's acknowledgement
\* re-arms.
SurvivalLockPersists == survOwed /\ up => bstate # "ARMED"

=============================================================================
