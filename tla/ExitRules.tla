------------------------------ MODULE ExitRules ------------------------------
(***************************************************************************)
(* Why a position is closed: the rules of execution/exits.py for the real    *)
(* book and of monitoring/shadow.py for the shadow book.                     *)
(*                                                                         *)
(* A real position is its side, its mark, whether that mark was ever taken    *)
(* from quotes, its age (Current, Stale beyond mark_staleness_sec, Frozen     *)
(* beyond ten times that; of the entry, if there never was one), and whether *)
(* its counter of stop marks is above zero.  Every debit is Debit.           *)
(***************************************************************************)
EXTENDS Integers, FiniteSetsExt

CONSTANTS
    Debit, Width,          \* of every vertical
    StopPct,               \* hard_stop_pct
    TargetPct, WidthPct    \* profit_target_mult and _width_frac

ASSUME ExitAssumption ==
    /\ Debit \in Nat \ {0} /\ Width \in Nat /\ StopPct \in 0..100
    /\ TargetPct \in Nat /\ WidthPct \in Nat

Current == 0
Stale   == 1
Frozen  == 2

AtStop(m)   == 100 * m <= Debit * (100 - StopPct)
AtTarget(m) == 100 * m >= Min({Debit * TargetPct, Width * WidthPct})
NoGain(m)   == 100 * m < 110 * Debit

\* A mark that was never taken is the fill, and passes for fresh.
Fresh(p)   == ~p.stamped \/ p.age = Current

\* Mutant: only a mark that was taken once can be frozen.
BlindTaken(p) == p.stamped /\ p.age = Frozen

Blind(p)   == p.age = Frozen

\* Mutant: a mark above the stop leaves the counter alone.
HitsKept(p) == p.hit \/ (AtStop(p.mark) /\ Fresh(p))

\* The counter after a look: a stale mark at the stop leaves it alone.
Hits(p)     == AtStop(p.mark) /\ (p.hit \/ Fresh(p))
HardStop(p) == AtStop(p.mark) /\ Fresh(p) /\ p.hit

\* _evaluate_position: broke says that the price is back through the trigger, old
\* that max_hold_min is over, flush that it is past stale_flush.
Reason(p, broke, old, flush) ==
    CASE HardStop(p)                                       -> "hard_stop"
      [] ~HardStop(p) /\ Blind(p)                          -> "stale_mark"
      [] OTHER ->
         IF AtTarget(p.mark) THEN "profit_target"
         ELSE IF broke /\ NoGain(p.mark) THEN "structure_stop"
         ELSE IF (old /\ NoGain(p.mark)) \/ (flush /\ p.mark < Debit) THEN "time_stop"
         ELSE "none"

\* A shadow judges whatever mark it has, and knows neither age nor trigger.
ShadowEnds(s, old) ==
    \/ AtStop(s.mark) /\ s.hit
    \/ AtTarget(s.mark)
    \/ old /\ NoGain(s.mark)
=============================================================================
