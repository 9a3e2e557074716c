---------------------------- MODULE OpeningRange ----------------------------
(***************************************************************************)
(* features/opening_range.py: the range of the first ORBars minutes and the  *)
(* breakouts of it.  A bar is its minute, its high, low and close, and        *)
(* whether its volume and the place of its close confirm a breakout.         *)
(*                                                                         *)
(* add_bar skips a bar it has seen, so the tracker is fed every new bar once. *)
(* The time of the first confirmation only ages the score and is left out.   *)
(***************************************************************************)
EXTENDS Integers, FiniteSetsExt

CONSTANTS
    ORBars,              \* bars from or_start to or_end
    Buffer,              \* breakout_buffer_pct, as a price
    ChasePct,            \* max_chase_frac
    MinWidth, MaxWidth   \* the width filter, ATR multiple included

ASSUME RangeAssumption ==
    /\ ORBars \in Nat \ {0} /\ Buffer \in Nat /\ ChasePct \in Nat
    /\ MinWidth \in Nat /\ MaxWidth \in Nat

Sides   == {"LONG", "SHORT"}
NoRange == [hi |-> 0, lo |-> 0, n |-> 0, complete |-> FALSE]

InWindow(bar) == bar.t <= ORBars

\* Bars of the window widen the range; the first later one completes it.
AddBar(bar, r) ==
    IF InWindow(bar)
    THEN [r EXCEPT !.hi = IF r.n = 0 THEN bar.hi ELSE Max({@, bar.hi}),
                   !.lo = IF r.n = 0 THEN bar.lo ELSE Min({@, bar.lo}),
                   !.n = @ + 1]
    ELSE [r EXCEPT !.complete = @ \/ r.n > 0]

WidthOk(r) == r.complete /\ r.hi - r.lo \in MinWidth..MaxWidth

\* How far the bar closes beyond an edge must be at most a share of the width.
Chased(r, ext) == 100 * ext > ChasePct * (r.hi - r.lo)

\* The side of the breakout the bar confirms, or "none".
Breakout(r, bar) ==
    CASE ~r.complete \/ r.hi <= r.lo -> "none"
      [] r.complete /\ r.hi > r.lo /\ bar.close > r.hi + Buffer ->
            IF bar.strong /\ ~Chased(r, bar.close - r.hi) THEN "LONG" ELSE "none"
      [] r.complete /\ r.hi > r.lo /\ bar.close < r.lo - Buffer ->
            IF bar.strong /\ ~Chased(r, r.lo - bar.close) THEN "SHORT" ELSE "none"
      [] OTHER -> "none"
=============================================================================
