---------------------------- MODULE Conviction ----------------------------
(***************************************************************************)
(* The perfect-setup detector of V2 (conviction.py): which side's conditions *)
(* a snapshot of the metrics fulfils.  A snapshot is a function from the      *)
(* metrics that are known to their values.                                   *)
(***************************************************************************)
EXTENDS Integers, Sequences, FiniteSets

CONSTANTS
    Conditions,    \* of each side, those enabled: <<[metric, op, value], ...>>
    RequiredPct,   \* min_conditions_pct
    Cooldown       \* cooldown_min

Passes(c, snap) ==
    /\ c.metric \in DOMAIN snap
    /\ LET v    == snap[c.metric]
           size == IF v < 0 THEN -v ELSE v
       IN  CASE c.op = "<="    -> v <= c.value
             [] c.op = ">="    -> v >= c.value
             [] c.op = "abs>=" -> size >= c.value
             [] c.op = "abs<=" -> size <= c.value

Passed(side, snap) ==
    Cardinality({k \in DOMAIN Conditions[side] : Passes(Conditions[side][k], snap)})

\* fired says when each side fired last, if it did.
Cooling(side, fired, now) == side \in DOMAIN fired /\ now - fired[side] < Cooldown

Fulfils(side, snap) ==
    /\ Conditions[side] # <<>>
    /\ 100 * Passed(side, snap) >= RequiredPct * Len(Conditions[side])

Stronger(a, b, snap) ==
    Passed(a, snap) * Len(Conditions[b]) > Passed(b, snap) * Len(Conditions[a])

\* The side that fires, or "none"; of two, the long one unless the short is stronger.
Fires(snap, fired, now) ==
    LET able(side) == Fulfils(side, snap) /\ ~Cooling(side, fired, now)
    IN  CASE able("LONG") /\ ~(able("SHORT") /\ Stronger("SHORT", "LONG", snap)) -> "LONG"
          [] able("SHORT") /\ ~(able("LONG") /\ ~Stronger("SHORT", "LONG", snap)) -> "SHORT"
          [] OTHER -> "none"
=============================================================================
