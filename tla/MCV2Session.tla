----------------------------- MODULE MCV2Session ----------------------------
(***************************************************************************)
(* An account of 12 units and options sized at 1 and paid 1 or 2: the 24 %  *)
(* setup is two contracts, and the day of 25 % holds one such loss and one  *)
(* contract more.  One bought at 2 is at its stop at 1; one bought at 1     *)
(* scales out at 2, and the rest trails 40 % below.  At 0 there is no bid, and*)
(* two bought at 2 take the account beyond its limit.  The assumption holds *)
(* the detector that starts a purchase against what it is for, over all     *)
(* snapshots of three metrics.                                              *)
(***************************************************************************)
EXTENDS V2Session, Conviction

MCScaleOuts == <<<<2, 50>>>>

If(metric, op, value) == [metric |-> metric, op |-> op, value |-> value]
MCConditions ==
    [LONG  |-> <<If("rsi", "<=", 1), If("stretch", "<=", -2), If("volume", ">=", 2)>>,
     SHORT |-> <<If("rsi", ">=", 3), If("stretch", ">=", 2), If("volume", "abs>=", 2)>>]

Metrics   == {"rsi", "stretch", "volume"}
Snapshots == UNION {[S -> {-2, 1, 2, 3}] : S \in SUBSET Metrics}
Fired     == UNION {[S -> {0, 10}] : S \in SUBSET {"LONG", "SHORT"}}

\* A metric that is missing never helps a side, a side that fires fulfils its
\* conditions and is not cooling, and no side that is more perfect is passed over
\* (conviction.py:58-67, 98-127).
ASSUME DetectorIsSound ==
    /\ \A snap \in Snapshots, less \in SUBSET Metrics, side \in {"LONG", "SHORT"} :
          less \subseteq DOMAIN snap /\ Fulfils(side, [m \in less |-> snap[m]])
              => Fulfils(side, snap)
    /\ \A snap \in Snapshots, fired \in Fired :
          LET able == {s \in {"LONG", "SHORT"} : Fulfils(s, snap) /\ ~Cooling(s, fired, 20)}
              best == Fires(snap, fired, 20)
          IN  IF able = {} THEN best = "none"
              ELSE best \in able /\ \A s \in able : Passed(s, snap) <= Passed(best, snap)
=============================================================================
