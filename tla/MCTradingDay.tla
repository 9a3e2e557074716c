---------------------------- MODULE MCTradingDay ----------------------------
(***************************************************************************)
(* A calm bar, one that breaks out to either side, and one that has run too  *)
(* far.  Marks: at the stop, below the debit, at the debit, at the target.    *)
(* The assumptions hold the pure functions that feed the score against what   *)
(* they are for, over every gap pattern of eight minutes and every day of up   *)
(* to three events.                                                           *)
(***************************************************************************)
EXTENDS TradingDay, BarResample, SignalGates

Bar(hi, lo, close, strong) == [t |-> 0, hi |-> hi, lo |-> lo, close |-> close,
                               strong |-> strong]
MCBars == {Bar(14, 10, 12, FALSE), Bar(16, 13, 16, TRUE), Bar(11, 8, 8, TRUE),
           Bar(20, 15, 20, TRUE)}
MCMarks == {2, 4, 7}

-----------------------------------------------------------------------------

\* The members of S, in order, and a session with a print in each of its minutes,
\* its prices all over the place.
InOrder(S) == SelectSeq([k \in 1..8 |-> k - 1], LAMBDA t : t \in S)
Session(S) ==
    [k \in DOMAIN InOrder(S) |->
        LET t == InOrder(S)[k] IN
        [t |-> t, open |-> t, hi |-> (5 * t) % 7, lo |-> -((3 * t) % 5), close |-> 10 + t,
         volume |-> t]]

\* The bars that are merged are those of one clock bucket, in order, none is lost
\* or counted twice, and no bar is merged that could still change (bars.py:48-74,
\* audit U2).
ASSUME ResampleIsGrouping ==
    \A S \in SUBSET (0..7), n \in {2, 3} :
        LET bars  == Session(S)
            ticks == InOrder({t \div n : t \in S})
            whole == [k \in DOMAIN ticks |-> Merge(SelectSeq(bars, LAMBDA b : b.t \div n = ticks[k]))]
        IN  /\ Resample(bars, n, FALSE) = whole
            /\ Resample(bars, n, TRUE) = IF whole = <<>> THEN <<>> ELSE Front(whole)

Events == [high : BOOLEAN, fomc : BOOLEAN, at : {AllDay, 10}, bias : {"none", "LONG", "SHORT"}]

\* Whether the day is blacked out does not depend on the order of the rows, and is
\* so exactly inside a window, on a locked FOMC day or under an all-day watch without
\* a bias (calendar.py:86-115); the last bias of the file holds otherwise.
ASSUME VerdictIsOrderFree ==
    \A events \in UNION {[1..k -> Events] : k \in 0..2}, now \in {4, 5, 15, 16} :
        LET high  == {k \in DOMAIN events : events[k].high}
            black == \E k \in high :
                        \/ events[k].fomc /\ FomcLockout
                        \/ events[k].at = AllDay /\ events[k].bias = "none"
                        \/ events[k].at = 10 /\ now \in 5..15
            last_ == {k \in high : events[k].bias # "none"}
            bias  == IF black \/ last_ = {} THEN "none" ELSE events[Max(last_)].bias
        IN  EventVerdict(events, now) = [blackout |-> black, bias |-> bias]

\* The scorer's own gate for a wrong-way side changes nothing after the runtime has
\* dropped that side (app.py:394-396, engine.py:76-77), and without gates a side goes
\* with the regime.
ASSUME GatesAgree ==
    \A side \in {"none", "LONG", "SHORT"}, bias \in {"none", "LONG", "SHORT"},
       black, width, extreme, ready, thin \in BOOLEAN, vix \in {0, 30, 31},
       regime \in {"TREND_UP", "TREND_DOWN", "RANGE"}, imbalance \in {-60, 0, 60} :
        LET verdict == [blackout |-> black, bias |-> bias]
            depth   == [ready |-> ready, imbalance |-> imbalance, thinning |-> thin]
            gated(s) == HardGated(s, width, verdict, extreme, vix, regime, depth)
        IN  /\ gated(Directed(side, verdict)) = gated(side)
            /\ ~gated(side) => /\ side \in {"LONG", "SHORT"} /\ bias # (IF side = "LONG" THEN "SHORT" ELSE "LONG")
                               /\ regime # (IF side = "LONG" THEN "TREND_DOWN" ELSE "TREND_UP")
                               /\ (BookGate /\ ready => ~thin /\ imbalance # (IF side = "LONG" THEN -60 ELSE 60))
=============================================================================
