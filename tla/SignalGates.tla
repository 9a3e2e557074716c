---------------------------- MODULE SignalGates ----------------------------
(***************************************************************************)
(* The gates in front of a score: the event calendar (data/calendar.py) and *)
(* the hard gates of the scorer (scoring/engine.py).  An event of the day is *)
(*   [high, fomc, at, bias]                                                  *)
(* with at its minute, or AllDay, and bias a side or "none".                 *)
(***************************************************************************)
EXTENDS Integers, Sequences, SequencesExt

CONSTANTS
    FomcLockout,                  \* events.fomc_day_lockout
    BlackoutBefore, BlackoutAfter,
    VixHardMax,
    BookGate, BookConflict        \* book_gate_enabled, book_conflict_threshold in per cent

AllDay   == -1
Clear    == [blackout |-> FALSE, bias |-> "none"]
Blackout == [blackout |-> TRUE, bias |-> "none"]

\* One event of evaluate's loop; a blackout returns at once.
Look(verdict, e, now) ==
    LET biased == [verdict EXCEPT !.bias = IF e.bias = "none" THEN @ ELSE e.bias]
    IN  IF verdict.blackout \/ ~e.high THEN verdict
        ELSE IF e.fomc /\ FomcLockout THEN Blackout
        ELSE IF e.at = AllDay
        THEN IF e.bias = "none" THEN Blackout ELSE biased
        ELSE IF now \in e.at - BlackoutBefore..e.at + BlackoutAfter THEN Blackout ELSE biased

EventVerdict(events, now) == FoldLeft(LAMBDA v, e : Look(v, e, now), Clear, events)

\* _score_and_maybe_trade: on a bias-only day the other side does not exist.
Directed(side, verdict) ==
    IF verdict.bias \notin {"none", side} THEN "none" ELSE side

\* The imbalance, in per cent, against the side; without a book nothing is.
Against(side, book) == IF side = "LONG" THEN -book.imbalance ELSE book.imbalance

\* What zeroes the score, whatever its points; vix = 0 is an unknown one.
HardGated(side, widthOk, verdict, extreme, vix, regime, book) ==
    \/ side = "none" \/ ~widthOk \/ verdict.blackout \/ extreme
    \/ side # "none" /\ verdict.bias \notin {"none", side}
    \/ vix > VixHardMax
    \/ side = "LONG" /\ regime = "TREND_DOWN"
    \/ side = "SHORT" /\ regime = "TREND_UP"
    \/ /\ BookGate /\ book.ready /\ side # "none"
       /\ Against(side, book) > BookConflict \/ book.thinning
=============================================================================
