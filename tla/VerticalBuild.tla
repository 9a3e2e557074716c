--------------------------- MODULE VerticalBuild ---------------------------
(***************************************************************************)
(* Vertical construction (execution/verticals.py): the search of the option *)
(* chain for a debit vertical.  A chain is a sequence of options             *)
(*   [call, strike, delta, interest, bid, ask]                              *)
(* with the delta absolute and in per cent, 0 for an unknown one, prices in   *)
(* cents, and a bid or ask of 0 for a missing quote.  Mids are whole cents.   *)
(***************************************************************************)
EXTENDS Integers, Sequences, SequencesExt, FiniteSetsExt

CONSTANTS
    DeltaLo, DeltaHi,        \* long_delta_min, long_delta_max
    MinInterest,             \* min_open_interest
    LegSpread, LegSpreadPct, \* max_leg_spread_abs, max_leg_spread_pct_of_mid
    ComboSpread,             \* max_combo_spread
    Span,                    \* width of the vertical
    DebitLoPct, DebitHiPct   \* min_debit_pct_of_width, max_debit_pct_of_width

NoVertical == [long |-> 0, short |-> 0, debit |-> 0]

Mid(o) == (o.bid + o.ask) \div 2

LegLiquidityOk(o) ==
    /\ o.bid > 0 /\ o.ask > 0 /\ o.ask - o.bid <= LegSpread
    /\ 200 * (o.ask - o.bid) <= LegSpreadPct * (o.bid + o.ask)

\* The long legs in the delta band, those nearest to its middle first.
Candidates(chain, call) ==
    LET off(i) == LET d == 2 * chain[i].delta - DeltaLo - DeltaHi IN IF d < 0 THEN -d ELSE d
    IN  SetToSortSeq({i \in DOMAIN chain : /\ chain[i].call = call
                                           /\ chain[i].delta \in DeltaLo..DeltaHi
                                           /\ chain[i].interest >= MinInterest},
                     LAMBDA i, j : off(i) < off(j) \/ (off(i) = off(j) /\ i < j))

\* The vertical over long leg i, NoVertical when there is no short leg.
Pair(chain, i, call) ==
    LET strike == IF call THEN chain[i].strike + Span ELSE chain[i].strike - Span
        shorts == {j \in DOMAIN chain : chain[j].call = call /\ chain[j].strike = strike}
        short  == Min(shorts)
    IN  IF shorts = {} THEN NoVertical
        ELSE [long |-> i, short |-> short, debit |-> Mid(chain[i]) - Mid(chain[short])]

Liquid(chain, v) ==
    LET l == chain[v.long]
        s == chain[v.short]
    IN  /\ s.interest >= MinInterest /\ LegLiquidityOk(l) /\ LegLiquidityOk(s)
        /\ (l.ask - s.bid) - (l.bid - s.ask) <= ComboSpread

BelowFloor(v) == 100 * v.debit < DebitLoPct * Span
AboveCap(v)   == 100 * v.debit > DebitHiPct * Span

\* The first of four candidates that is liquid and not too dear decides: a debit
\* below the floor ends the search without a vertical.
Build(chain, call) ==
    LET four  == SubSeq(Candidates(chain, call), 1, Min({4, Len(Candidates(chain, call))}))
        tried == SelectSeq([k \in DOMAIN four |-> Pair(chain, four[k], call)],
                           LAMBDA v : v # NoVertical /\ Liquid(chain, v) /\ ~AboveCap(v))
    IN  IF tried = <<>> \/ BelowFloor(Head(tried)) THEN NoVertical ELSE Head(tried)
=============================================================================
