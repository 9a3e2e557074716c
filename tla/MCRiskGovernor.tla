--------------------------- MODULE MCRiskGovernor ---------------------------
(***************************************************************************)
(* Numbers at which every gate of evaluate decides something.  An account   *)
(* of 9000 with a vertical of 100 (cap price 110, 120 with fees): the 4 %   *)
(* cap holds three contracts, the half step of the ladder one, the 7 % heat *)
(* cap five, the 6 % day four.  A vertical of 50 fails the fee floor.       *)
(* Three contracts lost are exactly the soft tier, and leave one contract   *)
(* of the day.  Buying power of 4000 needs the one-lot minimum, 2900 is     *)
(* beyond it.  The debits are those of the verticals that Build finds in    *)
(* chains of two candidates, each quoted too low, at either debit, too dear, *)
(* too wide or not at all.                                                  *)
(***************************************************************************)
EXTENDS RiskGovernor, VerticalBuild

MCLadder       == {50, 100}
MCAsked        == {9}
MCBuyingPowers == {0, 2900, 4000}
MCBetter       == {100}
MCValues       == {0, 120}

Tight(mid)  == [bid |-> mid - 1, ask |-> mid + 1]
LongQuotes  == {Tight(130), Tight(150), Tight(200), Tight(260),
                [bid |-> 180, ask |-> 220], [bid |-> 0, ask |-> 2]}
ShortQuotes == {Tight(100), [bid |-> 0, ask |-> 2]}

\* The leg that is further out of the money is the one nearer to the band's middle.
Chain(call, a, b, c, d) ==
    LET out(n) == IF call THEN 100 * n ELSE -100 * n
        Option(strike, delta, q) == [call |-> call, strike |-> strike, delta |-> delta,
                                     interest |-> 500, bid |-> q.bid, ask |-> q.ask]
    IN  <<Option(out(1), 60, a), Option(out(2), 52, b),
          Option(out(4), 20, c), Option(out(5), 0, d)>>

MCChains == {Chain(call, a, b, c, d) : call \in BOOLEAN, a \in LongQuotes, b \in LongQuotes,
                                       c \in ShortQuotes, d \in ShortQuotes}
Built    == {Build(chain, chain[1].call) : chain \in MCChains} \ {NoVertical}
MCDebits == {v.debit : v \in Built}

\* build_vertical (verticals.py:54-123) gives up a chain that holds an acceptable
\* vertical only for a debit below the floor over a candidate it prefers, and what it
\* returns is acceptable and no other acceptable one is preferred.
ASSUME BuildIsSearch ==
    \A chain \in MCChains :
        LET call == chain[1].call
            rank == Candidates(chain, call)
            v(k) == Pair(chain, rank[k], call)
            good == {k \in DOMAIN rank : v(k) # NoVertical /\ Liquid(chain, v(k)) /\ ~AboveCap(v(k))}
            fine == {k \in good : ~BelowFloor(v(k))}
            found == Build(chain, call)
        IN  /\ Build(chain, ~call) = NoVertical
            /\ found = NoVertical <=> \A k \in fine : \E j \in good \ fine : j < k
            /\ found # NoVertical => \E k \in fine : found = v(k) /\ \A j \in good : k <= j
=============================================================================
