---------------------------- MODULE RiskGovernor ----------------------------
(***************************************************************************)
(* RiskGovernor of godmode0dte/risk/governor.py with the sizing of          *)
(* risk/sizing.py: which intents evaluate approves and at what size, as the *)
(* account moves under it (fills, closes, marks, fees, equity readings that *)
(* arrive late or not at all) and across restarts of the process.           *)
(*                                                                         *)
(* Money is in dollars; a price is the dollars of one contract (100 times   *)
(* the quoted price), so every comparison of the code is exact here.        *)
(* Gates that look at no account state (score, quote age, entry window,     *)
(* spacing of intents) are left out: an intent may be rejected at any time. *)
(* The breaker is armed or not, durably (CircuitBreaker has the rest); the  *)
(* count of the day's approvals is durable (DayTradeBudget has the rest).   *)
(***************************************************************************)
EXTENDS Integers, FiniteSets, FiniteSetsExt

CONSTANTS
    StartEquity,    \* the day's baseline, and the account's cash at the open
    TradeRiskPct,   \* risk.max_trade_risk_pct
    HeatPct,        \* risk.max_heat_pct
    MinEquity,      \* risk.min_equity
    MaxConcurrent,  \* risk.max_concurrent_positions
    DailyCap,       \* risk.daily_trade_cap
    AllowOneLot,    \* risk.allow_one_lot_minimum
    FeeFloorMult,   \* risk.fee_floor_mult
    FeeOpen, FeeClose,  \* the two halves of execution.friction_per_contract
    Ladder,         \* the multipliers of risk.sizing_ladder, in per cent
    Debits,         \* prices at which a vertical may be proposed
    Width,          \* width of the vertical
    Asked,          \* contracts an intent may ask for
    BuyingPowers,   \* readings of the option buying power, 0 for unknown
    Values,         \* what a contract may be worth later
    Better,         \* fill prices below the cap price
    MaxRestarts     \* bound: restarts of the process in the day

\* Prices are multiples of a cent of the quote, so the cap price is whole.
ASSUME PricesAssumption ==
    /\ Debits \subseteq Nat \ {0} /\ Width \in Nat \ {0}
    /\ \A d \in Debits : (11 * d) % 10 = 0
    /\ (45 * Width) % 100 = 0
    /\ Values \subseteq Nat /\ Better \subseteq Nat /\ BuyingPowers \subseteq Nat /\ Asked \subseteq Nat \ {0}
    /\ FeeOpen \in Nat /\ FeeClose \in Nat /\ FeeFloorMult \in Nat
ASSUME GovernorAssumption ==
    /\ StartEquity \in Nat \ {0} /\ MinEquity \in Nat
    /\ TradeRiskPct \in Nat /\ HeatPct \in Nat /\ Ladder \subseteq 0..100
    /\ MaxConcurrent \in Nat /\ DailyCap \in Nat /\ MaxRestarts \in Nat
    /\ AllowOneLot \in BOOLEAN

VARIABLES
    equity,     \* _equity: the last accepted reading, 0 before the first
    bp,         \* _buying_power, 0 for None
    armed,      \* breaker.allows_entries
    latched,    \* _entries_disabled_reason is set
    softUsed,   \* _soft_tier_used
    pos,        \* _positions, those that are open
    used,       \* _day_budget.used_today()
    order,      \* the approved trade whose entry is being worked
    cash,       \* broker: the account's cash
    restarts,   \* history: restarts so far
    sound       \* history: every approval saw the true equity and no position

risk    == <<armed, latched, softUsed>>
history == <<restarts, sound>>
vars    == <<equity, bp, risk, pos, used, order, cash, history>>

Trades   == 1..DailyCap
NoTrade  == [n |-> 0, paid |-> 0, mark |-> 0, basis |-> 0]
Open     == {t \in Trades : pos[t].n > 0}
Friction == FeeOpen + FeeClose
Intents  == [debit : Debits, asked : Asked, mult : Ladder]
Holding  == [n : Nat, paid : Nat, mark : Nat, basis : Nat]

Least(a, b)   == IF a < b THEN a ELSE b
Greatest(a, b) == IF a > b THEN a ELSE b

TypeOK ==
    /\ equity \in Int /\ bp \in Nat /\ cash \in Int
    /\ armed \in BOOLEAN /\ latched \in BOOLEAN /\ softUsed \in BOOLEAN
    /\ pos \in [Trades -> Holding] /\ order \in Holding
    /\ used \in 0..DailyCap
    /\ restarts \in 0..MaxRestarts /\ sound \in BOOLEAN

Init ==
    /\ equity = 0 /\ bp = 0 /\ armed = TRUE /\ latched = FALSE /\ softUsed = FALSE
    /\ pos = [t \in Trades |-> NoTrade] /\ used = 0 /\ order = NoTrade
    /\ cash = StartEquity /\ restarts = 0 /\ sound = TRUE

-----------------------------------------------------------------------------
(* What the governor knows of the account.                                 *)

OpenRisk == MapThenSumSet(LAMBDA t : Greatest(pos[t].paid, pos[t].mark) * pos[t].n, Open)
DayLoss  == Greatest(0, StartEquity - equity)
SoftTier == 100 * DayLoss >= 4 * StartEquity

OpenLots == MapThenSumSet(LAMBDA t : pos[t].n, Open)

\* update_equity, fed with the net liquidation value when a contract is worth m,
\* and the breaker check that follows (its plausibility gate: CircuitBreaker).
UpdateEquity(m, b) ==
    /\ equity' = cash + m * OpenLots
    /\ bp' = IF b > 0 THEN b ELSE bp
    /\ armed' = (armed /\ 100 * (StartEquity - equity') < 6 * StartEquity)
    /\ UNCHANGED <<latched, softUsed, pos, used, order, cash, history>>

\* _mark_positions
Mark(t, v) ==
    /\ t \in Open
    /\ pos' = [pos EXCEPT ![t].mark = v]
    /\ UNCHANGED <<equity, bp, risk, used, order, cash, history>>

-----------------------------------------------------------------------------
(* evaluate.                                                               *)

CapPrice(i) == Least((11 * i.debit) \div 10, (45 * Width) \div 100)
UnitRisk(i) == CapPrice(i) + Friction

\* The target, in hundredths: 1.65 times the price, at most 0.80 of the width.
FeeFloor(i) ==
    Least(165 * CapPrice(i), 80 * Width) - 100 * CapPrice(i)
        >= 100 * FeeFloorMult * Friction

\* size_trade, on the smaller of equity and known buying power.
SizingBase == IF bp > 0 THEN Least(equity, bp) ELSE equity

\* Mutant: the one-lot minimum forgets the hard cap.
SizeTradeAtLeastOne(i) ==
    Greatest(1, (TradeRiskPct * SizingBase * i.mult) \div (10000 * UnitRisk(i)))

LadderLots(i) == (TradeRiskPct * SizingBase * i.mult) \div (10000 * UnitRisk(i))

SizeTrade(i) ==
    IF LadderLots(i) = 0 /\ AllowOneLot /\ 100 * UnitRisk(i) <= TradeRiskPct * SizingBase
    THEN 1 ELSE LadderLots(i)

Halved(n) == IF SoftTier THEN n \div 2 ELSE n

WithinHeat(k, i) == 100 * (OpenRisk + k * UnitRisk(i)) <= HeatPct * equity
\* Mutant: the loss already taken today is left out.
WithinDayFresh(k, i) == 100 * (OpenRisk + k * UnitRisk(i)) <= 6 * StartEquity

WithinDay(k, i)  == 100 * (DayLoss + OpenRisk + k * UnitRisk(i)) <= 6 * StartEquity

\* The size left by both resizing loops; zero is a rejection.
Contracts(i) ==
    LET sized == Halved(Least(SizeTrade(i), i.asked))
    IN  Max({0} \cup {k \in 1..sized : WithinHeat(k, i) /\ WithinDay(k, i)})

\* Mutant: the daily cap is not asked.
AllowedUncapped ==
    /\ armed /\ ~latched /\ equity > 0 /\ equity >= MinEquity
    /\ Cardinality(Open) < MaxConcurrent
    /\ SoftTier => ~softUsed

\* The gates that look at the account but not at the intent.
Allowed ==
    /\ armed /\ ~latched /\ equity > 0 /\ equity >= MinEquity
    /\ Cardinality(Open) < MaxConcurrent /\ used < DailyCap
    /\ SoftTier => ~softUsed

\* The signal task waits for the entry before it evaluates again: order.n = 0.
Approve(i) ==
    /\ order.n = 0 /\ Allowed /\ FeeFloor(i) /\ Contracts(i) >= 1
    /\ order' = [n |-> Contracts(i), paid |-> CapPrice(i), mark |-> 0, basis |-> SizingBase]
    /\ softUsed' = (softUsed \/ SoftTier)
    /\ used' = used + 1
    /\ sound' = (sound /\ Open = {} /\ equity <= cash)
    /\ UNCHANGED <<equity, bp, armed, latched, pos, cash, restarts>>

-----------------------------------------------------------------------------
(* The approved trade, and the positions.                                  *)

\* register_position of a fill at p, at most the cap price.
Filled(p) == [order EXCEPT !.paid = p, !.mark = p]
Bought(p) == cash - order.n * (p + FeeOpen)

EntryFills(p) ==
    /\ order.n > 0 /\ p <= order.paid
    /\ pos' = [pos EXCEPT ![used] = Filled(p)] /\ cash' = Bought(p)
    /\ order' = NoTrade
    /\ UNCHANGED <<equity, bp, risk, used, history>>

\* disable_entries, if the broker rejected for buying power or day trades.
EntryFails(latch) ==
    /\ order.n > 0
    /\ order' = NoTrade /\ latched' = (latched \/ latch)
    /\ UNCHANGED <<equity, bp, armed, softUsed, pos, used, cash, history>>

\* update_position with an exit.
Close(t, v) ==
    /\ t \in Open
    /\ cash' = cash + pos[t].n * (v - FeeClose)
    /\ pos' = [pos EXCEPT ![t] = NoTrade]
    /\ UNCHANGED <<equity, bp, risk, used, order, history>>

Kill ==
    /\ armed
    /\ armed' = FALSE
    /\ UNCHANGED <<equity, bp, latched, softUsed, pos, used, order, cash, history>>

\* A new process adopts the open positions at what they cost; an entry that was
\* being worked has filled, or the boot sweep cancels it.
Restart(filled) ==
    /\ restarts < MaxRestarts
    /\ filled => order.n > 0
    /\ restarts' = restarts + 1
    /\ equity' = 0 /\ bp' = 0 /\ latched' = FALSE /\ softUsed' = FALSE
    /\ order' = NoTrade
    /\ LET held == IF filled THEN [pos EXCEPT ![used] = Filled(order.paid)] ELSE pos
       IN  pos' = [t \in Trades |-> [held[t] EXCEPT !.mark = held[t].paid]]
    /\ cash' = IF filled THEN Bought(order.paid) ELSE cash
    /\ UNCHANGED <<armed, used, sound>>

Next ==
    \/ \E m \in Values, b \in BuyingPowers : UpdateEquity(m, b)
    \/ \E t \in Trades, v \in Values : Mark(t, v) \/ Close(t, v)
    \/ \E i \in Intents : Approve(i)
    \/ \E p \in Better \cup {order.paid} : EntryFills(p)
    \/ \E latch \in BOOLEAN : EntryFails(latch)
    \/ Kill
    \/ \E filled \in BOOLEAN : Restart(filled)

Spec == Init /\ [][Next]_vars

-----------------------------------------------------------------------------
(* Properties.                                                             *)

\* Whatever the price of the fill and however often the position is adopted
\* again, the cash a trade can lose, fees of both ways included, stays within
\* the per-trade cap of the base it was sized on (sizing.py:69-70, audit U1).
TradeWithinHardCap ==
    /\ \A t \in Open :
         100 * pos[t].n * (pos[t].paid + Friction) <= TradeRiskPct * pos[t].basis
    /\ order.n > 0 => 100 * order.n * (order.paid + Friction) <= TradeRiskPct * order.basis

\* What the day would have cost if everything open, and the entry in flight,
\* went to zero.
WorstLoss ==
    StartEquity - cash + FeeClose * OpenLots + order.n * (order.paid + Friction)

\* If every approval saw the account's true equity and nothing open, no series
\* of trades can take the day beyond the 6 per cent limit (governor.py:331-342).
WorstCaseDay == sound => 100 * WorstLoss <= 6 * StartEquity

=============================================================================
