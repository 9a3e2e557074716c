----------------------------- MODULE V2Session -----------------------------
(***************************************************************************)
(* One session of godmode0dte_v2 in auto mode: the risk law of risk.py with  *)
(* its lock file, the exit engine of executor.py, and the signal and risk    *)
(* tasks of app.py, which interleave while one of them awaits an order.      *)
(*                                                                         *)
(* An order takes its time and then is filled or not, as V2Ladder's          *)
(* AnswerIsTrue says.  A purchase is sized at Premium, the mid and the fees,  *)
(* and filled at a price up to Ask.  The choice of the option, the detector,  *)
(* the equity below which nothing is bought and the shadow positions, which   *)
(* touch no account, are left out.                                           *)
(***************************************************************************)
EXTENDS Integers, Sequences, FiniteSetsExt

CONSTANTS
    Equity0,     \* equity at the first boot
    Premium,     \* what a contract is sized at: its mid when it is bought, with fees
    Ask,         \* the most the ladder pays for it
    Quotes,      \* prices it may have later; 0 is a bid of zero
    ConvictionPct, LimitPct, MaxTrades,  \* sizing
    ScaleOuts,   \* exits.scale_outs: <<premium multiple, contracts of 100>>
    TrailPct, StopPct,                   \* exits
    MaxBuys,     \* bound: positions bought on the day
    MaxRestarts  \* bound

ASSUME V2Assumption ==
    /\ Equity0 \in Nat \ {0} /\ Premium \in Nat \ {0} /\ Quotes \subseteq Nat
    /\ Ask \in Nat /\ Ask >= Premium
    /\ LimitPct \in 1..100 /\ ConvictionPct \in 1..LimitPct
    /\ MaxTrades \in Nat \ {0} /\ MaxBuys \in Nat /\ MaxRestarts \in Nat
    /\ ScaleOuts \in Seq(Nat \X Nat)

VARIABLES
    up,          \* the process runs
    file,        \* lockout_file: "none", "today" or "torn"
    locked,      \* _locked
    start,       \* _start_equity
    equity,      \* _equity
    trades,      \* _trades_today
    books,       \* positions, by the number of the purchase
    buying,      \* contracts the signal task awaits, 0 for none
    selling,     \* the sale the risk task awaits, NoSale for none
    read,        \* the equity the risk task awaits, NoRead for none
    cash,        \* account: cash
    held,        \* account: contracts of each purchase
    quote,       \* feed: price of each option bought
    late,        \* it is past exits.force_flat
    restarts,    \* history: restarts so far
    current,     \* history: equity was read after the last fill
    stacked,     \* history: bought over an open position or an old equity
    slip         \* history: what the last purchase cost beyond what it was sized at

risk    == <<locked, start, equity, trades>>
account == <<cash, held>>
law     == <<current, stacked, slip>>
vars    == <<up, file, risk, books, buying, selling, read, account, quote, late,
             restarts, law>>

Buys   == 1..MaxBuys
Bought == Len(held)
Open   == {k \in 1..Bought : books[k].open > 0}
NoSale == [of |-> 0, qty |-> 0, reason |-> "none", upto |-> 0]
NoRead == [value |-> 0, fresh |-> FALSE]
Closed == [entry |-> 0, open |-> 0, initial |-> 0, scaled |-> 0, hits |-> 0, high |-> 0]
Reasons == {"lock_flatten", "force_flat", "hard_stop", "scale_out",
            "runner_trail", "max_hold"}

TypeOK ==
    /\ up \in BOOLEAN /\ file \in {"none", "today", "torn"} /\ locked \in BOOLEAN
    /\ start \in Nat /\ equity \in Nat /\ trades \in 0..MaxTrades
    /\ Len(books) = Bought /\ Len(quote) = Bought /\ Bought <= MaxBuys
    /\ \A k \in 1..Bought :
        /\ held[k] \in Nat /\ quote[k] \in Quotes \cup {Premium}
        /\ books[k] \in [entry : 0..Ask, open : Nat, initial : Nat,
                         scaled : 0..Len(ScaleOuts), hits : 0..1, high : Nat]
        /\ books[k].open <= books[k].initial
    /\ buying \in Nat
    /\ selling = NoSale
       \/ selling \in [of : Open, qty : Nat \ {0}, reason : Reasons, upto : Buys]
    /\ read \in [value : Nat, fresh : BOOLEAN] /\ slip \in Nat
    /\ cash \in Nat /\ late \in BOOLEAN /\ restarts \in 0..MaxRestarts
    /\ current \in BOOLEAN /\ stacked \in BOOLEAN

-----------------------------------------------------------------------------
(* The risk law.                                                            *)

\* The net liquidating value of the account.
NetLiq == MapThenSumSet(LAMBDA k : held[k] * quote[k], 1..Bought) + cash

DayLossAtLimit(from, e) == 100 * (from - e) >= LimitPct * from

Headroom == LimitPct * start - 100 * (start - equity)
\* Mutant: the budget is not clamped to what is left of the day.
BudgetUnclamped == ConvictionPct * equity

Budget   == Min({ConvictionPct * equity, Max({0, Headroom})})

SizePremium ==
    IF locked \/ trades >= MaxTrades THEN 0 ELSE Budget \div (100 * Premium)

\* update_equity: a reading of nothing is none; the first anchors the day; a breach
\* locks it, and the file is written or not.
UpdateEquity(e) ==
    /\ e > 0 /\ equity' = e /\ start' = IF start = 0 THEN e ELSE start
    /\ UNCHANGED trades
    /\ IF ~locked /\ DayLossAtLimit(start', e)
       THEN locked' = TRUE /\ file' \in {"today", file}
       ELSE UNCHANGED <<locked, file>>

-----------------------------------------------------------------------------
(* The exit engine.                                                         *)

\* An option without a bid is marked at its entry premium.
Mark(p, k) == IF quote[k] = 0 THEN p.entry ELSE quote[k]

AtStop(p, m)    == 100 * m <= p.entry * (100 - StopPct)
Confirmed(p, m) == AtStop(p, m) /\ p.hits >= 1

\* What evaluate remembers of a mark; hits beyond the first change nothing.
Looked(p, m) ==
    IF locked' \/ late THEN p
    ELSE [p EXCEPT !.hits = IF AtStop(p, m) THEN 1 ELSE 0,
                   !.high = IF Confirmed(p, m) THEN @ ELSE Max({@, m})]

ScaleDue(p, m)  == /\ p.scaled < Len(ScaleOuts)
                   /\ m >= p.entry * ScaleOuts[p.scaled + 1][1]
\* Mutant: a share of less than one contract is not rounded up.
ScaleQtyOfOne(p) == Min({p.open, (p.initial * ScaleOuts[p.scaled + 1][2]) \div 100})

ScaleQty(p)     == Min({p.open, Max({1, (p.initial * ScaleOuts[p.scaled + 1][2]) \div 100})})
TrailDue(p, m)  == p.scaled > 0 /\ 100 * m <= Max({p.high, m}) * (100 - TrailPct)

\* Mutant: a lock refuses trades and flattens nothing.
DecisionUnlocked(p, m, old) ==
    IF late THEN "force_flat"
    ELSE IF Confirmed(p, m) THEN "hard_stop"
    ELSE IF ScaleDue(p, m) THEN "scale_out"
    ELSE IF TrailDue(p, m) THEN "runner_trail"
    ELSE IF old THEN "max_hold" ELSE "none"

\* evaluate: why position p is sold at mark m, or "none"; old is its age.
Decision(p, m, old) ==
    CASE locked'         -> "lock_flatten"
      [] ~locked' /\ late -> "force_flat"
      [] OTHER -> IF Confirmed(p, m) THEN "hard_stop"
                  ELSE IF ScaleDue(p, m) THEN "scale_out"
                  ELSE IF TrailDue(p, m) THEN "runner_trail"
                  ELSE IF old THEN "max_hold" ELSE "none"

\* The rest of a tick of the risk task, over the positions from..upto: evaluated one
\* after the other, up to the first that is to be sold, because it is due or old.
Scan(now, from, upto) ==
    LET open    == {k \in from..upto : now[k].open > 0}
        due     == {k \in open : Decision(now[k], Mark(now[k], k), FALSE) # "none"}
        Seen(n) == [i \in DOMAIN now |->
                       IF i \in open /\ i <= n THEN Looked(now[i], Mark(now[i], i)) ELSE now[i]]
    IN  \/ due = {} /\ books' = Seen(upto) /\ selling' = NoSale
        \/ \E k \in {n \in open : \A d \in due : n <= d} :
              LET why == Decision(now[k], Mark(now[k], k), TRUE)
              IN  /\ books' = Seen(k)
                  /\ selling' = [of |-> k, reason |-> why, upto |-> upto,
                                 qty |-> IF why = "scale_out" THEN ScaleQty(now[k])
                                         ELSE now[k].open]

-----------------------------------------------------------------------------
(* The process.                                                             *)

Init ==
    /\ up = TRUE /\ file = "none" /\ locked = FALSE
    /\ start = Equity0 /\ equity = Equity0 /\ trades = 0
    /\ books = <<>> /\ buying = 0 /\ selling = NoSale /\ read = NoRead
    /\ cash = Equity0 /\ held = <<>> /\ quote = <<>> /\ late = FALSE
    /\ restarts = 0 /\ current = TRUE /\ stacked = FALSE /\ slip = 0

Forget ==
    /\ up' = FALSE /\ locked' = FALSE /\ start' = 0 /\ equity' = 0 /\ trades' = 0
    /\ buying' = 0 /\ selling' = NoSale /\ read' = NoRead

Blank(n) == [k \in 1..n |-> Closed]

\* What the account pays for the contracts that are bought.
Pays(fill) ==
    /\ cash >= buying * fill /\ cash' = cash - buying * fill
    /\ held' = Append(held, buying) /\ quote' = Append(quote, Premium)
    /\ slip' = buying * (fill - Premium)

\* The process dies; what it awaited happens or not.
Crash ==
    /\ up /\ restarts < MaxRestarts /\ Forget
    /\ \/ /\ selling # NoSale
          /\ held' = [held EXCEPT ![selling.of] = @ - selling.qty]
          /\ cash' = cash + selling.qty * quote[selling.of]
          /\ books' = Blank(Bought) /\ UNCHANGED <<quote, slip>>
       \/ /\ buying > 0 /\ (\E fill \in Premium..Ask : Pays(fill))
          /\ books' = Blank(Bought + 1)
       \/ books' = Blank(Bought) /\ UNCHANGED <<account, quote, slip>>
    /\ UNCHANGED <<file, late, restarts, current, stacked>>

\* It dies while it writes the lock file.
CrashInLock ==
    /\ up /\ restarts < MaxRestarts /\ selling = NoSale /\ ~locked
    /\ read.value > 0 /\ DayLossAtLimit(start, read.value)
    /\ file' = "torn" /\ Forget /\ books' = Blank(Bought)
    /\ UNCHANGED <<account, quote, late, restarts, law>>

\* Mutant: a lock file that cannot be read is none.
BootReadsTorn ==
    /\ ~up /\ NetLiq > 0 /\ up' = TRUE /\ restarts' = restarts + 1
    /\ locked' = (file = "today")
    /\ start' = NetLiq /\ equity' = NetLiq /\ current' = TRUE
    /\ UNCHANGED <<file, trades, books, buying, selling, read, account, quote, late,
                   stacked, slip>>

\* _restore, and the first reading of the equity.  No position is adopted.
Boot ==
    /\ ~up /\ NetLiq > 0 /\ up' = TRUE /\ restarts' = restarts + 1
    /\ locked' = (file # "none")
    /\ start' = NetLiq /\ equity' = NetLiq /\ current' = TRUE
    /\ UNCHANGED <<file, trades, books, buying, selling, read, account, quote, late,
                   stacked, slip>>

-----------------------------------------------------------------------------
(* The signal task.                                                         *)

\* A perfect setup is sized, and the order goes to the broker.
SignalFires ==
    /\ up /\ buying = 0 /\ Bought < MaxBuys /\ SizePremium >= 1
    /\ buying' = SizePremium
    /\ stacked' = (stacked \/ Open # {} \/ ~current \/ restarts > 0)
    /\ UNCHANGED <<up, file, risk, books, selling, read, account, quote, late, restarts,
                   current, slip>>

\* The ladder goes from the mid to the ask.
BuyFills ==
    /\ buying > 0
    /\ \E fill \in Premium..Ask :
        /\ Pays(fill)
        /\ books' = Append(books, [entry |-> fill, open |-> buying, initial |-> buying,
                                   scaled |-> 0, hits |-> 0, high |-> fill])
    /\ trades' = trades + 1 /\ buying' = 0 /\ current' = FALSE
    /\ read' = [read EXCEPT !.fresh = FALSE]
    /\ UNCHANGED <<up, file, locked, start, equity, selling, late, restarts, stacked>>

BuyFails ==
    /\ buying > 0 /\ buying' = 0
    /\ UNCHANGED <<up, file, risk, books, selling, read, account, quote, late, restarts, law>>

-----------------------------------------------------------------------------
(* The risk task.                                                           *)

\* The broker reads the equity; the answer is on its way.
FetchEquity ==
    /\ up /\ selling = NoSale /\ read = NoRead
    /\ read' = [value |-> NetLiq, fresh |-> TRUE]
    /\ UNCHANGED <<up, file, risk, books, buying, selling, account, quote, late, restarts, law>>

\* The answer is taken, or none came; then every position is looked at.
RiskTick ==
    /\ up /\ selling = NoSale /\ read' = NoRead
    /\ UNCHANGED <<up, buying, account, quote, late, restarts, stacked, slip>>
    /\ \/ UpdateEquity(read.value) /\ current' = read.fresh
       \/ UNCHANGED <<file, risk, current>>
    /\ Scan(books, 1, Bought)

\* Mutant: any sale closes the book entry.
SoldCloses(p) == Closed

Sold(p) ==
    IF p.open = selling.qty THEN Closed
    ELSE [p EXCEPT !.open = @ - selling.qty,
                   !.scaled = @ + (IF selling.reason = "scale_out" THEN 1 ELSE 0)]

SaleFills ==
    /\ selling # NoSale
    /\ cash' = cash + selling.qty * quote[selling.of]
    /\ held' = [held EXCEPT ![selling.of] = @ - selling.qty]
    /\ quote' = [quote EXCEPT ![selling.of] = IF held'[selling.of] = 0 THEN Premium ELSE @]
    /\ current' = FALSE /\ UNCHANGED <<file, risk>>
    /\ UNCHANGED <<up, buying, read, late, restarts, stacked, slip>>
    /\ Scan([books EXCEPT ![selling.of] = Sold(@)], selling.of + 1, selling.upto)

\* Unfilled, the tick goes on; an exception starts the task again.
SaleFails ==
    /\ selling # NoSale
    /\ UNCHANGED <<up, file, risk, buying, read, account, quote, late, restarts, law>>
    /\ \/ Scan(books, selling.of + 1, selling.upto)
       \/ selling' = NoSale /\ UNCHANGED books

-----------------------------------------------------------------------------

\* An option that is held trades; nobody looks at it while the process is down.
QuoteMoves ==
    /\ up
    /\ \E k \in Buys, q \in Quotes :
        k <= Bought /\ held[k] > 0 /\ q # quote[k] /\ quote' = [quote EXCEPT ![k] = q]
    /\ UNCHANGED <<up, file, risk, books, buying, selling, read, account, late, restarts, law>>

ForceFlatTime ==
    /\ ~late /\ late' = TRUE
    /\ UNCHANGED <<up, file, risk, books, buying, selling, read, account, quote, restarts, law>>

BuyEnds == BuyFills \/ BuyFails

Next == Crash \/ CrashInLock \/ Boot \/ SignalFires \/ BuyEnds \/ FetchEquity \/ RiskTick
        \/ SaleFills \/ SaleFails \/ QuoteMoves \/ ForceFlatTime

Spec == Init /\ [][Next]_vars

\* The tasks go on, every order ends, and a sale that is asked for again and again
\* is filled at last.
FairSpec == Spec /\ WF_vars(RiskTick) /\ WF_vars(BuyEnds)
                 /\ WF_vars(SaleFills \/ SaleFails) /\ SF_vars(SaleFills)

-----------------------------------------------------------------------------
(* Properties.                                                              *)

\* A lock file of the day, or one that cannot be read, locks the process: no
\* crash, restart or torn write brings trading back.
LockHolds == up /\ file # "none" => locked

\* The one law: with every purchase sized on an equity read after the last fill,
\* and none made over an open position or after a restart, the day cannot lose more
\* than its limit and what the last purchase cost beyond the price it was sized at,
\* even if all that is held becomes worthless.
WorstCaseDay == ~stacked => 100 * (Equity0 - cash - slip) <= LimitPct * Equity0

\* The books of the first process are the account, whatever is in flight: no
\* contract is held without an exit engine, none is sold that is not there.
Managed == up /\ restarts = 0 => \A k \in 1..Bought : books[k].open = held[k]

\* Locked or past force-flat, the process gets flat and stays flat.
Flattens == <>[](up /\ (locked \/ late) => Open = {})
=============================================================================
