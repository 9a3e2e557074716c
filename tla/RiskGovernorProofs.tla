------------------------- MODULE RiskGovernorProofs -------------------------
(***************************************************************************)
(* Proofs about RiskGovernor, for every account, limit, price and number of  *)
(* trades and restarts: typing, the hard cap of a trade, and the worst case   *)
(* of the day.  The sums over the open positions are folds; what is needed of *)
(* them is proved here by induction on the size of the set.                  *)
(***************************************************************************)
EXTENDS RiskGovernor, FiniteSetTheorems, WellFoundedInduction, TLAPS

\* As long as every approval saw the true equity and nothing open, there is one
\* position or one entry in flight, never both.
AloneInv ==
    /\ order.n > 0 => used \in Trades
    /\ sound /\ order.n > 0 => Open = {}
    /\ sound => \A s, t \in Open : s = t

IInv == TypeOK /\ TradeWithinHardCap /\ AloneInv /\ WorstCaseDay

-----------------------------------------------------------------------------
(* Sums over finite sets. *)

\* A nonempty set of numbers has a least one.
LEMMA SmallestOf ==
    ASSUME NEW T, T \subseteq Nat, T # {}
    PROVE  \E m \in T : \A k \in T : m <= k
  <1>1. PICK x \in T : \A y \in T : ~(<<y, x>> \in OpToRel(<, Nat))
    BY NatLessThanWellFounded, WFMin, Zenon
  <1>2. \A y \in T : ~(y < x)
    BY <1>1 DEF OpToRel
  <1>3. \A k \in T : x <= k
    <2> TAKE k \in T
    <2>1. x \in Nat /\ k \in Nat
      OBVIOUS
    <2> QED
      BY <2>1, <1>2
  <1> QED
    BY <1>3

\* Induction over the numbers, with a set in the place of a predicate.
LEMMA SetInduction ==
    ASSUME NEW G, 0 \in G, \A n \in Nat : n \in G => n + 1 \in G
    PROVE  Nat \subseteq G
  <1> SUFFICES ASSUME Nat \ G # {}
               PROVE  FALSE
    OBVIOUS
  <1>1. PICK m \in Nat \ G : \A k \in Nat \ G : m <= k
    BY SmallestOf
  <1>2. m # 0 /\ m - 1 \in Nat /\ ~(m <= m - 1)
    BY <1>1
  <1>3. m - 1 \in G
    BY <1>1, <1>2
  <1> QED
    BY <1>2, <1>3

\* The lots of the positions S.
Lots(P, S) == MapThenSumSet(LAMBDA t : P[t].n, S)

\* The element a fold over s takes first.
Pick(s) == CHOOSE x \in s : TRUE

\* f holds the lots of every part of S, as the fold computes them.
Sums(f, P, S) ==
    f = [s \in SUBSET S |-> IF s = {} THEN 0 ELSE P[Pick(s)].n + f[s \ {Pick(s)}]]

\* What is left of a set after that element is smaller.
LEMMA Picked ==
    ASSUME NEW S, IsFiniteSet(S), NEW s \in SUBSET S, s # {}
    PROVE  /\ Pick(s) \in s /\ s \ {Pick(s)} \in SUBSET S
           /\ Cardinality(s) \in Nat /\ Cardinality(s) > 0
           /\ Cardinality(s \ {Pick(s)}) = Cardinality(s) - 1
  <1>1. Pick(s) \in s
    BY DEF Pick
  <1>2. IsFiniteSet(s)
    BY FS_Subset
  <1>3. Cardinality(s) \in Nat /\ Cardinality(s) # 0
    BY <1>2, FS_CardinalityType, FS_EmptySet
  <1>4. Cardinality(s \ {Pick(s)}) = Cardinality(s) - 1
    BY <1>1, <1>2, FS_RemoveElement
  <1> QED
    BY <1>1, <1>3, <1>4

\* There is such a function, for every finite set.
LEMMA SumExists ==
    ASSUME NEW S, IsFiniteSet(S), NEW P
    PROVE  \E f : Sums(f, P, S)
  <1> DEFINE Step(f, s) == IF s = {} THEN 0 ELSE P[Pick(s)].n + f[s \ {Pick(s)}]
             UpTo(n) == {s \in SUBSET S : Cardinality(s) <= n}
             G == {n \in Nat : \E f : \A s \in UpTo(n) : f[s] = Step(f, s)}
  <1>0. \A s \in SUBSET S : Cardinality(s) \in Nat
    BY FS_Subset, FS_CardinalityType
  <1>1. 0 \in G
    <2> DEFINE f == [s \in SUBSET S |-> 0]
    <2>1. ASSUME NEW s \in UpTo(0)
          PROVE  f[s] = Step(f, s)
      <3>1. ASSUME s # {}
            PROVE  FALSE
        <4>1. s \in SUBSET S /\ Cardinality(s) <= 0
          BY <2>1
        <4>2. Cardinality(s) \in Nat /\ Cardinality(s) > 0
          BY <3>1, <4>1, Picked
        <4> QED
          BY <4>1, <4>2
      <3> QED
        BY <3>1
    <2> QED
      BY <2>1
  <1>2. ASSUME NEW n \in Nat, n \in G
        PROVE  n + 1 \in G
    <2>1. PICK f : \A s \in UpTo(n) : f[s] = Step(f, s)
      BY <1>2
    <2> DEFINE g == [s \in SUBSET S |-> IF s \in UpTo(n) THEN f[s] ELSE Step(f, s)]
    <2>2. \A s \in UpTo(n) : g[s] = f[s]
      OBVIOUS
    <2>3. ASSUME NEW s \in UpTo(n + 1)
          PROVE  g[s] = Step(g, s)
      <3>1. g[s] = Step(f, s)
        BY <2>1
      <3>2. CASE s = {}
        BY <3>1, <3>2
      <3>3. CASE s # {}
        <4>1. s \ {Pick(s)} \in UpTo(n)
          BY <1>0, <3>3, Picked
        <4>2. g[s \ {Pick(s)}] = f[s \ {Pick(s)}]
          BY <2>2, <4>1
        <4> HIDE DEF g, UpTo
        <4> QED
          BY <3>1, <3>3, <4>2
      <3> QED
        BY <3>2, <3>3
    <2>4. \E h : \A s \in UpTo(n + 1) : h[s] = Step(h, s)
      BY <2>3
    <2> HIDE DEF g, UpTo, Step
    <2> QED
      BY <2>4
  <1>3. Cardinality(S) \in G
    <2> HIDE DEF G
    <2> QED
      BY <1>1, <1>2, SetInduction, FS_CardinalityType
  <1>4. PICK f : \A s \in UpTo(Cardinality(S)) : f[s] = Step(f, s)
    BY <1>3
  <1> DEFINE g == [s \in SUBSET S |-> f[s]]
  <1>5. \A s \in SUBSET S : s \in UpTo(Cardinality(S))
    BY FS_Subset
  <1>6. ASSUME NEW s \in SUBSET S
        PROVE  f[s] = Step(g, s)
    <2>1. f[s] = Step(f, s)
      BY <1>4, <1>5
    <2>2. CASE s = {}
      BY <2>1, <2>2
    <2>3. CASE s # {}
      <3>1. s \ {Pick(s)} \in SUBSET S
        BY <2>3, Picked
      <3>2. g[s \ {Pick(s)}] = f[s \ {Pick(s)}]
        BY <3>1
      <3> HIDE DEF g
      <3> QED
        BY <2>1, <2>3, <3>2
    <2> QED
      BY <2>2, <2>3
  <1>7. Sums(g, P, S)
    BY <1>6 DEF Sums
  <1> QED
    BY <1>7

\* So the lots are one of its values.
LEMMA LotsSum ==
    ASSUME NEW S, IsFiniteSet(S), NEW P
    PROVE  \E f : Sums(f, P, S) /\ Lots(P, S) = f[S]
  <1> DEFINE it == CHOOSE f : Sums(f, P, S)
  <1>1. Sums(it, P, S)
    BY SumExists
  <1>2. Lots(P, S) = it[S]
    BY DEF Lots, MapThenSumSet, MapThenFoldSet, Sums, Pick
  <1> QED
    BY <1>1, <1>2

\* The lots of a finite set of positions are a number.
LEMMA LotsTyped ==
    ASSUME NEW S, IsFiniteSet(S), NEW P, \A t \in S : P[t].n \in Nat
    PROVE  Lots(P, S) \in Nat
  <1>1. PICK f : Sums(f, P, S) /\ Lots(P, S) = f[S]
    BY LotsSum
  <1> DEFINE G == {n \in Nat : \A s \in SUBSET S : Cardinality(s) <= n => f[s] \in Nat}
  <1>2. \A s \in SUBSET S : f[s] = IF s = {} THEN 0 ELSE P[Pick(s)].n + f[s \ {Pick(s)}]
    BY <1>1 DEF Sums
  <1>3. 0 \in G
    <2>1. ASSUME NEW s \in SUBSET S, Cardinality(s) <= 0
          PROVE  f[s] \in Nat
      <3>1. ASSUME s # {}
            PROVE  FALSE
        <4>1. Cardinality(s) \in Nat /\ Cardinality(s) > 0
          BY <3>1, Picked
        <4> QED
          BY <2>1, <4>1
      <3>2. f[s] = 0
        BY <1>2, <3>1, Zenon
      <3> QED
        BY <3>2
    <2> QED
      BY <2>1
  <1>4. ASSUME NEW n \in Nat, n \in G
        PROVE  n + 1 \in G
    <2>1. ASSUME NEW s \in SUBSET S, Cardinality(s) <= n + 1
          PROVE  f[s] \in Nat
      <3>1. CASE s = {}
        BY <1>2, <3>1
      <3>2. CASE s # {}
        <4>1. /\ Pick(s) \in S /\ s \ {Pick(s)} \in SUBSET S
              /\ Cardinality(s) \in Nat /\ Cardinality(s \ {Pick(s)}) = Cardinality(s) - 1
          BY <3>2, Picked
        <4>2. Cardinality(s \ {Pick(s)}) <= n
          BY <2>1, <4>1
        <4>3. f[s \ {Pick(s)}] \in Nat
          BY <1>4, <4>1, <4>2
        <4>4. f[s] = P[Pick(s)].n + f[s \ {Pick(s)}]
          BY <1>2, <3>2
        <4>5. P[Pick(s)].n \in Nat
          BY <4>1
        <4>6. P[Pick(s)].n + f[s \ {Pick(s)}] \in Nat
          BY <4>3, <4>5
        <4> QED
          BY <4>4, <4>6, Zenon
      <3> QED
        BY <3>1, <3>2
    <2> QED
      BY <2>1
  <1>5. Cardinality(S) \in G /\ Cardinality(S) \in Nat
    <2> HIDE DEF G
    <2> QED
      BY <1>3, <1>4, SetInduction, FS_CardinalityType
  <1>6. f[S] \in Nat
    BY <1>5
  <1> QED
    BY <1>1, <1>6

\* No position holds no lots.
LEMMA NoLots ==
    ASSUME NEW P
    PROVE  Lots(P, {}) = 0
  <1>1. PICK f : Sums(f, P, {}) /\ Lots(P, {}) = f[{}]
    BY LotsSum, FS_EmptySet
  <1> QED
    BY <1>1 DEF Sums

\* One position holds its own.
LEMMA OneLots ==
    ASSUME NEW P, NEW t, P[t].n \in Nat
    PROVE  Lots(P, {t}) = P[t].n
  <1>1. IsFiniteSet({t})
    BY FS_Singleton
  <1>2. PICK f : Sums(f, P, {t}) /\ Lots(P, {t}) = f[{t}]
    BY <1>1, LotsSum
  <1>3. Pick({t}) = t
    BY DEF Pick
  <1>4. f[{}] = 0
    BY <1>2 DEF Sums
  <1>5. f[{t}] = P[Pick({t})].n + f[{t} \ {Pick({t})}]
    BY <1>2 DEF Sums
  <1>6. {t} \ {Pick({t})} = {}
    BY <1>3
  <1> QED
    BY <1>2, <1>3, <1>4, <1>5, <1>6

-----------------------------------------------------------------------------
(* Arithmetic of the sizes. *)

USE PricesAssumption, GovernorAssumption

\* Products are monotonic, and a quotient times its divisor stays below.
LEMMA Times == ASSUME NEW a \in Nat, NEW b \in Nat, NEW c \in Nat, a <= b
   PROVE a * c \in Nat /\ a * c <= b * c
  OBVIOUS

LEMMA Quotient == ASSUME NEW a \in Nat, NEW b \in Nat, b > 0
   PROVE a \div b \in Nat /\ (a \div b) * b <= a
  OBVIOUS

\* The cap price, and the risk of one contract, are positive.
LEMMA CapPositive == ASSUME NEW i \in Intents PROVE CapPrice(i) \in Nat /\ CapPrice(i) > 0
  <1>0. i.debit \in Debits
    BY DEF Intents
  <1>1. i.debit \in Nat /\ i.debit > 0
    <2>1. Debits \subseteq Nat \ {0}
      BY PricesAssumption, Zenon
    <2>2. i.debit \in Nat \ {0}
      BY <1>0, <2>1, Zenon
    <2> QED
      BY <2>2
  <1>2. (11 * i.debit) \div 10 \in Nat /\ (11 * i.debit) \div 10 > 0
    BY <1>1
  <1>3. (45 * Width) \div 100 \in Nat /\ (45 * Width) \div 100 > 0
    BY SMT
  <1> QED
    BY <1>2, <1>3 DEF CapPrice, Least

LEMMA Unit == ASSUME NEW i \in Intents PROVE UnitRisk(i) \in Nat /\ UnitRisk(i) > 0
  BY CapPositive DEF UnitRisk, Friction

LEMMA Hundredth == ASSUME NEW y \in Int, NEW x \in Int, NEW z \in Int, 100 * y <= z, z <= 100 * x
  PROVE y <= x
  OBVIOUS

LEMMA SizeFits ==
  ASSUME NEW i \in Intents, SizingBase \in Nat
  PROVE  /\ SizeTrade(i) \in Nat
         /\ 100 * SizeTrade(i) * UnitRisk(i) <= TradeRiskPct * SizingBase
  <1>1. i.mult \in 0..100
    BY DEF Intents
  <1>2. UnitRisk(i) \in Nat /\ UnitRisk(i) > 0
    BY Unit
  <1>3. /\ LadderLots(i) \in Nat
        /\ 100 * LadderLots(i) * UnitRisk(i) <= TradeRiskPct * SizingBase
    <2> DEFINE x == TradeRiskPct * SizingBase
               u == UnitRisk(i)
               m == i.mult
               q == LadderLots(i)
    <2>1. x \in Nat
      OBVIOUS
    <2>2. q = (x * m) \div (10000 * u)
      BY DEF LadderLots
    <2>3. m \in 0..100 /\ u \in Nat /\ u > 0
      BY <1>1, <1>2
    <2> HIDE DEF x, u, m, q
    <2>4. x * m \in Nat /\ x * m <= 100 * x
      BY <2>1, <2>3
    <2>5. q \in Nat /\ q * (10000 * u) <= x * m
      BY <2>2, <2>3, <2>4, Quotient
    <2>6. q * (10000 * u) = 100 * (100 * q * u) /\ 100 * q * u \in Int
      BY <2>3, <2>5
    <2>7. 100 * q * u <= x
      <3> DEFINE y == 100 * q * u
                 z == x * m
      <3>1. 100 * y <= z /\ z <= 100 * x /\ y \in Int /\ z \in Int
        BY <2>4, <2>5, <2>6
      <3> HIDE DEF y, z
      <3>2. y <= x
        BY <2>1, <3>1
      <3> QED
        BY <3>2 DEF y
    <2> QED
      BY <2>5, <2>7 DEF x, u, q
  <1>4. 100 * 1 * UnitRisk(i) = 100 * UnitRisk(i)
    BY <1>2
  <1> QED
    BY <1>3, <1>4 DEF SizeTrade

\* The maximum of a bounded set of numbers is one of them.
LEMMA GreatestOf ==
    ASSUME NEW T, NEW n \in Nat, T \subseteq 0..n, T # {}
    PROVE  Max(T) \in T
  <1> DEFINE U == {n - x : x \in T}
  <1>0. \A x \in T : n - x \in Nat
    OBVIOUS
  <1>1. U \subseteq Nat /\ U # {}
    BY <1>0
  <1>2. PICK m \in U : \A k \in U : m <= k
    BY <1>1, SmallestOf
  <1>3. PICK x \in T : m = n - x
    BY <1>2
  <1>4. ASSUME NEW y \in T
        PROVE  x >= y
    <2>1. n - x <= n - y
      BY <1>2, <1>3
    <2> QED
      BY <2>1
  <1> QED
    BY <1>3, <1>4 DEF Max

\* What both resizing loops leave is a size that was asked for and fits the day.
LEMMA ContractsFit ==
    ASSUME NEW i \in Intents, SizingBase \in Nat, Contracts(i) >= 1
    PROVE  /\ Contracts(i) \in Nat /\ Contracts(i) <= SizeTrade(i)
           /\ WithinDay(Contracts(i), i)
  <1> DEFINE lots == Least(SizeTrade(i), i.asked)
             sized == Halved(lots)
             fits == {k \in 1..sized : WithinHeat(k, i) /\ WithinDay(k, i)}
  <1>1. SizeTrade(i) \in Nat
    BY SizeFits
  <1>2. i.asked \in Nat
    BY DEF Intents
  <1>3. lots \in Nat /\ lots <= SizeTrade(i)
    BY <1>1, <1>2 DEF Least
  <1>4. sized \in Nat /\ sized <= lots
    BY <1>3 DEF Halved
  <1>5. Contracts(i) = Max({0} \cup fits)
    BY DEF Contracts
  <1> HIDE DEF lots, sized
  <1>6. {0} \cup fits \subseteq 0..sized
    BY <1>4
  <1>7. Contracts(i) \in {0} \cup fits
    BY <1>4, <1>5, <1>6, GreatestOf
  <1>8. Contracts(i) \in fits
    BY <1>7
  <1> QED
    BY <1>1, <1>3, <1>4, <1>8

-----------------------------------------------------------------------------
(* The open positions. *)

LEMMA TradesFinite == IsFiniteSet(Trades) /\ 0 \notin Trades
  BY FS_Interval DEF Trades

LEMMA OpenLotsTyped == TypeOK => OpenLots \in Nat
  <1>1. ASSUME TypeOK
        PROVE  Lots(pos, Open) \in Nat
    <2>1. Open \subseteq Trades /\ IsFiniteSet(Open)
      BY TradesFinite, FS_Subset DEF Open
    <2>2. \A t \in Open : pos[t].n \in Nat
      BY <1>1, <2>1 DEF TypeOK, Holding
    <2> QED
      BY <2>1, <2>2, LotsTyped
  <1> QED
    BY <1>1 DEF OpenLots, Lots

-----------------------------------------------------------------------------
(* Typing. *)

LEMMA SizingBaseTyped == TypeOK /\ equity > 0 => SizingBase \in Nat
  BY DEF TypeOK, SizingBase, Least

\* A position that is bought, marked or adopted is one; so is an approved trade.
LEMMA HoldingMarked ==
    ASSUME NEW h \in Holding, NEW m \in Nat
    PROVE  /\ [h EXCEPT !.mark = m] \in Holding
           /\ [h EXCEPT !.mark = m].n = h.n
           /\ [h EXCEPT !.mark = m].paid = h.paid
           /\ [h EXCEPT !.mark = m].basis = h.basis
  BY DEF Holding

LEMMA HoldingFilled ==
    ASSUME order \in Holding, NEW p \in Nat
    PROVE  /\ Filled(p) \in Holding
           /\ Filled(p).n = order.n /\ Filled(p).paid = p /\ Filled(p).basis = order.basis
  BY DEF Holding, Filled

LEMMA NoTradeTyped == NoTrade \in Holding /\ NoTrade.n = 0
  BY DEF NoTrade, Holding

\* What a restart adopts is what was held before, or the entry that has filled.
LEMMA Adopts ==
    ASSUME TypeOK, NEW filled \in BOOLEAN, Restart(filled)
    PROVE  /\ pos' \in [Trades -> Holding]
           /\ \A t \in Trades :
                LET was == IF filled /\ t = used THEN Filled(order.paid) ELSE pos[t]
                IN  /\ pos'[t].n = was.n /\ pos'[t].paid = was.paid
                    /\ pos'[t].basis = was.basis
  <1> DEFINE held == IF filled THEN [pos EXCEPT ![used] = Filled(order.paid)] ELSE pos
  <1>1. order.paid \in Nat /\ order \in Holding
    BY DEF TypeOK, Holding
  <1>2. held \in [Trades -> Holding]
    BY <1>1, HoldingFilled DEF TypeOK
  <1>3. \A t \in Trades : held[t] = IF filled /\ t = used THEN Filled(order.paid) ELSE pos[t]
    BY DEF TypeOK
  <1>4. pos' = [t \in Trades |-> [held[t] EXCEPT !.mark = held[t].paid]]
    BY DEF Restart
  <1> HIDE DEF held
  <1>5. ASSUME NEW t \in Trades
        PROVE  /\ pos'[t] \in Holding
               /\ pos'[t].n = held[t].n /\ pos'[t].paid = held[t].paid
               /\ pos'[t].basis = held[t].basis
    <2>1. held[t] \in Holding /\ held[t].paid \in Nat
      BY <1>2 DEF Holding
    <2>2. pos'[t] = [held[t] EXCEPT !.mark = held[t].paid]
      BY <1>4
    <2> QED
      BY <2>1, <2>2, HoldingMarked
  <1> QED
    BY <1>3, <1>4, <1>5

\* The disjuncts of a step.
LEMMA Steps ==
    ASSUME [Next]_vars
    PROVE  \/ \E m \in Values, b \in BuyingPowers : UpdateEquity(m, b)
           \/ \E t \in Trades, v \in Values : Mark(t, v)
           \/ \E t \in Trades, v \in Values : Close(t, v)
           \/ \E i \in Intents : Approve(i)
           \/ \E p \in Better \cup {order.paid} : EntryFills(p)
           \/ \E latch \in BOOLEAN : EntryFails(latch)
           \/ Kill
           \/ \E filled \in BOOLEAN : Restart(filled)
           \/ UNCHANGED vars
  <1>1. CASE \E t \in Trades, v \in Values : Mark(t, v) \/ Close(t, v)
    BY <1>1
  <1> QED
    BY <1>1 DEF Next

LEMMA TypeStep == TypeOK /\ [Next]_vars => TypeOK'
  <1> SUFFICES ASSUME TypeOK, [Next]_vars
               PROVE  TypeOK'
    OBVIOUS
  <1>0. order \in Holding /\ order.n \in Nat /\ order.paid \in Nat
    BY DEF TypeOK, Holding
  <1>1. ASSUME NEW m \in Values, NEW b \in BuyingPowers, UpdateEquity(m, b)
        PROVE  TypeOK'
    <2>1. cash + m * OpenLots \in Int
      BY OpenLotsTyped DEF TypeOK
    <2> QED
      BY <1>1, <2>1 DEF UpdateEquity, TypeOK, history
  <1>2. ASSUME NEW t \in Trades, NEW v \in Values, Mark(t, v)
        PROVE  TypeOK'
    <2>1. pos' = [pos EXCEPT ![t] = [pos[t] EXCEPT !.mark = v]] /\ v \in Nat
      BY <1>2 DEF Mark
    <2>2. pos' \in [Trades -> Holding]
      BY <2>1, HoldingMarked DEF TypeOK
    <2> QED
      BY <1>2, <2>2 DEF Mark, TypeOK, risk, history
  <1>3. ASSUME NEW t \in Trades, NEW v \in Values, Close(t, v)
        PROVE  TypeOK'
    <2>1. pos[t].n \in Nat /\ v - FeeClose \in Int
      BY DEF TypeOK, Holding
    <2>2. cash' \in Int
      BY <1>3, <2>1 DEF Close, TypeOK
    <2>3. pos' \in [Trades -> Holding]
      BY <1>3, NoTradeTyped DEF Close, TypeOK
    <2> QED
      BY <1>3, <2>2, <2>3 DEF Close, TypeOK, risk, history
  <1>4. ASSUME NEW i \in Intents, Approve(i)
        PROVE  TypeOK'
    <2>1. SizingBase \in Nat
      BY <1>4, SizingBaseTyped DEF Approve, Allowed
    <2>2. Contracts(i) \in Nat /\ CapPrice(i) \in Nat
      BY <1>4, <2>1, ContractsFit, CapPositive DEF Approve
    <2>3. order' \in Holding
      BY <1>4, <2>1, <2>2 DEF Approve, Holding
    <2>4. used' \in 0..DailyCap
      BY <1>4 DEF Approve, Allowed, TypeOK
    <2>5. softUsed' \in BOOLEAN /\ sound' \in BOOLEAN
      BY <1>4 DEF Approve
    <2> QED
      BY <1>4, <2>3, <2>4, <2>5 DEF Approve, TypeOK
  <1>5. ASSUME NEW p \in Better \cup {order.paid}, EntryFills(p)
        PROVE  TypeOK'
    <2>1. p \in Nat
      BY <1>0
    <2>2. pos' \in [Trades -> Holding]
      BY <1>0, <1>5, <2>1, HoldingFilled DEF EntryFills, TypeOK
    <2>3. cash' \in Int
      BY <1>0, <1>5, <2>1 DEF EntryFills, Bought, TypeOK
    <2>4. order' \in Holding
      BY <1>5, NoTradeTyped DEF EntryFills
    <2> QED
      BY <1>5, <2>2, <2>3, <2>4 DEF EntryFills, TypeOK, risk, history
  <1>6. ASSUME NEW latch \in BOOLEAN, EntryFails(latch)
        PROVE  TypeOK'
    <2>1. order' \in Holding /\ latched' \in BOOLEAN
      BY <1>6, NoTradeTyped DEF EntryFails
    <2> QED
      BY <1>6, <2>1 DEF EntryFails, TypeOK, history
  <1>7. CASE Kill
    BY <1>7 DEF Kill, TypeOK, history
  <1>8. ASSUME NEW filled \in BOOLEAN, Restart(filled)
        PROVE  TypeOK'
    <2>1. pos' \in [Trades -> Holding]
      BY <1>8, Adopts
    <2>2. cash' \in Int
      BY <1>0, <1>8 DEF Restart, Bought, TypeOK
    <2>3. order' \in Holding
      BY <1>8, NoTradeTyped DEF Restart
    <2>4. restarts' \in 0..MaxRestarts
      BY <1>8 DEF Restart, TypeOK
    <2>5. equity' \in Int /\ bp' \in Nat /\ used' \in 0..DailyCap
      BY <1>8 DEF Restart, TypeOK
    <2>6. armed' \in BOOLEAN /\ latched' \in BOOLEAN /\ softUsed' \in BOOLEAN /\ sound' \in BOOLEAN
      BY <1>8, Zenon DEF Restart, TypeOK
    <2> QED
      BY <2>1, <2>2, <2>3, <2>4, <2>5, <2>6 DEF TypeOK
  <1>9. CASE UNCHANGED vars
    BY <1>9 DEF vars, risk, history, TypeOK
  <1> QED
    BY <1>1, <1>2, <1>3, <1>4, <1>5, <1>6, <1>7, <1>8, <1>9, Steps

-----------------------------------------------------------------------------
(* The hard cap of a trade. *)

Within(h) == 100 * h.n * (h.paid + Friction) <= TradeRiskPct * h.basis

LEMMA FrictionTyped == Friction \in Nat
  BY DEF Friction

\* A better price keeps a trade within its cap.
LEMMA FilledWithin ==
    ASSUME order \in Holding, Within(order), NEW p \in Nat, p <= order.paid
    PROVE  Within(Filled(p))
  <1> DEFINE n == 100 * order.n
             a == p + Friction
             b == order.paid + Friction
             most == TradeRiskPct * order.basis
  <1>1. n \in Nat /\ a \in Nat /\ b \in Nat /\ a <= b /\ most \in Nat
    BY FrictionTyped DEF Holding
  <1>2. n * b <= most
    BY DEF Within
  <1>3. 100 * Filled(p).n * (Filled(p).paid + Friction) = n * a
    BY HoldingFilled
  <1>4. TradeRiskPct * Filled(p).basis = most
    BY HoldingFilled
  <1> HIDE DEF n, a, b, most
  <1>5. a * n \in Nat /\ a * n <= b * n
    BY <1>1, Times
  <1>6. a * n = n * a /\ b * n = n * b
    BY <1>1
  <1>7. n * a <= most
    BY <1>1, <1>2, <1>5, <1>6
  <1> QED
    BY <1>3, <1>4, <1>7 DEF Within

LEMMA CapMeans ==
    TradeWithinHardCap <=> /\ \A t \in Trades : pos[t].n > 0 => Within(pos[t])
                           /\ order.n > 0 => Within(order)
  BY DEF TradeWithinHardCap, Open, Within

\* An approved trade is within its cap.
LEMMA ApprovedWithin ==
    ASSUME TypeOK, NEW i \in Intents, Approve(i)
    PROVE  order' \in Holding /\ Within(order')
  <1>1. SizingBase \in Nat
    BY SizingBaseTyped DEF Approve, Allowed
  <1> DEFINE k == Contracts(i)
             m == SizeTrade(i)
             u == UnitRisk(i)
             most == TradeRiskPct * SizingBase
  <1>2. k \in Nat /\ k <= m
    BY <1>1, ContractsFit DEF Approve
  <1>3. m \in Nat /\ 100 * m * u <= most /\ u \in Nat
    BY <1>1, SizeFits, Unit
  <1>4. /\ order' \in Holding
        /\ order'.n = k /\ order'.paid + Friction = u /\ order'.basis = SizingBase
    BY <1>1, <1>2, CapPositive DEF Approve, UnitRisk, Holding
  <1>5. 100 * k * u <= most
    <2> HIDE DEF k, m, u, most
    <2>1. k * u \in Nat /\ k * u <= m * u /\ m * u \in Nat
      BY <1>2, <1>3, Times
    <2>2. 100 * (k * u) <= 100 * (m * u)
      BY <2>1
    <2>3. 100 * k * u = 100 * (k * u) /\ 100 * m * u = 100 * (m * u)
      BY <1>2, <1>3
    <2>4. 100 * k * u <= 100 * m * u
      BY <2>2, <2>3
    <2> QED
      BY <1>1, <1>3, <2>1, <2>3, <2>4 DEF most
  <1> QED
    BY <1>4, <1>5 DEF Within

LEMMA CapStep == TypeOK /\ TradeWithinHardCap /\ [Next]_vars => TradeWithinHardCap'
  <1> SUFFICES ASSUME TypeOK, TradeWithinHardCap, [Next]_vars
               PROVE  /\ \A t \in Trades : pos'[t].n > 0 => Within(pos'[t])
                      /\ order'.n > 0 => Within(order')
    BY DEF TradeWithinHardCap, Open, Within
  <1>0. /\ \A t \in Trades : pos[t].n > 0 => Within(pos[t])
        /\ order.n > 0 => Within(order)
        /\ order \in Holding /\ order.paid \in Nat /\ NoTrade.n = 0
    BY CapMeans, NoTradeTyped DEF TypeOK, Holding
  <1>1. ASSUME NEW m \in Values, NEW b \in BuyingPowers, UpdateEquity(m, b)
        PROVE  UNCHANGED <<pos, order>>
    BY <1>1 DEF UpdateEquity
  <1>2. ASSUME NEW t \in Trades, NEW v \in Values, Mark(t, v)
        PROVE  /\ order' = order
               /\ \A s \in Trades : pos'[s].n > 0 => Within(pos'[s])
    <2>1. order' = order /\ pos' = [pos EXCEPT ![t] = [pos[t] EXCEPT !.mark = v]] /\ v \in Nat
      BY <1>2 DEF Mark
    <2>2. /\ pos[t] \in Holding
          /\ \A s \in Trades : pos'[s] = IF s = t THEN [pos[t] EXCEPT !.mark = v] ELSE pos[s]
      BY <2>1 DEF TypeOK
    <2>3. pos'[t].n = pos[t].n /\ (Within(pos[t]) => Within(pos'[t]))
      BY <2>1, <2>2, HoldingMarked DEF Within
    <2> QED
      BY <1>0, <2>1, <2>2, <2>3
  <1>3. ASSUME NEW t \in Trades, NEW v \in Values, Close(t, v)
        PROVE  /\ order' = order
               /\ \A s \in Trades : pos'[s].n > 0 => Within(pos'[s])
    <2>1. order' = order /\ \A s \in Trades : pos'[s] = IF s = t THEN NoTrade ELSE pos[s]
      BY <1>3 DEF Close, TypeOK
    <2> QED
      BY <1>0, <2>1
  <1>4. ASSUME NEW i \in Intents, Approve(i)
        PROVE  pos' = pos /\ Within(order')
    BY <1>4, ApprovedWithin DEF Approve
  <1>5. ASSUME NEW p \in Better \cup {order.paid}, EntryFills(p)
        PROVE  /\ order' = NoTrade
               /\ \A s \in Trades : pos'[s].n > 0 => Within(pos'[s])
    <2>1. p \in Nat /\ p <= order.paid /\ order.n > 0
      BY <1>0, <1>5 DEF EntryFills
    <2>2. Within(Filled(p))
      BY <1>0, <2>1, FilledWithin
    <2>3. /\ order' = NoTrade
          /\ \A s \in Trades : pos'[s] = IF s = used THEN Filled(p) ELSE pos[s]
      BY <1>5 DEF EntryFills, TypeOK
    <2> QED
      BY <1>0, <2>2, <2>3
  <1>6. ASSUME NEW latch \in BOOLEAN, EntryFails(latch)
        PROVE  pos' = pos /\ order' = NoTrade
    BY <1>6 DEF EntryFails
  <1>7. CASE Kill
    BY <1>0, <1>7 DEF Kill
  <1>8. ASSUME NEW filled \in BOOLEAN, Restart(filled)
        PROVE  /\ order' = NoTrade
               /\ \A s \in Trades : pos'[s].n > 0 => Within(pos'[s])
    <2>1. order' = NoTrade /\ (filled => order.n > 0)
      BY <1>8 DEF Restart
    <2>2. filled => Within(Filled(order.paid))
      <3>1. order.paid <= order.paid
        BY <1>0
      <3> QED
        BY <1>0, <2>1, <3>1, FilledWithin
    <2>3. ASSUME NEW s \in Trades, pos'[s].n > 0
          PROVE  Within(pos'[s])
      <3> DEFINE was == IF filled /\ s = used THEN Filled(order.paid) ELSE pos[s]
      <3>1. pos'[s].n = was.n /\ pos'[s].paid = was.paid /\ pos'[s].basis = was.basis
        BY <1>8, Adopts
      <3>2. Within(was)
        BY <1>0, <2>2, <2>3, <3>1
      <3> HIDE DEF was
      <3> QED
        BY <3>1, <3>2 DEF Within
    <2> QED
      BY <2>1, <2>3
  <1>9. CASE UNCHANGED vars
    BY <1>0, <1>9 DEF vars
  <1> QED
    BY <1>0, <1>1, <1>2, <1>3, <1>4, <1>5, <1>6, <1>7, <1>8, <1>9, Steps

-----------------------------------------------------------------------------
(* One trade at a time. *)

\* What a step does to the positions that are open.
LEMMA OpenAfterMark ==
    ASSUME TypeOK, NEW t \in Trades, NEW v \in Values, Mark(t, v)
    PROVE  Open' = Open /\ \A s \in Trades : pos'[s].n = pos[s].n
  <1>1. pos' = [pos EXCEPT ![t] = [pos[t] EXCEPT !.mark = v]] /\ v \in Nat
    BY DEF Mark
  <1>2. /\ pos[t] \in Holding
        /\ \A s \in Trades : pos'[s] = IF s = t THEN [pos[t] EXCEPT !.mark = v] ELSE pos[s]
    BY <1>1 DEF TypeOK
  <1>3. pos'[t].n = pos[t].n
    BY <1>1, <1>2, HoldingMarked
  <1>4. \A s \in Trades : pos'[s].n = pos[s].n
    BY <1>2, <1>3
  <1> QED
    BY <1>4 DEF Open

LEMMA OpenAfterClose ==
    ASSUME TypeOK, NEW t \in Trades, NEW v \in Values, Close(t, v)
    PROVE  Open' = Open \ {t}
  <1>1. \A s \in Trades : pos'[s] = IF s = t THEN NoTrade ELSE pos[s]
    BY DEF Close, TypeOK
  <1>2. ~(NoTrade.n > 0)
    BY NoTradeTyped
  <1> QED
    BY <1>1, <1>2 DEF Open

LEMMA OpenAfterFill ==
    ASSUME TypeOK, NEW p \in Nat, EntryFills(p), order.n > 0, used \in Trades
    PROVE  Open' = Open \cup {used} /\ pos'[used].n = order.n
  <1>1. \A s \in Trades : pos'[s] = IF s = used THEN Filled(p) ELSE pos[s]
    BY DEF EntryFills, TypeOK
  <1>2. Filled(p).n = order.n
    BY HoldingFilled DEF TypeOK
  <1> QED
    BY <1>1, <1>2 DEF Open

LEMMA OpenAfterRestart ==
    ASSUME TypeOK, NEW filled \in BOOLEAN, Restart(filled), filled => used \in Trades
    PROVE  /\ Open' = IF filled THEN Open \cup {used} ELSE Open
           /\ filled => pos'[used].n = order.n
           /\ ~filled => \A s \in Trades : pos'[s].n = pos[s].n
  <1>1. filled => order.n > 0
    BY DEF Restart
  <1>2. order.paid \in Nat /\ order \in Holding
    BY DEF TypeOK, Holding
  <1>3. Filled(order.paid).n = order.n
    BY <1>2, HoldingFilled
  <1>4. \A s \in Trades : pos'[s].n = IF filled /\ s = used THEN order.n ELSE pos[s].n
    BY <1>3, Adopts
  <1>5. ASSUME filled
        PROVE  Open' = Open \cup {used}
    BY <1>1, <1>4, <1>5 DEF Open
  <1>6. ASSUME ~filled
        PROVE  Open' = Open
    BY <1>4, <1>6 DEF Open
  <1> QED
    BY <1>4, <1>5, <1>6

LEMMA AloneStep == TypeOK /\ AloneInv /\ [Next]_vars => AloneInv'
  <1> SUFFICES ASSUME TypeOK, AloneInv, [Next]_vars
               PROVE  AloneInv'
    OBVIOUS
  <1>0. NoTrade.n = 0 /\ Trades' = Trades /\ order.paid \in Nat
    BY NoTradeTyped DEF Trades, TypeOK, Holding
  <1>1. ASSUME NEW m \in Values, NEW b \in BuyingPowers, UpdateEquity(m, b)
        PROVE  AloneInv'
    BY <1>1 DEF UpdateEquity, history, AloneInv, Open
  <1>2. ASSUME NEW t \in Trades, NEW v \in Values, Mark(t, v)
        PROVE  AloneInv'
    <2>1. Open' = Open
      BY <1>2, OpenAfterMark
    <2>2. UNCHANGED <<order, used, sound>>
      BY <1>2 DEF Mark, history
    <2> QED
      BY <2>1, <2>2 DEF AloneInv
  <1>3. ASSUME NEW t \in Trades, NEW v \in Values, Close(t, v)
        PROVE  AloneInv'
    <2>1. Open' = Open \ {t}
      BY <1>3, OpenAfterClose
    <2>2. UNCHANGED <<order, used, sound>>
      BY <1>3 DEF Close, history
    <2> QED
      BY <2>1, <2>2 DEF AloneInv
  <1>4. ASSUME NEW i \in Intents, Approve(i)
        PROVE  AloneInv'
    <2>1. used' \in Trades
      BY <1>4 DEF Approve, Allowed, TypeOK, Trades
    <2>2. Open' = Open /\ (sound' => sound /\ Open = {})
      BY <1>4 DEF Approve, Open
    <2> QED
      BY <2>1, <2>2 DEF AloneInv
  <1>5. ASSUME NEW p \in Better \cup {order.paid}, EntryFills(p)
        PROVE  AloneInv'
    <2>1. p \in Nat /\ order.n > 0 /\ order' = NoTrade /\ UNCHANGED <<used, sound>>
      BY <1>0, <1>5 DEF EntryFills, history
    <2>2. Open' = Open \cup {used}
      BY <1>5, <2>1, OpenAfterFill DEF AloneInv
    <2> QED
      BY <1>0, <2>1, <2>2 DEF AloneInv
  <1>6. ASSUME NEW latch \in BOOLEAN, EntryFails(latch)
        PROVE  AloneInv'
    <2>1. order' = NoTrade /\ UNCHANGED <<pos, used, sound>>
      BY <1>6 DEF EntryFails, history
    <2>2. Open' = Open
      BY <2>1 DEF Open
    <2> QED
      BY <1>0, <2>1, <2>2 DEF AloneInv
  <1>7. CASE Kill
    BY <1>7 DEF Kill, history, AloneInv, Open
  <1>8. ASSUME NEW filled \in BOOLEAN, Restart(filled)
        PROVE  AloneInv'
    <2>1. order' = NoTrade /\ UNCHANGED <<used, sound>> /\ (filled => order.n > 0)
      BY <1>8 DEF Restart
    <2>2. Open' = IF filled THEN Open \cup {used} ELSE Open
      BY <1>8, <2>1, OpenAfterRestart DEF AloneInv
    <2> QED
      BY <1>0, <2>1, <2>2 DEF AloneInv
  <1>9. CASE UNCHANGED vars
    BY <1>9 DEF vars, history, AloneInv, Open
  <1> QED
    BY <1>1, <1>2, <1>3, <1>4, <1>5, <1>6, <1>7, <1>8, <1>9, Steps

-----------------------------------------------------------------------------
(* The worst case of the day. *)

\* The lots that are open, when there is at most one position.
LotsInv ==
    /\ OpenLots = Lots(pos, Open) /\ OpenLots \in Nat
    /\ Open = {} => OpenLots = 0
    /\ \A t \in Trades : Open = {t} => OpenLots = pos[t].n

LEMMA LotsNow == TypeOK => LotsInv
  <1> SUFFICES ASSUME TypeOK
               PROVE  LotsInv
    OBVIOUS
  <1>1. OpenLots = Lots(pos, Open)
    BY DEF OpenLots, Lots
  <1>2. ASSUME NEW t \in Trades, Open = {t}
        PROVE  OpenLots = pos[t].n
    <2>1. pos[t].n \in Nat
      BY DEF TypeOK, Holding
    <2>2. Lots(pos, {t}) = pos[t].n
      BY <2>1, OneLots
    <2> QED
      BY <1>1, <1>2, <2>2
  <1>3. Open = {} => OpenLots = 0
    BY <1>1, NoLots
  <1> QED
    BY <1>1, <1>2, <1>3, OpenLotsTyped DEF LotsInv

\* A price of nothing loses what was paid for it, and no more.
LEMMA DayStep ==
    TypeOK /\ TypeOK' /\ AloneInv /\ WorstCaseDay /\ [Next]_vars => WorstCaseDay'
  <1> SUFFICES ASSUME TypeOK, TypeOK', AloneInv, WorstCaseDay, [Next]_vars, sound'
               PROVE  100 * WorstLoss' <= 6 * StartEquity
    BY DEF WorstCaseDay
  <1>0. LotsInv /\ LotsInv'
    <2>1. LotsInv'
      BY LotsNow, PTL
    <2> QED
      BY <2>1, LotsNow
  <1> DEFINE lost  == StartEquity - cash
             fees  == FeeClose * OpenLots
             entry == order.n * (order.paid + Friction)
  <1>a. /\ order \in Holding /\ order.n \in Nat /\ order.paid \in Nat /\ cash \in Int
        /\ cash' \in Int /\ OpenLots \in Nat /\ OpenLots' \in Nat
        /\ NoTrade.n = 0 /\ NoTrade.paid = 0 /\ Friction \in Nat
        /\ Friction = FeeOpen + FeeClose /\ FeeClose \in Nat /\ FeeOpen \in Nat
    BY <1>0 DEF TypeOK, Holding, LotsInv, NoTrade, Friction
  <1>b. lost \in Int /\ fees \in Nat /\ entry \in Nat /\ WorstLoss = lost + fees + entry
    BY <1>a DEF WorstLoss
  <1>c. sound => /\ 100 * WorstLoss <= 6 * StartEquity
                 /\ Open = {} \/ \E t \in Trades : Open = {t}
                 /\ order.n > 0 => Open = {}
    BY DEF WorstCaseDay, AloneInv, Open
  <1>d. Trades' = Trades
    BY DEF Trades
  <1>1. ASSUME NEW m \in Values, NEW b \in BuyingPowers, UpdateEquity(m, b)
        PROVE  100 * WorstLoss' <= 6 * StartEquity
    <2>1. UNCHANGED <<pos, order, cash, sound>>
      BY <1>1 DEF UpdateEquity, history
    <2>2. Open' = Open
      BY <2>1 DEF Open
    <2>3. OpenLots' = OpenLots
      BY <1>0, <2>1, <2>2 DEF LotsInv
    <2> QED
      BY <1>c, <2>1, <2>3 DEF WorstLoss
  <1>2. ASSUME NEW t \in Trades, NEW v \in Values, Mark(t, v)
        PROVE  100 * WorstLoss' <= 6 * StartEquity
    <2>1. UNCHANGED <<order, cash, sound>>
      BY <1>2 DEF Mark, history
    <2>2. Open' = Open /\ \A s \in Trades : pos'[s].n = pos[s].n
      BY <1>2, OpenAfterMark
    <2>3. OpenLots' = OpenLots
      BY <1>0, <1>c, <1>d, <2>1, <2>2 DEF LotsInv
    <2> QED
      BY <1>c, <2>1, <2>3 DEF WorstLoss
  <1>3. ASSUME NEW t \in Trades, NEW v \in Values, Close(t, v)
        PROVE  100 * WorstLoss' <= 6 * StartEquity
    <2>1. UNCHANGED <<order, sound>> /\ t \in Open /\ v \in Nat
      BY <1>3 DEF Close, history
    <2>2. Open' = Open \ {t} /\ Open = {t}
      BY <1>3, <1>c, <2>1, OpenAfterClose
    <2>3. OpenLots' = 0 /\ OpenLots = pos[t].n
      BY <1>0, <2>2 DEF LotsInv
    <2>4. cash' = cash + OpenLots * (v - FeeClose)
      BY <1>3, <2>3 DEF Close
    <2>5. OpenLots * (v - FeeClose) = OpenLots * v - FeeClose * OpenLots /\ OpenLots * v \in Nat
      BY <1>a, <2>1
    <2>6. WorstLoss' = StartEquity - cash' + FeeClose * 0 + order.n * (order.paid + Friction)
      BY <2>1, <2>3 DEF WorstLoss
    <2>7. WorstLoss' <= WorstLoss
      BY <1>a, <1>b, <2>4, <2>5, <2>6
    <2> QED
      BY <1>a, <1>b, <1>c, <2>1, <2>6, <2>7
  <1>4. ASSUME NEW i \in Intents, Approve(i)
        PROVE  100 * WorstLoss' <= 6 * StartEquity
    <2> DEFINE k == Contracts(i)
    <2>1. sound /\ Open = {} /\ equity <= cash /\ equity \in Int
      BY <1>4 DEF Approve, TypeOK
    <2>2. k \in Nat /\ WithinDay(k, i)
      BY <1>4, SizingBaseTyped, ContractsFit DEF Approve, Allowed
    <2>3. OpenRisk = 0
      BY <2>1 DEF OpenRisk, MapThenSumSet, MapThenFoldSet
    <2>4. UnitRisk(i) \in Nat /\ UnitRisk(i) = CapPrice(i) + Friction
      BY Unit DEF UnitRisk
    <2>5. DayLoss \in Int /\ DayLoss >= StartEquity - cash
      BY <1>a, <2>1 DEF DayLoss, Greatest
    <2>6. 100 * (DayLoss + 0 + k * UnitRisk(i)) <= 6 * StartEquity
      BY <2>2, <2>3 DEF WithinDay
    <2>7. OpenLots' = 0 /\ cash' = cash
      <3>1. cash' = cash /\ Open' = {}
        BY <1>4, <2>1 DEF Approve, Open
      <3> QED
        BY <1>0, <3>1 DEF LotsInv
    <2>8. order'.n = k /\ order'.paid = CapPrice(i)
      BY <1>4 DEF Approve
    <2>9. WorstLoss' = StartEquity - cash + FeeClose * 0 + k * UnitRisk(i)
      BY <2>4, <2>7, <2>8 DEF WorstLoss
    <2> HIDE DEF k
    <2>10. k * UnitRisk(i) \in Nat
      BY <2>2, <2>4
    <2> QED
      BY <1>a, <2>5, <2>6, <2>9, <2>10
  <1>5. ASSUME sound, order.n > 0, NEW p \in Nat, p <= order.paid,
               cash' = Bought(p), order' = NoTrade,
               Open' = Open \cup {used}, pos'[used].n = order.n
        PROVE  100 * WorstLoss' <= 6 * StartEquity
    <2>1. used \in Trades /\ Open = {} /\ Open' = {used}
      BY <1>5, <1>c DEF AloneInv
    <2>2. OpenLots' = order.n /\ OpenLots = 0
      BY <1>0, <1>5, <1>d, <2>1 DEF LotsInv
    <2>3. WorstLoss' = StartEquity - (cash - order.n * (p + FeeOpen)) + FeeClose * order.n + 0
      BY <1>a, <1>5, <2>2 DEF WorstLoss, Bought
    <2>4. FeeClose * order.n + order.n * (p + FeeOpen) = order.n * (p + Friction)
      BY <1>a
    <2>5. order.n * (p + Friction) \in Nat /\ order.n * (p + Friction) <= entry
      <3> DEFINE n == order.n
                 a == p + Friction
                 b == order.paid + Friction
      <3>1. n \in Nat /\ a \in Nat /\ b \in Nat /\ a <= b
        BY <1>a, <1>5
      <3> HIDE DEF n, a, b
      <3>2. a * n \in Nat /\ a * n <= b * n /\ a * n = n * a /\ b * n = n * b
        BY <3>1, Times
      <3>3. n * a \in Nat /\ n * a <= n * b
        BY <3>2
      <3> QED
        BY <3>3 DEF n, a, b
    <2>6. order.n * (p + FeeOpen) \in Nat /\ FeeClose * order.n \in Nat
      BY <1>a
    <2>7. WorstLoss' = lost + order.n * (p + Friction)
      BY <1>a, <2>3, <2>4, <2>6
    <2> HIDE DEF lost, fees, entry
    <2>8. WorstLoss' <= WorstLoss
      BY <1>b, <2>5, <2>7
    <2> QED
      BY <1>5, <1>b, <1>c, <2>5, <2>7, <2>8
  <1>6. ASSUME NEW p \in Better \cup {order.paid}, EntryFills(p)
        PROVE  100 * WorstLoss' <= 6 * StartEquity
    <2>1. /\ sound /\ order.n > 0 /\ p \in Nat /\ p <= order.paid
          /\ cash' = Bought(p) /\ order' = NoTrade
      BY <1>6, <1>a DEF EntryFills, history
    <2>2. Open' = Open \cup {used} /\ pos'[used].n = order.n
      BY <1>6, <2>1, OpenAfterFill DEF AloneInv
    <2> QED
      BY <1>5, <2>1, <2>2
  <1>7. ASSUME UNCHANGED <<cash, sound>>, order' = NoTrade, Open' = Open,
               \A s \in Trades : pos'[s].n = pos[s].n
        PROVE  100 * WorstLoss' <= 6 * StartEquity
    <2>1. OpenLots' = OpenLots
      BY <1>0, <1>7, <1>c, <1>d DEF LotsInv
    <2>2. WorstLoss' = lost + fees + 0
      BY <1>7, <1>a, <2>1 DEF WorstLoss
    <2> HIDE DEF lost, fees, entry
    <2> QED
      BY <1>7, <1>b, <1>c, <2>2
  <1>8. ASSUME NEW latch \in BOOLEAN, EntryFails(latch)
        PROVE  100 * WorstLoss' <= 6 * StartEquity
    <2>1. UNCHANGED <<cash, sound, pos>> /\ order' = NoTrade
      BY <1>8 DEF EntryFails, history
    <2>2. Open' = Open
      BY <2>1 DEF Open
    <2> QED
      BY <1>7, <2>1, <2>2
  <1>9. CASE Kill \/ UNCHANGED vars
    <2>1. UNCHANGED <<pos, order, cash, sound>>
      BY <1>9 DEF Kill, vars, history
    <2>2. Open' = Open
      BY <2>1 DEF Open
    <2>3. OpenLots' = OpenLots
      BY <1>0, <2>1, <2>2 DEF LotsInv
    <2> QED
      BY <1>c, <2>1, <2>3 DEF WorstLoss
  <1>10. ASSUME NEW filled \in BOOLEAN, Restart(filled)
        PROVE  100 * WorstLoss' <= 6 * StartEquity
    <2>1. /\ sound /\ order' = NoTrade /\ (filled => order.n > 0)
          /\ cash' = IF filled THEN Bought(order.paid) ELSE cash
          /\ UNCHANGED sound
      BY <1>10 DEF Restart
    <2>2. /\ Open' = IF filled THEN Open \cup {used} ELSE Open
          /\ filled => pos'[used].n = order.n
          /\ ~filled => \A s \in Trades : pos'[s].n = pos[s].n
      BY <1>10, <2>1, OpenAfterRestart DEF AloneInv
    <2>3. order.paid <= order.paid
      BY <1>a
    <2> QED
      BY <1>5, <1>7, <1>a, <2>1, <2>2, <2>3
  <1> QED
    BY <1>1, <1>2, <1>3, <1>4, <1>6, <1>8, <1>9, <1>10, Steps

-----------------------------------------------------------------------------
(* The theorems.                                                           *)

LEMMA InitHolds == Init => IInv
  <1> SUFFICES ASSUME Init
               PROVE  IInv
    OBVIOUS
  <1>0. pos = [t \in Trades |-> NoTrade] /\ order = NoTrade /\ NoTrade \in Holding /\ NoTrade.n = 0
    BY NoTradeTyped DEF Init
  <1>1. pos \in [Trades -> Holding] /\ order \in Holding
    BY <1>0
  <1>2. Open = {}
    BY <1>0 DEF Open
  <1>3. TypeOK
    <2>1. used \in 0..DailyCap /\ restarts \in 0..MaxRestarts
      BY DEF Init
    <2>2. equity \in Int /\ bp \in Nat /\ cash \in Int
      BY DEF Init
    <2>3. armed \in BOOLEAN /\ latched \in BOOLEAN /\ softUsed \in BOOLEAN /\ sound \in BOOLEAN
      BY DEF Init
    <2> QED
      BY <1>1, <2>1, <2>2, <2>3 DEF TypeOK
  <1>4. TradeWithinHardCap /\ AloneInv
    BY <1>0, <1>2 DEF TradeWithinHardCap, AloneInv
  <1>5. OpenLots = 0
    BY <1>2, <1>3, LotsNow DEF LotsInv
  <1>6. NoTrade.paid + Friction \in Nat
    BY FrictionTyped DEF NoTrade
  <1>7. WorstLoss = 0
    BY <1>0, <1>5, <1>6 DEF WorstLoss, Init
  <1>8. WorstCaseDay
    BY <1>7 DEF WorstCaseDay
  <1> QED
    BY <1>3, <1>4, <1>8 DEF IInv

\* The conjuncts of IInv hold together in every state.
LEMMA Invariant == Spec => []IInv
  <1>1. IInv /\ [Next]_vars => IInv'
    BY TypeStep, CapStep, AloneStep, DayStep DEF IInv
  <1> QED
    BY InitHolds, <1>1, PTL DEF Spec

\* Every state is well typed: the governor never registers a trade beyond the
\* daily cap, and every size and price it approves is a number.
THEOREM GovernorTypeCorrect == Spec => []TypeOK
  <1>1. IInv => TypeOK
    BY DEF IInv
  <1> QED
    BY Invariant, <1>1, PTL

\* The cash a trade can lose, fees of both ways included, stays within the
\* per-trade cap of the base it was sized on, from its approval to its close.
THEOREM HardCapTheorem == Spec => []TradeWithinHardCap
  <1>1. IInv => TradeWithinHardCap
    BY DEF IInv
  <1> QED
    BY Invariant, <1>1, PTL

\* If every approval saw the account's true equity and nothing open, no series of
\* trades can take the day beyond its limit.
THEOREM WorstCaseTheorem == Spec => []WorstCaseDay
  <1>1. IInv => WorstCaseDay
    BY DEF IInv
  <1> QED
    BY Invariant, <1>1, PTL

=============================================================================
