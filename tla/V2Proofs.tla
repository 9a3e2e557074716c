------------------------------ MODULE V2Proofs ------------------------------
(***************************************************************************)
(* Proofs about V2Session, for every account, premium, quote, sizing, list of *)
(* scale-outs and number of purchases and restarts: typing, the lock file,    *)
(* the books against the account, and the one law.                            *)
(*                                                                         *)
(* Then about V2Ladder, for calls of any size over ladders of any length:     *)
(* typing, trades on one rung, and true answers, which V2Session takes as     *)
(* what an order does.                                                        *)
(***************************************************************************)
EXTENDS V2Session, V2Ladder, FiniteSetTheorems, SequenceTheorems, WellFoundedInduction, TLAPS

Prices == Quotes \cup {Premium}
Book   == [entry : 0..Ask, open : Nat, initial : Nat, scaled : 0..Len(ScaleOuts),
           hits : 0..1, high : Nat]

\* A sale of s.qty contracts that book b has.
SaleOf(s, b) ==
    /\ s \in [of : 1..Len(b), qty : Nat \ {0}, reason : Reasons, upto : Buys]
    /\ s.upto <= Len(b) /\ s.qty <= b[s.of].open
    /\ s.reason = "scale_out" => b[s.of].scaled < Len(ScaleOuts)

ScalarInv ==
    /\ up \in BOOLEAN /\ file \in {"none", "today", "torn"} /\ locked \in BOOLEAN
    /\ start \in Nat /\ equity \in Nat /\ trades \in 0..MaxTrades
    /\ buying \in Nat /\ cash \in Nat /\ late \in BOOLEAN /\ restarts \in 0..MaxRestarts
    /\ current \in BOOLEAN /\ stacked \in BOOLEAN
    /\ read \in [value : Nat, fresh : BOOLEAN] /\ slip \in Nat

ShapeInv ==
    /\ held \in Seq(Nat) /\ quote \in Seq(Prices) /\ books \in Seq(Book)
    /\ Len(books) = Bought /\ Len(quote) = Bought /\ Bought <= MaxBuys

\* The books never promise more than the account has, whichever process keeps them.
BookInv ==
    \A k \in 1..Bought :
        /\ books[k].open <= books[k].initial /\ books[k].open <= held[k]
        /\ up /\ restarts = 0 => books[k].open = held[k]

SaleInv == selling = NoSale \/ SaleOf(selling, books)

\* A process that is down awaits nothing and has no books.
DownInv ==
    ~up => /\ buying = 0 /\ selling = NoSale /\ restarts < MaxRestarts
           /\ \A k \in 1..Bought : books[k].open = 0

RoomInv == buying > 0 => Bought < MaxBuys /\ trades < MaxTrades

\* A purchase in flight fits the day, should all of it be lost.
BuyInv ==
    buying > 0 /\ ~stacked =>
        100 * (Equity0 - (cash - buying * Premium)) <= LimitPct * Equity0

\* The first process anchors the day at Equity0; a current reading of an account
\* without contracts is its cash, and so is one on its way, which no sale overtakes.
Bare == \A k \in 1..Bought : held[k] = 0
FirstInv ==
    up /\ restarts = 0 =>
        /\ start = Equity0
        /\ current /\ Bare => equity = cash
        /\ read.fresh /\ Bare => read.value = cash
        /\ selling # NoSale => ~read.fresh

Core == ScalarInv /\ ShapeInv /\ BookInv /\ SaleInv /\ DownInv /\ RoomInv

-----------------------------------------------------------------------------
(* The value of what is held, which is a fold.                             *)

\* A nonempty set of numbers has a least one.
LEMMA SmallestOf ==
    ASSUME NEW T, T \subseteq Nat, T # {}
    PROVE  \E m \in T : \A k \in T : m <= k
  <1>1. PICK x \in T : \A y \in T : ~(<<y, x>> \in OpToRel(<, Nat))
    BY NatLessThanWellFounded, WFMin, Zenon
  <1>2. \A y \in T : ~(y < x)
    BY <1>1 DEF OpToRel
  <1>3. \A k \in T : x <= k
    <2> TAKE k \in T
    <2>1. x \in Nat /\ k \in Nat
      OBVIOUS
    <2> QED
      BY <2>1, <1>2
  <1> QED
    BY <1>3

\* Induction over the numbers, with a set in the place of a predicate.
LEMMA SetInduction ==
    ASSUME NEW G, 0 \in G, \A n \in Nat : n \in G => n + 1 \in G
    PROVE  Nat \subseteq G
  <1> SUFFICES ASSUME Nat \ G # {}
               PROVE  FALSE
    OBVIOUS
  <1>1. PICK m \in Nat \ G : \A k \in Nat \ G : m <= k
    BY SmallestOf
  <1>2. m # 0 /\ m - 1 \in Nat /\ ~(m <= m - 1)
    BY <1>1
  <1>3. m - 1 \in G
    BY <1>1, <1>2
  <1> QED
    BY <1>2, <1>3

\* What the contracts h of the purchases S are worth at the prices q.
Value(h, q, k) == h[k] * q[k]
Worth(h, q, S) == MapThenSumSet(LAMBDA k : Value(h, q, k), S)

\* The element a fold over s takes first.
Pick(s) == CHOOSE x \in s : TRUE

\* f holds the worth of every part of S, as the fold computes it.
Sums(f, h, q, S) ==
    f = [s \in SUBSET S |->
            IF s = {} THEN 0 ELSE Value(h, q, Pick(s)) + f[s \ {Pick(s)}]]

\* What is left of a set after that element is smaller.
LEMMA Picked ==
    ASSUME NEW S, IsFiniteSet(S), NEW s \in SUBSET S, s # {}
    PROVE  /\ Pick(s) \in s /\ s \ {Pick(s)} \in SUBSET S
           /\ Cardinality(s) \in Nat /\ Cardinality(s) > 0
           /\ Cardinality(s \ {Pick(s)}) = Cardinality(s) - 1
  <1>1. Pick(s) \in s
    BY DEF Pick
  <1>2. IsFiniteSet(s)
    BY FS_Subset
  <1>3. Cardinality(s) \in Nat /\ Cardinality(s) # 0
    BY <1>2, FS_CardinalityType, FS_EmptySet
  <1>4. Cardinality(s \ {Pick(s)}) = Cardinality(s) - 1
    BY <1>1, <1>2, FS_RemoveElement
  <1> QED
    BY <1>1, <1>3, <1>4

\* There is such a function, for every finite set.
LEMMA SumExists ==
    ASSUME NEW S, IsFiniteSet(S), NEW h, NEW q
    PROVE  \E f : Sums(f, h, q, S)
  <1> DEFINE Step(f, s) == IF s = {} THEN 0 ELSE Value(h, q, Pick(s)) + f[s \ {Pick(s)}]
             UpTo(n) == {s \in SUBSET S : Cardinality(s) <= n}
             G == {n \in Nat : \E f : \A s \in UpTo(n) : f[s] = Step(f, s)}
  <1>0. \A s \in SUBSET S : Cardinality(s) \in Nat
    BY FS_Subset, FS_CardinalityType
  <1>1. 0 \in G
    <2> DEFINE f == [s \in SUBSET S |-> 0]
    <2>1. ASSUME NEW s \in UpTo(0)
          PROVE  f[s] = Step(f, s)
      <3>1. ASSUME s # {}
            PROVE  FALSE
        <4>1. s \in SUBSET S /\ Cardinality(s) <= 0
          BY <2>1
        <4>2. Cardinality(s) \in Nat /\ Cardinality(s) > 0
          BY <3>1, <4>1, Picked
        <4> QED
          BY <4>1, <4>2
      <3> QED
        BY <3>1
    <2> QED
      BY <2>1
  <1>2. ASSUME NEW n \in Nat, n \in G
        PROVE  n + 1 \in G
    <2>1. PICK f : \A s \in UpTo(n) : f[s] = Step(f, s)
      BY <1>2
    <2> DEFINE g == [s \in SUBSET S |-> IF s \in UpTo(n) THEN f[s] ELSE Step(f, s)]
    <2>2. \A s \in UpTo(n) : g[s] = f[s]
      OBVIOUS
    <2>3. ASSUME NEW s \in UpTo(n + 1)
          PROVE  g[s] = Step(g, s)
      <3>1. g[s] = Step(f, s)
        BY <2>1
      <3>2. CASE s = {}
        BY <3>1, <3>2
      <3>3. CASE s # {}
        <4>1. s \ {Pick(s)} \in UpTo(n)
          BY <1>0, <3>3, Picked
        <4>2. g[s \ {Pick(s)}] = f[s \ {Pick(s)}]
          BY <2>2, <4>1
        <4> HIDE DEF g, UpTo
        <4> QED
          BY <3>1, <3>3, <4>2
      <3> QED
        BY <3>2, <3>3
    <2>4. \E e : \A s \in UpTo(n + 1) : e[s] = Step(e, s)
      BY <2>3
    <2> HIDE DEF g, UpTo, Step
    <2> QED
      BY <2>4
  <1>3. Cardinality(S) \in G
    <2> HIDE DEF G
    <2> QED
      BY <1>1, <1>2, SetInduction, FS_CardinalityType
  <1>4. PICK f : \A s \in UpTo(Cardinality(S)) : f[s] = Step(f, s)
    BY <1>3
  <1> DEFINE g == [s \in SUBSET S |-> f[s]]
  <1>5. \A s \in SUBSET S : s \in UpTo(Cardinality(S))
    BY FS_Subset
  <1>6. ASSUME NEW s \in SUBSET S
        PROVE  f[s] = Step(g, s)
    <2>1. f[s] = Step(f, s)
      BY <1>4, <1>5
    <2>2. CASE s = {}
      BY <2>1, <2>2
    <2>3. CASE s # {}
      <3>1. s \ {Pick(s)} \in SUBSET S
        BY <2>3, Picked
      <3>2. g[s \ {Pick(s)}] = f[s \ {Pick(s)}]
        BY <3>1
      <3> HIDE DEF g
      <3> QED
        BY <2>1, <2>3, <3>2
    <2> QED
      BY <2>2, <2>3
  <1>7. Sums(g, h, q, S)
    BY <1>6 DEF Sums
  <1> QED
    BY <1>7

\* So the worth is one of its values.
LEMMA WorthSum ==
    ASSUME NEW S, IsFiniteSet(S), NEW h, NEW q
    PROVE  \E f : Sums(f, h, q, S) /\ Worth(h, q, S) = f[S]
  <1> DEFINE it == CHOOSE f : Sums(f, h, q, S)
  <1>1. Sums(it, h, q, S)
    BY SumExists
  <1>2. Worth(h, q, S) = it[S]
    BY DEF Worth, MapThenSumSet, MapThenFoldSet, Sums, Pick
  <1> QED
    BY <1>1, <1>2

\* If every value is in D, which holds zero and the sums of its elements, so is
\* the worth.
LEMMA WorthIn ==
    ASSUME NEW S, IsFiniteSet(S), NEW h, NEW q, NEW D, 0 \in D,
           \A a, b \in D : a + b \in D,
           \A k \in S : Value(h, q, k) \in D
    PROVE  Worth(h, q, S) \in D
  <1>1. PICK f : Sums(f, h, q, S) /\ Worth(h, q, S) = f[S]
    BY WorthSum
  <1> DEFINE G == {n \in Nat : \A s \in SUBSET S : Cardinality(s) <= n => f[s] \in D}
  <1>2. \A s \in SUBSET S :
            f[s] = IF s = {} THEN 0 ELSE Value(h, q, Pick(s)) + f[s \ {Pick(s)}]
    BY <1>1 DEF Sums
  <1>3. 0 \in G
    <2>1. ASSUME NEW s \in SUBSET S, Cardinality(s) <= 0
          PROVE  f[s] \in D
      <3>1. ASSUME s # {}
            PROVE  FALSE
        <4>1. Cardinality(s) \in Nat /\ Cardinality(s) > 0
          BY <3>1, Picked
        <4> QED
          BY <2>1, <4>1
      <3>2. f[s] = 0
        BY <1>2, <3>1, Zenon
      <3> QED
        BY <3>2
    <2> QED
      BY <2>1
  <1>4. ASSUME NEW n \in Nat, n \in G
        PROVE  n + 1 \in G
    <2>1. ASSUME NEW s \in SUBSET S, Cardinality(s) <= n + 1
          PROVE  f[s] \in D
      <3>1. CASE s = {}
        BY <1>2, <3>1
      <3>2. CASE s # {}
        <4>1. /\ Pick(s) \in S /\ s \ {Pick(s)} \in SUBSET S
              /\ Cardinality(s) \in Nat /\ Cardinality(s \ {Pick(s)}) = Cardinality(s) - 1
          BY <3>2, Picked
        <4>2. Cardinality(s \ {Pick(s)}) <= n
          BY <2>1, <4>1
        <4>3. f[s \ {Pick(s)}] \in D
          BY <1>4, <4>1, <4>2
        <4>4. f[s] = Value(h, q, Pick(s)) + f[s \ {Pick(s)}]
          BY <1>2, <3>2
        <4>5. Value(h, q, Pick(s)) \in D
          BY <4>1
        <4> QED
          BY <4>3, <4>4, <4>5, Zenon
      <3> QED
        BY <3>1, <3>2
    <2> QED
      BY <2>1
  <1>5. Cardinality(S) \in G /\ Cardinality(S) \in Nat
    <2> HIDE DEF G
    <2> QED
      BY <1>3, <1>4, SetInduction, FS_CardinalityType
  <1>6. f[S] \in D
    BY <1>5
  <1> QED
    BY <1>1, <1>6

-----------------------------------------------------------------------------
(* The account.                                                            *)

USE V2Assumption

LEMMA PricesTyped == Prices \subseteq Nat
  BY DEF Prices

\* What is read of the account and its options is a number.
LEMMA ReadTyped ==
    ASSUME ShapeInv, NEW k \in 1..Bought
    PROVE  held[k] \in Nat /\ quote[k] \in Nat /\ books[k] \in Book
  <1>1. k \in 1..Len(held) /\ k \in 1..Len(quote) /\ k \in 1..Len(books)
    BY DEF ShapeInv, Bought
  <1>2. held[k] \in Nat
    BY <1>1, ElementOfSeq DEF ShapeInv
  <1>3. quote[k] \in Prices
    BY <1>1, ElementOfSeq DEF ShapeInv
  <1>4. books[k] \in Book
    BY <1>1, ElementOfSeq DEF ShapeInv
  <1> QED
    BY <1>2, <1>3, <1>4, PricesTyped

\* The value of an account is a number.
LEMMA NetLiqTyped == ASSUME ScalarInv, ShapeInv PROVE NetLiq \in Nat
  <1>1. NetLiq = Worth(held, quote, 1..Bought) + cash
    BY DEF NetLiq, Worth, Value
  <1>2. IsFiniteSet(1..Bought)
    BY FS_Interval DEF ShapeInv, Bought
  <1>3. ASSUME NEW k \in 1..Bought
        PROVE  Value(held, quote, k) \in Nat
    <2>1. held[k] \in Nat /\ quote[k] \in Nat
      BY ReadTyped
    <2> QED
      BY <2>1 DEF Value
  <1>4. Worth(held, quote, 1..Bought) \in Nat
    <2>1. 0 \in Nat /\ \A a, b \in Nat : a + b \in Nat
      OBVIOUS
    <2> QED
      BY <1>2, <1>3, <2>1, WorthIn, Zenon
  <1> QED
    BY <1>1, <1>4 DEF ScalarInv

\* Without contracts it is the cash.
LEMMA NetLiqIsCash ==
    ASSUME ScalarInv, ShapeInv, \A k \in 1..Bought : held[k] = 0
    PROVE  NetLiq = cash
  <1>1. NetLiq = Worth(held, quote, 1..Bought) + cash
    BY DEF NetLiq, Worth, Value
  <1>2. IsFiniteSet(1..Bought)
    BY FS_Interval DEF ShapeInv, Bought
  <1>3. ASSUME NEW k \in 1..Bought
        PROVE  Value(held, quote, k) \in {0}
    <2>1. held[k] = 0 /\ quote[k] \in Nat
      BY ReadTyped
    <2> QED
      BY <2>1 DEF Value
  <1>4. Worth(held, quote, 1..Bought) \in {0}
    <2>1. 0 \in {0} /\ \A a, b \in {0} : a + b \in {0}
      OBVIOUS
    <2> QED
      BY <1>2, <1>3, <2>1, WorthIn
  <1> QED
    BY <1>1, <1>4 DEF ScalarInv

-----------------------------------------------------------------------------
(* A look at the books.                                                    *)

\* The least and the greatest of two numbers.
LEMMA OfTwo ==
    ASSUME NEW a \in Int, NEW b \in Int
    PROVE  /\ Min({a, b}) \in {a, b} /\ Min({a, b}) <= a /\ Min({a, b}) <= b
           /\ Max({a, b}) \in {a, b} /\ a <= Max({a, b}) /\ b <= Max({a, b})
  <1>1. \E x \in {a, b} : \A y \in {a, b} : x <= y
    OBVIOUS
  <1>2. \E x \in {a, b} : \A y \in {a, b} : x >= y
    OBVIOUS
  <1> QED
    BY <1>1, <1>2 DEF Min, Max

\* A function on 1..n is a sequence.
LEMMA SeqOf ==
    ASSUME NEW n \in Nat, NEW T, NEW f \in [1..n -> T]
    PROVE  f \in Seq(T) /\ Len(f) = n
  BY SeqDef

LEMMA MarkTyped ==
    ASSUME ShapeInv, NEW p \in Book, NEW k \in 1..Bought
    PROVE  Mark(p, k) \in Nat
  <1>1. p.entry \in Nat /\ quote[k] \in Nat
    BY ReadTyped DEF Book
  <1> QED
    BY <1>1 DEF Mark

\* Looking at a position changes what it remembers of the marks only.
LEMMA LookedKeeps ==
    ASSUME NEW p \in Book, NEW m \in Nat
    PROVE  /\ Looked(p, m) \in Book
           /\ Looked(p, m).open = p.open /\ Looked(p, m).initial = p.initial
           /\ Looked(p, m).scaled = p.scaled
  <1>1. p.high \in Nat /\ p.high \in Int /\ m \in Int
    BY DEF Book
  <1>2. Max({p.high, m}) \in {p.high, m}
    BY <1>1, OfTwo, Zenon
  <1> DEFINE high == Max({p.high, m})
  <1>3. high \in Nat
    BY <1>1, <1>2
  <1>4. Looked(p, m) = IF locked' \/ late THEN p
                       ELSE [p EXCEPT !.hits = IF AtStop(p, m) THEN 1 ELSE 0,
                                      !.high = IF Confirmed(p, m) THEN @ ELSE high]
    BY DEF Looked
  <1> HIDE DEF high
  <1>5. CASE locked' \/ late
    BY <1>4, <1>5
  <1>6. CASE ~(locked' \/ late)
    <2> DEFINE hits == IF AtStop(p, m) THEN 1 ELSE 0
               top  == IF Confirmed(p, m) THEN p.high ELSE high
    <2>1. Looked(p, m) = [p EXCEPT !.hits = hits, !.high = top]
      BY <1>4, <1>6
    <2>2. hits \in 0..1 /\ top \in Nat
      BY <1>1, <1>3
    <2> HIDE DEF hits, top
    <2> QED
      BY <2>1, <2>2 DEF Book
  <1> QED
    BY <1>5, <1>6

\* A scale-out sells some contracts and no more than there are.
LEMMA ScaleFits ==
    ASSUME NEW p \in Book, NEW m, p.open > 0, ScaleDue(p, m)
    PROVE  ScaleQty(p) \in Nat \ {0} /\ ScaleQty(p) <= p.open
  <1>1. ScaleOuts[p.scaled + 1][2] \in Nat /\ p.initial \in Nat /\ p.open \in Nat
    BY DEF ScaleDue, Book
  <1> DEFINE share == (p.initial * ScaleOuts[p.scaled + 1][2]) \div 100
  <1>2. share \in Nat
    <2>1. p.initial * ScaleOuts[p.scaled + 1][2] \in Nat
      BY <1>1
    <2> QED
      BY <2>1
  <1> HIDE DEF share
  <1>3. Max({1, share}) \in Nat \ {0}
    <2>0. 1 \in Int /\ share \in Int
      BY <1>2
    <2>1. Max({1, share}) \in {1, share} /\ 1 <= Max({1, share})
      BY <2>0, OfTwo, Zenon
    <2> QED
      BY <1>2, <2>1
  <1>4. /\ Min({p.open, Max({1, share})}) \in {p.open, Max({1, share})}
        /\ Min({p.open, Max({1, share})}) <= p.open
    <2> DEFINE most == Max({1, share})
    <2>1. p.open \in Int /\ most \in Int
      BY <1>1, <1>3
    <2> HIDE DEF most
    <2> QED
      BY <2>1, OfTwo DEF most
  <1>5. ScaleQty(p) = Min({p.open, Max({1, share})})
    BY DEF ScaleQty, share
  <1> QED
    BY <1>1, <1>3, <1>4, <1>5

\* The rest of a tick changes neither the contracts nor the scale-outs of a book,
\* and asks for no sale that the books do not have.
LEMMA ScanKeeps ==
    ASSUME ShapeInv, NEW now \in Seq(Book), Len(now) = Bought,
           NEW from \in Nat \ {0}, NEW upto \in Nat, upto <= Bought,
           Scan(now, from, upto)
    PROVE  /\ books' \in Seq(Book) /\ Len(books') = Bought
           /\ \A k \in 1..Bought : /\ books'[k].open = now[k].open
                                   /\ books'[k].initial = now[k].initial
                                   /\ books'[k].scaled = now[k].scaled
           /\ selling' = NoSale \/ SaleOf(selling', books')
  <1> DEFINE open    == {k \in from..upto : now[k].open > 0}
             due     == {k \in open : Decision(now[k], Mark(now[k], k), FALSE) # "none"}
             Seen(n) == [i \in DOMAIN now |->
                           IF i \in open /\ i <= n THEN Looked(now[i], Mark(now[i], i))
                           ELSE now[i]]
             why(k)  == Decision(now[k], Mark(now[k], k), TRUE)
             qty(k)  == IF why(k) = "scale_out" THEN ScaleQty(now[k]) ELSE now[k].open
  <1>1. \/ books' = Seen(upto) /\ selling' = NoSale
        \/ \E k \in open :
              /\ books' = Seen(k)
              /\ selling' = [of |-> k, reason |-> why(k), upto |-> upto, qty |-> qty(k)]
    BY DEF Scan
  <1>2. /\ Bought \in Nat /\ DOMAIN now = 1..Bought
        /\ \A k \in 1..Bought : now[k] \in Book /\ Mark(now[k], k) \in Nat
    <2>1. Bought \in Nat
      BY LenProperties DEF ShapeInv, Bought
    <2>2. DOMAIN now = 1..Bought
      BY LenProperties
    <2>3. \A k \in 1..Bought : now[k] \in Book
      BY ElementOfSeq
    <2> QED
      BY <2>1, <2>2, <2>3, MarkTyped
  <1>3. open \subseteq 1..Bought
    BY <1>2
  <1>4. ASSUME NEW n, NEW k \in 1..Bought
        PROVE  /\ Seen(n)[k] \in Book
               /\ Seen(n)[k].open = now[k].open /\ Seen(n)[k].initial = now[k].initial
               /\ Seen(n)[k].scaled = now[k].scaled
    <2>1. now[k] \in Book /\ Mark(now[k], k) \in Nat
      BY <1>2
    <2> DEFINE looked == Looked(now[k], Mark(now[k], k))
    <2>2. /\ looked \in Book
          /\ looked.open = now[k].open /\ looked.initial = now[k].initial
          /\ looked.scaled = now[k].scaled
      BY <2>1, LookedKeeps
    <2>3. Seen(n)[k] = looked \/ Seen(n)[k] = now[k]
      BY <1>2
    <2> HIDE DEF looked, Seen
    <2> QED
      BY <2>1, <2>2, <2>3
  <1>5. ASSUME NEW n
        PROVE  Seen(n) \in Seq(Book) /\ Len(Seen(n)) = Bought
    <2>1. Seen(n) = [k \in 1..Bought |-> Seen(n)[k]]
      BY <1>2
    <2> HIDE DEF Seen
    <2>2. Seen(n) \in [1..Bought -> Book]
      BY <1>4, <2>1
    <2> QED
      BY <1>2, <2>2, SeqOf
  <1> HIDE DEF Seen, why, qty, due
  <1>6. CASE books' = Seen(upto) /\ selling' = NoSale
    BY <1>4, <1>5, <1>6
  <1>7. ASSUME NEW k \in open, books' = Seen(k),
               selling' = [of |-> k, reason |-> why(k), upto |-> upto, qty |-> qty(k)]
        PROVE  SaleOf(selling', books')
    <2>1. /\ k \in from..upto /\ k \in 1..Bought /\ now[k].open > 0
          /\ now[k] \in Book /\ Mark(now[k], k) \in Nat
      BY <1>2, <1>3
    <2>2. why(k) \in Reasons /\ (why(k) = "scale_out" => ScaleDue(now[k], Mark(now[k], k)))
      BY DEF why, Decision, Reasons
    <2>3. qty(k) \in Nat \ {0} /\ qty(k) <= now[k].open
      <3>1. CASE why(k) = "scale_out"
        BY <2>1, <2>2, <3>1, ScaleFits DEF qty
      <3>2. CASE why(k) # "scale_out"
        <4>1. now[k].open \in Nat
          BY <2>1 DEF Book
        <4> QED
          BY <2>1, <3>2, <4>1 DEF qty
      <3> QED
        BY <3>1, <3>2
    <2>4. why(k) = "scale_out" => now[k].scaled < Len(ScaleOuts)
      BY <2>2 DEF ScaleDue
    <2>5. upto \in Buys
      BY <2>1, <1>2 DEF Buys, ShapeInv
    <2>6. selling' \in [of : 1..Bought, qty : Nat \ {0}, reason : Reasons, upto : Buys]
      BY <1>7, <2>1, <2>2, <2>3, <2>5
    <2>7. /\ selling'.of = k /\ selling'.qty = qty(k) /\ selling'.upto = upto
          /\ selling'.reason = why(k)
      BY <1>7
    <2>8. books'[k].open = now[k].open /\ books'[k].scaled = now[k].scaled
      BY <1>4, <1>7, <2>1
    <2>9. books' \in Seq(Book) /\ Len(books') = Bought
      BY <1>5, <1>7
    <2> QED
      BY <2>3, <2>4, <2>6, <2>7, <2>8, <2>9 DEF SaleOf
  <1> QED
    BY <1>1, <1>4, <1>5, <1>6, <1>7

-----------------------------------------------------------------------------
(* The account and the books, action by action.                            *)

\* After a look, the invariants about books and sale are back.
LEMMA ScanCore ==
    ASSUME ShapeInv, NEW now \in Seq(Book), Len(now) = Bought, Len(held') = Bought,
           NEW from \in Nat \ {0}, NEW upto \in Nat, upto <= Bought,
           \A k \in 1..Bought :
               /\ now[k].open <= now[k].initial /\ now[k].open <= held'[k]
               /\ up' /\ restarts' = 0 => now[k].open = held'[k],
           Scan(now, from, upto)
    PROVE  books' \in Seq(Book) /\ Len(books') = Len(held') /\ BookInv' /\ SaleInv'
  <1>1. /\ books' \in Seq(Book) /\ Len(books') = Bought
        /\ \A k \in 1..Bought : /\ books'[k].open = now[k].open
                                /\ books'[k].initial = now[k].initial
        /\ selling' = NoSale \/ SaleOf(selling', books')
    BY ScanKeeps
  <1>2. BookInv'
    BY <1>1 DEF BookInv, Bought
  <1>3. SaleInv'
    BY <1>1 DEF SaleInv
  <1> QED
    BY <1>1, <1>2, <1>3

LEMMA CoreInit == Init => Core
  <1> SUFFICES ASSUME Init
               PROVE  Core
    OBVIOUS
  <1>1. <<>> \in Seq(Nat) /\ <<>> \in Seq(Prices) /\ <<>> \in Seq(Book) /\ Len(<<>>) = 0
    OBVIOUS
  <1>2. ScalarInv
    <2>1. /\ up \in BOOLEAN /\ locked \in BOOLEAN /\ late \in BOOLEAN
          /\ current \in BOOLEAN /\ stacked \in BOOLEAN
      BY Zenon DEF Init
    <2>2. /\ file \in {"none", "today", "torn"} /\ start \in Nat /\ equity \in Nat
          /\ trades \in 0..MaxTrades /\ buying \in Nat /\ cash \in Nat
          /\ restarts \in 0..MaxRestarts /\ slip \in Nat
      BY DEF Init
    <2>3. read \in [value : Nat, fresh : BOOLEAN]
      BY DEF Init, NoRead
    <2> QED
      BY <2>1, <2>2, <2>3 DEF ScalarInv
  <1>3. ShapeInv /\ BookInv
    BY <1>1 DEF Init, ShapeInv, BookInv, Bought
  <1>4. SaleInv /\ DownInv /\ RoomInv
    BY DEF Init, SaleInv, DownInv, RoomInv
  <1> QED
    BY <1>2, <1>3, <1>4 DEF Core

\* Blank books are books.
LEMMA BlankBooks ==
    ASSUME NEW n \in Nat
    PROVE  /\ Blank(n) \in Seq(Book) /\ Len(Blank(n)) = n
           /\ \A k \in 1..n : Blank(n)[k].open = 0 /\ Blank(n)[k].initial = 0
  <1>1. Closed \in Book /\ Closed.open = 0 /\ Closed.initial = 0
    BY LenProperties DEF Closed, Book
  <1>2. Blank(n) \in [1..n -> Book]
    BY <1>1 DEF Blank
  <1>3. \A k \in 1..n : Blank(n)[k] = Closed
    BY DEF Blank
  <1> QED
    BY <1>1, <1>2, <1>3, SeqOf

\* What the account can still be sold of.
LEMMA SaleTyped ==
    ASSUME Core, selling # NoSale
    PROVE  /\ selling.of \in 1..Bought /\ selling.qty \in Nat \ {0}
           /\ selling.upto \in Nat /\ selling.upto <= Bought
           /\ books[selling.of] \in Book /\ held[selling.of] \in Nat
           /\ quote[selling.of] \in Nat
           /\ selling.qty <= books[selling.of].open
           /\ books[selling.of].open <= held[selling.of]
           /\ selling.reason = "scale_out" => books[selling.of].scaled < Len(ScaleOuts)
           /\ up
  <1>1. SaleOf(selling, books)
    BY DEF Core, SaleInv
  <1>2. selling.of \in 1..Bought
    BY <1>1 DEF SaleOf, Core, ShapeInv
  <1>3. up
    BY DEF Core, DownInv
  <1>4. books[selling.of].open <= held[selling.of]
    BY <1>2 DEF Core, BookInv
  <1>5. books[selling.of] \in Book /\ held[selling.of] \in Nat /\ quote[selling.of] \in Nat
    BY <1>2, ReadTyped DEF Core
  <1>6. /\ selling.qty \in Nat \ {0} /\ selling.upto \in Nat
        /\ selling.upto <= Bought /\ selling.qty <= books[selling.of].open
        /\ selling.reason = "scale_out" => books[selling.of].scaled < Len(ScaleOuts)
    BY <1>1 DEF SaleOf, Core, ShapeInv, Buys
  <1> QED
    BY <1>2, <1>3, <1>4, <1>5, <1>6

\* The process is down, with blank books over any account.
LEMMA DownCore ==
    ASSUME Core, restarts < MaxRestarts, Forget, restarts' = restarts, late' = late,
           current' = current, stacked' = stacked, slip' \in Nat, file' \in {"none", "today", "torn"},
           held' \in Seq(Nat), quote' \in Seq(Prices), Len(quote') = Len(held'),
           Len(held') <= MaxBuys, cash' \in Nat, books' = Blank(Len(held'))
    PROVE  Core'
  <1>1. ScalarInv'
    <2>1. /\ up' \in BOOLEAN /\ locked' \in BOOLEAN /\ late' \in BOOLEAN
          /\ current' \in BOOLEAN /\ stacked' \in BOOLEAN
      BY Zenon DEF Core, ScalarInv, Forget
    <2>2. /\ start' \in Nat /\ equity' \in Nat /\ trades' \in 0..MaxTrades
          /\ buying' \in Nat /\ restarts' \in 0..MaxRestarts
      BY DEF Core, ScalarInv, Forget
    <2>3. read' \in [value : Nat, fresh : BOOLEAN]
      BY DEF Forget, NoRead
    <2> QED
      BY <2>1, <2>2, <2>3 DEF ScalarInv
  <1>2. Len(held') \in Nat
    BY LenProperties
  <1>3. /\ books' \in Seq(Book) /\ Len(books') = Len(held')
        /\ \A k \in 1..Len(held') : books'[k].open = 0 /\ books'[k].initial = 0
    BY <1>2, BlankBooks
  <1>4. ShapeInv'
    BY <1>3 DEF ShapeInv, Bought
  <1>5. BookInv'
    <2>1. \A k \in 1..Len(held') : held'[k] \in Nat
      BY ElementOfSeq
    <2>2. ~up'
      BY DEF Forget
    <2> QED
      BY <1>3, <2>1, <2>2 DEF BookInv, Bought
  <1>6. SaleInv' /\ RoomInv'
    BY DEF Forget, SaleInv, RoomInv
  <1>7. DownInv'
    BY <1>3 DEF DownInv, Bought, Forget
  <1> QED
    BY <1>1, <1>4, <1>5, <1>6, <1>7 DEF Core

\* A sale takes its contracts off the account.
LEMMA SoldAccount ==
    ASSUME Core, selling # NoSale,
           held' = [held EXCEPT ![selling.of] = @ - selling.qty],
           cash' = cash + selling.qty * quote[selling.of]
    PROVE  /\ held' \in Seq(Nat) /\ Len(held') = Bought
           /\ held'[selling.of] = held[selling.of] - selling.qty
           /\ \A k \in 1..Bought : k # selling.of => held'[k] = held[k]
           /\ cash' \in Nat /\ cash' >= cash
  <1>1. /\ selling.of \in 1..Bought /\ selling.qty \in Nat /\ held[selling.of] \in Nat
        /\ selling.qty <= held[selling.of] /\ quote[selling.of] \in Nat
    <2>1. /\ selling.of \in 1..Bought /\ selling.qty \in Nat \ {0}
          /\ held[selling.of] \in Nat /\ quote[selling.of] \in Nat
          /\ books[selling.of] \in Book /\ selling.qty <= books[selling.of].open
          /\ books[selling.of].open <= held[selling.of]
      BY SaleTyped
    <2>2. books[selling.of].open \in Nat
      BY <2>1 DEF Book
    <2> QED
      BY <2>1, <2>2
  <1>2. held[selling.of] - selling.qty \in Nat
    BY <1>1
  <1>3. held \in Seq(Nat) /\ selling.of \in 1..Len(held)
    BY <1>1 DEF Core, ShapeInv, Bought
  <1>4. /\ held' \in Seq(Nat) /\ Len(held') = Len(held)
        /\ \A j \in 1..Len(held) : held'[j] = IF j = selling.of THEN held[selling.of] - selling.qty
                                              ELSE held[j]
    BY <1>2, <1>3, ExceptSeq
  <1>5. cash' \in Nat /\ cash' >= cash
    <2>1. cash \in Nat
      BY DEF Core, ScalarInv
    <2>2. selling.qty * quote[selling.of] \in Nat
      BY <1>1
    <2> QED
      BY <2>1, <2>2
  <1> QED
    BY <1>3, <1>4, <1>5 DEF Bought

\* A purchase adds its own.
LEMMA BoughtAccount ==
    ASSUME Core, buying > 0, NEW fill \in Premium..Ask, Pays(fill)
    PROVE  /\ held' \in Seq(Nat) /\ Len(held') = Bought + 1 /\ Bought \in Nat
           /\ quote' \in Seq(Prices) /\ Len(quote') = Len(held')
           /\ \A k \in 1..Bought : held'[k] = held[k]
           /\ held'[Bought + 1] = buying
           /\ Len(held') <= MaxBuys /\ cash' \in Nat /\ slip' \in Nat
           /\ cash' + slip' = cash - buying * Premium
  <1>0. /\ cash >= buying * fill /\ cash' = cash - buying * fill
        /\ held' = Append(held, buying) /\ quote' = Append(quote, Premium)
        /\ slip' = buying * (fill - Premium)
    BY DEF Pays
  <1>1. held \in Seq(Nat) /\ quote \in Seq(Prices) /\ Len(quote) = Len(held)
    BY DEF Core, ShapeInv, Bought
  <1>2. Premium \in Prices /\ buying \in Nat
    BY DEF Prices, Core, ScalarInv
  <1>3. /\ held' \in Seq(Nat) /\ Len(held') = Len(held) + 1
        /\ (\A k \in 1..Len(held) : held'[k] = held[k]) /\ held'[Len(held) + 1] = buying
    BY <1>0, <1>1, <1>2, AppendProperties
  <1>4. quote' \in Seq(Prices) /\ Len(quote') = Len(quote) + 1
    BY <1>0, <1>1, <1>2, AppendProperties
  <1>5. Bought \in Nat /\ Bought < MaxBuys
    BY <1>1, LenProperties DEF Core, RoomInv, Bought
  <1>6. cash' \in Nat /\ slip' \in Nat /\ cash' + slip' = cash - buying * Premium
    <2>1. /\ fill \in Nat /\ fill - Premium \in Nat /\ cash \in Nat
          /\ buying * fill \in Nat /\ buying * Premium \in Nat
      BY <1>2 DEF Core, ScalarInv
    <2>2. buying * (fill - Premium) \in Nat
      BY <1>2, <2>1
    <2>3. buying * (fill - Premium) = buying * fill - buying * Premium
      BY <1>2, <2>1
    <2> QED
      BY <1>0, <2>1, <2>2, <2>3
  <1> QED
    BY <1>1, <1>3, <1>4, <1>5, <1>6 DEF Bought

\* Actions that leave the account, the books and the sale alone.
LEMMA QuietCore ==
    ASSUME Core, UNCHANGED <<books, selling, held>>, quote' \in Seq(Prices),
           Len(quote') = Bought, ScalarInv', RoomInv',
           up' /\ restarts' = 0 => up /\ restarts = 0,
           ~up' => ~up /\ buying' = buying /\ restarts' = restarts
    PROVE  Core'
  <1>1. ShapeInv' /\ SaleInv'
    BY DEF Core, ShapeInv, SaleInv, Bought
  <1>2. BookInv'
    BY DEF Core, BookInv, Bought
  <1>3. DownInv'
    BY DEF Core, DownInv, Bought
  <1> QED
    BY <1>1, <1>2, <1>3 DEF Core

\* What a reading of the equity leaves.
LEMMA EquityTyped ==
    ASSUME Core, \/ UpdateEquity(read.value) /\ current' = read.fresh
                 \/ UNCHANGED <<file, risk, current>>
    PROVE  /\ file' \in {"none", "today", "torn"} /\ locked' \in BOOLEAN
           /\ start' \in Nat /\ equity' \in Nat /\ trades' = trades /\ current' \in BOOLEAN
  <1>1. CASE UpdateEquity(read.value) /\ current' = read.fresh
    <2>1. equity' \in Nat /\ start' \in Nat /\ trades' = trades
      <3>1. read.value \in Nat /\ start \in Nat
        BY DEF Core, ScalarInv
      <3> QED
        BY <1>1, <3>1 DEF UpdateEquity
    <2>2. file' \in {"none", "today", "torn"}
      BY <1>1 DEF UpdateEquity, Core, ScalarInv
    <2>3. locked' \in BOOLEAN /\ current' \in BOOLEAN
      BY <1>1, Zenon DEF UpdateEquity, Core, ScalarInv
    <2> QED
      BY <2>1, <2>2, <2>3
  <1>2. CASE UNCHANGED <<file, risk, current>>
    BY <1>2 DEF risk, Core, ScalarInv
  <1> QED
    BY <1>1, <1>2

LEMMA CrashCore == Core /\ Crash => Core'
  <1> SUFFICES ASSUME Core, Crash
               PROVE  Core'
    OBVIOUS
  <1>1. /\ restarts < MaxRestarts /\ Forget /\ file' = file /\ late' = late
        /\ restarts' = restarts /\ current' = current /\ stacked' = stacked
        /\ slip \in Nat
    BY DEF Crash, Core, ScalarInv
  <1>2. file' \in {"none", "today", "torn"}
    BY <1>1 DEF Core, ScalarInv
  <1>3. /\ quote \in Seq(Prices) /\ Len(quote) = Bought /\ Bought <= MaxBuys
        /\ cash \in Nat /\ held \in Seq(Nat) /\ Len(held) = Bought
    BY DEF Core, ShapeInv, ScalarInv, Bought
  <1>4. CASE /\ selling # NoSale
             /\ held' = [held EXCEPT ![selling.of] = @ - selling.qty]
             /\ cash' = cash + selling.qty * quote[selling.of]
             /\ books' = Blank(Bought) /\ UNCHANGED <<quote, slip>>
    <2>1. held' \in Seq(Nat) /\ Len(held') = Bought /\ cash' \in Nat
      BY <1>4, SoldAccount
    <2> QED
      BY <1>1, <1>2, <1>3, <1>4, <2>1, DownCore
  <1>5. CASE /\ buying > 0 /\ (\E fill \in Premium..Ask : Pays(fill))
             /\ books' = Blank(Bought + 1)
    <2>1. /\ held' \in Seq(Nat) /\ Len(held') = Bought + 1 /\ quote' \in Seq(Prices)
          /\ Len(quote') = Len(held') /\ Len(held') <= MaxBuys /\ cash' \in Nat
          /\ slip' \in Nat
      BY <1>5, BoughtAccount
    <2> QED
      BY <1>1, <1>2, <1>5, <2>1, DownCore
  <1>6. CASE books' = Blank(Bought) /\ UNCHANGED <<account, quote, slip>>
    <2>1. held' = held /\ cash' = cash /\ quote' = quote
      BY <1>6 DEF account
    <2> QED
      BY <1>1, <1>2, <1>3, <1>6, <2>1, DownCore
  <1> QED
    BY <1>4, <1>5, <1>6 DEF Crash

LEMMA CrashInLockCore == Core /\ CrashInLock => Core'
  <1> SUFFICES ASSUME Core, CrashInLock
               PROVE  Core'
    OBVIOUS
  <1>1. /\ restarts < MaxRestarts /\ Forget /\ file' = "torn" /\ late' = late
        /\ restarts' = restarts /\ current' = current /\ stacked' = stacked
        /\ held' = held /\ cash' = cash /\ quote' = quote /\ books' = Blank(Bought)
        /\ slip' \in Nat
    BY DEF CrashInLock, account, law, Core, ScalarInv
  <1>2. /\ quote \in Seq(Prices) /\ Len(quote) = Bought /\ Bought <= MaxBuys
        /\ cash \in Nat /\ held \in Seq(Nat) /\ Len(held) = Bought
    BY DEF Core, ShapeInv, ScalarInv, Bought
  <1> QED
    BY <1>1, <1>2, DownCore

LEMMA BootCore == Core /\ Boot => Core'
  <1> SUFFICES ASSUME Core, Boot
               PROVE  Core'
    OBVIOUS
  <1>1. /\ ~up /\ restarts < MaxRestarts /\ buying = 0 /\ selling = NoSale
        /\ quote \in Seq(Prices) /\ Len(quote) = Bought /\ restarts \in Nat
    BY DEF Boot, Core, DownInv, ShapeInv, ScalarInv
  <1>2. /\ up' /\ restarts' = restarts + 1 /\ UNCHANGED <<books, selling, held, quote>>
        /\ buying' = buying
    BY DEF Boot, account
  <1>3. ScalarInv'
    <2>1. NetLiq \in Nat
      BY NetLiqTyped DEF Core
    <2>2. /\ up' \in BOOLEAN /\ locked' \in BOOLEAN /\ late' \in BOOLEAN
          /\ current' \in BOOLEAN /\ stacked' \in BOOLEAN
      BY Zenon DEF Core, ScalarInv, Boot
    <2>3. /\ file' \in {"none", "today", "torn"} /\ start' \in Nat /\ equity' \in Nat
          /\ trades' \in 0..MaxTrades /\ buying' \in Nat /\ cash' \in Nat
          /\ slip' \in Nat /\ read' \in [value : Nat, fresh : BOOLEAN]
      BY <2>1 DEF Core, ScalarInv, Boot, account
    <2>4. restarts' \in 0..MaxRestarts
      BY <1>1, <1>2
    <2> QED
      BY <2>2, <2>3, <2>4 DEF ScalarInv
  <1>4. RoomInv'
    BY <1>1, <1>2 DEF RoomInv
  <1>5. quote' \in Seq(Prices) /\ Len(quote') = Bought
    BY <1>1, <1>2
  <1>6. up' /\ restarts' # 0
    BY <1>1, <1>2
  <1> QED
    BY <1>2, <1>3, <1>4, <1>5, <1>6, QuietCore

\* The budget is a number, and clamped to what is left of the day.
LEMMA BudgetTyped ==
    ASSUME ScalarInv
    PROVE  Budget \in Nat /\ (Headroom >= 0 => Budget <= Headroom) /\ (Headroom < 0 => Budget = 0)
  <1>1. Headroom \in Int
    <2>1. LimitPct * start \in Int /\ start \in Int /\ equity \in Int
      BY DEF ScalarInv
    <2> QED
      BY <2>1 DEF Headroom
  <1>2. ConvictionPct * equity \in Nat
    BY DEF ScalarInv
  <1> DEFINE a == ConvictionPct * equity
             h == Headroom
             b == Max({0, h})
  <1>3. a \in Int /\ h \in Int /\ 0 \in Int
    BY <1>1, <1>2
  <1>4. a \in Nat
    BY <1>2
  <1> HIDE DEF a, h
  <1>5. b \in {0, h} /\ 0 <= b /\ h <= b
    BY <1>3, OfTwo, Zenon
  <1>6. b \in Int
    BY <1>3, <1>5
  <1> HIDE DEF b
  <1>7. Min({a, b}) \in {a, b} /\ Min({a, b}) <= a /\ Min({a, b}) <= b
    BY <1>3, <1>6, OfTwo, Zenon
  <1>8. Budget = Min({a, b})
    BY DEF Budget, a, b, h
  <1>9. Budget \in Nat /\ (h >= 0 => Budget <= h) /\ (h < 0 => Budget = 0)
    BY <1>3, <1>4, <1>5, <1>6, <1>7, <1>8
  <1> QED
    BY <1>9 DEF h

LEMMA SignalFiresCore == Core /\ SignalFires => Core'
  <1> SUFFICES ASSUME Core, SignalFires
               PROVE  Core'
    OBVIOUS
  <1>1. /\ up /\ UNCHANGED <<up, file, locked, start, equity, trades, books, selling, held,
                             cash, quote, late, restarts, current, read, slip>>
        /\ Bought < MaxBuys /\ buying' = SizePremium /\ SizePremium >= 1
    BY DEF SignalFires, risk, account
  <1>2. trades < MaxTrades /\ SizePremium \in Nat
    <2>1. ~(locked \/ trades >= MaxTrades) /\ SizePremium = Budget \div (100 * Premium)
      BY <1>1 DEF SizePremium
    <2>2. Budget \in Nat
      BY BudgetTyped DEF Core
    <2>3. Budget \div (100 * Premium) \in Nat
      BY <2>2
    <2> QED
      BY <2>1, <2>3 DEF Core, ScalarInv
  <1>3. stacked' \in BOOLEAN
    BY Zenon DEF SignalFires
  <1>4. ScalarInv'
    BY <1>1, <1>2, <1>3 DEF Core, ScalarInv
  <1>5. RoomInv'
    BY <1>1, <1>2 DEF RoomInv, Bought
  <1>6. quote' \in Seq(Prices) /\ Len(quote') = Bought
    BY <1>1 DEF Core, ShapeInv
  <1> QED
    BY <1>1, <1>4, <1>5, <1>6, QuietCore

LEMMA OneMore == ASSUME NEW n \in Nat, NEW k \in 0..n, k < n PROVE k + 1 \in 0..n
  OBVIOUS

LEMMA BuyFillsCore == Core /\ BuyFills => Core'
  <1> SUFFICES ASSUME Core, BuyFills
               PROVE  Core'
    OBVIOUS
  <1>0. PICK fill \in Premium..Ask :
            /\ Pays(fill)
            /\ books' = Append(books, [entry |-> fill, open |-> buying, initial |-> buying,
                                       scaled |-> 0, hits |-> 0, high |-> fill])
    BY DEF BuyFills
  <1> DEFINE b == [entry |-> fill, open |-> buying, initial |-> buying, scaled |-> 0,
                   hits |-> 0, high |-> fill]
  <1>1. /\ buying > 0 /\ books' = Append(books, b) /\ trades' = trades + 1 /\ buying' = 0
        /\ UNCHANGED <<up, selling, restarts>> /\ read' = [read EXCEPT !.fresh = FALSE]
    BY <1>0 DEF BuyFills
  <1>2. /\ held' \in Seq(Nat) /\ Len(held') = Bought + 1 /\ Bought \in Nat
        /\ quote' \in Seq(Prices) /\ Len(quote') = Len(held')
        /\ \A k \in 1..Bought : held'[k] = held[k]
        /\ held'[Bought + 1] = buying
        /\ Len(held') <= MaxBuys /\ cash' \in Nat /\ slip' \in Nat
    BY <1>0, <1>1, BoughtAccount
  <1>3. b \in Book
    <2>1. fill \in 0..Ask /\ fill \in Nat /\ 0 \in 0..Len(ScaleOuts)
      BY LenProperties
    <2> QED
      BY <2>1 DEF Book, Core, ScalarInv
  <1> HIDE DEF b
  <1>4. /\ books' \in Seq(Book) /\ Len(books') = Bought + 1
        /\ \A k \in 1..Bought : books'[k] = books[k]
        /\ books'[Bought + 1] = b
    <2>1. books \in Seq(Book) /\ Len(books) = Bought
      BY DEF Core, ShapeInv
    <2> QED
      BY <1>1, <1>3, <2>1, AppendProperties
  <1>5. ScalarInv'
    <2>1. /\ up' \in BOOLEAN /\ locked' \in BOOLEAN /\ late' \in BOOLEAN
          /\ current' \in BOOLEAN /\ stacked' \in BOOLEAN
      BY Zenon DEF Core, ScalarInv, BuyFills
    <2>2. trades' \in 0..MaxTrades
      <3>1. trades \in 0..MaxTrades /\ trades < MaxTrades
        BY <1>1 DEF Core, ScalarInv, RoomInv
      <3>2. trades + 1 \in 0..MaxTrades
        BY <3>1, OneMore, Zenon
      <3> QED
        BY <1>1, <3>2
    <2>3. /\ file' \in {"none", "today", "torn"} /\ start' \in Nat /\ equity' \in Nat
          /\ buying' \in Nat /\ restarts' \in 0..MaxRestarts
      BY DEF Core, ScalarInv, BuyFills
    <2>4. read' \in [value : Nat, fresh : BOOLEAN]
      BY <1>1 DEF Core, ScalarInv
    <2> QED
      BY <1>2, <2>1, <2>2, <2>3, <2>4 DEF ScalarInv
  <1>6. ShapeInv'
    BY <1>2, <1>4 DEF ShapeInv, Bought
  <1>7. BookInv'
    <2>1. ASSUME NEW k \in 1..(Bought + 1)
          PROVE  /\ books'[k].open <= books'[k].initial /\ books'[k].open <= held'[k]
                 /\ up /\ restarts = 0 => books'[k].open = held'[k]
      <3>1. CASE k \in 1..Bought
        BY <1>2, <1>4, <3>1 DEF Core, BookInv
      <3>2. CASE k = Bought + 1
        <4>1. b.open = buying /\ b.initial = buying /\ buying \in Nat
          BY DEF b, Core, ScalarInv
        <4> QED
          BY <1>2, <1>4, <3>2, <4>1
      <3> QED
        BY <1>2, <3>1, <3>2
    <2> QED
      BY <1>1, <1>2, <2>1 DEF BookInv, Bought
  <1>8. SaleInv'
    <2>1. CASE selling = NoSale
      BY <1>1, <2>1 DEF SaleInv
    <2>2. CASE SaleOf(selling, books)
      <3>1. Len(books) = Bought
        BY DEF Core, ShapeInv
      <3>2. selling.of \in 1..Bought /\ books'[selling.of] = books[selling.of]
        BY <1>4, <2>2, <3>1 DEF SaleOf
      <3>3. 1..Bought \subseteq 1..(Bought + 1) /\ selling.upto \in Int
        BY <1>2, <2>2 DEF SaleOf, Buys
      <3>4. selling \in [of : 1..(Bought + 1), qty : Nat \ {0}, reason : Reasons, upto : Buys]
        BY <2>2, <3>1, <3>3 DEF SaleOf
      <3>5. SaleOf(selling, books')
        BY <1>2, <1>4, <2>2, <3>1, <3>2, <3>3, <3>4 DEF SaleOf
      <3> QED
        BY <1>1, <3>5 DEF SaleInv
    <2> QED
      BY <2>1, <2>2 DEF Core, SaleInv
  <1>9. DownInv' /\ RoomInv'
    <2>1. up
      BY <1>1 DEF Core, DownInv
    <2> QED
      BY <1>1, <2>1 DEF DownInv, RoomInv
  <1> QED
    BY <1>5, <1>6, <1>7, <1>8, <1>9 DEF Core

LEMMA BuyFailsCore == Core /\ BuyFails => Core'
  <1> SUFFICES ASSUME Core, BuyFails
               PROVE  Core'
    OBVIOUS
  <1>1. /\ buying > 0 /\ buying' = 0
        /\ UNCHANGED <<up, file, locked, start, equity, trades, books, selling, held,
                       cash, quote, late, restarts, current, stacked, read, slip>>
    BY DEF BuyFails, risk, account, law
  <1>2. ScalarInv' /\ RoomInv'
    BY <1>1 DEF Core, ScalarInv, RoomInv
  <1>3. quote' \in Seq(Prices) /\ Len(quote') = Bought
    BY <1>1 DEF Core, ShapeInv
  <1>4. up'
    BY <1>1 DEF Core, DownInv
  <1> QED
    BY <1>1, <1>2, <1>3, <1>4, QuietCore

LEMMA QuoteMovesCore == Core /\ QuoteMoves => Core'
  <1> SUFFICES ASSUME Core, QuoteMoves
               PROVE  Core'
    OBVIOUS
  <1>1. UNCHANGED <<up, file, locked, start, equity, trades, books, selling, held, buying,
                    cash, late, restarts, current, stacked, read, slip>>
    BY DEF QuoteMoves, risk, account, law
  <1>2. PICK k \in Buys, q \in Quotes : k <= Bought /\ quote' = [quote EXCEPT ![k] = q]
    BY DEF QuoteMoves
  <1>3. quote' \in Seq(Prices) /\ Len(quote') = Bought
    <2>1. quote \in Seq(Prices) /\ Len(quote) = Bought /\ q \in Prices
      BY DEF Core, ShapeInv, Prices
    <2>2. k \in 1..Len(quote)
      BY <1>2, <2>1 DEF Buys
    <2> QED
      BY <1>2, <2>1, <2>2, ExceptSeq
  <1>4. ScalarInv' /\ RoomInv'
    BY <1>1 DEF Core, ScalarInv, RoomInv, Bought
  <1>5. up'
    BY <1>1 DEF QuoteMoves
  <1> QED
    BY <1>1, <1>3, <1>4, <1>5, QuietCore

LEMMA ForceFlatCore == Core /\ ForceFlatTime => Core'
  <1> SUFFICES ASSUME Core, ForceFlatTime
               PROVE  Core'
    OBVIOUS
  <1>1. UNCHANGED <<up, file, locked, start, equity, trades, books, selling, held, buying,
                    cash, quote, restarts, current, stacked, read, slip>>
    BY DEF ForceFlatTime, risk, account, law
  <1>2. late' \in BOOLEAN
    BY Zenon DEF ForceFlatTime
  <1>3. ScalarInv' /\ RoomInv'
    BY <1>1, <1>2 DEF Core, ScalarInv, RoomInv, Bought
  <1>4. quote' \in Seq(Prices) /\ Len(quote') = Bought
    BY <1>1 DEF Core, ShapeInv
  <1> QED
    BY <1>1, <1>3, <1>4, QuietCore

LEMMA FetchEquityCore == Core /\ FetchEquity => Core'
  <1> SUFFICES ASSUME Core, FetchEquity
               PROVE  Core'
    OBVIOUS
  <1>1. /\ UNCHANGED <<up, file, locked, start, equity, trades, books, selling, held, buying,
                       cash, quote, late, restarts, current, stacked, slip>>
        /\ up /\ read' = [value |-> NetLiq, fresh |-> TRUE]
    BY DEF FetchEquity, risk, account, law
  <1>2. read' \in [value : Nat, fresh : BOOLEAN]
    BY <1>1, NetLiqTyped DEF Core
  <1>3. ScalarInv' /\ RoomInv'
    BY <1>1, <1>2 DEF Core, ScalarInv, RoomInv, Bought
  <1>4. quote' \in Seq(Prices) /\ Len(quote') = Bought
    BY <1>1 DEF Core, ShapeInv
  <1> QED
    BY <1>1, <1>3, <1>4, QuietCore

LEMMA RiskTickCore == Core /\ RiskTick => Core'
  <1> SUFFICES ASSUME Core, RiskTick
               PROVE  Core'
    OBVIOUS
  <1>1. /\ up /\ selling = NoSale /\ Scan(books, 1, Bought)
        /\ \/ UpdateEquity(read.value) /\ current' = read.fresh
           \/ UNCHANGED <<file, risk, current>>
        /\ UNCHANGED <<up, buying, held, cash, quote, late, restarts, stacked, slip>>
        /\ read' \in [value : Nat, fresh : BOOLEAN]
    BY DEF RiskTick, account, NoRead
  <1>2. /\ file' \in {"none", "today", "torn"} /\ locked' \in BOOLEAN
        /\ start' \in Nat /\ equity' \in Nat /\ trades' = trades /\ current' \in BOOLEAN
    BY <1>1, EquityTyped
  <1>3. ScalarInv'
    BY <1>1, <1>2 DEF Core, ScalarInv
  <1>4. /\ ShapeInv /\ books \in Seq(Book) /\ Len(books) = Bought /\ Len(held') = Bought
        /\ 1 \in Nat \ {0} /\ Bought \in Nat /\ Bought <= Bought
    BY <1>1, LenProperties DEF Core, ShapeInv, Bought
  <1>5. \A k \in 1..Bought :
            /\ books[k].open <= books[k].initial /\ books[k].open <= held'[k]
            /\ up' /\ restarts' = 0 => books[k].open = held'[k]
    BY <1>1 DEF Core, BookInv
  <1>6. books' \in Seq(Book) /\ Len(books') = Len(held') /\ BookInv' /\ SaleInv'
    BY <1>1, <1>4, <1>5, ScanCore
  <1>7. ShapeInv'
    BY <1>1, <1>6 DEF Core, ShapeInv, Bought
  <1>8. DownInv' /\ RoomInv'
    BY <1>1, <1>2 DEF Core, DownInv, RoomInv, Bought
  <1> QED
    BY <1>3, <1>6, <1>7, <1>8 DEF Core

\* A book after its sale.
LEMMA SoldBook ==
    ASSUME NEW p \in Book, selling.qty \in Nat \ {0}, selling.qty <= p.open,
           p.open <= p.initial,
           selling.reason = "scale_out" => p.scaled < Len(ScaleOuts)
    PROVE  /\ Sold(p) \in Book /\ Sold(p).open = p.open - selling.qty
           /\ Sold(p).open <= Sold(p).initial
  <1>1. /\ p.open \in Nat /\ p.initial \in Nat /\ p.scaled \in 0..Len(ScaleOuts)
        /\ Len(ScaleOuts) \in Nat
    BY LenProperties DEF Book
  <1>2. CASE p.open = selling.qty
    <2>1. Sold(p) = [entry |-> 0, open |-> 0, initial |-> 0, scaled |-> 0, hits |-> 0, high |-> 0]
      BY <1>2 DEF Sold, Closed
    <2> QED
      BY <1>1, <1>2, <2>1 DEF Book
  <1>3. CASE p.open # selling.qty
    <2> DEFINE rest == p.open - selling.qty
               outs == p.scaled + (IF selling.reason = "scale_out" THEN 1 ELSE 0)
    <2>1. Sold(p) = [p EXCEPT !.open = rest, !.scaled = outs]
      BY <1>3 DEF Sold
    <2>2. rest \in Nat /\ rest <= p.initial /\ outs \in 0..Len(ScaleOuts)
      <3>1. rest \in Nat /\ rest <= p.initial
        BY <1>1
      <3>2. CASE selling.reason = "scale_out"
        <4>1. outs = p.scaled + 1
          BY <3>2
        <4>2. p.scaled < Len(ScaleOuts)
          BY <3>2
        <4>3. p.scaled + 1 \in 0..Len(ScaleOuts)
          BY <1>1, <4>2, OneMore, Zenon
        <4> QED
          BY <3>1, <4>1, <4>3
      <3>3. CASE selling.reason # "scale_out"
        <4>1. outs = p.scaled
          BY <1>1, <3>3
        <4> QED
          BY <1>1, <3>1, <4>1
      <3> QED
        BY <3>2, <3>3
    <2> HIDE DEF rest, outs
    <2>3. Sold(p) \in Book /\ Sold(p).open = rest /\ Sold(p).initial = p.initial
      BY <2>1, <2>2 DEF Book
    <2> QED
      BY <2>2, <2>3 DEF rest
  <1> QED
    BY <1>2, <1>3

LEMMA SaleFillsCore == Core /\ SaleFills => Core'
  <1> SUFFICES ASSUME Core, SaleFills
               PROVE  Core'
    OBVIOUS
  <1> DEFINE i == selling.of
             now == [books EXCEPT ![i] = Sold(@)]
  <1>1. /\ selling # NoSale /\ cash' = cash + selling.qty * quote[i]
        /\ held' = [held EXCEPT ![i] = @ - selling.qty]
        /\ quote' = [quote EXCEPT ![i] = IF held'[i] = 0 THEN Premium ELSE @]
        /\ current' = FALSE /\ Scan(now, i + 1, selling.upto)
        /\ UNCHANGED <<up, file, locked, start, equity, trades, buying, late, restarts,
                       stacked, read, slip>>
    BY DEF SaleFills, risk
  <1>2. /\ i \in 1..Bought /\ selling.qty \in Nat \ {0}
        /\ selling.upto \in Nat /\ selling.upto <= Bought
        /\ books[i] \in Book /\ held[i] \in Nat
        /\ selling.qty <= books[i].open /\ books[i].open <= held[i]
        /\ selling.reason = "scale_out" => books[i].scaled < Len(ScaleOuts)
        /\ up
    BY <1>1, SaleTyped
  <1>3. /\ held' \in Seq(Nat) /\ Len(held') = Bought
        /\ held'[i] = held[i] - selling.qty
        /\ \A k \in 1..Bought : k # i => held'[k] = held[k]
        /\ cash' \in Nat
    BY <1>1, SoldAccount
  <1>4. /\ books \in Seq(Book) /\ Len(books) = Bought /\ quote \in Seq(Prices)
        /\ Len(quote) = Bought /\ Bought \in Nat /\ Bought <= MaxBuys
    BY LenProperties DEF Core, ShapeInv, Bought
  <1>5. books[i].open <= books[i].initial /\ books[i].open \in Nat
    BY <1>2 DEF Core, BookInv, Book
  <1>6. /\ Sold(books[i]) \in Book /\ Sold(books[i]).open = books[i].open - selling.qty
        /\ Sold(books[i]).open <= Sold(books[i]).initial
    BY <1>2, <1>5, SoldBook
  <1>7. /\ now \in Seq(Book) /\ Len(now) = Bought
        /\ \A j \in 1..Bought : now[j] = IF j = i THEN Sold(books[i]) ELSE books[j]
    BY <1>2, <1>4, <1>6, ExceptSeq
  <1>8. quote' \in Seq(Prices) /\ Len(quote') = Bought
    <2>1. quote[i] \in Prices /\ Premium \in Prices
      BY <1>2, <1>4, ElementOfSeq DEF Prices
    <2> DEFINE price == IF held'[i] = 0 THEN Premium ELSE quote[i]
    <2>2. price \in Prices
      BY <2>1
    <2>3. quote' = [quote EXCEPT ![i] = price]
      BY <1>1
    <2> HIDE DEF price
    <2> QED
      BY <1>2, <1>4, <2>2, <2>3, ExceptSeq
  <1> HIDE DEF now, i
  <1>9. ASSUME NEW k \in 1..Bought
        PROVE  /\ now[k].open <= now[k].initial /\ now[k].open <= held'[k]
               /\ up' /\ restarts' = 0 => now[k].open = held'[k]
    <2>1. CASE k = i
      <3>1. now[i] = Sold(books[i]) /\ (up /\ restarts = 0 => books[i].open = held[i])
        BY <1>2, <1>7 DEF Core, BookInv
      <3>2. now[i].open = books[i].open - selling.qty /\ now[i].open <= now[i].initial
        BY <1>6, <3>1
      <3>3. now[i].open <= held'[i]
        <4>1. /\ books[i].open \in Int /\ held[i] \in Int /\ selling.qty \in Int
              /\ books[i].open <= held[i]
          BY <1>2, <1>5
        <4>2. books[i].open - selling.qty <= held[i] - selling.qty
          BY <4>1
        <4> QED
          BY <1>3, <3>2, <4>2
      <3>4. up' /\ restarts' = 0 => now[i].open = held'[i]
        BY <1>1, <1>3, <3>1, <3>2
      <3> QED
        BY <2>1, <3>2, <3>3, <3>4
    <2>2. CASE k # i
      BY <1>1, <1>3, <1>7, <2>2 DEF Core, BookInv
    <2> QED
      BY <2>1, <2>2
  <1>10. books' \in Seq(Book) /\ Len(books') = Len(held') /\ BookInv' /\ SaleInv'
    <2>1. i + 1 \in Nat \ {0} /\ ShapeInv
      BY <1>2, <1>4 DEF Core
    <2> QED
      BY <1>1, <1>2, <1>3, <1>7, <1>9, <2>1, ScanCore
  <1>11. ShapeInv'
    BY <1>3, <1>4, <1>8, <1>10 DEF ShapeInv, Bought
  <1>12. ScalarInv'
    BY <1>1, <1>3 DEF Core, ScalarInv
  <1>13. DownInv' /\ RoomInv'
    BY <1>1, <1>2, <1>3 DEF Core, DownInv, RoomInv, Bought
  <1> QED
    BY <1>10, <1>11, <1>12, <1>13 DEF Core

LEMMA SaleFailsCore == Core /\ SaleFails => Core'
  <1> SUFFICES ASSUME Core, SaleFails
               PROVE  Core'
    OBVIOUS
  <1>1. /\ selling # NoSale
        /\ \/ Scan(books, selling.of + 1, selling.upto)
           \/ selling' = NoSale /\ UNCHANGED books
        /\ UNCHANGED <<up, file, locked, start, equity, trades, buying, held, cash, quote,
                       late, restarts, current, stacked, read, slip>>
    BY DEF SaleFails, risk, account, law
  <1>2. /\ selling.of \in 1..Bought /\ selling.upto \in Nat /\ selling.upto <= Bought /\ up
    BY <1>1, SaleTyped
  <1>3. /\ ShapeInv /\ books \in Seq(Book) /\ Len(books) = Bought /\ Len(held') = Bought
        /\ Bought \in Nat
    BY <1>1, LenProperties DEF Core, ShapeInv, Bought
  <1>4. \A k \in 1..Bought :
            /\ books[k].open <= books[k].initial /\ books[k].open <= held'[k]
            /\ up' /\ restarts' = 0 => books[k].open = held'[k]
    BY <1>1 DEF Core, BookInv
  <1>5. books' \in Seq(Book) /\ Len(books') = Len(held') /\ BookInv' /\ SaleInv'
    <2>1. CASE Scan(books, selling.of + 1, selling.upto)
      <3>1. selling.of + 1 \in Nat \ {0}
        BY <1>2
      <3> QED
        BY <1>2, <1>3, <1>4, <2>1, <3>1, ScanCore
    <2>2. CASE selling' = NoSale /\ UNCHANGED books
      BY <1>1, <1>3, <2>2 DEF Core, BookInv, SaleInv, Bought
    <2> QED
      BY <1>1, <2>1, <2>2
  <1>6. ScalarInv' /\ ShapeInv'
    BY <1>1, <1>5 DEF Core, ScalarInv, ShapeInv, Bought
  <1>7. DownInv' /\ RoomInv'
    BY <1>1, <1>2 DEF Core, DownInv, RoomInv, Bought
  <1> QED
    BY <1>5, <1>6, <1>7 DEF Core

LEMMA CoreStep == Core /\ [Next]_vars => Core'
  <1> SUFFICES ASSUME Core, [Next]_vars
               PROVE  Core'
    OBVIOUS
  <1>1. CASE UNCHANGED vars
    <2>1. UNCHANGED <<up, file, locked, start, equity, trades, books, selling, held, buying,
                      cash, quote, late, restarts, current, stacked, read, slip>>
      BY <1>1 DEF vars, risk, account, law
    <2>2. ScalarInv' /\ RoomInv'
      BY <2>1 DEF Core, ScalarInv, RoomInv, Bought
    <2>3. quote' \in Seq(Prices) /\ Len(quote') = Bought
      BY <2>1 DEF Core, ShapeInv
    <2> QED
      BY <2>1, <2>2, <2>3, QuietCore
  <1> QED
    BY <1>1, CrashCore, CrashInLockCore, BootCore, SignalFiresCore, BuyFillsCore,
       BuyFailsCore, FetchEquityCore, RiskTickCore, SaleFillsCore, SaleFailsCore, QuoteMovesCore,
       ForceFlatCore DEF Next, BuyEnds

\* The invariant holds the types the run checks.
LEMMA CoreTypes == Core => TypeOK /\ Managed
  <1> SUFFICES ASSUME Core
               PROVE  TypeOK /\ Managed
    OBVIOUS
  <1>1. ASSUME NEW k \in 1..Bought
        PROVE  /\ held[k] \in Nat /\ quote[k] \in Quotes \cup {Premium}
               /\ books[k] \in Book /\ books[k].open <= books[k].initial
    <2>1. k \in 1..Len(quote) /\ quote \in Seq(Prices)
      BY DEF Core, ShapeInv
    <2>2. quote[k] \in Prices
      BY <2>1, ElementOfSeq
    <2>3. held[k] \in Nat /\ books[k] \in Book
      BY ReadTyped DEF Core
    <2>4. books[k].open <= books[k].initial
      BY DEF Core, BookInv
    <2> QED
      BY <2>2, <2>3, <2>4 DEF Prices
  <1>2. \/ selling = NoSale
        \/ selling \in [of : Open, qty : Nat \ {0}, reason : Reasons, upto : Buys]
    <2>1. CASE selling = NoSale
      BY <2>1
    <2>2. CASE selling # NoSale
      <3>1. SaleOf(selling, books) /\ Len(books) = Bought
        BY <2>2 DEF Core, SaleInv, ShapeInv
      <3>2. selling.of \in 1..Bought /\ books[selling.of] \in Book
            /\ selling.qty \in Nat \ {0} /\ selling.qty <= books[selling.of].open
        BY <2>2, SaleTyped
      <3>3. books[selling.of].open > 0
        BY <3>2 DEF Book
      <3>4. selling.of \in Open
        BY <3>2, <3>3 DEF Open
      <3> QED
        BY <3>1, <3>4 DEF SaleOf
    <2> QED
      BY <2>1, <2>2
  <1>3. TypeOK
    BY <1>1, <1>2 DEF Core, ScalarInv, ShapeInv, TypeOK, Book
  <1>4. Managed
    BY DEF Core, BookInv, Managed
  <1> QED
    BY <1>3, <1>4

\* Every value, in the process and in the account, has its type, for any number of
\* purchases, scale-outs and restarts; no sale asks for more than a book holds.
THEOREM SessionTypeCorrect == Spec => []TypeOK
  <1>1. Core => TypeOK
    BY CoreTypes
  <1> QED
    BY CoreInit, CoreStep, <1>1, PTL DEF Spec

\* The first process has an exit engine over every contract of the account, and
\* over none that is not there, whatever is in flight.
THEOREM ManagedTheorem == Spec => []Managed
  <1>1. Core => Managed
    BY CoreTypes
  <1> QED
    BY CoreInit, CoreStep, <1>1, PTL DEF Spec

-----------------------------------------------------------------------------
(* The lock.                                                               *)

LEMMA LockStep == Core /\ LockHolds /\ [Next]_vars => LockHolds'
  <1> SUFFICES ASSUME Core, LockHolds, [Next]_vars
               PROVE  LockHolds'
    OBVIOUS
  <1>1. CASE Crash \/ CrashInLock
    BY <1>1 DEF Crash, CrashInLock, Forget, LockHolds
  <1>2. CASE Boot
    BY <1>2 DEF Boot, LockHolds
  <1>3. CASE RiskTick
    BY <1>3 DEF RiskTick, UpdateEquity, risk, LockHolds
  <1>4. CASE SignalFires \/ BuyEnds \/ FetchEquity \/ SaleFills \/ SaleFails \/ QuoteMoves
             \/ ForceFlatTime \/ UNCHANGED vars
    <2>1. (up' <=> up) /\ file' = file /\ (locked' <=> locked)
      BY <1>4 DEF SignalFires, BuyEnds, BuyFills, BuyFails, FetchEquity, SaleFills, SaleFails, QuoteMoves,
                  ForceFlatTime, vars, risk
    <2> QED
      BY <2>1 DEF LockHolds
  <1> QED
    BY <1>1, <1>2, <1>3, <1>4 DEF Next

\* No crash, restart or torn write of the lock file lets a locked day trade again.
THEOREM LockTheorem == Spec => []LockHolds
  <1>1. Init => LockHolds
    BY DEF Init, LockHolds
  <1>2. Core /\ LockHolds /\ [Next]_vars => LockHolds'
    BY LockStep
  <1> QED
    BY CoreInit, CoreStep, <1>1, <1>2, PTL DEF Spec

-----------------------------------------------------------------------------
(* The one law.                                                            *)

\* After a process that is down or was, nothing is a purchase of the first one.
LEMMA FirstStep == Core /\ FirstInv /\ [Next]_vars => FirstInv'
  <1> SUFFICES ASSUME Core, FirstInv, [Next]_vars, up', restarts' = 0
               PROVE  /\ start' = Equity0
                      /\ current' /\ Bare' => equity' = cash'
                      /\ read'.fresh /\ Bare' => read'.value = cash'
                      /\ selling' # NoSale => ~read'.fresh
    BY DEF FirstInv
  <1>1. CASE Crash \/ CrashInLock \/ Boot
    BY <1>1 DEF Crash, CrashInLock, Boot, Forget, Core, ScalarInv
  <1>2. CASE BuyFills
    <2>1. /\ up /\ restarts = 0 /\ start' = start /\ ~current'
          /\ read' = [read EXCEPT !.fresh = FALSE]
      BY <1>2 DEF BuyFills
    <2>2. ~read'.fresh
      BY <2>1 DEF Core, ScalarInv
    <2> QED
      BY <2>1, <2>2 DEF FirstInv
  <1>3. CASE SaleFills
    <2>1. /\ up /\ restarts = 0 /\ start' = start /\ ~current' /\ read' = read
          /\ selling # NoSale
      BY <1>3 DEF SaleFills, risk
    <2> QED
      BY <2>1 DEF FirstInv
  <1>4. CASE RiskTick
    <2>1. /\ up /\ restarts = 0 /\ held' = held /\ cash' = cash /\ ~read'.fresh
          /\ \/ UpdateEquity(read.value) /\ current' = read.fresh
             \/ UNCHANGED <<file, risk, current>>
      BY <1>4 DEF RiskTick, account, NoRead
    <2>2. CASE UpdateEquity(read.value) /\ current' = read.fresh
      <3>1. start' = Equity0 /\ equity' = read.value
        BY <2>1, <2>2 DEF UpdateEquity, FirstInv
      <3> QED
        BY <2>1, <2>2, <3>1 DEF Bare, Bought, FirstInv
    <2>3. CASE UNCHANGED <<file, risk, current>>
      BY <2>1, <2>3 DEF risk, Bare, Bought, FirstInv
    <2> QED
      BY <2>1, <2>2, <2>3
  <1>5. CASE FetchEquity
    <2>1. /\ UNCHANGED <<up, current, restarts, start, equity, held, cash, selling>>
          /\ selling = NoSale /\ read' = [value |-> NetLiq, fresh |-> TRUE]
      BY <1>5 DEF FetchEquity, risk, account, law
    <2>2. Bare => NetLiq = cash
      BY NetLiqIsCash DEF Core, Bare
    <2>3. read'.value = NetLiq
      BY <2>1
    <2>4. (Bare' <=> Bare)
      BY <2>1 DEF Bare, Bought
    <2> QED
      BY <2>1, <2>2, <2>3, <2>4 DEF FirstInv
  <1>6. CASE SaleFails
    <2>1. /\ UNCHANGED <<up, current, restarts, start, equity, held, cash, read>>
          /\ selling # NoSale
      BY <1>6 DEF SaleFails, risk, account, law
    <2> QED
      BY <2>1 DEF FirstInv, Bare, Bought
  <1>7. CASE SignalFires \/ BuyFails \/ QuoteMoves \/ ForceFlatTime \/ UNCHANGED vars
    <2>1. UNCHANGED <<up, current, restarts, start, equity, held, cash, read, selling>>
      BY <1>7, Zenon DEF SignalFires, BuyFails, QuoteMoves, ForceFlatTime, vars, risk,
                         account, law
    <2> QED
      BY <2>1 DEF FirstInv, Bare, Bought
  <1> QED
    BY <1>1, <1>2, <1>3, <1>4, <1>5, <1>6, <1>7 DEF Next, BuyEnds

\* A quotient times its divisor stays below.
LEMMA Quotient ==
    ASSUME NEW a \in Nat, NEW b \in Nat, b > 0
    PROVE  a \div b \in Nat /\ (a \div b) * b <= a
  OBVIOUS

\* A purchase sized by the rule costs no more than what is left of the day.
LEMMA SizeFits ==
    ASSUME ScalarInv, SizePremium >= 1
    PROVE  /\ SizePremium \in Nat /\ Headroom \in Int
           /\ 100 * (SizePremium * Premium) <= Headroom
  <1> DEFINE size == SizePremium
             b == Budget
             h == Headroom
             u == 100 * Premium
  <1>1. size = b \div u
    BY DEF SizePremium
  <1>2. h \in Int
    <2>1. LimitPct * start \in Int /\ start \in Int /\ equity \in Int
      BY DEF ScalarInv
    <2> QED
      BY <2>1 DEF Headroom
  <1>3. b \in Nat /\ (h >= 0 => b <= h) /\ (h < 0 => b = 0)
    BY BudgetTyped
  <1>4. u \in Nat /\ u > 0
    OBVIOUS
  <1>5. size >= 1
    OBVIOUS
  <1> HIDE DEF size, b, h, u
  <1>6. b \div u \in Nat /\ (b \div u) * u <= b
    BY <1>3, <1>4, Quotient
  <1>7. size \in Nat /\ size * u <= b /\ size * u > 0 /\ size * u \in Nat
    BY <1>1, <1>4, <1>5, <1>6
  <1>8. size * u <= h
    <2> DEFINE cost == size * u
    <2>1. cost \in Nat /\ cost <= b /\ cost > 0
      BY <1>7
    <2> HIDE DEF cost
    <2>2. cost <= h
      BY <1>2, <1>3, <2>1
    <2> QED
      BY <2>2 DEF cost
  <1>9. size * u = 100 * (size * Premium)
    BY <1>7 DEF u
  <1> QED
    BY <1>2, <1>7, <1>8, <1>9 DEF size, h

LEMMA BuyStep == Core /\ FirstInv /\ BuyInv /\ [Next]_vars => BuyInv'
  <1> SUFFICES ASSUME Core, FirstInv, BuyInv, [Next]_vars, buying' > 0, ~stacked'
               PROVE  100 * (Equity0 - (cash' - buying' * Premium)) <= LimitPct * Equity0
    BY DEF BuyInv
  <1>1. CASE Crash \/ CrashInLock
    BY <1>1 DEF Crash, CrashInLock, Forget
  <1>2. CASE Boot
    BY <1>2 DEF Boot, Core, DownInv
  <1>3. CASE SignalFires
    <2>1. /\ up /\ buying' = SizePremium /\ SizePremium >= 1 /\ cash' = cash
          /\ Open = {} /\ current /\ ~(restarts > 0)
      BY <1>3, Zenon DEF SignalFires, account
    <2>2. restarts = 0
      BY <2>1 DEF Core, ScalarInv
    <2>3. \A k \in 1..Bought : held[k] = 0
      <3>1. ASSUME NEW k \in 1..Bought
            PROVE  held[k] = 0
        <4>1. books[k].open = held[k] /\ held[k] \in Nat
          BY <2>1, <2>2, ReadTyped DEF Core, BookInv
        <4>2. ~(books[k].open > 0)
          BY <2>1 DEF Open
        <4> QED
          BY <4>1, <4>2
      <3> QED
        BY <3>1
    <2>4. start = Equity0 /\ equity = cash
      BY <2>1, <2>2, <2>3 DEF FirstInv, Bare
    <2>5. SizePremium \in Nat /\ 100 * (SizePremium * Premium) <= Headroom
      BY <2>1, SizeFits DEF Core
    <2>6. Headroom = LimitPct * Equity0 - 100 * (Equity0 - cash)
      BY <2>4 DEF Headroom
    <2> DEFINE cost == SizePremium * Premium
               limit == LimitPct * Equity0
    <2>7. cost \in Nat /\ limit \in Nat /\ cash \in Nat
      BY <2>5 DEF Core, ScalarInv
    <2>8. 100 * cost <= limit - 100 * (Equity0 - cash)
      BY <2>5, <2>6
    <2> HIDE DEF cost, limit
    <2>9. 100 * (Equity0 - (cash - cost)) <= limit
      BY <2>7, <2>8
    <2> QED
      BY <2>1, <2>9 DEF cost, limit
  <1>4. CASE BuyEnds
    BY <1>4 DEF BuyEnds, BuyFills, BuyFails
  <1>5. CASE SaleFills
    <2>1. /\ selling # NoSale /\ held' = [held EXCEPT ![selling.of] = @ - selling.qty]
          /\ cash' = cash + selling.qty * quote[selling.of]
          /\ UNCHANGED <<buying, stacked>>
      BY <1>5 DEF SaleFills
    <2>2. cash' \in Nat /\ cash' >= cash
      BY <2>1, SoldAccount
    <2> DEFINE cost == buying * Premium
               limit == LimitPct * Equity0
    <2>3. cost \in Nat /\ limit \in Nat /\ cash \in Nat
      BY DEF Core, ScalarInv
    <2>4. 100 * (Equity0 - (cash - cost)) <= limit
      BY <2>1 DEF BuyInv
    <2> HIDE DEF cost, limit
    <2>5. 100 * (Equity0 - (cash' - cost)) <= limit
      <3>1. /\ Equity0 \in Int /\ cost \in Int /\ cash \in Int /\ cash' \in Int
            /\ limit \in Int
        BY <2>2, <2>3
      <3>2. \A more \in Int : more >= cash => 100 * (Equity0 - (more - cost)) <= limit
        BY <2>4, <3>1
      <3> QED
        BY <2>2, <3>1, <3>2, Zenon
    <2> QED
      BY <2>1, <2>5 DEF cost, limit
  <1>6. CASE FetchEquity \/ RiskTick \/ SaleFails \/ QuoteMoves \/ ForceFlatTime
             \/ UNCHANGED vars
    <2>1. UNCHANGED <<buying, stacked, cash>>
      BY <1>6, Zenon DEF FetchEquity, RiskTick, SaleFails, QuoteMoves, ForceFlatTime, vars,
                         account, law
    <2> QED
      BY <2>1 DEF BuyInv
  <1> QED
    BY <1>1, <1>2, <1>3, <1>4, <1>5, <1>6 DEF Next

\* What a purchase costs beyond its size is in slip, and a sale brings money in.
LEMMA WorstStep == Core /\ BuyInv /\ WorstCaseDay /\ [Next]_vars => WorstCaseDay'
  <1> SUFFICES ASSUME Core, BuyInv, WorstCaseDay, [Next]_vars, ~stacked'
               PROVE  100 * (Equity0 - cash' - slip') <= LimitPct * Equity0
    BY DEF WorstCaseDay
  <1> DEFINE limit == LimitPct * Equity0
  <1>1. limit \in Nat /\ cash \in Nat /\ slip \in Nat
    BY DEF Core, ScalarInv
  <1>2. ~stacked
    BY Zenon DEF Next, Crash, CrashInLock, Boot, SignalFires, BuyEnds, BuyFills, BuyFails,
                 FetchEquity, RiskTick, SaleFills, SaleFails, QuoteMoves, ForceFlatTime, vars,
                 law
  <1>3. 100 * (Equity0 - cash - slip) <= limit
    BY <1>2 DEF WorstCaseDay
  <1>4. CASE cash' = cash /\ slip' = slip
    BY <1>3, <1>4
  <1>5. CASE buying > 0 /\ (\E fill \in Premium..Ask : Pays(fill))
    <2>1. /\ cash' \in Nat /\ slip' \in Nat
          /\ cash' + slip' = cash - buying * Premium
      BY <1>5, BoughtAccount
    <2> DEFINE cost == buying * Premium
    <2>2. cost \in Nat /\ 100 * (Equity0 - (cash - cost)) <= limit
      BY <1>2, <1>5 DEF BuyInv, Core, ScalarInv
    <2>3. cash' + slip' = cash - cost
      BY <2>1
    <2> HIDE DEF cost, limit
    <2>4. Equity0 - cash' - slip' = Equity0 - (cash - cost)
      <3> DEFINE c == cash'
                 s == slip'
                 d == cash - cost
      <3>1. c \in Nat /\ s \in Nat
        BY <2>1
      <3>2. d \in Int
        BY <1>1, <2>2
      <3>3. c + s = d
        BY <2>3, Zenon
      <3> HIDE DEF c, s, d
      <3>4. Equity0 - c - s = Equity0 - d
        BY <3>1, <3>2, <3>3
      <3> QED
        BY <3>4 DEF c, s, d
    <2>5. 100 * (Equity0 - cash' - slip') <= limit
      BY <2>2, <2>4
    <2> QED
      BY <2>5 DEF limit
  <1>6. CASE /\ selling # NoSale /\ held' = [held EXCEPT ![selling.of] = @ - selling.qty]
             /\ cash' = cash + selling.qty * quote[selling.of] /\ slip' = slip
    <2>1. cash' \in Nat /\ cash' >= cash
      BY <1>6, SoldAccount
    <2> HIDE DEF limit
    <2>2. 100 * (Equity0 - cash' - slip) <= limit
      <3>1. /\ Equity0 \in Int /\ cash \in Int /\ cash' \in Int /\ slip \in Int
            /\ limit \in Int
        BY <1>1, <2>1
      <3>2. \A more \in Int : more >= cash => 100 * (Equity0 - more - slip) <= limit
        BY <1>3, <3>1
      <3> QED
        BY <2>1, <3>1, <3>2, Zenon
    <2> QED
      BY <1>6, <2>2 DEF limit
  <1>7. CASE Crash
    <2>1. UNCHANGED <<account, quote, slip>> => cash' = cash /\ slip' = slip
      BY DEF account
    <2> QED
      BY <1>4, <1>5, <1>6, <1>7, <2>1 DEF Crash
  <1>8. CASE BuyFills
    BY <1>5, <1>8 DEF BuyFills
  <1>9. CASE SaleFills
    BY <1>6, <1>9 DEF SaleFills
  <1>10. CASE CrashInLock \/ Boot \/ SignalFires \/ BuyFails \/ FetchEquity \/ RiskTick
              \/ SaleFails \/ QuoteMoves \/ ForceFlatTime \/ UNCHANGED vars
    <2>1. cash' = cash /\ slip' = slip
      BY <1>10, Zenon DEF CrashInLock, Boot, SignalFires, BuyFails, FetchEquity, RiskTick,
                          SaleFails, QuoteMoves, ForceFlatTime, vars, account, law
    <2> QED
      BY <1>4, <2>1
  <1> QED
    BY <1>7, <1>8, <1>9, <1>10 DEF Next, BuyEnds

\* The one law of risk.py: bought one position at a time on a current reading and in
\* one process, the day cannot lose more than its limit and what the last purchase cost
\* beyond the price it was sized at (risk.py:104-107, executor.py:136-140), even if all
\* that is held becomes worthless, for every conviction within that limit.
THEOREM WorstCaseTheorem == Spec => []WorstCaseDay
  <1> DEFINE Inv == Core /\ FirstInv /\ BuyInv /\ WorstCaseDay
  <1>1. Init => Inv
    <2> SUFFICES ASSUME Init
                 PROVE  Inv
      OBVIOUS
    <2>1. start = Equity0 /\ equity = cash /\ cash = Equity0 /\ buying = 0
          /\ slip = 0 /\ ~read.fresh
      BY DEF Init, NoRead
    <2>2. LimitPct * Equity0 \in Nat /\ Equity0 - Equity0 - 0 = 0
      OBVIOUS
    <2> QED
      BY <2>1, <2>2, CoreInit DEF FirstInv, BuyInv, WorstCaseDay
  <1>2. Inv /\ [Next]_vars => Inv'
    BY CoreStep, FirstStep, BuyStep, WorstStep
  <1>3. Inv => WorstCaseDay
    OBVIOUS
  <1> QED
    BY <1>1, <1>2, <1>3, PTL DEF Spec

-----------------------------------------------------------------------------
(* The order ladder.                                                        *)

Orderly == trouble \cap {"listed_on", "partial"} = {}

\* Without fills in part and without going on past a listed order, the rungs left
\* behind are dead, those ahead are not used, and an order is whole or filled.
RungsInv ==
    Orderly =>
        /\ \A r \in Rungs : /\ left[r] = IF ord[r] = "filled" THEN 0 ELSE N
                            /\ r > step => ord[r] = "none"
                            /\ r < step => ord[r] = "dead"
        /\ pc \in {"start", "place"} => ord[step] = "none"

\* What the order of the present rung can be, when nothing at all went wrong.
AnswerInv ==
    trouble = {} =>
        /\ pc \in {"await", "cancel", "resolve"} => ord[step] \in {"working", "filled"}
        /\ pc = "ended" /\ answer = "fill" => ord[step] = "filled"
        /\ pc = "ended" /\ answer # "fill" => ord[step] \in {"none", "dead"}

LadderInv == LadderTypeOK /\ RungsInv /\ AnswerInv

-----------------------------------------------------------------------------
USE V2LadderAssumption
HIDE V2Assumption

\* Where the ladder is after a rung that did not fill.
LEMMA NextRungEnds ==
    ASSUME LadderTypeOK, NextRung
    PROVE  /\ step' \in Rungs /\ pc' \in {"place", "ended"} /\ answer' \in {"pending", "fill", "none", "raised"}
           /\ \/ step' = step + 1 /\ pc' = "place"
              \/ step' = step /\ pc' = "ended" /\ answer' = "none"
  BY DEF LadderTypeOK, NextRung, End, Rungs

-----------------------------------------------------------------------------
(* Types.                                                                   *)

LEMMA LadderTypeInit == LadderInit => LadderTypeOK
  BY DEF LadderInit, LadderTypeOK, Rungs, Troubles

LEMMA LadderTypeStep == LadderTypeOK /\ [LadderNext]_ladderVars => LadderTypeOK'
  <1> SUFFICES ASSUME LadderTypeOK, [LadderNext]_ladderVars
               PROVE  LadderTypeOK'
    OBVIOUS
  <1> USE DEF LadderTypeOK, Troubles
  <1>1. CASE Trades
    <2>1. PICK r \in Working : \E l \in 0..left[r] - 1 :
              /\ left' = [left EXCEPT ![r] = l]
              /\ ord' = [ord EXCEPT ![r] = IF l = 0 THEN "filled" ELSE "working"]
              /\ trouble' = trouble \cup (IF l = 0 THEN {} ELSE {"partial"})
              /\ UNCHANGED call
      BY <1>1 DEF Trades
    <2>2. PICK l \in 0..left[r] - 1 :
              /\ left' = [left EXCEPT ![r] = l]
              /\ ord' = [ord EXCEPT ![r] = IF l = 0 THEN "filled" ELSE "working"]
              /\ trouble' = trouble \cup (IF l = 0 THEN {} ELSE {"partial"})
              /\ UNCHANGED call
      BY <2>1
    <2>3. r \in Rungs /\ left[r] \in 0..N /\ l \in 0..N
      BY DEF Working
    <2> QED
      BY <2>2, <2>3 DEF call
  <1>2. CASE Dies
    BY <1>2 DEF Dies, Working, call
  <1>3. CASE Begins
    BY <1>3 DEF Begins, Goto, End, exchange
  <1>4. CASE PlaceAccepted
    BY <1>4 DEF PlaceAccepted, Taken, Goto
  <1>5. CASE PlaceRejected
    BY <1>5 DEF PlaceRejected, End, exchange
  <1>6. CASE PlaceAnswerLost
    BY <1>6 DEF PlaceAnswerLost, Taken, End
  <1>7. CASE AwaitSeesFill
    BY <1>7 DEF AwaitSeesFill, End, exchange
  <1>8. CASE AwaitTimesOut
    BY <1>8 DEF AwaitTimesOut, Goto, exchange
  <1>9. CASE CancelSucceeds
    BY <1>9, NextRungEnds DEF CancelSucceeds
  <1>10. CASE CancelRaises
    BY <1>10 DEF CancelRaises, Goto
  <1>11. CASE Resolve
    <2>1. CASE NextRung
      BY <1>11, <2>1, NextRungEnds DEF Resolve, exchange, NextRung, End
    <2>2. CASE End("fill") \/ End("none")
      BY <1>11, <2>2 DEF Resolve, exchange, End, NextRung
    <2> QED
      BY <1>11, <2>1, <2>2 DEF Resolve
  <1>12. CASE UNCHANGED ladderVars
    BY <1>12 DEF ladderVars, call, exchange
  <1> QED
    BY <1>1, <1>2, <1>3, <1>4, <1>5, <1>6, <1>7, <1>8, <1>9, <1>10, <1>11, <1>12
       DEF LadderNext, Exchange, Ladder

\* Every state is well typed: a call never goes past its last rung, and no order
\* trades more than it asked for (executor.py, LiveV2Broker._ladder).
THEOREM V2LadderTypeCorrect == LadderSpec => []LadderTypeOK
  BY LadderTypeInit, LadderTypeStep, PTL DEF LadderSpec

-----------------------------------------------------------------------------
(* One rung, and a true answer.                                             *)

LEMMA LadderInvInit == LadderInit => LadderInv
  BY LadderTypeInit DEF LadderInit, LadderInv, RungsInv, AnswerInv, Rungs

LEMMA LadderInvStep == LadderInv /\ [LadderNext]_ladderVars => LadderInv'
  <1> SUFFICES ASSUME LadderInv, [LadderNext]_ladderVars
               PROVE  RungsInv' /\ AnswerInv'
    BY LadderTypeStep DEF LadderInv
  <1>0. LadderTypeOK /\ RungsInv /\ AnswerInv /\ LadderTypeOK'
    BY LadderTypeStep DEF LadderInv
  <1> USE DEF LadderTypeOK, Orderly
  <1>1. CASE Trades
    <2>1. PICK r \in Working : \E l \in 0..left[r] - 1 :
              /\ left' = [left EXCEPT ![r] = l]
              /\ ord' = [ord EXCEPT ![r] = IF l = 0 THEN "filled" ELSE "working"]
              /\ trouble' = trouble \cup (IF l = 0 THEN {} ELSE {"partial"})
              /\ UNCHANGED call
      BY <1>1 DEF Trades
    <2>2. PICK l \in 0..left[r] - 1 :
              /\ left' = [left EXCEPT ![r] = l]
              /\ ord' = [ord EXCEPT ![r] = IF l = 0 THEN "filled" ELSE "working"]
              /\ trouble' = trouble \cup (IF l = 0 THEN {} ELSE {"partial"})
              /\ UNCHANGED call
      BY <2>1
    <2>3. CASE l = 0
      <3>1. /\ left' = [left EXCEPT ![r] = 0] /\ ord' = [ord EXCEPT ![r] = "filled"]
            /\ trouble' = trouble /\ pc' = pc /\ step' = step /\ answer' = answer
            /\ r \in Rungs /\ ord[r] = "working"
        BY <2>2, <2>3 DEF call, Working
      <3>2. RungsInv'
        BY <1>0, <3>1 DEF RungsInv, Rungs
      <3>3. AnswerInv'
        BY <1>0, <3>1 DEF AnswerInv, Rungs
      <3> QED
        BY <3>2, <3>3
    <2>4. CASE l # 0
      <3>1. "partial" \in trouble'
        BY <2>2, <2>4
      <3> QED
        BY <3>1 DEF RungsInv, AnswerInv
    <2> QED
      BY <2>3, <2>4
  <1>2. CASE Dies
    <2>1. PICK r \in Working :
              /\ ord' = [ord EXCEPT ![r] = "dead"] /\ trouble' = trouble \cup {"died"}
              /\ UNCHANGED <<call, left>>
      BY <1>2 DEF Dies
    <2>2. RungsInv'
      BY <1>0, <2>1 DEF RungsInv, call, Working, Rungs
    <2>3. AnswerInv'
      BY <2>1 DEF AnswerInv
    <2> QED
      BY <2>2, <2>3
  <1>3. CASE Begins
    BY <1>0, <1>3 DEF Begins, Goto, End, exchange, RungsInv, AnswerInv
  <1>4. CASE PlaceAccepted
    BY <1>0, <1>4 DEF PlaceAccepted, Taken, Goto, RungsInv, AnswerInv, Rungs
  <1>5. CASE PlaceRejected
    BY <1>0, <1>5 DEF PlaceRejected, End, exchange, RungsInv, AnswerInv
  <1>6. CASE PlaceAnswerLost
    BY <1>0, <1>6 DEF PlaceAnswerLost, Taken, End, RungsInv, AnswerInv, Rungs
  <1>7. CASE AwaitSeesFill
    BY <1>0, <1>7 DEF AwaitSeesFill, MayBeUnlisted, End, exchange, RungsInv, AnswerInv
  <1>8. CASE AwaitTimesOut
    BY <1>0, <1>8 DEF AwaitTimesOut, Goto, exchange, RungsInv, AnswerInv
  <1>9. CASE CancelSucceeds
    <2>1. /\ ord[step] = "working" /\ ord' = [ord EXCEPT ![step] = "dead"]
          /\ left' = left /\ trouble' = trouble
          /\ \/ step' = step + 1 /\ pc' = "place"
             \/ step' = step /\ pc' = "ended" /\ answer' = "none"
      BY <1>0, <1>9, NextRungEnds DEF CancelSucceeds
    <2>2. RungsInv'
      BY <1>0, <2>1 DEF RungsInv, Rungs
    <2>3. AnswerInv'
      BY <1>0, <2>1 DEF AnswerInv
    <2> QED
      BY <2>2, <2>3
  <1>10. CASE CancelRaises
    <2>1. RungsInv'
      BY <1>0, <1>10 DEF CancelRaises, Goto, RungsInv, Rungs
    <2>2. AnswerInv'
      BY <1>0, <1>10 DEF CancelRaises, Goto, AnswerInv
    <2> QED
      BY <2>1, <2>2
  <1>11. CASE Resolve
    <2>1. CASE MayBeUnlisted /\ End("fill") /\ UNCHANGED trouble
      BY <1>0, <1>11, <2>1 DEF Resolve, MayBeUnlisted, End, exchange, RungsInv, AnswerInv
    <2>2. CASE trouble' = trouble \cup {"listed_on"}
      BY <2>2 DEF RungsInv, AnswerInv
    <2>3. CASE End("none") /\ trouble' = trouble \cup {"unreadable"}
      BY <1>0, <1>11, <2>3 DEF Resolve, End, exchange, RungsInv, AnswerInv
    <2> QED
      BY <1>11, <2>1, <2>2, <2>3 DEF Resolve
  <1>12. CASE UNCHANGED ladderVars
    BY <1>0, <1>12 DEF ladderVars, call, exchange, RungsInv, AnswerInv
  <1> QED
    BY <1>1, <1>2, <1>3, <1>4, <1>5, <1>6, <1>7, <1>8, <1>9, <1>10, <1>11, <1>12
       DEF LadderNext, Exchange, Ladder

\* Only the present rung is touched.
LEMMA OnlyPresentRung ==
    ASSUME LadderInv, Orderly
    PROVE  Touched \subseteq {step} /\ (step \in Touched <=> ord[step] = "filled")
  BY DEF LadderInv, LadderTypeOK, RungsInv, Orderly, Touched, Rungs

\* A call that neither went on past a listed order nor was filled in part trades on
\* one rung at most (executor.py:164-173).
THEOREM TradesOnceTheorem == LadderSpec => []TradesOnce
  <1>1. LadderInv => TradesOnce
    <2> SUFFICES ASSUME LadderInv, Orderly
                 PROVE  Cardinality(Touched) <= 1
      BY DEF TradesOnce, Orderly
    <2>1. Touched = {} \/ Touched = {step}
      BY OnlyPresentRung
    <2>2. Cardinality({}) = 0 /\ Cardinality({step}) = 1
      BY FS_EmptySet, FS_Singleton
    <2> QED
      BY <2>1, <2>2
  <1> QED
    BY LadderInvInit, LadderInvStep, <1>1, PTL DEF LadderSpec

\* The answer of a call in which nothing went wrong is what the exchange did, and
\* it leaves no order working (executor.py:117-174).
THEOREM AnswerTheorem == LadderSpec => []AnswerIsTrue
  <1>1. LadderInv => AnswerIsTrue
    <2> SUFFICES ASSUME LadderInv, pc = "ended", trouble = {}
                 PROVE  /\ Working = {}
                        /\ answer = "fill" => \E r \in Rungs : Touched = {r} /\ left[r] = 0
                        /\ answer # "fill" => Touched = {}
      BY DEF AnswerIsTrue
    <2>1. Orderly /\ LadderTypeOK /\ RungsInv /\ AnswerInv
      BY DEF LadderInv, Orderly
    <2>2. Working = {}
      BY <2>1 DEF Working, LadderTypeOK, RungsInv, AnswerInv, Rungs
    <2>3. ASSUME answer = "fill"
          PROVE  \E r \in Rungs : Touched = {r} /\ left[r] = 0
      <3>1. step \in Rungs /\ left[step] = 0 /\ ord[step] = "filled"
        BY <2>1, <2>3 DEF LadderTypeOK, RungsInv, AnswerInv
      <3>2. Touched = {step}
        BY <2>1, <3>1, OnlyPresentRung
      <3> QED
        BY <3>1, <3>2
    <2>4. ASSUME answer # "fill"
          PROVE  Touched = {}
      BY <2>1, <2>4, OnlyPresentRung DEF AnswerInv
    <2> QED
      BY <2>2, <2>3, <2>4
  <1> QED
    BY LadderInvInit, LadderInvStep, <1>1, PTL DEF LadderSpec

=============================================================================
