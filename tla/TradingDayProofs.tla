-------------------------- MODULE TradingDayProofs --------------------------
(***************************************************************************)
(* Proofs, for all bars, marks, filters and bounds, that the day is well     *)
(* typed, keeps the one-shot rule, enters on real breakouts only, and takes   *)
(* the hard stop on a confirmed mark.  The range is a fold of the bars; the   *)
(* facts needed of it are proved here by induction on their number.           *)
(***************************************************************************)
EXTENDS TradingDay, FiniteSetTheorems, SequenceTheorems, WellFoundedInduction, TLAPS

-----------------------------------------------------------------------------
(* Induction.                                                               *)

\* A nonempty set of numbers has a least one.
LEMMA SmallestOf ==
    ASSUME NEW T, T \subseteq Nat, T # {}
    PROVE  \E m \in T : \A k \in T : m <= k
  <1>1. PICK x \in T : \A y \in T : ~(<<y, x>> \in OpToRel(<, Nat))
    BY NatLessThanWellFounded, WFMin, Zenon
  <1>2. \A y \in T : ~(y < x)
    BY <1>1 DEF OpToRel
  <1>3. \A k \in T : x <= k
    <2> TAKE k \in T
    <2>1. x \in Nat /\ k \in Nat
      OBVIOUS
    <2> QED
      BY <2>1, <1>2
  <1> QED
    BY <1>3

\* Induction over the numbers, with a set in the place of a predicate.
LEMMA SetInduction ==
    ASSUME NEW G, 0 \in G, \A n \in Nat : n \in G => n + 1 \in G
    PROVE  Nat \subseteq G
  <1> SUFFICES ASSUME Nat \ G # {}
               PROVE  FALSE
    OBVIOUS
  <1>1. PICK m \in Nat \ G : \A k \in Nat \ G : m <= k
    BY SmallestOf
  <1>2. m # 0 /\ m - 1 \in Nat /\ ~(m <= m - 1)
    BY <1>1
  <1>3. m - 1 \in G
    BY <1>1, <1>2
  <1> QED
    BY <1>2, <1>3

\* Induction over the parts of a finite set, with a set in the place of a predicate.
LEMMA FiniteInduction ==
    ASSUME NEW S, IsFiniteSet(S), NEW G,
           \A s \in SUBSET S : (\A x \in s : s \ {x} \in G) => s \in G
    PROVE  S \in G
  <1> DEFINE H == {n \in Nat : \A s \in SUBSET S : Cardinality(s) <= n => s \in G}
  <1>1. ASSUME NEW s \in SUBSET S, NEW x \in s
        PROVE  /\ s \ {x} \in SUBSET S /\ Cardinality(s) \in Nat /\ Cardinality(s) > 0
               /\ Cardinality(s \ {x}) = Cardinality(s) - 1
    <2>1. IsFiniteSet(s)
      BY FS_Subset
    <2>2. Cardinality(s) \in Nat /\ Cardinality(s) # 0
      BY <2>1, FS_CardinalityType, FS_EmptySet
    <2>3. Cardinality(s \ {x}) = Cardinality(s) - 1
      BY <2>1, FS_RemoveElement
    <2> QED
      BY <2>2, <2>3
  <1>2. 0 \in H
    <2>1. ASSUME NEW s \in SUBSET S, Cardinality(s) <= 0
          PROVE  s \in G
      <3>1. ASSUME NEW x \in s
            PROVE  FALSE
        <4>1. Cardinality(s) \in Nat /\ Cardinality(s) > 0
          BY <1>1
        <4> QED
          BY <2>1, <4>1
      <3> QED
        BY <3>1
    <2> QED
      BY <2>1
  <1>3. ASSUME NEW n \in Nat, n \in H
        PROVE  n + 1 \in H
    <2>1. ASSUME NEW s \in SUBSET S, Cardinality(s) <= n + 1
          PROVE  s \in G
      <3>1. ASSUME NEW x \in s
            PROVE  s \ {x} \in G
        <4>1. /\ s \ {x} \in SUBSET S /\ Cardinality(s) \in Nat
              /\ Cardinality(s \ {x}) = Cardinality(s) - 1
          BY <1>1
        <4>2. Cardinality(s \ {x}) <= n
          BY <2>1, <4>1
        <4> QED
          BY <1>3, <4>1, <4>2
      <3> QED
        BY <3>1
    <2> QED
      BY <2>1
  <1>4. Cardinality(S) \in H /\ Cardinality(S) \in Nat
    <2> HIDE DEF H
    <2> QED
      BY <1>2, <1>3, SetInduction, FS_CardinalityType
  <1> QED
    BY <1>4

-----------------------------------------------------------------------------
(* The range of a sequence of bars, which is a fold.                        *)

\* The range r, after the bars of s.
Ranged(r, s) == FoldLeft(LAMBDA x, bar : AddBar(bar, x), r, s)

\* f holds the range of every part of s, as the fold computes it.
Ranges(f, r, s) ==
    f = [d \in SUBSET DOMAIN s |->
            IF d = {} THEN r ELSE AddBar(s[Max(d)], f[d \ {Max(d)}])]

\* A nonempty set of numbers up to n has a greatest one.
LEMMA Greatest ==
    ASSUME NEW n \in Nat, NEW d \in SUBSET (1..n), d # {}
    PROVE  Max(d) \in d /\ \A k \in d : k <= Max(d)
  <1> DEFINE T == {n - k : k \in d}
  <1>1. PICK m \in T : \A k \in T : m <= k
    <2>1. \A k \in d : n - k \in Nat
      <3> TAKE k \in d
      <3>1. k \in 1..n
        OBVIOUS
      <3> QED
        BY <3>1
    <2>2. T \subseteq Nat /\ T # {}
      BY <2>1, Zenon
    <2> HIDE DEF T
    <2> QED
      BY <2>2, SmallestOf
  <1>2. PICK x \in d : m = n - x
    BY <1>1
  <1>3. \A k \in d : x >= k
    <2> TAKE k \in d
    <2>1. n - x <= n - k
      BY <1>1, <1>2
    <2>2. x \in Int /\ k \in Int
      OBVIOUS
    <2> QED
      BY <2>1, <2>2
  <1>4. \E y \in d : \A k \in d : y >= k
    BY <1>3
  <1>5. Max(d) \in d /\ \A k \in d : Max(d) >= k
    BY <1>4 DEF Max
  <1>6. \A k \in d : k \in Int
    OBVIOUS
  <1> QED
    BY <1>5, <1>6

\* What is left of a part without it is smaller.
LEMMA Taken ==
    ASSUME NEW n \in Nat, NEW d \in SUBSET (1..n), d # {}
    PROVE  /\ Max(d) \in d /\ d \ {Max(d)} \in SUBSET (1..n)
           /\ Cardinality(d) \in Nat /\ Cardinality(d) > 0
           /\ Cardinality(d \ {Max(d)}) = Cardinality(d) - 1
  <1>1. Max(d) \in d
    BY Greatest
  <1>2. IsFiniteSet(d)
    <2>1. 1 \in Int /\ n \in Int
      OBVIOUS
    <2>2. IsFiniteSet(1..n)
      BY <2>1, FS_Interval
    <2> QED
      BY <2>2, FS_Subset
  <1>3. Cardinality(d) \in Nat /\ Cardinality(d) # 0
    BY <1>2, FS_CardinalityType, FS_EmptySet
  <1>4. Cardinality(d \ {Max(d)}) = Cardinality(d) - 1
    BY <1>1, <1>2, FS_RemoveElement
  <1>5. Cardinality(d) > 0
    BY <1>3
  <1>6. d \ {Max(d)} \in SUBSET (1..n)
    OBVIOUS
  <1> HIDE DEF Max
  <1> QED
    BY <1>1, <1>3, <1>4, <1>5, <1>6

\* There is such a function, for every sequence.
LEMMA RangesExist ==
    ASSUME NEW S, NEW s \in Seq(S), NEW r
    PROVE  \E f : Ranges(f, r, s)
  <1> DEFINE Step(f, d) == IF d = {} THEN r ELSE AddBar(s[Max(d)], f[d \ {Max(d)}])
             D == DOMAIN s
             UpTo(n) == {d \in SUBSET D : Cardinality(d) <= n}
             G == {n \in Nat : \E f : \A d \in UpTo(n) : f[d] = Step(f, d)}
  <1>d. D = 1..Len(s) /\ Len(s) \in Nat /\ IsFiniteSet(D)
    BY LenProperties, FS_Interval
  <1>t. ASSUME NEW d \in SUBSET D, d # {}
        PROVE  /\ Max(d) \in d /\ d \ {Max(d)} \in SUBSET D
               /\ Cardinality(d) \in Nat /\ Cardinality(d) > 0
               /\ Cardinality(d \ {Max(d)}) = Cardinality(d) - 1
    BY <1>d, <1>t, Taken
  <1>c. \A d \in SUBSET D : Cardinality(d) \in Nat /\ Cardinality(d) <= Cardinality(D)
    BY <1>d, FS_Subset, FS_CardinalityType
  <1> HIDE DEF D
  <1>1. 0 \in G
    <2> DEFINE f == [d \in SUBSET D |-> r]
    <2>1. ASSUME NEW d \in UpTo(0)
          PROVE  f[d] = Step(f, d)
      <3>1. d \in SUBSET D /\ Cardinality(d) <= 0
        BY <2>1
      <3>2. d = {}
        <4>1. ASSUME d # {}
              PROVE  FALSE
          <5>1. Cardinality(d) \in Nat /\ Cardinality(d) > 0
            BY <1>t, <3>1, <4>1
          <5> QED
            BY <3>1, <5>1
        <4> QED
          BY <4>1
      <3> QED
        BY <3>2
    <2> QED
      BY <2>1
  <1>2. ASSUME NEW n \in Nat, n \in G
        PROVE  n + 1 \in G
    <2>1. PICK f : \A d \in UpTo(n) : f[d] = Step(f, d)
      BY <1>2
    <2> DEFINE g == [d \in SUBSET D |-> IF d \in UpTo(n) THEN f[d] ELSE Step(f, d)]
    <2>2. \A d \in UpTo(n) : g[d] = f[d]
      OBVIOUS
    <2>3. ASSUME NEW d \in UpTo(n + 1)
          PROVE  g[d] = Step(g, d)
      <3>1. g[d] = Step(f, d)
        BY <2>1
      <3>2. CASE d = {}
        BY <3>1, <3>2
      <3>3. CASE d # {}
        <4>1. d \ {Max(d)} \in UpTo(n)
          BY <1>c, <1>t, <3>3
        <4>2. g[d \ {Max(d)}] = f[d \ {Max(d)}]
          BY <2>2, <4>1
        <4> HIDE DEF g, UpTo
        <4> QED
          BY <3>1, <3>3, <4>2
      <3> QED
        BY <3>2, <3>3
    <2>4. \E e : \A d \in UpTo(n + 1) : e[d] = Step(e, d)
      BY <2>3
    <2> HIDE DEF g, UpTo, Step
    <2> QED
      BY <2>4
  <1>3. Cardinality(D) \in G
    <2> HIDE DEF G
    <2> QED
      BY <1>1, <1>2, <1>d, SetInduction, FS_CardinalityType
  <1>4. PICK f : \A d \in UpTo(Cardinality(D)) : f[d] = Step(f, d)
    BY <1>3
  <1> DEFINE g == [d \in SUBSET D |-> f[d]]
  <1>5. \A d \in SUBSET D : d \in UpTo(Cardinality(D))
    BY <1>c
  <1>6. ASSUME NEW d \in SUBSET D
        PROVE  f[d] = Step(g, d)
    <2>1. f[d] = Step(f, d)
      BY <1>4, <1>5
    <2>2. CASE d = {}
      BY <2>1, <2>2
    <2>3. CASE d # {}
      <3>1. d \ {Max(d)} \in SUBSET D
        BY <1>t, <2>3
      <3>2. g[d \ {Max(d)}] = f[d \ {Max(d)}]
        BY <3>1
      <3> HIDE DEF g
      <3> QED
        BY <2>1, <2>3, <3>2
    <2> QED
      BY <2>2, <2>3
  <1>7. Ranges(g, r, s)
    BY <1>6 DEF Ranges, D
  <1> QED
    BY <1>7

\* So the range is one of its values.
LEMMA RangedIs ==
    ASSUME NEW S, NEW s \in Seq(S), NEW r
    PROVE  \E f : Ranges(f, r, s) /\ Ranged(r, s) = f[DOMAIN s]
  <1> DEFINE it == CHOOSE f : Ranges(f, r, s)
  <1>1. Ranges(it, r, s)
    BY RangesExist
  <1>2. Ranged(r, s) = it[DOMAIN s]
    BY DEF Ranged, FoldLeft, MapThenFoldSet, Ranges
  <1> QED
    BY <1>1, <1>2

LEMMA RangedEmpty ==
    ASSUME NEW r
    PROVE  Ranged(r, <<>>) = r
  <1>1. <<>> \in Seq({}) /\ DOMAIN <<>> = {}
    OBVIOUS
  <1>2. PICK f : Ranges(f, r, <<>>) /\ Ranged(r, <<>>) = f[{}]
    BY <1>1, RangedIs
  <1>3. f[{}] = r
    BY <1>1, <1>2 DEF Ranges
  <1> QED
    BY <1>2, <1>3

\* The last bar is added last.
LEMMA RangedAppend ==
    ASSUME NEW S, NEW s \in Seq(S), NEW b \in S, NEW r
    PROVE  Ranged(r, Append(s, b)) = AddBar(b, Ranged(r, s))
  <1> DEFINE a == Append(s, b)
             n == Len(s)
  <1>1. /\ a \in Seq(S) /\ n \in Nat /\ DOMAIN s = 1..n /\ DOMAIN a = 1..(n + 1)
        /\ a[n + 1] = b /\ \A i \in 1..n : a[i] = s[i]
    BY AppendProperties, LenProperties
  <1> HIDE DEF a, n
  <1>2. PICK f : Ranges(f, r, a) /\ Ranged(r, a) = f[1..(n + 1)]
    BY <1>1, RangedIs
  <1>3. PICK g : Ranges(g, r, s) /\ Ranged(r, s) = g[1..n]
    BY <1>1, RangedIs
  <1>f. \A d \in SUBSET (1..(n + 1)) : f[d] = IF d = {} THEN r ELSE AddBar(a[Max(d)], f[d \ {Max(d)}])
    BY <1>1, <1>2 DEF Ranges
  <1>g. \A d \in SUBSET (1..n) : g[d] = IF d = {} THEN r ELSE AddBar(s[Max(d)], g[d \ {Max(d)}])
    BY <1>1, <1>3 DEF Ranges
  <1>4. f[1..n] = g[1..n]
    <2> DEFINE G == {d \in SUBSET (1..n) : f[d] = g[d]}
    <2>1. ASSUME NEW d \in SUBSET (1..n), \A x \in d : d \ {x} \in G
          PROVE  d \in G
      <3>0. d \in SUBSET (1..(n + 1))
        BY <1>1
      <3>1. CASE d = {}
        BY <1>f, <1>g, <3>0, <3>1
      <3>2. CASE d # {}
        <4>1. Max(d) \in d /\ Max(d) \in 1..n
          BY <1>1, <3>2, Greatest
        <4>2. f[d \ {Max(d)}] = g[d \ {Max(d)}]
          BY <2>1, <4>1
        <4>3. a[Max(d)] = s[Max(d)]
          BY <1>1, <4>1
        <4>4. f[d] = AddBar(a[Max(d)], f[d \ {Max(d)}])
          BY <1>f, <3>0, <3>2
        <4>5. g[d] = AddBar(s[Max(d)], g[d \ {Max(d)}])
          BY <1>g, <3>2
        <4> QED
          BY <4>2, <4>3, <4>4, <4>5
      <3> QED
        BY <3>1, <3>2
    <2>2. 1..n \in G
      <3> HIDE DEF G
      <3>1. 1 \in Int /\ n \in Int
        BY <1>1
      <3>2. IsFiniteSet(1..n)
        BY <3>1, FS_Interval
      <3> QED
        BY <2>1, <3>2, FiniteInduction
    <2> QED
      BY <2>2
  <1>m. n \in Nat
    BY <1>1
  <1>5. Max(1..(n + 1)) = n + 1
    <2>1. n + 1 \in Nat /\ n + 1 \in 1..(n + 1)
      BY <1>m
    <2>2. 1..(n + 1) \in SUBSET (1..(n + 1)) /\ 1..(n + 1) # {}
      BY <2>1
    <2>3. /\ Max(1..(n + 1)) \in 1..(n + 1)
          /\ \A k \in 1..(n + 1) : k <= Max(1..(n + 1))
      BY <2>1, <2>2, Greatest
    <2>4. n + 1 <= Max(1..(n + 1)) /\ Max(1..(n + 1)) <= n + 1
      BY <2>1, <2>3
    <2> QED
      BY <1>m, <2>3, <2>4
  <1>6. (1..(n + 1)) \ {n + 1} = 1..n /\ 1..(n + 1) # {}
    BY <1>m
  <1>7. f[1..(n + 1)] = AddBar(b, f[1..n])
    BY <1>1, <1>f, <1>5, <1>6
  <1> QED
    BY <1>2, <1>3, <1>4, <1>7 DEF a

-----------------------------------------------------------------------------
(* The invariants.                                                          *)

Bar  == [t : Nat, hi : Int, lo : Int, close : Int, strong : BOOLEAN]
Span == [hi : Int, lo : Int, n : 0..ORBars, complete : BOOLEAN]
Late == {bar \in Bar : ~InWindow(bar)}

\* What the state of the machine says of the session: there is no trade before the
\* range could be whole, and a position is managed or about to be closed.
TasksInv ==
    /\ machine \in {"SCANNING", "ENTERING", "MANAGING"} => minute >= ORBars
    /\ entering # NoEntry => /\ minute >= ORBars /\ pos = NoPos
                             /\ machine \in {"ENTERING", "CLOSING"}
    /\ pos # NoPos => machine \in {"MANAGING", "CLOSING"}

BarTypes ==
    /\ pending \in Seq(Bar) /\ (last = NoBar \/ last \in Bar)
    /\ range \in Span /\ window \in Span /\ window.n <= minute

\* The bars the signal task has not seen are what its range lacks; a bar that it
\* will not feed belongs to no range.
BarsInv ==
    /\ BarTypes
    /\ window.complete => window.n > 0
    /\ range.complete => range.n > 0
    /\ window = Ranged(range, pending)
    /\ entering # NoEntry \/ Len(pending) > 3 => pending \in Seq(Late)

\* An entry or a position of a side that has lost does not exist, and the account
\* of lost sides is that of the day unless the process restarted.
TradesInv ==
    /\ entering.side \notin lost /\ pos.side \notin lost
    /\ restarts \in Nat /\ (restarts = 0 => gone \subseteq lost)

\* A counter above zero stands for a look that saw the stop.
HitInv == pos # NoPos /\ pos.hit => judged = "stop"

\* What TypeOK takes as known of the book and the entry.
Entries   == [side : Sides, close : Int]
Positions == [side : Sides, mark : Marks, stamped : BOOLEAN, age : Current..Frozen,
              hit : BOOLEAN]
BookTypes ==
    /\ minute \in 0..MaxMinutes /\ clock \in {"day", "flush", "late"}
    /\ machine \in {"OPENING_RANGE", "SCANNING", "ENTERING", "MANAGING", "CLOSING"}
    /\ tripped \in BOOLEAN /\ scored \in BOOLEAN
    /\ entering \in {NoEntry} \cup Entries /\ pos \in {NoPos} \cup Positions
    /\ closing = "none" \/ (closing \in Reasons /\ pos # NoPos)
    /\ lost \subseteq Sides /\ stuck \in BOOLEAN
ShadowTypes ==
    /\ sides \subseteq Sides /\ IsFiniteSet(shadows) /\ Cardinality(shadows) <= ShadowMax
    /\ \A s \in shadows : s \in [side : sides, mark : Marks, hit : BOOLEAN]

IInv == BookTypes /\ ShadowTypes /\ TasksInv /\ BarsInv /\ TradesInv /\ HitInv

-----------------------------------------------------------------------------
(* Facts about the operators of the model.                                  *)

USE RangeAssumption, ExitAssumption, DayAssumption

\* No side has the name of none, and no position or bar is the absent one.
LEMMA AbsentIsNone ==
    /\ "none" \notin Sides /\ NoEntry \notin Entries /\ NoPos \notin Positions
    /\ NoBar \notin Bar
  <1>1. "none" \notin Sides
    BY DEF Sides
  <1>2. NoEntry.side = "none" /\ NoPos.side = "none"
    BY DEF NoEntry, NoPos
  <1>3. DOMAIN NoBar # {"t", "hi", "lo", "close", "strong"}
    BY DEF NoBar
  <1>4. \A b \in Bar : DOMAIN b = {"t", "hi", "lo", "close", "strong"}
    BY DEF Bar
  <1> QED
    BY <1>1, <1>2, <1>3, <1>4 DEF Entries, Positions

\* The greatest and the least of two numbers.
LEMMA TwoExtremes ==
    ASSUME NEW a \in Int, NEW b \in Int
    PROVE  Max({a, b}) \in {a, b} /\ Min({a, b}) \in {a, b} /\ Max({a, b}) >= a /\ Max({a, b}) >= b
  <1>1. CASE a >= b
    <2>1. \E x \in {a, b} : \A y \in {a, b} : x >= y
      BY <1>1
    <2>2. \E x \in {a, b} : \A y \in {a, b} : x =< y
      BY <1>1
    <2> QED
      BY <2>1, <2>2 DEF Max, Min
  <1>2. CASE b >= a
    <2>1. \E x \in {a, b} : \A y \in {a, b} : x >= y
      BY <1>2
    <2>2. \E x \in {a, b} : \A y \in {a, b} : x =< y
      BY <1>2
    <2> QED
      BY <2>1, <2>2 DEF Max, Min
  <1> QED
    BY <1>1, <1>2

\* A later bar completes a range that is not empty and changes nothing else.
LEMMA LateBar ==
    ASSUME NEW r \in Span, NEW b \in Late
    PROVE  /\ AddBar(b, r) = [r EXCEPT !.complete = @ \/ r.n > 0]
           /\ AddBar(b, r) \in Span /\ AddBar(b, r).n = r.n
           /\ AddBar(b, r).hi = r.hi /\ AddBar(b, r).lo = r.lo
           /\ (r.complete => r.n > 0) => (AddBar(b, r).complete => r.n > 0)
  <1>1. AddBar(b, r) = [r EXCEPT !.complete = @ \/ r.n > 0]
    BY DEF AddBar, Late
  <1>2. (r.complete \/ r.n > 0) \in BOOLEAN
    BY DEF Span
  <1> QED
    BY <1>1, <1>2 DEF Span

\* A bar of the window is one more of it, and the range has room for it.
LEMMA WindowBar ==
    ASSUME NEW r \in Span, NEW b \in Bar, InWindow(b), r.n < b.t
    PROVE  /\ AddBar(b, r) \in Span /\ AddBar(b, r).n = r.n + 1
           /\ AddBar(b, r).complete = r.complete
  <1> DEFINE hi == IF r.n = 0 THEN b.hi ELSE Max({r.hi, b.hi})
             lo == IF r.n = 0 THEN b.lo ELSE Min({r.lo, b.lo})
  <1>1. r.hi \in Int /\ r.lo \in Int /\ b.hi \in Int /\ b.lo \in Int
    BY DEF Span, Bar
  <1>2. hi \in Int /\ lo \in Int
    <2>1. Max({r.hi, b.hi}) \in {r.hi, b.hi} /\ Min({r.lo, b.lo}) \in {r.lo, b.lo}
      BY <1>1, TwoExtremes
    <2> QED
      BY <1>1, <2>1
  <1>3. AddBar(b, r) = [r EXCEPT !.hi = hi, !.lo = lo, !.n = r.n + 1]
    BY DEF AddBar, Span
  <1> HIDE DEF hi, lo
  <1>4. r.n + 1 \in 0..ORBars
    BY DEF Span, Bar, InWindow
  <1> QED
    BY <1>2, <1>3, <1>4 DEF Span

\* After later bars, any number of them but none, the range is complete.
LEMMA RangedLate ==
    ASSUME NEW r \in Span, NEW s \in Seq(Late), s # <<>>
    PROVE  Ranged(r, s) = [r EXCEPT !.complete = @ \/ r.n > 0]
  <1> DEFINE whole == [r EXCEPT !.complete = @ \/ r.n > 0]
             G == {n \in Nat : \A q \in Seq(Late) : Len(q) = n + 1 => Ranged(r, q) = whole}
  <1>1. whole \in Span /\ [whole EXCEPT !.complete = @ \/ whole.n > 0] = whole
    BY DEF Span
  <1> HIDE DEF whole
  <1>2. ASSUME NEW q \in Seq(Late), q # <<>>
        PROVE  \E f \in Seq(Late), b \in Late : /\ q = Append(f, b) /\ Len(q) = Len(f) + 1
                                                /\ Ranged(r, q) = AddBar(b, Ranged(r, f))
    <2>1. PICK f \in Seq(Late), b \in Late : q = Append(f, b)
      BY <1>2, SequenceEmptyOrAppend
    <2> QED
      BY <2>1, AppendProperties, RangedAppend
  <1>3. 0 \in G
    <2>1. ASSUME NEW q \in Seq(Late), Len(q) = 0 + 1
          PROVE  Ranged(r, q) = whole
      <3>1. q # <<>>
        <4>1. Len(<<>>) = 0 /\ 0 + 1 # 0
          OBVIOUS
        <4> QED
          BY <2>1, <4>1, Zenon
      <3>2. PICK f \in Seq(Late), b \in Late : /\ Len(q) = Len(f) + 1
                                               /\ Ranged(r, q) = AddBar(b, Ranged(r, f))
        BY <1>2, <3>1
      <3>3. f = <<>>
        <4>1. Len(f) \in Nat /\ Len(f) + 1 = 0 + 1
          BY <2>1, <3>2, LenProperties
        <4>2. Len(f) = 0
          BY <4>1
        <4> QED
          BY <3>2, <4>2, EmptySeq, Zenon
      <3>4. Ranged(r, f) = r
        BY <3>3, RangedEmpty
      <3> QED
        BY <3>2, <3>4, LateBar DEF whole
    <2> QED
      BY <2>1
  <1>4. ASSUME NEW n \in Nat, n \in G
        PROVE  n + 1 \in G
    <2>1. ASSUME NEW q \in Seq(Late), Len(q) = (n + 1) + 1
          PROVE  Ranged(r, q) = whole
      <3>1. q # <<>>
        <4>1. Len(<<>>) = 0 /\ (n + 1) + 1 # 0
          OBVIOUS
        <4> QED
          BY <2>1, <4>1, Zenon
      <3>2. PICK f \in Seq(Late), b \in Late : /\ Len(q) = Len(f) + 1
                                               /\ Ranged(r, q) = AddBar(b, Ranged(r, f))
        BY <1>2, <3>1
      <3>3. Len(f) = n + 1
        BY <2>1, <3>2, LenProperties
      <3>4. Ranged(r, f) = whole
        BY <1>4, <3>3
      <3> QED
        BY <1>1, <3>2, <3>4, LateBar
    <2> QED
      BY <2>1
  <1>5. Len(s) - 1 \in Nat /\ Len(s) = (Len(s) - 1) + 1
    BY LenProperties, EmptySeq
  <1>6. Len(s) - 1 \in G
    <2> HIDE DEF G
    <2> QED
      BY <1>3, <1>4, <1>5, SetInduction
  <1> QED
    BY <1>5, <1>6 DEF whole

\* What a breakout says of the range and the close.
LEMMA BreakoutSays ==
    ASSUME NEW r \in Span, NEW bar \in Bar
    PROVE  /\ Breakout(r, bar) \in Sides \cup {"none"}
           /\ Breakout(r, bar) # "none" => r.complete
           /\ Breakout(r, bar) = "LONG" => bar.close > r.hi
           /\ Breakout(r, bar) = "SHORT" => bar.close < r.lo
  <1>0. /\ r.hi \in Int /\ r.lo \in Int /\ bar.close \in Int /\ Buffer \in Nat
        /\ r.complete \in BOOLEAN
    BY DEF Span, Bar
  <1>1. CASE ~r.complete \/ r.hi <= r.lo
    <2>1. Breakout(r, bar) = "none"
      BY <1>0, <1>1 DEF Breakout
    <2> QED
      BY <2>1
  <1>2. CASE r.complete /\ r.hi > r.lo /\ bar.close > r.hi + Buffer
    <2>1. Breakout(r, bar) \in {"LONG", "none"}
      BY <1>0, <1>2 DEF Breakout
    <2>2. bar.close > r.hi /\ r.complete
      BY <1>0, <1>2
    <2> QED
      BY <2>1, <2>2 DEF Sides
  <1>3. CASE r.complete /\ r.hi > r.lo /\ bar.close < r.lo - Buffer
    <2>1. Breakout(r, bar) \in {"SHORT", "none"}
      BY <1>0, <1>3 DEF Breakout
    <2>2. bar.close < r.lo /\ r.complete
      BY <1>0, <1>3
    <2> QED
      BY <2>1, <2>2 DEF Sides
  <1>4. CASE /\ r.complete /\ r.hi > r.lo /\ ~(bar.close > r.hi + Buffer)
             /\ ~(bar.close < r.lo - Buffer)
    <2>1. Breakout(r, bar) = "none"
      BY <1>0, <1>4 DEF Breakout
    <2> QED
      BY <2>1
  <1> QED
    BY <1>0, <1>1, <1>2, <1>3, <1>4

\* Of no more than three bars all are fed, of more only later ones, if all are.
LEMMA FedBars ==
    ASSUME NEW s \in Seq(Bar), Len(s) > 3 => s \in Seq(Late)
    PROVE  \/ Fed(s) = s
           \/ s # <<>> /\ s \in Seq(Late) /\ Fed(s) # <<>> /\ Fed(s) \in Seq(Late)
  <1>0. Len(s) \in Nat
    BY LenProperties
  <1>1. CASE Len(s) <= 3
    <2>1. Max({1, Len(s) - 2}) = 1
      <3>1. 1 \in Int /\ Len(s) - 2 \in Int /\ Len(s) - 2 <= 1
        BY <1>0, <1>1
      <3>2. Max({1, Len(s) - 2}) \in {1, Len(s) - 2} /\ Max({1, Len(s) - 2}) >= 1
        BY <3>1, TwoExtremes
      <3> QED
        BY <3>1, <3>2
    <2> QED
      BY <2>1, SubSeqFull DEF Fed
  <1>2. CASE Len(s) > 3
    <2>1. s \in Seq(Late) /\ s # <<>>
      BY <1>2, EmptySeq
    <2> DEFINE m == Max({1, Len(s) - 2})
    <2>2. m \in 1..Len(s)
      <3>1. 1 \in Int /\ Len(s) - 2 \in Int
        BY <1>0
      <3>2. m \in {1, Len(s) - 2}
        BY <3>1, TwoExtremes
      <3> QED
        BY <1>0, <1>2, <3>2
    <2> HIDE DEF m
    <2>3. \A i \in m..Len(s) : s[i] \in Late
      <3> TAKE i \in m..Len(s)
      <3>1. i \in 1..Len(s)
        BY <1>0, <2>2
      <3>2. s \in [1..Len(s) -> Late]
        BY <2>1, LenProperties
      <3> QED
        BY <3>1, <3>2
    <2>4. m \in Int /\ Len(s) \in Int /\ m <= Len(s)
      BY <1>0, <2>2
    <2>5. SubSeq(s, m, Len(s)) \in Seq(Late) /\ Len(SubSeq(s, m, Len(s))) = Len(s) - m + 1
      BY <2>3, <2>4, SubSeqProperties
    <2>6. SubSeq(s, m, Len(s)) # <<>>
      <3>1. Len(<<>>) = 0 /\ Len(s) - m + 1 # 0
        BY <2>4
      <3> QED
        BY <2>5, <3>1
    <2> QED
      BY <2>1, <2>5, <2>6 DEF Fed, m
  <1> QED
    BY <1>0, <1>1, <1>2

\* So feeding them gives the range of all.
LEMMA FedRange ==
    ASSUME NEW r \in Span, NEW s \in Seq(Bar), Len(s) > 3 => s \in Seq(Late)
    PROVE  Ranged(r, Fed(s)) = Ranged(r, s)
  <1>1. CASE Fed(s) = s
    BY <1>1
  <1>2. CASE s # <<>> /\ s \in Seq(Late) /\ Fed(s) # <<>> /\ Fed(s) \in Seq(Late)
    BY <1>2, RangedLate
  <1> QED
    BY <1>1, <1>2, FedBars

\* What looking at some of the shadows leaves is no more than those, and of their kind.
LEMMA LookedTypes ==
    ASSUME ShadowTypes, NEW S \in SUBSET shadows, NEW value \in Values, NEW old
    PROVE  /\ IsFiniteSet(S) /\ IsFiniteSet(Looked(S, value, old))
           /\ Cardinality(Looked(S, value, old)) <= Cardinality(S)
           /\ \A s \in Looked(S, value, old) :
                  s \in [side : sides, mark : Marks, hit : BOOLEAN]
           /\ \A s \in S : Counted(Marked(s, value)) \in
                               [side : sides, mark : Marks, hit : BOOLEAN]
  <1> DEFINE T == [side : sides, mark : Marks, hit : BOOLEAN]
             marked == {Marked(s, value) : s \in S}
             kept == {n \in marked : ~Ends(n, old)}
             looked == {Counted(m) : m \in kept}
  <1>1. Looked(S, value, old) = looked
    BY DEF Looked
  <1>2. shadows \subseteq T /\ S \subseteq shadows /\ IsFiniteSet(S)
    BY FS_Subset DEF ShadowTypes
  <1>3. ASSUME NEW s \in S
        PROVE  Marked(s, value) \in T
    <2>1. s \in T /\ s.side \in {x.side : x \in shadows}
      BY <1>2
    <2>2. value[s.side] \in Marks
      BY <2>1 DEF Values
    <2> QED
      BY <2>1, <2>2 DEF Marked
  <1>4. ASSUME NEW s \in T
        PROVE  Counted(s) \in T
    <2>1. AtStop(s.mark) \in BOOLEAN
      BY DEF AtStop
    <2> QED
      BY <2>1 DEF Counted
  <1>5. marked \subseteq T /\ kept \subseteq T /\ looked \subseteq T
    BY <1>3, <1>4
  <1>6. IsFiniteSet(marked) /\ Cardinality(marked) <= Cardinality(S)
    <2> DEFINE f == [s \in S |-> Marked(s, value)]
    <2>1. f \in Surjection(S, marked)
      BY DEF Surjection
    <2> HIDE DEF f, marked
    <2> QED
      BY <1>2, <2>1, FS_Surjection
  <1>7. IsFiniteSet(kept) /\ Cardinality(kept) <= Cardinality(marked)
    <2>1. kept \in SUBSET marked
      OBVIOUS
    <2> HIDE DEF kept, marked
    <2> QED
      BY <1>6, <2>1, FS_Subset
  <1>8. IsFiniteSet(looked) /\ Cardinality(looked) <= Cardinality(kept)
    <2> DEFINE f == [s \in kept |-> Counted(s)]
    <2>1. f \in Surjection(kept, looked)
      BY DEF Surjection
    <2> HIDE DEF f, kept, looked
    <2> QED
      BY <1>7, <2>1, FS_Surjection
  <1>9. Cardinality(looked) <= Cardinality(S)
    <2> HIDE DEF looked, kept, marked
    <2>1. /\ Cardinality(looked) \in Nat /\ Cardinality(kept) \in Nat
          /\ Cardinality(marked) \in Nat /\ Cardinality(S) \in Nat
      BY <1>2, <1>6, <1>7, <1>8, FS_CardinalityType
    <2> QED
      BY <1>6, <1>7, <1>8, <2>1
  <1>10. \A s \in S : Counted(Marked(s, value)) \in T
    BY <1>3, <1>4
  <1> HIDE DEF looked, marked
  <1> QED
    BY <1>1, <1>2, <1>5, <1>8, <1>9, <1>10

\* All of them are looked at.
LEMMA ShadowsLook ==
    ASSUME ShadowTypes, ShadowsLooked, sides' = sides
    PROVE  ShadowTypes'
  <1>1. PICK value \in Values, old \in BOOLEAN : shadows' = Looked(shadows, value, old)
    BY DEF ShadowsLooked
  <1>2. /\ IsFiniteSet(shadows') /\ Cardinality(shadows') <= Cardinality(shadows)
        /\ \A s \in shadows' : s \in [side : sides, mark : Marks, hit : BOOLEAN]
    BY <1>1, LookedTypes
  <1>3. Cardinality(shadows') <= ShadowMax
    <2>1. Cardinality(shadows') \in Nat /\ Cardinality(shadows) \in Nat
      BY <1>2, FS_CardinalityType DEF ShadowTypes
    <2> QED
      BY <1>2, <2>1 DEF ShadowTypes
  <1> QED
    BY <1>2, <1>3 DEF ShadowTypes

\* One cannot be ended: those before it were looked at, those after it were not.
LEMMA ShadowsStick ==
    ASSUME ShadowTypes, ShadowsStuck, sides' = sides
    PROVE  ShadowTypes'
  <1> DEFINE T == [side : sides, mark : Marks, hit : BOOLEAN]
  <1>1. PICK value \in Values, old \in BOOLEAN, s \in shadows, before \in SUBSET shadows :
            /\ s \notin before
            /\ shadows' = Looked(before, value, old) \cup {Counted(Marked(s, value))}
                            \cup (shadows \ (before \cup {s}))
    BY DEF ShadowsStuck
  <1> DEFINE a == Looked(before, value, old)
             b == Counted(Marked(s, value))
             rest == shadows \ (before \cup {s})
             seen == before \cup {s}
  <1>2. /\ IsFiniteSet(before) /\ IsFiniteSet(a) /\ Cardinality(a) <= Cardinality(before)
        /\ \A x \in a : x \in T
    BY <1>1, LookedTypes
  <1>3. b \in T
    <2>1. shadows \in SUBSET shadows
      OBVIOUS
    <2> QED
      BY <1>1, <2>1, LookedTypes
  <1>4. /\ shadows' = (a \cup {b}) \cup rest /\ IsFiniteSet(shadows)
        /\ Cardinality(shadows) <= ShadowMax /\ \A x \in shadows : x \in T
    BY <1>1 DEF ShadowTypes
  <1> HIDE DEF a, b, T
  <1>5. /\ IsFiniteSet(a \cup {b}) /\ IsFiniteSet(seen) /\ IsFiniteSet(rest)
        /\ Cardinality(a \cup {b}) <= Cardinality(a) + 1
        /\ Cardinality(seen) = Cardinality(before) + 1
    <2>1. Cardinality(a) \in Nat
      BY <1>2, FS_CardinalityType
    <2>2. /\ IsFiniteSet(a \cup {b})
          /\ Cardinality(a \cup {b}) = IF b \in a THEN Cardinality(a) ELSE Cardinality(a) + 1
      BY <1>2, FS_AddElement, Zenon
    <2>3. IsFiniteSet(seen) /\ Cardinality(seen) = Cardinality(before) + 1
      BY <1>1, <1>2, FS_AddElement
    <2>4. IsFiniteSet(rest)
      BY <1>4, FS_Difference
    <2> QED
      BY <2>1, <2>2, <2>3, <2>4
  <1>6. Cardinality(shadows) = Cardinality(seen) + Cardinality(rest)
    <2>1. seen \cup rest = shadows /\ seen \cap rest = {}
      BY <1>1
    <2>4. IsFiniteSet(seen) /\ IsFiniteSet(rest)
      BY <1>5
    <2> HIDE DEF seen, rest
    <2>2. /\ Cardinality(seen) \in Nat /\ Cardinality(rest) \in Nat
          /\ Cardinality(seen \cup rest)
                = Cardinality(seen) + Cardinality(rest) - Cardinality(seen \cap rest)
      BY <2>4, FS_Union, FS_CardinalityType
    <2>3. Cardinality(seen \cap rest) = 0
      BY <2>1, FS_EmptySet, Zenon
    <2>5. Cardinality(seen \cup rest) = Cardinality(shadows)
      BY <2>1, Zenon
    <2> QED
      BY <2>2, <2>3, <2>5
  <1>7. /\ IsFiniteSet(shadows')
        /\ Cardinality(shadows') <= Cardinality(a \cup {b}) + Cardinality(rest)
    <2> HIDE DEF rest
    <2>1. /\ IsFiniteSet((a \cup {b}) \cup rest)
          /\ Cardinality((a \cup {b}) \cup rest) = Cardinality(a \cup {b}) + Cardinality(rest)
                                                    - Cardinality((a \cup {b}) \cap rest)
      BY <1>5, FS_Union
    <2>2. IsFiniteSet((a \cup {b}) \cap rest)
      BY <1>5, FS_Intersection
    <2>3. /\ Cardinality((a \cup {b}) \cap rest) \in Nat /\ Cardinality(a \cup {b}) \in Nat
          /\ Cardinality(rest) \in Nat
      BY <1>5, <2>2, FS_CardinalityType
    <2> QED
      BY <1>4, <2>1, <2>3
  <1>8. Cardinality(shadows') <= ShadowMax
    <2> HIDE DEF seen, rest
    <2>1. /\ Cardinality(a \cup {b}) \in Nat /\ Cardinality(rest) \in Nat
          /\ Cardinality(a) \in Nat /\ Cardinality(before) \in Nat
          /\ Cardinality(shadows) \in Nat /\ Cardinality(shadows') \in Nat
      BY <1>2, <1>4, <1>5, <1>7, FS_CardinalityType
    <2> QED
      BY <1>2, <1>4, <1>5, <1>6, <1>7, <2>1
  <1>9. \A x \in shadows' : x \in T
    BY <1>2, <1>3, <1>4
  <1> QED
    BY <1>7, <1>8, <1>9 DEF ShadowTypes, T

-----------------------------------------------------------------------------
(* The steps.                                                               *)

LEMMA InvInit == Init => IInv
  <1> SUFFICES ASSUME Init
               PROVE  IInv
    OBVIOUS
  <1> USE DEF Init
  <1>0. minute = 0 /\ 0 \in 0..MaxMinutes /\ NoRange \in Span /\ NoRange.n = 0
    BY DEF NoRange, Span
  <1>1. BookTypes
    BY <1>0 DEF BookTypes
  <1>2. ShadowTypes
    BY FS_EmptySet DEF ShadowTypes
  <1>3. TasksInv
    BY DEF TasksInv
  <1>4. BarsInv
    <2>1. <<>> \in Seq(Bar) /\ Len(<<>>) = 0
      OBVIOUS
    <2>2. window = Ranged(range, pending)
      BY RangedEmpty
    <2>3. range = NoRange /\ window = NoRange /\ NoRange.n = 0 /\ ~NoRange.complete
      BY DEF NoRange
    <2>4. BarTypes
      BY <1>0, <2>1, <2>3 DEF BarTypes
    <2> QED
      BY <1>0, <2>1, <2>2, <2>3, <2>4 DEF BarsInv
  <1>5. TradesInv /\ HitInv
    BY DEF TradesInv, HitInv
  <1> QED
    BY <1>1, <1>2, <1>3, <1>4, <1>5 DEF IInv

\* The bars are as they were, and no entry has begun.
LEMMA BarsKept ==
    ASSUME BarsInv, UNCHANGED <<pending, last, range, window, minute>>,
           entering' = entering \/ entering' = NoEntry
    PROVE  BarsInv'
  <1>1. /\ pending' = pending /\ last' = last /\ range' = range /\ window' = window
        /\ minute' = minute
    OBVIOUS
  <1>2. BarTypes'
    BY <1>1 DEF BarsInv, BarTypes
  <1>3. window' = Ranged(range', pending')
    BY <1>1 DEF BarsInv
  <1> QED
    BY <1>1, <1>2, <1>3 DEF BarsInv

LEMMA ShadowsKept ==
    ASSUME ShadowTypes, UNCHANGED shadow
    PROVE  ShadowTypes'
  <1>1. shadows' = shadows /\ sides' = sides
    BY DEF shadow
  <1> QED
    BY <1>1 DEF ShadowTypes

LEMMA RestartStep == IInv /\ Restart => IInv'
  <1> SUFFICES ASSUME IInv, Restart
               PROVE  IInv'
    OBVIOUS
  <1>0. /\ BookTypes /\ TasksInv /\ BarsInv /\ TradesInv
        /\ pos = NoPos /\ entering = NoEntry /\ pos' = pos /\ entering' = entering
        /\ restarts' = restarts + 1 /\ machine' = "OPENING_RANGE" /\ minute' = minute
        /\ pending' = <<>> /\ last' = NoBar /\ scored' = FALSE /\ range' = NoRange
        /\ window' = NoRange /\ lost' = {} /\ shadows' = {} /\ sides' = {}
        /\ clock' = clock /\ tripped' = tripped /\ closing' = closing /\ stuck' = FALSE
    BY DEF Restart, IInv
  <1>1. BookTypes'
    BY <1>0 DEF BookTypes
  <1>2. ShadowTypes'
    BY <1>0, FS_EmptySet DEF ShadowTypes
  <1>3. TasksInv' /\ HitInv'
    BY <1>0 DEF TasksInv, HitInv
  <1>4. BarsInv'
    <2>1. <<>> \in Seq(Bar) /\ Len(<<>>) = 0
      OBVIOUS
    <2>2. window' = Ranged(range', pending')
      BY <1>0, RangedEmpty
    <2>3. minute' \in Nat
      BY <1>0 DEF BookTypes
    <2>4. NoRange \in Span /\ NoRange.n = 0 /\ ~NoRange.complete
      BY DEF NoRange, Span
    <2> QED
      BY <1>0, <2>1, <2>2, <2>3, <2>4 DEF BarsInv, BarTypes
  <1>5. TradesInv'
    <2>1. restarts' \in Nat /\ restarts' # 0
      BY <1>0 DEF TradesInv
    <2> QED
      BY <1>0, <2>1 DEF TradesInv
  <1> QED
    BY <1>1, <1>2, <1>3, <1>4, <1>5 DEF IInv

\* A minute ends.
LEMMA NewBarStep == IInv /\ NewBar => IInv'
  <1> SUFFICES ASSUME IInv, NewBar
               PROVE  IInv'
    OBVIOUS
  <1>0. /\ BookTypes /\ ShadowTypes /\ TasksInv /\ BarsInv /\ BarTypes /\ TradesInv /\ HitInv
        /\ minute < MaxMinutes /\ minute' = minute + 1
        /\ Len(pending) < MaxLag \/ entering # NoEntry
        /\ UNCHANGED <<clock, machine, tripped, range, entering, shadow, restarts,
                       stuck>>
        /\ UNCHANGED <<pos, closing, lost, judged, gone>>
    BY DEF NewBar, book, life, IInv, BarsInv
  <1>m. minute \in Nat /\ minute' \in 0..MaxMinutes
    BY <1>0 DEF BookTypes
  <1>1. BookTypes'
    <2>1. scored' \in BOOLEAN
      BY <1>0 DEF NewBar, BookTypes
    <2> QED
      BY <1>0, <1>m, <2>1 DEF BookTypes
  <1>2. ShadowTypes'
    BY <1>0, ShadowsKept
  <1>3. TasksInv'
    BY <1>0, <1>m DEF TasksInv
  <1>4. TradesInv' /\ HitInv'
    BY <1>0 DEF TradesInv, HitInv
  <1>5. BarsInv'
    <2>1. CASE UNCHANGED <<pending, last, scored, window>>
      <3>1. BarTypes'
        BY <1>0, <1>m, <2>1 DEF BarTypes, Span
      <3>2. window' = Ranged(range', pending')
        BY <1>0, <2>1 DEF BarsInv
      <3> QED
        BY <1>0, <2>1, <3>1, <3>2 DEF BarsInv
    <2>2. ASSUME NEW b \in Bars,
                 pending' = Append(pending, [b EXCEPT !.t = minute']),
                 last' = [b EXCEPT !.t = minute'],
                 window' = AddBar([b EXCEPT !.t = minute'], window)
          PROVE  BarsInv'
      <3> DEFINE bar == [b EXCEPT !.t = minute']
      <3>1. bar \in Bar /\ bar.t = minute + 1
        <4>1. b \in Bar /\ minute' \in Nat
          BY <1>m DEF Bar
        <4> QED
          BY <1>0, <4>1 DEF Bar
      <3> HIDE DEF bar
      <3>2. pending' = Append(pending, bar) /\ last' = bar /\ window' = AddBar(bar, window)
        BY <2>2 DEF bar
      <3>3. window' \in Span /\ window'.n <= minute'
        <4>1. CASE InWindow(bar)
          <5>1. window.n < bar.t
            BY <1>0, <1>m, <3>1 DEF BarTypes, Span
          <5>2. AddBar(bar, window) \in Span /\ AddBar(bar, window).n = window.n + 1
            BY <1>0, <3>1, <4>1, <5>1, WindowBar DEF BarTypes
          <5> QED
            BY <1>0, <1>m, <3>2, <5>2 DEF BarTypes, Span
        <4>2. CASE ~InWindow(bar)
          <5>1. bar \in Late
            BY <3>1, <4>2 DEF Late
          <5>2. AddBar(bar, window) \in Span /\ AddBar(bar, window).n = window.n
            BY <1>0, <5>1, LateBar DEF BarTypes
          <5> QED
            BY <1>0, <1>m, <3>2, <5>2 DEF BarTypes, Span
        <4> QED
          BY <4>1, <4>2
      <3>4. window'.complete => window'.n > 0
        <4>1. CASE InWindow(bar)
          <5>1. window.n < bar.t /\ window.n \in Nat
            BY <1>0, <1>m, <3>1 DEF BarTypes, Span
          <5>2. AddBar(bar, window).n = window.n + 1
            BY <1>0, <3>1, <4>1, <5>1, WindowBar DEF BarTypes
          <5> QED
            BY <3>2, <5>1, <5>2
        <4>2. CASE ~InWindow(bar)
          <5>1. bar \in Late
            BY <3>1, <4>2 DEF Late
          <5> QED
            BY <1>0, <3>2, <5>1, LateBar DEF BarTypes, BarsInv
        <4> QED
          BY <4>1, <4>2
      <3>5. pending' \in Seq(Bar) /\ Len(pending') = Len(pending) + 1 /\ Len(pending) \in Nat
        BY <1>0, <3>1, <3>2, AppendProperties, LenProperties DEF BarTypes
      <3>6. window' = Ranged(range', pending')
        <4>1. Ranged(range, Append(pending, bar)) = AddBar(bar, Ranged(range, pending))
          BY <1>0, <3>1, RangedAppend DEF BarTypes
        <4> QED
          BY <1>0, <3>2, <4>1 DEF BarsInv
      <3>7. ASSUME entering' # NoEntry \/ Len(pending') > 3
            PROVE  pending' \in Seq(Late)
        <4>1. entering # NoEntry
          BY <1>0, <3>5, <3>7
        <4>2. pending \in Seq(Late)
          BY <1>0, <4>1 DEF BarsInv
        <4>3. bar \in Late
          BY <1>0, <1>m, <3>1, <4>1 DEF TasksInv, Late, InWindow
        <4> QED
          BY <3>2, <4>2, <4>3, AppendProperties
      <3>8. BarTypes'
        BY <1>0, <3>1, <3>2, <3>3, <3>5 DEF BarTypes
      <3> QED
        BY <1>0, <3>4, <3>6, <3>7, <3>8 DEF BarsInv
    <2>3. \/ UNCHANGED <<pending, last, scored, window>>
          \/ \E b \in Bars : /\ pending' = Append(pending, [b EXCEPT !.t = minute'])
                             /\ last' = [b EXCEPT !.t = minute']
                             /\ window' = AddBar([b EXCEPT !.t = minute'], window)
      BY DEF NewBar
    <2> QED
      BY <2>1, <2>2, <2>3
  <1> QED
    BY <1>1, <1>2, <1>3, <1>4, <1>5 DEF IInv

\* The breaker trips, the clock moves on, or the clock task moves the machine.
LEMMA ClockStep == IInv /\ (Trip \/ TimePasses \/ ClockTask) => IInv'
  <1> SUFFICES ASSUME IInv, Trip \/ TimePasses \/ ClockTask
               PROVE  IInv'
    OBVIOUS
  <1>0. /\ BookTypes /\ ShadowTypes /\ TasksInv /\ BarsInv /\ TradesInv /\ HitInv
        /\ UNCHANGED <<minute, pending, last, scored, range, entering, pos, closing, lost,
                       judged, gone, shadow, window, restarts, stuck>>
    BY DEF IInv, Trip, TimePasses, ClockTask, signal, book, life
  <1>1. /\ clock' \in {"day", "flush", "late"} /\ tripped' \in BOOLEAN
        /\ \/ machine' = machine
           \/ machine = "OPENING_RANGE" /\ minute >= ORBars /\ machine' = "SCANNING"
           \/ machine \in {"SCANNING", "ENTERING", "MANAGING"} /\ machine' = "CLOSING"
    BY <1>0 DEF Trip, TimePasses, ClockTask, BookTypes
  <1>2. BookTypes'
    BY <1>0, <1>1 DEF BookTypes
  <1>3. TasksInv'
    BY <1>0, <1>1 DEF TasksInv
  <1>4. ShadowTypes'
    BY <1>0, ShadowsKept
  <1>5. BarsInv'
    BY <1>0, BarsKept
  <1>6. TradesInv' /\ HitInv'
    BY <1>0 DEF TradesInv, HitInv
  <1> QED
    BY <1>2, <1>3, <1>4, <1>5, <1>6 DEF IInv

\* An element more.
LEMMA OneMore ==
    ASSUME NEW S, IsFiniteSet(S), NEW x
    PROVE  /\ IsFiniteSet(S \cup {x}) /\ Cardinality(S \cup {x}) \in Nat
           /\ Cardinality(S \cup {x}) <= Cardinality(S) + 1
  <1>1. /\ IsFiniteSet(S \cup {x}) /\ Cardinality(S) \in Nat
        /\ Cardinality(S \cup {x}) = IF x \in S THEN Cardinality(S) ELSE Cardinality(S) + 1
    BY FS_AddElement, FS_CardinalityType
  <1> QED
    BY <1>1, FS_CardinalityType

\* Opening a shadow keeps the book of shadows within its limit.
LEMMA OpenStep ==
    ASSUME ShadowTypes, NEW side \in Sides, MaybeOpen(side)
    PROVE  ShadowTypes'
  <1>1. CASE UNCHANGED shadow
    BY <1>1, ShadowsKept
  <1>2. CASE /\ ~(Cardinality(shadows) >= ShadowMax)
             /\ shadows' = shadows \cup {[side |-> side, mark |-> Debit, hit |-> FALSE]}
             /\ sides' = sides \cup {side}
    <2> DEFINE new == [side |-> side, mark |-> Debit, hit |-> FALSE]
    <2>1. IsFiniteSet(shadows) /\ Cardinality(shadows) \in Nat
      BY FS_CardinalityType DEF ShadowTypes
    <2>2. shadows' = shadows \cup {new}
      BY <1>2
    <2>3. /\ IsFiniteSet(shadows') /\ Cardinality(shadows') \in Nat
          /\ Cardinality(shadows') <= Cardinality(shadows) + 1
      <3> HIDE DEF new
      <3> QED
        BY <2>1, <2>2, OneMore
    <2>4. Cardinality(shadows') <= ShadowMax
      <3>1. Cardinality(shadows) < ShadowMax /\ ShadowMax \in Nat
        BY <1>2, <2>1
      <3> HIDE DEF new
      <3> QED
        BY <2>1, <2>3, <3>1
    <2>5. \A s \in shadows' : s \in [side : sides', mark : Marks, hit : BOOLEAN]
      <3>1. new \in [side : sides', mark : Marks, hit : BOOLEAN]
        BY <1>2
      <3>2. \A s \in shadows : s \in [side : sides', mark : Marks, hit : BOOLEAN]
        BY <1>2 DEF ShadowTypes
      <3> QED
        BY <1>2, <3>1, <3>2
    <2>6. sides' \subseteq Sides
      BY <1>2 DEF ShadowTypes
    <2> QED
      BY <2>3, <2>4, <2>5, <2>6 DEF ShadowTypes
  <1> QED
    BY <1>1, <1>2 DEF MaybeOpen

\* Scoring, of a range that is known: what it does to the entry, and why.
LEMMA ScoreStep ==
    ASSUME BookTypes, ShadowTypes, last \in Bar, range' \in Span, Score,
           entering = NoEntry
    PROVE  /\ ShadowTypes'
           /\ \/ entering' = entering /\ machine' = machine
              \/ /\ entering' \in Entries /\ machine' = "ENTERING" /\ ~tripped
                 /\ entering'.side \notin lost /\ range'.complete
                 /\ entering'.side = "LONG" => entering'.close > range'.hi
                 /\ entering'.side = "SHORT" => entering'.close < range'.lo
  <1> DEFINE side == Breakout(range', last)
  <1>1. /\ side \in Sides \cup {"none"} /\ (side # "none" => range'.complete)
        /\ side = "LONG" => last.close > range'.hi
        /\ side = "SHORT" => last.close < range'.lo
    BY BreakoutSays
  <1>2. \/ UNCHANGED <<entering, machine, shadow>>
        \/ /\ side # "none" /\ MaybeOpen(side) /\ UNCHANGED <<entering, machine>>
        \/ /\ side # "none" /\ side \notin lost /\ ~tripped
           /\ entering' = [side |-> side, close |-> last.close]
           /\ machine' = "ENTERING" /\ UNCHANGED shadow
    BY DEF Score, OneShotBlocks
  <1> HIDE DEF side
  <1>3. CASE UNCHANGED <<entering, machine, shadow>>
    BY <1>3, ShadowsKept
  <1>4. CASE side # "none" /\ MaybeOpen(side) /\ UNCHANGED <<entering, machine>>
    <2>1. side \in Sides
      BY <1>1, <1>4
    <2> QED
      BY <1>4, <2>1, OpenStep
  <1>5. CASE /\ side # "none" /\ side \notin lost /\ ~tripped
             /\ entering' = [side |-> side, close |-> last.close]
             /\ machine' = "ENTERING" /\ UNCHANGED shadow
    <2>1. side \in Sides /\ last.close \in Int /\ ShadowTypes'
      BY <1>1, <1>5, ShadowsKept DEF Bar
    <2>2. entering' \in Entries /\ entering'.side = side /\ entering'.close = last.close
      BY <1>5, <2>1 DEF Entries
    <2> QED
      BY <1>1, <1>5, <2>1, <2>2
  <1> QED
    BY <1>2, <1>3, <1>4, <1>5

\* What one turn of the signal task does, the entry and the shadows apart.
LEMMA SignalRange ==
    ASSUME IInv, SignalTask
    PROVE  /\ range' = window /\ window' = window /\ range' \in Span
           /\ BarTypes' /\ pending' = <<>> /\ last \in Bar /\ last' = last
           /\ minute' = minute /\ window' = Ranged(range', pending')
  <1>1. /\ BarsInv /\ BarTypes /\ BookTypes
        /\ last # NoBar /\ pending' = <<>> /\ range' = Ranged(range, Fed(pending))
        /\ minute' = minute /\ window' = window /\ last' = last
    BY DEF IInv, BarsInv, SignalTask, Ranged
  <1>2. /\ range \in Span /\ pending \in Seq(Bar) /\ last \in Bar
        /\ Len(pending) > 3 => pending \in Seq(Late)
    BY <1>1 DEF BarsInv, BarTypes
  <1>3. range' = window
    BY <1>1, <1>2, FedRange DEF BarsInv
  <1>4. BarTypes'
    <2>1. <<>> \in Seq(Bar)
      OBVIOUS
    <2> QED
      BY <1>1, <1>3, <2>1 DEF BarTypes
  <1>5. window' = Ranged(range', pending')
    BY <1>1, <1>3, RangedEmpty
  <1> QED
    BY <1>1, <1>2, <1>3, <1>4, <1>5 DEF BarTypes

LEMMA SignalStep == IInv /\ SignalTask => IInv'
  <1> SUFFICES ASSUME IInv, SignalTask
               PROVE  IInv'
    OBVIOUS
  <1>0. /\ BookTypes /\ ShadowTypes /\ TasksInv /\ BarsInv /\ BarTypes /\ TradesInv /\ HitInv
        /\ entering = NoEntry
        /\ UNCHANGED <<minute, clock, tripped, last, window, restarts, stuck>>
        /\ UNCHANGED <<pos, closing, lost, judged, gone>>
    BY DEF SignalTask, book, life, IInv, BarsInv
  <1>1. /\ range' \in Span /\ last \in Bar /\ BarTypes' /\ range' = window /\ window' = window
        /\ pending' = <<>> /\ window' = Ranged(range', pending')
    BY SignalRange
  <1>2. /\ ShadowTypes' /\ scored' \in BOOLEAN
        /\ \/ entering' = entering /\ machine' = machine
           \/ /\ entering' \in Entries /\ machine = "SCANNING" /\ machine' = "ENTERING"
              /\ ~tripped /\ entering'.side \notin lost
    <2>1. CASE machine = "SCANNING" /\ ~scored
      <3>1. scored' = TRUE /\ Score
        BY <2>1 DEF SignalTask
      <3> QED
        BY <1>0, <1>1, <2>1, <3>1, ScoreStep
    <2>2. CASE ~(machine = "SCANNING" /\ ~scored)
      <3>1. UNCHANGED <<scored, entering, machine, shadow>>
        BY <2>2 DEF SignalTask
      <3> QED
        BY <1>0, <3>1, ShadowsKept DEF BookTypes
    <2> QED
      BY <2>1, <2>2
  <1>3. BookTypes'
    BY <1>0, <1>2 DEF BookTypes
  <1>4. TasksInv'
    BY <1>0, <1>2, AbsentIsNone DEF TasksInv
  <1>5. BarsInv'
    <2>1. pending' \in Seq(Late)
      BY <1>1
    <2>2. window'.complete => window'.n > 0
      BY <1>0, <1>1 DEF BarsInv
    <2> QED
      BY <1>1, <2>1, <2>2 DEF BarsInv
  <1>6. TradesInv' /\ HitInv'
    BY <1>0, <1>2 DEF TradesInv, HitInv
  <1> QED
    BY <1>2, <1>3, <1>4, <1>5, <1>6 DEF IInv

\* The entry the signal task awaits is filled, or is not.
LEMMA EntryStep == IInv /\ EntryEnds => IInv'
  <1> SUFFICES ASSUME IInv, EntryEnds
               PROVE  IInv'
    OBVIOUS
  <1>0. /\ BookTypes /\ ShadowTypes /\ TasksInv /\ BarsInv /\ TradesInv /\ HitInv
        /\ entering # NoEntry /\ entering' = NoEntry /\ pos = NoPos
        /\ UNCHANGED <<minute, clock, tripped, pending, last, scored, range, closing, lost,
                       gone, shadow, window, restarts, stuck>>
    BY DEF EntryEnds, EntryFills, EntryFails, book, life, IInv, TasksInv
  <1>1. BarsInv' /\ ShadowTypes'
    BY <1>0, BarsKept, ShadowsKept
  <1>2. closing = "none"
    BY <1>0 DEF BookTypes
  <1>3. CASE EntryFills
    <2>1. /\ pos' \in Positions /\ ~pos'.hit /\ pos'.side = entering.side
          /\ machine' = IF machine = "ENTERING" THEN "MANAGING" ELSE machine
      <3>1. entering.side \in Sides /\ Debit \in Marks /\ Current \in Current..Frozen
        BY <1>0, AbsentIsNone DEF BookTypes, Entries, Current, Frozen
      <3> QED
        BY <1>3, <3>1 DEF EntryFills, Positions
    <2>2. BookTypes'
      BY <1>0, <1>2, <2>1 DEF BookTypes
    <2>3. TasksInv'
      BY <1>0, <2>1 DEF TasksInv
    <2>4. NoEntry.side \notin lost
      BY <1>0, AbsentIsNone DEF NoEntry, BookTypes
    <2>5. TradesInv' /\ HitInv'
      BY <1>0, <2>1, <2>4 DEF TradesInv, HitInv
    <2> QED
      BY <1>1, <2>2, <2>3, <2>5 DEF IInv
  <1>4. CASE EntryFails
    <2>1. /\ pos' = pos /\ judged' = judged
          /\ machine' = IF machine = "ENTERING" THEN "SCANNING" ELSE machine
      BY <1>4 DEF EntryFails, book
    <2>2. BookTypes'
      BY <1>0, <1>2, <2>1 DEF BookTypes
    <2>3. TasksInv'
      BY <1>0, <2>1 DEF TasksInv
    <2>4. NoEntry.side \notin lost
      BY <1>0, AbsentIsNone DEF NoEntry, BookTypes
    <2>5. TradesInv' /\ HitInv'
      BY <1>0, <2>1, <2>4 DEF TradesInv, HitInv
    <2> QED
      BY <1>1, <2>2, <2>3, <2>5 DEF IInv
  <1> QED
    BY <1>3, <1>4 DEF EntryEnds

\* Marking a position changes its mark and its age only.
LEMMA RemarkedTypes ==
    ASSUME pos \in Positions, NEW p \in Remarked(pos)
    PROVE  p \in Positions /\ p.side = pos.side /\ p.hit = pos.hit
  <1>1. CASE \E m \in Marks : p = [pos EXCEPT !.mark = m, !.stamped = TRUE, !.age = Current]
    <2>1. Current \in Current..Frozen
      BY DEF Current, Frozen
    <2> QED
      BY <1>1, <2>1 DEF Positions
  <1>2. CASE \E a \in pos.age..Frozen : p = [pos EXCEPT !.age = a]
    <2>1. PICK a \in pos.age..Frozen : p = [pos EXCEPT !.age = a]
      BY <1>2
    <2>2. a \in Current..Frozen
      BY DEF Positions, Current, Frozen
    <2> QED
      BY <2>1, <2>2 DEF Positions
  <1> QED
    BY <1>1, <1>2 DEF Remarked

\* A look at the position: what it may find, and what the counter then stands for.
LEMMA LookStep ==
    ASSUME pos \in Positions, HitInv, pos # NoPos, NEW p \in Remarked(pos),
           NEW heat \in BOOLEAN, Evaluate(p, heat)
    PROVE  /\ pos' \in Positions /\ pos'.side = pos.side
           /\ closing' \in Reasons \cup {"none"}
           /\ pos'.hit => judged' = "stop"
           /\ closing' = "hard_stop" => judged = "stop" /\ AtStop(pos'.mark) /\ Fresh(pos')
  <1>1. p \in Positions /\ p.side = pos.side /\ p.hit = pos.hit
    BY RemarkedTypes
  <1>2. CASE Unlooked(heat) # "none"
    <2>1. pos' = p /\ closing' = Unlooked(heat) /\ judged' = judged
      BY <1>2 DEF Evaluate
    <2>2. Unlooked(heat) \in {"circuit_breaker", "force_flat", "heat_breach", "none"}
      BY DEF Unlooked
    <2> QED
      BY <1>1, <2>1, <2>2 DEF HitInv, Reasons
  <1>3. CASE Unlooked(heat) = "none"
    <2>1. PICK broke, old \in BOOLEAN :
              /\ pos' = [p EXCEPT !.hit = Hits(p)] /\ judged' = Judgement(p)
              /\ closing' = Reason(p, broke, old, clock = "flush")
      BY <1>3 DEF Evaluate
    <2>2. Hits(p) \in BOOLEAN /\ AtStop(p.mark) \in BOOLEAN /\ Fresh(p) \in BOOLEAN
      BY <1>1 DEF Hits, AtStop, Fresh, Positions
    <2>3. /\ pos' \in Positions /\ pos'.side = p.side /\ pos'.hit = Hits(p)
          /\ pos'.mark = p.mark /\ pos'.stamped = p.stamped /\ pos'.age = p.age
      BY <1>1, <2>1, <2>2 DEF Positions
    <2>4. pos'.hit => judged' = "stop"
      <3>1. ASSUME Hits(p)
            PROVE  Judgement(p) = "stop"
        BY <1>1, <3>1 DEF Hits, Judgement, HitInv
      <3> QED
        BY <2>1, <2>3, <3>1
    <2>5. closing' \in Reasons \cup {"none"} /\ (closing' = "hard_stop" => HardStop(p))
      <3>1. CASE HardStop(p)
        BY <2>1, <3>1 DEF Reason, Reasons
      <3>2. CASE ~HardStop(p) /\ Blind(p)
        BY <2>1, <3>2 DEF Reason, Reasons
      <3>3. CASE ~HardStop(p) /\ ~Blind(p)
        <4>1. closing' \in {"profit_target", "structure_stop", "time_stop", "none"}
          BY <2>1, <3>3 DEF Reason
        <4> QED
          BY <4>1 DEF Reasons
      <3> QED
        BY <3>1, <3>2, <3>3
    <2>6. HardStop(p) => judged = "stop" /\ AtStop(pos'.mark) /\ Fresh(pos')
      BY <1>1, <2>3 DEF HardStop, HitInv, Fresh
    <2> QED
      BY <1>1, <2>3, <2>4, <2>5, <2>6
  <1> QED
    BY <1>2, <1>3

\* One iteration of the risk task, as far as the position goes.
LEMMA RiskLooks ==
    ASSUME IInv, RiskTask
    PROVE  \/ UNCHANGED <<pos, closing, judged>>
           \/ /\ pos \in Positions /\ pos # NoPos
              /\ \E p \in Remarked(pos), heat \in BOOLEAN : Evaluate(p, heat)
  <1>1. IF pos = NoPos
        THEN UNCHANGED <<pos, closing, judged>>
        ELSE \E p \in Remarked(pos), heat \in BOOLEAN : Evaluate(p, heat)
    BY DEF RiskTask
  <1>2. pos \in {NoPos} \cup Positions
    BY DEF IInv, BookTypes
  <1> QED
    BY <1>1, <1>2

LEMMA RiskStep == IInv /\ RiskTask => IInv'
  <1> SUFFICES ASSUME IInv, RiskTask
               PROVE  IInv'
    OBVIOUS
  <1>0. /\ BookTypes /\ ShadowTypes /\ TasksInv /\ BarsInv /\ TradesInv /\ HitInv
        /\ closing = "none"
        /\ machine' = IF closing' # "none" /\ tripped THEN "CLOSING" ELSE machine
        /\ UNCHANGED <<minute, clock, tripped, pending, last, scored, range, entering, lost,
                       gone, sides, window, restarts>>
        /\ ShadowsLooked /\ stuck' = FALSE
    BY DEF RiskTask, signal, IInv
  <1>1. ShadowTypes'
    BY <1>0, ShadowsLook
  <1>2. BarsInv'
    BY <1>0, BarsKept
  <1>3. CASE UNCHANGED <<pos, closing, judged>>
    <2>1. BookTypes'
      BY <1>0, <1>3 DEF BookTypes
    <2>2. TasksInv' /\ TradesInv' /\ HitInv'
      BY <1>0, <1>3 DEF TasksInv, TradesInv, HitInv
    <2> QED
      BY <1>1, <1>2, <2>1, <2>2 DEF IInv
  <1>4. ASSUME pos \in Positions, pos # NoPos, NEW p \in Remarked(pos),
               NEW heat \in BOOLEAN, Evaluate(p, heat)
        PROVE  IInv'
    <2>1. /\ pos' \in Positions /\ pos'.side = pos.side /\ pos' # NoPos
          /\ closing' \in Reasons \cup {"none"} /\ (pos'.hit => judged' = "stop")
      BY <1>0, <1>4, LookStep, AbsentIsNone
    <2>2. BookTypes'
      BY <1>0, <2>1 DEF BookTypes
    <2>3. TasksInv'
      BY <1>0, <1>4 DEF TasksInv
    <2>4. TradesInv' /\ HitInv'
      BY <1>0, <2>1 DEF TradesInv, HitInv
    <2> QED
      BY <1>1, <1>2, <2>2, <2>3, <2>4 DEF IInv
  <1> QED
    BY <1>3, <1>4, RiskLooks

\* An iteration that a failing append ends leaves the position open, marked anew.
LEMMA RiskFailsStep == IInv /\ RiskTaskFails => IInv'
  <1> SUFFICES ASSUME IInv, RiskTaskFails
               PROVE  IInv'
    OBVIOUS
  <1>0. /\ BookTypes /\ ShadowTypes /\ TasksInv /\ BarsInv /\ TradesInv /\ HitInv
        /\ UNCHANGED <<minute, clock, machine, tripped, pending, last, scored, range, entering,
                       closing, lost, judged, gone, sides, window, restarts>>
        /\ closing = "none" /\ ShadowsStuck /\ stuck' = TRUE
    BY DEF RiskTaskFails, signal, IInv
  <1>1. ShadowTypes'
    BY <1>0, ShadowsStick
  <1>2. BarsInv'
    BY <1>0, BarsKept
  <1>3. \/ pos = NoPos /\ pos' = NoPos
        \/ /\ pos # NoPos /\ pos' # NoPos /\ pos' \in Positions /\ pos'.side = pos.side
           /\ pos'.hit = pos.hit
    <2>1. CASE pos = NoPos
      BY <2>1 DEF RiskTaskFails
    <2>2. CASE pos # NoPos
      <3>1. pos \in Positions /\ pos' \in Remarked(pos)
        BY <1>0, <2>2 DEF RiskTaskFails, BookTypes
      <3> QED
        BY <2>2, <3>1, RemarkedTypes, AbsentIsNone
    <2> QED
      BY <2>1, <2>2
  <1>4. BookTypes'
    BY <1>0, <1>3 DEF BookTypes
  <1>5. TasksInv' /\ TradesInv' /\ HitInv'
    BY <1>0, <1>3 DEF TasksInv, TradesInv, HitInv
  <1> QED
    BY <1>1, <1>2, <1>4, <1>5 DEF IInv

\* The exit the risk task awaits is filled, or is not.
LEMMA ExitStep == IInv /\ ExitEnds => IInv'
  <1> SUFFICES ASSUME IInv, ExitEnds
               PROVE  IInv'
    OBVIOUS
  <1>0. /\ BookTypes /\ ShadowTypes /\ TasksInv /\ BarsInv /\ TradesInv /\ HitInv
        /\ closing # "none" /\ closing' = "none"
        /\ UNCHANGED <<minute, clock, tripped, pending, last, scored, range, entering,
                       shadow, window, restarts, stuck>>
    BY DEF ExitEnds, ExitFills, ExitFails, signal, life, IInv
  <1>1. BarsInv' /\ ShadowTypes'
    BY <1>0, BarsKept, ShadowsKept
  <1>2. pos # NoPos /\ pos \in Positions /\ pos.side \in Sides /\ entering = NoEntry
    BY <1>0 DEF BookTypes, TasksInv, Positions
  <1>3. CASE ExitFills
    <2>1. PICK price \in Marks :
              LET loss == IF price < Debit THEN {pos.side} ELSE {}
              IN  lost' = lost \cup loss /\ gone' = gone \cup loss
      BY <1>3 DEF ExitFills
    <2> DEFINE loss == IF price < Debit THEN {pos.side} ELSE {}
    <2>2. lost' = lost \cup loss /\ gone' = gone \cup loss /\ loss \subseteq Sides
      BY <1>2, <2>1
    <2> HIDE DEF loss
    <2>3. pos' = NoPos /\ machine' = IF machine = "MANAGING" THEN "SCANNING" ELSE machine
      BY <1>3 DEF ExitFills
    <2>4. lost' \subseteq Sides
      BY <1>0, <2>2 DEF BookTypes
    <2>5. BookTypes'
      BY <1>0, <2>3, <2>4 DEF BookTypes
    <2>6. TasksInv' /\ HitInv'
      BY <1>0, <1>2, <2>3 DEF TasksInv, HitInv
    <2>7. TradesInv'
      <3>1. entering'.side \notin lost' /\ pos'.side \notin lost'
        BY <1>0, <1>2, <2>3, <2>4, AbsentIsNone DEF NoEntry, NoPos
      <3> QED
        BY <1>0, <2>2, <3>1 DEF TradesInv
    <2> QED
      BY <1>1, <2>5, <2>6, <2>7 DEF IInv
  <1>4. CASE ExitFails
    <2>1. UNCHANGED <<pos, machine, lost, judged, gone>>
      BY <1>4 DEF ExitFails
    <2>2. BookTypes'
      BY <1>0, <2>1 DEF BookTypes
    <2>3. TasksInv' /\ TradesInv' /\ HitInv'
      BY <1>0, <2>1 DEF TasksInv, TradesInv, HitInv
    <2> QED
      BY <1>1, <2>2, <2>3 DEF IInv
  <1> QED
    BY <1>3, <1>4 DEF ExitEnds

LEMMA InvStep == IInv /\ [Next]_vars => IInv'
  <1> SUFFICES ASSUME IInv, UNCHANGED vars
               PROVE  IInv'
    BY RestartStep, NewBarStep, ClockStep, SignalStep, EntryStep, RiskStep,
       RiskFailsStep, ExitStep DEF Next
  <1>1. /\ UNCHANGED <<minute, clock, machine, tripped, pending, last, scored, range, entering>>
        /\ UNCHANGED <<pos, closing, lost, judged, gone, shadow, window, restarts, stuck>>
    BY DEF vars, signal, book, life
  <1>2. BookTypes' /\ TasksInv' /\ TradesInv' /\ HitInv'
    BY <1>1 DEF IInv, BookTypes, TasksInv, TradesInv, HitInv
  <1>3. ShadowTypes' /\ BarsInv'
    BY <1>1, ShadowsKept, BarsKept DEF IInv
  <1> QED
    BY <1>2, <1>3 DEF IInv

LEMMA InvHolds == Spec => []IInv
  BY InvInit, InvStep, PTL DEF Spec

-----------------------------------------------------------------------------
(* Types.                                                                   *)

\* Every state is well typed: the range has room for its bars, no entry begins
\* beside a position, and the open shadows stay within their limit (app.py:521-576,
\* features/opening_range.py:34-51, monitoring/shadow.py:58-76).
THEOREM DayTypeCorrect == Spec => []TypeOK
  <1>1. IInv => TypeOK
    <2> SUFFICES ASSUME IInv
                 PROVE  TypeOK
      OBVIOUS
    <2>1. BookTypes /\ ShadowTypes /\ TasksInv /\ BarsInv /\ BarTypes
      BY DEF IInv, BarsInv
    <2>2. range.n \in 0..ORBars /\ (range.complete => range.n > 0)
      BY <2>1 DEF BarsInv, BarTypes, Span
    <2>3. entering = NoEntry \/ entering.side \in Sides
      BY <2>1 DEF BookTypes, Entries
    <2>4. pos = NoPos \/ pos \in Positions
      BY <2>1 DEF BookTypes
    <2>5. pos = NoPos \/ entering = NoEntry
      BY <2>1 DEF TasksInv
    <2> QED
      BY <2>1, <2>2, <2>3, <2>4, <2>5 DEF TypeOK, BookTypes, ShadowTypes, Positions
  <1> QED
    BY InvHolds, <1>1, PTL

-----------------------------------------------------------------------------
(* The one-shot rule.                                                       *)

\* In a process that did not restart, a side that has lost is neither entered nor
\* held again, whatever the other side did meanwhile (app.py:398-406).
THEOREM OneShotTheorem == Spec => []OneShot
  <1>1. IInv => OneShot
    BY DEF IInv, TradesInv, OneShot
  <1> QED
    BY InvHolds, <1>1, PTL

-----------------------------------------------------------------------------
(* Entries.                                                                 *)

LEMMA BreakoutInit == Init => BreakoutIsReal
  BY DEF Init, BreakoutIsReal

\* The signal task scores the last close against all of the range.
LEMMA BreakoutScored == IInv /\ BreakoutIsReal /\ SignalTask => BreakoutIsReal'
  <1> SUFFICES ASSUME IInv, SignalTask, entering' # NoEntry
               PROVE  BreakoutIsReal'
    BY DEF BreakoutIsReal
  <1>1. /\ range' = window /\ window' = window /\ range' \in Span /\ last \in Bar
        /\ BookTypes /\ ShadowTypes /\ entering = NoEntry
        /\ window.complete => window.n > 0
    BY SignalRange DEF IInv, BarsInv, SignalTask
  <1>2. Score
    BY <1>1 DEF SignalTask
  <1>3. /\ entering' \in Entries /\ range'.complete
        /\ entering'.side = "LONG" => entering'.close > range'.hi
        /\ entering'.side = "SHORT" => entering'.close < range'.lo
    BY <1>1, <1>2, ScoreStep
  <1>4. entering'.side \in {"LONG", "SHORT"}
    BY <1>3 DEF Entries, Sides
  <1> QED
    BY <1>1, <1>3, <1>4 DEF BreakoutIsReal

\* While an entry is awaited the bars are past the window and leave its edges alone.
LEMMA BreakoutAwaited == IInv /\ BreakoutIsReal /\ NewBar => BreakoutIsReal'
  <1> SUFFICES ASSUME IInv, BreakoutIsReal, NewBar, entering # NoEntry
               PROVE  BreakoutIsReal'
    BY DEF BreakoutIsReal, NewBar
  <1>1. window'.n = window.n /\ window'.hi = window.hi /\ window'.lo = window.lo
    <2>1. CASE window' = window
      BY <2>1
    <2>2. ASSUME NEW b \in Bars, window' = AddBar([b EXCEPT !.t = minute'], window)
          PROVE  window'.n = window.n /\ window'.hi = window.hi /\ window'.lo = window.lo
      <3> DEFINE bar == [b EXCEPT !.t = minute']
      <3>1. minute \in Nat /\ minute >= ORBars /\ minute' = minute + 1 /\ window \in Span
        BY DEF IInv, BookTypes, TasksInv, BarsInv, BarTypes, NewBar
      <3>2. b \in Bar
        BY DEF Bar
      <3>3. bar \in Late
        BY <3>1, <3>2 DEF Bar, Late, InWindow
      <3> HIDE DEF bar
      <3>4. window' = AddBar(bar, window)
        BY <2>2 DEF bar
      <3> QED
        BY <3>1, <3>3, <3>4, LateBar
    <2> QED
      BY <2>1, <2>2 DEF NewBar
  <1>2. entering' = entering
    BY DEF NewBar
  <1> QED
    BY <1>1, <1>2 DEF BreakoutIsReal

\* Every entry is made on a close beyond all the process saw of the opening range,
\* and a process that saw nothing of it makes none (app.py:347-361,
\* features/opening_range.py:72-105).
THEOREM BreakoutTheorem == Spec => []BreakoutIsReal
  <1>1. IInv /\ BreakoutIsReal /\ [Next]_vars => BreakoutIsReal'
    <2> SUFFICES ASSUME IInv, BreakoutIsReal, [Next]_vars
                 PROVE  BreakoutIsReal'
      OBVIOUS
    <2>1. CASE Restart
      BY <2>1 DEF Restart, BreakoutIsReal
    <2>2. CASE EntryEnds
      BY <2>2 DEF EntryEnds, EntryFills, EntryFails, BreakoutIsReal
    <2>3. CASE Trip \/ TimePasses \/ ClockTask \/ RiskTask \/ RiskTaskFails \/ ExitEnds
               \/ UNCHANGED vars
      <3>1. entering' = entering /\ window' = window
        BY <2>3 DEF Trip, TimePasses, ClockTask, RiskTask, RiskTaskFails, ExitEnds, ExitFills,
                    ExitFails, vars, signal
      <3> QED
        BY <3>1 DEF BreakoutIsReal
    <2> QED
      BY <2>1, <2>2, <2>3, BreakoutScored, BreakoutAwaited DEF Next
  <1> QED
    BY InvHolds, BreakoutInit, <1>1, PTL DEF Spec

-----------------------------------------------------------------------------
(* The hard stop.                                                           *)

\* A position is closed by the hard stop only on a fresh mark at the stop after a
\* look that saw one too, with no conclusive look above it in between
\* (execution/exits.py:85-97).
THEOREM HardStopTheorem == Spec => HardStopConfirmed
  <1>1. ASSUME IInv, [Next]_vars, closing = "none", closing' = "hard_stop"
        PROVE  judged = "stop" /\ AtStop(pos'.mark) /\ Fresh(pos')
    <2>1. RiskTask
      BY <1>1 DEF Next, Restart, NewBar, Trip, TimePasses, ClockTask, SignalTask, EntryEnds,
                  EntryFills, EntryFails, RiskTaskFails, ExitEnds, ExitFills, ExitFails, vars,
                  book
    <2>2. /\ pos \in Positions /\ pos # NoPos
          /\ \E p \in Remarked(pos), heat \in BOOLEAN : Evaluate(p, heat)
      BY <1>1, <2>1, RiskLooks
    <2> QED
      BY <1>1, <2>2, LookStep DEF IInv
  <1> QED
    BY InvHolds, <1>1, PTL DEF Spec, HardStopConfirmed

=============================================================================
