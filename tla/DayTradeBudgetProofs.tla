------------------------ MODULE DayTradeBudgetProofs ------------------------
(***************************************************************************)
(* Proofs, for every cap, budget, number of days and number of faults, that *)
(* the ledger is well typed, and that it holds the daily cap and the rolling *)
(* budget of five business days.  What the window adds up is a fold; the     *)
(* facts needed of it are proved here by induction on the size of the set.   *)
(***************************************************************************)
EXTENDS DayTradeBudget, FiniteSetTheorems, WellFoundedInduction, TLAPS

\* The ledger in memory counts at least the approvals of its own session.
CountedInv ==
    up /\ ~forgotten /\ session \in Business => trades[session] >= made[session]

IInv == TypeOK /\ DailyCapHeld /\ CountedInv

-----------------------------------------------------------------------------
(* Sums over finite sets.                                                  *)

\* A nonempty set of numbers has a least one.
LEMMA SmallestOf ==
    ASSUME NEW T, T \subseteq Nat, T # {}
    PROVE  \E m \in T : \A k \in T : m <= k
  <1>1. PICK x \in T : \A y \in T : ~(<<y, x>> \in OpToRel(<, Nat))
    BY NatLessThanWellFounded, WFMin, Zenon
  <1>2. \A y \in T : ~(y < x)
    BY <1>1 DEF OpToRel
  <1>3. \A k \in T : x <= k
    <2> TAKE k \in T
    <2>1. x \in Nat /\ k \in Nat
      OBVIOUS
    <2> QED
      BY <2>1, <1>2
  <1> QED
    BY <1>3

\* Induction over the numbers, with a set in the place of a predicate.
LEMMA SetInduction ==
    ASSUME NEW G, 0 \in G, \A n \in Nat : n \in G => n + 1 \in G
    PROVE  Nat \subseteq G
  <1> SUFFICES ASSUME Nat \ G # {}
               PROVE  FALSE
    OBVIOUS
  <1>1. PICK m \in Nat \ G : \A k \in Nat \ G : m <= k
    BY SmallestOf
  <1>2. m # 0 /\ m - 1 \in Nat /\ ~(m <= m - 1)
    BY <1>1
  <1>3. m - 1 \in G
    BY <1>1, <1>2
  <1> QED
    BY <1>2, <1>3

\* Induction over the parts of a finite set, with a set in the place of a predicate.
LEMMA FiniteInduction ==
    ASSUME NEW S, IsFiniteSet(S), NEW G,
           \A s \in SUBSET S : (\A x \in s : s \ {x} \in G) => s \in G
    PROVE  S \in G
  <1> DEFINE H == {n \in Nat : \A s \in SUBSET S : Cardinality(s) <= n => s \in G}
  <1>1. ASSUME NEW s \in SUBSET S, NEW x \in s
        PROVE  /\ s \ {x} \in SUBSET S /\ Cardinality(s) \in Nat /\ Cardinality(s) > 0
               /\ Cardinality(s \ {x}) = Cardinality(s) - 1
    <2>1. IsFiniteSet(s)
      BY FS_Subset
    <2>2. Cardinality(s) \in Nat /\ Cardinality(s) # 0
      BY <2>1, FS_CardinalityType, FS_EmptySet
    <2>3. Cardinality(s \ {x}) = Cardinality(s) - 1
      BY <2>1, FS_RemoveElement
    <2> QED
      BY <2>2, <2>3
  <1>2. 0 \in H
    <2>1. ASSUME NEW s \in SUBSET S, Cardinality(s) <= 0
          PROVE  s \in G
      <3>1. ASSUME NEW x \in s
            PROVE  FALSE
        <4>1. Cardinality(s) \in Nat /\ Cardinality(s) > 0
          BY <1>1
        <4> QED
          BY <2>1, <4>1
      <3> QED
        BY <3>1
    <2> QED
      BY <2>1
  <1>3. ASSUME NEW n \in Nat, n \in H
        PROVE  n + 1 \in H
    <2>1. ASSUME NEW s \in SUBSET S, Cardinality(s) <= n + 1
          PROVE  s \in G
      <3>1. ASSUME NEW x \in s
            PROVE  s \ {x} \in G
        <4>1. /\ s \ {x} \in SUBSET S /\ Cardinality(s) \in Nat
              /\ Cardinality(s \ {x}) = Cardinality(s) - 1
          BY <1>1
        <4>2. Cardinality(s \ {x}) <= n
          BY <2>1, <4>1
        <4> QED
          BY <1>3, <4>1, <4>2
      <3> QED
        BY <3>1
    <2> QED
      BY <2>1
  <1>4. Cardinality(S) \in H /\ Cardinality(S) \in Nat
    <2> HIDE DEF H
    <2> QED
      BY <1>2, <1>3, SetInduction, FS_CardinalityType
  <1> QED
    BY <1>4

\* The element a fold over s takes first.
Pick(s) == CHOOSE x \in s : TRUE

\* f holds the sum of l over every part of S, as the fold computes them.
Sums(f, l, S) ==
    f = [s \in SUBSET S |-> IF s = {} THEN 0 ELSE l[Pick(s)] + f[s \ {Pick(s)}]]

\* What is left of a set after that element is smaller.
LEMMA Picked ==
    ASSUME NEW S, IsFiniteSet(S), NEW s \in SUBSET S, s # {}
    PROVE  /\ Pick(s) \in s /\ s \ {Pick(s)} \in SUBSET S
           /\ Cardinality(s) \in Nat /\ Cardinality(s) > 0
           /\ Cardinality(s \ {Pick(s)}) = Cardinality(s) - 1
  <1>1. Pick(s) \in s
    BY DEF Pick
  <1>2. IsFiniteSet(s)
    BY FS_Subset
  <1>3. Cardinality(s) \in Nat /\ Cardinality(s) # 0
    BY <1>2, FS_CardinalityType, FS_EmptySet
  <1>4. Cardinality(s \ {Pick(s)}) = Cardinality(s) - 1
    BY <1>1, <1>2, FS_RemoveElement
  <1> QED
    BY <1>1, <1>3, <1>4

\* There is such a function, for every finite set.
LEMMA SumExists ==
    ASSUME NEW S, IsFiniteSet(S), NEW l
    PROVE  \E f : Sums(f, l, S)
  <1> DEFINE Step(f, s) == IF s = {} THEN 0 ELSE l[Pick(s)] + f[s \ {Pick(s)}]
             UpTo(n) == {s \in SUBSET S : Cardinality(s) <= n}
             G == {n \in Nat : \E f : \A s \in UpTo(n) : f[s] = Step(f, s)}
  <1>0. \A s \in SUBSET S : Cardinality(s) \in Nat
    BY FS_Subset, FS_CardinalityType
  <1>1. 0 \in G
    <2> DEFINE f == [s \in SUBSET S |-> 0]
    <2>1. ASSUME NEW s \in UpTo(0)
          PROVE  f[s] = Step(f, s)
      <3>1. ASSUME s # {}
            PROVE  FALSE
        <4>1. s \in SUBSET S /\ Cardinality(s) <= 0
          BY <2>1
        <4>2. Cardinality(s) \in Nat /\ Cardinality(s) > 0
          BY <3>1, <4>1, Picked
        <4> QED
          BY <4>1, <4>2
      <3> QED
        BY <3>1
    <2> QED
      BY <2>1
  <1>2. ASSUME NEW n \in Nat, n \in G
        PROVE  n + 1 \in G
    <2>1. PICK f : \A s \in UpTo(n) : f[s] = Step(f, s)
      BY <1>2
    <2> DEFINE g == [s \in SUBSET S |-> IF s \in UpTo(n) THEN f[s] ELSE Step(f, s)]
    <2>2. \A s \in UpTo(n) : g[s] = f[s]
      OBVIOUS
    <2>3. ASSUME NEW s \in UpTo(n + 1)
          PROVE  g[s] = Step(g, s)
      <3>1. g[s] = Step(f, s)
        BY <2>1
      <3>2. CASE s = {}
        BY <3>1, <3>2
      <3>3. CASE s # {}
        <4>1. s \ {Pick(s)} \in UpTo(n)
          BY <1>0, <3>3, Picked
        <4>2. g[s \ {Pick(s)}] = f[s \ {Pick(s)}]
          BY <2>2, <4>1
        <4> HIDE DEF g, UpTo
        <4> QED
          BY <3>1, <3>3, <4>2
      <3> QED
        BY <3>2, <3>3
    <2>4. \E h : \A s \in UpTo(n + 1) : h[s] = Step(h, s)
      BY <2>3
    <2> HIDE DEF g, UpTo, Step
    <2> QED
      BY <2>4
  <1>3. Cardinality(S) \in G
    <2> HIDE DEF G
    <2> QED
      BY <1>1, <1>2, SetInduction, FS_CardinalityType
  <1>4. PICK f : \A s \in UpTo(Cardinality(S)) : f[s] = Step(f, s)
    BY <1>3
  <1> DEFINE g == [s \in SUBSET S |-> f[s]]
  <1>5. \A s \in SUBSET S : s \in UpTo(Cardinality(S))
    BY FS_Subset
  <1>6. ASSUME NEW s \in SUBSET S
        PROVE  f[s] = Step(g, s)
    <2>1. f[s] = Step(f, s)
      BY <1>4, <1>5
    <2>2. CASE s = {}
      BY <2>1, <2>2
    <2>3. CASE s # {}
      <3>1. s \ {Pick(s)} \in SUBSET S
        BY <2>3, Picked
      <3>2. g[s \ {Pick(s)}] = f[s \ {Pick(s)}]
        BY <3>1
      <3> HIDE DEF g
      <3> QED
        BY <2>1, <2>3, <3>2
    <2> QED
      BY <2>2, <2>3
  <1>7. Sums(g, l, S)
    BY <1>6 DEF Sums
  <1> QED
    BY <1>7

\* The sum is the value for the whole set.
LEMMA TotalSums ==
    ASSUME NEW S, IsFiniteSet(S), NEW l
    PROVE  \E f : Sums(f, l, S) /\ Total(l, S) = f[S]
  <1> DEFINE it == CHOOSE f : Sums(f, l, S)
  <1>1. Sums(it, l, S)
    BY SumExists
  <1>2. Total(l, S) = it[S]
    BY DEF Total, MapThenSumSet, MapThenFoldSet, Sums, Pick
  <1> QED
    BY <1>1, <1>2

\* The functions for two sets agree on the parts of both.
LEMMA SumsAgree ==
    ASSUME NEW S, IsFiniteSet(S), NEW T \in SUBSET S, NEW l, NEW f, NEW g,
           Sums(f, l, S), Sums(g, l, T)
    PROVE  f[T] = g[T]
  <1> DEFINE G == {s \in SUBSET T : f[s] = g[s]}
  <1>1. /\ \A s \in SUBSET S : f[s] = IF s = {} THEN 0 ELSE l[Pick(s)] + f[s \ {Pick(s)}]
        /\ \A s \in SUBSET T : g[s] = IF s = {} THEN 0 ELSE l[Pick(s)] + g[s \ {Pick(s)}]
    BY DEF Sums
  <1>2. ASSUME NEW s \in SUBSET T, \A x \in s : s \ {x} \in G
        PROVE  f[s] = g[s]
    <2>1. s \in SUBSET S
      OBVIOUS
    <2>2. CASE s = {}
      BY <1>1, <2>1, <2>2
    <2>3. CASE s # {}
      <3>1. f[s \ {Pick(s)}] = g[s \ {Pick(s)}]
        BY <1>2, <2>3 DEF Pick
      <3> QED
        BY <1>1, <2>1, <2>3, <3>1
    <2> QED
      BY <2>2, <2>3
  <1>3. T \in G
    <2>1. \A s \in SUBSET T : (\A x \in s : s \ {x} \in G) => s \in G
      BY <1>2
    <2> HIDE DEF G
    <2> QED
      BY <2>1, FiniteInduction, FS_Subset
  <1> QED
    BY <1>3

\* A sum is one element and the sum of the rest.
LEMMA TotalUnfolds ==
    ASSUME NEW S, IsFiniteSet(S), NEW l
    PROVE  Total(l, S) = IF S = {} THEN 0 ELSE l[Pick(S)] + Total(l, S \ {Pick(S)})
  <1>1. PICK f : Sums(f, l, S) /\ Total(l, S) = f[S]
    BY TotalSums
  <1>2. f[S] = IF S = {} THEN 0 ELSE l[Pick(S)] + f[S \ {Pick(S)}]
    BY <1>1 DEF Sums
  <1> DEFINE T == S \ {Pick(S)}
  <1>3. T \in SUBSET S /\ IsFiniteSet(T)
    BY FS_Subset
  <1>4. PICK g : Sums(g, l, T) /\ Total(l, T) = g[T]
    BY <1>3, TotalSums
  <1> HIDE DEF T
  <1>5. f[T] = g[T]
    BY <1>1, <1>3, <1>4, SumsAgree
  <1>6. Total(l, T) = f[T]
    BY <1>4, <1>5
  <1> QED
    BY <1>1, <1>2, <1>6 DEF T

\* A sum of numbers is a number.
LEMMA TotalTyped ==
    ASSUME NEW S, IsFiniteSet(S), NEW l, \A x \in S : l[x] \in Nat
    PROVE  Total(l, S) \in Nat
  <1> DEFINE G == {s \in SUBSET S : Total(l, s) \in Nat}
  <1>1. ASSUME NEW s \in SUBSET S, \A x \in s : s \ {x} \in G
        PROVE  s \in G
    <2>1. Total(l, s) = IF s = {} THEN 0 ELSE l[Pick(s)] + Total(l, s \ {Pick(s)})
      BY TotalUnfolds, FS_Subset
    <2>2. CASE s = {}
      BY <2>1, <2>2
    <2>3. CASE s # {}
      <3>1. Pick(s) \in s
        BY <2>3 DEF Pick
      <3>2. l[Pick(s)] \in Nat /\ Total(l, s \ {Pick(s)}) \in Nat
        BY <1>1, <3>1
      <3>3. l[Pick(s)] + Total(l, s \ {Pick(s)}) \in Nat
        BY <3>2
      <3> QED
        BY <2>1, <2>3, <3>3
    <2> QED
      BY <2>2, <2>3
  <1>2. S \in G
    <2> HIDE DEF G
    <2> QED
      BY <1>1, FiniteInduction
  <1> QED
    BY <1>2

\* Any element may be taken first.
LEMMA TotalTakes ==
    ASSUME NEW S, IsFiniteSet(S), NEW l, \A x \in S : l[x] \in Nat, NEW y \in S
    PROVE  /\ Total(l, S) = l[y] + Total(l, S \ {y})
           /\ Total(l, S) \in Nat /\ Total(l, S \ {y}) \in Nat /\ l[y] \in Nat
  <1> DEFINE G == {s \in SUBSET S : \A x \in s : Total(l, s) = l[x] + Total(l, s \ {x})}
  <1>0. ASSUME NEW s \in SUBSET S
        PROVE  Total(l, s) \in Nat
    <2>1. IsFiniteSet(s) /\ \A x \in s : l[x] \in Nat
      BY FS_Subset
    <2> QED
      BY <2>1, TotalTyped
  <1>1. ASSUME NEW s \in SUBSET S, \A x \in s : s \ {x} \in G, NEW x \in s
        PROVE  Total(l, s) = l[x] + Total(l, s \ {x})
    <2> DEFINE p == Pick(s)
    <2>1. p \in s
      BY DEF Pick
    <2>2. Total(l, s) = l[p] + Total(l, s \ {p})
      BY TotalUnfolds, FS_Subset
    <2> HIDE DEF p
    <2>3. CASE x = p
      BY <2>2, <2>3
    <2>4. CASE x # p
      <3>1. s \ {p} \in G /\ x \in s \ {p}
        BY <1>1, <2>1, <2>4
      <3>2. Total(l, s \ {p}) = l[x] + Total(l, (s \ {p}) \ {x})
        BY <3>1
      <3>3. s \ {x} \in G /\ p \in s \ {x}
        BY <1>1, <2>1, <2>4
      <3>4. Total(l, s \ {x}) = l[p] + Total(l, (s \ {x}) \ {p})
        BY <3>3
      <3>5. (s \ {x}) \ {p} = (s \ {p}) \ {x}
        OBVIOUS
      <3> DEFINE rest == Total(l, (s \ {p}) \ {x})
      <3>6. rest \in Nat /\ l[p] \in Nat /\ l[x] \in Nat
        BY <1>0, <2>1
      <3>7. Total(l, s) = l[p] + (l[x] + rest) /\ Total(l, s \ {x}) = l[p] + rest
        BY <2>2, <3>2, <3>4, <3>5
      <3> HIDE DEF rest
      <3> QED
        BY <3>6, <3>7
    <2> QED
      BY <2>3, <2>4
  <1>2. S \in G
    <2>1. \A s \in SUBSET S : (\A x \in s : s \ {x} \in G) => s \in G
      BY <1>1
    <2> HIDE DEF G
    <2> QED
      BY <2>1, FiniteInduction
  <1>3. Total(l, S) \in Nat /\ Total(l, S \ {y}) \in Nat
    BY <1>0
  <1> QED
    BY <1>2, <1>3

\* A sum over A is not greater than one over B, if what A has beyond B is zero.
LEMMA TotalWithin ==
    ASSUME NEW A, NEW B, IsFiniteSet(A), IsFiniteSet(B), NEW l,
           \A x \in A \cup B : l[x] \in Nat, \A x \in A \ B : l[x] = 0
    PROVE  Total(l, A) <= Total(l, B)
  <1> DEFINE G == {s \in SUBSET A : \A b \in SUBSET B :
                     (\A x \in s \ b : l[x] = 0) => Total(l, s) <= Total(l, b)}
  <1>1. ASSUME NEW s \in SUBSET A, \A x \in s : s \ {x} \in G, NEW b \in SUBSET B,
               \A x \in s \ b : l[x] = 0
        PROVE  Total(l, s) <= Total(l, b)
    <2>1. /\ IsFiniteSet(s) /\ \A x \in s : l[x] \in Nat
          /\ IsFiniteSet(b) /\ \A x \in b : l[x] \in Nat
      BY FS_Subset
    <2>2. Total(l, b) \in Nat /\ Total(l, s) \in Nat
      BY <2>1, TotalTyped
    <2>3. CASE s = {}
      <3>1. Total(l, s) = 0
        BY <2>1, <2>3, TotalUnfolds
      <3> QED
        BY <2>2, <3>1
    <2>4. ASSUME NEW x \in s, x \in b
          PROVE  Total(l, s) <= Total(l, b)
      <3>1. s \ {x} \in G /\ b \ {x} \in SUBSET B
        BY <1>1
      <3>2. \A y \in (s \ {x}) \ (b \ {x}) : l[y] = 0
        BY <1>1
      <3>3. Total(l, s \ {x}) <= Total(l, b \ {x})
        BY <3>1, <3>2
      <3>4. /\ Total(l, s) = l[x] + Total(l, s \ {x})
            /\ Total(l, s \ {x}) \in Nat /\ l[x] \in Nat
        BY <2>1, TotalTakes
      <3>5. Total(l, b) = l[x] + Total(l, b \ {x}) /\ Total(l, b \ {x}) \in Nat
        BY <2>1, <2>4, TotalTakes
      <3> HIDE DEF G
      <3> QED
        BY <3>3, <3>4, <3>5
    <2>5. ASSUME NEW x \in s, x \notin b
          PROVE  Total(l, s) <= Total(l, b)
      <3>1. s \ {x} \in G /\ \A y \in (s \ {x}) \ b : l[y] = 0
        BY <1>1
      <3>2. Total(l, s \ {x}) <= Total(l, b) /\ l[x] = 0
        BY <1>1, <2>5, <3>1
      <3>3. Total(l, s) = l[x] + Total(l, s \ {x}) /\ Total(l, s \ {x}) \in Nat
        BY <2>1, TotalTakes
      <3> HIDE DEF G
      <3> QED
        BY <2>2, <3>2, <3>3
    <2> QED
      BY <2>3, <2>4, <2>5
  <1>2. A \in G
    <2>1. \A s \in SUBSET A : (\A x \in s : s \ {x} \in G) => s \in G
      BY <1>1
    <2> HIDE DEF G
    <2> QED
      BY <2>1, FiniteInduction
  <1> QED
    BY <1>2

\* A sum grows by no more than its elements do.
LEMMA TotalGrows ==
    ASSUME NEW S, IsFiniteSet(S), NEW l, NEW m, NEW a,
           \A x \in S : l[x] \in Nat /\ m[x] \in Nat,
           \A x \in S : m[x] <= l[x] + (IF x = a THEN 1 ELSE 0)
    PROVE  Total(m, S) <= Total(l, S) + (IF a \in S THEN 1 ELSE 0)
  <1> DEFINE G == {s \in SUBSET S : Total(m, s) <= Total(l, s) + (IF a \in s THEN 1 ELSE 0)}
  <1>1. ASSUME NEW s \in SUBSET S, \A x \in s : s \ {x} \in G
        PROVE  Total(m, s) <= Total(l, s) + (IF a \in s THEN 1 ELSE 0)
    <2>1. IsFiniteSet(s) /\ \A x \in s : l[x] \in Nat /\ m[x] \in Nat
      BY FS_Subset
    <2>2. CASE s = {}
      <3>1. Total(m, s) = 0 /\ Total(l, s) = 0
        BY <2>1, <2>2, TotalUnfolds
      <3> QED
        BY <3>1
    <2>3. ASSUME NEW x \in s
          PROVE  Total(m, s) <= Total(l, s) + (IF a \in s THEN 1 ELSE 0)
      <3>1. Total(m, s \ {x}) <= Total(l, s \ {x}) + (IF a \in s \ {x} THEN 1 ELSE 0)
        BY <1>1
      <3>2. m[x] <= l[x] + (IF x = a THEN 1 ELSE 0)
        OBVIOUS
      <3>3. /\ Total(l, s) = l[x] + Total(l, s \ {x})
            /\ Total(l, s \ {x}) \in Nat /\ l[x] \in Nat
        BY <2>1, TotalTakes
      <3>4. /\ Total(m, s) = m[x] + Total(m, s \ {x})
            /\ Total(m, s \ {x}) \in Nat /\ m[x] \in Nat
        BY <2>1, TotalTakes
      <3> HIDE DEF G
      <3>5. CASE x = a
        BY <3>1, <3>2, <3>3, <3>4, <3>5
      <3>6. CASE x # a
        BY <3>1, <3>2, <3>3, <3>4, <3>6
      <3> QED
        BY <3>5, <3>6
    <2> QED
      BY <2>2, <2>3
  <1>2. S \in G
    <2>1. \A s \in SUBSET S : (\A x \in s : s \ {x} \in G) => s \in G
      BY <1>1
    <2> HIDE DEF G
    <2> QED
      BY <2>1, FiniteInduction
  <1> QED
    BY <1>2

-----------------------------------------------------------------------------
USE BudgetAssumption

\* A business day is in every window that ends with it.
LEMMA WindowHasItsEnd ==
    ASSUME NEW d \in Business, NEW n \in Nat \ {0}
    PROVE  d \in Window(d, n)
  <1>1. {e \in Business : d < e /\ e <= d} = {}
    BY DEF Business, Days
  <1>2. Cardinality({}) = 0
    BY FS_EmptySet
  <1> QED
    BY <1>1, <1>2 DEF Window, Business, Days

\* What an approval and an unreadable file make of the ledger.
LEMMA RecordedLedger ==
    ASSUME TypeOK
    PROVE  /\ Recorded \in Ledger
           /\ session \in Business => Recorded[session] = trades[session] + 1
  <1>1. \A d \in Days : trades[d] + (IF d = session THEN 1 ELSE 0) \in Nat
    BY DEF TypeOK, Ledger
  <1>2. Recorded \in Ledger
    BY <1>1 DEF Recorded, Ledger
  <1>3. ASSUME session \in Business
        PROVE  Recorded[session] = trades[session] + 1
    BY <1>3, WindowHasItsEnd DEF Recorded, TypeOK
  <1> QED
    BY <1>2, <1>3

LEMMA UnreadableLedger ==
    ASSUME TypeOK
    PROVE  Unreadable \in Ledger /\ Unreadable[day] >= DailyCap
  BY DEF TypeOK, Unreadable, Empty, Ledger

LEMMA EmptyLedger == Empty \in Ledger
  BY DEF Empty, Ledger

\* However a write ends, the file holds a ledger.
LEMMA WrittenFile ==
    ASSUME TypeOK, NEW payload \in Ledger, Writes(payload)
    PROVE  saved' \in Ledger /\ kind' \in {"absent", "ok", "torn"} /\ faults' \in 0..MaxFaults
  BY EmptyLedger DEF TypeOK, Writes

-----------------------------------------------------------------------------
(* Types.                                                                  *)

LEMMA TypeInit == Init => TypeOK
  <1>1. 1 \in Days /\ 0 \in 0..MaxFaults
    BY DEF Days
  <1> QED
    BY <1>1, EmptyLedger DEF Init, TypeOK

LEMMA TypeStep == TypeOK /\ [Next]_vars => TypeOK'
  <1> SUFFICES ASSUME TypeOK, [Next]_vars
               PROVE  TypeOK'
    OBVIOUS
  <1>1. ASSUME Boot
        PROVE  TypeOK'
    <2>1. trades' \in Ledger
      BY <1>1, UnreadableLedger, EmptyLedger DEF Boot, TypeOK
    <2>2. forgotten' \in BOOLEAN
      BY <1>1, Zenon DEF Boot, TypeOK
    <2> QED
      BY <1>1, <2>1, <2>2 DEF Boot, TypeOK
  <1>2. ASSUME Record
        PROVE  TypeOK'
    <2>1. made' \in Ledger
      BY <1>2 DEF Record, TypeOK, Ledger
    <2>2. trades' \in Ledger /\ Writes(Recorded)
      BY <1>2, RecordedLedger DEF Record
    <2>3. saved' \in Ledger /\ kind' \in {"absent", "ok", "torn"} /\ faults' \in 0..MaxFaults
      BY <2>2, RecordedLedger, WrittenFile
    <2> QED
      BY <1>2, <2>1, <2>2, <2>3 DEF Record, TypeOK
  <1>3. ASSUME RecordDies
        PROVE  TypeOK'
    <2>1. saved' \in Ledger /\ kind' \in {"absent", "ok", "torn"} /\ faults' \in 0..MaxFaults
      BY <1>3, RecordedLedger, WrittenFile DEF RecordDies
    <2> QED
      BY <1>3, <2>1, EmptyLedger DEF RecordDies, TypeOK
  <1>4. ASSUME Dies
        PROVE  TypeOK'
    BY <1>4, EmptyLedger DEF Dies, TypeOK
  <1>5. ASSUME NextDay
        PROVE  TypeOK'
    BY <1>5 DEF NextDay, TypeOK, Days
  <1>6. CASE UNCHANGED vars
    BY <1>6 DEF vars, TypeOK
  <1> QED
    BY <1>1, <1>2, <1>3, <1>4, <1>5, <1>6 DEF Next

\* Every state is well typed: no entry of the ledger, in memory or in the file, is
\* negative, and no more writes go wrong than the bound allows.
THEOREM LedgerTypeCorrect == Spec => []TypeOK
  BY TypeInit, TypeStep, PTL DEF Spec

-----------------------------------------------------------------------------
(* The daily cap.                                                          *)

LEMMA CapInit == Init => IInv
  <1> SUFFICES ASSUME Init
               PROVE  IInv
    OBVIOUS
  <1>1. \A d \in Days : made[d] <= DailyCap
    BY DEF Init, Empty
  <1> QED
    BY <1>1, TypeInit DEF Init, IInv, DailyCapHeld, CountedInv

LEMMA CapStep == IInv /\ [Next]_vars => IInv'
  <1> SUFFICES ASSUME IInv, [Next]_vars
               PROVE  IInv'
    OBVIOUS
  <1> USE DEF DailyCapHeld, CountedInv
  <1>0. TypeOK /\ TypeOK' /\ DailyCapHeld /\ CountedInv
    BY TypeStep DEF IInv
  <1>1. ASSUME Boot
        PROVE  DailyCapHeld' /\ CountedInv'
    <2>1. made' = made /\ session' = day /\ day \in Days /\ (~forgotten' => ~forgotten)
      BY <1>1, <1>0 DEF Boot, TypeOK
    <2>2. ASSUME ~forgotten', day \in Business
          PROVE  trades'[day] >= made[day]
      <3>1. CASE kind = "torn"
        <4>1. trades' = Unreadable
          BY <1>1, <3>1 DEF Boot
        <4> QED
          BY <4>1, <1>0, <2>1, <2>2, UnreadableLedger DEF TypeOK, Ledger
      <3>2. CASE kind # "torn"
        <4>1. \A d \in Window(day, 5) : ~(trades'[d] < made[d])
          BY <1>1, <2>2, <3>2 DEF Boot
        <4>2. day \in Window(day, 5)
          BY <2>2, WindowHasItsEnd
        <4> QED
          BY <4>1, <4>2, <1>0, <2>1 DEF TypeOK, Ledger
      <3> QED
        BY <3>1, <3>2
    <2> QED
      BY <1>0, <2>1, <2>2
  <1>2. ASSUME Record
        PROVE  DailyCapHeld' /\ CountedInv'
    <2>1. /\ up /\ day = session /\ session \in Business /\ trades[session] < DailyCap
          /\ trades' = Recorded /\ made' = [made EXCEPT ![day] = @ + 1]
          /\ session' = session /\ forgotten' = forgotten
      BY <1>2 DEF Record, MayApprove, UsedToday
    <2>2. trades'[session] = trades[session] + 1
      BY <1>0, <2>1, RecordedLedger
    <2> QED
      BY <1>0, <2>1, <2>2 DEF TypeOK, Ledger
  <1>3. ASSUME RecordDies
        PROVE  DailyCapHeld' /\ CountedInv'
    BY <1>0, <1>3 DEF RecordDies
  <1>4. ASSUME Dies
        PROVE  DailyCapHeld' /\ CountedInv'
    BY <1>0, <1>4 DEF Dies
  <1>5. ASSUME NextDay
        PROVE  DailyCapHeld' /\ CountedInv'
    BY <1>0, <1>5 DEF NextDay
  <1>6. CASE UNCHANGED vars
    BY <1>0, <1>6 DEF vars, IInv
  <1> QED
    BY <1>0, <1>1, <1>2, <1>3, <1>4, <1>5, <1>6 DEF Next, IInv

\* No day sees more approvals than the cap, over any number of restarts, torn files
\* and failed writes, unless a boot read a ledger that lacked an approval.
THEOREM DailyCapTheorem == Spec => []DailyCapHeld
  <1>1. IInv => DailyCapHeld
    BY DEF IInv
  <1> QED
    BY CapInit, CapStep, <1>1, PTL DEF Spec

-----------------------------------------------------------------------------
(* The rolling budget.                                                     *)

\* Nothing is approved in advance.
KnownInv == \A d \in Days : d > day => made[d] = 0

\* The ledger in memory counts at least the approvals of the five business days up
\* to its session, or is full.
WindowInv ==
    up /\ ~forgotten =>
        \/ \A d \in Window(session, 5) : trades[d] >= made[d]
        \/ trades[session] >= DayTradesPer5d

RInv == TypeOK /\ KnownInv /\ WindowInv /\ RollingBudgetHeld

LEMMA WindowFinite ==
    ASSUME NEW d \in Days, NEW n \in Nat
    PROVE  Window(d, n) \subseteq Days /\ IsFiniteSet(Window(d, n))
  <1>1. Window(d, n) \subseteq Days /\ IsFiniteSet(Days)
    BY FS_Interval DEF Window, Business, Days
  <1> QED
    BY <1>1, FS_Subset

\* The business days after a day, up to a later end, are more than up to an earlier one.
LEMMA AfterGrows ==
    ASSUME NEW d \in Days, NEW s \in Days, NEW end \in Days, s <= end
    PROVE  LET before == {e \in Business : d < e /\ e <= s}
               after  == {e \in Business : d < e /\ e <= end}
           IN  /\ Cardinality(before) \in Nat /\ Cardinality(after) \in Nat
               /\ Cardinality(before) <= Cardinality(after)
  <1> DEFINE before == {e \in Business : d < e /\ e <= s}
             after  == {e \in Business : d < e /\ e <= end}
  <1>0. IsFiniteSet(Days) /\ s \in Int /\ end \in Int /\ \A e \in Days : e \in Int
    BY FS_Interval DEF Days
  <1>1. IsFiniteSet(Days) /\ after \subseteq Days /\ before \subseteq after
    <2>1. after \subseteq Days
      BY DEF Business
    <2>2. ASSUME NEW e \in before
          PROVE  e \in after
      <3>1. e \in Days /\ e \in Business /\ d < e /\ e <= s
        BY <2>2 DEF Business
      <3>2. e <= end
        BY <1>0, <3>1
      <3> QED
        BY <3>1, <3>2
    <2> QED
      BY <1>0, <2>1, <2>2
  <1>2. IsFiniteSet(after) /\ IsFiniteSet(before)
    BY <1>1, FS_Subset
  <1>3. Cardinality(before) <= Cardinality(after)
    BY <1>1, <1>2, FS_Subset
  <1> QED
    BY <1>2, <1>3, FS_CardinalityType

\* What a later window has of the days up to s is in the window of s.
LEMMA WindowMoves ==
    ASSUME NEW s \in Days, NEW end \in Days, s <= end, NEW d \in Window(end, 5), d <= s
    PROVE  d \in Window(s, 5)
  <1> DEFINE before == {e \in Business : d < e /\ e <= s}
             after  == {e \in Business : d < e /\ e <= end}
  <1>1. d \in Business /\ d \in Days /\ Cardinality(after) < 5
    BY DEF Window, Business
  <1>2. /\ Cardinality(before) \in Nat /\ Cardinality(after) \in Nat
        /\ Cardinality(before) <= Cardinality(after)
    BY <1>1, AfterGrows
  <1>3. Cardinality(before) < 5
    <2> HIDE DEF before, after
    <2> QED
      BY <1>1, <1>2
  <1> QED
    BY <1>1, <1>3 DEF Window

\* The days kept in the file include the window.
LEMMA WindowKept ==
    ASSUME NEW s \in Days, NEW d \in Window(s, 5)
    PROVE  d \in Window(s, 10)
  <1>1. d \in Business /\ d \in Days /\ d <= s
    BY DEF Window, Business
  <1>2. Cardinality({e \in Business : d < e /\ e <= s}) \in Nat
    BY <1>1, AfterGrows
  <1>3. Cardinality({e \in Business : d < e /\ e <= s}) < 5
    BY DEF Window
  <1>4. Cardinality({e \in Business : d < e /\ e <= s}) < 10
    BY <1>2, <1>3
  <1> QED
    BY <1>1, <1>4 DEF Window

LEMMA KnownStep == TypeOK /\ KnownInv /\ [Next]_vars => KnownInv'
  <1> SUFFICES ASSUME TypeOK, KnownInv, [Next]_vars
               PROVE  KnownInv'
    OBVIOUS
  <1>1. CASE Record
    <2>1. day' = day /\ \A d \in Days : d # day => made'[d] = made[d]
      BY <1>1 DEF Record, TypeOK, Ledger
    <2>2. day \in Int /\ \A d \in Days : d \in Int
      BY DEF TypeOK, Days
    <2> QED
      BY <2>1, <2>2 DEF KnownInv
  <1>2. CASE NextDay
    <2>1. day' = day + 1 /\ made' = made
      BY <1>2 DEF NextDay
    <2>2. day \in Int /\ \A d \in Days : d \in Int
      BY DEF TypeOK, Days
    <2> QED
      BY <2>1, <2>2 DEF KnownInv
  <1>3. CASE Boot \/ RecordDies \/ Dies \/ UNCHANGED vars
    BY <1>3 DEF Boot, RecordDies, Dies, vars, KnownInv
  <1> QED
    BY <1>1, <1>2, <1>3 DEF Next

LEMMA WindowStep == TypeOK /\ WindowInv /\ [Next]_vars => WindowInv'
  <1> SUFFICES ASSUME TypeOK, WindowInv, [Next]_vars, up', ~forgotten'
               PROVE  \/ \A d \in Window(session', 5) : trades'[d] >= made'[d]
                      \/ trades'[session'] >= DayTradesPer5d
    BY DEF WindowInv, Window, Business, Days
  <1>0. day \in Days /\ session \in Days /\ trades \in Ledger /\ made \in Ledger
    BY DEF TypeOK
  <1>1. CASE Boot
    <2>1. made' = made /\ session' = day
      BY <1>1 DEF Boot
    <2>2. CASE kind = "torn"
      <3>1. trades'[day] = Unreadable[day]
        BY <1>1, <2>2 DEF Boot
      <3>2. Unreadable[day] >= DayTradesPer5d
        BY <1>0 DEF Unreadable, Empty
      <3> QED
        BY <2>1, <3>1, <3>2
    <2>3. CASE kind # "torn"
      <3>1. \A d \in Window(day, 5) : ~(trades'[d] < made[d])
        BY <1>1, <2>3 DEF Boot
      <3>2. \A d \in Window(day, 5) : trades'[d] \in Nat /\ made[d] \in Nat
        <4>1. trades' \in Ledger /\ made \in Ledger
          BY TypeStep DEF TypeOK, Ledger, Days
        <4> QED
          BY <1>0, <4>1, WindowFinite DEF Ledger
      <3> QED
        BY <2>1, <3>1, <3>2
    <2> QED
      BY <2>2, <2>3
  <1>2. CASE Record
    <2>1. /\ up /\ ~forgotten /\ day = session /\ session \in Business /\ session' = session
          /\ trades' = Recorded /\ made' = [made EXCEPT ![session] = @ + 1]
      BY <1>2 DEF Record, MayApprove
    <2>2. ASSUME NEW d \in Window(session, 5), trades[d] >= made[d]
          PROVE  trades'[d] >= made'[d]
      <3>1. d \in Window(session, 10) /\ d \in Days
        BY <1>0, WindowKept, WindowFinite
      <3>2. trades'[d] = trades[d] + (IF d = session THEN 1 ELSE 0)
        BY <2>1, <3>1 DEF Recorded
      <3>3. made'[d] = made[d] + (IF d = session THEN 1 ELSE 0)
        BY <1>0, <2>1, <3>1 DEF Ledger
      <3>4. trades[d] \in Nat /\ made[d] \in Nat
        BY <1>0, <3>1 DEF Ledger
      <3> QED
        BY <2>2, <3>2, <3>3, <3>4
    <2>3. ASSUME trades[session] >= DayTradesPer5d
          PROVE  trades'[session] >= DayTradesPer5d
      <3>1. trades'[session] = trades[session] + 1
        BY <2>1, RecordedLedger
      <3>2. trades[session] \in Nat
        BY <1>0 DEF Ledger
      <3> QED
        BY <2>3, <3>1, <3>2
    <2> QED
      BY <2>1, <2>2, <2>3 DEF WindowInv
  <1>3. CASE RecordDies \/ Dies
    BY <1>3 DEF RecordDies, Dies
  <1>4. CASE NextDay \/ UNCHANGED vars
    BY <1>4 DEF NextDay, vars, WindowInv
  <1> QED
    BY <1>1, <1>2, <1>3, <1>4 DEF Next

LEMMA BudgetStep ==
    TypeOK /\ KnownInv /\ WindowInv /\ RollingBudgetHeld /\ [Next]_vars => RollingBudgetHeld'
  <1> SUFFICES ASSUME TypeOK, KnownInv, WindowInv, RollingBudgetHeld, [Next]_vars,
                      MarginSmall, ~forgotten', NEW end \in Days
               PROVE  Total(made', Window(end, 5)) <= DayTradesPer5d
    BY DEF RollingBudgetHeld, Window, Business, Days
  <1>0. /\ session \in Days /\ trades \in Ledger /\ made \in Ledger
        /\ DayTradesPer5d \in Nat
    BY DEF TypeOK
  <1>1. CASE Boot \/ RecordDies \/ Dies \/ NextDay \/ UNCHANGED vars
    BY <1>1 DEF Boot, RecordDies, Dies, NextDay, vars, RollingBudgetHeld
  <1>2. CASE Record
    <2> DEFINE W == Window(session, 5)
               V == Window(end, 5)
    <2>1. /\ up /\ ~forgotten /\ day = session /\ session \in Business
          /\ Total(trades, W) < DayTradesPer5d
          /\ made' = [made EXCEPT ![session] = @ + 1]
      BY <1>2 DEF Record, MayApprove, Allows, UsedInWindow
    <2>2. IsFiniteSet(W) /\ W \subseteq Days /\ IsFiniteSet(V) /\ V \subseteq Days
      BY <1>0, WindowFinite
    <2>3. session \in W
      BY <2>1, WindowHasItsEnd
    <2>4. made' \in Ledger
      BY <1>0, <2>1 DEF Ledger
    <2>5. \A d \in Days : made'[d] = made[d] + (IF d = session THEN 1 ELSE 0)
      BY <1>0, <2>1 DEF Ledger
    <2>6. \A d \in Days : trades[d] \in Nat /\ made[d] \in Nat /\ made'[d] \in Nat
      BY <1>0, <2>4 DEF Ledger
    <2> HIDE DEF W, V
    <2>7. CASE end < session
      <3>1. session \notin V
        <4>1. \A d \in V : d <= end
          BY DEF V, Window
        <4>2. session \in Int /\ end \in Int
          BY <1>0 DEF Days
        <4> QED
          BY <2>7, <4>1, <4>2
      <3>2. \A d \in V : made'[d] <= made[d] + (IF d = session THEN 1 ELSE 0)
        BY <2>2, <2>5, <2>6
      <3>3. Total(made', V) <= Total(made, V) + 0
        BY <2>2, <2>6, <3>1, <3>2, TotalGrows
      <3>4. Total(made, V) \in Nat /\ Total(made', V) \in Nat
        BY <2>2, <2>6, TotalTyped
      <3>5. Total(made, V) <= DayTradesPer5d
        BY <2>1 DEF RollingBudgetHeld, V
      <3> QED
        BY <1>0, <3>3, <3>4, <3>5 DEF V
    <2>8. CASE session <= end
      <3>1. \A d \in W : trades[d] >= made[d]
        <4>1. ASSUME trades[session] >= DayTradesPer5d
              PROVE  FALSE
          <5>1. /\ Total(trades, W) = trades[session] + Total(trades, W \ {session})
                /\ Total(trades, W \ {session}) \in Nat
            BY <2>2, <2>3, <2>6, TotalTakes
          <5> QED
            BY <1>0, <2>1, <2>6, <4>1, <5>1
        <4> QED
          BY <2>1, <4>1 DEF WindowInv, W
      <3>2. \A d \in W : made'[d] <= trades[d] + (IF d = session THEN 1 ELSE 0)
        BY <2>2, <2>5, <2>6, <3>1
      <3>3. Total(made', W) <= Total(trades, W) + 1
        BY <2>2, <2>3, <2>6, <3>2, TotalGrows
      <3>4. ASSUME NEW d \in V \ W
            PROVE  made'[d] = 0
        <4>1. d \in Days /\ ~(d <= session)
          BY <1>0, <2>2, <2>8, <3>4, WindowMoves DEF V, W
        <4>2. d > day /\ d # session
          BY <1>0, <2>1, <4>1 DEF Days
        <4>3. made[d] = 0
          BY <4>1, <4>2 DEF KnownInv
        <4> QED
          BY <2>5, <4>1, <4>2, <4>3
      <3>5. Total(made', V) <= Total(made', W)
        BY <2>2, <2>6, <3>4, TotalWithin
      <3>6. Total(made', V) \in Nat /\ Total(made', W) \in Nat /\ Total(trades, W) \in Nat
        BY <2>2, <2>6, TotalTyped
      <3> QED
        BY <1>0, <2>1, <3>3, <3>5, <3>6 DEF V
    <2> QED
      BY <1>0, <2>7, <2>8 DEF Days
  <1> QED
    BY <1>1, <1>2 DEF Next

LEMMA BudgetInit == Init => RInv
  <1> SUFFICES ASSUME Init
               PROVE  RInv
    OBVIOUS
  <1>1. TypeOK /\ KnownInv /\ WindowInv
    BY TypeInit DEF Init, KnownInv, WindowInv, Empty
  <1>2. ASSUME NEW d \in Days
        PROVE  Total(made, Window(d, 5)) <= DayTradesPer5d
    <2>1. IsFiniteSet(Window(d, 5)) /\ \A e \in Window(d, 5) : made[e] = 0
      BY WindowFinite DEF Init, Empty
    <2>2. Total(made, Window(d, 5)) <= Total(made, {})
      BY <2>1, TotalWithin, FS_EmptySet
    <2>3. Total(made, {}) = 0
      BY TotalUnfolds, FS_EmptySet
    <2>4. Total(made, Window(d, 5)) \in Nat /\ DayTradesPer5d \in Nat
      BY <2>1, TotalTyped, BudgetAssumption
    <2> QED
      BY <2>2, <2>3, <2>4
  <1> QED
    BY <1>1, <1>2 DEF RInv, RollingBudgetHeld

\* On a small margin account no five business days in a row, over weekends, restarts
\* and torn files, see more approvals than the budget, under the same condition.
THEOREM RollingBudgetTheorem == Spec => []RollingBudgetHeld
  <1>1. RInv /\ [Next]_vars => RInv'
    BY TypeStep, KnownStep, WindowStep, BudgetStep DEF RInv
  <1>2. RInv => RollingBudgetHeld
    BY DEF RInv
  <1> QED
    BY BudgetInit, <1>1, <1>2, PTL DEF Spec

=============================================================================
