------------------------ MODULE TradingRuntimeProofs ------------------------
(***************************************************************************)
(* Proofs, for any concurrency cap, any number of approvals and any number  *)
(* of process deaths, of what the runtime keeps of its positions.           *)
(***************************************************************************)
EXTENDS TradingRuntime, FiniteSetTheorems, TLAPS

\* The working order is the last approval's, not yet filled, and its entry is
\* awaited; nothing was ever sent for an approval that was not given.
OrderInv ==
    /\ order # 0 => order = used /\ held[order] = "none"
    /\ \A t \in Trades : t > used => held[t] = "none"
    /\ entering => used > 0
    /\ up /\ ~dying /\ ~review /\ order # 0 => entering

\* What is tracked is live, and the risk task closes only what is tracked.
LoopInv ==
    /\ tracked \subseteq OpenAtBroker
    /\ queue \subseteq tracked
    /\ risk = "close" => closing \in tracked \ queue

\* A lockout is durable, and no process is armed over it.
LockInv ==
    /\ review => locked
    /\ up /\ locked => bstate # "ARMED"

\* NoOrphans, also while the risk task holds the loop.
OrphanInv ==
    up /\ ~dying /\ ~review =>
        \A t \in OpenAtBroker : t \in tracked \/ (entering /\ t = used)

\* No entry is worked at force-flat time, and only a machine that is flattening
\* for it is armed.
DayInv ==
    /\ entering \/ order # 0 => phase \in {"window", "late"}
    /\ mstate = "FLATTENING" /\ bstate = "ARMED" => phase = "flat"
    /\ mstate = "END_OF_DAY" => tracked = {} /\ ~entering

IInv == TypeOK /\ OrderInv /\ LoopInv /\ LockInv /\ OrphanInv /\ DayInv /\ ConcurrencyCap

-----------------------------------------------------------------------------
USE RuntimeAssumption

(* The steps, by what they do to the state. *)

\* A transition goes where it is asked to, or nowhere.
LEMMA Moves ==
    ASSUME NEW to, Transition(to)
    PROVE  mstate' = to \/ mstate' = mstate
  BY DEF Transition

ClockStep == OpenRange \/ StartScanning \/ ForceFlat \/ FinishFlat

\* The clock only moves the machine.
LEMMA ClockMoves ==
    ASSUME ClockStep
    PROVE  /\ UNCHANGED <<phase, bstate, tracked, locked, used, logLost, entering, latched,
                          risk, queue, closing, order, held, up, dying, stops, adopted,
                          review, shadows>>
           /\ \/ mstate' = mstate
              \/ mstate' \in {"OPENING_RANGE", "SCANNING"}
              \/ mstate' = "FLATTENING" /\ phase = "flat"
              \/ mstate' = "END_OF_DAY" /\ phase = "flat" /\ tracked = {}
  BY Moves DEF ClockStep, OpenRange, StartScanning, ForceFlat, FinishFlat, AtForceFlat,
     Ticks, signal, exits, outside, process, life

\* A boot that finds a lockout is locked, one that makes one is tripped; one that asks for no
\* review has swept the orders and adopted every position.
LEMMA BootSets ==
    ASSUME TypeOK, NEW swept \in BOOLEAN, NEW adopt \in SUBSET OpenAtBroker, Boot(swept, adopt)
    PROVE  /\ ~up /\ up' = TRUE /\ dying' = FALSE
           /\ UNCHANGED <<phase, used, held, stops>>
           /\ tracked' = adopt /\ adopted' = adopt
           /\ entering' = FALSE /\ latched' = FALSE /\ logLost' = FALSE
           /\ shadows' = "none" /\ risk' = "sleep" /\ queue' = {} /\ closing' = 0
           /\ order' \in {0, order}
           /\ locked' \in BOOLEAN /\ review' \in BOOLEAN
           /\ bstate' \in {"ARMED", "TRIPPED", "LOCKED"}
           /\ mstate' \in {"PRE_MARKET", "LOCKED_OUT"}
           /\ locked' => bstate' # "ARMED"
           /\ locked => bstate' = "LOCKED"
           /\ locked' /\ ~locked => bstate' = "TRIPPED"
           /\ review' => review \/ locked'
           /\ locked => locked'
           /\ ~review' => ~review /\ order' = 0 /\ adopt = OpenAtBroker
  <1> DEFINE kill == ~swept \/ adopt # OpenAtBroker
  <1>1. /\ ~up /\ up' = TRUE /\ dying' = FALSE
        /\ UNCHANGED <<phase, used, held, stops>>
        /\ tracked' = adopt /\ adopted' = adopt
        /\ entering' = FALSE /\ latched' = FALSE /\ logLost' = FALSE
        /\ shadows' = "none" /\ risk' = "sleep" /\ queue' = {} /\ closing' = 0
        /\ order' \in {0, order} /\ mstate' \in {"PRE_MARKET", "LOCKED_OUT"}
    BY DEF Boot
  <1>2. /\ bstate' = BootState(kill)
        /\ locked' = (locked \/ kill)
        /\ review' = (review \/ kill)
    BY DEF Boot
  <1> HIDE DEF kill
  <1>3. /\ bstate' \in {"ARMED", "TRIPPED", "LOCKED"} /\ (locked \/ kill => bstate' # "ARMED")
        /\ locked => bstate' = "LOCKED"
        /\ kill /\ ~locked => bstate' = "TRIPPED"
    BY <1>2 DEF TypeOK, BootState
  <1>4. (locked' <=> locked \/ kill) /\ (review' <=> review \/ kill)
    BY <1>2
  <1>5. locked' \in BOOLEAN /\ review' \in BOOLEAN
    BY <1>2, Zenon
  <1>6. ~kill => order' = 0 /\ adopt = OpenAtBroker
    BY DEF Boot, kill
  <1> QED
    BY <1>1, <1>3, <1>4, <1>5, <1>6

\* The memory of the process goes with it, and nothing else.
LEMMA DeathSets ==
    ASSUME Dies \/ Crash
    PROVE  /\ up' = FALSE /\ dying' = FALSE /\ mstate' = "BOOT" /\ bstate' = "ARMED"
           /\ latched' = FALSE /\ tracked' = {} /\ entering' = FALSE
           /\ risk' = "sleep" /\ queue' = {} /\ closing' = 0
           /\ adopted' = {} /\ logLost' = FALSE /\ shadows' = "none"
           /\ UNCHANGED <<phase, locked, used, order, held, review>>
           /\ stops' = stops \/ (stops < MaxStops /\ stops' = stops + 1)
  BY DEF Dies, Crash, Gone, outside

\* Only an armed breaker is tripped, and its lockout is on disk then.
LEMMA Trips ==
    ASSUME TypeOK, TripBreaker
    PROVE  /\ bstate' \in {"TRIPPED", "LOCKED"} /\ locked' \in BOOLEAN
           /\ locked => locked'
           /\ bstate # "ARMED" => bstate' = bstate
  <1>1. bstate' \in {"TRIPPED", "LOCKED"} /\ (bstate # "ARMED" => bstate' = bstate)
    BY DEF TypeOK, TripBreaker
  <1>2. locked' = (locked \/ bstate = "ARMED")
    BY DEF TripBreaker
  <1>3. locked' \in BOOLEAN
    BY <1>2, Zenon
  <1> QED
    BY <1>1, <1>2, <1>3

ShadowStep == ShadowOpens \/ \E trips \in BOOLEAN : RiskTickFails(trips)

\* A shadow that opens, and a tick that ends at one, leave everything as it is but
\* for a trip.
LEMMA ShadowMoves ==
    ASSUME TypeOK, ShadowStep
    PROVE  /\ UNCHANGED <<phase, tracked, used, logLost, mstate, entering, latched, risk,
                          queue, closing, order, held, up, dying, stops, adopted, review>>
           /\ shadows' \in {"open", "stuck"}
           /\ bstate' \in {"ARMED", "TRIPPED", "LOCKED"} /\ locked' \in BOOLEAN
           /\ bstate' = "ARMED" => bstate = "ARMED" /\ (locked' => locked)
           /\ locked => locked'
  <1> USE DEF signal, exits, outside, life
  <1> DEFINE kept == UNCHANGED <<phase, tracked, used, logLost, mstate, entering, latched, risk,
                                 queue, closing, order, held, up, dying, stops, adopted, review>>
             safe == /\ bstate' \in {"ARMED", "TRIPPED", "LOCKED"} /\ locked' \in BOOLEAN
                     /\ bstate' = "ARMED" => bstate = "ARMED" /\ (locked' => locked)
                     /\ locked => locked'
  <1>1. /\ kept /\ shadows' \in {"open", "stuck"}
        /\ TripBreaker \/ UNCHANGED <<bstate, locked>>
    <2>1. CASE ShadowOpens
      BY <2>1 DEF ShadowOpens
    <2>2. ASSUME NEW trips \in BOOLEAN, RiskTickFails(trips)
          PROVE  /\ kept /\ shadows' = "stuck"
                 /\ TripBreaker \/ UNCHANGED <<bstate, locked>>
      BY <2>2 DEF RiskTickFails, EquityFetched
    <2> QED
      BY <2>1, <2>2 DEF ShadowStep
  <1>2. CASE TripBreaker
    BY <1>1, <1>2, Trips
  <1>3. CASE UNCHANGED <<bstate, locked>>
    <2>1. safe
      BY <1>3 DEF TypeOK
    <2> QED
      BY <1>1, <2>1
  <1> QED
    BY <1>1, <1>2, <1>3

-----------------------------------------------------------------------------
(* Types.                                                                  *)

\* Every action keeps the types, from what OrderInv and LoopInv say of the trade
\* whose entry or close is awaited.
LEMMA TypeStep == TypeOK /\ OrderInv /\ LoopInv /\ [Next]_vars => TypeOK'
  <1> SUFFICES ASSUME TypeOK, OrderInv, LoopInv, [Next]_vars
               PROVE  TypeOK'
    OBVIOUS
  <1> USE DEF signal, exits, outside, process, life
  <1>1. ASSUME NEW swept \in BOOLEAN, NEW adopt \in SUBSET OpenAtBroker, Boot(swept, adopt)
        PROVE  TypeOK'
    <2>1. adopt \subseteq Trades
      BY DEF OpenAtBroker
    <2> QED
      BY <1>1, <2>1, BootSets DEF TypeOK, States
  <1>2. CASE ClockStep
    BY <1>2, ClockMoves DEF TypeOK, States
  <1>3. CASE Approve
    <2>1. used + 1 \in Trades
      BY <1>3 DEF Approve, Approvable, TypeOK, Trades
    <2>2. mstate' \in States
      BY <1>3, Moves DEF Approve, TypeOK, States
    <2> QED
      BY <1>3, <2>1, <2>2 DEF Approve, TypeOK, Trades
  <1>4. CASE OrderFills
    BY <1>4 DEF OrderFills, TypeOK
  <1>5. ASSUME NEW logged \in BOOLEAN, EnterFilled(logged)
        PROVE  TypeOK'
    <2>1. used \in Trades
      BY <1>5 DEF EnterFilled, OrderInv, TypeOK, Trades
    <2>2. mstate' \in States
      BY <1>5, Moves DEF EnterFilled, TypeOK, States
    <2>3. logLost' \in BOOLEAN
      BY <1>5 DEF EnterFilled, TypeOK
    <2>4. tracked' = tracked \cup {used} /\ entering' = FALSE
      BY <1>5 DEF EnterFilled
    <2>5. UNCHANGED <<phase, bstate, locked, used, latched, exits, outside, process>>
      BY <1>5 DEF EnterFilled
    <2> QED
      BY <2>1, <2>2, <2>3, <2>4, <2>5 DEF TypeOK
  <1>6. ASSUME NEW logged \in BOOLEAN, NEW latch \in BOOLEAN, EnterUnfilled(latch, logged)
        PROVE  TypeOK'
    <2>1. mstate' \in States
      BY <1>6, Moves DEF EnterUnfilled, TypeOK, States
    <2>2. logLost' \in BOOLEAN /\ latched' \in BOOLEAN
      BY <1>6 DEF EnterUnfilled, TypeOK
    <2>3. order' = 0 /\ entering' = FALSE
      BY <1>6 DEF EnterUnfilled
    <2>4. UNCHANGED <<phase, bstate, tracked, locked, used, exits, held, process>>
      BY <1>6 DEF EnterUnfilled
    <2> QED
      BY <2>1, <2>2, <2>3, <2>4 DEF TypeOK
  <1>7. ASSUME NEW trips \in BOOLEAN, NEW decided \in SUBSET tracked, RiskTick(trips, decided)
        PROVE  TypeOK'
    <2>1. bstate' \in {"ARMED", "TRIPPED", "LOCKED"} /\ locked' \in BOOLEAN
      BY <1>7, Trips DEF RiskTick, EquityFetched, TypeOK
    <2> QED
      BY <1>7, <2>1 DEF RiskTick, EquityFetched, TypeOK
  <1>8. ASSUME NEW t \in Trades, ExitRefused(t)
        PROVE  TypeOK'
    <2>1. mstate' \in States
      BY <1>8, Moves DEF ExitRefused, TypeOK, States
    <2> QED
      BY <1>8, <2>1 DEF ExitRefused, TypeOK
  <1>9. ASSUME NEW t \in Trades, NEW quoted \in BOOLEAN, ExitStarts(t, quoted)
        PROVE  TypeOK'
    <2>1. mstate' \in States
      BY <1>9, Moves DEF ExitStarts, TypeOK, States
    <2>2. risk' \in {"sleep", "loop", "close"} /\ closing' \in Trades \cup {0}
      BY <1>9 DEF ExitStarts
    <2> QED
      BY <1>9, <2>1, <2>2 DEF ExitStarts, TypeOK
  <1>10. CASE CloseFilled
    <2>1. closing \in Trades
      BY <1>10 DEF CloseFilled, LoopInv, TypeOK
    <2>2. bstate' \in {"ARMED", "TRIPPED", "LOCKED"}
      BY <1>10 DEF CloseFilled, TypeOK
    <2>3. held' \in [Trades -> {"none", "open", "closed"}]
      BY <1>10, <2>1 DEF CloseFilled, TypeOK
    <2> QED
      BY <1>10, <2>2, <2>3 DEF CloseFilled, TypeOK
  <1>11. CASE CloseUnfilled
    BY <1>11 DEF CloseUnfilled, TypeOK
  <1>12. CASE RiskTail
    <2>1. mstate' \in States
      BY <1>12, Moves DEF RiskTail, TypeOK, States
    <2> QED
      BY <1>12, <2>1 DEF RiskTail, TypeOK
  <1>13. CASE TimePasses
    BY <1>13 DEF TimePasses, TypeOK, Phases
  <1>14. CASE Stop
    <2>1. stops' \in 0..MaxStops
      BY <1>14 DEF Stop, TypeOK
    <2>2. bstate' \in {"ARMED", "TRIPPED", "LOCKED"} /\ locked' \in BOOLEAN
      BY <1>14, Trips DEF Stop
    <2> QED
      BY <1>14, <2>1, <2>2 DEF Stop, TypeOK
  <1>15. CASE Dies \/ Crash
    <2>1. stops' = stops \/ (stops < MaxStops /\ stops' = stops + 1)
      BY <1>15, DeathSets
    <2>2. stops' \in 0..MaxStops
      BY <2>1 DEF TypeOK
    <2> QED
      BY <1>15, <2>2, DeathSets DEF TypeOK, States
  <1>16. CASE UNCHANGED vars
    BY <1>16 DEF vars, TypeOK
  <1>17. CASE ShadowStep
    BY <1>17, ShadowMoves DEF TypeOK
  <1> QED
    BY <1>1, <1>2, <1>3, <1>4, <1>5, <1>6, <1>7, <1>8, <1>9, <1>10, <1>11, <1>12, <1>13,
       <1>14, <1>15, <1>16, <1>17
    DEF Next, ClockStep, Boots, EntryReturns, RiskTicks, NextExit, ShadowStep

-----------------------------------------------------------------------------
(* What is known of the orders and the positions.                          *)

\* Every action keeps the working order the last approval's.
LEMMA OrderStep ==
    TypeOK /\ OrderInv /\ LoopInv /\ LockInv /\ [Next]_vars => OrderInv'
  <1> SUFFICES ASSUME TypeOK, OrderInv, LoopInv, LockInv, [Next]_vars
               PROVE  OrderInv'
    OBVIOUS
  <1> USE DEF signal, exits, outside, process, life
  <1>1. ASSUME NEW swept \in BOOLEAN, NEW adopt \in SUBSET OpenAtBroker, Boot(swept, adopt)
        PROVE  OrderInv'
    BY <1>1, BootSets DEF OrderInv
  <1>2. CASE ClockStep
    BY <1>2, ClockMoves DEF OrderInv
  <1>3. CASE Approve
    <2>1. /\ used' = used + 1 /\ order' = used + 1 /\ entering' = TRUE /\ held' = held
          /\ used + 1 \in Trades /\ used \in Nat
      BY <1>3 DEF Approve, Approvable, TypeOK, Trades
    <2>2. held[used + 1] = "none"
      BY <2>1 DEF OrderInv
    <2>3. \A t \in Trades : t > used + 1 => held[t] = "none"
      BY <2>1 DEF OrderInv, Trades
    <2> QED
      BY <2>1, <2>2, <2>3 DEF OrderInv
  <1>4. CASE OrderFills
    <2>1. order = used /\ order \in Trades
      BY <1>4 DEF OrderFills, OrderInv, TypeOK
    <2>2. \A t \in Trades : t > used => held'[t] = held[t]
      BY <1>4, <2>1 DEF OrderFills, TypeOK, Trades
    <2> QED
      BY <1>4, <2>2 DEF OrderFills, OrderInv
  <1>5. ASSUME NEW logged \in BOOLEAN, EnterFilled(logged)
        PROVE  OrderInv'
    <2>1. order = 0
      BY <1>5 DEF EnterFilled, OrderInv
    <2> QED
      BY <1>5, <2>1 DEF EnterFilled, OrderInv
  <1>6. ASSUME NEW logged \in BOOLEAN, NEW latch \in BOOLEAN, EnterUnfilled(latch, logged)
        PROVE  OrderInv'
    BY <1>6 DEF EnterUnfilled, OrderInv
  <1>7. ASSUME NEW trips \in BOOLEAN, NEW decided \in SUBSET tracked, RiskTick(trips, decided)
        PROVE  OrderInv'
    BY <1>7 DEF RiskTick, EquityFetched, OrderInv
  <1>8. ASSUME NEW t \in Trades, ExitRefused(t)
        PROVE  OrderInv'
    BY <1>8 DEF ExitRefused, OrderInv
  <1>9. ASSUME NEW t \in Trades, NEW quoted \in BOOLEAN, ExitStarts(t, quoted)
        PROVE  OrderInv'
    BY <1>9 DEF ExitStarts, OrderInv
  <1>10. CASE CloseFilled
    <2>1. closing \in Trades /\ held[closing] = "open"
      BY <1>10 DEF CloseFilled, LoopInv, OpenAtBroker
    <2>2. \A t \in Trades : t # closing => held'[t] = held[t]
      BY <1>10 DEF CloseFilled, TypeOK
    <2>3. order # 0 => order \in Trades /\ order # closing
      BY <2>1 DEF OrderInv, TypeOK
    <2>4. \A t \in Trades : t > used => t # closing
      BY <2>1 DEF OrderInv
    <2>5. UNCHANGED <<order, used, entering, up, dying, review>>
      BY <1>10 DEF CloseFilled
    <2> QED
      BY <2>2, <2>3, <2>4, <2>5 DEF OrderInv
  <1>11. CASE CloseUnfilled
    BY <1>11 DEF CloseUnfilled, OrderInv
  <1>12. CASE RiskTail
    BY <1>12 DEF RiskTail, OrderInv
  <1>13. CASE TimePasses
    BY <1>13 DEF TimePasses, OrderInv
  <1>14. CASE Stop
    BY <1>14 DEF Stop, OrderInv
  <1>15. CASE Dies \/ Crash
    BY <1>15, DeathSets DEF OrderInv
  <1>16. CASE UNCHANGED vars
    BY <1>16 DEF vars, OrderInv
  <1>17. CASE ShadowStep
    BY <1>17, ShadowMoves DEF OrderInv
  <1> QED
    BY <1>1, <1>2, <1>3, <1>4, <1>5, <1>6, <1>7, <1>8, <1>9, <1>10, <1>11, <1>12, <1>13,
       <1>14, <1>15, <1>16, <1>17
    DEF Next, ClockStep, Boots, EntryReturns, RiskTicks, NextExit, ShadowStep

\* Every action keeps what is tracked live, and what is being closed tracked.
LEMMA LoopStep ==
    TypeOK /\ OrderInv /\ LoopInv /\ [Next]_vars => LoopInv'
  <1> SUFFICES ASSUME TypeOK, OrderInv, LoopInv, [Next]_vars
               PROVE  LoopInv'
    OBVIOUS
  <1> USE DEF signal, exits, outside, process, life
  <1>1. ASSUME NEW swept \in BOOLEAN, NEW adopt \in SUBSET OpenAtBroker, Boot(swept, adopt)
        PROVE  LoopInv'
    BY <1>1, BootSets DEF LoopInv, OpenAtBroker
  <1>2. CASE ClockStep
    BY <1>2, ClockMoves DEF LoopInv, OpenAtBroker
  <1>3. CASE Approve
    BY <1>3 DEF Approve, LoopInv, OpenAtBroker
  <1>4. CASE OrderFills
    <2>1. \A t \in Trades : held[t] = "open" => held'[t] = "open"
      BY <1>4 DEF OrderFills, TypeOK
    <2> QED
      BY <1>4, <2>1 DEF OrderFills, LoopInv, OpenAtBroker
  <1>5. ASSUME NEW logged \in BOOLEAN, EnterFilled(logged)
        PROVE  LoopInv'
    <2>1. used \in OpenAtBroker
      BY <1>5 DEF EnterFilled, OrderInv, TypeOK, Trades, OpenAtBroker
    <2> QED
      BY <1>5, <2>1 DEF EnterFilled, LoopInv, OpenAtBroker
  <1>6. ASSUME NEW logged \in BOOLEAN, NEW latch \in BOOLEAN, EnterUnfilled(latch, logged)
        PROVE  LoopInv'
    BY <1>6 DEF EnterUnfilled, LoopInv, OpenAtBroker
  <1>7. ASSUME NEW trips \in BOOLEAN, NEW decided \in SUBSET tracked, RiskTick(trips, decided)
        PROVE  LoopInv'
    BY <1>7 DEF RiskTick, EquityFetched, LoopInv, OpenAtBroker
  <1>8. ASSUME NEW t \in Trades, ExitRefused(t)
        PROVE  LoopInv'
    BY <1>8 DEF ExitRefused, LoopInv, OpenAtBroker, Looping
  <1>9. ASSUME NEW t \in Trades, NEW quoted \in BOOLEAN, ExitStarts(t, quoted)
        PROVE  LoopInv'
    BY <1>9 DEF ExitStarts, LoopInv, OpenAtBroker
  <1>10. CASE CloseFilled
    <2>1. \A t \in Trades : t # closing => held'[t] = held[t]
      BY <1>10 DEF CloseFilled, TypeOK
    <2> QED
      BY <1>10, <2>1 DEF CloseFilled, LoopInv, OpenAtBroker
  <1>11. CASE CloseUnfilled
    BY <1>11 DEF CloseUnfilled, LoopInv, OpenAtBroker
  <1>12. CASE RiskTail
    BY <1>12 DEF RiskTail, LoopInv, OpenAtBroker
  <1>13. CASE TimePasses
    BY <1>13 DEF TimePasses, LoopInv, OpenAtBroker
  <1>14. CASE Stop
    BY <1>14 DEF Stop, LoopInv, OpenAtBroker
  <1>15. CASE Dies \/ Crash
    BY <1>15, DeathSets DEF LoopInv, OpenAtBroker
  <1>16. CASE UNCHANGED vars
    BY <1>16 DEF vars, LoopInv, OpenAtBroker
  <1>17. CASE ShadowStep
    BY <1>17, ShadowMoves DEF LoopInv, OpenAtBroker
  <1> QED
    BY <1>1, <1>2, <1>3, <1>4, <1>5, <1>6, <1>7, <1>8, <1>9, <1>10, <1>11, <1>12, <1>13,
       <1>14, <1>15, <1>16, <1>17
    DEF Next, ClockStep, Boots, EntryReturns, RiskTicks, NextExit, ShadowStep

\* Every action keeps the lockout it finds on disk, and what it rests on.
LEMMA LockStep ==
    TypeOK /\ LockInv /\ [Next]_vars => LockInv'
  <1> SUFFICES ASSUME TypeOK, LockInv, [Next]_vars
               PROVE  LockInv'
    OBVIOUS
  <1> USE DEF signal, exits, outside, process, life
  <1>1. ASSUME NEW swept \in BOOLEAN, NEW adopt \in SUBSET OpenAtBroker, Boot(swept, adopt)
        PROVE  LockInv'
    BY <1>1, BootSets DEF LockInv
  <1>2. CASE ClockStep
    BY <1>2, ClockMoves DEF LockInv
  <1>3. CASE Approve
    BY <1>3 DEF Approve, LockInv
  <1>4. CASE OrderFills
    BY <1>4 DEF OrderFills, LockInv
  <1>5. ASSUME NEW logged \in BOOLEAN, EnterFilled(logged)
        PROVE  LockInv'
    BY <1>5 DEF EnterFilled, LockInv
  <1>6. ASSUME NEW logged \in BOOLEAN, NEW latch \in BOOLEAN, EnterUnfilled(latch, logged)
        PROVE  LockInv'
    BY <1>6 DEF EnterUnfilled, LockInv
  <1>7. ASSUME NEW trips \in BOOLEAN, NEW decided \in SUBSET tracked, RiskTick(trips, decided)
        PROVE  LockInv'
    <2>1. CASE trips
      BY <1>7, <2>1, Trips DEF RiskTick, EquityFetched, LockInv
    <2>2. CASE ~trips
      BY <1>7, <2>2 DEF RiskTick, EquityFetched, LockInv
    <2> QED
      BY <2>1, <2>2
  <1>8. ASSUME NEW t \in Trades, ExitRefused(t)
        PROVE  LockInv'
    BY <1>8 DEF ExitRefused, LockInv
  <1>9. ASSUME NEW t \in Trades, NEW quoted \in BOOLEAN, ExitStarts(t, quoted)
        PROVE  LockInv'
    BY <1>9 DEF ExitStarts, LockInv
  <1>10. CASE CloseFilled
    <2>1. bstate' = bstate \/ bstate' = "LOCKED"
      BY <1>10 DEF CloseFilled
    <2> QED
      BY <1>10, <2>1 DEF CloseFilled, LockInv
  <1>11. CASE CloseUnfilled
    BY <1>11 DEF CloseUnfilled, LockInv
  <1>12. CASE RiskTail
    BY <1>12 DEF RiskTail, LockInv
  <1>13. CASE TimePasses
    BY <1>13 DEF TimePasses, LockInv
  <1>14. CASE Stop
    BY <1>14, Trips DEF Stop, LockInv
  <1>15. CASE Dies \/ Crash
    <2>1. up' = FALSE /\ review' = review /\ locked' = locked
      BY <1>15, DeathSets
    <2> QED
      BY <2>1 DEF LockInv
  <1>16. CASE UNCHANGED vars
    BY <1>16 DEF vars, LockInv
  <1>17. CASE ShadowStep
    BY <1>17, ShadowMoves DEF LockInv
  <1> QED
    BY <1>1, <1>2, <1>3, <1>4, <1>5, <1>6, <1>7, <1>8, <1>9, <1>10, <1>11, <1>12, <1>13,
       <1>14, <1>15, <1>16, <1>17
    DEF Next, ClockStep, Boots, EntryReturns, RiskTicks, NextExit, ShadowStep

\* Every action keeps each live position tracked, or its entry awaited.
LEMMA OrphanStep ==
    TypeOK /\ OrderInv /\ LoopInv /\ OrphanInv /\ [Next]_vars => OrphanInv'
  <1> SUFFICES ASSUME TypeOK, OrderInv, LoopInv, OrphanInv, [Next]_vars
               PROVE  OrphanInv'
    OBVIOUS
  <1> USE DEF signal, exits, outside, process, life
  <1>1. ASSUME NEW swept \in BOOLEAN, NEW adopt \in SUBSET OpenAtBroker, Boot(swept, adopt)
        PROVE  OrphanInv'
    BY <1>1, BootSets DEF OrphanInv, OpenAtBroker
  <1>2. CASE ClockStep
    <2>1. /\ UNCHANGED <<tracked, used, held>> /\ (entering' <=> entering)
          /\ (up' <=> up) /\ (dying' <=> dying) /\ (review' <=> review)
      BY <1>2, ClockMoves
    <2> QED
      BY <2>1 DEF OrphanInv, OpenAtBroker
  <1>3. CASE Approve
    BY <1>3 DEF Approve, Running, OrphanInv, OpenAtBroker
  <1>4. CASE OrderFills
    <2>1. order \in Trades /\ order = used
      BY <1>4 DEF OrderFills, OrderInv, TypeOK
    <2>2. \A t \in Trades : held'[t] = "open" => t = order \/ held[t] = "open"
      BY <1>4 DEF OrderFills, TypeOK
    <2>3. up /\ ~dying /\ ~review => entering
      BY <1>4 DEF OrderFills, OrderInv
    <2> QED
      BY <1>4, <2>1, <2>2, <2>3 DEF OrderFills, OrphanInv, OpenAtBroker
  <1>5. ASSUME NEW logged \in BOOLEAN, EnterFilled(logged)
        PROVE  OrphanInv'
    <2>1. tracked \cup {used} = tracked' /\ held' = held
      BY <1>5 DEF EnterFilled
    <2>2. (up' <=> up) /\ (dying' <=> dying) /\ (review' <=> review)
      BY <1>5 DEF EnterFilled
    <2> QED
      BY <2>1, <2>2 DEF OrphanInv, OpenAtBroker
  <1>6. ASSUME NEW logged \in BOOLEAN, NEW latch \in BOOLEAN, EnterUnfilled(latch, logged)
        PROVE  OrphanInv'
    <2>1. \A t \in OpenAtBroker : t # used
      BY <1>6 DEF EnterUnfilled, OpenAtBroker
    <2> QED
      BY <1>6, <2>1 DEF EnterUnfilled, OrphanInv, OpenAtBroker
  <1>7. ASSUME NEW trips \in BOOLEAN, NEW decided \in SUBSET tracked, RiskTick(trips, decided)
        PROVE  OrphanInv'
    BY <1>7 DEF RiskTick, EquityFetched, OrphanInv, OpenAtBroker
  <1>8. ASSUME NEW t \in Trades, ExitRefused(t)
        PROVE  OrphanInv'
    BY <1>8 DEF ExitRefused, OrphanInv, OpenAtBroker
  <1>9. ASSUME NEW t \in Trades, NEW quoted \in BOOLEAN, ExitStarts(t, quoted)
        PROVE  OrphanInv'
    BY <1>9 DEF ExitStarts, OrphanInv, OpenAtBroker
  <1>10. CASE CloseFilled
    <2>1. \A t \in Trades : held'[t] = "open" => t # closing /\ held[t] = "open"
      BY <1>10 DEF CloseFilled, TypeOK
    <2> QED
      BY <1>10, <2>1 DEF CloseFilled, OrphanInv, OpenAtBroker
  <1>11. CASE CloseUnfilled
    BY <1>11 DEF CloseUnfilled, OrphanInv, OpenAtBroker
  <1>12. CASE RiskTail
    BY <1>12 DEF RiskTail, OrphanInv, OpenAtBroker
  <1>13. CASE TimePasses
    BY <1>13 DEF TimePasses, OrphanInv, OpenAtBroker
  <1>14. CASE Stop
    BY <1>14 DEF Stop, OrphanInv, OpenAtBroker
  <1>15. CASE Dies \/ Crash
    BY <1>15, DeathSets DEF OrphanInv, OpenAtBroker
  <1>16. CASE UNCHANGED vars
    BY <1>16 DEF vars, OrphanInv, OpenAtBroker
  <1>17. CASE ShadowStep
    <2>1. UNCHANGED <<tracked, used, entering, held, up, dying, review>>
      BY <1>17, ShadowMoves
    <2> QED
      BY <2>1 DEF OrphanInv, OpenAtBroker
  <1> QED
    BY <1>1, <1>2, <1>3, <1>4, <1>5, <1>6, <1>7, <1>8, <1>9, <1>10, <1>11, <1>12, <1>13,
       <1>14, <1>15, <1>16, <1>17
    DEF Next, ClockStep, Boots, EntryReturns, RiskTicks, NextExit, ShadowStep

\* Every action keeps END_OF_DAY flat, and no entry at work at force-flat time.
LEMMA DayStep ==
    TypeOK /\ LoopInv /\ DayInv /\ [Next]_vars => DayInv'
  <1> SUFFICES ASSUME TypeOK, LoopInv, DayInv, [Next]_vars
               PROVE  DayInv'
    OBVIOUS
  <1> USE DEF signal, exits, outside, process, life
  <1>1. ASSUME NEW swept \in BOOLEAN, NEW adopt \in SUBSET OpenAtBroker, Boot(swept, adopt)
        PROVE  DayInv'
    BY <1>1, BootSets DEF DayInv
  <1>2. CASE ClockStep
    BY <1>2, ClockMoves DEF DayInv
  <1>3. CASE Approve
    <2>1. mstate' \in {"SCANNING", "ENTERING"} /\ phase = "window"
      BY <1>3, Moves DEF Approve, Approvable
    <2> QED
      BY <1>3, <2>1 DEF Approve, DayInv
  <1>4. CASE OrderFills
    BY <1>4 DEF OrderFills, DayInv
  <1>5. ASSUME NEW logged \in BOOLEAN, EnterFilled(logged)
        PROVE  DayInv'
    <2>1. mstate' = "MANAGING" \/ mstate' = mstate
      BY <1>5, Moves DEF EnterFilled
    <2> QED
      BY <1>5, <2>1 DEF EnterFilled, DayInv
  <1>6. ASSUME NEW logged \in BOOLEAN, NEW latch \in BOOLEAN, EnterUnfilled(latch, logged)
        PROVE  DayInv'
    <2>1. mstate' = "SCANNING" \/ mstate' = mstate
      BY <1>6, Moves DEF EnterUnfilled
    <2> QED
      BY <1>6, <2>1 DEF EnterUnfilled, DayInv
  <1>7. ASSUME NEW trips \in BOOLEAN, NEW decided \in SUBSET tracked, RiskTick(trips, decided)
        PROVE  DayInv'
    <2>1. bstate' = "ARMED" => bstate = "ARMED"
      BY <1>7, Trips DEF RiskTick, EquityFetched
    <2> QED
      BY <1>7, <2>1 DEF RiskTick, EquityFetched, DayInv
  <1>8. ASSUME NEW t \in Trades, ExitRefused(t)
        PROVE  DayInv'
    <2>1. mstate' = mstate
      BY <1>8 DEF ExitRefused, Transition
    <2> QED
      BY <1>8, <2>1 DEF ExitRefused, DayInv
  <1>9. ASSUME NEW t \in Trades, NEW quoted \in BOOLEAN, ExitStarts(t, quoted)
        PROVE  DayInv'
    <2>1. mstate' = mstate \/ (mstate' = "FLATTENING" /\ bstate # "ARMED")
      BY <1>9, Moves DEF ExitStarts, NeedsFlattening, MustFlatten
    <2> QED
      BY <1>9, <2>1 DEF ExitStarts, DayInv
  <1>10. CASE CloseFilled
    <2>1. bstate' = "ARMED" => bstate = "ARMED"
      BY <1>10 DEF CloseFilled
    <2> QED
      BY <1>10, <2>1 DEF CloseFilled, DayInv
  <1>11. CASE CloseUnfilled
    BY <1>11 DEF CloseUnfilled, DayInv
  <1>12. CASE RiskTail
    <2>1. \/ mstate' = mstate
          \/ mstate' \in {"SCANNING", "LOCKED_OUT"}
          \/ mstate' = "END_OF_DAY" /\ tracked = {} /\ mstate = "FLATTENING" /\ bstate = "ARMED"
      BY <1>12, Moves DEF RiskTail
    <2>2. UNCHANGED <<phase, bstate, tracked, entering, order>>
      BY <1>12 DEF RiskTail
    <2> QED
      BY <2>1, <2>2 DEF DayInv
  <1>13. CASE TimePasses
    <2>1. /\ phase # "flat"
          /\ phase' = "flat" => ~entering /\ order = 0
          /\ phase = "window" => phase' = "late"
          /\ phase = "late" => phase' = "flat"
      BY <1>13 DEF TimePasses, TypeOK, Phases
    <2> QED
      BY <1>13, <2>1 DEF TimePasses, DayInv
  <1>14. CASE Stop
    <2>1. bstate' # "ARMED" /\ tracked # {} /\ ~entering'
      BY <1>14, Trips DEF Stop
    <2> QED
      BY <1>14, <2>1 DEF Stop, DayInv
  <1>15. CASE Dies \/ Crash
    BY <1>15, DeathSets DEF DayInv
  <1>16. CASE UNCHANGED vars
    BY <1>16 DEF vars, DayInv
  <1>17. CASE ShadowStep
    BY <1>17, ShadowMoves DEF DayInv
  <1> QED
    BY <1>1, <1>2, <1>3, <1>4, <1>5, <1>6, <1>7, <1>8, <1>9, <1>10, <1>11, <1>12, <1>13,
       <1>14, <1>15, <1>16, <1>17
    DEF Next, ClockStep, Boots, EntryReturns, RiskTicks, NextExit, ShadowStep

-----------------------------------------------------------------------------
(* The concurrency cap.                                                    *)

LEMMA OpenFinite ==
    IsFiniteSet(OpenAtBroker) /\ Cardinality(OpenAtBroker) \in Nat
  <1>1. OpenAtBroker \subseteq 1..DailyCap
    BY DEF OpenAtBroker, Trades
  <1>2. IsFiniteSet(1..DailyCap)
    BY FS_Interval
  <1> QED
    BY <1>1, <1>2, FS_Subset, FS_CardinalityType

\* Every action keeps the positions and the working order within the cap: what is
\* approved is counted against everything that is open.
LEMMA CapStep ==
    TypeOK /\ OrderInv /\ LoopInv /\ LockInv /\ OrphanInv /\ ConcurrencyCap /\ [Next]_vars
        => ConcurrencyCap'
  <1> SUFFICES ASSUME TypeOK, OrderInv, LoopInv, LockInv, OrphanInv, ConcurrencyCap, [Next]_vars
               PROVE  ConcurrencyCap'
    OBVIOUS
  <1> USE DEF signal, exits, outside, process, life
  <1> DEFINE n == Cardinality(OpenAtBroker)
  <1>0. n \in Nat /\ IsFiniteSet(OpenAtBroker)
    BY OpenFinite
  <1>a. ASSUME held' = held, order' = order \/ order' = 0
        PROVE  ConcurrencyCap'
    <2>1. Cardinality(OpenAtBroker)' = n
      BY <1>a DEF OpenAtBroker
    <2> QED
      BY <1>0, <1>a, <2>1 DEF ConcurrencyCap
  <1>1. CASE Approve
    <2>1. OpenAtBroker \subseteq tracked /\ order = 0
      BY <1>1 DEF Approve, Running, Approvable, OrphanInv, OrderInv, LockInv
    <2>2. tracked = OpenAtBroker
      BY <2>1 DEF LoopInv
    <2>3. n < MaxConcurrent
      BY <1>1, <2>2 DEF Approve, Approvable
    <2>4. Cardinality(OpenAtBroker)' = n
      BY <1>1 DEF Approve, OpenAtBroker
    <2> QED
      BY <1>0, <2>3, <2>4 DEF ConcurrencyCap
  <1>2. CASE OrderFills
    <2>1. order \in Trades /\ order # 0 /\ order' = 0
      BY <1>2 DEF OrderFills, TypeOK
    <2>2. OpenAtBroker' = OpenAtBroker \cup {order}
      BY <1>2, <2>1 DEF OrderFills, OpenAtBroker, TypeOK
    <2>3. order \notin OpenAtBroker
      BY <2>1 DEF OrderInv, OpenAtBroker
    <2>4. Cardinality(OpenAtBroker') = n + 1
      BY <1>0, <2>2, <2>3, FS_AddElement
    <2> QED
      BY <1>0, <2>1, <2>4 DEF ConcurrencyCap
  <1>3. CASE CloseFilled
    <2>1. OpenAtBroker' \subseteq OpenAtBroker /\ order' = order
      BY <1>3 DEF CloseFilled, OpenAtBroker, TypeOK
    <2>2. Cardinality(OpenAtBroker') <= n /\ Cardinality(OpenAtBroker') \in Nat
      BY <1>0, <2>1, FS_Subset, FS_CardinalityType
    <2> QED
      BY <1>0, <2>1, <2>2 DEF ConcurrencyCap
  <1>4. ASSUME NEW swept \in BOOLEAN, NEW adopt \in SUBSET OpenAtBroker, Boot(swept, adopt)
        PROVE  ConcurrencyCap'
    BY <1>4, <1>a, BootSets
  <1>5. CASE ClockStep
    BY <1>5, <1>a, ClockMoves
  <1>6. ASSUME NEW logged \in BOOLEAN, EnterFilled(logged)
        PROVE  ConcurrencyCap'
    BY <1>6, <1>a DEF EnterFilled
  <1>7. ASSUME NEW logged \in BOOLEAN, NEW latch \in BOOLEAN, EnterUnfilled(latch, logged)
        PROVE  ConcurrencyCap'
    BY <1>7, <1>a DEF EnterUnfilled
  <1>8. ASSUME NEW trips \in BOOLEAN, NEW decided \in SUBSET tracked, RiskTick(trips, decided)
        PROVE  ConcurrencyCap'
    BY <1>8, <1>a DEF RiskTick, EquityFetched
  <1>9. ASSUME NEW t \in Trades, ExitRefused(t)
        PROVE  ConcurrencyCap'
    BY <1>9, <1>a DEF ExitRefused
  <1>10. ASSUME NEW t \in Trades, NEW quoted \in BOOLEAN, ExitStarts(t, quoted)
         PROVE  ConcurrencyCap'
    BY <1>10, <1>a DEF ExitStarts
  <1>11. CASE CloseUnfilled \/ RiskTail \/ TimePasses \/ Stop
    BY <1>11, <1>a DEF CloseUnfilled, RiskTail, TimePasses, Stop
  <1>12. CASE Dies \/ Crash
    BY <1>12, <1>a, DeathSets
  <1>13. CASE UNCHANGED vars
    BY <1>13, <1>a DEF vars
  <1>14. CASE ShadowStep
    BY <1>14, <1>a, ShadowMoves
  <1> QED
    BY <1>1, <1>2, <1>3, <1>4, <1>5, <1>6, <1>7, <1>8, <1>9, <1>10, <1>11, <1>12, <1>13,
       <1>14
    DEF Next, ClockStep, Boots, EntryReturns, RiskTicks, NextExit, ShadowStep

-----------------------------------------------------------------------------
(* The theorems.                                                           *)

LEMMA InitHolds == Init => IInv
  <1> SUFFICES ASSUME Init
               PROVE  IInv
    OBVIOUS
  <1>1. TypeOK
    <2>1. used \in 0..DailyCap /\ stops \in 0..MaxStops
      BY DEF Init
    <2>2. held \in [Trades -> {"none", "open", "closed"}]
      BY DEF Init
    <2> QED
      BY <2>1, <2>2 DEF Init, TypeOK, States
  <1>2. OpenAtBroker = {}
    BY DEF Init, OpenAtBroker
  <1>3. ConcurrencyCap
    BY <1>2, FS_EmptySet DEF Init, ConcurrencyCap
  <1>4. OrderInv /\ LoopInv /\ LockInv /\ DayInv
    BY DEF Init, OrderInv, LoopInv, LockInv, DayInv, Trades
  <1>5. OrphanInv
    BY <1>2 DEF OrphanInv
  <1> QED
    BY <1>1, <1>3, <1>4, <1>5 DEF IInv

\* The conjuncts of IInv hold together in every state.
LEMMA Invariant == Spec => []IInv
  <1>1. IInv /\ [Next]_vars => IInv'
    BY TypeStep, OrderStep, LoopStep, LockStep, OrphanStep, DayStep, CapStep DEF IInv
  <1> QED
    BY InitHolds, <1>1, PTL DEF Spec

\* Every state is well typed: the approvals never pass the daily cap, and the
\* entry and the close that are awaited are of trades that were approved.
THEOREM RuntimeTypeCorrect == Spec => []TypeOK
  <1>1. IInv => TypeOK
    BY DEF IInv
  <1> QED
    BY Invariant, <1>1, PTL

\* The open positions and the working entry never exceed the concurrency cap.
THEOREM CapTheorem == Spec => []ConcurrencyCap
  <1>1. IInv => ConcurrencyCap
    BY DEF IInv
  <1> QED
    BY Invariant, <1>1, PTL

\* A running process tracks every live position, or is awaiting its entry.
THEOREM NoOrphansTheorem == Spec => []NoOrphans
  <1>1. IInv => NoOrphans
    BY DEF IInv, OrphanInv, NoOrphans, Running
  <1> QED
    BY Invariant, <1>1, PTL

\* A day that has ended is flat.
THEOREM EndOfDayTheorem == Spec => []EndOfDayFlat
  <1>1. IInv => EndOfDayFlat
    BY DEF IInv, DayInv, EndOfDayFlat
  <1> QED
    BY Invariant, <1>1, PTL

-----------------------------------------------------------------------------
(* The session gate.                                                        *)

\* A trip is a step of the gate, or none if the breaker is not armed.
LEMMA TripIsGate ==
    ASSUME TypeOK, up, up' = up, TripBreaker
    PROVE  [Gate!Next]_(Gate!vars)
  <1>1. CASE bstate = "ARMED"
    <2>1. bstate' = "TRIPPED" /\ locked' = TRUE
      BY <1>1 DEF TripBreaker
    <2> QED
      BY <1>1, <2>1 DEF Gate!Next, Gate!Trip
  <1>2. CASE bstate # "ARMED"
    <2>1. bstate' = bstate /\ (locked' <=> locked) /\ locked' \in BOOLEAN /\ locked \in BOOLEAN
      BY <1>2, Trips DEF TripBreaker, TypeOK
    <2>2. (locked = TRUE /\ locked' = TRUE) \/ (locked = FALSE /\ locked' = FALSE)
      BY <2>1
    <2> QED
      BY <2>1, <2>2 DEF Gate!vars
  <1> QED
    BY <1>1, <1>2

\* Every step of the runtime is a step of the gate, or none.
LEMMA GateRefined == TypeOK /\ [Next]_vars => [Gate!Next]_(Gate!vars)
  <1> SUFFICES ASSUME TypeOK, [Next]_vars
               PROVE  [Gate!Next]_(Gate!vars)
    OBVIOUS
  <1> USE DEF signal, exits, outside, process, life
  <1>0. ASSUME UNCHANGED <<up, bstate, locked>>
        PROVE  UNCHANGED Gate!vars
    BY <1>0 DEF Gate!vars
  <1>1. ASSUME NEW swept \in BOOLEAN, NEW adopt \in SUBSET OpenAtBroker, Boot(swept, adopt)
        PROVE  Gate!Start
    <2>1. /\ ~up /\ up' /\ bstate' \in {"ARMED", "TRIPPED", "LOCKED"}
          /\ locked \in BOOLEAN /\ locked' \in BOOLEAN
          /\ locked => locked' /\ bstate' = "LOCKED"
          /\ locked' /\ ~locked => bstate' = "TRIPPED"
      BY <1>1, BootSets DEF TypeOK
    <2>2. locked' = locked \/ (locked' = TRUE /\ bstate' = "TRIPPED")
      BY <2>1, Zenon
    <2> QED
      BY <2>1, <2>2 DEF Gate!Start
  <1>2. CASE ClockStep
    BY <1>0, <1>2, ClockMoves
  <1>3. CASE Approve \/ ShadowOpens \/ OrderFills
    BY <1>0, <1>3 DEF Approve, ShadowOpens, OrderFills
  <1>4. ASSUME NEW logged \in BOOLEAN, EnterFilled(logged)
        PROVE  UNCHANGED Gate!vars
    BY <1>0, <1>4 DEF EnterFilled
  <1>5. ASSUME NEW logged \in BOOLEAN, NEW latch \in BOOLEAN, EnterUnfilled(latch, logged)
        PROVE  UNCHANGED Gate!vars
    BY <1>0, <1>5 DEF EnterUnfilled
  <1>6. CASE RiskTicks
    <2>1. PICK trips \in BOOLEAN : EquityFetched(trips) /\ up /\ up' = up
      BY <1>6 DEF RiskTicks, RiskTick, RiskTickFails, Running
    <2>2. CASE trips
      BY <2>1, <2>2, TripIsGate DEF EquityFetched
    <2>3. CASE ~trips
      BY <1>0, <2>1, <2>3 DEF EquityFetched
    <2> QED
      BY <2>2, <2>3
  <1>7. ASSUME NEW t \in Trades, ExitRefused(t) \/ \E quoted \in BOOLEAN : ExitStarts(t, quoted)
        PROVE  UNCHANGED Gate!vars
    BY <1>0, <1>7 DEF ExitRefused, ExitStarts
  <1>8. CASE CloseFilled
    <2>1. /\ up /\ up' /\ locked' = locked
          /\ bstate' = bstate \/ (bstate = "TRIPPED" /\ bstate' = "LOCKED")
      BY <1>8 DEF CloseFilled, TypeOK
    <2>2. CASE bstate' = bstate
      BY <1>8, <1>0, <2>2 DEF CloseFilled
    <2>3. CASE bstate = "TRIPPED" /\ bstate' = "LOCKED"
      BY <2>1, <2>3 DEF Gate!Next, Gate!Settle
    <2> QED
      BY <2>1, <2>2, <2>3
  <1>9. CASE CloseUnfilled \/ RiskTail \/ TimePasses
    BY <1>0, <1>9 DEF CloseUnfilled, RiskTail, TimePasses
  <1>10. CASE Stop
    <2>1. up /\ up' = up /\ TripBreaker
      BY <1>10 DEF Stop, Running
    <2> QED
      BY <2>1, TripIsGate
  <1>11. CASE Dies \/ Crash
    <2>1. up /\ ~up' /\ locked' = locked /\ bstate \in {"ARMED", "TRIPPED", "LOCKED"}
      BY <1>11, DeathSets DEF Dies, Crash, TypeOK
    <2> QED
      BY <2>1 DEF Gate!Next, Gate!Stop
  <1>12. CASE UNCHANGED vars
    BY <1>0, <1>12 DEF vars
  <1> QED
    BY <1>1, <1>2, <1>3, <1>4, <1>5, <1>6, <1>7, <1>8, <1>9, <1>10, <1>11, <1>12
    DEF Next, ClockStep, Boots, EntryReturns, NextExit, Gate!Next

\* The breaker that the tasks share is a session gate, whatever the tasks, the kill
\* switch at boot and the crash handler do to it.
THEOREM RuntimeGateTheorem == Spec => GateHolds
  <1>1. Init => Gate!Init
    BY DEF Init, Gate!Init
  <1> QED
    BY RuntimeTypeCorrect, <1>1, GateRefined, PTL DEF Spec, GateHolds, Gate!Spec

=============================================================================
