------------------------- MODULE OrderLadderProofs -------------------------
(***************************************************************************)
(* Proofs, for trades of any size, ladders of any length and any number of  *)
(* orders, of what the broker adapter remembers and reports.                *)
(***************************************************************************)
EXTENDS OrderLadder, FiniteSetTheorems, TLAPS

AtOrder == pc \in {"await", "cancel", "resolve"}

\* A rung that is worked is one of the ladder.
TypeInv == TypeOK /\ (AtOrder => rung <= MaxSteps)

\* Where the calls are, and what they and the governor remember there.
FlowInv ==
    /\ call = "none" <=> pc = "idle"
    /\ call = "open" => pc # "check" /\ entered /\ ~tracked /\ before = 0
    /\ call = "close" => tracked
    /\ tracked => entered
    /\ AtOrder => placed \in Ids /\ remembered = placed /\ ord[placed].side = Side
    /\ pc = "check" => remembered # 0
    /\ pc = "place" \/ (pc = "ask" /\ call = "close") => remembered = 0

\* Nothing is sold before the trade is entered and its entry has returned.
SidesInv ==
    /\ ~entered => remembered = 0 /\ held = 0 /\ Live = {}
    /\ ~entered \/ call = "open" => \A o \in Ids : ord[o].side = "buy"
    /\ tracked /\ remembered # 0 => ord[remembered].side = "sell"

\* A working order is the remembered one, and is untouched.
LiveInv ==
    /\ Live \subseteq {remembered}
    /\ \A o \in Live : ord[o].left = N

\* While the entry is worked, the contracts held tell whether it is filled.
OpenInv ==
    call = "open" =>
        /\ held \in {0, N}
        /\ pc = "place" \/ Live # {} => held = 0
        /\ AtOrder /\ ord[placed].left = 0 => held = N

\* A position is held whole until an exit order is filled.
CloseInv ==
    tracked =>
        /\ held = N \/ held <= 0
        /\ \A o \in Ids : ord[o].side = "sell" /\ ord[o].left = 0 => held <= 0

CleanInv == Clean => LiveInv /\ OpenInv /\ CloseInv

IInv == TypeInv /\ FlowInv /\ SidesInv /\ CleanInv

-----------------------------------------------------------------------------
USE LadderAssumption

Order == [side : Sides, live : BOOLEAN, left : 0..N]

\* What the exchange does to the order it is asked about, and to no other.
LEMMA NewOrder ==
    ASSUME TypeOK, NEW o \in Ids, NEW live \in BOOLEAN, New(o, live)
    PROVE  /\ ord' \in [Ids -> Order]
           /\ ord'[o].side = Side /\ ord'[o].live = live /\ ord'[o].left = N
           /\ \A p \in Ids \ {o} : ord'[p] = ord[p]
  BY DEF TypeOK, New, Order, Sides, Side

LEMMA DeadOrder ==
    ASSUME TypeOK, NEW o \in Ids, Dead(o)
    PROVE  /\ ord' \in [Ids -> Order]
           /\ ord'[o].side = ord[o].side /\ ord'[o].left = ord[o].left
           /\ ord'[o].live = FALSE
           /\ \A p \in Ids \ {o} : ord'[p] = ord[p]
  BY DEF TypeOK, Dead, Order

LEMMA FilledOrder ==
    ASSUME TypeOK, NEW o \in Ids, NEW k \in 1..N, Fills(o, k)
    PROVE  /\ ord' \in [Ids -> Order]
           /\ ord'[o].side = ord[o].side /\ ord'[o].left = ord[o].left - k
           /\ ord'[o].live = (k < ord[o].left)
           /\ \A p \in Ids \ {o} : ord'[p] = ord[p]
  <1>1. ord[o] \in Order /\ k <= ord[o].left
    BY DEF TypeOK, Order, Fills, Live
  <1>2. ord[o].left - k \in 0..N
    BY <1>1 DEF Order
  <1>3. ord' = [ord EXCEPT ![o].left = ord[o].left - k, ![o].live = (k < ord[o].left)]
    BY DEF Fills
  <1>4. /\ ord'[o] = [[ord[o] EXCEPT !.left = ord[o].left - k] EXCEPT !.live = (k < ord[o].left)]
        /\ DOMAIN ord' = Ids /\ \A p \in Ids \ {o} : ord'[p] = ord[p]
    BY <1>3 DEF TypeOK
  <1>5. ord'[o].side = ord[o].side /\ ord'[o].left = ord[o].left - k /\ ord'[o].live = (k < ord[o].left)
    BY <1>1, <1>4 DEF Order
  <1>6. ord'[o] \in Order
    <2>1. ASSUME NEW r \in Order, NEW n \in 0..N, NEW b \in BOOLEAN
          PROVE  [[r EXCEPT !.left = n] EXCEPT !.live = b] \in Order
      BY DEF Order
    <2>2. (k < ord[o].left) \in BOOLEAN
      OBVIOUS
    <2>3. [[ord[o] EXCEPT !.left = ord[o].left - k] EXCEPT !.live = (k < ord[o].left)] \in Order
      BY <1>1, <1>2, <2>1, <2>2, Zenon
    <2> QED
      BY <1>4, <2>3, Zenon
  <1>7. ord' \in [Ids -> Order]
    BY <1>3, <1>4, <1>6 DEF TypeOK, Order
  <1> QED
    BY <1>4, <1>5, <1>7

Outcomes == {"filled", "gone", "unknown"}

-----------------------------------------------------------------------------
(* How a call ends.                                                        *)

Ended == call' = "none" /\ pc' = "idle" /\ rung' = 0 /\ before' = 0 /\ placed' = 0

LEMMA FillEnds ==
    ReturnFill => /\ Ended /\ entered' = entered
                  /\ call = "open" => tracked' = TRUE
                  /\ call # "open" => tracked' = FALSE
  BY DEF ReturnFill, Return, Ended

LEMMA NoneEnds ==
    ReturnNone => Ended /\ entered' = entered /\ tracked' = tracked
  BY DEF ReturnNone, Return, Ended

\* It goes on to ask the position, or ends.
LEMMA GivesUp ==
    GiveUp => /\ tracked' = tracked /\ entered' = entered
              /\ call = "open" => /\ call' = call /\ pc' = "ask" /\ rung' = rung
                                 /\ before' = before /\ placed' = placed
              /\ call # "open" => Ended
  BY NoneEnds DEF GiveUp, Goto, Stay

-----------------------------------------------------------------------------
(* Types.                                                                  *)

LEMMA TypeInit == Init => TypeInv
  <1> SUFFICES ASSUME Init PROVE TypeInv
    OBVIOUS
  <1>1. NoOrder \in Order
    BY DEF NoOrder, Order, Sides
  <1>2. ord \in [Ids -> Order]
    BY <1>1 DEF Init
  <1>3. rung \in 0..MaxSteps + 1 /\ placed \in Ids \cup {0} /\ remembered \in Ids \cup {0}
    BY DEF Init
  <1>4. ~AtOrder
    BY DEF Init, AtOrder
  <1>5. held \in Int /\ before \in Int
    BY DEF Init
  <1>6. /\ call \in {"none", "open", "close"}
        /\ pc \in {"idle", "check", "place", "await", "cancel", "resolve", "ask"}
    BY DEF Init
  <1>7. tracked \in BOOLEAN /\ entered \in BOOLEAN /\ lost \in BOOLEAN /\ partial \in BOOLEAN
    BY DEF Init
  <1> QED
    BY <1>2, <1>3, <1>4, <1>5, <1>6, <1>7 DEF TypeInv, TypeOK, Order

\* Every step keeps the types; the rung is counted up at most once for each rung.
LEMMA TypeStep ==
    TypeInv /\ [Next]_vars => TypeInv'
  <1> SUFFICES ASSUME TypeInv, [Next]_vars
               PROVE  TypeInv'
    OBVIOUS
  <1> USE DEF TypeInv, AtOrder, Ended, Goto, Stay, ladder, belief, exchange
  <1>1. ASSUME NEW known \in BOOLEAN, OpenStarts(known)
       PROVE  TypeInv'
    BY <1>1 DEF OpenStarts, TypeOK, Quantity
  <1>2. ASSUME CloseStarts
       PROVE  TypeInv'
    BY <1>2 DEF CloseStarts, TypeOK, Order
  <1>3. ASSUME NEW outcome \in Outcomes, CheckRemembered(outcome)
       PROVE  TypeInv'
    <2>1. ord' \in [Ids -> Order]
      BY <1>3, FillEnds, NoneEnds DEF CheckRemembered, TypeOK, Order
    <2>2. call' \in {"none", "open", "close"} /\ tracked' \in BOOLEAN
      BY <1>3, FillEnds, NoneEnds DEF Outcomes, CheckRemembered, TypeOK, Order
    <2>3. pc' \in {"idle", "check", "place", "await", "cancel", "resolve", "ask"}
      BY <1>3, FillEnds, NoneEnds DEF Outcomes, CheckRemembered, TypeOK, Order
    <2>4. \/ Ended
          \/ UNCHANGED <<rung, before>> /\ pc' = "place"
      BY <1>3, FillEnds, NoneEnds DEF CheckRemembered, Outcomes, Ended
    <2>5. rung' \in 0..MaxSteps + 1 /\ (AtOrder' => rung' <= MaxSteps)
      BY <2>4 DEF TypeOK
    <2>6. placed' \in Ids \cup {0} /\ remembered' \in Ids \cup {0}
      BY <1>3, FillEnds, NoneEnds DEF Outcomes, CheckRemembered, TypeOK, Order
    <2>7. before' \in Int
      BY <2>4 DEF TypeOK
    <2>8. held' \in Int
      BY <1>3 DEF CheckRemembered, Outcomes, TypeOK
    <2>9. entered' \in BOOLEAN /\ lost' \in BOOLEAN /\ partial' \in BOOLEAN
      BY <1>3, FillEnds, NoneEnds DEF Outcomes, CheckRemembered, TypeOK, Order
    <2> QED
      BY <2>1, <2>2, <2>3, <2>5, <2>6, <2>7, <2>8, <2>9 DEF TypeOK, Order
  <1>4. ASSUME NEW o \in Ids, PlaceAccepted(o)
       PROVE  TypeInv'
    BY <1>4, NewOrder DEF PlaceAccepted, TypeOK, Order, AtRung
  <1>5. ASSUME NEW o \in Ids, PlaceRejected(o)
       PROVE  TypeInv'
    <2>1. ord' \in [Ids -> Order]
      BY <1>5, NoneEnds, NewOrder DEF PlaceRejected, TypeOK, Order
    <2>2. call' \in {"none", "open", "close"} /\ tracked' \in BOOLEAN
      BY <1>5, NoneEnds DEF TypeOK, Order, PlaceRejected, AtRung
    <2>3. pc' \in {"idle", "check", "place", "await", "cancel", "resolve", "ask"}
      BY <1>5, NoneEnds DEF TypeOK, Order, PlaceRejected, AtRung
    <2>4. \/ Ended
          \/ UNCHANGED <<rung, before>> /\ rung <= MaxSteps
      BY <1>5, NoneEnds DEF PlaceRejected, AtRung, Ended
    <2>5. rung' \in 0..MaxSteps + 1 /\ (AtOrder' => rung' <= MaxSteps)
      BY <2>4 DEF TypeOK
    <2>6. placed' \in Ids \cup {0} /\ remembered' \in Ids \cup {0}
      BY <1>5, NoneEnds DEF TypeOK, Order, PlaceRejected, AtRung
    <2>7. before' \in Int
      BY <2>4 DEF TypeOK
    <2>8. held' \in Int
      BY <1>5 DEF PlaceRejected, AtRung, TypeOK
    <2>9. entered' \in BOOLEAN /\ lost' \in BOOLEAN /\ partial' \in BOOLEAN
      BY <1>5, NoneEnds DEF TypeOK, Order, PlaceRejected, AtRung
    <2> QED
      BY <2>1, <2>2, <2>3, <2>5, <2>6, <2>7, <2>8, <2>9 DEF TypeOK, Order
  <1>6. ASSUME PlaceRaises
       PROVE  TypeInv'
    BY <1>6, GivesUp DEF PlaceRaises, TypeOK, AtRung
  <1>7. ASSUME NEW o \in Ids, PlaceAnswerLost(o)
       PROVE  TypeInv'
    <2>1. ord' \in [Ids -> Order]
      BY <1>7, GivesUp, NewOrder DEF PlaceAnswerLost
    <2>2. call' \in {"none", "open", "close"} /\ tracked' \in BOOLEAN
      BY <1>7, GivesUp DEF TypeOK, Order, PlaceAnswerLost, AtRung
    <2>3. pc' \in {"idle", "check", "place", "await", "cancel", "resolve", "ask"}
      BY <1>7, GivesUp DEF TypeOK, Order, PlaceAnswerLost, AtRung
    <2>4. \/ Ended
          \/ UNCHANGED <<rung, before>> /\ pc' = "ask"
      BY <1>7, GivesUp DEF PlaceAnswerLost, Ended
    <2>5. rung' \in 0..MaxSteps + 1 /\ (AtOrder' => rung' <= MaxSteps)
      BY <2>4 DEF TypeOK
    <2>6. placed' \in Ids \cup {0} /\ remembered' \in Ids \cup {0}
      BY <1>7, GivesUp DEF TypeOK, Order, PlaceAnswerLost, AtRung
    <2>7. before' \in Int
      BY <2>4 DEF TypeOK
    <2>8. held' \in Int
      BY <1>7 DEF PlaceAnswerLost, TypeOK
    <2>9. entered' \in BOOLEAN /\ lost' \in BOOLEAN /\ partial' \in BOOLEAN
      BY <1>7, GivesUp DEF TypeOK, Order, PlaceAnswerLost, AtRung
    <2> QED
      BY <2>1, <2>2, <2>3, <2>5, <2>6, <2>7, <2>8, <2>9 DEF TypeOK, Order
  <1>8. ASSUME LadderEnds
       PROVE  TypeInv'
    BY <1>8, GivesUp DEF LadderEnds, TypeOK, Order
  <1>9. ASSUME AwaitSeesFill
       PROVE  TypeInv'
    <2>1. ord' \in [Ids -> Order]
      BY <1>9, FillEnds DEF AwaitSeesFill, TypeOK, Order
    <2>2. call' \in {"none", "open", "close"} /\ tracked' \in BOOLEAN
      BY <1>9, FillEnds DEF TypeOK, Order, AwaitSeesFill
    <2>3. pc' \in {"idle", "check", "place", "await", "cancel", "resolve", "ask"}
      BY <1>9, FillEnds DEF TypeOK, Order, AwaitSeesFill
    <2>4. Ended
      BY <1>9, FillEnds DEF AwaitSeesFill
    <2>5. rung' \in 0..MaxSteps + 1 /\ (AtOrder' => rung' <= MaxSteps)
      BY <2>4 DEF TypeOK
    <2>6. placed' \in Ids \cup {0} /\ remembered' \in Ids \cup {0}
      BY <1>9, FillEnds DEF TypeOK, Order, AwaitSeesFill
    <2>7. before' \in Int
      BY <2>4 DEF TypeOK
    <2>8. held' \in Int
      BY <1>9 DEF AwaitSeesFill, TypeOK
    <2>9. entered' \in BOOLEAN /\ lost' \in BOOLEAN /\ partial' \in BOOLEAN
      BY <1>9, FillEnds DEF TypeOK, Order, AwaitSeesFill
    <2> QED
      BY <2>1, <2>2, <2>3, <2>5, <2>6, <2>7, <2>8, <2>9 DEF TypeOK, Order
  <1>10. ASSUME AwaitTimesOut
        PROVE  TypeInv'
    BY <1>10 DEF AwaitTimesOut, TypeOK, Order
  <1>11. ASSUME CancelSucceeds
        PROVE  TypeInv'
    <2>1. ord' \in [Ids -> Order]
      BY <1>11, DeadOrder DEF CancelSucceeds, Live
    <2>2. call' \in {"none", "open", "close"} /\ tracked' \in BOOLEAN
      BY <1>11 DEF TypeOK, Order, CancelSucceeds, Live
    <2>3. pc' \in {"idle", "check", "place", "await", "cancel", "resolve", "ask"}
      BY <1>11 DEF TypeOK, Order, CancelSucceeds, Live
    <2>4. rung' \in 0..MaxSteps + 1 /\ (AtOrder' => rung' <= MaxSteps)
      BY <1>11 DEF TypeOK, Order, CancelSucceeds, Live
    <2>5. placed' \in Ids \cup {0} /\ remembered' \in Ids \cup {0}
      BY <1>11 DEF TypeOK, Order, CancelSucceeds, Live
    <2>6. before' \in Int
      BY <1>11 DEF TypeOK, Order, CancelSucceeds, Live
    <2>7. held' \in Int
      BY <1>11 DEF CancelSucceeds, TypeOK
    <2>8. entered' \in BOOLEAN /\ lost' \in BOOLEAN /\ partial' \in BOOLEAN
      BY <1>11 DEF TypeOK, Order, CancelSucceeds, Live
    <2> QED
      BY <2>1, <2>2, <2>3, <2>4, <2>5, <2>6, <2>7, <2>8 DEF TypeOK, Order
  <1>12. ASSUME NEW effect \in BOOLEAN, CancelRaises(effect)
        PROVE  TypeInv'
    BY <1>12, DeadOrder DEF CancelRaises, TypeOK, Order, Live
  <1>13. ASSUME NEW outcome \in Outcomes, Resolve(outcome)
        PROVE  TypeInv'
    <2>1. ord' \in [Ids -> Order]
      BY <1>13, FillEnds, GivesUp DEF Resolve, TypeOK, Order
    <2>2. call' \in {"none", "open", "close"} /\ tracked' \in BOOLEAN
      BY <1>13, FillEnds, GivesUp DEF Outcomes, Resolve, TypeOK, Order
    <2>3. pc' \in {"idle", "check", "place", "await", "cancel", "resolve", "ask"}
      BY <1>13, FillEnds, GivesUp DEF Outcomes, Resolve, TypeOK, Order
    <2>4. \/ Ended
          \/ UNCHANGED <<rung, before>> /\ pc' = "ask"
      BY <1>13, FillEnds, GivesUp DEF Resolve, Outcomes, Ended
    <2>5. rung' \in 0..MaxSteps + 1 /\ (AtOrder' => rung' <= MaxSteps)
      BY <2>4 DEF TypeOK
    <2>6. placed' \in Ids \cup {0} /\ remembered' \in Ids \cup {0}
      BY <1>13, FillEnds, GivesUp DEF Outcomes, Resolve, TypeOK, Order
    <2>7. before' \in Int
      BY <2>4 DEF TypeOK
    <2>8. held' \in Int
      BY <1>13 DEF Resolve, Outcomes, TypeOK
    <2>9. entered' \in BOOLEAN /\ lost' \in BOOLEAN /\ partial' \in BOOLEAN
      BY <1>13, FillEnds, GivesUp DEF Outcomes, Resolve, TypeOK, Order
    <2> QED
      BY <2>1, <2>2, <2>3, <2>5, <2>6, <2>7, <2>8, <2>9 DEF TypeOK, Order
  <1>14. ASSUME AskFails
        PROVE  TypeInv'
    BY <1>14, NoneEnds DEF AskFails, TypeOK, Order
  <1>15. ASSUME AskPosition
        PROVE  TypeInv'
    <2>1. ord' \in [Ids -> Order]
      BY <1>15, FillEnds, NoneEnds DEF AskPosition, TypeOK, Order
    <2>2. call' \in {"none", "open", "close"} /\ tracked' \in BOOLEAN
      BY <1>15, FillEnds, NoneEnds DEF TypeOK, Order, AskPosition
    <2>3. pc' \in {"idle", "check", "place", "await", "cancel", "resolve", "ask"}
      BY <1>15, FillEnds, NoneEnds DEF TypeOK, Order, AskPosition
    <2>4. Ended
      BY <1>15, FillEnds, NoneEnds DEF AskPosition
    <2>5. rung' \in 0..MaxSteps + 1 /\ (AtOrder' => rung' <= MaxSteps)
      BY <2>4 DEF TypeOK
    <2>6. placed' \in Ids \cup {0} /\ remembered' \in Ids \cup {0}
      BY <1>15, FillEnds, NoneEnds DEF TypeOK, Order, AskPosition
    <2>7. before' \in Int
      BY <2>4 DEF TypeOK
    <2>8. held' \in Int
      BY <1>15 DEF AskPosition, TypeOK
    <2>9. entered' \in BOOLEAN /\ lost' \in BOOLEAN /\ partial' \in BOOLEAN
      BY <1>15, FillEnds, NoneEnds DEF TypeOK, Order, AskPosition
    <2> QED
      BY <2>1, <2>2, <2>3, <2>5, <2>6, <2>7, <2>8, <2>9 DEF TypeOK, Order
  <1>16. ASSUME NEW o \in Ids, NEW k \in 1..N, Fills(o, k)
        PROVE  TypeInv'
    <2>1. ord' \in [Ids -> Order]
      BY <1>16, FilledOrder
    <2>2. held' \in Int /\ partial' \in BOOLEAN
      BY <1>16 DEF Fills, TypeOK
    <2> QED
      BY <1>16, <2>1, <2>2 DEF Fills, TypeOK, Order
  <1>17. ASSUME NEW o \in Ids, Expires(o)
        PROVE  TypeInv'
    <2>1. ord' \in [Ids -> Order]
      BY <1>17, DeadOrder DEF Expires
    <2>2. UNCHANGED <<call, pc, rung, before, placed, remembered, tracked, entered, held, lost, partial>>
      BY <1>17 DEF Expires, ladder, belief
    <2> QED
      BY <2>1, <2>2 DEF TypeOK, Order
  <1>18. CASE UNCHANGED vars
    BY <1>18 DEF vars, TypeOK
  <1> QED
    BY <1>1, <1>2, <1>3, <1>4, <1>5, <1>6, <1>7, <1>8, <1>9, <1>10, <1>11, <1>12, <1>13,
       <1>14, <1>15, <1>16, <1>17, <1>18 DEF Next, Outcomes

\* Every state is well typed: the ladder never runs past its last rung, no order
\* is left with more than it had, and the calls are where the code can be.
THEOREM LadderTypeCorrect == Spec => []TypeOK
  <1>1. TypeInv => TypeOK
    BY DEF TypeInv
  <1> QED
    BY TypeInit, TypeStep, <1>1, PTL DEF Spec

-----------------------------------------------------------------------------
(* The calls.                                                              *)

\* Every step keeps the calls where the code can be.
LEMMA FlowStep ==
    TypeInv /\ FlowInv /\ SidesInv /\ [Next]_vars => FlowInv'
  <1> SUFFICES ASSUME TypeInv, FlowInv, SidesInv, [Next]_vars
               PROVE  FlowInv'
    OBVIOUS
  <1> USE DEF TypeInv, TypeOK, AtOrder, Ended, Goto, Stay, ladder, belief, exchange
  <1>1. ASSUME NEW known \in BOOLEAN, OpenStarts(known)
       PROVE  FlowInv'
    BY <1>1 DEF OpenStarts, FlowInv, SidesInv, Live, Side, Quantity
  <1>2. ASSUME CloseStarts
       PROVE  FlowInv'
    BY <1>2 DEF CloseStarts, FlowInv, SidesInv, Live, Side
  <1>3. ASSUME NEW outcome \in Outcomes, CheckRemembered(outcome)
       PROVE  FlowInv'
    BY <1>3, FillEnds, NoneEnds DEF CheckRemembered, FlowInv, SidesInv, Live, Side,
       Outcomes
  <1>4. ASSUME NEW o \in Ids, PlaceAccepted(o)
       PROVE  FlowInv'
    <2>1. ord'[o].side = Side
      BY <1>4, NewOrder DEF PlaceAccepted
    <2>2. /\ call' = call /\ before' = before
          /\ pc' = "await" /\ placed' = o /\ remembered' = o /\ pc = "place"
      BY <1>4 DEF PlaceAccepted, AtRung
    <2>3. (entered' <=> entered) /\ (tracked' <=> tracked)
      BY <1>4 DEF PlaceAccepted
    <2>4. placed' \in Ids /\ remembered' = placed' /\ ord'[placed'].side = Side'
      BY <2>1, <2>2 DEF Side
    <2> QED
      BY <2>2, <2>3, <2>4 DEF FlowInv
  <1>5. ASSUME NEW o \in Ids, PlaceRejected(o)
       PROVE  FlowInv'
    <2>1. CASE call = "open"
      BY <1>5, <2>1, NoneEnds DEF PlaceRejected, AtRung, FlowInv
    <2>2. CASE call # "open"
      <3>1. ord'[o].side = Side
        BY <1>5, <2>2, NewOrder DEF PlaceRejected
      <3>2. /\ call' = call /\ before' = before
            /\ pc' = "await" /\ placed' = o /\ remembered' = o /\ pc = "place"
        BY <1>5, <2>2 DEF PlaceRejected, AtRung
      <3>3. (entered' <=> entered) /\ (tracked' <=> tracked)
        BY <1>5, <2>2 DEF PlaceRejected
      <3>4. placed' \in Ids /\ remembered' = placed' /\ ord'[placed'].side = Side'
        BY <3>1, <3>2 DEF Side
      <3> QED
        BY <3>2, <3>3, <3>4 DEF FlowInv
    <2> QED
      BY <2>1, <2>2
  <1>6. ASSUME PlaceRaises
       PROVE  FlowInv'
    BY <1>6, GivesUp DEF PlaceRaises, FlowInv, SidesInv, Live, Side, AtRung
  <1>7. ASSUME NEW o \in Ids, PlaceAnswerLost(o)
       PROVE  FlowInv'
    BY <1>7, NewOrder, GivesUp DEF PlaceAnswerLost, FlowInv, SidesInv, Live, Side,
       AtRung, Slots
  <1>8. ASSUME LadderEnds
       PROVE  FlowInv'
    BY <1>8, GivesUp DEF LadderEnds, FlowInv, SidesInv, Live, Side
  <1>9. ASSUME AwaitSeesFill
       PROVE  FlowInv'
    BY <1>9, FillEnds DEF AwaitSeesFill, FlowInv, SidesInv, Live, Side
  <1>10. ASSUME AwaitTimesOut
        PROVE  FlowInv'
    BY <1>10 DEF AwaitTimesOut, FlowInv, SidesInv, Live, Side
  <1>11. ASSUME CancelSucceeds
        PROVE  FlowInv'
    BY <1>11, DeadOrder DEF CancelSucceeds, FlowInv, SidesInv, Live, Side
  <1>12. ASSUME NEW effect \in BOOLEAN, CancelRaises(effect)
        PROVE  FlowInv'
    BY <1>12, DeadOrder DEF CancelRaises, FlowInv, SidesInv, Live, Side
  <1>13. ASSUME NEW outcome \in Outcomes, Resolve(outcome)
        PROVE  FlowInv'
    <2>1. CASE outcome = "filled"
      BY <1>13, FillEnds, GivesUp, <2>1 DEF Resolve, FlowInv, SidesInv, Side, Resolutions,
         Order, Live
    <2>2. CASE outcome = "gone"
      BY <1>13, FillEnds, GivesUp, <2>2 DEF Resolve, FlowInv, SidesInv, Side, Resolutions,
         Order, Live
    <2>3. CASE outcome = "unknown"
      BY <1>13, FillEnds, GivesUp, <2>3 DEF Resolve, FlowInv, SidesInv, Side, Resolutions,
         Order, Live
    <2> QED
      BY <1>13, <2>1, <2>2, <2>3 DEF Outcomes
  <1>14. ASSUME AskFails
        PROVE  FlowInv'
    BY <1>14, NoneEnds DEF AskFails, FlowInv, SidesInv, Live, Side
  <1>15. ASSUME AskPosition
        PROVE  FlowInv'
    BY <1>15, FillEnds, NoneEnds DEF AskPosition, FlowInv, SidesInv, Live, Side,
       Quantity
  <1>16. ASSUME NEW o \in Ids, NEW k \in 1..N, Fills(o, k)
        PROVE  FlowInv'
    BY <1>16, FilledOrder DEF Fills, FlowInv, SidesInv, Live, Side
  <1>17. ASSUME NEW o \in Ids, Expires(o)
        PROVE  FlowInv'
    BY <1>17, DeadOrder DEF Expires, FlowInv, SidesInv, Live, Side
  <1>18. CASE UNCHANGED vars
    BY <1>18 DEF vars, FlowInv, Side
  <1> QED
    BY <1>1, <1>2, <1>3, <1>4, <1>5, <1>6, <1>7, <1>8, <1>9, <1>10, <1>11, <1>12, <1>13,
       <1>14, <1>15, <1>16, <1>17, <1>18 DEF Next, Outcomes

\* Every step keeps what is said of the orders sides.
LEMMA SidesStep ==
    TypeInv /\ FlowInv /\ SidesInv /\ [Next]_vars => SidesInv'
  <1> SUFFICES ASSUME TypeInv, FlowInv, SidesInv, [Next]_vars
               PROVE  SidesInv'
    OBVIOUS
  <1> USE DEF TypeInv, TypeOK, AtOrder, Ended, Goto, Stay, ladder, belief, exchange
  <1>1. ASSUME NEW known \in BOOLEAN, OpenStarts(known)
       PROVE  SidesInv'
    BY <1>1 DEF OpenStarts, FlowInv, SidesInv, Live, Side, Quantity
  <1>2. ASSUME CloseStarts
       PROVE  SidesInv'
    BY <1>2 DEF CloseStarts, FlowInv, SidesInv, Live, Side
  <1>3. ASSUME NEW outcome \in Outcomes, CheckRemembered(outcome)
       PROVE  SidesInv'
    BY <1>3, FillEnds, NoneEnds DEF CheckRemembered, FlowInv, SidesInv, Live, Side,
       Outcomes
  <1>4. ASSUME NEW o \in Ids, PlaceAccepted(o)
       PROVE  SidesInv'
    <2>1. /\ o \in Slots /\ ord'[o].side = Side /\ ord'[o].live = TRUE /\ ord'[o].left = N
          /\ \A p \in Ids \ {o} : ord'[p] = ord[p]
      BY <1>4, NewOrder DEF PlaceAccepted
    <2>2. entered /\ (call = "open" \/ call = "close") /\ call' = call /\ entered' = entered
      BY <1>4 DEF PlaceAccepted, AtRung, FlowInv
    <2>3. call = "open" => \A p \in Ids : ord'[p].side = "buy"
      BY <2>1, <2>2 DEF SidesInv, Side
    <2>4. tracked' => ord'[remembered'].side = "sell"
      BY <1>4, <2>1, <2>2 DEF PlaceAccepted, FlowInv, Side
    <2> QED
      BY <2>2, <2>3, <2>4 DEF SidesInv
  <1>5. ASSUME NEW o \in Ids, PlaceRejected(o)
       PROVE  SidesInv'
    BY <1>5, NewOrder, NoneEnds DEF PlaceRejected, FlowInv, SidesInv, Live, Side,
       AtRung, Slots
  <1>6. ASSUME PlaceRaises
       PROVE  SidesInv'
    BY <1>6, GivesUp DEF PlaceRaises, FlowInv, SidesInv, Live, Side, AtRung
  <1>7. ASSUME NEW o \in Ids, PlaceAnswerLost(o)
       PROVE  SidesInv'
    <2>1. /\ o \in Slots /\ ord'[o].side = Side /\ ord'[o].live = TRUE /\ ord'[o].left = N
          /\ \A p \in Ids \ {o} : ord'[p] = ord[p]
      BY <1>7, NewOrder DEF PlaceAnswerLost
    <2>2. /\ entered /\ (call = "open" \/ call = "close")
          /\ call' \in {call, "none"} /\ entered' = entered
          /\ tracked' = tracked /\ remembered' = 0
      BY <1>7, GivesUp DEF PlaceAnswerLost, AtRung, FlowInv
    <2>3. call = "open" => \A p \in Ids : ord'[p].side = "buy"
      BY <2>1, <2>2 DEF SidesInv, Side
    <2> QED
      BY <2>2, <2>3 DEF SidesInv
  <1>8. ASSUME LadderEnds
       PROVE  SidesInv'
    BY <1>8, GivesUp DEF LadderEnds, FlowInv, SidesInv, Live, Side
  <1>9. ASSUME AwaitSeesFill
       PROVE  SidesInv'
    BY <1>9, FillEnds DEF AwaitSeesFill, FlowInv, SidesInv, Live, Side
  <1>10. ASSUME AwaitTimesOut
        PROVE  SidesInv'
    BY <1>10 DEF AwaitTimesOut, FlowInv, SidesInv, Live, Side
  <1>11. ASSUME CancelSucceeds
        PROVE  SidesInv'
    <2>1. placed \in Ids /\ \A p \in Ids : ord'[p].side = ord[p].side
      BY <1>11, DeadOrder DEF CancelSucceeds, Live
    <2>2. /\ call' = call /\ entered' = entered /\ remembered' = 0 /\ entered
      BY <1>11 DEF CancelSucceeds, FlowInv
    <2> QED
      BY <2>1, <2>2 DEF SidesInv
  <1>12. ASSUME NEW effect \in BOOLEAN, CancelRaises(effect)
        PROVE  SidesInv'
    BY <1>12, DeadOrder DEF CancelRaises, FlowInv, SidesInv, Live, Side
  <1>13. ASSUME NEW outcome \in Outcomes, Resolve(outcome)
        PROVE  SidesInv'
    <2>1. CASE outcome = "filled"
      BY <1>13, FillEnds, GivesUp, <2>1 DEF Resolve, FlowInv, SidesInv, Side, Resolutions,
         Order, Live
    <2>2. CASE outcome = "gone"
      BY <1>13, FillEnds, GivesUp, <2>2 DEF Resolve, FlowInv, SidesInv, Side, Resolutions,
         Order, Live
    <2>3. CASE outcome = "unknown"
      BY <1>13, FillEnds, GivesUp, <2>3 DEF Resolve, FlowInv, SidesInv, Side, Resolutions,
         Order, Live
    <2> QED
      BY <1>13, <2>1, <2>2, <2>3 DEF Outcomes
  <1>14. ASSUME AskFails
        PROVE  SidesInv'
    BY <1>14, NoneEnds DEF AskFails, FlowInv, SidesInv, Live, Side
  <1>15. ASSUME AskPosition
        PROVE  SidesInv'
    BY <1>15, FillEnds, NoneEnds DEF AskPosition, FlowInv, SidesInv, Live, Side,
       Quantity
  <1>16. ASSUME NEW o \in Ids, NEW k \in 1..N, Fills(o, k)
        PROVE  SidesInv'
    BY <1>16, FilledOrder DEF Fills, FlowInv, SidesInv, Live, Side
  <1>17. ASSUME NEW o \in Ids, Expires(o)
        PROVE  SidesInv'
    <2>1. /\ \A p \in Ids : ord'[p].side = ord[p].side
          /\ ord[o].live /\ Live' \subseteq Live
      BY <1>17, DeadOrder DEF Expires, Live
    <2>2. /\ call' = call /\ entered' = entered /\ remembered' = remembered
          /\ tracked' = tracked /\ held' = held
      BY <1>17 DEF Expires
    <2> QED
      BY <2>1, <2>2 DEF SidesInv
  <1>18. CASE UNCHANGED vars
    BY <1>18 DEF vars, SidesInv, Live
  <1> QED
    BY <1>1, <1>2, <1>3, <1>4, <1>5, <1>6, <1>7, <1>8, <1>9, <1>10, <1>11, <1>12, <1>13,
       <1>14, <1>15, <1>16, <1>17, <1>18 DEF Next, Outcomes

-----------------------------------------------------------------------------
(* What is said of the executions without lost answers and partial fills.    *)

\* A working order stays the remembered one.
LEMMA LiveStep ==
    TypeInv /\ FlowInv /\ SidesInv /\ LiveInv /\ OpenInv /\ CloseInv /\ [Next]_vars /\ Clean' => LiveInv'
  <1> SUFFICES ASSUME TypeInv, FlowInv, SidesInv, LiveInv, OpenInv, CloseInv, [Next]_vars, Clean'
               PROVE  LiveInv'
    OBVIOUS
  <1> USE DEF TypeInv, TypeOK, AtOrder, Ended, Goto, Stay, ladder, belief, exchange
  <1>1. ASSUME NEW known \in BOOLEAN, OpenStarts(known)
       PROVE  LiveInv'
    BY <1>1 DEF OpenStarts, FlowInv, SidesInv, Live, Side, Quantity, LiveInv
  <1>2. ASSUME CloseStarts
       PROVE  LiveInv'
    BY <1>2 DEF CloseStarts, FlowInv, SidesInv, Live, Side, LiveInv
  <1>3. ASSUME NEW outcome \in Outcomes, CheckRemembered(outcome)
       PROVE  LiveInv'
    BY <1>3, FillEnds, NoneEnds DEF CheckRemembered, FlowInv, SidesInv, Live, Side,
       Outcomes, Resolutions, LiveInv
  <1>4. ASSUME NEW o \in Ids, PlaceAccepted(o)
       PROVE  LiveInv'
    <2>1. Live = {}
      BY <1>4 DEF PlaceAccepted, AtRung, FlowInv, LiveInv, Live, Ids
    <2>2. /\ ord'[o].left = N
          /\ \A p \in Ids \ {o} : ord'[p] = ord[p]
      BY <1>4, NewOrder DEF PlaceAccepted
    <2>3. Live' \subseteq {o}
      BY <2>1, <2>2 DEF Live
    <2> QED
      BY <1>4, <2>2, <2>3 DEF PlaceAccepted, LiveInv
  <1>5. ASSUME NEW o \in Ids, PlaceRejected(o)
       PROVE  LiveInv'
    <2>1. CASE call = "open"
      BY <1>5, NoneEnds, <2>1 DEF PlaceRejected, LiveInv, Live
    <2>2. CASE call # "open"
      <3>1. Live = {}
        BY <1>5, NoneEnds DEF PlaceRejected, AtRung, FlowInv, LiveInv, Live, Ids
      <3>2. /\ ord'[o].live = FALSE
            /\ \A p \in Ids \ {o} : ord'[p] = ord[p]
        BY <1>5, NoneEnds, <2>2, NewOrder DEF PlaceRejected
      <3>3. Live' = {}
        BY <3>1, <3>2 DEF Live
      <3> QED
        BY <3>3 DEF LiveInv
    <2> QED
      BY <2>1, <2>2
  <1>6. ASSUME PlaceRaises
       PROVE  LiveInv'
    BY <1>6, GivesUp DEF PlaceRaises, FlowInv, SidesInv, Live, Side, AtRung, LiveInv
  <1>7. ASSUME NEW o \in Ids, PlaceAnswerLost(o)
       PROVE  LiveInv'
    BY <1>7, NewOrder, GivesUp DEF PlaceAnswerLost, FlowInv, SidesInv, Live, Side,
       AtRung, Slots, Clean, LiveInv
  <1>8. ASSUME LadderEnds
       PROVE  LiveInv'
    BY <1>8, GivesUp DEF LadderEnds, FlowInv, SidesInv, Live, Side, LiveInv
  <1>9. ASSUME AwaitSeesFill
       PROVE  LiveInv'
    BY <1>9, FillEnds DEF AwaitSeesFill, FlowInv, SidesInv, Live, Side, LiveInv
  <1>10. ASSUME AwaitTimesOut
        PROVE  LiveInv'
    BY <1>10 DEF AwaitTimesOut, FlowInv, SidesInv, Live, Side, LiveInv
  <1>11. ASSUME CancelSucceeds
        PROVE  LiveInv'
    <2>1. placed \in Ids /\ Live \subseteq {placed}
      BY <1>11 DEF CancelSucceeds, FlowInv, LiveInv
    <2>2. /\ ord'[placed].live = FALSE
          /\ \A p \in Ids \ {placed} : ord'[p] = ord[p]
      BY <1>11, <2>1, DeadOrder DEF CancelSucceeds
    <2>3. Live' = {}
      BY <2>1, <2>2 DEF Live
    <2> QED
      BY <2>3 DEF LiveInv
  <1>12. ASSUME NEW effect \in BOOLEAN, CancelRaises(effect)
        PROVE  LiveInv'
    BY <1>12, DeadOrder DEF CancelRaises, FlowInv, SidesInv, Live, Side, LiveInv
  <1>13. ASSUME NEW outcome \in Outcomes, Resolve(outcome)
        PROVE  LiveInv'
    <2>1. CASE outcome = "filled"
      BY <1>13, FillEnds, GivesUp, <2>1 DEF Resolve, FlowInv, SidesInv, Live, Side,
         Outcomes, Resolutions, LiveInv
    <2>2. CASE outcome = "gone"
      BY <1>13, FillEnds, GivesUp, <2>2 DEF Resolve, FlowInv, SidesInv, Live, Side,
         Outcomes, Resolutions, LiveInv
    <2>3. CASE outcome = "unknown"
      BY <1>13, FillEnds, GivesUp, <2>3 DEF Resolve, FlowInv, SidesInv, Live, Side,
         Outcomes, Resolutions, LiveInv
    <2> QED
      BY <1>13, <2>1, <2>2, <2>3 DEF Outcomes
  <1>14. ASSUME AskFails
        PROVE  LiveInv'
    BY <1>14, NoneEnds DEF AskFails, FlowInv, SidesInv, Live, Side, LiveInv
  <1>15. ASSUME AskPosition
        PROVE  LiveInv'
    <2>1. CASE ~PositionSaysFilled
      BY <1>15, FillEnds, NoneEnds, <2>1 DEF AskPosition, LiveInv, Live
    <2>2. CASE PositionSaysFilled
      <3>1. CASE call = "open"
        <4>1. held # 0
          BY <1>15, FillEnds, NoneEnds, <2>2, <3>1 DEF PositionSaysFilled, Quantity, FlowInv
        <4>2. Live = {}
          BY <3>1, <4>1 DEF OpenInv
        <4> QED
          BY <1>15, FillEnds, NoneEnds, <4>2 DEF AskPosition, LiveInv, Live
      <3>2. CASE call # "open"
        <4>1. call = "close"
          BY <1>15, FillEnds, NoneEnds, <3>2 DEF AskPosition, FlowInv
        <4>2. Live = {}
          BY <1>15, FillEnds, NoneEnds, <4>1 DEF AskPosition, FlowInv, LiveInv, Live, Ids
        <4> QED
          BY <1>15, FillEnds, NoneEnds, <4>2 DEF AskPosition, LiveInv, Live
      <3> QED
        BY <3>1, <3>2
    <2> QED
      BY <2>1, <2>2
  <1>16. ASSUME NEW o \in Ids, NEW k \in 1..N, Fills(o, k)
        PROVE  LiveInv'
    <2>1. o \in Live /\ k <= ord[o].left /\ remembered' = remembered
      BY <1>16 DEF Fills
    <2>2. /\ ord'[o].left = ord[o].left - k /\ ord'[o].live = (k < ord[o].left)
          /\ \A p \in Ids \ {o} : ord'[p] = ord[p]
      BY <1>16, FilledOrder
    <2>3. ~(k < ord[o].left)
      BY <1>16 DEF Fills, Clean
    <2>4. ~ord'[o].live
      <3>1. ord'[o].live = (k < ord[o].left)
        BY <2>2
      <3> QED
        BY <2>3, <3>1, Zenon
    <2>5. Live' \subseteq Live \ {o}
      BY <2>2, <2>4 DEF Live
    <2> QED
      BY <2>1, <2>2, <2>5 DEF LiveInv, Live
  <1>17. ASSUME NEW o \in Ids, Expires(o)
        PROVE  LiveInv'
    <2>1. /\ ord'[o].live = FALSE
          /\ \A p \in Ids \ {o} : ord'[p] = ord[p]
      BY <1>17, DeadOrder DEF Expires
    <2>2. remembered' = remembered
      BY <1>17 DEF Expires
    <2>3. Live' = Live \ {o}
      BY <2>1 DEF Live
    <2> QED
      BY <2>1, <2>2, <2>3 DEF LiveInv, Live
  <1>18. CASE UNCHANGED vars
    BY <1>18 DEF vars, LiveInv, Live, Clean
  <1> QED
    BY <1>1, <1>2, <1>3, <1>4, <1>5, <1>6, <1>7, <1>8, <1>9, <1>10, <1>11, <1>12, <1>13,
       <1>14, <1>15, <1>16, <1>17, <1>18 DEF Next, Outcomes

\* The contracts held go with the entry order.
LEMMA OpenStep ==
    TypeInv /\ FlowInv /\ SidesInv /\ LiveInv /\ OpenInv /\ CloseInv /\ [Next]_vars /\ Clean' => OpenInv'
  <1> SUFFICES ASSUME TypeInv, FlowInv, SidesInv, LiveInv, OpenInv, CloseInv, [Next]_vars, Clean'
               PROVE  OpenInv'
    OBVIOUS
  <1> USE DEF TypeInv, TypeOK, AtOrder, Ended, Goto, Stay, ladder, belief, exchange
  <1>1. ASSUME NEW known \in BOOLEAN, OpenStarts(known)
       PROVE  OpenInv'
    BY <1>1 DEF OpenStarts, FlowInv, SidesInv, Live, Side, Quantity, OpenInv, LiveInv
  <1>2. ASSUME CloseStarts
       PROVE  OpenInv'
    BY <1>2 DEF CloseStarts, FlowInv, SidesInv, Live, Side, OpenInv, LiveInv
  <1>3. ASSUME NEW outcome \in Outcomes, CheckRemembered(outcome)
       PROVE  OpenInv'
    BY <1>3, FillEnds, NoneEnds DEF CheckRemembered, FlowInv, SidesInv, Live, Side,
       Outcomes, Resolutions, OpenInv, LiveInv
  <1>4. ASSUME NEW o \in Ids, PlaceAccepted(o)
       PROVE  OpenInv'
    BY <1>4, NewOrder DEF PlaceAccepted, FlowInv, SidesInv, Live, Side, AtRung, Slots,
       OpenInv, LiveInv
  <1>5. ASSUME NEW o \in Ids, PlaceRejected(o)
       PROVE  OpenInv'
    BY <1>5, NewOrder, NoneEnds DEF PlaceRejected, FlowInv, SidesInv, Live, Side,
       AtRung, Slots, OpenInv, LiveInv
  <1>6. ASSUME PlaceRaises
       PROVE  OpenInv'
    BY <1>6, GivesUp DEF PlaceRaises, FlowInv, SidesInv, Live, Side, AtRung, OpenInv,
       LiveInv
  <1>7. ASSUME NEW o \in Ids, PlaceAnswerLost(o)
       PROVE  OpenInv'
    BY <1>7, NewOrder, GivesUp DEF PlaceAnswerLost, FlowInv, SidesInv, Live, Side,
       AtRung, Slots, Clean, OpenInv, LiveInv
  <1>8. ASSUME LadderEnds
       PROVE  OpenInv'
    BY <1>8, GivesUp DEF LadderEnds, FlowInv, SidesInv, Live, Side, OpenInv, LiveInv
  <1>9. ASSUME AwaitSeesFill
       PROVE  OpenInv'
    BY <1>9, FillEnds DEF AwaitSeesFill, FlowInv, SidesInv, Live, Side, OpenInv, LiveInv
  <1>10. ASSUME AwaitTimesOut
        PROVE  OpenInv'
    BY <1>10 DEF AwaitTimesOut, FlowInv, SidesInv, Live, Side, OpenInv, LiveInv
  <1>11. ASSUME CancelSucceeds
        PROVE  OpenInv'
    BY <1>11, DeadOrder DEF CancelSucceeds, FlowInv, SidesInv, Live, Side, OpenInv,
       LiveInv
  <1>12. ASSUME NEW effect \in BOOLEAN, CancelRaises(effect)
        PROVE  OpenInv'
    BY <1>12, DeadOrder DEF CancelRaises, FlowInv, SidesInv, Live, Side, OpenInv,
       LiveInv
  <1>13. ASSUME NEW outcome \in Outcomes, Resolve(outcome)
        PROVE  OpenInv'
    <2>1. CASE outcome = "filled"
      BY <1>13, FillEnds, GivesUp, <2>1 DEF Resolve, FlowInv, SidesInv, Live, Side,
         Outcomes, Resolutions, OpenInv, LiveInv
    <2>2. CASE outcome = "gone"
      BY <1>13, FillEnds, GivesUp, <2>2 DEF Resolve, FlowInv, SidesInv, Live, Side,
         Outcomes, Resolutions, OpenInv, LiveInv
    <2>3. CASE outcome = "unknown"
      BY <1>13, FillEnds, GivesUp, <2>3 DEF Resolve, FlowInv, SidesInv, Live, Side,
         Outcomes, Resolutions, OpenInv, LiveInv
    <2> QED
      BY <1>13, <2>1, <2>2, <2>3 DEF Outcomes
  <1>14. ASSUME AskFails
        PROVE  OpenInv'
    BY <1>14, NoneEnds DEF AskFails, FlowInv, SidesInv, Live, Side, OpenInv, LiveInv
  <1>15. ASSUME AskPosition
        PROVE  OpenInv'
    BY <1>15, FillEnds, NoneEnds DEF AskPosition, FlowInv, SidesInv, Live, Side,
       Quantity, OpenInv, LiveInv, PositionSaysFilled
  <1>16. ASSUME NEW o \in Ids, NEW k \in 1..N, Fills(o, k)
        PROVE  OpenInv'
    <2> SUFFICES ASSUME call' = "open"
                 PROVE  OpenInv'
      BY DEF OpenInv
    <2>1. call = "open" /\ o \in Live
      BY <1>16 DEF Fills
    <2>2. held = 0 /\ ord[o].left = N /\ ord[o].side = "buy"
      BY <2>1 DEF OpenInv, LiveInv, SidesInv
    <2>3. k = N
      BY <1>16, <2>2 DEF Fills, Clean
    <2>4. held' = N /\ ~ord'[o].live
      <3>1. held' = N
        BY <1>16, <2>2, <2>3 DEF Fills
      <3>2. ~(k < ord[o].left)
        BY <2>2, <2>3
      <3>3. ord'[o].live = (k < ord[o].left)
        BY <1>16, FilledOrder
      <3> QED
        BY <3>1, <3>2, <3>3, Zenon
    <2>5. Live' = {}
      <3>1. Live \subseteq {o}
        BY <2>1 DEF LiveInv
      <3>2. \A p \in Ids \ {o} : ord'[p] = ord[p]
        BY <1>16, FilledOrder
      <3> QED
        BY <2>4, <3>1, <3>2 DEF Live
    <2>6. pc' # "place"
      BY <1>16, <2>1 DEF Fills, FlowInv, LiveInv, Live, Ids
    <2> QED
      BY <2>4, <2>5, <2>6 DEF OpenInv
  <1>17. ASSUME NEW o \in Ids, Expires(o)
        PROVE  OpenInv'
    BY <1>17, DeadOrder DEF Expires, FlowInv, SidesInv, Live, Side, OpenInv, LiveInv
  <1>18. CASE UNCHANGED vars
    BY <1>18 DEF vars, OpenInv, Live, Clean
  <1> QED
    BY <1>1, <1>2, <1>3, <1>4, <1>5, <1>6, <1>7, <1>8, <1>9, <1>10, <1>11, <1>12, <1>13,
       <1>14, <1>15, <1>16, <1>17, <1>18 DEF Next, Outcomes

\* The contracts held go with the exit orders.
LEMMA CloseStep ==
    TypeInv /\ FlowInv /\ SidesInv /\ LiveInv /\ OpenInv /\ CloseInv /\ [Next]_vars /\ Clean' => CloseInv'
  <1> SUFFICES ASSUME TypeInv, FlowInv, SidesInv, LiveInv, OpenInv, CloseInv, [Next]_vars, Clean'
               PROVE  CloseInv'
    OBVIOUS
  <1> USE DEF TypeInv, TypeOK, AtOrder, Ended, Goto, Stay, ladder, belief, exchange
  <1>1. ASSUME NEW known \in BOOLEAN, OpenStarts(known)
       PROVE  CloseInv'
    BY <1>1 DEF OpenStarts, FlowInv, SidesInv, Live, Side, Quantity, CloseInv, LiveInv
  <1>2. ASSUME CloseStarts
       PROVE  CloseInv'
    BY <1>2 DEF CloseStarts, FlowInv, SidesInv, Live, Side, CloseInv, LiveInv
  <1>3. ASSUME NEW outcome \in Outcomes, CheckRemembered(outcome)
       PROVE  CloseInv'
    BY <1>3, FillEnds, NoneEnds DEF CheckRemembered, FlowInv, SidesInv, Live, Side,
       Outcomes, Resolutions, CloseInv, LiveInv
  <1>4. ASSUME NEW o \in Ids, PlaceAccepted(o)
       PROVE  CloseInv'
    <2>1. /\ o \in Slots /\ ord'[o].side = Side /\ ord'[o].live = TRUE /\ ord'[o].left = N
          /\ \A p \in Ids \ {o} : ord'[p] = ord[p]
      BY <1>4, NewOrder DEF PlaceAccepted
    <2>2. held' = held /\ tracked' = tracked /\ N > 0
      BY <1>4 DEF PlaceAccepted
    <2>3. \A p \in Ids : ord'[p].left = 0 => ord'[p] = ord[p]
      BY <2>1, <2>2
    <2> QED
      BY <2>2, <2>3 DEF CloseInv
  <1>5. ASSUME NEW o \in Ids, PlaceRejected(o)
       PROVE  CloseInv'
    BY <1>5, NewOrder, NoneEnds DEF PlaceRejected, FlowInv, SidesInv, Live, Side,
       AtRung, Slots, CloseInv, LiveInv
  <1>6. ASSUME PlaceRaises
       PROVE  CloseInv'
    BY <1>6, GivesUp DEF PlaceRaises, FlowInv, SidesInv, Live, Side, AtRung, CloseInv,
       LiveInv
  <1>7. ASSUME NEW o \in Ids, PlaceAnswerLost(o)
       PROVE  CloseInv'
    BY <1>7, NewOrder, GivesUp DEF PlaceAnswerLost, FlowInv, SidesInv, Live, Side,
       AtRung, Slots, Clean, CloseInv, LiveInv
  <1>8. ASSUME LadderEnds
       PROVE  CloseInv'
    BY <1>8, GivesUp DEF LadderEnds, FlowInv, SidesInv, Live, Side, CloseInv, LiveInv
  <1>9. ASSUME AwaitSeesFill
       PROVE  CloseInv'
    <2>1. CASE call = "open"
      <3>1. held = N
        BY <1>9, FillEnds, <2>1 DEF AwaitSeesFill, OpenInv
      <3>2. \A p \in Ids : ord[p].side = "buy"
        BY <2>1 DEF SidesInv
      <3> QED
        BY <1>9, FillEnds, <3>1, <3>2 DEF AwaitSeesFill, CloseInv
    <2>2. CASE call # "open"
      BY <1>9, FillEnds, <2>2 DEF AwaitSeesFill, CloseInv
    <2> QED
      BY <2>1, <2>2
  <1>10. ASSUME AwaitTimesOut
        PROVE  CloseInv'
    BY <1>10 DEF AwaitTimesOut, FlowInv, SidesInv, Live, Side, CloseInv, LiveInv
  <1>11. ASSUME CancelSucceeds
        PROVE  CloseInv'
    <2>1. \A p \in Ids : ord'[p].side = ord[p].side /\ ord'[p].left = ord[p].left
      BY <1>11, DeadOrder DEF CancelSucceeds, Live
    <2> QED
      BY <1>11, <2>1 DEF CancelSucceeds, CloseInv
  <1>12. ASSUME NEW effect \in BOOLEAN, CancelRaises(effect)
        PROVE  CloseInv'
    <2>1. \A p \in Ids : ord'[p].side = ord[p].side /\ ord'[p].left = ord[p].left
      BY <1>12, DeadOrder DEF CancelRaises, Live
    <2> QED
      BY <1>12, <2>1 DEF CancelRaises, CloseInv
  <1>13. ASSUME NEW outcome \in Outcomes, Resolve(outcome)
        PROVE  CloseInv'
    <2>1. CASE outcome = "filled" /\ call = "open"
      <3>1. ord[placed].left = 0 /\ AtOrder
        BY <1>13, <2>1 DEF Resolve, Resolutions
      <3>2. held = N
        BY <2>1, <3>1 DEF OpenInv
      <3>3. \A p \in Ids : ord[p].side = "buy"
        BY <2>1 DEF SidesInv
      <3> QED
        BY <1>13, FillEnds, GivesUp, <2>1, <3>2, <3>3 DEF Resolve, CloseInv
    <2>2. CASE outcome = "filled" /\ call # "open"
      BY <1>13, FillEnds, GivesUp, <2>2 DEF Resolve, CloseInv
    <2>3. CASE outcome = "gone"
      BY <1>13, FillEnds, GivesUp, <2>3 DEF Resolve, CloseInv
    <2>4. CASE outcome = "unknown"
      BY <1>13, FillEnds, GivesUp, <2>4 DEF Resolve, CloseInv
    <2> QED
      BY <1>13, <2>1, <2>2, <2>3, <2>4 DEF Outcomes
  <1>14. ASSUME AskFails
        PROVE  CloseInv'
    BY <1>14, NoneEnds DEF AskFails, FlowInv, SidesInv, Live, Side, CloseInv, LiveInv
  <1>15. ASSUME AskPosition
        PROVE  CloseInv'
    <2>1. CASE call = "open" /\ PositionSaysFilled
      <3>1. held = N
        BY <2>1 DEF PositionSaysFilled, Quantity, FlowInv, OpenInv
      <3>2. \A p \in Ids : ord[p].side = "buy"
        BY <2>1 DEF SidesInv
      <3> QED
        BY <1>15, FillEnds, NoneEnds, <3>1, <3>2 DEF AskPosition, CloseInv
    <2>2. CASE call # "open" /\ PositionSaysFilled
      BY <1>15, FillEnds, NoneEnds, <2>2 DEF AskPosition, CloseInv
    <2>3. CASE ~PositionSaysFilled
      BY <1>15, FillEnds, NoneEnds, <2>3 DEF AskPosition, CloseInv
    <2> QED
      BY <2>1, <2>2, <2>3
  <1>16. ASSUME NEW o \in Ids, NEW k \in 1..N, Fills(o, k)
        PROVE  CloseInv'
    <2> SUFFICES ASSUME tracked'
                 PROVE  CloseInv'
      BY DEF CloseInv
    <2>1. tracked /\ o \in Live /\ o \in Ids
      BY <1>16 DEF Fills, Live
    <2>2. o = remembered /\ ord[o].left = N
      BY <2>1 DEF LiveInv
    <2>3. ord[o].side = "sell"
      BY <2>1, <2>2 DEF SidesInv, Ids
    <2>4. k = N
      BY <1>16, <2>2 DEF Fills, Clean
    <2>5. held' = held - N
      BY <1>16, <2>3, <2>4 DEF Fills
    <2>6. held' <= 0
      BY <2>1, <2>5 DEF CloseInv
    <2> QED
      BY <2>6 DEF CloseInv
  <1>17. ASSUME NEW o \in Ids, Expires(o)
        PROVE  CloseInv'
    <2>1. \A p \in Ids : ord'[p].side = ord[p].side /\ ord'[p].left = ord[p].left
      BY <1>17, DeadOrder DEF Expires, Live
    <2> QED
      BY <1>17, <2>1 DEF Expires, CloseInv
  <1>18. CASE UNCHANGED vars
    BY <1>18 DEF vars, CloseInv, Live, Clean
  <1> QED
    BY <1>1, <1>2, <1>3, <1>4, <1>5, <1>6, <1>7, <1>8, <1>9, <1>10, <1>11, <1>12, <1>13,
       <1>14, <1>15, <1>16, <1>17, <1>18 DEF Next, Outcomes

-----------------------------------------------------------------------------
(* The theorems.                                                           *)

LEMMA AllInit == Init => IInv
  <1> SUFFICES ASSUME Init PROVE IInv
    OBVIOUS
  <1>1. TypeInv
    BY TypeInit
  <1>2. Live = {} /\ \A o \in Ids : ord[o].side = "buy"
    BY DEF Init, Live, NoOrder
  <1>3. FlowInv
    BY DEF Init, FlowInv, AtOrder
  <1>4. SidesInv
    BY <1>2 DEF Init, SidesInv
  <1>5. LiveInv
    BY <1>2 DEF LiveInv
  <1>6. OpenInv
    BY DEF Init, OpenInv
  <1>7. CloseInv
    BY DEF Init, CloseInv
  <1> QED
    BY <1>1, <1>3, <1>4, <1>5, <1>6, <1>7 DEF IInv, CleanInv

\* A lost answer stays lost, and a partial fill stays partial.
LEMMA CleanLasts == TypeInv /\ [Next]_vars /\ Clean' => Clean
  <1> SUFFICES ASSUME TypeInv, [Next]_vars
               PROVE  (lost => lost') /\ (partial => partial')
    BY DEF Clean
  <1> USE DEF exchange
  <1>1. ASSUME NEW known \in BOOLEAN, OpenStarts(known)
       PROVE  (lost => lost') /\ (partial => partial')
    BY <1>1 DEF OpenStarts
  <1>2. ASSUME CloseStarts
       PROVE  (lost => lost') /\ (partial => partial')
    BY <1>2 DEF CloseStarts
  <1>3. ASSUME NEW outcome \in Outcomes, CheckRemembered(outcome)
       PROVE  (lost => lost') /\ (partial => partial')
    BY <1>3 DEF CheckRemembered
  <1>4. ASSUME NEW o \in Ids, PlaceAccepted(o)
       PROVE  (lost => lost') /\ (partial => partial')
    BY <1>4 DEF PlaceAccepted
  <1>5. ASSUME NEW o \in Ids, PlaceRejected(o)
       PROVE  (lost => lost') /\ (partial => partial')
    BY <1>5 DEF PlaceRejected
  <1>6. ASSUME PlaceRaises
       PROVE  (lost => lost') /\ (partial => partial')
    BY <1>6 DEF PlaceRaises
  <1>7. ASSUME NEW o \in Ids, PlaceAnswerLost(o)
       PROVE  (lost => lost') /\ (partial => partial')
    BY <1>7 DEF PlaceAnswerLost
  <1>8. ASSUME LadderEnds
       PROVE  (lost => lost') /\ (partial => partial')
    BY <1>8 DEF LadderEnds
  <1>9. ASSUME AwaitSeesFill
       PROVE  (lost => lost') /\ (partial => partial')
    BY <1>9 DEF AwaitSeesFill
  <1>10. ASSUME AwaitTimesOut
        PROVE  (lost => lost') /\ (partial => partial')
    BY <1>10 DEF AwaitTimesOut
  <1>11. ASSUME CancelSucceeds
        PROVE  (lost => lost') /\ (partial => partial')
    BY <1>11 DEF CancelSucceeds
  <1>12. ASSUME NEW effect \in BOOLEAN, CancelRaises(effect)
        PROVE  (lost => lost') /\ (partial => partial')
    BY <1>12 DEF CancelRaises
  <1>13. ASSUME NEW outcome \in Outcomes, Resolve(outcome)
        PROVE  (lost => lost') /\ (partial => partial')
    BY <1>13 DEF Resolve
  <1>14. ASSUME AskFails
        PROVE  (lost => lost') /\ (partial => partial')
    BY <1>14 DEF AskFails
  <1>15. ASSUME AskPosition
        PROVE  (lost => lost') /\ (partial => partial')
    BY <1>15 DEF AskPosition
  <1>16. ASSUME NEW o \in Ids, NEW k \in 1..N, Fills(o, k)
        PROVE  (lost => lost') /\ (partial => partial')
    BY <1>16 DEF Fills
  <1>17. ASSUME NEW o \in Ids, Expires(o)
        PROVE  (lost => lost') /\ (partial => partial')
    BY <1>17 DEF Expires
  <1>18. CASE UNCHANGED vars
    BY <1>18 DEF vars
  <1> QED
    BY <1>1, <1>2, <1>3, <1>4, <1>5, <1>6, <1>7, <1>8, <1>9, <1>10, <1>11, <1>12, <1>13,
       <1>14, <1>15, <1>16, <1>17, <1>18 DEF Next, Outcomes

LEMMA AllStep == IInv /\ [Next]_vars => IInv'
  <1> SUFFICES ASSUME IInv, [Next]_vars
               PROVE  IInv'
    OBVIOUS
  <1>1. TypeInv' /\ FlowInv' /\ SidesInv'
    BY TypeStep, FlowStep, SidesStep DEF IInv
  <1>2. CleanInv'
    <2> SUFFICES ASSUME Clean'
                 PROVE  LiveInv' /\ OpenInv' /\ CloseInv'
      BY DEF CleanInv
    <2>1. LiveInv /\ OpenInv /\ CloseInv
      BY CleanLasts DEF IInv, CleanInv
    <2> QED
      BY <2>1, LiveStep, OpenStep, CloseStep DEF IInv
  <1> QED
    BY <1>1, <1>2 DEF IInv

THEOREM LadderInvariant == Spec => []IInv
  BY AllInit, AllStep, PTL DEF Spec

\* Unless an answer was lost or an order filled in part, a trade never has two
\* working orders, however cancels, fills and polls race.
THEOREM NeverTwoLiveTheorem == Spec => []NeverTwoLive
  <1>1. IInv => NeverTwoLive
    <2> SUFFICES ASSUME IInv, Clean
                 PROVE  Cardinality(Live) <= 1
      BY DEF NeverTwoLive
    <2>1. Live \subseteq {remembered}
      BY DEF IInv, CleanInv, LiveInv
    <2>2. Cardinality({remembered}) = 1 /\ IsFiniteSet({remembered})
      BY FS_Singleton
    <2>3. Cardinality(Live) <= Cardinality({remembered})
      BY <2>1, <2>2, FS_Subset
    <2> QED
      BY <2>2, <2>3
  <1> QED
    BY <1>1, LadderInvariant, PTL

\* Under the same condition, an order that still works when a call is over is
\* the one the adapter remembers.
THEOREM StrandedTheorem == Spec => []StrandedIsRemembered
  <1>1. IInv => StrandedIsRemembered
    BY DEF IInv, CleanInv, LiveInv, StrandedIsRemembered
  <1> QED
    BY <1>1, LadderInvariant, PTL

\* A step that registers the position finds all its contracts held.
LEMMA FilledStep ==
    IInv /\ [Next]_vars => (~tracked /\ tracked' /\ Clean => held' = N)
  <1> SUFFICES ASSUME IInv, [Next]_vars, ~tracked, tracked', Clean
               PROVE  held' = N
    OBVIOUS
  <1> USE DEF belief, Stay
  <1>0. TypeOK /\ FlowInv /\ SidesInv /\ LiveInv /\ OpenInv /\ CloseInv
    BY DEF IInv, CleanInv, TypeInv
  <1>1. ASSUME NEW known \in BOOLEAN, OpenStarts(known)
       PROVE  held' = N
    BY <1>1 DEF OpenStarts
  <1>2. ASSUME CloseStarts
       PROVE  held' = N
    BY <1>2 DEF CloseStarts
  <1>3. ASSUME NEW outcome \in Outcomes, CheckRemembered(outcome)
       PROVE  held' = N
    BY <1>3, <1>0, FillEnds, NoneEnds DEF CheckRemembered, FlowInv, Outcomes
  <1>4. ASSUME NEW o \in Ids, PlaceAccepted(o)
       PROVE  held' = N
    BY <1>4 DEF PlaceAccepted
  <1>5. ASSUME NEW o \in Ids, PlaceRejected(o)
       PROVE  held' = N
    BY <1>5, NoneEnds DEF PlaceRejected
  <1>6. ASSUME PlaceRaises
       PROVE  held' = N
    BY <1>6, GivesUp DEF PlaceRaises
  <1>7. ASSUME NEW o \in Ids, PlaceAnswerLost(o)
       PROVE  held' = N
    BY <1>7, GivesUp DEF PlaceAnswerLost
  <1>8. ASSUME LadderEnds
       PROVE  held' = N
    BY <1>8, GivesUp DEF LadderEnds
  <1>9. ASSUME AwaitSeesFill
       PROVE  held' = N
    <2>1. call = "open"
      BY <1>9, FillEnds DEF AwaitSeesFill
    <2> QED
      BY <1>9, <1>0, <2>1 DEF AwaitSeesFill, AtOrder, OpenInv, exchange
  <1>10. ASSUME AwaitTimesOut
        PROVE  held' = N
    BY <1>10 DEF AwaitTimesOut
  <1>11. ASSUME CancelSucceeds
        PROVE  held' = N
    BY <1>11 DEF CancelSucceeds
  <1>12. ASSUME NEW effect \in BOOLEAN, CancelRaises(effect)
        PROVE  held' = N
    BY <1>12 DEF CancelRaises
  <1>13. ASSUME NEW outcome \in Outcomes, Resolve(outcome)
        PROVE  held' = N
    <2>1. outcome = "filled" /\ call = "open"
      BY <1>13, FillEnds, GivesUp DEF Resolve, Outcomes
    <2>2. ord[placed].left = 0 /\ AtOrder
      BY <1>13, <2>1 DEF Resolve, Resolutions, AtOrder
    <2> QED
      BY <1>13, <1>0, <2>1, <2>2 DEF Resolve, OpenInv, exchange
  <1>14. ASSUME AskFails
        PROVE  held' = N
    BY <1>14, NoneEnds DEF AskFails
  <1>15. ASSUME AskPosition
        PROVE  held' = N
    <2>1. call = "open" /\ PositionSaysFilled
      BY <1>15, FillEnds, NoneEnds DEF AskPosition
    <2> QED
      BY <1>15, <1>0, <2>1 DEF AskPosition, PositionSaysFilled, Quantity, FlowInv,
         OpenInv, exchange
  <1>16. ASSUME NEW o \in Ids, NEW k \in 1..N, Fills(o, k)
        PROVE  held' = N
    BY <1>16 DEF Fills
  <1>17. ASSUME NEW o \in Ids, Expires(o)
        PROVE  held' = N
    BY <1>17 DEF Expires
  <1>18. CASE UNCHANGED vars
    BY <1>18 DEF vars
  <1> QED
    BY <1>1, <1>2, <1>3, <1>4, <1>5, <1>6, <1>7, <1>8, <1>9, <1>10, <1>11, <1>12, <1>13,
       <1>14, <1>15, <1>16, <1>17, <1>18 DEF Next, Outcomes

\* Under the same condition, a position is registered only when all its contracts
\* are held, whichever of its ways open_position comes to a fill.
THEOREM FilledTheorem == Spec => FilledMeansHeld
  <1>1. IInv /\ [Next]_vars => (~tracked /\ tracked' /\ Clean => held' = N)
    BY FilledStep
  <1> QED
    BY <1>1, LadderInvariant, PTL DEF Spec, FilledMeansHeld

\* A step that closes the position in the books leaves nothing of it held.
LEMMA ClosedStep ==
    IInv /\ [Next]_vars => (tracked /\ ~tracked' /\ Clean => held' <= 0)
  <1> SUFFICES ASSUME IInv, [Next]_vars, tracked, ~tracked', Clean
               PROVE  held' <= 0
    OBVIOUS
  <1> USE DEF belief, Stay
  <1>0. TypeOK /\ FlowInv /\ SidesInv /\ LiveInv /\ OpenInv /\ CloseInv
    BY DEF IInv, CleanInv, TypeInv
  <1>1. ASSUME NEW known \in BOOLEAN, OpenStarts(known)
       PROVE  held' <= 0
    BY <1>1 DEF OpenStarts
  <1>2. ASSUME CloseStarts
       PROVE  held' <= 0
    BY <1>2 DEF CloseStarts
  <1>3. ASSUME NEW outcome \in Outcomes, CheckRemembered(outcome)
       PROVE  held' <= 0
    <2>1. outcome = "filled"
      BY <1>3, NoneEnds DEF CheckRemembered, Outcomes
    <2>2. ord[remembered].left = 0 /\ remembered \in Ids
      BY <1>3, <1>0, <2>1 DEF CheckRemembered, Resolutions, TypeOK, FlowInv
    <2>3. ord[remembered].side = "sell"
      BY <1>0, <2>2 DEF SidesInv, Ids
    <2> QED
      BY <1>3, <1>0, <2>2, <2>3 DEF CheckRemembered, CloseInv, exchange
  <1>4. ASSUME NEW o \in Ids, PlaceAccepted(o)
       PROVE  held' <= 0
    BY <1>4 DEF PlaceAccepted
  <1>5. ASSUME NEW o \in Ids, PlaceRejected(o)
       PROVE  held' <= 0
    BY <1>5, NoneEnds DEF PlaceRejected
  <1>6. ASSUME PlaceRaises
       PROVE  held' <= 0
    BY <1>6, GivesUp DEF PlaceRaises
  <1>7. ASSUME NEW o \in Ids, PlaceAnswerLost(o)
       PROVE  held' <= 0
    BY <1>7, GivesUp DEF PlaceAnswerLost
  <1>8. ASSUME LadderEnds
       PROVE  held' <= 0
    BY <1>8, GivesUp DEF LadderEnds
  <1>9. ASSUME AwaitSeesFill
       PROVE  held' <= 0
    <2>1. call = "close"
      BY <1>9, <1>0 DEF AwaitSeesFill, TypeOK, FlowInv
    <2>2. placed \in Ids /\ ord[placed].side = "sell"
      BY <1>9, <1>0, <2>1 DEF AwaitSeesFill, AtOrder, FlowInv, Side
    <2> QED
      BY <1>9, <1>0, <2>2 DEF AwaitSeesFill, CloseInv, exchange
  <1>10. ASSUME AwaitTimesOut
        PROVE  held' <= 0
    BY <1>10 DEF AwaitTimesOut
  <1>11. ASSUME CancelSucceeds
        PROVE  held' <= 0
    BY <1>11 DEF CancelSucceeds
  <1>12. ASSUME NEW effect \in BOOLEAN, CancelRaises(effect)
        PROVE  held' <= 0
    BY <1>12 DEF CancelRaises
  <1>13. ASSUME NEW outcome \in Outcomes, Resolve(outcome)
        PROVE  held' <= 0
    <2>1. outcome = "filled" /\ call = "close"
      BY <1>13, <1>0, GivesUp DEF Resolve, Outcomes, TypeOK, FlowInv
    <2>2. placed \in Ids /\ ord[placed].side = "sell" /\ ord[placed].left = 0
      BY <1>13, <1>0, <2>1 DEF Resolve, Resolutions, AtOrder, FlowInv, Side
    <2> QED
      BY <1>13, <1>0, <2>2 DEF Resolve, CloseInv, exchange
  <1>14. ASSUME AskFails
        PROVE  held' <= 0
    BY <1>14, NoneEnds DEF AskFails
  <1>15. ASSUME AskPosition
        PROVE  held' <= 0
    <2>1. call = "close" /\ PositionSaysFilled
      BY <1>15, <1>0, NoneEnds DEF AskPosition, TypeOK, FlowInv
    <2>2. held # N
      BY <2>1 DEF PositionSaysFilled, Quantity
    <2> QED
      BY <1>15, <1>0, <2>2 DEF AskPosition, CloseInv, exchange
  <1>16. ASSUME NEW o \in Ids, NEW k \in 1..N, Fills(o, k)
        PROVE  held' <= 0
    BY <1>16 DEF Fills
  <1>17. ASSUME NEW o \in Ids, Expires(o)
        PROVE  held' <= 0
    BY <1>17 DEF Expires
  <1>18. CASE UNCHANGED vars
    BY <1>18 DEF vars
  <1> QED
    BY <1>1, <1>2, <1>3, <1>4, <1>5, <1>6, <1>7, <1>8, <1>9, <1>10, <1>11, <1>12, <1>13,
       <1>14, <1>15, <1>16, <1>17, <1>18 DEF Next, Outcomes

\* Under the same condition, a position is closed in the books only when nothing
\* of it is held, whichever of its ways close_position comes to a fill.
THEOREM ClosedTheorem == Spec => ClosedMeansFlat
  <1>1. IInv /\ [Next]_vars => (tracked /\ ~tracked' /\ Clean => held' <= 0)
    BY ClosedStep
  <1> QED
    BY <1>1, LadderInvariant, PTL DEF Spec, ClosedMeansFlat

=============================================================================
