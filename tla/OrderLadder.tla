---------------------------- MODULE OrderLadder ----------------------------
(***************************************************************************)
(* TastytradeBroker.open_position and close_position of godmode0dte/        *)
(* execution/broker.py for one approved trade, against an exchange that     *)
(* fills, cancels and rejects orders at any time and whose answers get      *)
(* lost.  A step is one call of the broker API with what follows it up to   *)
(* the next one.                                                           *)
(*                                                                         *)
(* An order keeps its place in ord until another is placed over it.  Prices *)
(* are left out: every rung may be filled or not.                          *)
(***************************************************************************)
EXTENDS Integers, FiniteSets

CONSTANTS
    N,          \* contracts of the trade
    MaxSteps,   \* execution.ladder_max_steps
    MaxOrders,  \* bound: orders kept at a time
    MaxShort    \* bound: contracts the exits may sell too many

ASSUME LadderAssumption ==
    /\ N \in Nat \ {0} /\ MaxSteps \in Nat /\ MaxOrders \in Nat \ {0}
    /\ MaxShort \in Nat

VARIABLES
    call,       \* the call in progress: "none", "open" or "close"
    pc,         \* what it does next
    rung,       \* step of the ladder
    before,     \* qty_before
    placed,     \* the order of this rung
    remembered, \* _live_orders[trade_id], 0 for none
    tracked,    \* the governor has the position
    entered,    \* the approval is spent
    ord,        \* exchange: the orders
    held,       \* exchange: contracts of the long leg, negative if short
    lost,       \* history: the answer to an accepted order was lost
    partial     \* history: an order was filled in part

ladder   == <<call, pc, rung, before, placed>>
belief   == <<remembered, tracked, entered>>
exchange == <<ord, held, partial>>
vars     == <<ladder, belief, exchange, lost>>

Ids     == 1..MaxOrders
Sides   == {"buy", "sell"}
NoOrder == [side |-> "buy", live |-> FALSE, left |-> N]
Live    == {o \in Ids : ord[o].live}
Side    == IF call = "open" THEN "buy" ELSE "sell"
Quantity == IF held < 0 THEN -held ELSE held        \* _leg_qty

TypeOK ==
    /\ call \in {"none", "open", "close"}
    /\ pc \in {"idle", "check", "place", "await", "cancel", "resolve", "ask"}
    /\ rung \in 0..MaxSteps + 1 /\ before \in Int
    /\ placed \in Ids \cup {0} /\ remembered \in Ids \cup {0}
    /\ tracked \in BOOLEAN /\ entered \in BOOLEAN
    /\ ord \in [Ids -> [side : Sides, live : BOOLEAN, left : 0..N]]
    /\ held \in Int /\ lost \in BOOLEAN /\ partial \in BOOLEAN

Init ==
    /\ call = "none" /\ pc = "idle" /\ rung = 0 /\ before = 0 /\ placed = 0
    /\ remembered = 0 /\ tracked = FALSE /\ entered = FALSE
    /\ ord = [o \in Ids |-> NoOrder] /\ held = 0
    /\ lost = FALSE /\ partial = FALSE

-----------------------------------------------------------------------------
(* How a call goes on, and how it ends.                                    *)

Goto(label) == pc' = label /\ UNCHANGED <<call, rung, before, placed>>

Return == call' = "none" /\ pc' = "idle" /\ rung' = 0 /\ before' = 0 /\ placed' = 0

\* A Fill: the entry is registered as a position, the exit closes it.
ReturnFill == Return /\ tracked' = (call = "open") /\ UNCHANGED entered

\* None: nothing changes for the governor.
ReturnNone == Return /\ UNCHANGED <<tracked, entered>>

Stay == UNCHANGED <<tracked, entered>>

\* After an error or at its end the entry asks the position, the exit gives up.
GiveUp ==
    IF call = "open" THEN Goto("ask") /\ Stay ELSE ReturnNone

-----------------------------------------------------------------------------
(* The start of a call.                                                    *)

\* open_position takes the quantity before it places anything.  It fails if the
\* positions, or the instruments, cannot be had.
OpenStarts(known) ==
    /\ call = "none" /\ ~entered
    /\ entered' = TRUE
    /\ IF known
       THEN call' = "open" /\ pc' = "place" /\ before' = Quantity /\ UNCHANGED <<rung, placed>>
       ELSE UNCHANGED ladder
    /\ UNCHANGED <<remembered, tracked, exchange, lost>>

CloseStarts ==
    /\ call = "none" /\ tracked
    /\ call' = "close" /\ pc' = IF remembered = 0 THEN "place" ELSE "check"
    /\ UNCHANGED <<rung, before, placed, belief, exchange, lost>>

\* _resolve_terminal: the polls may all fail, or find the order still working;
\* an order that is filled may have left the list, which reads as gone.
Resolutions(o) ==
    CASE ord[o].live -> {"unknown"}
      [] ~ord[o].live /\ ord[o].left = 0 -> {"unknown", "filled", "gone"}
      [] OTHER -> {"unknown", "gone"}

\* Mutant: a remembered order that is not resolved does not block.
CheckRememberedOpenly(outcome) ==
    /\ pc = "check" /\ outcome \in Resolutions(remembered)
    /\ remembered' = 0
    /\ IF outcome = "filled" THEN ReturnFill ELSE Goto("place") /\ Stay
    /\ UNCHANGED <<exchange, lost>>

\* _check_remembered, before an exit.
CheckRemembered(outcome) ==
    /\ pc = "check" /\ outcome \in Resolutions(remembered)
    /\ remembered' = IF outcome = "unknown" THEN remembered ELSE 0
    /\ CASE outcome = "filled"  -> ReturnFill
         [] outcome = "gone"    -> Goto("place") /\ Stay
         [] outcome = "unknown" -> ReturnNone
    /\ UNCHANGED <<exchange, lost>>

-----------------------------------------------------------------------------
(* A rung: place, await, cancel.                                           *)

\* The slot of a new order: any that is neither working nor remembered.
Slots == {o \in Ids : ~ord[o].live /\ o # remembered}

New(o, live) == ord' = [ord EXCEPT ![o] = [side |-> Side, live |-> live, left |-> N]]

\* Mutant: one rung too many.
AtRungOneMore == pc = "place" /\ rung <= MaxSteps + 1

AtRung == pc = "place" /\ rung <= MaxSteps

PlaceAccepted(o) ==
    /\ AtRung /\ o \in Slots
    /\ New(o, TRUE)
    /\ placed' = o /\ remembered' = o /\ pc' = "await"
    /\ UNCHANGED <<call, rung, before, tracked, entered, held, partial, lost>>

\* The entry classifies a rejection and stops; the exit does not look at it.
PlaceRejected(o) ==
    /\ AtRung /\ o \in Slots
    /\ IF call = "open"
       THEN ReturnNone /\ UNCHANGED <<remembered, ord>>
       ELSE /\ New(o, FALSE)
            /\ placed' = o /\ remembered' = o /\ pc' = "await"
            /\ UNCHANGED <<call, rung, before, tracked, entered>>
    /\ UNCHANGED <<held, partial, lost>>

\* The call raises.  Nothing is remembered yet, so the handler has nothing to
\* cancel, whether or not the exchange took the order.
PlaceRaises ==
    /\ AtRung
    /\ GiveUp
    /\ UNCHANGED <<remembered, exchange, lost>>

PlaceAnswerLost(o) ==
    /\ AtRung /\ o \in Slots
    /\ New(o, TRUE) /\ lost' = TRUE
    /\ GiveUp
    /\ UNCHANGED <<remembered, held, partial>>

\* The ladder is through, or is broken off: an abort, an old intent, no quotes.
LadderEnds ==
    /\ pc = "place"
    /\ GiveUp
    /\ UNCHANGED <<remembered, exchange, lost>>

AwaitSeesFill ==
    /\ pc = "await" /\ ~ord[placed].live /\ ord[placed].left = 0
    /\ remembered' = 0
    /\ ReturnFill
    /\ UNCHANGED <<exchange, lost>>

AwaitTimesOut ==
    /\ pc = "await"
    /\ Goto("cancel")
    /\ UNCHANGED <<belief, exchange, lost>>

Dead(o) == ord' = [ord EXCEPT ![o].live = FALSE]

\* Mutant: the order is forgotten although the cancel raised.
CancelRaisesForgets(effect) ==
    /\ pc = "cancel"
    /\ IF effect THEN placed \in Live /\ Dead(placed) ELSE UNCHANGED ord
    /\ remembered' = 0
    /\ Goto("resolve") /\ Stay
    /\ UNCHANGED <<held, partial, lost>>

\* a_delete_order answers for an order that is still working, and raises for
\* one that is not; whatever was filled by then stays filled.
CancelSucceeds ==
    /\ pc = "cancel" /\ placed \in Live
    /\ Dead(placed)
    /\ remembered' = 0
    /\ rung' = rung + 1 /\ pc' = "place" /\ placed' = 0
    /\ UNCHANGED <<call, before, tracked, entered, held, partial, lost>>

\* It raises: on its way in or, the order cancelled, on its way back.
CancelRaises(effect) ==
    /\ pc = "cancel"
    /\ IF effect THEN placed \in Live /\ Dead(placed) ELSE UNCHANGED ord
    /\ Goto("resolve")
    /\ UNCHANGED <<belief, held, partial, lost>>

\* Mutant: an entry order that is gone counts as filled.
ResolveGoneIsFilled(outcome) ==
    /\ pc = "resolve" /\ outcome \in Resolutions(placed)
    /\ remembered' = IF outcome = "unknown" THEN remembered ELSE 0
    /\ CASE outcome \in {"filled", "gone"} -> ReturnFill
         [] outcome = "unknown"            -> GiveUp
    /\ UNCHANGED <<exchange, lost>>

Resolve(outcome) ==
    /\ pc = "resolve" /\ outcome \in Resolutions(placed)
    /\ remembered' = IF outcome = "unknown" THEN remembered ELSE 0
    /\ CASE outcome = "filled"  -> ReturnFill
         [] outcome = "gone"    -> Goto("ask") /\ Stay
         [] outcome = "unknown" -> GiveUp
    /\ UNCHANGED <<exchange, lost>>

-----------------------------------------------------------------------------
(* The position decides.                                                   *)

\* Mutant: an exit order that is gone counts as filled.
PositionAlwaysAgrees == IF call = "open" THEN Quantity >= before + N ELSE TRUE

PositionSaysFilled ==
    IF call = "open" THEN Quantity >= before + N ELSE Quantity < N

\* The positions cannot be had, or they tell.
AskFails ==
    /\ pc = "ask"
    /\ ReturnNone
    /\ UNCHANGED <<remembered, exchange, lost>>

AskPosition ==
    /\ pc = "ask"
    /\ IF PositionSaysFilled
       THEN ReturnFill /\ remembered' = 0
       ELSE ReturnNone /\ UNCHANGED remembered
    /\ UNCHANGED <<exchange, lost>>

-----------------------------------------------------------------------------
(* The exchange.                                                           *)

Fills(o, k) ==
    /\ o \in Live /\ k <= ord[o].left
    /\ ord[o].side = "sell" => held - k >= -MaxShort
    /\ ord' = [ord EXCEPT ![o].left = @ - k, ![o].live = (k < ord[o].left)]
    /\ held' = IF ord[o].side = "buy" THEN held + k ELSE held - k
    /\ partial' = (partial \/ k < ord[o].left)
    /\ UNCHANGED <<ladder, belief, lost>>

\* Rejected late, or expired.
Expires(o) ==
    /\ o \in Live
    /\ Dead(o)
    /\ UNCHANGED <<ladder, belief, held, partial, lost>>

Next ==
    \/ \E known \in BOOLEAN : OpenStarts(known)
    \/ CloseStarts
    \/ \E outcome \in {"filled", "gone", "unknown"} :
          CheckRemembered(outcome) \/ Resolve(outcome)
    \/ \E o \in Ids : PlaceAccepted(o) \/ PlaceRejected(o) \/ PlaceAnswerLost(o)
    \/ PlaceRaises \/ LadderEnds
    \/ AwaitSeesFill \/ AwaitTimesOut
    \/ CancelSucceeds \/ \E effect \in BOOLEAN : CancelRaises(effect)
    \/ AskFails \/ AskPosition
    \/ \E o \in Ids, k \in 1..N : Fills(o, k)
    \/ \E o \in Ids : Expires(o)

Spec == Init /\ [][Next]_vars

-----------------------------------------------------------------------------
(* Properties.                                                             *)

\* The exchange fills whole orders, and every accepted placement was answered.
\* Without either the code can lose count: a rung filled in part and cancelled is
\* not subtracted from the next one, and an order whose answer is lost is unknown.
Clean == ~lost /\ ~partial

\* A trade never has two working orders: no rung and no later exit is placed over
\* an unresolved order (broker.py:177-179).
NeverTwoLive == Clean => Cardinality(Live) <= 1

\* An order that works while no call is in progress is remembered, so that the
\* next call for the trade resolves it (broker.py:152-154, 329-337).
StrandedIsRemembered == Clean /\ call = "none" => Live \subseteq {remembered}

\* A position is only registered if all its contracts are held: none of the four
\* ways to a Fill of open_position errs (audits B3 and R3 #2).
FilledMeansHeld ==
    [][(~tracked /\ tracked' /\ Clean) => held' = N]_vars

\* A position is only closed in the books if nothing of it is held: none of the
\* ways to a Fill of close_position errs (audits B9 and R3 #2a).
ClosedMeansFlat ==
    [][(tracked /\ ~tracked' /\ Clean) => held' <= 0]_vars

\* What broker.py:448-449 says of an exit order that is gone: it may have been
\* filled and dropped, so the position is asked, never the next rung.  If that is
\* done throughout, the exits of a trade never sell more than it bought.
NeverShort == Clean => held >= 0

=============================================================================
