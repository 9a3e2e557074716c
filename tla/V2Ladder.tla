------------------------------ MODULE V2Ladder ------------------------------
(***************************************************************************)
(* LiveV2Broker._ladder of godmode0dte_v2/executor.py: one call, for buy or   *)
(* for sell, against an exchange that fills, cancels and rejects orders at    *)
(* any time, loses answers, and may or may not go on listing an order that    *)
(* is no longer working.  A step is one call of the broker API with what      *)
(* follows it up to the next one.  Prices are left out: every rung may fill.  *)
(***************************************************************************)
EXTENDS Integers, FiniteSets

CONSTANTS
    N,          \* contracts of the call
    Steps       \* instrument.entry_ladder_max_steps

ASSUME V2LadderAssumption == N \in Nat \ {0} /\ Steps \in Nat

VARIABLES
    pc,         \* what the call does next, "ended" at its end
    step,       \* rung of the ladder
    answer,     \* how the call ended
    ord,        \* exchange: the order of each rung
    left,       \* exchange: contracts of it that are not traded
    trouble     \* history: what went wrong

call     == <<pc, step, answer>>
exchange == <<ord, left>>
ladderVars     == <<call, exchange, trouble>>

Rungs    == 0..Steps
Working  == {r \in Rungs : ord[r] = "working"}
Troubles == {"answer_lost", "listed_on", "unreadable", "partial", "died"}

LadderTypeOK ==
    /\ pc \in {"start", "place", "await", "cancel", "resolve", "ended"}
    /\ step \in Rungs
    /\ answer \in {"pending", "fill", "none", "raised"}
    /\ ord \in [Rungs -> {"none", "working", "filled", "dead"}]
    /\ left \in [Rungs -> 0..N]
    /\ trouble \subseteq Troubles

LadderInit ==
    /\ pc = "start" /\ step = 0 /\ answer = "pending"
    /\ ord = [r \in Rungs |-> "none"] /\ left = [r \in Rungs |-> N]
    /\ trouble = {}

-----------------------------------------------------------------------------
(* The exchange.                                                            *)

\* A working order trades some or all of what is left of it.
Trades ==
    \E r \in Working : \E l \in 0..left[r] - 1 :
        /\ left' = [left EXCEPT ![r] = l]
        /\ ord' = [ord EXCEPT ![r] = IF l = 0 THEN "filled" ELSE "working"]
        /\ trouble' = trouble \cup (IF l = 0 THEN {} ELSE {"partial"})
        /\ UNCHANGED call

\* A working order is cancelled by the exchange, or expires.  "died" stands for
\* every end of an order that no cancel of the ladder confirmed.
Dies ==
    \E r \in Working :
        /\ ord' = [ord EXCEPT ![r] = "dead"] /\ trouble' = trouble \cup {"died"}
        /\ UNCHANGED <<call, left>>

Taken == ord' = [ord EXCEPT ![step] = "working"] /\ UNCHANGED left

\* Whether the order of this rung is in the list of live orders: one that works
\* is, one that does not may be.
MayBeListed   == ord[step] # "none"
MayBeUnlisted == ord[step] # "working"

-----------------------------------------------------------------------------
(* The ladder.                                                              *)

Goto(label) == pc' = label /\ UNCHANGED <<step, answer>>
End(a)      == pc' = "ended" /\ answer' = a /\ UNCHANGED step

\* Mutant: the ladder has one rung too many.
NextRungOneMore ==
    IF step <= Steps
    THEN pc' = "place" /\ step' = step + 1 /\ UNCHANGED answer
    ELSE End("none")

NextRung ==
    IF step < Steps
    THEN pc' = "place" /\ step' = step + 1 /\ UNCHANGED answer
    ELSE End("none")

\* The instrument is fetched; this and a placement may raise to the caller.
Begins ==
    /\ pc = "start" /\ (Goto("place") \/ End("raised"))
    /\ UNCHANGED <<exchange, trouble>>

PlaceAccepted == pc = "place" /\ Taken /\ Goto("await") /\ UNCHANGED trouble

PlaceRejected ==
    /\ pc = "place" /\ (End("none") \/ End("raised"))
    /\ UNCHANGED <<exchange, trouble>>

PlaceAnswerLost ==
    /\ pc = "place" /\ Taken /\ End("raised")
    /\ trouble' = trouble \cup {"answer_lost"}

\* Mutant: an order that is gone from the list was not filled.
AwaitSeesFillListed ==
    /\ pc = "await"
    /\ \/ ord[step] = "filled" /\ End("fill")
       \/ MayBeUnlisted /\ End("none")
    /\ UNCHANGED <<exchange, trouble>>

\* A poll that finds the order gone from the list, or in it as filled, is a fill.
AwaitSeesFill ==
    /\ pc = "await" /\ (MayBeUnlisted \/ ord[step] = "filled")
    /\ End("fill") /\ UNCHANGED <<exchange, trouble>>

\* The polls failed, or saw the order working, or listed as cancelled.
AwaitTimesOut ==
    /\ pc = "await" /\ Goto("cancel") /\ UNCHANGED <<exchange, trouble>>

\* The order is cancelled; what it traded before is not looked at.
CancelSucceeds ==
    /\ pc = "cancel" /\ ord[step] = "working"
    /\ ord' = [ord EXCEPT ![step] = "dead"] /\ NextRung
    /\ UNCHANGED <<left, trouble>>

\* The order is not working any more, or the call is lost before or after it.
CancelRaises ==
    /\ pc = "cancel" /\ Goto("resolve")
    /\ \/ UNCHANGED <<ord, trouble>>
       \/ /\ ord[step] = "working" /\ ord' = [ord EXCEPT ![step] = "dead"]
          /\ trouble' = trouble \cup {"died"}
    /\ UNCHANGED left

\* Mutant: an order that is gone from the list after a failed cancel was cancelled.
ResolveGoneIsCancelled ==
    /\ pc = "resolve"
    /\ \/ MayBeUnlisted /\ NextRung /\ UNCHANGED trouble
       \/ MayBeListed /\ NextRung /\ trouble' = trouble \cup {"listed_on"}
       \/ End("none") /\ trouble' = trouble \cup {"unreadable"}
    /\ UNCHANGED exchange

\* Gone from the list is a fill.  Listed, in whatever status, goes to the next rung.
Resolve ==
    /\ pc = "resolve"
    /\ \/ MayBeUnlisted /\ End("fill") /\ UNCHANGED trouble
       \/ MayBeListed /\ NextRung /\ trouble' = trouble \cup {"listed_on"}
       \/ End("none") /\ trouble' = trouble \cup {"unreadable"}
    /\ UNCHANGED exchange

Exchange == Trades \/ Dies
Ladder   == Begins \/ PlaceAccepted \/ PlaceRejected \/ PlaceAnswerLost
            \/ AwaitSeesFill \/ AwaitTimesOut \/ CancelSucceeds \/ CancelRaises \/ Resolve

LadderNext == Exchange \/ Ladder
LadderSpec == LadderInit /\ [][LadderNext]_ladderVars

-----------------------------------------------------------------------------
(* Properties.                                                              *)

Touched == {r \in Rungs : left[r] < N}

\* A call trades on one rung: on two only if it went on with an order that was
\* listed after its cancel failed, or with one that was filled in part.
TradesOnce ==
    trouble \cap {"listed_on", "partial"} = {} => Cardinality(Touched) <= 1

\* The answer of an untroubled call is true: a price means all contracts were
\* traded, None and an exception that none were, and no order is left working.
AnswerIsTrue ==
    pc = "ended" /\ trouble = {} =>
        /\ Working = {}
        /\ answer = "fill" => \E r \in Rungs : Touched = {r} /\ left[r] = 0
        /\ answer # "fill" => Touched = {}
=============================================================================
