--------------------------- MODULE ReconnectOnce ---------------------------
(***************************************************************************)
(* What the market data hub promises the loops that share its stream: one   *)
(* loop at a time rebuilds, only a loop that failed on the latest complete  *)
(* stream may ask for it, and a loop that reports the failure of an older   *)
(* stream joins the latest one instead.                                     *)
(***************************************************************************)
EXTENDS Integers

CONSTANTS
    Loops,      \* the listen loops
    None        \* no loop

VARIABLES
    epoch,      \* number of the latest complete stream
    joined,     \* the epoch each loop reads, or whose failure it reports
    broken,     \* the loops that do not read
    builder     \* the loop that rebuilds, or None

vars == <<epoch, joined, broken, builder>>

Init ==
    /\ epoch = 0 /\ joined = [l \in Loops |-> 0]
    /\ broken = {} /\ builder = None

Fail(l) ==
    /\ l \notin broken /\ broken' = broken \cup {l}
    /\ UNCHANGED <<epoch, joined, builder>>

Claim(l) ==
    /\ builder = None /\ l \in broken /\ joined[l] = epoch
    /\ builder' = l
    /\ UNCHANGED <<epoch, joined, broken>>

Complete(l) ==
    /\ builder = l /\ epoch' = epoch + 1
    /\ joined' = [joined EXCEPT ![l] = epoch + 1]
    /\ broken' = broken \ {l} /\ builder' = None

\* The half-built stream may be read until the next rebuild replaces it.
Abandon(l) ==
    /\ builder = l /\ builder' = None
    /\ \/ broken' = broken \ {l}
       \/ UNCHANGED broken
    /\ UNCHANGED <<epoch, joined>>

\* It may find the latest stream gone already, and is broken again.
Join(l) ==
    /\ builder = None /\ l \in broken /\ joined[l] # epoch
    /\ joined' = [joined EXCEPT ![l] = epoch]
    /\ \/ broken' = broken \ {l}
       \/ UNCHANGED broken
    /\ UNCHANGED <<epoch, builder>>

Quit == broken' = Loops /\ builder' = None /\ UNCHANGED <<epoch, joined>>

Next ==
    \/ \E l \in Loops : Fail(l) \/ Claim(l) \/ Complete(l) \/ Abandon(l) \/ Join(l)
    \/ Quit

Spec == Init /\ [][Next]_vars
=============================================================================
