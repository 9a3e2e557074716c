---------------------------- MODULE SessionGate ----------------------------
(***************************************************************************)
(* What the breaker promises the rest of the runtime, whatever its causes,   *)
(* files and faults: a process that is blocked stays blocked until it ends,  *)
(* no process starts armed on a date that is sealed, and only midnight lifts *)
(* a seal.  A seal may come late, or never if its write fails.               *)
(***************************************************************************)
EXTENDS Integers

VARIABLES
    gate,       \* "off" without a process, else its breaker's state
    sealed,     \* does the disk block the present date?
    date        \* the present date

vars == <<gate, sealed, date>>

Init == gate = "off" /\ sealed = FALSE /\ date = 1

\* A process starts.  It may be blocked for another reason than the seal, and may
\* trip and seal the date before its start is over.
Start ==
    /\ gate = "off" /\ gate' \in {"ARMED", "TRIPPED", "LOCKED"}
    /\ sealed' \in {sealed, gate' = "TRIPPED"}
    /\ sealed => sealed' /\ gate' = "LOCKED"
    /\ UNCHANGED date

Trip ==
    /\ gate = "ARMED" /\ gate' = "TRIPPED"
    /\ sealed' \in {sealed, TRUE}
    /\ UNCHANGED date

Seal ==
    /\ gate = "TRIPPED" /\ sealed' = TRUE
    /\ UNCHANGED <<gate, date>>

\* Everything is flat.
Settle ==
    /\ gate = "TRIPPED" /\ gate' = "LOCKED"
    /\ UNCHANGED <<sealed, date>>

\* The process ends.  A write cut in half seals the date too.
Stop ==
    /\ gate # "off" /\ gate' = "off"
    /\ sealed' \in {sealed, gate = "TRIPPED"} /\ (sealed => sealed')
    /\ UNCHANGED date

\* A seal that cannot be read binds every date.
Midnight ==
    /\ date' = date + 1
    /\ sealed' \in {sealed, FALSE}
    /\ UNCHANGED gate

Next == Start \/ Trip \/ Seal \/ Settle \/ Stop \/ Midnight

Spec == Init /\ [][Next]_vars

-----------------------------------------------------------------------------

\* What the promise is for: no process is armed on a sealed date.
SealBlocks == gate = "ARMED" => ~sealed
=============================================================================
