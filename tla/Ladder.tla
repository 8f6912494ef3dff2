-------------------------------- MODULE Ladder --------------------------------
(***************************************************************************)
(* What the record of an installation promises, whoever keeps it: phases   *)
(* are climbed one at a time, a failure is noted at the rung it happened   *)
(* on, and after one that is fatal there is neither a way up nor another   *)
(* failure.                                                                *)
(***************************************************************************)
EXTENDS Integers

CONSTANTS Top, Fatal    \* the last rung; those on which a failure is fatal

VARIABLES rung, failed  \* where the installation is; rungs with a failure

vars == <<rung, failed>>

Broken == failed \cap Fatal # {}

Init == rung = 0 /\ failed = {}

Climb ==
    /\ ~Broken /\ rung < Top
    /\ rung' = rung + 1 /\ UNCHANGED failed

Stumble ==
    /\ ~Broken /\ rung \notin failed /\ rung # Top
    /\ failed' = failed \cup {rung} /\ UNCHANGED rung

Next == Climb \/ Stumble

Spec == Init /\ [][Next]_vars
=============================================================================
