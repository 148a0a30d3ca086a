-------------------------------- MODULE Judging --------------------------------
(***************************************************************************)
(* What a runtime promises to whoever asked for a program to be run on     *)
(* some inputs, and nothing of how: the program is built once or the       *)
(* request is refused before any input was tried; the inputs are then      *)
(* tried one after the other, each once; the answer says truthfully        *)
(* whether all of them were.                                               *)
(***************************************************************************)
EXTENDS Integers

VARIABLES inputs,       \* how many inputs there are
          phase,        \* open, built, closed
          tried,        \* how many inputs have been tried
          told          \* none, whole, partial, nothing

vars == <<inputs, phase, tried, told>>

Init == inputs \in Nat \ {0} /\ phase = "open" /\ tried = 0 /\ told = "none"

Build == /\ phase = "open"
         /\ phase' = "built"
         /\ UNCHANGED <<inputs, tried, told>>

Refuse == /\ phase \in {"open", "built"} /\ tried = 0
          /\ phase' = "closed" /\ told' = "nothing"
          /\ UNCHANGED <<inputs, tried>>

Try == /\ phase = "built" /\ tried < inputs
       /\ tried' = tried + 1
       /\ UNCHANGED <<inputs, phase, told>>

Close == /\ phase = "built"
         /\ phase' = "closed"
         /\ told' = IF tried = inputs THEN "whole" ELSE "partial"
         /\ UNCHANGED <<inputs, tried>>

Next == Build \/ Refuse \/ Try \/ Close

Spec == Init /\ [][Next]_vars
================================================================================
