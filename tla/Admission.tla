------------------------------- MODULE Admission -------------------------------
(***************************************************************************)
(* What LimitConcurrency promises its callers, and nothing of how: at most *)
(* Capacity runs are inside at once, a caller is turned away for lack of   *)
(* capacity only while every place is taken (fail fast, no queue), and a   *)
(* caller that got in comes out exactly once.                              *)
(***************************************************************************)
EXTENDS Naturals, FiniteSets

CONSTANTS Request,   \* the callers
          Capacity   \* the places: RUNNER_MAX_CONCURRENT_RUNS

VARIABLE standing    \* where each caller stands

Inside == {r \in Request : standing[r] = "inside"}

Init == standing = [r \in Request |-> "outside"]

Move(r, from, to) == /\ standing[r] = from
                     /\ standing' = [standing EXCEPT ![r] = to]

\* A place is free: the caller takes it.
Admit(r) == Cardinality(Inside) < Capacity /\ Move(r, "outside", "inside")

\* No place is free: the caller is told so at once.
Shed(r) == Cardinality(Inside) = Capacity /\ Move(r, "outside", "shed")

\* Turned away for another reason (not authorized, connection dropped): this
\* may happen whatever the occupancy, and takes no place.
Refuse(r) == Move(r, "outside", "refused")

\* The run is over and its place is given back.
Leave(r) == Move(r, "inside", "left")

Next == \E r \in Request : Admit(r) \/ Shed(r) \/ Refuse(r) \/ Leave(r)

Spec == Init /\ [][Next]_standing
================================================================================
