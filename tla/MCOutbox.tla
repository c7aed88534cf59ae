------------------------------ MODULE MCOutbox ------------------------------
(***************************************************************************)
(* Instances of Outbox for TLC: one lane of two or three batches.          *)
(***************************************************************************)
EXTENDS Outbox, TLC

CONSTANTS a1, b1, b2, b3

LaneOfTwo   == [b \in {b1, b2} |-> a1]
LaneOfThree == [b \in {b1, b2, b3} |-> a1]

\* Ladders: two rungs, the second of which repeats; and a single one without a wait.
TwoRungs == <<0, 1>>
Flat     == <<0>>

\* The batches of one lane are interchangeable (for safety only: symmetry is not sound with liveness).
SymmetryOfThree == Permutations({b1, b2, b3})
=============================================================================
