------------------------------ MODULE MCRedial ------------------------------
(***************************************************************************)
(* Instances of Redial for TLC; a tick is ten seconds.                     *)
(***************************************************************************)
EXTENDS Redial

CONSTANTS s1, s2, a1, a2

\* Two sessions, each of its own address.
OwnAddress == [s \in {s1, s2} |-> IF s = s1 THEN a1 ELSE a2]
OfOne      == [s \in {s1} |-> a1]

\* What Start finds stored: every device, so that none is left to pair; one, with another to be
\* paired beside it; none.
AllStored == {Sessions}
OneStored == {{s1}}
NoStored  == {{}}

TwoRungs == <<1, 2>>
=============================================================================
