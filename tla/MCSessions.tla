----------------------------- MODULE MCSessions -----------------------------
(***************************************************************************)
(* Instances of Sessions for TLC: two devices of one account.              *)
(***************************************************************************)
EXTENDS Sessions, TLC

CONSTANTS d1, d2, a1, PairSuccess

OneAccount == [d \in {d1, d2} |-> a1]

Siblings == Permutations({d1, d2})
=============================================================================
