-------------------------- MODULE DeliveryChannel --------------------------
(***************************************************************************)
(* What the outbox promises (outbox.go:15-26), without lanes, signals,     *)
(* retries or restarts.  A batch accepted is owed until its fate is known, *)
(* it meets its fate only once every batch accepted before its call is no  *)
(* longer owed, and it stops being owed in that order too.  A batch the    *)
(* store would not take may reach the receiver at any time, or never.      *)
(***************************************************************************)
CONSTANT Batches

VARIABLES
  accepted,  \* the batches that were made durable
  owed,      \* those still to be settled
  older,     \* [Batches -> SUBSET Batches]: accepted before this batch's call
  fate       \* what became of each batch at the receiver

vars == <<accepted, owed, older, fate>>

Init ==
  /\ accepted = {}
  /\ owed = {}
  /\ older = [b \in Batches |-> {}]
  /\ fate = [b \in Batches |-> "open"]

\* A call for b begins: S was accepted before it.
Begin(b, S) ==
  /\ b \notin accepted
  /\ S \subseteq accepted
  /\ older' = [older EXCEPT ![b] = S]
  /\ UNCHANGED <<accepted, owed, fate>>

Accept(b) ==
  /\ b \notin accepted
  /\ accepted' = accepted \union {b}
  /\ owed' = owed \union {b}
  /\ UNCHANGED <<older, fate>>

\* Nothing accepted before b is owed any more.
Turn(b) == b \in accepted /\ older[b] \intersect owed = {}

Take(b) ==
  /\ Turn(b)
  /\ fate' = [fate EXCEPT ![b] = "landed"]
  /\ UNCHANGED <<accepted, owed, older>>

Close(b) ==
  /\ b \in owed
  /\ Turn(b)
  /\ fate[b] = "open"
  /\ \E why \in {"refused", "dropped"} : fate' = [fate EXCEPT ![b] = why]
  /\ UNCHANGED <<accepted, owed, older>>

Settle(b) ==
  /\ b \in owed
  /\ Turn(b)
  /\ fate[b] # "open"
  /\ owed' = owed \ {b}
  /\ UNCHANGED <<accepted, older, fate>>

Bypass(b) ==
  /\ b \notin accepted
  /\ fate' = [fate EXCEPT ![b] = "landed"]
  /\ UNCHANGED <<accepted, owed, older>>

Next ==
  \E b \in Batches :
    \/ \E S \in SUBSET Batches : Begin(b, S)
    \/ Accept(b) \/ Take(b) \/ Close(b) \/ Settle(b) \/ Bypass(b)

Spec == Init /\ [][Next]_vars
=============================================================================
