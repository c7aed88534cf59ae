------------------------------ MODULE Arrivals ------------------------------
(***************************************************************************)
(* From WhatsApp to the receiver: OfflineDrain hands its batches to the    *)
(* outbox, of which only DeliveryChannel is assumed (Outbox implements     *)
(* it).  A step of the drain that takes a batch in hand begins the call,   *)
(* no later than Deliver itself, so no order is assumed that the code does *)
(* not give; the steps that deliver end the call.  The rest of each moves  *)
(* by itself.                                                              *)
(***************************************************************************)
EXTENDS OfflineDrain

VARIABLES
  accepted, owed, older, fate,  \* the outbox, see DeliveryChannel
  passed                        \* history: what each batch went past when it was taken in hand

\* A flush is of messages; anything else is handed over by itself.
Batches == ((SUBSET Messages) \ {{}}) \union {{i} : i \in Items}

Channel == INSTANCE DeliveryChannel

channelVars  == <<accepted, owed, older, fate>>
handedVars   == <<channelVars, passed>>
arrivalsVars == <<vars, handedVars>>

ArrivalsInit ==
  /\ Init
  /\ Channel!Init
  /\ passed = [b \in Batches |-> {}]

\* What stands aside for b: what deadlines have in hand and, when b is an edit, a revoke or a
\* receipt, what is held.
Aside(b) == Carried \union (IF b \intersect Messages = {} THEN held ELSE {})

\* The event loop or a deadline takes b in hand; with nothing held there is nothing to deliver.
TakenInHand(b) ==
  IF b = {}
  THEN UNCHANGED handedVars
  ELSE /\ Channel!Begin(b, accepted)
       /\ passed' = [passed EXCEPT ![b] = Aside(b)]

\* Deliver: the store takes b, or refuses it, and then it is posted once, and landed or not.
Deliver(b) ==
  /\ Channel!Accept(b) \/ Channel!Bypass(b) \/ UNCHANGED channelVars
  /\ UNCHANGED passed

LoopTakes          == (Arrive \/ Complete) /\ TakenInHand(loop')
LoopHandsOn        == LoopDeliver /\ Deliver(loop)
DeadlineHandsOn(d) ==
  \/ DeadlineLooks(d) /\ UNCHANGED handedVars
  \/ DeadlineTakes(d) /\ TakenInHand(held)
  \/ DeadlineDelivers(d) /\ Deliver(carried[d])
LinkOrLife         == ((\E k \in (next - 1)..N : Connect(k)) \/ Drop \/ Kill) /\ UNCHANGED handedVars

\* The lanes, which outlive the process.
Lanes ==
  /\ \E b \in accepted : Channel!Take(b) \/ Channel!Close(b) \/ Channel!Settle(b)
  /\ UNCHANGED <<vars, passed>>

ArrivalsNext ==
  LinkOrLife \/ LoopTakes \/ LoopHandsOn \/ (\E d \in Drains : DeadlineHandsOn(d)) \/ Lanes

ArrivalsSpec == ArrivalsInit /\ [][ArrivalsNext]_arrivalsVars

-----------------------------------------------------------------------------
Settled  == UNION (accepted \ owed)
Bypassed == outbox \ UNION accepted
Lost     == discarded \union killed

\* "Order is per recipient" (outbox.go:22-26) from end to end: when the receiver's verdict on a
\* batch is known, each item WhatsApp sent before one of the batch's own is in it or settled before
\* it - unless it stood aside when the batch was taken in hand, the store refused it, or it was lost
\* with a hold or with the process.
LandsAsSent ==
  \A c \in accepted : fate[c] # "open" =>
    \A i \in Items, j \in c :
      i < j => i \in c \union Settled \union passed[c] \union Bypassed \union Lost

\* No item is in two batches that the store took or the receiver got, however deadlines, drops and
\* deaths cut the hold (flushOffline, events.go:709-719): what a receiver hears again is a whole
\* batch, retried by the outbox.
Delivered(b) == b \in accepted \/ fate[b] # "open"

EachInOneBatch ==
  \A b, c \in Batches : b # c /\ Delivered(b) /\ Delivered(c) => b \intersect c = {}
=============================================================================
