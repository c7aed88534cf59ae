----------------------------- MODULE MCArrivals -----------------------------
(***************************************************************************)
(* Arrivals for TLC, in two scenes: in one the hold moves alone, with all  *)
(* the items and queues, and the outbox stays in its initial state; in the *)
(* other the whole moves, with as many of them as the bounds below allow.  *)
(***************************************************************************)
EXTENDS Arrivals

CONSTANTS
  ItemsSent,  \* bound: how many items come in the whole
  QueuesSent  \* bound: how many queues are announced in it

\* message, edit of it, message, receipt of the first, message.
Five == {1, 3, 5}

VARIABLE scene
sceneVars == <<arrivalsVars, scene>>

InHold(Action) == scene = "hold" /\ Action /\ UNCHANGED <<handedVars, scene>>
InWhole(Action) ==
  /\ scene = "whole" /\ Action /\ UNCHANGED scene
  /\ next' <= ItemsSent + 1 /\ promised' <= ItemsSent /\ drains' <= QueuesSent

SceneInit == ArrivalsInit /\ scene \in {"hold", "whole"}
SceneNext == InHold(Next) \/ InWhole(ArrivalsNext)

\* The fairness of OfflineDrain, in both scenes; none of the outbox.
SceneSpec ==
  /\ SceneInit
  /\ [][SceneNext]_sceneVars
  /\ WF_sceneVars(InHold(LoopDeliver) \/ InWhole(LoopHandsOn))
  /\ \A d \in Drains : WF_sceneVars(InHold(drainDeadline(d)) \/ InWhole(DeadlineHandsOn(d)))
=============================================================================
