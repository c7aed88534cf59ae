---------------------------- MODULE OfflineDrain ----------------------------
(***************************************************************************)
(* The hold on WhatsApp's offline queue: beginDrain, holdOffline and       *)
(* endDrain of sessions.go, with the handlers of events.go that use them,  *)
(* for one paired session.                                                 *)
(*                                                                         *)
(* WhatsApp sends the items 1..N in this order, each once: an item is      *)
(* acked before its handler runs.  On every connection it announces how    *)
(* much of what is left was queued while the bridge was away.  Messages of *)
(* an announced queue are held and posted as one batch when the queue is   *)
(* through, or when DRAIN_GRACE ends; anything else is posted as it comes. *)
(* Deliver appends to the outbox in one step (see Outbox for what follows) *)
(* and a batch is the set of its items, which are numbered in order.       *)
(***************************************************************************)
EXTENDS Integers, FiniteSets

CONSTANTS
  N,         \* how many items WhatsApp has for the session
  Messages,  \* those of them that are messages; the others are edits, revokes and receipts
  MaxDrains, \* bound: how many queues are announced
  MaxKills   \* bound: how often the process dies

Items == 1..N

ASSUME DrainAssumption ==
  /\ N \in Nat
  /\ Messages \subseteq Items
  /\ MaxDrains \in Nat
  /\ MaxKills \in Nat

Drains == 1..MaxDrains

VARIABLES
  link,       \* the session's connection: down, draining its queue, or live
  promised,   \* the last item of the queue this connection announced
  next,       \* the next item WhatsApp sends
  draining,   \* session.draining
  held,       \* session.offlineHeld
  loop,       \* what the event loop has in hand for Deliver
  drains,     \* queues announced so far: one drainDeadline each
  deadline,   \* each drainDeadline's control state
  carried,    \* what each drainDeadline has in hand for Deliver
  outbox,     \* the items whose batch is durable
  kills,      \* bounded by MaxKills
  openedAt,   \* history: the first item of the open drain
  discarded,  \* history: items a second beginDrain threw away
  killed      \* history: items held when the process died

hold    == <<draining, held>>
ending  == <<deadline, carried>>
history == <<openedAt, discarded, killed>>
vars    == <<link, promised, next, hold, loop, drains, ending, outbox, kills, history>>

Init ==
  /\ link = "down"
  /\ promised = 0
  /\ next = 1
  /\ draining = FALSE
  /\ held = {}
  /\ loop = {}
  /\ drains = 0
  /\ deadline = [d \in Drains |-> "none"]
  /\ carried = [d \in Drains |-> {}]
  /\ outbox = {}
  /\ kills = 0
  /\ openedAt = 1
  /\ discarded = {}
  /\ killed = {}

-----------------------------------------------------------------------------
\* beginDrain: the hold opens on an empty slice, whatever it held before.
beginDrain ==
  /\ draining' = TRUE
  /\ held' = {}
  /\ discarded' = discarded \union held
  /\ openedAt' = next

\* Mutant of endDrain: what was held is handed back and kept.
endDrain_Keeps ==
  /\ draining' = FALSE
  /\ UNCHANGED held

\* endDrain: the hold closes; its caller takes what was held.
endDrain ==
  /\ draining' = FALSE
  /\ held' = {}

\* The link comes up and the server announces the queue: the items up to k.  A queue with
\* messages opens the hold and starts its deadline; one with none is not announced as such.
Connect(k) ==
  /\ link = "down"
  /\ loop = {}
  /\ link' = "queue"
  /\ promised' = k
  /\ IF Messages \intersect (next..k) = {}
     THEN UNCHANGED <<hold, drains, deadline, openedAt, discarded>>
     ELSE /\ drains < MaxDrains
          /\ beginDrain
          /\ drains' = drains + 1
          /\ deadline' = [deadline EXCEPT ![drains + 1] = "asleep"]
  /\ UNCHANGED <<next, loop, carried, outbox, kills, killed>>

\* Mutant of holdOffline: an edit or a receipt of the queue is held too.
holdOffline_All(i) == draining

\* holdOffline takes a message while the hold is open.
holdOffline(i) == draining /\ i \in Messages

\* An item arrives: it is held, or in hand for Deliver.
Arrive ==
  /\ link # "down"
  /\ loop = {}
  /\ next \in Items
  /\ next' = next + 1
  /\ IF holdOffline(next)
     THEN held' = held \union {next} /\ UNCHANGED loop
     ELSE loop' = {next} /\ UNCHANGED held
  /\ UNCHANGED <<link, promised, draining, drains, ending, outbox, kills, history>>

\* OfflineSyncCompleted: the queue is through, flushOffline takes what was held.
Complete ==
  /\ link = "queue"
  /\ loop = {}
  /\ next > promised
  /\ link' = "live"
  /\ loop' = held
  /\ endDrain
  /\ UNCHANGED <<promised, next, drains, ending, outbox, kills, history>>

\* The event loop's Deliver: the batch is durable.
LoopDeliver ==
  /\ loop # {}
  /\ outbox' = outbox \union loop
  /\ loop' = {}
  /\ UNCHANGED <<link, promised, next, hold, drains, ending, kills, history>>

\* Mutant of Drop: a lost link closes the hold and leaves what it held.
Drop_ClosesHold ==
  /\ link # "down"
  /\ link' = "down"
  /\ draining' = FALSE
  /\ UNCHANGED <<promised, next, held, loop, drains, ending, outbox, kills, history>>

\* The connection drops, perhaps with the queue half sent; the hold stays as it is.
Drop ==
  /\ link # "down"
  /\ link' = "down"
  /\ UNCHANGED <<promised, next, hold, loop, drains, ending, outbox, kills, history>>

-----------------------------------------------------------------------------
\* drainDeadline, after DRAIN_GRACE: it looks under the lock, then flushes without it.
\* (Its mutant takes a lost link for the end of the queue.)
DeadlineLooks_WhileLinkIsUp(d) ==
  /\ deadline[d] = "asleep"
  /\ deadline' = [deadline EXCEPT ![d] = IF draining /\ link # "down" THEN "stranded" ELSE "done"]
  /\ UNCHANGED <<link, promised, next, hold, loop, drains, carried, outbox, kills, history>>

DeadlineLooks(d) ==
  /\ deadline[d] = "asleep"
  /\ deadline' = [deadline EXCEPT ![d] = IF draining THEN "stranded" ELSE "done"]
  /\ UNCHANGED <<link, promised, next, hold, loop, drains, carried, outbox, kills, history>>

\* Mutants of DeadlineTakes: an empty flush is posted too; a flush returns before its post.
DeadlineTakes_PostsNothing(d) ==
  /\ deadline[d] = "stranded"
  /\ carried' = [carried EXCEPT ![d] = held]
  /\ deadline' = [deadline EXCEPT ![d] = "posting"]
  /\ endDrain
  /\ UNCHANGED <<link, promised, next, loop, drains, outbox, kills, history>>

DeadlineTakes_Returns(d) ==
  /\ deadline[d] = "stranded"
  /\ carried' = [carried EXCEPT ![d] = held]
  /\ deadline' = [deadline EXCEPT ![d] = "done"]
  /\ endDrain
  /\ UNCHANGED <<link, promised, next, loop, drains, outbox, kills, history>>

DeadlineTakes(d) ==
  /\ deadline[d] = "stranded"
  /\ carried' = [carried EXCEPT ![d] = held]
  /\ deadline' = [deadline EXCEPT ![d] = IF held = {} THEN "done" ELSE "posting"]
  /\ endDrain
  /\ UNCHANGED <<link, promised, next, loop, drains, outbox, kills, history>>

DeadlineDelivers(d) ==
  /\ deadline[d] = "posting"
  /\ outbox' = outbox \union carried[d]
  /\ carried' = [carried EXCEPT ![d] = {}]
  /\ deadline' = [deadline EXCEPT ![d] = "done"]
  /\ UNCHANGED <<link, promised, next, hold, loop, drains, kills, history>>

\* The process dies: of all this only the outbox is durable.
Kill ==
  /\ kills < MaxKills
  /\ kills' = kills + 1
  /\ link' = "down"
  /\ draining' = FALSE
  /\ held' = {}
  /\ loop' = {}
  /\ deadline' = [d \in Drains |-> IF deadline[d] = "none" THEN "none" ELSE "done"]
  /\ carried' = [d \in Drains |-> {}]
  /\ killed' = killed \union held \union loop \union UNION {carried[d] : d \in Drains}
  /\ UNCHANGED <<promised, next, drains, outbox, openedAt, discarded>>

-----------------------------------------------------------------------------
drainDeadline(d) == DeadlineLooks(d) \/ DeadlineTakes(d) \/ DeadlineDelivers(d)

Next ==
  \/ \E k \in (next - 1)..N : Connect(k)
  \/ Arrive \/ Complete \/ LoopDeliver \/ Drop
  \/ \E d \in Drains : drainDeadline(d)
  \/ Kill

Spec == Init /\ [][Next]_vars

(***************************************************************************)
(* Goroutines run: the event loop finishes a handler, a deadline wakes and *)
(* goes on.  Nothing obliges WhatsApp: it may never send the queue, never  *)
(* complete it, and the link may stay down.                                *)
(***************************************************************************)
FairSpec ==
  /\ Spec
  /\ WF_vars(LoopDeliver)
  /\ \A d \in Drains : WF_vars(drainDeadline(d))

-----------------------------------------------------------------------------
(***************************************************************************)
(* Properties.                                                             *)
(***************************************************************************)
Carried == UNION {carried[d] : d \in Drains}

\* The shape of the state; what a deadline carries it is about to post.
TypeOK ==
  /\ link \in {"down", "queue", "live"}
  /\ promised \in 0..N
  /\ next \in 1..(N + 1)
  /\ draining \in BOOLEAN
  /\ held \subseteq Items
  /\ loop \subseteq Items
  /\ drains \in 0..MaxDrains
  /\ deadline \in [Drains -> {"none", "asleep", "stranded", "posting", "done"}]
  /\ \A d \in Drains : deadline[d] = "none" <=> d > drains
  /\ carried \in [Drains -> SUBSET Items]
  /\ \A d \in Drains : carried[d] # {} <=> deadline[d] = "posting"
  /\ outbox \subseteq Items
  /\ kills \in 0..MaxKills
  /\ openedAt \in 1..next
  /\ discarded \subseteq Items
  /\ killed \subseteq Items

\* "An offline queue is ONE arrival" (events.go:1056-1061): an open hold has every message
\* that came since it was opened, and nothing else, however often the link dropped meanwhile.
\* Whoever closes it posts them as one batch.
HoldIsWhole ==
  held = IF draining THEN Messages \intersect (openedAt..(next - 1)) ELSE {}

\* An acked item is somewhere: held, in the hand of the event loop or of a deadline, durable,
\* or one of the two losses counted by discarded and killed; and never in two places, so no
\* message is posted in two batches however a flush and a deadline race (events.go:709-733).
OnePlaceEach ==
  /\ 1..(next - 1) = held \union loop \union Carried \union outbox \union discarded \union killed
  /\ held \intersect (loop \union Carried \union outbox) = {}
  /\ loop \intersect (Carried \union outbox) = {}
  /\ outbox \intersect Carried = {}
  /\ \A d, e \in Drains : d # e => carried[d] \intersect carried[e] = {}

\* "hands back everything it kept, in arrival order" (sessions.go:222): a message becomes
\* durable before one that came earlier only while a deadline has the earlier one in hand,
\* between closing the hold and its Deliver (events.go:709-718).
OvertakenOnlyInADeadlinesHand ==
  \A i, j \in Messages :
    i < j /\ i < next /\ j \in outbox \union loop /\ i \notin outbox \union loop
      => i \in Carried \union discarded \union killed

\* DRAIN_GRACE bounds the hold (events.go:703-705): an open hold is closed, whatever the
\* server and the link do, with every queue's own deadline or an earlier one's.
HoldEnds == draining ~> ~draining

\* What HoldEnds rests on: an open hold has a deadline that has not flushed yet.  Each is there
\* for its own queue, and a deadline that finds another's hold open closes it (events.go:721-733).
HoldHasADeadline ==
  draining => \E d \in Drains : deadline[d] \in {"asleep", "stranded"}

\* What a flush took reaches the outbox, unless the process dies first.
HandedOnIsPosted ==
  \A i \in Items : i \in Carried \union loop ~> i \in outbox \union killed

\* "The queue must never strand the backlog: ... what is held still has to reach the
\* consumer" (events.go:94-95): no hold is opened over messages another one still holds.
NeverStranded == discarded = {}
=============================================================================
