------------------------- MODULE OfflineDrainProofs -------------------------
(***************************************************************************)
(* Proofs about OfflineDrain, and about Arrivals, which puts it before the *)
(* outbox, for any number of items, queues and kills.                      *)
(***************************************************************************)
EXTENDS Arrivals, TLAPS

LEMMA TypeInit == Init => TypeOK
<1> SUFFICES ASSUME Init PROVE TypeOK
  OBVIOUS
<1> USE DrainAssumption DEF Init
<1>1. 0 \in 0..N /\ 1 \in 1..(N + 1) /\ 0 \in 0..MaxDrains /\ 0 \in 0..MaxKills
  OBVIOUS
<1>2. /\ deadline \in [Drains -> {"none", "asleep", "stranded", "posting", "done"}]
      /\ carried \in [Drains -> SUBSET Items]
  OBVIOUS
<1>3. \A d \in Drains : deadline[d] = "none" /\ d > drains /\ carried[d] = {}
  BY DEF Drains
<1>4. openedAt \in 1..next
  OBVIOUS
<1> QED BY <1>1, <1>2, <1>3, <1>4 DEF TypeOK

LEMMA TypeStep == TypeOK /\ [Next]_vars => TypeOK'
<1> SUFFICES ASSUME TypeOK, [Next]_vars PROVE TypeOK'
  OBVIOUS
<1> USE DrainAssumption DEF TypeOK, hold, ending, history
<1>1. ASSUME NEW k \in (next - 1)..N, Connect(k) PROVE TypeOK'
  <2>1. CASE Messages \intersect (next..k) = {}
    BY <1>1, <2>1 DEF Connect
  <2>2. CASE Messages \intersect (next..k) # {}
    <3>1. drains + 1 \in Drains /\ drains' = drains + 1
      BY <1>1, <2>2 DEF Connect, Drains
    <3>2. deadline' = [deadline EXCEPT ![drains + 1] = "asleep"]
      BY <1>1, <2>2 DEF Connect
    <3>3. deadline' \in [Drains -> {"none", "asleep", "stranded", "posting", "done"}]
      BY <3>1, <3>2
    <3>4. deadline[drains + 1] = "none" /\ carried[drains + 1] = {}
      BY <3>1 DEF Drains
    <3>5. /\ \A d \in Drains : deadline'[d] = "none" <=> d > drains'
          /\ \A d \in Drains : carried[d] # {} <=> deadline'[d] = "posting"
      BY <3>1, <3>2, <3>4 DEF Drains
    <3>6. openedAt' \in 1..next' /\ promised' \in 0..N /\ drains' \in 0..MaxDrains
      BY <1>1, <2>2, <3>1 DEF Connect, beginDrain, Drains
    <3> QED BY <1>1, <2>2, <3>3, <3>5, <3>6 DEF Connect, beginDrain
  <2> QED BY <2>1, <2>2
<1>2. CASE Arrive
  <2>1. next' \in 1..(N + 1) /\ openedAt' \in 1..next'
    BY <1>2 DEF Arrive, Items
  <2>2. held' \subseteq Items /\ loop' \subseteq Items
    BY <1>2 DEF Arrive
  <2> QED BY <1>2, <2>1, <2>2 DEF Arrive
<1>3. CASE Complete
  BY <1>3 DEF Complete, endDrain
<1>4. CASE LoopDeliver
  BY <1>4 DEF LoopDeliver
<1>5. CASE Drop
  BY <1>5 DEF Drop
<1>6. ASSUME NEW d \in Drains, drainDeadline(d) PROVE TypeOK'
  <2>1. CASE DeadlineLooks(d)
    BY <2>1 DEF DeadlineLooks
  <2>2. CASE DeadlineTakes(d)
    BY <2>2 DEF DeadlineTakes, endDrain
  <2>3. CASE DeadlineDelivers(d)
    BY <2>3 DEF DeadlineDelivers
  <2> QED BY <1>6, <2>1, <2>2, <2>3 DEF drainDeadline
<1>7. CASE Kill
  <2>1. killed' \subseteq Items
    BY <1>7 DEF Kill
  <2>2. kills' \in 0..MaxKills
    BY <1>7 DEF Kill
  <2>3. deadline' \in [Drains -> {"none", "asleep", "stranded", "posting", "done"}]
    BY <1>7 DEF Kill
  <2>4. \A d \in Drains : deadline'[d] = "none" <=> d > drains'
    BY <1>7 DEF Kill
  <2>5. /\ carried' \in [Drains -> SUBSET Items]
        /\ \A d \in Drains : carried'[d] # {} <=> deadline'[d] = "posting"
    BY <1>7 DEF Kill
  <2> QED BY <1>7, <2>1, <2>2, <2>3, <2>4, <2>5 DEF Kill
<1>8. CASE UNCHANGED vars
  BY <1>8 DEF vars
<1> QED BY <1>1, <1>2, <1>3, <1>4, <1>5, <1>6, <1>7, <1>8 DEF Next

\* Every state of the hold is well formed.
THEOREM TypeCorrect == Spec => []TypeOK
BY TypeInit, TypeStep, PTL DEF Spec

-----------------------------------------------------------------------------
\* An open hold is whole: the step that opens it starts it empty at the next item, every
\* message that arrives joins it, and the steps that close it leave it empty.
LEMMA WholeStep == TypeOK /\ HoldIsWhole /\ [Next]_vars => HoldIsWhole'
<1> SUFFICES ASSUME TypeOK, HoldIsWhole, [Next]_vars PROVE HoldIsWhole'
  OBVIOUS
<1> USE DEF HoldIsWhole, hold, ending, history
<1>1. ASSUME NEW k \in (next - 1)..N, Connect(k) PROVE HoldIsWhole'
  BY <1>1 DEF Connect, beginDrain, TypeOK
<1>2. CASE Arrive
  <2>1. next' = next + 1 /\ next \in Items /\ openedAt \in 1..next /\ UNCHANGED <<draining, openedAt>>
    BY <1>2 DEF Arrive, TypeOK
  <2>2. CASE ~draining
    BY <1>2, <2>1, <2>2 DEF Arrive, holdOffline
  <2>3. CASE draining
    <3>1. openedAt..(next' - 1) = (openedAt..(next - 1)) \union {next}
      BY <2>1 DEF Items
    <3>2. held' = IF next \in Messages THEN held \union {next} ELSE held
      BY <1>2, <2>3 DEF Arrive, holdOffline
    <3> QED BY <2>1, <2>3, <3>1, <3>2
  <2> QED BY <2>2, <2>3
<1>3. CASE Complete
  BY <1>3 DEF Complete, endDrain
<1>4. CASE LoopDeliver \/ Drop \/ UNCHANGED vars
  BY <1>4 DEF LoopDeliver, Drop, vars
<1>5. ASSUME NEW d \in Drains, drainDeadline(d) PROVE HoldIsWhole'
  BY <1>5 DEF drainDeadline, DeadlineLooks, DeadlineTakes, DeadlineDelivers, endDrain
<1>6. CASE Kill
  BY <1>6 DEF Kill
<1> QED BY <1>1, <1>2, <1>3, <1>4, <1>5, <1>6 DEF Next

\* "An offline queue is ONE arrival": an open hold has exactly the messages that came since
\* it was opened, through any number of drops, so whoever closes it posts them as one batch.
THEOREM QueueIsOneArrival == Spec => []HoldIsWhole
<1>1. Init => HoldIsWhole
  BY DEF Init, HoldIsWhole
<1> QED BY <1>1, WholeStep, TypeCorrect, PTL DEF Spec

-----------------------------------------------------------------------------
\* Whatever the server and the link do, some deadline is still to close an open hold: the one of
\* the queue that opened it looks while it is open, and whoever goes past it has closed it.
THEOREM AnOpenHoldIsBounded == Spec => []HoldHasADeadline
<1>1. Init => HoldHasADeadline
  BY DEF Init, HoldHasADeadline
<1>2. TypeOK /\ HoldHasADeadline /\ [Next]_vars => HoldHasADeadline'
  <2> SUFFICES ASSUME TypeOK, HoldHasADeadline, [Next]_vars, draining'
               PROVE  \E d \in Drains : deadline'[d] \in {"asleep", "stranded"}
    BY DEF HoldHasADeadline
  <2> USE DEF HoldHasADeadline, hold, ending, history
  <2>1. ASSUME NEW k \in (next - 1)..N, Connect(k)
        PROVE  \E d \in Drains : deadline'[d] \in {"asleep", "stranded"}
    <3>1. CASE Messages \intersect (next..k) = {}
      BY <2>1, <3>1 DEF Connect
    <3>2. CASE Messages \intersect (next..k) # {}
      <4>1. drains < MaxDrains /\ deadline' = [deadline EXCEPT ![drains + 1] = "asleep"]
        BY <2>1, <3>2 DEF Connect
      <4>2. drains + 1 \in Drains
        BY <4>1, DrainAssumption DEF TypeOK, Drains
      <4>3. deadline'[drains + 1] = "asleep"
        BY <4>1, <4>2 DEF TypeOK
      <4> QED BY <4>2, <4>3
    <3> QED BY <3>1, <3>2
  <2>2. CASE Arrive \/ LoopDeliver \/ Drop \/ UNCHANGED vars
    BY <2>2 DEF Arrive, LoopDeliver, Drop, vars
  <2>3. CASE Complete \/ Kill
    BY <2>3 DEF Complete, endDrain, Kill
  <2>4. ASSUME NEW d \in Drains, drainDeadline(d)
        PROVE  \E e \in Drains : deadline'[e] \in {"asleep", "stranded"}
    <3>1. CASE DeadlineLooks(d)
      <4>1. draining /\ deadline'[d] = "stranded"
        BY <3>1 DEF DeadlineLooks, TypeOK
      <4> QED BY <4>1
    <3>2. CASE DeadlineTakes(d)
      BY <3>2 DEF DeadlineTakes, endDrain
    <3>3. CASE DeadlineDelivers(d)
      <4>1. PICK e \in Drains : deadline[e] \in {"asleep", "stranded"}
        BY <3>3 DEF DeadlineDelivers
      <4>2. e # d /\ deadline'[e] = deadline[e]
        BY <3>3, <4>1 DEF DeadlineDelivers, TypeOK
      <4> QED BY <4>1, <4>2
    <3> QED BY <2>4, <3>1, <3>2, <3>3 DEF drainDeadline
  <2> QED BY <2>1, <2>2, <2>3, <2>4 DEF Next
<1> QED BY <1>1, <1>2, TypeCorrect, PTL DEF Spec

-----------------------------------------------------------------------------
(***************************************************************************)
(* Each item in one place, and overtaken only in a deadline's hand.  What  *)
(* the second needs beside the first: what a deadline took is older than   *)
(* the hold that was opened since.                                         *)
(***************************************************************************)
TakenBeforeOpened == draining => \A i \in Carried : i < openedAt

Placed == TypeOK /\ HoldIsWhole /\ OnePlaceEach /\ TakenBeforeOpened
                 /\ OvertakenOnlyInADeadlinesHand


LEMMA PlacedInit == Init => Placed
<1> SUFFICES ASSUME Init PROVE Placed
  OBVIOUS
<1>1. Carried = {}
  BY DEF Init, Carried
<1>2. TypeOK /\ HoldIsWhole
  BY TypeInit DEF Init, HoldIsWhole
<1>3. OnePlaceEach
  BY <1>1 DEF Init, OnePlaceEach
<1>4. OvertakenOnlyInADeadlinesHand
  BY DEF Init, OvertakenOnlyInADeadlinesHand
<1> QED BY <1>1, <1>2, <1>3, <1>4 DEF Placed, TakenBeforeOpened

LEMMA PlacedStep == Placed /\ [Next]_vars => Placed'
<1> SUFFICES ASSUME Placed, [Next]_vars
             PROVE OnePlaceEach' /\ TakenBeforeOpened' /\ OvertakenOnlyInADeadlinesHand'
  BY TypeStep, WholeStep DEF Placed
<1>1. TypeOK /\ TypeOK' /\ HoldIsWhole /\ HoldIsWhole'
  BY TypeStep, WholeStep DEF Placed
<1> DEFINE Goal == OnePlaceEach /\ TakenBeforeOpened /\ OvertakenOnlyInADeadlinesHand
<1>2. Goal
  BY DEF Placed
<1>3. next \in Nat /\ \A i \in held : i \in Messages /\ i < next
  BY <1>1 DEF TypeOK, HoldIsWhole
<1> USE DEF hold, ending, history
<1>4. ASSUME NEW k \in (next - 1)..N, Connect(k) PROVE Goal'
  <2>1. UNCHANGED <<carried, Carried, outbox, next, loop, killed>>
    BY <1>4 DEF Connect, Carried
  <2>2. CASE Messages \intersect (next..k) = {}
    BY <1>2, <1>4, <2>1, <2>2
    DEF Connect, OnePlaceEach, TakenBeforeOpened, OvertakenOnlyInADeadlinesHand
  <2>3. CASE Messages \intersect (next..k) # {}
    <3>1. held' = {} /\ discarded' = discarded \union held /\ openedAt' = next
      BY <1>4, <2>3 DEF Connect, beginDrain
    <3>2. OnePlaceEach'
      BY <1>2, <2>1, <3>1 DEF OnePlaceEach
    <3>3. \A i \in Carried : i \in 1..(next - 1)
      BY <1>2 DEF OnePlaceEach
    <3>4. TakenBeforeOpened'
      BY <1>3, <2>1, <3>1, <3>3 DEF TakenBeforeOpened
    <3>5. OvertakenOnlyInADeadlinesHand'
      BY <1>2, <2>1, <3>1 DEF OvertakenOnlyInADeadlinesHand
    <3> QED BY <3>2, <3>4, <3>5
  <2> QED BY <2>2, <2>3
<1>5. CASE Arrive
  <2>1. /\ UNCHANGED <<carried, Carried, draining, openedAt, outbox, discarded, killed>>
        /\ next' = next + 1 /\ loop = {} /\ next \in Items
        /\ \/ held' = held \union {next} /\ loop' = {}
           \/ ~(draining /\ next \in Messages) /\ held' = held /\ loop' = {next}
    BY <1>5 DEF Arrive, Carried, holdOffline
  <2>2. /\ 1..(next' - 1) = (1..(next - 1)) \union {next}
        /\ next \notin 1..(next - 1)
    BY <1>3, <2>1 DEF Items
  <2>3. OnePlaceEach'
    BY <1>2, <2>1, <2>2 DEF OnePlaceEach
  <2>4. TakenBeforeOpened'
    BY <1>2, <2>1 DEF TakenBeforeOpened
  <2>5. OvertakenOnlyInADeadlinesHand'
    <3> SUFFICES ASSUME NEW i \in Messages, NEW j \in Messages, i < j, i < next',
                        j \in outbox' \union loop', i \notin outbox' \union loop'
                 PROVE  i \in Carried' \union discarded' \union killed'
      BY DEF OvertakenOnlyInADeadlinesHand
    <3>1. CASE i < next /\ j \in outbox
      BY <1>2, <2>1, <3>1 DEF OvertakenOnlyInADeadlinesHand
    <3>2. CASE i < next /\ j \in loop'
      <4>1. j = next /\ ~draining /\ held = {}
        BY <1>1, <2>1, <3>2 DEF HoldIsWhole
      <4>2. i \in 1..(next - 1)
        BY <1>3, <3>2, DrainAssumption DEF Items
      <4> QED BY <1>2, <2>1, <4>1, <4>2 DEF OnePlaceEach
    <3>3. CASE ~(i < next)
      <4>1. i = next /\ j \notin 1..next
        BY <1>3, <2>1, <3>3, DrainAssumption DEF Items
      <4>2. j \in 1..next
        BY <1>2, <2>1, <2>2, <4>1 DEF OnePlaceEach
      <4> QED BY <4>1, <4>2
    <3> QED BY <2>1, <3>1, <3>2, <3>3
  <2> QED BY <2>3, <2>4, <2>5
<1>6. CASE Complete
  <2>1. /\ UNCHANGED <<carried, Carried, openedAt, next, outbox, discarded, killed>>
        /\ loop = {} /\ loop' = held /\ held' = {} /\ ~draining'
    BY <1>6 DEF Complete, endDrain, Carried
  <2>2. OnePlaceEach'
    BY <1>2, <2>1 DEF OnePlaceEach
  <2>3. OvertakenOnlyInADeadlinesHand'
    <3> SUFFICES ASSUME NEW i \in Messages, i < next, i \notin outbox, i \notin held
                 PROVE  i \in Carried \union discarded \union killed
      BY <2>1 DEF OvertakenOnlyInADeadlinesHand
    <3>1. i \in 1..(next - 1)
      BY <1>3, DrainAssumption DEF Items
    <3> QED BY <1>2, <2>1, <3>1 DEF OnePlaceEach
  <2> QED BY <2>1, <2>2, <2>3 DEF TakenBeforeOpened
<1>7. CASE LoopDeliver
  <2>1. /\ UNCHANGED <<carried, Carried, hold, openedAt, next, discarded, killed>>
        /\ outbox' = outbox \union loop /\ loop' = {}
    BY <1>7 DEF LoopDeliver, Carried
  <2> QED BY <1>2, <2>1
      DEF OnePlaceEach, TakenBeforeOpened, OvertakenOnlyInADeadlinesHand
<1>8. CASE Drop \/ UNCHANGED vars
  <2>1. UNCHANGED <<carried, Carried, hold, openedAt, next, discarded, killed, outbox, loop>>
    BY <1>8 DEF Drop, vars, Carried
  <2> QED BY <1>2, <2>1
      DEF OnePlaceEach, TakenBeforeOpened, OvertakenOnlyInADeadlinesHand
<1>9. ASSUME NEW d \in Drains, drainDeadline(d) PROVE Goal'
  <2>1. CASE DeadlineLooks(d)
    <3>1. UNCHANGED <<carried, Carried, hold, openedAt, next, discarded, killed, outbox, loop>>
      BY <2>1 DEF DeadlineLooks, Carried
    <3> QED BY <1>2, <3>1
        DEF OnePlaceEach, TakenBeforeOpened, OvertakenOnlyInADeadlinesHand
  <2>2. CASE DeadlineTakes(d)
    <3>1. /\ UNCHANGED <<openedAt, next, discarded, killed, outbox, loop>>
          /\ carried' = [carried EXCEPT ![d] = held] /\ carried[d] = {}
          /\ held' = {} /\ ~draining'
      BY <1>1, <2>2 DEF DeadlineTakes, endDrain, TypeOK
    <3>2. Carried' = Carried \union held
      BY <1>1, <3>1 DEF Carried, TypeOK
    <3>3. OnePlaceEach'
      <4>1. \A e, f \in Drains : e # f => carried'[e] \intersect carried'[f] = {}
        <5>1. \A e \in Drains : carried[e] \subseteq Carried
          BY DEF Carried
        <5> QED BY <1>1, <1>2, <3>1, <5>1 DEF OnePlaceEach, TypeOK
      <4> QED BY <1>2, <3>1, <3>2, <4>1 DEF OnePlaceEach
    <3>4. OvertakenOnlyInADeadlinesHand'
      BY <1>2, <3>1, <3>2 DEF OvertakenOnlyInADeadlinesHand
    <3> QED BY <3>1, <3>3, <3>4 DEF TakenBeforeOpened
  <2>3. CASE DeadlineDelivers(d)
    <3>1. /\ UNCHANGED <<hold, openedAt, next, discarded, killed, loop>>
          /\ carried' = [carried EXCEPT ![d] = {}]
          /\ outbox' = outbox \union carried[d]
      BY <2>3 DEF DeadlineDelivers
    <3>2. carried[d] \subseteq Carried /\ Carried = Carried' \union carried[d]
      BY <1>1, <3>1 DEF Carried, TypeOK
    <3>3. Carried' \intersect carried[d] = {}
      BY <1>1, <1>2, <3>1 DEF Carried, OnePlaceEach, TypeOK
    <3>4. OnePlaceEach'
      BY <1>1, <1>2, <3>1, <3>2, <3>3 DEF OnePlaceEach, TypeOK
    <3>5. OvertakenOnlyInADeadlinesHand'
      <4> SUFFICES ASSUME NEW i \in Messages, NEW j \in Messages, i < j, i < next,
                          j \in outbox' \union loop, i \notin outbox' \union loop
                   PROVE  i \in Carried' \union discarded \union killed
        BY <3>1 DEF OvertakenOnlyInADeadlinesHand
      <4>1. CASE j \in outbox \union loop
        BY <1>2, <3>1, <3>2, <4>1 DEF OvertakenOnlyInADeadlinesHand
      <4>2. CASE j \in carried[d]
        <5>1. i \in 1..(next - 1)
          BY <1>3, DrainAssumption DEF Items
        <5>2. i \notin held
          BY <1>1, <1>2, <3>2, <4>2 DEF HoldIsWhole, TakenBeforeOpened, TypeOK, Items
        <5> QED BY <1>2, <3>1, <3>2, <5>1, <5>2 DEF OnePlaceEach
      <4> QED BY <3>1, <4>1, <4>2
    <3> QED BY <1>2, <3>1, <3>2, <3>4, <3>5 DEF TakenBeforeOpened
  <2> QED BY <1>9, <2>1, <2>2, <2>3 DEF drainDeadline
<1>10. CASE Kill
  <2>1. /\ Carried' = {} /\ loop' = {} /\ held' = {} /\ ~draining'
        /\ killed' = killed \union held \union loop \union Carried
        /\ UNCHANGED <<next, outbox, discarded>>
    BY <1>10 DEF Kill, Carried
  <2>2. \A d \in Drains : carried'[d] = {}
    BY <1>10 DEF Kill
  <2> QED BY <1>2, <2>1, <2>2
      DEF OnePlaceEach, TakenBeforeOpened, OvertakenOnlyInADeadlinesHand
<1> QED BY <1>4, <1>5, <1>6, <1>7, <1>8, <1>9, <1>10 DEF Next

LEMMA PlacedAlways == Spec => []Placed
BY PlacedInit, PlacedStep, PTL DEF Spec

\* Every acked item is in exactly one place, so no message is posted in two batches, and the
\* only ways to lose one are a second beginDrain and the death of the process.
THEOREM EachItemOnce == Spec => []OnePlaceEach
BY PlacedAlways, PTL DEF Placed

\* Messages become durable in the order they came, but for those a deadline has in hand.
THEOREM OnlyADeadlineIsOvertaken == Spec => []OvertakenOnlyInADeadlinesHand
BY PlacedAlways, PTL DEF Placed
-----------------------------------------------------------------------------
(***************************************************************************)
(* Arrivals.  Of a batch in hand, or accepted, every item that came before *)
(* one of its own is accounted for: in a batch accepted when it was taken  *)
(* in hand, aside then, refused by the store, or lost.  Once its verdict   *)
(* is known, the channel says that the batches accepted are settled.       *)
(***************************************************************************)
\* What the event loop has in hand came after what is held.
LoopIsNewer == \A i \in loop, j \in held : j < i

InHand(c) == c # {} /\ (c = loop \/ \E d \in Drains : c = carried[d])

ChannelTyped ==
  /\ accepted \subseteq Batches /\ owed \subseteq accepted
  /\ older \in [Batches -> SUBSET accepted]
  /\ fate \in [Batches -> {"open", "landed", "refused", "dropped"}]
  /\ passed \in [Batches -> SUBSET Items]

\* What is accepted, or has a fate, was delivered.
Durable ==
  /\ \A c \in accepted : c \subseteq outbox
  /\ \A c \in Batches : fate[c] # "open" => c \subseteq outbox

InTurn == \A c \in accepted : fate[c] # "open" => older[c] \intersect owed = {}

HandsAreBatches == \A c : InHand(c) => c \in Batches /\ c \intersect outbox = {}

\* What came before an item of c.
Before(c) == {i \in Items : \E j \in c : i < j}

BackedBy(c) == Before(c) \subseteq c \union (UNION older[c]) \union passed[c] \union Bypassed \union Lost

Backed == \A c : InHand(c) \/ c \in accepted => BackedBy(c)

Handed == ChannelTyped /\ Durable /\ InTurn /\ HandsAreBatches /\ Backed

-----------------------------------------------------------------------------
\* Nothing is taken in hand and nothing delivered.
LEMMA HandedQuiet ==
  ASSUME Handed, UNCHANGED <<handedVars, outbox>>, Lost \subseteq Lost',
         \A c : InHand(c)' => InHand(c)
  PROVE  Handed'
<1>1. UNCHANGED <<accepted, owed, older, fate, passed, outbox>>
  BY DEF handedVars, channelVars
<1>2. ChannelTyped' /\ Durable' /\ InTurn' /\ HandsAreBatches'
  BY <1>1 DEF Handed, ChannelTyped, Durable, InTurn, HandsAreBatches
<1>3. Bypassed' = Bypassed
  BY <1>1 DEF Bypassed
<1>4. \A c : BackedBy(c) => BackedBy(c)'
  BY <1>1, <1>3 DEF BackedBy, Before
<1>5. Backed'
  BY <1>1, <1>4 DEF Handed, Backed
<1> QED BY <1>2, <1>5 DEF Handed

\* b is taken in hand, with everything before it in its place.
LEMMA HandedTaken ==
  ASSUME Handed, NEW b \in Batches, Channel!Begin(b, accepted), passed' = [passed EXCEPT ![b] = Aside(b)],
         Aside(b) \subseteq Items, UNCHANGED outbox, Lost' = Lost, b \intersect outbox = {},
         ~InHand(b), \A c : InHand(c)' => InHand(c) \/ c = b,
         Before(b) \subseteq b \union outbox \union Aside(b) \union Lost
  PROVE  Handed'
<1>1. b \notin accepted /\ older' = [older EXCEPT ![b] = accepted] /\ UNCHANGED <<accepted, owed, fate>>
  BY DEF Channel!Begin
<1>2. ChannelTyped'
  BY <1>1 DEF Handed, ChannelTyped
<1>3. Durable' /\ HandsAreBatches'
  BY <1>1 DEF Handed, Durable, HandsAreBatches
<1>4. \A c : c # b /\ c \in Batches => older'[c] = older[c] /\ passed'[c] = passed[c]
  BY <1>1 DEF Handed, ChannelTyped
<1>5. InTurn'
  BY <1>1, <1>4 DEF Handed, InTurn, ChannelTyped
<1>6. Bypassed' = Bypassed
  BY <1>1 DEF Bypassed
<1>7. BackedBy(b)'
  <2>1. older'[b] = accepted /\ passed'[b] = Aside(b)
    BY <1>1 DEF Handed, ChannelTyped
  <2>2. outbox \subseteq (UNION accepted) \union Bypassed
    BY DEF Bypassed
  <2> QED BY <1>6, <2>1, <2>2 DEF BackedBy, Before
<1>8. ASSUME NEW c, InHand(c) \/ c \in accepted, BackedBy(c) PROVE BackedBy(c)'
  <2>1. c # b /\ c \in Batches
    BY <1>1, <1>8 DEF Handed, HandsAreBatches, ChannelTyped
  <2> QED BY <1>4, <1>6, <1>8, <2>1 DEF BackedBy, Before
<1>9. Backed'
  BY <1>1, <1>7, <1>8 DEF Handed, Backed
<1> QED BY <1>2, <1>3, <1>5, <1>9 DEF Handed

\* b is delivered: accepted, posted at once, or neither.
LEMMA HandedDelivered ==
  ASSUME Handed, NEW b, InHand(b), Deliver(b), outbox' = outbox \union b, Lost' = Lost,
         \A c : InHand(c)' => InHand(c) /\ c \intersect b = {}
  PROVE  Handed'
<1>1. b \in Batches /\ b \intersect outbox = {} /\ b # {} /\ fate[b] = "open" /\ b \notin accepted
  BY DEF Handed, HandsAreBatches, Durable, InHand
<1>2. UNCHANGED <<older, passed>>
  BY DEF Deliver, Channel!Accept, Channel!Bypass, channelVars
<1>3. \/ accepted' = accepted \union {b} /\ owed' = owed \union {b} /\ fate' = fate
      \/ UNCHANGED <<accepted, owed>> /\ fate' \in {fate, [fate EXCEPT ![b] = "landed"]}
  BY DEF Deliver, Channel!Accept, Channel!Bypass, channelVars
<1>4. ChannelTyped'
  BY <1>1, <1>2, <1>3 DEF Handed, ChannelTyped
<1>5. Durable'
  <2>1. \A c \in accepted' : c \subseteq outbox'
    BY <1>3 DEF Handed, Durable
  <2>2. \A c \in Batches : fate'[c] # "open" => fate[c] # "open" \/ c = b
    BY <1>3 DEF Handed, ChannelTyped
  <2> QED BY <2>1, <2>2 DEF Handed, Durable
<1>6. InTurn'
  <2> SUFFICES ASSUME NEW c \in accepted', fate'[c] # "open" PROVE older'[c] \intersect owed' = {}
    BY DEF InTurn
  <2>1. c \in accepted /\ c # b /\ fate[c] # "open"
    BY <1>1, <1>3 DEF Handed, ChannelTyped
  <2>2. older[c] \subseteq accepted /\ older[c] \intersect owed = {}
    BY <2>1 DEF Handed, ChannelTyped, InTurn
  <2> QED BY <1>1, <1>2, <1>3, <2>2
<1>7. HandsAreBatches'
  BY DEF Handed, HandsAreBatches
<1>8. Bypassed \subseteq Bypassed'
  BY <1>1, <1>3 DEF Bypassed
<1>9. ASSUME NEW c, BackedBy(c) PROVE BackedBy(c)'
  BY <1>2, <1>8, <1>9 DEF BackedBy, Before
<1>10. Backed'
  BY <1>3, <1>9 DEF Handed, Backed
<1> QED BY <1>4, <1>5, <1>6, <1>7, <1>10 DEF Handed

\* A lane takes, closes or settles a batch whose turn it is.
LEMMA HandedLanes ==
  ASSUME Handed, Lanes
  PROVE  Handed'
<1>1. PICK b \in accepted : Channel!Take(b) \/ Channel!Close(b) \/ Channel!Settle(b)
  BY DEF Lanes
<1>2. /\ older[b] \intersect owed = {} /\ UNCHANGED <<accepted, older, passed>>
      /\ \/ owed' = owed /\ \E f \in {"landed", "refused", "dropped"} : fate' = [fate EXCEPT ![b] = f]
         \/ owed' = owed \ {b} /\ fate' = fate
  BY <1>1 DEF Lanes, Channel!Take, Channel!Close, Channel!Settle, Channel!Turn
<1>3. UNCHANGED <<loop, carried, outbox, discarded, killed>>
  BY DEF Lanes, vars, ending, history
<1>4. ChannelTyped'
  BY <1>2 DEF Handed, ChannelTyped
<1>5. \A c \in Batches : fate'[c] # "open" => fate[c] # "open" \/ c = b
  BY <1>2 DEF Handed, ChannelTyped
<1>6. Durable'
  BY <1>2, <1>3, <1>5 DEF Handed, Durable
<1>7. InTurn'
  BY <1>2, <1>5 DEF Handed, InTurn, ChannelTyped
<1>8. HandsAreBatches' /\ Backed'
  BY <1>2, <1>3 DEF Handed, HandsAreBatches, Backed, InHand, BackedBy, Before, Bypassed, Lost
<1> QED BY <1>4, <1>6, <1>7, <1>8 DEF Handed
-----------------------------------------------------------------------------
\* Every step of the whole is one of the hold, or leaves the hold alone.
LEMMA DrainSteps == [ArrivalsNext]_arrivalsVars => [Next]_vars
<1> SUFFICES ASSUME [ArrivalsNext]_arrivalsVars PROVE [Next]_vars
  OBVIOUS
<1>1. CASE LinkOrLife \/ LoopTakes \/ LoopHandsOn
  BY <1>1 DEF LinkOrLife, LoopTakes, LoopHandsOn, Next
<1>2. ASSUME NEW d \in Drains, DeadlineHandsOn(d) PROVE [Next]_vars
  BY <1>2 DEF DeadlineHandsOn, drainDeadline, Next
<1>3. CASE Lanes \/ UNCHANGED arrivalsVars
  BY <1>3 DEF Lanes, arrivalsVars
<1> QED BY <1>1, <1>2, <1>3 DEF ArrivalsNext

LEMMA LoopIsNewerStep ==
  TypeOK /\ HoldIsWhole /\ LoopIsNewer /\ [Next]_vars => LoopIsNewer'
<1> SUFFICES ASSUME TypeOK, HoldIsWhole, LoopIsNewer, [Next]_vars PROVE LoopIsNewer'
  OBVIOUS
<1> USE DEF LoopIsNewer, hold, ending, history
<1>1. ASSUME NEW k \in (next - 1)..N, Connect(k) PROVE LoopIsNewer'
  BY <1>1 DEF Connect
<1>2. CASE Arrive
  <2>1. \A j \in held : j < next
    BY DEF TypeOK, HoldIsWhole
  <2> QED BY <1>2, <2>1 DEF Arrive
<1>3. CASE Complete \/ LoopDeliver \/ Drop \/ UNCHANGED vars
  BY <1>3 DEF Complete, endDrain, LoopDeliver, Drop, vars
<1>4. ASSUME NEW d \in Drains, drainDeadline(d) PROVE LoopIsNewer'
  BY <1>4 DEF drainDeadline, DeadlineLooks, DeadlineTakes, DeadlineDelivers, endDrain
<1>5. CASE Kill
  BY <1>5 DEF Kill
<1> QED BY <1>1, <1>2, <1>3, <1>4, <1>5 DEF Next

LEMMA HandedStep == Placed /\ LoopIsNewer /\ Handed /\ [ArrivalsNext]_arrivalsVars => Handed'
<1> SUFFICES ASSUME Placed, LoopIsNewer, Handed, [ArrivalsNext]_arrivalsVars PROVE Handed'
  OBVIOUS
<1>0. TypeOK /\ HoldIsWhole /\ OnePlaceEach
  BY DEF Placed
<1>1. \A d \in Drains : carried[d] \subseteq Carried
  BY DEF Carried
<1>2. Carried \subseteq Items
  BY <1>0 DEF Carried, TypeOK
<1>3. \A c : InHand(c) => c \subseteq loop \union Carried
  BY <1>1 DEF InHand
<1>4. next \in Nat /\ held \subseteq Messages /\ held \subseteq Items
  BY <1>0 DEF TypeOK, HoldIsWhole
\* What came before an item that arrived, or before one that is held.
<1>5. ASSUME NEW c, c \subseteq Items, \A j \in c : j <= next
      PROVE  Before(c) \subseteq held \union loop \union outbox \union Carried \union Lost
  <2>1. Before(c) \subseteq 1..(next - 1)
    BY <1>4, <1>5 DEF Before, Items
  <2> QED BY <1>0, <2>1 DEF OnePlaceEach, Lost
<1>6. \A j \in held : j <= next
  BY <1>0, <1>4 DEF HoldIsWhole
<1> USE DEF hold, ending, history
<1>7. CASE LinkOrLife
  <2>1. UNCHANGED <<handedVars, outbox>> /\ Lost \subseteq Lost'
    BY <1>7 DEF LinkOrLife, Connect, beginDrain, Drop, Kill, Lost
  <2>2. \A c : InHand(c)' => InHand(c)
    BY <1>7 DEF LinkOrLife, Connect, Drop, Kill, InHand
  <2> QED BY <2>1, <2>2, HandedQuiet
<1>8. CASE LoopTakes
  <2>1. /\ UNCHANGED <<carried, outbox, discarded, killed>> /\ loop = {} /\ TakenInHand(loop')
        /\ \/ loop' = {}
           \/ loop' = {next} /\ next \in Items /\ (draining => next \notin Messages)
           \/ loop' = held
    BY <1>8 DEF LoopTakes, Arrive, holdOffline, Complete
  <2>2. Lost' = Lost
    BY <2>1 DEF Lost
  <2>3. CASE loop' = {}
    BY <2>1, <2>2, <2>3, HandedQuiet DEF TakenInHand, InHand
  <2>4. CASE loop' # {}
    <3> DEFINE b == loop'
    <3>1. Channel!Begin(b, accepted) /\ passed' = [passed EXCEPT ![b] = Aside(b)]
      BY <2>1, <2>4 DEF TakenInHand
    <3>2. b \in Batches
      BY <1>4, <2>1, <2>4 DEF Batches
    <3>3. b \intersect (outbox \union Carried) = {}
      <4>1. next \notin 1..(next - 1)
        BY <1>4
      <4> QED BY <1>0, <2>1, <4>1 DEF OnePlaceEach
    <3>4. Before(b) \subseteq b \union outbox \union Aside(b) \union Lost
      <4>1. Before(b) \subseteq held \union outbox \union Carried \union Lost
        BY <1>4, <1>5, <1>6, <2>1
      <4>2. CASE b = held
        BY <4>1, <4>2 DEF Aside
      <4>3. CASE next \notin Messages /\ b = {next}
        BY <4>1, <4>3 DEF Aside
      <4>4. CASE ~draining
        BY <1>0, <4>1, <4>4 DEF HoldIsWhole, Aside
      <4> QED BY <2>1, <2>4, <4>2, <4>3, <4>4
    <3>5. ~InHand(b)
      BY <1>3, <2>1, <2>4, <3>3
    <3>6. \A c : InHand(c)' => InHand(c) \/ c = b
      BY <2>1 DEF InHand
    <3>7. Aside(b) \subseteq Items
      BY <1>2, <1>4 DEF Aside
    <3> HIDE DEF b
    <3> QED BY <3>7, <2>1, <2>2, <3>1, <3>2, <3>3, <3>4, <3>5, <3>6, HandedTaken
  <2> QED BY <2>3, <2>4
<1>9. CASE LoopHandsOn
  <2>1. /\ UNCHANGED <<carried, discarded, killed>> /\ outbox' = outbox \union loop /\ loop' = {}
        /\ loop # {} /\ Deliver(loop)
    BY <1>9 DEF LoopHandsOn, LoopDeliver
  <2>2. InHand(loop) /\ Lost' = Lost
    BY <2>1 DEF InHand, Lost
  <2>3. ASSUME NEW c, InHand(c)' PROVE InHand(c) /\ c \intersect loop = {}
    BY <1>0, <1>1, <2>1, <2>3 DEF InHand, OnePlaceEach
  <2> QED BY <2>1, <2>2, <2>3, HandedDelivered
<1>10. ASSUME NEW d \in Drains, DeadlineHandsOn(d) PROVE Handed'
  <2>1. CASE DeadlineLooks(d) /\ UNCHANGED handedVars
    BY <2>1, HandedQuiet DEF DeadlineLooks, InHand, Lost
  <2>2. CASE DeadlineTakes(d) /\ TakenInHand(held)
    <3>1. /\ UNCHANGED <<loop, outbox, discarded, killed>>
          /\ carried' = [carried EXCEPT ![d] = held] /\ carried[d] = {}
      BY <1>0, <2>2 DEF DeadlineTakes, endDrain, TypeOK
    <3>2. Lost' = Lost
      BY <3>1 DEF Lost
    <3>3. \A e \in Drains : carried'[e] = IF e = d THEN held ELSE carried[e]
      BY <1>0, <3>1 DEF TypeOK
    <3>4. \A c : InHand(c)' => InHand(c) \/ (c = held /\ held # {})
      BY <3>1, <3>3 DEF InHand
    <3>5. CASE held = {}
      BY <2>2, <3>1, <3>2, <3>4, <3>5, HandedQuiet DEF TakenInHand
    <3>6. CASE held # {}
      <4>1. Channel!Begin(held, accepted) /\ passed' = [passed EXCEPT ![held] = Aside(held)]
        BY <2>2, <3>6 DEF TakenInHand
      <4>2. held \in Batches
        BY <1>4, <3>6 DEF Batches
      <4>3. held \intersect (outbox \union loop \union Carried) = {} /\ ~InHand(held)
        BY <1>0, <1>3, <3>6 DEF OnePlaceEach
      <4>4. Before(held) \subseteq held \union outbox \union Aside(held) \union Lost
        <5>1. \A i \in Before(held) : i \notin loop
          BY <1>4 DEF Before, LoopIsNewer, Items
        <5> QED BY <1>4, <1>5, <1>6, <5>1 DEF Aside
      <4>5. Aside(held) \subseteq Items
        BY <1>2, <1>4 DEF Aside
      <4> QED BY <4>5, <3>1, <3>2, <3>4, <4>1, <4>2, <4>3, <4>4, HandedTaken
    <3> QED BY <3>5, <3>6
  <2>3. CASE DeadlineDelivers(d) /\ Deliver(carried[d])
    <3>1. /\ UNCHANGED <<loop, discarded, killed>> /\ outbox' = outbox \union carried[d]
          /\ carried' = [carried EXCEPT ![d] = {}] /\ carried[d] # {}
      BY <1>0, <2>3 DEF DeadlineDelivers, TypeOK
    <3>2. InHand(carried[d]) /\ Lost' = Lost
      BY <3>1 DEF InHand, Lost
    <3>3. \A e \in Drains : carried'[e] = IF e = d THEN {} ELSE carried[e]
      BY <1>0, <3>1 DEF TypeOK
    <3>4. ASSUME NEW c, InHand(c)' PROVE InHand(c) /\ c \intersect carried[d] = {}
      <4>1. c # {} /\ (c = loop \/ \E e \in Drains : e # d /\ c = carried[e])
        BY <3>1, <3>3, <3>4 DEF InHand
      <4> QED BY <1>0, <1>1, <4>1 DEF InHand, OnePlaceEach
    <3> QED BY <2>3, <3>1, <3>2, <3>4, HandedDelivered
  <2> QED BY <1>10, <2>1, <2>2, <2>3 DEF DeadlineHandsOn
<1>11. CASE Lanes
  BY <1>11, HandedLanes
<1>12. CASE UNCHANGED arrivalsVars
  BY <1>12, HandedQuiet DEF arrivalsVars, vars, InHand, Lost
<1> QED BY <1>7, <1>8, <1>9, <1>10, <1>11, <1>12 DEF ArrivalsNext

LEMMA HandedInit == ArrivalsInit => Placed /\ LoopIsNewer /\ Handed
<1> SUFFICES ASSUME ArrivalsInit PROVE LoopIsNewer /\ Handed
  BY PlacedInit DEF ArrivalsInit
<1>1. /\ accepted = {} /\ owed = {} /\ older = [b \in Batches |-> {}]
      /\ fate = [b \in Batches |-> "open"] /\ passed = [b \in Batches |-> {}]
  BY DEF ArrivalsInit, Channel!Init
<1>2. loop = {} /\ \A c : ~InHand(c)
  BY DEF ArrivalsInit, Init, InHand
<1>3. ChannelTyped /\ Durable /\ InTurn /\ HandsAreBatches /\ Backed
  BY <1>1, <1>2 DEF ChannelTyped, Durable, InTurn, HandsAreBatches, Backed
<1> QED BY <1>2, <1>3 DEF LoopIsNewer, Handed

LEMMA HandedAlways == ArrivalsSpec => [](Placed /\ LoopIsNewer /\ Handed)
<1>1. /\ Placed /\ LoopIsNewer /\ Handed /\ [ArrivalsNext]_arrivalsVars
      => (Placed /\ LoopIsNewer /\ Handed)'
  BY DrainSteps, PlacedStep, LoopIsNewerStep, HandedStep DEF Placed
<1> QED BY <1>1, HandedInit, PTL DEF ArrivalsSpec

\* From WhatsApp to the receiver, across the hold, its deadlines and the outbox: no item meets its
\* verdict before one that was sent earlier, but for those that stood aside when it was taken in
\* hand - in a deadline's hand or, for what is not a message, held - those the store refused, and
\* those that were lost.
THEOREM ReceivedAsSent == ArrivalsSpec => []LandsAsSent
<1>1. Handed => LandsAsSent
  <2> SUFFICES ASSUME Handed, NEW c \in accepted, fate[c] # "open",
                      NEW i \in Items, NEW j \in c, i < j
               PROVE  i \in c \union Settled \union passed[c] \union Bypassed \union Lost
    BY DEF LandsAsSent
  <2>1. older[c] \subseteq accepted /\ older[c] \intersect owed = {}
    BY DEF Handed, ChannelTyped, InTurn
  <2>2. UNION older[c] \subseteq Settled
    BY <2>1 DEF Settled
  <2>3. i \in Before(c) /\ BackedBy(c)
    BY DEF Before, Handed, Backed
  <2> QED BY <2>2, <2>3 DEF BackedBy
<1> QED BY <1>1, HandedAlways, PTL

LEMMA DeliveredStep ==
  Placed /\ Handed /\ EachInOneBatch /\ [ArrivalsNext]_arrivalsVars => EachInOneBatch'
<1> SUFFICES ASSUME Placed, Handed, EachInOneBatch, [ArrivalsNext]_arrivalsVars PROVE EachInOneBatch'
  OBVIOUS
<1>1. \A c \in Batches : Delivered(c) => c \subseteq outbox
  BY DEF Delivered, Handed, Durable
\* Nothing new is delivered but a batch in hand, of which nothing was.
<1>2. ASSUME \A c \in Batches : Delivered(c)' => Delivered(c) PROVE EachInOneBatch'
  BY <1>2 DEF EachInOneBatch
<1>3. ASSUME NEW b, InHand(b), Deliver(b) PROVE EachInOneBatch'
  <2>1. b \in Batches /\ b \intersect outbox = {}
    BY <1>3 DEF Handed, HandsAreBatches
  <2>2. ASSUME NEW c \in Batches, Delivered(c)' PROVE Delivered(c) \/ c = b
    BY <1>3, <2>2
    DEF Deliver, Channel!Accept, Channel!Bypass, channelVars, Delivered, Handed, ChannelTyped
  <2> QED BY <1>1, <2>1, <2>2 DEF EachInOneBatch
<1>4. ASSUME NEW b, TakenInHand(b) PROVE EachInOneBatch'
  <2>1. UNCHANGED <<accepted, fate>>
    BY <1>4 DEF TakenInHand, handedVars, channelVars, Channel!Begin
  <2> QED BY <1>2, <2>1 DEF Delivered
<1>5. CASE LinkOrLife \/ UNCHANGED arrivalsVars
  BY <1>2, <1>5 DEF LinkOrLife, arrivalsVars, handedVars, channelVars, Delivered
<1>6. CASE LoopTakes
  BY <1>4, <1>6 DEF LoopTakes
<1>7. CASE LoopHandsOn
  BY <1>3, <1>7 DEF LoopHandsOn, LoopDeliver, InHand
<1>8. ASSUME NEW d \in Drains, DeadlineHandsOn(d) PROVE EachInOneBatch'
  <2>1. CASE DeadlineLooks(d) /\ UNCHANGED handedVars
    BY <1>2, <2>1 DEF handedVars, channelVars, Delivered
  <2>2. CASE DeadlineTakes(d) /\ TakenInHand(held)
    BY <1>4, <2>2
  <2>3. CASE DeadlineDelivers(d) /\ Deliver(carried[d])
    <3>1. InHand(carried[d])
      BY <2>3 DEF DeadlineDelivers, Placed, TypeOK, InHand
    <3> QED BY <1>3, <2>3, <3>1
  <2> QED BY <1>8, <2>1, <2>2, <2>3 DEF DeadlineHandsOn
<1>9. CASE Lanes
  <2>1. PICK b \in accepted : Channel!Take(b) \/ Channel!Close(b) \/ Channel!Settle(b)
    BY <1>9 DEF Lanes
  <2>2. ASSUME NEW c \in Batches, Delivered(c)' PROVE Delivered(c)
    <3>1. accepted' = accepted /\ (c # b => fate'[c] = fate[c])
      BY <2>1 DEF Channel!Take, Channel!Close, Channel!Settle, Handed, ChannelTyped
    <3> QED BY <2>1, <2>2, <3>1 DEF Delivered
  <2> QED BY <1>2, <2>2
<1> QED BY <1>5, <1>6, <1>7, <1>8, <1>9 DEF ArrivalsNext

\* No item reaches the receiver in two batches: whatever is in hand is of nothing delivered before,
\* so a batch that is accepted or posted shares no item with another.
THEOREM NothingIsPostedTwice == ArrivalsSpec => []EachInOneBatch
<1>1. ArrivalsInit => EachInOneBatch
  BY DEF ArrivalsInit, Channel!Init, EachInOneBatch, Delivered
<1> QED BY <1>1, DeliveredStep, HandedAlways, PTL DEF ArrivalsSpec

\* The whole is a behaviour of each of its parts: the theorems of the hold are theorems of it, and
\* the outbox does nothing in it but what DeliveryChannel says, which is what Outbox implements.
THEOREM ArrivalsAreItsParts == ArrivalsSpec => Spec /\ Channel!Spec
<1> DEFINE Inv == Placed /\ Handed
<1>1. ArrivalsInit => Init /\ Channel!Init
  BY DEF ArrivalsInit
<1>2. Inv /\ [ArrivalsNext]_arrivalsVars => [Channel!Next]_(Channel!vars)
  <2> SUFFICES ASSUME Inv, [ArrivalsNext]_arrivalsVars
               PROVE  Channel!Next \/ UNCHANGED Channel!vars
    OBVIOUS
  <2>1. UNCHANGED channelVars => UNCHANGED Channel!vars
    BY DEF channelVars, Channel!vars
  <2>2. accepted \subseteq Batches
    BY DEF Handed, ChannelTyped
  <2>3. held \subseteq Messages
    BY DEF Placed, HoldIsWhole
  <2>4. ASSUME NEW b \in Batches, Deliver(b) PROVE Channel!Next \/ UNCHANGED Channel!vars
    BY <2>1, <2>4 DEF Deliver, Channel!Next
  <2>5. ASSUME NEW b, TakenInHand(b), b # {} => b \in Batches
        PROVE  Channel!Next \/ UNCHANGED Channel!vars
    <3>1. CASE b = {}
      BY <2>1, <2>5, <3>1 DEF TakenInHand, handedVars
    <3>2. CASE b # {}
      <4>1. accepted \in SUBSET Batches /\ Channel!Begin(b, accepted) /\ b \in Batches
        BY <2>2, <2>5, <3>2 DEF TakenInHand
      <4> QED BY <4>1 DEF Channel!Next
    <3> QED BY <3>1, <3>2
  <2>6. CASE LinkOrLife
    BY <2>1, <2>6 DEF LinkOrLife, handedVars
  <2>7. CASE LoopTakes
    <3>1. TakenInHand(loop') /\ (loop' = {} \/ loop' = held \/ (loop' = {next} /\ next \in Items))
      BY <2>7 DEF LoopTakes, Arrive, Complete
    <3>2. loop' # {} => loop' \in Batches
      BY <2>3, <3>1 DEF Batches
    <3> QED BY <2>5, <3>1, <3>2
  <2>8. CASE LoopHandsOn
    <3>1. loop \in Batches /\ Deliver(loop)
      BY <2>8 DEF LoopHandsOn, LoopDeliver, Handed, HandsAreBatches, InHand
    <3> QED BY <2>4, <3>1
  <2>9. ASSUME NEW d \in Drains, DeadlineHandsOn(d) PROVE Channel!Next \/ UNCHANGED Channel!vars
    <3>1. CASE DeadlineLooks(d) /\ UNCHANGED handedVars
      BY <2>1, <3>1 DEF handedVars
    <3>2. CASE DeadlineTakes(d) /\ TakenInHand(held)
      BY <2>3, <2>5, <3>2 DEF Batches
    <3>3. CASE DeadlineDelivers(d) /\ Deliver(carried[d])
      <4>1. carried[d] # {}
        BY <3>3 DEF DeadlineDelivers, Placed, TypeOK
      <4>2. carried[d] \in Batches
        BY <4>1 DEF Handed, HandsAreBatches, InHand
      <4> QED BY <2>4, <3>3, <4>2
    <3> QED BY <2>9, <3>1, <3>2, <3>3 DEF DeadlineHandsOn
  <2>10. CASE Lanes
    BY <2>2, <2>10 DEF Lanes, Channel!Next
  <2>11. CASE UNCHANGED arrivalsVars
    BY <2>1, <2>11 DEF arrivalsVars, handedVars
  <2> QED BY <2>6, <2>7, <2>8, <2>9, <2>10, <2>11 DEF ArrivalsNext
<1>3. Placed /\ LoopIsNewer /\ Handed => Inv
  OBVIOUS
<1> HIDE DEF Inv
<1> QED BY <1>1, <1>2, <1>3, DrainSteps, HandedAlways, PTL DEF ArrivalsSpec, Spec, Channel!Spec
=============================================================================
