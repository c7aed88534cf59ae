------------------------------- MODULE Outbox -------------------------------
(***************************************************************************)
(* The durable outbox of outbox.go: how a batch reaches the webhook.       *)
(*                                                                         *)
(* Deliver writes a batch to bridge_outbox and wakes the lane of its       *)
(* address; the lane, one goroutine per address, posts its oldest row,     *)
(* settles it and looks again.  Rows survive a restart of the process,     *)
(* everything else is lost with it.                                        *)
(*                                                                         *)
(* Each element of Batches is one call of Deliver.  Calls run concurrently *)
(* (event loop, history and group goroutines, drain deadlines), so each    *)
(* has a control state of its own.  Time is kept as ages and naps that     *)
(* saturate where the code stops telling values apart.                     *)
(***************************************************************************)
EXTENDS Integers, Sequences, FiniteSets

CONSTANTS
  Addresses,         \* the sessions' organization addresses
  Batches,           \* one per call of Deliver
  AddressOf,         \* [Batches -> Addresses]
  DELIVERY_BACKOFF,  \* the ladder of waits, in ticks
  DELIVERY_WINDOW,   \* how long an unreachable row is owed, in ticks
  FAULT_WINDOW,      \* how long a faulted row is owed, in ticks
  OneConnection,     \* the store is SQLite, whose pool has one connection; else Postgres
  MaxCallers,        \* bound: how many calls of Deliver run at once
  MaxCrashes,        \* bound: how often the process dies
  NoBatch            \* not a batch: the lane holds no row

ASSUME OutboxAssumption ==
  /\ AddressOf \in [Batches -> Addresses]
  /\ DELIVERY_BACKOFF \in Seq(Nat)
  /\ DELIVERY_BACKOFF # << >>
  /\ DELIVERY_WINDOW \in Nat
  /\ FAULT_WINDOW \in Nat
  /\ OneConnection \in BOOLEAN
  /\ MaxCallers \in Nat
  /\ MaxCrashes \in Nat
  /\ NoBatch \notin Batches

VARIABLES
  up,         \* the process runs
  crashes,    \* bounded by MaxCrashes
  starting,   \* Start's wake of each address, by control state
  call,       \* each Deliver call's control state
  lastId,     \* the identity column's last value
  id,         \* each batch's row id; 0 before it has one
  store,      \* bridge_outbox: the batches whose row is committed
  age,        \* time since queued_at, up to DELIVERY_WINDOW
  lane,       \* each lane's control state; "none" before the first wake
  signal,     \* the lane's one-slot channel holds a wake
  row,        \* the row a lane holds between head and remove
  failed,     \* the lane's count of failed posts, up to one past the last rung
  faultAge,   \* time since faultSince, up to FAULT_WINDOW; NoFault if zero
  nap,        \* what is left of the lane's time.Sleep
  late,       \* batches of posts nobody waits for any more that the receiver may finish
  before,     \* history: the rows accepted before this call of Deliver began
  queued,     \* history: every batch whose row was ever committed
  fate,       \* history: what became of each batch at the receiver
  ownFault    \* history: time since this row was first answered 500

process == <<up, crashes, starting>>
calls   == <<call, lastId, id, before>>
lanes   == <<lane, signal, row, failed, faultAge, nap>>
history == <<queued, fate, ownFault>>
vars    == <<process, calls, store, age, lanes, late, history>>

NoFault == -1

\* The batches of address a, and the last rung of the ladder.
Of(a)  == {b \in Batches : AddressOf[b] = a}
Rung   == Len(DELIVERY_BACKOFF) - 1

Least(m, n) == IF m <= n THEN m ELSE n

\* Mutant of Index: deliveryWait without its min.
Index_Unclamped(n) == n

\* The rung deliveryWait takes for n failed posts, counted from 0.
Index(n)        == Least(n, Rung)
deliveryWait(n) == DELIVERY_BACKOFF[Index(n) + 1]

\* One more failed post.  The code's count has no end; past the ladder it tells none apart.
OneMore(n)      == Least(n + 1, Rung + 1)
Older(n, limit) == Least(n + 1, limit)

-----------------------------------------------------------------------------
(***************************************************************************)
(* What a post comes back with: an HTTP status, or no response at all.     *)
(***************************************************************************)
NoResponse == 0
Answers    == {NoResponse, 200, 400, 404, 408, 429, 500, 501, 502, 503, 504}

deliveryVerdict(answer) ==
  CASE answer = 200 -> "delivered"
    [] answer \in {NoResponse, 408, 429, 502, 503, 504} -> "unreachable"
    [] answer = 500 -> "faulted"
    [] OTHER -> "refused"

\* The receiver takes b: it upserts on external_id, so only the first time tells.
Land(b) ==
  /\ fate' = [fate EXCEPT ![b] = "landed"]
  /\ late' = late \ {b}

\* b's post ends without a response, and the receiver goes on with it.
TimesOut(b, answer) ==
  /\ answer = NoResponse
  /\ fate[b] # "landed"
  /\ late' = late \union {b}

\* The receiver will not have b, unless a post of it had landed or was dropped already.
Close(b, why) == fate' = [fate EXCEPT ![b] = IF @ = "open" THEN why ELSE @]

-----------------------------------------------------------------------------
Init ==
  /\ up = TRUE
  /\ crashes = 0
  /\ starting = [a \in Addresses |-> "idle"]
  /\ call = [b \in Batches |-> "idle"]
  /\ lastId = 0
  /\ id = [b \in Batches |-> 0]
  /\ store = {}
  /\ age = [b \in Batches |-> 0]
  /\ lane = [a \in Addresses |-> "none"]
  /\ signal = [a \in Addresses |-> FALSE]
  /\ row = [a \in Addresses |-> NoBatch]
  /\ failed = [a \in Addresses |-> 0]
  /\ faultAge = [a \in Addresses |-> NoFault]
  /\ nap = [a \in Addresses |-> 0]
  /\ late = {}
  /\ before = [b \in Batches |-> {}]
  /\ queued = {}
  /\ fate = [b \in Batches |-> "open"]
  /\ ownFault = [b \in Batches |-> NoFault]

-----------------------------------------------------------------------------
\* The control states of a call that is not running.
Over == {"idle", "queued", "returned", "cut"}

(***************************************************************************)
(* Deliver.  The insert takes its id from the identity column when it      *)
(* starts and is visible to head when it commits: on Postgres concurrent   *)
(* inserts may commit in either order, on SQLite there is one at a time.   *)
(***************************************************************************)
Begin(b) ==
  /\ up
  /\ \A a \in Addresses : starting[a] = "idle"
  /\ call[b] = "idle"
  /\ Cardinality(Batches \ {c \in Batches : call[c] \in Over}) < MaxCallers
  /\ OneConnection => \A c \in Batches : call[c] # "inserting"
  /\ call' = [call EXCEPT ![b] = "inserting"]
  /\ lastId' = lastId + 1
  /\ id' = [id EXCEPT ![b] = lastId + 1]
  /\ before' = [before EXCEPT ![b] =
                  {c \in Batches : AddressOf[c] = AddressOf[b] /\ call[c] = "queued"}]
  /\ UNCHANGED <<process, store, age, lanes, late, history>>

Insert(b) ==
  /\ call[b] = "inserting"
  /\ call' = [call EXCEPT ![b] = "waking"]
  /\ store' = store \union {b}
  /\ queued' = queued \union {b}
  /\ UNCHANGED <<process, lastId, id, before, age, lanes, late, fate, ownFault>>

\* The store refuses the write: the batch is posted by the caller itself.
InsertFails(b) ==
  /\ call[b] = "inserting"
  /\ call' = [call EXCEPT ![b] = "posting"]
  /\ UNCHANGED <<process, lastId, id, before, store, age, lanes, late, history>>

\* The direct post's answer: no retry, whatever it is.
DirectAnswer(b) ==
  /\ call[b] = "posting"
  /\ call' = [call EXCEPT ![b] = "returned"]
  /\ \E answer \in Answers :
       \/ deliveryVerdict(answer) = "delivered" /\ Land(b)
       \/ deliveryVerdict(answer) # "delivered" /\ UNCHANGED <<late, fate>>
       \/ TimesOut(b, answer) /\ UNCHANGED fate
  /\ UNCHANGED <<process, lastId, id, before, store, age, lanes, queued, ownFault>>

(***************************************************************************)
(* wake, for a caller whose address is a: the lane is found or started     *)
(* under the mutex, the signal is sent after it is released.               *)
(***************************************************************************)
FindLane(a) ==
  /\ lane' = [lane EXCEPT ![a] = IF @ = "none" THEN "looking" ELSE @]
  /\ UNCHANGED <<signal, row, failed, faultAge, nap>>

\* Mutant of SendSignal: a channel without a buffer, whose wake only a lane already blocked
\* in its receive gets ("waiting" begins when its look came back empty).
SendSignal_Unbuffered(a) ==
  /\ \E blocked \in BOOLEAN : signal' = [signal EXCEPT ![a] = blocked /\ lane[a] = "waiting"]
  /\ UNCHANGED <<lane, row, failed, faultAge, nap>>

SendSignal(a) ==
  /\ signal' = [signal EXCEPT ![a] = TRUE]
  /\ UNCHANGED <<lane, row, failed, faultAge, nap>>

Wake(b) ==
  /\ call[b] = "waking"
  /\ call' = [call EXCEPT ![b] = "signalling"]
  /\ FindLane(AddressOf[b])
  /\ UNCHANGED <<process, lastId, id, before, store, age, late, history>>

Signal(b) ==
  /\ call[b] = "signalling"
  /\ call' = [call EXCEPT ![b] = "queued"]
  /\ SendSignal(AddressOf[b])
  /\ UNCHANGED <<process, lastId, id, before, store, age, late, history>>

-----------------------------------------------------------------------------
(***************************************************************************)
(* drain: the lane of address a.                                           *)
(***************************************************************************)
Rows(a) == store \intersect Of(a)
\* Mutants of head: "order by id desc", and no "order by" at all.
head_Newest(a) == {b \in Rows(a) : \A c \in Rows(a) : id[b] >= id[c]}
head_Any(a)    == Rows(a)

head(a) == {b \in Rows(a) : \A c \in Rows(a) : id[b] <= id[c]}

\* time.Sleep(deliveryWait(failed)), after which the lane looks again.
Sleep(a) ==
  /\ lane' = [lane EXCEPT ![a] = "sleeping"]
  /\ nap' = [nap EXCEPT ![a] = deliveryWait(failed[a])]
  /\ row' = [row EXCEPT ![a] = NoBatch]

Look(a) ==
  /\ lane[a] = "looking"
  /\ Rows(a) # {}
  /\ \E b \in head(a) : row' = [row EXCEPT ![a] = b]
  /\ lane' = [lane EXCEPT ![a] = "posting"]
  /\ UNCHANGED <<process, calls, store, age, signal, failed, faultAge, nap, late, history>>

LookEmpty(a) ==
  /\ lane[a] = "looking"
  /\ Rows(a) = {}
  /\ lane' = [lane EXCEPT ![a] = "waiting"]
  /\ UNCHANGED <<process, calls, store, age, signal, row, failed, faultAge, nap, late, history>>

LookFails(a) ==
  /\ lane[a] = "looking"
  /\ Sleep(a)
  /\ failed' = [failed EXCEPT ![a] = OneMore(@)]
  /\ UNCHANGED <<process, calls, store, age, signal, faultAge, late, history>>

Receive(a) ==
  /\ lane[a] = "waiting"
  /\ signal[a]
  /\ signal' = [signal EXCEPT ![a] = FALSE]
  /\ lane' = [lane EXCEPT ![a] = "looking"]
  /\ UNCHANGED <<process, calls, store, age, row, failed, faultAge, nap, late, history>>

SleepOver(a) ==
  /\ lane[a] = "sleeping"
  /\ nap[a] = 0
  /\ lane' = [lane EXCEPT ![a] = "looking"]
  /\ UNCHANGED <<process, calls, store, age, signal, row, failed, faultAge, nap, late, history>>

\* A verdict that settles the row: it is to be removed.
Settle(a) ==
  /\ lane' = [lane EXCEPT ![a] = "removing"]
  /\ UNCHANGED <<row, failed, nap>>

\* A verdict that does not: the row is owed, and posted again after a wait.
Retry(a) ==
  /\ Sleep(a)
  /\ failed' = [failed EXCEPT ![a] = OneMore(@)]

\* Mutant of RetryWhile: settled is left true while the window is open.
RetryWhile_Settles(open, a) ==
  \/ open /\ Settle(a) /\ UNCHANGED fate
  \/ ~open /\ Settle(a) /\ Close(row[a], "dropped")

\* While the row's window is open it is owed, then it is dropped.
RetryWhile(open, a) ==
  \/ open /\ Retry(a) /\ UNCHANGED fate
  \/ ~open /\ Settle(a) /\ Close(row[a], "dropped")

Delivered(a, answer) ==
  /\ deliveryVerdict(answer) = "delivered"
  /\ Settle(a)
  /\ Land(row[a])
  /\ UNCHANGED <<faultAge, ownFault>>

Refused(a, answer) ==
  /\ deliveryVerdict(answer) = "refused"
  /\ Settle(a)
  /\ Close(row[a], "refused")
  /\ UNCHANGED <<faultAge, late, ownFault>>

\* Mutant of Faulted: every 500 sets faultSince, not only the first.
Faulted_RestartsWindow(a, answer) ==
  /\ deliveryVerdict(answer) = "faulted"
  /\ faultAge' = [faultAge EXCEPT ![a] = 0]
  /\ ownFault' = [ownFault EXCEPT ![row[a]] = IF @ = NoFault THEN 0 ELSE @]
  /\ RetryWhile(faultAge'[a] < FAULT_WINDOW, a)
  /\ UNCHANGED late

\* The first 500 sets faultSince; the window is open while less than FAULT_WINDOW passed.
Faulted(a, answer) ==
  /\ deliveryVerdict(answer) = "faulted"
  /\ faultAge' = [faultAge EXCEPT ![a] = IF @ = NoFault THEN 0 ELSE @]
  /\ ownFault' = [ownFault EXCEPT ![row[a]] = IF @ = NoFault THEN 0 ELSE @]
  /\ RetryWhile(faultAge'[a] < FAULT_WINDOW, a)
  /\ UNCHANGED late

\* A post that timed out may still be finished by the receiver, at any later time.
Unreachable(a, answer) ==
  /\ deliveryVerdict(answer) = "unreachable"
  /\ RetryWhile(age[row[a]] < DELIVERY_WINDOW, a)
  /\ UNCHANGED late \/ TimesOut(row[a], answer)
  /\ UNCHANGED <<faultAge, ownFault>>

Answer(a) ==
  /\ lane[a] = "posting"
  /\ \E answer \in Answers :
       \/ Delivered(a, answer)
       \/ Refused(a, answer)
       \/ Faulted(a, answer)
       \/ Unreachable(a, answer)
  /\ UNCHANGED <<process, calls, store, age, signal, queued>>

\* Mutant of Forget: the fault window of a settled row is left to the next one.
Forget_KeepsFault(a) ==
  /\ failed' = [failed EXCEPT ![a] = 0]
  /\ UNCHANGED faultAge

\* Both ends of a settled row reset the ladder and the fault window.
Forget(a) ==
  /\ failed' = [failed EXCEPT ![a] = 0]
  /\ faultAge' = [faultAge EXCEPT ![a] = NoFault]

\* Mutant of Remove: the delete names the address and not the row.
Remove_ByAddress(a) ==
  /\ lane[a] = "removing"
  /\ store' = store \ Of(a)
  /\ row' = [row EXCEPT ![a] = NoBatch]
  /\ lane' = [lane EXCEPT ![a] = "looking"]
  /\ Forget(a)
  /\ UNCHANGED <<process, calls, age, signal, nap, late, history>>

Remove(a) ==
  /\ lane[a] = "removing"
  /\ store' = store \ {row[a]}
  /\ row' = [row EXCEPT ![a] = NoBatch]
  /\ lane' = [lane EXCEPT ![a] = "looking"]
  /\ Forget(a)
  /\ age' = [age EXCEPT ![row[a]] = 0]
  /\ ownFault' = [ownFault EXCEPT ![row[a]] = NoFault]
  /\ UNCHANGED <<process, calls, signal, nap, late, queued, fate>>

RemoveFails(a) ==
  /\ lane[a] = "removing"
  /\ Sleep(a)
  /\ Forget(a)
  /\ UNCHANGED <<process, calls, store, age, signal, late, history>>

-----------------------------------------------------------------------------
(***************************************************************************)
(* The receiver, the clock, the process.                                   *)
(***************************************************************************)
FinishLate(b) ==
  /\ b \in late
  /\ Land(b)
  /\ UNCHANGED <<process, calls, store, age, lanes, queued, ownFault>>

Tick ==
  /\ age' = [b \in Batches |-> IF b \in store THEN Older(age[b], DELIVERY_WINDOW) ELSE 0]
  /\ nap' = [a \in Addresses |-> IF nap[a] = 0 THEN 0 ELSE nap[a] - 1]
  /\ faultAge' = [a \in Addresses |->
                    IF faultAge[a] = NoFault THEN NoFault ELSE Older(faultAge[a], FAULT_WINDOW)]
  /\ ownFault' = [b \in Batches |->
                    IF ownFault[b] = NoFault THEN NoFault ELSE Older(ownFault[b], FAULT_WINDOW)]
  /\ UNCHANGED <<process, calls, store, lane, signal, row, failed, late, queued, fate>>

\* Posts under way when the process dies: the receiver may still finish any of them.
InFlight == {b \in Batches : call[b] = "posting"
                             \/ /\ lane[AddressOf[b]] = "posting"
                                /\ row[AddressOf[b]] = b
                                /\ fate[b] # "landed"}

Crash ==
  /\ up
  /\ crashes < MaxCrashes
  /\ up' = FALSE
  /\ crashes' = crashes + 1
  /\ starting' = [a \in Addresses |-> "idle"]
  /\ call' = [b \in Batches |-> IF call[b] \in Over THEN call[b] ELSE "cut"]
  /\ lane' = [a \in Addresses |-> "none"]
  /\ signal' = [a \in Addresses |-> FALSE]
  /\ row' = [a \in Addresses |-> NoBatch]
  /\ failed' = [a \in Addresses |-> 0]
  /\ faultAge' = [a \in Addresses |-> NoFault]
  /\ nap' = [a \in Addresses |-> 0]
  /\ \E some \in SUBSET InFlight : late' = late \union some
  /\ UNCHANGED <<lastId, id, before, store, age, history>>

\* Start: read the addresses that are owed rows, then wake each, then serve.
Start ==
  /\ ~up
  /\ up' = TRUE
  /\ starting' = [a \in Addresses |-> IF Rows(a) # {} THEN "waking" ELSE "idle"]
  /\ UNCHANGED <<crashes, calls, store, age, lanes, late, history>>

StartWake(a) ==
  /\ starting[a] = "waking"
  /\ starting' = [starting EXCEPT ![a] = "signalling"]
  /\ FindLane(a)
  /\ UNCHANGED <<up, crashes, calls, store, age, late, history>>

StartSignal(a) ==
  /\ starting[a] = "signalling"
  /\ starting' = [starting EXCEPT ![a] = "idle"]
  /\ SendSignal(a)
  /\ UNCHANGED <<up, crashes, calls, store, age, late, history>>

-----------------------------------------------------------------------------
Deliver(b) == \/ Begin(b) \/ Insert(b) \/ InsertFails(b) \/ DirectAnswer(b)
              \/ Wake(b) \/ Signal(b)

drain(a) == \/ Look(a) \/ LookEmpty(a) \/ LookFails(a) \/ Receive(a) \/ SleepOver(a)
            \/ Answer(a) \/ Remove(a) \/ RemoveFails(a)

Next ==
  \/ \E b \in Batches : Deliver(b) \/ FinishLate(b)
  \/ \E a \in Addresses : drain(a) \/ StartWake(a) \/ StartSignal(a)
  \/ Tick
  \/ Crash
  \/ Start

Spec == Init /\ [][Next]_vars

(***************************************************************************)
(* Fairness.  Goroutines run, the clock advances, a post ends (the client  *)
(* has a timeout), and the supervisor restarts a dead process.  The store  *)
(* may fail a read or a delete any number of times but not for ever, hence *)
(* strong fairness of Look and Remove.  Nothing obliges the receiver: it   *)
(* may be unreachable or failing for ever.                                 *)
(***************************************************************************)
Fairness ==
  /\ \A b \in Batches : WF_vars(Wake(b)) /\ WF_vars(Signal(b))
  /\ \A a \in Addresses :
       /\ SF_vars(Look(a)) /\ SF_vars(Remove(a))
       /\ WF_vars(LookEmpty(a)) /\ WF_vars(Receive(a)) /\ WF_vars(SleepOver(a))
       /\ WF_vars(Answer(a))
       /\ WF_vars(StartWake(a)) /\ WF_vars(StartSignal(a))
  /\ WF_vars(Tick)
  /\ WF_vars(Start)

FairSpec == Spec /\ Fairness

-----------------------------------------------------------------------------
(***************************************************************************)
(* Properties.                                                             *)
(***************************************************************************)
CallsTyped ==
  /\ up \in BOOLEAN
  /\ crashes \in 0..MaxCrashes
  /\ starting \in [Addresses -> {"idle", "waking", "signalling"}]
  /\ call \in [Batches -> Over \union {"inserting", "waking", "signalling", "posting"}]
  /\ lastId \in Nat
  /\ id \in [Batches -> 0..lastId]
  /\ before \in [Batches -> SUBSET Batches]

RowsTyped ==
  /\ queued \subseteq Batches
  /\ store \subseteq queued
  /\ age \in [Batches -> 0..DELIVERY_WINDOW]
  /\ late \subseteq Batches
  /\ fate \in [Batches -> {"open", "landed", "refused", "dropped"}]
  /\ ownFault \in [Batches -> {NoFault} \union 0..FAULT_WINDOW]

LanesTyped ==
  /\ lane \in [Addresses -> {"none", "looking", "waiting", "posting", "removing", "sleeping"}]
  /\ signal \in [Addresses -> BOOLEAN]
  /\ row \in [Addresses -> Batches \union {NoBatch}]
  /\ \A a \in Addresses : row[a] # NoBatch <=> lane[a] \in {"posting", "removing"}
  /\ failed \in [Addresses -> 0..(Rung + 1)]
  /\ \A a \in Addresses : Index(failed[a]) \in 0..Rung
  /\ faultAge \in [Addresses -> {NoFault} \union 0..FAULT_WINDOW]
  /\ nap \in [Addresses -> Nat]

\* The shape of the state; however long an outage lasts, the next wait is a rung of the ladder
\* (deliveryWait), and a lane has a row in hand exactly from its head to its remove.
TypeOK == CallsTyped /\ RowsTyped /\ LanesTyped

\* What became of a batch the outbox no longer has to post.
Settled == {b \in Batches : fate[b] # "open"}

\* The batches that meet this fate in this step.
NowMeets(end) == {b \in Batches : fate'[b] = end /\ fate[b] # end}

\* "a post that fails is a message no one will ever send again" (outbox.go:15-21): a batch
\* once durable is owed until the receiver took it, refused it, or its window closed, through
\* any number of failed posts, failed deletes and restarts.
NoLoss == queued \subseteq store \union Settled

\* "a lane never posts a row while an older one is owed" (outbox.go:23): the row a lane holds
\* is still owed, is its own address's, and every row whose Deliver had returned before this
\* one's began is gone from the store, whatever order concurrent inserts committed in.
HoldsTheOldest ==
  \A a \in Addresses : row[a] # NoBatch =>
    /\ row[a] \in Rows(a)
    /\ before[row[a]] \intersect store = {}

\* What order and no-loss rest on: a batch is durable exactly once its insert committed; what
\* came before a call was durable, with a smaller id; a post the lane stopped waiting for had
\* its turn, so it may be finished at any time; and what is being removed has met its fate.
Accounting ==
  /\ \A b \in Batches :
       /\ call[b] \in {"idle", "inserting", "posting", "returned"} => b \notin queued
       /\ call[b] \in {"waking", "signalling", "queued"} => b \in queued
       /\ call[b] \in {"idle", "inserting"} => b \notin late
       /\ \A c \in before[b] : c \in queued /\ AddressOf[c] = AddressOf[b] /\ id[c] < id[b]
  /\ \A b \in late \intersect queued : before[b] \intersect store = {}
  /\ \A a \in Addresses : lane[a] = "removing" => row[a] \in Settled

\* wake's one-slot signal (outbox.go:119-121) is never lost: a lane that waits while its
\* address is owed a row, or that nobody started, has a wake buffered or on its way.
WakeOnItsWay(a) ==
  \/ \E b \in Of(a) : call[b] = "waking"
  \/ starting[a] = "waking"
  \/ lane[a] # "none" /\ ( \/ signal[a] \/ starting[a] = "signalling"
                           \/ \E b \in Of(a) : call[b] = "signalling" )

NoLostWake ==
  \A a \in Addresses :
    up /\ lane[a] \in {"none", "waiting"} /\ Rows(a) # {} => WakeOnItsWay(a)

\* "an edit never lands before its original" (outbox.go:24), for what was queued: when a
\* queued batch reaches the receiver for the first time, even by a post the lane had given
\* up waiting for, every batch accepted before it has landed, been refused or been dropped.
LandsInOrder ==
  [][\A b \in NowMeets("landed") \intersect queued : before[b] \subseteq Settled]_vars

\* A batch is dropped for faulting only when the receiver has been answering 500 to that very
\* batch since FAULT_WINDOW ago (outbox.go:52-54): the fault window of the row before it, or
\* of one that was re-posted after a failed delete, is never charged to it.
ChargedItsOwnFault ==
  [][\A b \in NowMeets("dropped") :
       age[b] = DELIVERY_WINDOW \/ ownFault'[b] = FAULT_WINDOW]_vars

\* No row wedges its lane: whatever the receiver answers, every row leaves the store, so
\* the rows behind it are reached (DELIVERY_WINDOW and FAULT_WINDOW, outbox.go:50-58).
EveryRowSettles == \A b \in Batches : b \in store ~> b \notin store

\* What Deliver promises its callers, the failing store aside: see DeliveryChannel.
Channel == INSTANCE DeliveryChannel WITH
  accepted <- queued, owed <- store, older <- before

\* The outbox, its lanes and its restarts implement DeliveryChannel: a crash, a lost signal
\* or a failed delete is at most a stutter of the queue the callers were promised.
ImplementsChannel == Channel!Spec
=============================================================================
