---------------------------- MODULE OutboxProofs ----------------------------
(***************************************************************************)
(* Proofs about Outbox, for every set of addresses and batches, every      *)
(* ladder and window, and any number of crashes.                           *)
(***************************************************************************)
EXTENDS Outbox, TLAPS

\* Whatever the count, the ladder's index is a rung, and what a rung says is a wait.
LEMMA Ladder == Rung \in Nat /\ \A n \in Nat : Index(n) \in 0..Rung /\ deliveryWait(n) \in Nat
<1>1. DELIVERY_BACKOFF \in Seq(Nat) /\ Len(DELIVERY_BACKOFF) \in Nat \ {0}
  BY OutboxAssumption
<1>2. Rung \in Nat /\ Len(DELIVERY_BACKOFF) = Rung + 1
  BY <1>1 DEF Rung
<1>3. ASSUME NEW n \in Nat PROVE Index(n) \in 0..Rung /\ Index(n) + 1 \in 1..Len(DELIVERY_BACKOFF)
  <2>1. Index(n) \in 0..Rung
    BY <1>2 DEF Index, Least
  <2> QED BY <1>1, <1>2, <2>1
<1>4. ASSUME NEW i \in 1..Len(DELIVERY_BACKOFF) PROVE DELIVERY_BACKOFF[i] \in Nat
  BY <1>1
<1> QED BY <1>2, <1>3, <1>4 DEF deliveryWait

\* The helpers that saturate stay in their ranges, and every count is on the ladder.
LEMMA Ranges ==
  /\ 0 \in 0..(Rung + 1)
  /\ \A n \in 0..(Rung + 1) : OneMore(n) \in 0..(Rung + 1) /\ deliveryWait(n) \in Nat
  /\ \A f \in [Addresses -> 0..(Rung + 1)] : \A a \in Addresses : Index(f[a]) \in 0..Rung
  /\ \A m \in Nat : \A n \in 0..m : Older(n, m) \in 0..m
<1>1. \A n \in 0..(Rung + 1) : n \in Nat
  BY Ladder
<1>2. 0 \in 0..(Rung + 1) /\ \A n \in 0..(Rung + 1) : OneMore(n) \in 0..(Rung + 1)
  BY Ladder DEF OneMore, Least
<1>3. \A m \in Nat : \A n \in 0..m : Older(n, m) \in 0..m
  BY DEF Older, Least
<1> QED BY <1>1, <1>2, <1>3, Ladder

LEMMA TypeInit == Init => TypeOK
<1> SUFFICES ASSUME Init PROVE TypeOK
  OBVIOUS
<1>1. failed \in [Addresses -> 0..(Rung + 1)]
  BY Ranges DEF Init
<1>2. \A a \in Addresses : Index(failed[a]) \in 0..Rung
  BY <1>1, Ranges
<1>3. LanesTyped
  BY <1>1, <1>2 DEF Init, LanesTyped
<1> QED BY <1>3, OutboxAssumption, Ranges
    DEF Init, TypeOK, CallsTyped, RowsTyped, Over, NoFault

\* No step of a Deliver call leaves the types.
LEMMA TypeDeliver ==
  ASSUME TypeOK, NEW b \in Batches, Deliver(b)
  PROVE  TypeOK'
<1> USE OutboxAssumption
    DEF TypeOK, CallsTyped, RowsTyped, LanesTyped, process, calls, lanes, history, Over
<1>1. CASE Begin(b)
  <2>1. lastId' \in Nat /\ lastId \in 0..lastId' /\ lastId' \in 0..lastId'
    BY <1>1 DEF Begin
  <2>2. id' \in [Batches -> 0..lastId']
    BY <1>1, <2>1 DEF Begin
  <2>3. before' \in [Batches -> SUBSET Batches]
    BY <1>1 DEF Begin
  <2> QED BY <1>1, <2>1, <2>2, <2>3 DEF Begin
<1>2. CASE Insert(b)
  BY <1>2 DEF Insert
<1>3. CASE InsertFails(b)
  BY <1>3 DEF InsertFails
<1>4. CASE DirectAnswer(b)
  BY <1>4 DEF DirectAnswer, Land, TimesOut
<1>5. CASE Wake(b)
  BY <1>5 DEF Wake, FindLane
<1>6. CASE Signal(b)
  BY <1>6 DEF Signal, SendSignal
<1> QED BY <1>1, <1>2, <1>3, <1>4, <1>5, <1>6 DEF Deliver

\* A lane that goes to sleep, whatever for, is well formed, and keeps no row.
LEMMA SleepTyped ==
  ASSUME TypeOK, NEW a \in Addresses, Sleep(a), UNCHANGED signal,
         failed' \in [Addresses -> 0..(Rung + 1)],
         faultAge' \in [Addresses -> {NoFault} \union 0..FAULT_WINDOW]
  PROVE  LanesTyped'
<1>1. deliveryWait(failed[a]) \in Nat
  BY Ranges DEF TypeOK, LanesTyped
<1>2. nap' \in [Addresses -> Nat]
  BY <1>1 DEF Sleep, TypeOK, LanesTyped
<1>3. \A x \in Addresses : row'[x] # NoBatch <=> lane'[x] \in {"posting", "removing"}
  BY DEF Sleep, TypeOK, LanesTyped
<1>4. \A x \in Addresses : Index(failed'[x]) \in 0..Rung
  BY Ranges
<1> QED BY <1>2, <1>3, <1>4 DEF Sleep, TypeOK, LanesTyped

\* A failed post or look counts one more, up to the last count told apart.
LEMMA OneMoreTyped ==
  ASSUME TypeOK, NEW a \in Addresses
  PROVE  [failed EXCEPT ![a] = OneMore(@)] \in [Addresses -> 0..(Rung + 1)]
<1>1. OneMore(failed[a]) \in 0..(Rung + 1)
  BY Ranges DEF TypeOK, LanesTyped
<1> QED BY <1>1 DEF TypeOK, LanesTyped

\* Both ends of a posted row's turn leave the lane and the row's fate well formed.
LEMMA RetryWhileTyped ==
  ASSUME TypeOK, NEW a \in Addresses, NEW open \in BOOLEAN,
         lane[a] = "posting", RetryWhile(open, a), UNCHANGED signal,
         faultAge' \in [Addresses -> {NoFault} \union 0..FAULT_WINDOW]
  PROVE  /\ LanesTyped'
         /\ fate' \in [Batches -> {"open", "landed", "refused", "dropped"}]
<1>1. CASE open /\ Retry(a) /\ UNCHANGED fate
  BY <1>1, OneMoreTyped, SleepTyped DEF Retry, TypeOK, RowsTyped
<1>2. CASE ~open /\ Settle(a) /\ Close(row[a], "dropped")
  BY <1>2 DEF Settle, Close, TypeOK, RowsTyped, LanesTyped
<1> QED BY <1>1, <1>2 DEF RetryWhile

\* A post's answer leaves the types as they are.
LEMMA TypeAnswer ==
  ASSUME TypeOK, NEW a \in Addresses, Answer(a)
  PROVE  TypeOK'
<1>1. PICK answer \in Answers : \/ Delivered(a, answer) \/ Refused(a, answer)
                                \/ Faulted(a, answer) \/ Unreachable(a, answer)
  BY DEF Answer
<1>2. /\ lane[a] = "posting" /\ row[a] \in Batches
      /\ UNCHANGED <<process, calls, store, age, signal, queued>>
  BY DEF Answer, TypeOK, LanesTyped
<1>3. CallsTyped'
  BY <1>2 DEF TypeOK, CallsTyped, process, calls
<1>4. CASE Delivered(a, answer)
  <2>1. LanesTyped'
    BY <1>2, <1>4 DEF Delivered, Settle, TypeOK, LanesTyped
  <2>2. RowsTyped'
    BY <1>2, <1>4 DEF Delivered, Land, TypeOK, RowsTyped
  <2> QED BY <1>3, <2>1, <2>2 DEF TypeOK
<1>5. CASE Refused(a, answer)
  <2>1. LanesTyped'
    BY <1>2, <1>5 DEF Refused, Settle, TypeOK, LanesTyped
  <2>2. RowsTyped'
    BY <1>2, <1>5 DEF Refused, Close, TypeOK, RowsTyped
  <2> QED BY <1>3, <2>1, <2>2 DEF TypeOK
<1>6. CASE Faulted(a, answer)
  <2>1. /\ faultAge' \in [Addresses -> {NoFault} \union 0..FAULT_WINDOW]
        /\ ownFault' \in [Batches -> {NoFault} \union 0..FAULT_WINDOW]
    BY <1>2, <1>6, OutboxAssumption DEF Faulted, TypeOK, RowsTyped, LanesTyped
  <2>2. (faultAge'[a] < FAULT_WINDOW) \in BOOLEAN /\ RetryWhile(faultAge'[a] < FAULT_WINDOW, a)
    BY <1>6 DEF Faulted
  <2>3. LanesTyped' /\ fate' \in [Batches -> {"open", "landed", "refused", "dropped"}]
    BY <1>2, <2>1, <2>2, RetryWhileTyped
  <2>4. RowsTyped'
    BY <1>2, <1>6, <2>1, <2>3 DEF Faulted, TypeOK, RowsTyped
  <2> QED BY <1>3, <2>3, <2>4 DEF TypeOK
<1>7. CASE Unreachable(a, answer)
  <2>1. /\ faultAge' \in [Addresses -> {NoFault} \union 0..FAULT_WINDOW]
        /\ RetryWhile(age[row[a]] < DELIVERY_WINDOW, a)
        /\ (age[row[a]] < DELIVERY_WINDOW) \in BOOLEAN
    BY <1>7 DEF Unreachable, TypeOK, LanesTyped
  <2>2. LanesTyped' /\ fate' \in [Batches -> {"open", "landed", "refused", "dropped"}]
    BY <1>2, <2>1, RetryWhileTyped
  <2>3. RowsTyped'
    BY <1>2, <1>7, <2>2 DEF Unreachable, TimesOut, TypeOK, RowsTyped
  <2> QED BY <1>3, <2>2, <2>3 DEF TypeOK
<1> QED BY <1>1, <1>4, <1>5, <1>6, <1>7

\* No step of a lane leaves the types.
LEMMA TypeDrain ==
  ASSUME TypeOK, NEW a \in Addresses, drain(a)
  PROVE  TypeOK'
<1> USE DEF TypeOK, process, calls, lanes, history
<1>1. CASE Look(a)
  <2>1. PICK b \in Batches : row' = [row EXCEPT ![a] = b]
    BY <1>1 DEF Look, head, Rows, Of
  <2>2. LanesTyped'
    BY <1>1, <2>1, OutboxAssumption DEF Look, LanesTyped
  <2> QED BY <1>1, <2>2 DEF Look, CallsTyped, RowsTyped
<1>2. CASE LookEmpty(a)
  BY <1>2 DEF LookEmpty, CallsTyped, RowsTyped, LanesTyped
<1>3. CASE LookFails(a)
  <2>1. LanesTyped'
    BY <1>3, OneMoreTyped, SleepTyped DEF LookFails, LanesTyped
  <2> QED BY <1>3, <2>1 DEF LookFails, CallsTyped, RowsTyped
<1>4. CASE Receive(a)
  BY <1>4 DEF Receive, CallsTyped, RowsTyped, LanesTyped
<1>5. CASE SleepOver(a)
  BY <1>5 DEF SleepOver, CallsTyped, RowsTyped, LanesTyped
<1>6. CASE Answer(a)
  BY <1>6, TypeAnswer
<1>7. CASE Remove(a)
  <2>1. LanesTyped'
    <3>1. /\ failed' \in [Addresses -> 0..(Rung + 1)]
          /\ faultAge' \in [Addresses -> {NoFault} \union 0..FAULT_WINDOW]
      BY <1>7, Ranges DEF Remove, Forget, LanesTyped
    <3>2. \A x \in Addresses : row'[x] # NoBatch <=> lane'[x] \in {"posting", "removing"}
      BY <1>7 DEF Remove, LanesTyped
    <3>3. \A x \in Addresses : Index(failed'[x]) \in 0..Rung
      BY <3>1, Ranges
    <3> QED BY <1>7, <3>1, <3>2, <3>3 DEF Remove, LanesTyped
  <2>2. age' \in [Batches -> 0..DELIVERY_WINDOW]
    <3>1. 0 \in 0..DELIVERY_WINDOW
      BY OutboxAssumption
    <3> QED BY <1>7, <3>1 DEF Remove, RowsTyped
  <2>3. ownFault' \in [Batches -> {NoFault} \union 0..FAULT_WINDOW]
    BY <1>7 DEF Remove, RowsTyped
  <2>4. RowsTyped'
    BY <1>7, <2>2, <2>3 DEF Remove, RowsTyped
  <2> QED BY <1>7, <2>1, <2>4 DEF Remove, CallsTyped
<1>8. CASE RemoveFails(a)
  <2>1. /\ failed' \in [Addresses -> 0..(Rung + 1)]
        /\ faultAge' \in [Addresses -> {NoFault} \union 0..FAULT_WINDOW]
    BY <1>8, Ranges DEF RemoveFails, Forget, LanesTyped
  <2>2. LanesTyped'
    BY <1>8, <2>1, SleepTyped DEF RemoveFails
  <2> QED BY <1>8, <2>2 DEF RemoveFails, CallsTyped, RowsTyped
<1> QED BY <1>1, <1>2, <1>3, <1>4, <1>5, <1>6, <1>7, <1>8 DEF drain

LEMMA TypeStep == TypeOK /\ [Next]_vars => TypeOK'
<1> SUFFICES ASSUME TypeOK, [Next]_vars PROVE TypeOK'
  OBVIOUS
<1> USE DEF TypeOK, process, calls, lanes, history
<1>1. ASSUME NEW b \in Batches, Deliver(b) PROVE TypeOK'
  BY <1>1, TypeDeliver
<1>2. ASSUME NEW b \in Batches, FinishLate(b) PROVE TypeOK'
  BY <1>2 DEF FinishLate, Land, CallsTyped, RowsTyped, LanesTyped
<1>3. ASSUME NEW a \in Addresses, drain(a) PROVE TypeOK'
  BY <1>3, TypeDrain
<1>4. ASSUME NEW a \in Addresses, StartWake(a) \/ StartSignal(a) PROVE TypeOK'
  BY <1>4 DEF StartWake, StartSignal, FindLane, SendSignal, CallsTyped, RowsTyped, LanesTyped
<1>5. CASE Tick
  <2> DEFINE Ages(m) == {NoFault} \union 0..m
  <2>1. \A m \in Nat : \A n \in Ages(m) :
          (IF n = NoFault THEN NoFault ELSE Older(n, m)) \in Ages(m)
    BY Ranges
  <2>2. ownFault' \in [Batches -> Ages(FAULT_WINDOW)]
    BY <1>5, <2>1, OutboxAssumption DEF Tick, RowsTyped
  <2>3. faultAge' \in [Addresses -> Ages(FAULT_WINDOW)]
    BY <1>5, <2>1, OutboxAssumption DEF Tick, LanesTyped
  <2>4. age' \in [Batches -> 0..DELIVERY_WINDOW]
    <3>1. \A b \in Batches : Older(age[b], DELIVERY_WINDOW) \in 0..DELIVERY_WINDOW
      BY Ranges, OutboxAssumption DEF RowsTyped
    <3> QED BY <1>5, <3>1, OutboxAssumption DEF Tick
  <2>5. nap' \in [Addresses -> Nat]
    BY <1>5 DEF Tick, LanesTyped
  <2>6. CallsTyped'
    BY <1>5 DEF Tick, CallsTyped
  <2>7. RowsTyped'
    BY <1>5, <2>2, <2>4 DEF Tick, RowsTyped
  <2>8. LanesTyped'
    BY <1>5, <2>3, <2>5 DEF Tick, LanesTyped
  <2> QED BY <2>6, <2>7, <2>8
<1>6. CASE Crash
  <2>1. CallsTyped'
    <3>1. crashes' \in 0..MaxCrashes
      BY <1>6, OutboxAssumption DEF Crash, CallsTyped
    <3>2. call' \in [Batches -> Over \union {"inserting", "waking", "signalling", "posting"}]
      BY <1>6 DEF Crash, CallsTyped, Over
    <3> QED BY <1>6, <3>1, <3>2 DEF Crash, CallsTyped
  <2>2. RowsTyped'
    <3>1. late' \subseteq Batches
      BY <1>6 DEF Crash, RowsTyped, InFlight
    <3> QED BY <1>6, <3>1 DEF Crash, RowsTyped
  <2>3. LanesTyped'
    <3>1. failed' \in [Addresses -> 0..(Rung + 1)]
      BY <1>6, Ranges DEF Crash
    <3>2. \A x \in Addresses : Index(failed'[x]) \in 0..Rung
      BY <3>1, Ranges
    <3> QED BY <1>6, <3>1, <3>2 DEF Crash, LanesTyped
  <2> QED BY <2>1, <2>2, <2>3
<1>7. CASE Start
  BY <1>7 DEF Start, CallsTyped, RowsTyped, LanesTyped
<1>8. CASE UNCHANGED vars
  BY <1>8 DEF vars, CallsTyped, RowsTyped, LanesTyped
<1> QED BY <1>1, <1>2, <1>3, <1>4, <1>5, <1>6, <1>7, <1>8 DEF Next

\* Every state of the outbox is well formed, and the ladder's index stays on the ladder.
THEOREM TypeCorrect == Spec => []TypeOK
BY TypeInit, TypeStep, PTL DEF Spec

-----------------------------------------------------------------------------
(***************************************************************************)
(* Order and no loss.  The invariant is TypeOK, Accounting, HoldsTheOldest *)
(* and NoLoss together: a row's turn comes when the ids before it are gone *)
(* (HoldsTheOldest), an older row has a smaller id whatever order inserts  *)
(* commit in (Accounting), and only a settled row is removed.              *)
(***************************************************************************)
Ordered == TypeOK /\ Accounting /\ HoldsTheOldest /\ NoLoss

LEMMA OrderedInit == Init => Ordered
<1> SUFFICES ASSUME Init PROVE Accounting /\ HoldsTheOldest /\ NoLoss
  BY TypeInit DEF Ordered
<1> QED BY DEF Init, Accounting, HoldsTheOldest, NoLoss

\* A step that adds no row, begins no call, posts nothing and takes no row in hand.
Quiet ==
  /\ UNCHANGED <<id, before, queued, fate, store, late>>
  /\ \A b \in Batches :
       \/ call'[b] = call[b]
       \/ /\ call[b] \in {"waking", "signalling"}
          /\ call'[b] \in {"signalling", "queued"}
       \/ call[b] = "inserting" /\ call'[b] = "posting"
  /\ \A a \in Addresses : /\ row'[a] \in {row[a], NoBatch}
                          /\ lane'[a] = "removing" => lane[a] = "removing"

LEMMA OrderedQuiet == Ordered /\ TypeOK' /\ Quiet => Accounting' /\ HoldsTheOldest' /\ NoLoss'
<1> SUFFICES ASSUME Ordered, TypeOK', Quiet PROVE Accounting' /\ HoldsTheOldest' /\ NoLoss'
  OBVIOUS
<1> USE DEF Ordered, Quiet
<1>1. Settled' = Settled
  BY DEF Settled
<1>2. \A a \in Addresses : lane'[a] = "removing" => row'[a] = row[a]
  BY DEF TypeOK, LanesTyped
<1>3. Accounting'
  BY <1>1, <1>2 DEF Accounting, TypeOK, RowsTyped
<1>4. HoldsTheOldest'
  BY DEF HoldsTheOldest, Rows, Of
<1>5. NoLoss'
  BY <1>1 DEF NoLoss
<1> QED BY <1>3, <1>4, <1>5

\* The three parts that a step of a call has to keep.
LEMMA OrderedDeliver ==
  ASSUME Ordered, TypeOK', NEW b \in Batches, Deliver(b)
  PROVE  Accounting' /\ HoldsTheOldest' /\ NoLoss'
<1> USE DEF process, calls, lanes, history
<1>1. CASE Begin(b)
  <2>1. /\ b \notin queued /\ b \notin late /\ id' = [id EXCEPT ![b] = lastId + 1]
        /\ UNCHANGED <<store, lane, row, late, queued, fate>>
    BY <1>1 DEF Begin, Ordered, Accounting
  <2>2. \A c \in before'[b] : c \in queued /\ c # b /\ AddressOf[c] = AddressOf[b]
    BY <1>1, <2>1 DEF Begin, Ordered, Accounting, TypeOK, CallsTyped
  <2>3. \A c \in Batches : c # b => before'[c] = before[c] /\ id'[c] = id[c] /\ call'[c] = call[c]
    BY <1>1 DEF Begin, Ordered, TypeOK, CallsTyped
  <2>4. call'[b] = "inserting" /\ id'[b] = lastId + 1 /\ \A c \in Batches : c # b => id'[c] < id'[b]
    BY <1>1 DEF Begin, Ordered, TypeOK, CallsTyped
  <2>5. Accounting'
    <3>1. \A c \in before'[b] : c \in queued' /\ AddressOf[c] = AddressOf[b] /\ id'[c] < id'[b]
      BY <2>1, <2>2, <2>4 DEF TypeOK, CallsTyped
    <3>2. \A d \in Batches : d # b => \A c \in before'[d] :
             c \in queued' /\ AddressOf[c] = AddressOf[d] /\ id'[c] < id'[d]
      BY <2>1, <2>3 DEF Ordered, Accounting, TypeOK, CallsTyped
    <3>3. \A d \in Batches :
            /\ call'[d] \in {"idle", "inserting", "posting", "returned"} => d \notin queued'
            /\ call'[d] \in {"waking", "signalling", "queued"} => d \in queued'
            /\ call'[d] \in {"idle", "inserting"} => d \notin late'
      BY <2>1, <2>3, <2>4 DEF Ordered, Accounting
    <3>4. \A d \in late' \intersect queued' : before'[d] \intersect store' = {}
      BY <2>1, <2>3 DEF Ordered, Accounting, TypeOK, RowsTyped
    <3>5. \A a \in Addresses : lane'[a] = "removing" => row'[a] \in Settled'
      BY <2>1 DEF Ordered, Accounting, Settled
    <3> QED BY <3>1, <3>2, <3>3, <3>4, <3>5 DEF Accounting
  <2>6. HoldsTheOldest'
    BY <2>1, <2>3 DEF Ordered, HoldsTheOldest, Rows, Of, TypeOK, RowsTyped
  <2>7. NoLoss'
    BY <2>1 DEF Ordered, NoLoss, Settled
  <2> QED BY <2>5, <2>6, <2>7
<1>2. CASE Insert(b)
  <2>1. /\ b \notin queued /\ b \notin late
        /\ store' = store \union {b} /\ queued' = queued \union {b}
        /\ UNCHANGED <<lane, row, late, fate, id, before>>
    BY <1>2 DEF Insert, Ordered, Accounting
  <2>2. \A c \in Batches : c # b => call'[c] = call[c]
    BY <1>2 DEF Insert, Ordered, TypeOK, CallsTyped
  <2>3. call'[b] = "waking"
    BY <1>2 DEF Insert, Ordered, TypeOK, CallsTyped
  <2>4. \A c \in Batches : b \notin before[c]
    BY <2>1 DEF Ordered, Accounting
  <2>5. Accounting'
    <3>1. \A c \in Batches :
            /\ call'[c] \in {"idle", "inserting", "posting", "returned"} => c \notin queued'
            /\ call'[c] \in {"waking", "signalling", "queued"} => c \in queued'
            /\ call'[c] \in {"idle", "inserting"} => c \notin late'
      BY <2>1, <2>2, <2>3 DEF Ordered, Accounting
    <3>2. \A c \in Batches : \A d \in before'[c] :
            d \in queued' /\ AddressOf[d] = AddressOf[c] /\ id'[d] < id'[c]
      BY <2>1 DEF Ordered, Accounting
    <3>3. \A c \in late' \intersect queued' : before'[c] \intersect store' = {}
      BY <2>1, <2>4 DEF Ordered, Accounting, TypeOK, RowsTyped
    <3>4. \A a \in Addresses : lane'[a] = "removing" => row'[a] \in Settled'
      BY <2>1 DEF Ordered, Accounting, Settled
    <3> QED BY <3>1, <3>2, <3>3, <3>4 DEF Accounting
  <2>6. HoldsTheOldest'
    BY <2>1, <2>4 DEF Ordered, HoldsTheOldest, Rows, Of, TypeOK, LanesTyped
  <2>7. NoLoss'
    BY <2>1 DEF Ordered, NoLoss, Settled
  <2> QED BY <2>5, <2>6, <2>7
<1>3. CASE DirectAnswer(b)
  <2>1. /\ b \notin queued /\ late' \subseteq late \union {b}
        /\ UNCHANGED <<lane, row, queued, store, id, before>>
        /\ \A c \in Batches : fate'[c] # fate[c] => c = b /\ fate'[c] = "landed"
    BY <1>3 DEF DirectAnswer, Land, TimesOut, Ordered, Accounting, TypeOK, RowsTyped
  <2>2. /\ call'[b] = "returned"
        /\ \A c \in Batches : c # b => call'[c] = call[c]
    BY <1>3 DEF DirectAnswer, Ordered, TypeOK, CallsTyped
  <2>3. Settled \subseteq Settled'
    BY <2>1 DEF Settled
  <2>4. Accounting'
    <3>1. \A a \in Addresses : lane'[a] = "removing" => row'[a] \in Settled'
      BY <2>1, <2>3 DEF Ordered, Accounting
    <3> QED BY <2>1, <2>2, <3>1 DEF Ordered, Accounting
  <2>5. HoldsTheOldest'
    BY <2>1 DEF Ordered, HoldsTheOldest, Rows, Of
  <2>6. NoLoss'
    BY <2>1, <2>3 DEF Ordered, NoLoss
  <2> QED BY <2>4, <2>5, <2>6
<1>4. CASE InsertFails(b)
  <2>1. \A c \in Batches : call'[c] = call[c] \/ (call[c] = "inserting" /\ call'[c] = "posting")
    BY <1>4 DEF InsertFails, Ordered, TypeOK, CallsTyped
  <2>2. Quiet
    BY <1>4, <2>1 DEF InsertFails, Quiet
  <2> QED BY <2>2, OrderedQuiet
<1>5. CASE Wake(b)
  <2>1. /\ \A c \in Batches : call'[c] = call[c] \/ (call[c] = "waking" /\ call'[c] = "signalling")
        /\ \A a \in Addresses : lane'[a] = "removing" => lane[a] = "removing"
    BY <1>5 DEF Wake, FindLane, Ordered, TypeOK, CallsTyped, LanesTyped
  <2>2. Quiet
    BY <1>5, <2>1 DEF Wake, FindLane, Quiet
  <2> QED BY <2>2, OrderedQuiet
<1>6. CASE Signal(b)
  <2>1. \A c \in Batches : call'[c] = call[c] \/ (call[c] = "signalling" /\ call'[c] = "queued")
    BY <1>6 DEF Signal, Ordered, TypeOK, CallsTyped
  <2>2. Quiet
    BY <1>6, <2>1 DEF Signal, SendSignal, Quiet
  <2> QED BY <2>2, OrderedQuiet
<1> QED BY <1>1, <1>2, <1>3, <1>4, <1>5, <1>6 DEF Deliver

\* What an answer does to the row in hand: settled and to be removed, or put down.
LEMMA AnswerEffect ==
  ASSUME TypeOK, NEW a \in Addresses, Answer(a)
  PROVE  /\ row[a] \in Batches
         /\ UNCHANGED <<id, before, queued, store, call>>
         /\ late' \subseteq late \union {row[a]}
         /\ \A b \in Batches : fate[b] # "open" => fate'[b] # "open"
         /\ \A b \in Batches : fate'[b] # fate[b] => b = row[a]
         /\ \A x \in Addresses \ {a} : row'[x] = row[x] /\ lane'[x] = lane[x]
         /\ row'[a] \in {row[a], NoBatch}
         /\ lane'[a] = "removing" => row'[a] = row[a] /\ fate'[row[a]] # "open"
<1>1. PICK answer \in Answers : \/ Delivered(a, answer) \/ Refused(a, answer)
                                \/ Faulted(a, answer) \/ Unreachable(a, answer)
  BY DEF Answer
<1>2. /\ row[a] \in Batches
      /\ UNCHANGED <<process, calls, store, age, signal, queued>>
  BY DEF Answer, TypeOK, LanesTyped
<1> USE DEF TypeOK, RowsTyped, LanesTyped, calls, Settle, Close, Land, TimesOut
<1>3. CASE Delivered(a, answer)
  BY <1>2, <1>3 DEF Delivered
<1>4. CASE Refused(a, answer)
  BY <1>2, <1>4 DEF Refused
<1>5. CASE Faulted(a, answer)
  BY <1>2, <1>5 DEF Faulted, RetryWhile, Retry, Sleep
<1>6. CASE Unreachable(a, answer)
  BY <1>2, <1>6 DEF Unreachable, RetryWhile, Retry, Sleep
<1> QED BY <1>1, <1>3, <1>4, <1>5, <1>6

LEMMA OrderedDrain ==
  ASSUME Ordered, TypeOK', NEW a \in Addresses, drain(a)
  PROVE  Accounting' /\ HoldsTheOldest' /\ NoLoss'
<1> USE DEF process, calls, lanes, history
<1>1. CASE Look(a)
  <2>1. PICK b \in head(a) : row' = [row EXCEPT ![a] = b]
    BY <1>1 DEF Look
  <2>2. /\ b \in Batches /\ b \in Rows(a)
        /\ before[b] \intersect store = {}
    <3>1. b \in Batches /\ b \in Rows(a) /\ AddressOf[b] = a
      BY <2>1 DEF head, Rows, Of
    <3>2. ASSUME NEW c \in before[b], c \in store PROVE FALSE
      <4>1. c \in Rows(a) /\ id[c] < id[b] /\ c \in Batches
        BY <3>1, <3>2 DEF Ordered, Accounting, Rows, Of, TypeOK, CallsTyped
      <4>2. id[b] <= id[c]
        BY <2>1, <4>1 DEF head
      <4> QED BY <3>1, <4>1, <4>2 DEF Ordered, TypeOK, CallsTyped
    <3> QED BY <3>1, <3>2
  <2>3. /\ UNCHANGED <<id, before, queued, store, call, late, fate>>
        /\ \A x \in Addresses : lane'[x] = "removing" => lane[x] = "removing" /\ row'[x] = row[x]
        /\ \A x \in Addresses \ {a} : row'[x] = row[x]
        /\ row'[a] = b
    BY <1>1, <2>1 DEF Look, Ordered, TypeOK, LanesTyped
  <2>4. Accounting'
    BY <2>3 DEF Ordered, Accounting, Settled
  <2>5. HoldsTheOldest'
    BY <2>2, <2>3 DEF Ordered, HoldsTheOldest, Rows, Of
  <2>6. NoLoss'
    BY <2>3 DEF Ordered, NoLoss, Settled
  <2> QED BY <2>4, <2>5, <2>6
<1>2. CASE LookEmpty(a) \/ LookFails(a) \/ Receive(a) \/ SleepOver(a) \/ RemoveFails(a)
  <2>1. /\ UNCHANGED <<id, before, queued, store, call, late, fate>>
        /\ \A x \in Addresses : row'[x] \in {row[x], NoBatch}
                                /\ (lane'[x] = "removing" => lane[x] = "removing")
    BY <1>2 DEF LookEmpty, LookFails, Receive, SleepOver, RemoveFails, Sleep, Ordered, TypeOK, LanesTyped
  <2>2. Quiet
    BY <2>1 DEF Quiet
  <2> QED BY <2>2, OrderedQuiet
<1>3. CASE Answer(a)
  <2>1. /\ row[a] \in Rows(a) /\ before[row[a]] \intersect store = {}
    BY <1>3, AnswerEffect, OutboxAssumption DEF Ordered, HoldsTheOldest
  <2>2. Settled \subseteq Settled'
    BY <1>3, AnswerEffect DEF Ordered, Settled
  <2>3. Accounting'
    <3>1. \A x \in Addresses : lane'[x] = "removing" => row'[x] \in Settled'
      <4>1. CASE lane'[a] = "removing"
        BY <1>3, <2>2, <4>1, AnswerEffect DEF Ordered, Accounting, Settled
      <4>2. CASE lane'[a] # "removing"
        BY <1>3, <2>2, <4>2, AnswerEffect DEF Ordered, Accounting
      <4> QED BY <4>1, <4>2
    <3>2. \A b \in late' \intersect queued' : before'[b] \intersect store' = {}
      BY <1>3, <2>1, AnswerEffect DEF Ordered, Accounting
    <3>3. row[a] \in queued
      BY <2>1 DEF Rows, Ordered, TypeOK, RowsTyped
    <3> QED BY <1>3, <3>1, <3>2, <3>3, AnswerEffect DEF Ordered, Accounting
  <2>4. HoldsTheOldest'
    BY <1>3, AnswerEffect DEF Ordered, HoldsTheOldest, Rows, Of
  <2>5. NoLoss'
    BY <1>3, <2>2, AnswerEffect DEF Ordered, NoLoss
  <2> QED BY <2>3, <2>4, <2>5
<1>4. CASE Remove(a)
  <2>1. /\ row[a] \in Batches /\ AddressOf[row[a]] = a /\ row[a] \in Settled
        /\ store' = store \ {row[a]}
        /\ UNCHANGED <<id, before, queued, call, late, fate>>
        /\ \A x \in Addresses \ {a} : row'[x] = row[x] /\ lane'[x] = lane[x]
        /\ row'[a] = NoBatch /\ lane'[a] = "looking"
    BY <1>4 DEF Remove, Ordered, Accounting, HoldsTheOldest, Rows, Of, TypeOK, LanesTyped
  <2>2. Accounting'
    BY <2>1 DEF Ordered, Accounting, Settled
  <2>3. HoldsTheOldest'
    BY <2>1 DEF Ordered, HoldsTheOldest, Rows, Of
  <2>4. NoLoss'
    BY <2>1 DEF Ordered, NoLoss, Settled
  <2> QED BY <2>2, <2>3, <2>4
<1> QED BY <1>1, <1>2, <1>3, <1>4 DEF drain

LEMMA OrderedStep == Ordered /\ [Next]_vars => Ordered'
<1> SUFFICES ASSUME Ordered, [Next]_vars PROVE Accounting' /\ HoldsTheOldest' /\ NoLoss'
  BY TypeStep DEF Ordered
<1>1. TypeOK'
  BY TypeStep DEF Ordered
<1> USE DEF process, calls, lanes, history
<1>2. ASSUME NEW b \in Batches, Deliver(b) PROVE Accounting' /\ HoldsTheOldest' /\ NoLoss'
  BY <1>1, <1>2, OrderedDeliver
<1>3. ASSUME NEW b \in Batches, FinishLate(b) PROVE Accounting' /\ HoldsTheOldest' /\ NoLoss'
  <2>1. /\ UNCHANGED <<id, before, queued, store, call, row, lane>>
        /\ late' \subseteq late
        /\ Settled \subseteq Settled'
    BY <1>3 DEF FinishLate, Land, Settled, Ordered, TypeOK, RowsTyped
  <2> QED BY <2>1 DEF Ordered, Accounting, HoldsTheOldest, NoLoss, Rows, Of
<1>4. ASSUME NEW a \in Addresses, drain(a) PROVE Accounting' /\ HoldsTheOldest' /\ NoLoss'
  BY <1>1, <1>4, OrderedDrain
<1>5. ASSUME NEW a \in Addresses, StartWake(a) \/ StartSignal(a)
      PROVE  Accounting' /\ HoldsTheOldest' /\ NoLoss'
  <2>1. /\ UNCHANGED <<id, before, queued, store, call, late, fate, row>>
        /\ \A x \in Addresses : lane'[x] = "removing" => lane[x] = "removing"
    BY <1>5 DEF StartWake, StartSignal, FindLane, SendSignal, Ordered, TypeOK, LanesTyped
  <2>2. Quiet
    BY <2>1 DEF Quiet
  <2> QED BY <1>1, <2>2, OrderedQuiet
<1>6. CASE Crash
  <2>1. PICK some \in SUBSET InFlight : late' = late \union some
    BY <1>6 DEF Crash
  <2>2. /\ UNCHANGED <<id, before, queued, store, fate>>
        /\ \A a \in Addresses : row'[a] = NoBatch /\ lane'[a] = "none"
        /\ \A b \in Batches : IF call[b] \in Over THEN call'[b] = call[b] ELSE call'[b] = "cut"
    BY <1>6 DEF Crash
  <2>3. \A b \in some \intersect queued : before[b] \intersect store = {}
    BY <2>1, OutboxAssumption DEF InFlight, Ordered, Accounting, HoldsTheOldest
  <2>4. \A b \in some : call[b] \notin {"idle", "inserting"}
    BY <2>1, OutboxAssumption DEF InFlight, Ordered, Accounting, HoldsTheOldest, Rows, TypeOK, RowsTyped
  <2>5. Accounting'
    <3>1. \A b \in late' \intersect queued' : before'[b] \intersect store' = {}
      BY <2>1, <2>2, <2>3 DEF Ordered, Accounting
    <3> QED BY <2>1, <2>2, <2>4, <3>1 DEF Ordered, Accounting, Over
  <2>6. HoldsTheOldest' /\ NoLoss'
    BY <2>2 DEF Ordered, HoldsTheOldest, NoLoss, Settled
  <2> QED BY <2>5, <2>6
<1>7. CASE Tick \/ Start \/ UNCHANGED vars
  <2>1. UNCHANGED <<id, before, queued, store, call, late, fate, row, lane>>
    BY <1>7 DEF Tick, Start, vars
  <2>2. Quiet
    BY <2>1 DEF Quiet
  <2> QED BY <1>1, <2>2, OrderedQuiet
<1> QED BY <1>2, <1>3, <1>4, <1>5, <1>6, <1>7 DEF Next

LEMMA OrderedAlways == Spec => []Ordered
BY OrderedInit, OrderedStep, PTL DEF Spec

\* Ids grow with the calls, also across crashes: what was accepted before a call has a smaller id
\* and is committed, and the ids, marks and fates of the batches agree with the table.
THEOREM IdsGrowWithTheCalls == Spec => []Accounting
BY OrderedAlways, PTL DEF Ordered

\* A lane never holds a row while a row accepted before it is owed, however many calls insert
\* at once and in whatever order they commit.
THEOREM LaneHoldsTheOldest == Spec => []HoldsTheOldest
BY OrderedAlways, PTL DEF Ordered

\* A durable batch is owed until it landed, was refused or its window closed, through any
\* number of crashes, failed posts and failed deletes.
THEOREM NothingIsLost == Spec => []NoLoss
BY OrderedAlways, PTL DEF Ordered

\* A queued batch first reaches the receiver when every batch accepted before it has landed,
\* been refused or been dropped: no edit lands before its original.
THEOREM QueuedLandInOrder == Spec => LandsInOrder
<1>1. Ordered /\ [Next]_vars
        => [\A b \in NowMeets("landed") \intersect queued : before[b] \subseteq Settled]_vars
  <2> SUFFICES ASSUME Ordered, Next, NEW b \in Batches, b \in queued,
                      fate'[b] = "landed", fate[b] # "landed"
               PROVE  before[b] \subseteq Settled
    BY DEF NowMeets
  <2> SUFFICES before[b] \intersect store = {}
    BY DEF Ordered, Accounting, NoLoss
  <2>1. \/ \E c \in Batches : Deliver(c) \/ FinishLate(c)
        \/ \E a \in Addresses : Answer(a)
    <3>1. ASSUME NEW a \in Addresses, drain(a), ~Answer(a) PROVE fate' = fate
      BY <3>1 DEF drain, Look, LookEmpty, LookFails, Receive, SleepOver, Remove, RemoveFails, history
    <3> QED BY <3>1 DEF Next, StartWake, StartSignal, Tick, Crash, Start, history
  <2>2. ASSUME NEW c \in Batches, Deliver(c) PROVE FALSE
    <3>1. fate' = fate \/ (DirectAnswer(c) /\ fate' = [fate EXCEPT ![c] = "landed"])
      BY <2>2 DEF Deliver, Begin, Insert, InsertFails, DirectAnswer, Land, Wake, Signal, history
    <3>2. c \notin queued
      BY <3>1 DEF DirectAnswer, Ordered, Accounting
    <3> QED BY <3>1, <3>2 DEF Ordered, TypeOK, RowsTyped
  <2>3. ASSUME NEW c \in Batches, FinishLate(c) PROVE before[b] \intersect store = {}
    BY <2>3 DEF FinishLate, Land, Ordered, Accounting, TypeOK, RowsTyped
  <2>4. ASSUME NEW a \in Addresses, Answer(a) PROVE before[b] \intersect store = {}
    BY <2>4, AnswerEffect, OutboxAssumption DEF Ordered, HoldsTheOldest
  <2> QED BY <2>1, <2>2, <2>3, <2>4
<1> QED BY <1>1, OrderedAlways, PTL DEF Spec, LandsInOrder

-----------------------------------------------------------------------------
(***************************************************************************)
(* Wakes.  NoLostWake is inductive by itself on top of the types.          *)
(***************************************************************************)
\* A wake stays on its way in a step that does not touch what it stands on.
LEMMA WakeStays ==
  ASSUME NEW x \in Addresses, WakeOnItsWay(x), starting'[x] = starting[x],
         lane[x] # "none" => lane'[x] # "none",
         signal[x] => signal'[x],
         \A c \in Batches : call[c] \in {"waking", "signalling"} /\ AddressOf[c] = x
                             => call'[c] = call[c]
  PROVE  WakeOnItsWay(x)'
<1>1. CASE \E c \in Of(x) : call[c] = "waking"
  BY <1>1 DEF WakeOnItsWay, Of
<1>2. CASE starting[x] = "waking"
  BY <1>2 DEF WakeOnItsWay
<1>3. CASE lane[x] # "none" /\ \E c \in Of(x) : call[c] = "signalling"
  BY <1>3 DEF WakeOnItsWay, Of
<1>4. CASE lane[x] # "none" /\ (signal[x] \/ starting[x] = "signalling")
  BY <1>4 DEF WakeOnItsWay
<1> QED BY <1>1, <1>2, <1>3, <1>4 DEF WakeOnItsWay

\* A step of a call that is not the lane's own: rows it adds come with a wake of its own.
LEMMA WakeDeliver ==
  ASSUME TypeOK, NoLostWake, NEW b \in Batches, Deliver(b), NEW x \in Addresses,
         up, lane'[x] \in {"none", "waiting"}, Rows(x)' # {}
  PROVE  WakeOnItsWay(x)'
<1> USE OutboxAssumption DEF process, calls, lanes, history, TypeOK, CallsTyped, LanesTyped
<1>1. CASE Begin(b) \/ InsertFails(b) \/ DirectAnswer(b)
  <2>1. /\ UNCHANGED <<store, lane, signal, starting>>
        /\ \A c \in Batches : call[c] \in {"waking", "signalling"} => call'[c] = call[c]
    BY <1>1 DEF Begin, InsertFails, DirectAnswer
  <2>2. WakeOnItsWay(x)
    BY <2>1 DEF NoLostWake, Rows
  <2> QED BY <2>1, <2>2, WakeStays
<1>2. CASE Insert(b)
  <2>1. /\ UNCHANGED <<lane, signal, starting>> /\ store' = store \union {b}
        /\ \A c \in Batches : call[c] \in {"waking", "signalling"} => call'[c] = call[c]
        /\ call'[b] = "waking"
    BY <1>2 DEF Insert
  <2>2. CASE AddressOf[b] = x
    BY <2>1, <2>2 DEF WakeOnItsWay, Of
  <2>3. CASE AddressOf[b] # x
    <3>1. Rows(x)' = Rows(x)
      BY <2>1, <2>3 DEF Rows, Of
    <3>2. WakeOnItsWay(x)
      BY <2>1, <2>3, <3>1 DEF NoLostWake
    <3> QED BY <2>1, <2>3, <3>2, WakeStays
  <2> QED BY <2>2, <2>3
<1>3. CASE Wake(b)
  <2>1. /\ UNCHANGED <<store, signal, starting>>
        /\ \A c \in Batches : c # b => call'[c] = call[c]
        /\ call'[b] = "signalling"
        /\ lane'[AddressOf[b]] # "none"
        /\ \A a \in Addresses : lane[a] # "none" => lane'[a] = lane[a]
        /\ \A a \in Addresses : a # AddressOf[b] => lane'[a] = lane[a]
    BY <1>3 DEF Wake, FindLane
  <2>2. CASE AddressOf[b] = x
    BY <2>1, <2>2 DEF WakeOnItsWay, Of
  <2>3. CASE AddressOf[b] # x
    <3>1. Rows(x)' = Rows(x)
      BY <2>1, <2>3 DEF Rows, Of
    <3>2. WakeOnItsWay(x)
      BY <2>1, <2>3, <3>1 DEF NoLostWake
    <3> QED BY <2>1, <2>3, <3>2, WakeStays
  <2> QED BY <2>2, <2>3
<1>4. CASE Signal(b)
  <2>1. /\ UNCHANGED <<store, lane, starting>>
        /\ \A c \in Batches : c # b => call'[c] = call[c]
        /\ call[b] = "signalling"
        /\ \A a \in Addresses : signal[a] \/ a = AddressOf[b] => signal'[a]
    BY <1>4 DEF Signal, SendSignal
  <2>2. WakeOnItsWay(x)
    BY <2>1 DEF NoLostWake, Rows, Of
  <2> QED BY <2>1, <2>2 DEF WakeOnItsWay, Of
<1> QED BY <1>1, <1>2, <1>3, <1>4 DEF Deliver

\* A lane waits only after it saw no row, and takes the wake when it stops waiting.
LEMMA WakeDrain ==
  ASSUME TypeOK, NoLostWake, NEW a \in Addresses, drain(a), NEW x \in Addresses,
         up, lane'[x] \in {"none", "waiting"}, Rows(x)' # {}
  PROVE  WakeOnItsWay(x)'
<1> USE DEF process, calls, lanes, history, TypeOK, LanesTyped
<1>1. /\ UNCHANGED <<call, starting, up>> /\ store' \subseteq store
      /\ \A y \in Addresses \ {a} : lane'[y] = lane[y] /\ signal'[y] = signal[y]
  BY DEF drain, Look, LookEmpty, LookFails, Receive, SleepOver, Answer, Delivered, Refused,
         Faulted, Unreachable, RetryWhile, Retry, Settle, Sleep, Remove, RemoveFails
<1>2. CASE x # a
  BY <1>1, <1>2 DEF NoLostWake, WakeOnItsWay, Rows, Of
<1>3. CASE x = a
  <2>1. LookEmpty(a)
    BY <1>3 DEF drain, Look, LookFails, Receive, SleepOver, Answer, Delivered, Refused,
         Faulted, Unreachable, RetryWhile, Retry, Settle, Sleep, Remove, RemoveFails
  <2> QED BY <1>1, <1>3, <2>1 DEF LookEmpty, Rows
<1> QED BY <1>2, <1>3

LEMMA WakeStep == TypeOK /\ NoLostWake /\ [Next]_vars => NoLostWake'
<1> SUFFICES ASSUME TypeOK, NoLostWake, [Next]_vars, NEW x \in Addresses,
                    up', lane'[x] \in {"none", "waiting"}, Rows(x)' # {}
             PROVE  WakeOnItsWay(x)'
  BY DEF NoLostWake
<1> USE DEF process, calls, lanes, history, TypeOK, CallsTyped, LanesTyped
<1>1. ASSUME NEW b \in Batches, Deliver(b) PROVE WakeOnItsWay(x)'
  <2>1. up
    BY <1>1 DEF Deliver, Begin, Insert, InsertFails, DirectAnswer, Wake, Signal
  <2> QED BY <1>1, <2>1, WakeDeliver
<1>2. ASSUME NEW a \in Addresses, drain(a) PROVE WakeOnItsWay(x)'
  <2>1. up
    BY <1>2 DEF drain, Look, LookEmpty, LookFails, Receive, SleepOver, Answer, Remove, RemoveFails
  <2> QED BY <1>2, <2>1, WakeDrain
<1>3. ASSUME NEW b \in Batches, FinishLate(b) PROVE WakeOnItsWay(x)'
  BY <1>3 DEF FinishLate, NoLostWake, WakeOnItsWay, Rows, Of
<1>4. ASSUME NEW a \in Addresses, StartWake(a) PROVE WakeOnItsWay(x)'
  <2>1. /\ UNCHANGED <<store, signal, call, up>>
        /\ starting'[a] = "signalling" /\ lane'[a] # "none"
        /\ lane[a] # "none" => lane'[a] = lane[a]
        /\ \A y \in Addresses \ {a} : starting'[y] = starting[y] /\ lane'[y] = lane[y]
    BY <1>4 DEF StartWake, FindLane
  <2>2. CASE x = a
    BY <2>1, <2>2 DEF WakeOnItsWay
  <2>3. CASE x # a
    BY <2>1, <2>3 DEF NoLostWake, WakeOnItsWay, Rows, Of
  <2> QED BY <2>2, <2>3
<1>5. ASSUME NEW a \in Addresses, StartSignal(a) PROVE WakeOnItsWay(x)'
  <2>1. /\ UNCHANGED <<store, lane, call, up>>
        /\ signal'[a] /\ starting[a] = "signalling"
        /\ \A y \in Addresses \ {a} : starting'[y] = starting[y] /\ signal'[y] = signal[y]
    BY <1>5 DEF StartSignal, SendSignal
  <2>2. WakeOnItsWay(x)
    BY <2>1 DEF NoLostWake, Rows, Of
  <2> QED BY <2>1, <2>2 DEF WakeOnItsWay
<1>6. CASE Tick \/ UNCHANGED vars
  <2>1. UNCHANGED <<store, lane, call, up, signal, starting>>
    BY <1>6 DEF Tick, vars
  <2> QED BY <2>1 DEF NoLostWake, WakeOnItsWay, Rows, Of
<1>7. CASE Crash
  BY <1>7 DEF Crash
<1>8. CASE Start
  BY <1>8 DEF Start, Rows, WakeOnItsWay
<1> QED BY <1>1, <1>2, <1>3, <1>4, <1>5, <1>6, <1>7, <1>8 DEF Next

\* A row is never stranded behind a sleeping lane: while an idle lane's address is owed a row,
\* a wake is buffered or on its way, for any number of calls, restarts and addresses.
THEOREM NoWakeIsLost == Spec => []NoLostWake
<1>1. Init => NoLostWake
  BY DEF Init, NoLostWake, Rows
<1> QED BY <1>1, WakeStep, TypeCorrect, PTL DEF Spec

-----------------------------------------------------------------------------
(***************************************************************************)
(* Refinement.  Every step of the outbox maps to a step of DeliveryChannel *)
(* or to a stutter: Begin to Begin, Insert to Accept, a landing post to    *)
(* Take when its batch was queued and to Bypass when it was not, a final   *)
(* answer to Close, Remove to Settle.  Ordered supplies the abstract       *)
(* guards: what a lane holds has its turn (HoldsTheOldest), what is        *)
(* removed met its fate, and a late post had its turn (Accounting).        *)
(***************************************************************************)
LEMMA ChannelInit == Init => Channel!Init
BY DEF Init, Channel!Init

\* A step of a call begins it, accepts its batch, or lets it past the channel.
LEMMA ChannelDeliver ==
  ASSUME Ordered, NEW b \in Batches, Deliver(b)
  PROVE  Channel!Next \/ UNCHANGED Channel!vars
<1> USE DEF calls, history, Channel!vars
<1>1. CASE Begin(b)
  <2> DEFINE S == {c \in Batches : AddressOf[c] = AddressOf[b] /\ call[c] = "queued"}
  <2>1. b \notin queued /\ S \subseteq queued /\ S \in SUBSET Batches
    BY <1>1 DEF Begin, Ordered, Accounting
  <2>2. Channel!Begin(b, S)
    BY <1>1, <2>1 DEF Begin, Channel!Begin
  <2> QED BY <2>1, <2>2 DEF Channel!Next
<1>2. CASE Insert(b)
  <2>1. Channel!Accept(b)
    BY <1>2 DEF Insert, Channel!Accept, Ordered, Accounting
  <2> QED BY <2>1 DEF Channel!Next
<1>3. CASE DirectAnswer(b)
  <2>1. b \notin queued /\ UNCHANGED <<queued, store, before>>
    BY <1>3 DEF DirectAnswer, Ordered, Accounting
  <2>2. fate' = fate \/ fate' = [fate EXCEPT ![b] = "landed"]
    BY <1>3 DEF DirectAnswer, Land
  <2> QED BY <2>1, <2>2 DEF Channel!Next, Channel!Bypass
<1>4. CASE InsertFails(b) \/ Wake(b) \/ Signal(b)
  BY <1>4 DEF InsertFails, Wake, Signal
<1> QED BY <1>1, <1>2, <1>3, <1>4 DEF Deliver

\* The row in hand has its turn; an answer takes it, closes it or leaves it as it was.
LEMMA ChannelAnswer ==
  ASSUME Ordered, NEW a \in Addresses, Answer(a)
  PROVE  Channel!Next \/ UNCHANGED Channel!vars
<1>1. /\ row[a] \in Batches /\ row[a] \in store /\ row[a] \in queued
      /\ before[row[a]] \intersect store = {}
      /\ UNCHANGED <<queued, store, before>>
  BY AnswerEffect, OutboxAssumption DEF Ordered, HoldsTheOldest, Rows, TypeOK, RowsTyped
<1>2. Channel!Turn(row[a])
  BY <1>1 DEF Channel!Turn
<1>3. \/ fate' = fate
      \/ fate' = [fate EXCEPT ![row[a]] = "landed"]
      \/ /\ fate[row[a]] = "open"
         /\ \E why \in {"refused", "dropped"} : fate' = [fate EXCEPT ![row[a]] = why]
  <2>1. PICK answer \in Answers : \/ Delivered(a, answer) \/ Refused(a, answer)
                                  \/ Faulted(a, answer) \/ Unreachable(a, answer)
    BY DEF Answer
  <2>2. \/ fate' = fate
        \/ fate' = [fate EXCEPT ![row[a]] = "landed"]
        \/ \E why \in {"refused", "dropped"} : Close(row[a], why)
    BY <2>1 DEF Delivered, Refused, Faulted, Unreachable, RetryWhile, Land
  <2>3. ASSUME NEW why \in {"refused", "dropped"}, Close(row[a], why), fate[row[a]] # "open"
        PROVE  fate' = fate
    BY <2>3 DEF Close, Ordered, TypeOK, RowsTyped
  <2>4. ASSUME NEW why \in {"refused", "dropped"}, Close(row[a], why), fate[row[a]] = "open"
        PROVE  fate' = [fate EXCEPT ![row[a]] = why]
    BY <2>4 DEF Close
  <2> QED BY <2>2, <2>3, <2>4
<1>4. CASE fate' = fate
  BY <1>1, <1>4 DEF Channel!vars
<1>5. CASE fate' = [fate EXCEPT ![row[a]] = "landed"]
  BY <1>1, <1>2, <1>5 DEF Channel!Next, Channel!Take
<1>6. CASE /\ fate[row[a]] = "open"
           /\ \E why \in {"refused", "dropped"} : fate' = [fate EXCEPT ![row[a]] = why]
  BY <1>1, <1>2, <1>6 DEF Channel!Next, Channel!Close
<1> QED BY <1>3, <1>4, <1>5, <1>6

\* Only an answer and a remove show in the channel; what is removed had its turn and its fate.
LEMMA ChannelDrain ==
  ASSUME Ordered, NEW a \in Addresses, drain(a)
  PROVE  Channel!Next \/ UNCHANGED Channel!vars
<1> USE DEF calls, history, Channel!vars
<1>1. CASE Answer(a)
  BY <1>1, ChannelAnswer
<1>2. CASE Remove(a)
  <2>1. /\ row[a] \in Batches /\ row[a] \in store /\ row[a] \in queued /\ fate[row[a]] # "open"
        /\ before[row[a]] \intersect store = {}
    BY <1>2 DEF Remove, Ordered, Accounting, HoldsTheOldest, Rows, Settled,
                TypeOK, RowsTyped, LanesTyped
  <2>2. Channel!Settle(row[a])
    BY <1>2, <2>1 DEF Remove, Channel!Settle, Channel!Turn
  <2> QED BY <2>1, <2>2 DEF Channel!Next
<1>3. CASE Look(a) \/ LookEmpty(a) \/ LookFails(a) \/ Receive(a) \/ SleepOver(a) \/ RemoveFails(a)
  BY <1>3 DEF Look, LookEmpty, LookFails, Receive, SleepOver, RemoveFails
<1> QED BY <1>1, <1>2, <1>3 DEF drain

LEMMA ChannelStep == Ordered /\ [Next]_vars => [Channel!Next]_Channel!vars
<1> SUFFICES ASSUME Ordered, [Next]_vars PROVE Channel!Next \/ UNCHANGED Channel!vars
  OBVIOUS
<1> USE DEF calls, history, Channel!vars
<1>1. ASSUME NEW b \in Batches, Deliver(b) PROVE Channel!Next \/ UNCHANGED Channel!vars
  BY <1>1, ChannelDeliver
<1>2. ASSUME NEW b \in Batches, FinishLate(b) PROVE Channel!Next \/ UNCHANGED Channel!vars
  <2>1. /\ b \in late /\ fate' = [fate EXCEPT ![b] = "landed"]
        /\ UNCHANGED <<queued, store, before>>
    BY <1>2 DEF FinishLate, Land
  <2>2. CASE b \in queued
    <3>1. Channel!Take(b)
      BY <2>1, <2>2 DEF Channel!Take, Channel!Turn, Ordered, Accounting
    <3> QED BY <3>1 DEF Channel!Next
  <2>3. CASE b \notin queued
    BY <2>1, <2>3 DEF Channel!Next, Channel!Bypass
  <2> QED BY <2>2, <2>3
<1>3. ASSUME NEW a \in Addresses, drain(a) PROVE Channel!Next \/ UNCHANGED Channel!vars
  BY <1>3, ChannelDrain
<1>4. ASSUME NEW a \in Addresses, StartWake(a) \/ StartSignal(a) PROVE UNCHANGED Channel!vars
  BY <1>4 DEF StartWake, StartSignal
<1>5. CASE Tick \/ Crash \/ Start \/ UNCHANGED vars
  BY <1>5 DEF Tick, Crash, Start, vars
<1> QED BY <1>1, <1>2, <1>3, <1>4, <1>5 DEF Next

\* The outbox implements the channel Deliver's callers were promised: through concurrent
\* inserts, time-outs, failed deletes and crashes it does nothing the channel would not do.
THEOREM OutboxImplementsChannel == Spec => ImplementsChannel
BY ChannelInit, ChannelStep, OrderedAlways, PTL DEF Spec, ImplementsChannel, Channel!Spec

-----------------------------------------------------------------------------
(***************************************************************************)
(* Whose fault it was, on SQLite.  A lane's faultSince is not tied to a    *)
(* row, so what makes it the row's own is that nothing can get in front of *)
(* the row between two posts: with one connection rows commit in the order *)
(* of their ids (CommitsInIdOrder), so what a lane holds is still the head *)
(* (HoldsTheHead), and a fault window that runs is never longer than the   *)
(* head's own (FaultOfTheHead).                                            *)
(***************************************************************************)
CommitsInIdOrder ==
  /\ \A b, c \in Batches : call[b] = "inserting" /\ call[c] = "inserting" => b = c
  /\ \A b \in Batches : call[b] = "inserting" => \A c \in store : id[c] < id[b]
  /\ \A b, c \in store : id[b] = id[c] => b = c

HoldsTheHead == \A a \in Addresses : row[a] # NoBatch => row[a] \in head(a)

FaultOfTheHead ==
  \A a \in Addresses : faultAge[a] # NoFault => \E h \in head(a) : ownFault[h] >= faultAge[a]

Charged == CommitsInIdOrder /\ HoldsTheHead /\ FaultOfTheHead

LEMMA ChargedInit == Init => Charged
BY DEF Init, Charged, CommitsInIdOrder, HoldsTheHead, FaultOfTheHead

\* A step of the lane leaves the ids and the inserts alone, and adds no row.
LEMMA DrainAddsNoRow ==
  ASSUME NEW a \in Addresses, drain(a)
  PROVE  UNCHANGED <<call, id, lastId>> /\ store' \subseteq store
BY DEF drain, Look, LookEmpty, LookFails, Receive, SleepOver, Answer, Remove, RemoveFails, calls

\* With one connection an insert that runs is alone and has the greatest id.
LEMMA CommitsStep ==
  ASSUME OneConnection, Ordered, CommitsInIdOrder, [Next]_vars
  PROVE  CommitsInIdOrder'
<1> USE DEF process, calls, lanes, history
<1>1. ASSUME UNCHANGED id, store' \subseteq store,
             \A b \in Batches : call'[b] = "inserting" => call[b] = "inserting"
      PROVE  CommitsInIdOrder'
  BY <1>1 DEF CommitsInIdOrder
<1>2. ASSUME NEW b \in Batches, Begin(b) PROVE CommitsInIdOrder'
  <2>1. /\ b \notin store /\ store' = store /\ store \subseteq Batches
        /\ id'[b] = lastId + 1 /\ \A c \in Batches \ {b} : id'[c] = id[c] /\ id[c] < lastId + 1
        /\ \A c \in Batches \ {b} : call'[c] # "inserting"
    BY <1>2 DEF Begin, Ordered, Accounting, TypeOK, CallsTyped, RowsTyped
  <2> QED BY <2>1 DEF CommitsInIdOrder
<1>3. ASSUME NEW b \in Batches, Insert(b) PROVE CommitsInIdOrder'
  <2>1. /\ call[b] = "inserting" /\ store' = store \union {b} /\ id' = id
        /\ store \subseteq Batches /\ id \in [Batches -> 0..lastId] /\ lastId \in Nat
        /\ \A c \in Batches : call'[c] = "inserting" => call[c] = "inserting" /\ c # b
    BY <1>3 DEF Insert, Ordered, TypeOK, CallsTyped, RowsTyped
  <2>2. \A c \in Batches : call'[c] # "inserting"
    BY <2>1 DEF CommitsInIdOrder
  <2>3. \A c \in store : id[c] < id[b] /\ id[c] \in Nat /\ id[b] \in Nat
    BY <2>1 DEF CommitsInIdOrder
  <2> QED BY <2>1, <2>2, <2>3 DEF CommitsInIdOrder
<1>4. ASSUME NEW b \in Batches, InsertFails(b) \/ DirectAnswer(b) \/ Wake(b) \/ Signal(b)
      PROVE  CommitsInIdOrder'
  BY <1>1, <1>4 DEF InsertFails, DirectAnswer, Wake, Signal, Ordered, TypeOK, CallsTyped
<1>5. ASSUME NEW a \in Addresses, drain(a) PROVE CommitsInIdOrder'
  BY <1>1, <1>5, DrainAddsNoRow
<1>6. CASE Crash
  BY <1>1, <1>6 DEF Crash
<1>7. ASSUME \/ \E b \in Batches : FinishLate(b)
             \/ \E a \in Addresses : StartWake(a) \/ StartSignal(a)
             \/ Tick \/ Start \/ UNCHANGED vars
      PROVE  CommitsInIdOrder'
  BY <1>1, <1>7 DEF FinishLate, StartWake, StartSignal, Tick, Start, vars
<1> QED BY <1>2, <1>3, <1>4, <1>5, <1>6, <1>7 DEF Next, Deliver

\* A step that displaces no head, and starts no fault window, keeps both facts about heads.
LEMMA HeadsStay ==
  ASSUME HoldsTheHead, FaultOfTheHead,
         \A x \in Addresses : head(x) \subseteq head(x)',
         \A x \in Addresses : row'[x] \in {row[x], NoBatch} \/ row'[x] \in head(x),
         \A x \in Addresses : faultAge'[x] \in {faultAge[x], NoFault},
         ownFault' = ownFault
  PROVE  HoldsTheHead' /\ FaultOfTheHead'
<1>1. HoldsTheHead'
  BY DEF HoldsTheHead
<1>2. FaultOfTheHead'
  BY DEF FaultOfTheHead
<1> QED BY <1>1, <1>2

\* A new row goes to the end of its lane: Begin moves no head, Insert displaces none.
LEMMA HeadsDeliver ==
  ASSUME OneConnection, Ordered, Charged, NEW b \in Batches, Deliver(b)
  PROVE  HoldsTheHead' /\ FaultOfTheHead'
<1> USE DEF process, calls, lanes, history
<1>1. /\ UNCHANGED <<row, faultAge, ownFault>>
  BY DEF Deliver, Begin, Insert, InsertFails, DirectAnswer, Wake, FindLane, Signal, SendSignal
<1>2. ASSUME NEW x \in Addresses PROVE head(x) \subseteq head(x)'
  <2>1. CASE Begin(b)
    <3>1. b \notin store /\ store' = store /\ \A c \in store : id'[c] = id[c]
      BY <2>1 DEF Begin, Ordered, Accounting, TypeOK, CallsTyped, RowsTyped
    <3> QED BY <3>1 DEF head, Rows
  <2>2. CASE Insert(b)
    <3>1. call[b] = "inserting" /\ store' = store \union {b} /\ id' = id
      BY <2>2 DEF Insert
    <3>2. \A c \in store : id[c] \in Nat /\ id[b] \in Nat /\ id[c] < id[b]
      BY <3>1 DEF Charged, CommitsInIdOrder, Ordered, TypeOK, CallsTyped, RowsTyped
    <3> QED BY <3>1, <3>2 DEF head, Rows
  <2>3. CASE InsertFails(b) \/ DirectAnswer(b) \/ Wake(b) \/ Signal(b)
    BY <2>3 DEF InsertFails, DirectAnswer, Wake, Signal, head, Rows
  <2> QED BY <2>1, <2>2, <2>3 DEF Deliver
<1> QED BY <1>1, <1>2, HeadsStay DEF Charged

\* The first 500 starts both windows, and the lane's is of the row it holds: the head.
LEMMA HeadsFaulted ==
  ASSUME Ordered, Charged, NEW a \in Addresses, lane[a] = "posting", NEW answer \in Answers,
         Faulted(a, answer), UNCHANGED <<store, id>>
  PROVE  HoldsTheHead' /\ FaultOfTheHead'
<1>1. /\ row[a] \in Batches /\ row[a] \in head(a)
      /\ \A x \in Addresses : head(x)' = head(x)
  BY OutboxAssumption DEF Ordered, TypeOK, LanesTyped, Charged, HoldsTheHead, head, Rows
<1>2. \A x \in Addresses : row'[x] \in {row[x], NoBatch}
  BY DEF Faulted, RetryWhile, Retry, Sleep, Settle, Ordered, TypeOK, LanesTyped
<1>3. /\ faultAge'[a] = IF faultAge[a] = NoFault THEN 0 ELSE faultAge[a]
      /\ \A x \in Addresses \ {a} : faultAge'[x] = faultAge[x]
      /\ ownFault'[row[a]] = IF ownFault[row[a]] = NoFault THEN 0 ELSE ownFault[row[a]]
      /\ \A b \in Batches \ {row[a]} : ownFault'[b] = ownFault[b]
  BY <1>1 DEF Faulted, Ordered, TypeOK, LanesTyped, RowsTyped
<1>4. \A b \in Batches : ownFault'[b] >= ownFault[b]
  BY <1>1, <1>3 DEF NoFault, Ordered, TypeOK, RowsTyped
<1>5. \A b \in Batches : ownFault'[b] \in Int /\ ownFault[b] \in Int
  BY <1>1, <1>3, OutboxAssumption DEF NoFault, Ordered, TypeOK, RowsTyped
<1>6. \A x \in Addresses : faultAge[x] \in Int /\ head(x) \subseteq Batches
  BY OutboxAssumption DEF NoFault, Ordered, TypeOK, LanesTyped, head, Rows, Of
<1>7. ASSUME NEW x \in Addresses, faultAge[x] # NoFault
      PROVE  \E h \in head(x) : ownFault'[h] >= faultAge'[x]
  <2>1. PICK h \in head(x) : ownFault[h] >= faultAge[x]
    BY <1>7 DEF Charged, FaultOfTheHead
  <2>2. faultAge'[x] = faultAge[x]
    BY <1>3, <1>7
  <2> QED BY <1>4, <1>5, <1>6, <2>1, <2>2
<1>8. faultAge[a] = NoFault => ownFault'[row[a]] >= faultAge'[a]
  BY <1>1, <1>3, OutboxAssumption DEF NoFault, Ordered, TypeOK, RowsTyped
<1>9. HoldsTheHead'
  BY <1>1, <1>2 DEF Charged, HoldsTheHead
<1>10. FaultOfTheHead'
  BY <1>1, <1>3, <1>7, <1>8 DEF FaultOfTheHead
<1> QED BY <1>9, <1>10

\* Answers, looks and removes: only a 500 starts a window, only its own row's remove moves
\* a head, and that ends the window.
LEMMA HeadsDrain ==
  ASSUME Ordered, Charged, NEW a \in Addresses, drain(a)
  PROVE  HoldsTheHead' /\ FaultOfTheHead'
<1> USE DEF process, calls, lanes, history
<1>1. CASE Look(a)
  <2>1. PICK b \in head(a) : row' = [row EXCEPT ![a] = b]
    BY <1>1 DEF Look
  <2>2. \A x \in Addresses : row'[x] = row[x] \/ row'[x] \in head(x)
    BY <2>1 DEF Ordered, TypeOK, LanesTyped
  <2>3. \A x \in Addresses : head(x)' = head(x)
    BY <1>1 DEF Look, head, Rows
  <2> QED BY <1>1, <2>2, <2>3, HeadsStay DEF Look, Charged
<1>2. CASE LookEmpty(a) \/ LookFails(a) \/ Receive(a) \/ SleepOver(a) \/ RemoveFails(a)
  <2>1. \A x \in Addresses : row'[x] \in {row[x], NoBatch}
    BY <1>2 DEF LookEmpty, LookFails, Receive, SleepOver, RemoveFails, Sleep,
                Ordered, TypeOK, LanesTyped
  <2>2. \A x \in Addresses : faultAge'[x] \in {faultAge[x], NoFault}
    BY <1>2 DEF LookEmpty, LookFails, Receive, SleepOver, RemoveFails, Forget,
                Ordered, TypeOK, LanesTyped
  <2>3. UNCHANGED ownFault /\ \A x \in Addresses : head(x)' = head(x)
    BY <1>2 DEF LookEmpty, LookFails, Receive, SleepOver, RemoveFails, head, Rows
  <2> QED BY <2>1, <2>2, <2>3, HeadsStay DEF Charged
<1>3. CASE Answer(a)
  <2>1. PICK answer \in Answers : \/ Delivered(a, answer) \/ Refused(a, answer)
                                  \/ Faulted(a, answer) \/ Unreachable(a, answer)
    BY <1>3 DEF Answer
  <2>2. lane[a] = "posting" /\ UNCHANGED <<store, id>>
    BY <1>3 DEF Answer
  <2>3. CASE Faulted(a, answer)
    BY <2>2, <2>3, HeadsFaulted
  <2>4. CASE Delivered(a, answer) \/ Refused(a, answer) \/ Unreachable(a, answer)
    <3>1. UNCHANGED <<faultAge, ownFault>>
      BY <2>4 DEF Delivered, Refused, Unreachable
    <3>2. \A x \in Addresses : row'[x] \in {row[x], NoBatch}
      BY <2>4 DEF Delivered, Refused, Unreachable, RetryWhile, Retry, Settle, Sleep,
                  Ordered, TypeOK, LanesTyped
    <3>3. \A x \in Addresses : head(x)' = head(x)
      BY <2>2 DEF head, Rows
    <3> QED BY <3>1, <3>2, <3>3, HeadsStay DEF Charged
  <2> QED BY <2>1, <2>3, <2>4
<1>4. CASE Remove(a)
  <2>1. row[a] \in Batches /\ AddressOf[row[a]] = a
    BY <1>4 DEF Remove, Ordered, HoldsTheOldest, Rows, Of, TypeOK, LanesTyped
  <2>2. /\ store' = store \ {row[a]} /\ id' = id
        /\ row'[a] = NoBatch /\ faultAge'[a] = NoFault
        /\ \A x \in Addresses \ {a} : row'[x] = row[x] /\ faultAge'[x] = faultAge[x]
        /\ \A b \in Batches \ {row[a]} : ownFault'[b] = ownFault[b]
    BY <1>4, <2>1 DEF Remove, Forget, Ordered, TypeOK, LanesTyped, RowsTyped
  <2>3. ASSUME NEW x \in Addresses \ {a}
        PROVE  head(x)' = head(x) /\ \A h \in head(x) : ownFault'[h] = ownFault[h]
    <3>1. Rows(x)' = Rows(x) /\ row[a] \notin Rows(x)
      BY <2>1, <2>2 DEF Rows, Of
    <3> QED BY <2>2, <3>1 DEF head, Rows, Of
  <2>4. HoldsTheHead'
    BY <2>2, <2>3 DEF Charged, HoldsTheHead
  <2>5. FaultOfTheHead'
    BY <2>2, <2>3 DEF Charged, FaultOfTheHead
  <2> QED BY <2>4, <2>5
<1> QED BY <1>1, <1>2, <1>3, <1>4 DEF drain

LEMMA HeadsStep ==
  ASSUME OneConnection, Ordered, Charged, [Next]_vars
  PROVE  HoldsTheHead' /\ FaultOfTheHead'
<1> USE DEF process, calls, lanes, history
<1>1. ASSUME NEW b \in Batches, Deliver(b) PROVE HoldsTheHead' /\ FaultOfTheHead'
  BY <1>1, HeadsDeliver
<1>2. ASSUME NEW a \in Addresses, drain(a) PROVE HoldsTheHead' /\ FaultOfTheHead'
  BY <1>2, HeadsDrain
<1>3. ASSUME \/ \E b \in Batches : FinishLate(b)
             \/ \E a \in Addresses : StartWake(a) \/ StartSignal(a)
             \/ Start \/ Crash \/ UNCHANGED vars
      PROVE  HoldsTheHead' /\ FaultOfTheHead'
  <2>1. /\ UNCHANGED <<store, id, ownFault>>
        /\ \A x \in Addresses : row'[x] \in {row[x], NoBatch}
        /\ \A x \in Addresses : faultAge'[x] \in {faultAge[x], NoFault}
    BY <1>3 DEF FinishLate, StartWake, StartSignal, FindLane, SendSignal, Start, Crash, vars
  <2>2. \A x \in Addresses : head(x)' = head(x)
    BY <2>1 DEF head, Rows
  <2> QED BY <2>1, <2>2, HeadsStay DEF Charged
<1>4. CASE Tick
  <2>1. UNCHANGED <<store, id, row>> /\ \A x \in Addresses : head(x)' = head(x)
    BY <1>4 DEF Tick, head, Rows
  <2>2. \A m, n \in Int : m >= n => Older(m, FAULT_WINDOW) >= Older(n, FAULT_WINDOW)
    BY OutboxAssumption DEF Older, Least
  <2>3. ASSUME NEW x \in Addresses, faultAge'[x] # NoFault
        PROVE  \E h \in head(x) : ownFault'[h] >= faultAge'[x]
    <3>1. faultAge[x] # NoFault /\ faultAge'[x] = Older(faultAge[x], FAULT_WINDOW)
      BY <1>4, <2>3 DEF Tick
    <3>2. PICK h \in head(x) : ownFault[h] >= faultAge[x]
      BY <3>1 DEF Charged, FaultOfTheHead
    <3>3. h \in Batches
      BY DEF head, Rows, Of
    <3>4. faultAge[x] \in 0..FAULT_WINDOW /\ ownFault[h] \in {NoFault} \union 0..FAULT_WINDOW
      BY <3>1, <3>3 DEF Ordered, TypeOK, LanesTyped, RowsTyped
    <3>5. ownFault[h] # NoFault /\ ownFault[h] \in Int /\ faultAge[x] \in Int
      BY <3>2, <3>4, OutboxAssumption DEF NoFault
    <3>6. ownFault'[h] = Older(ownFault[h], FAULT_WINDOW)
      BY <1>4, <3>3, <3>5 DEF Tick
    <3> QED BY <2>2, <3>1, <3>2, <3>5, <3>6
  <2>4. HoldsTheHead'
    BY <2>1 DEF Charged, HoldsTheHead
  <2>5. FaultOfTheHead'
    BY <2>1, <2>3 DEF FaultOfTheHead
  <2> QED BY <2>4, <2>5
<1> QED BY <1>1, <1>2, <1>3, <1>4 DEF Next

\* Only an answer to the row in hand drops it.
LEMMA DropsWhatItHolds ==
  ASSUME Ordered, Next, NEW b \in NowMeets("dropped")
  PROVE  \E a \in Addresses : Answer(a) /\ b = row[a]
<1> USE DEF process, calls, lanes, history
<1>1. b \in Batches /\ fate'[b] = "dropped" /\ fate[b] # "dropped"
  BY DEF NowMeets
<1>2. ASSUME NEW c \in Batches, Deliver(c) \/ FinishLate(c) PROVE FALSE
  <2>1. fate' = fate \/ fate' = [fate EXCEPT ![c] = "landed"]
    BY <1>2 DEF Deliver, Begin, Insert, InsertFails, DirectAnswer, Land, Wake, Signal, FinishLate
  <2> QED BY <1>1, <2>1 DEF Ordered, TypeOK, RowsTyped
<1>3. ASSUME NEW a \in Addresses, drain(a) PROVE Answer(a)
  BY <1>1, <1>3 DEF drain, Look, LookEmpty, LookFails, Receive, SleepOver, Remove, RemoveFails
<1>4. \E a \in Addresses : Answer(a)
  BY <1>1, <1>2, <1>3 DEF Next, StartWake, StartSignal, Tick, Crash, Start
<1>5. ASSUME NEW a \in Addresses, Answer(a) PROVE b = row[a]
  BY <1>1, <1>5, AnswerEffect DEF Ordered
<1> QED BY <1>4, <1>5

\* A drop is of the head, and the head's own window has run out, or its age has.
LEMMA DropIsItsOwn ==
  ASSUME Ordered, Charged, NEW a \in Addresses, Answer(a),
         fate'[row[a]] = "dropped", fate[row[a]] # "dropped"
  PROVE  age[row[a]] = DELIVERY_WINDOW \/ ownFault'[row[a]] = FAULT_WINDOW
<1>1. PICK answer \in Answers : \/ Delivered(a, answer) \/ Refused(a, answer)
                                \/ Faulted(a, answer) \/ Unreachable(a, answer)
  BY DEF Answer
<1>2. row[a] \in Batches /\ row[a] \in head(a)
  BY OutboxAssumption DEF Answer, Ordered, TypeOK, LanesTyped, Charged, HoldsTheHead
<1>3. ~Delivered(a, answer) /\ ~Refused(a, answer)
  BY <1>2 DEF Delivered, Refused, Land, Close, Ordered, TypeOK, RowsTyped
<1>4. CASE Unreachable(a, answer)
  <2>1. ~(age[row[a]] < DELIVERY_WINDOW)
    BY <1>4 DEF Unreachable, RetryWhile
  <2> QED BY <1>2, <2>1, OutboxAssumption DEF Ordered, TypeOK, RowsTyped
<1>5. CASE Faulted(a, answer)
  <2>1. ~(faultAge'[a] < FAULT_WINDOW)
    BY <1>5 DEF Faulted, RetryWhile
  <2>2. /\ faultAge'[a] = IF faultAge[a] = NoFault THEN 0 ELSE faultAge[a]
        /\ ownFault'[row[a]] = IF ownFault[row[a]] = NoFault THEN 0 ELSE ownFault[row[a]]
    BY <1>2, <1>5 DEF Faulted, Ordered, TypeOK, LanesTyped, RowsTyped
  <2>3. ownFault'[row[a]] \in 0..FAULT_WINDOW
    BY <1>2, <2>2, OutboxAssumption DEF Ordered, TypeOK, RowsTyped
  <2>4. CASE faultAge[a] = NoFault
    BY <2>1, <2>2, <2>3, <2>4, OutboxAssumption
  <2>5. CASE faultAge[a] # NoFault
    <3>1. PICK h \in head(a) : ownFault[h] >= faultAge[a]
      BY <2>5 DEF Charged, FaultOfTheHead
    <3>2. h \in store /\ row[a] \in store /\ id[h] <= id[row[a]] /\ id[row[a]] <= id[h]
      BY <1>2 DEF head, Rows
    <3>3. id[h] \in Int /\ id[row[a]] \in Int
      BY <3>2 DEF Ordered, TypeOK, CallsTyped, RowsTyped
    <3>4. h = row[a]
      BY <3>2, <3>3 DEF Charged, CommitsInIdOrder
    <3>5. faultAge[a] \in 0..FAULT_WINDOW
      BY <2>5 DEF Ordered, TypeOK, LanesTyped
    <3>6. ownFault[row[a]] # NoFault
      BY <1>2, <3>1, <3>4, <3>5 DEF NoFault
    <3> QED BY <2>1, <2>2, <2>3, <2>5, <3>1, <3>4, <3>5, <3>6, OutboxAssumption
  <2> QED BY <2>4, <2>5
<1> QED BY <1>1, <1>3, <1>4, <1>5

\* On SQLite a row is dropped for faulting only when the receiver has been answering 500 to
\* that very row since FAULT_WINDOW ago, through failed deletes, restarts and the rows before
\* it.  On Postgres a smaller id may commit later and inherit another row's window.
THEOREM FaultIsItsOwn ==
  ASSUME OneConnection
  PROVE  Spec => ChargedItsOwnFault
<1>1. Ordered /\ Charged /\ [Next]_vars => Charged'
  BY CommitsStep, HeadsStep DEF Charged
<1>2. Ordered /\ Charged /\ [Next]_vars
        => [\A b \in NowMeets("dropped") :
              age[b] = DELIVERY_WINDOW \/ ownFault'[b] = FAULT_WINDOW]_vars
  <2> SUFFICES ASSUME Ordered, Charged, Next, NEW b \in NowMeets("dropped")
               PROVE  age[b] = DELIVERY_WINDOW \/ ownFault'[b] = FAULT_WINDOW
    OBVIOUS
  <2>1. PICK a \in Addresses : Answer(a) /\ b = row[a]
    BY DropsWhatItHolds
  <2> QED BY <2>1, DropIsItsOwn DEF NowMeets
<1> QED BY <1>1, <1>2, ChargedInit, OrderedAlways, PTL DEF Spec, ChargedItsOwnFault
=============================================================================
