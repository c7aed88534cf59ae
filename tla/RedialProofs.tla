---------------------------- MODULE RedialProofs ----------------------------
(***************************************************************************)
(* Proofs about Redial, for any sessions, ladder, dial times and suspends. *)
(***************************************************************************)
EXTENDS Redial, FiniteSetTheorems, TLAPS

\* Whatever the count, the ladder's index is a rung, and what a rung says is a wait.
LEMMA Ladder == Rung \in Nat /\ \A n \in Nat : Index(n) \in 0..Rung /\ redialWait(n) \in Nat
<1>1. REDIAL_BACKOFF \in Seq(Nat) /\ Len(REDIAL_BACKOFF) \in Nat \ {0}
  BY RedialAssumption
<1>2. Rung \in Nat /\ Len(REDIAL_BACKOFF) = Rung + 1
  BY <1>1 DEF Rung
<1>3. ASSUME NEW n \in Nat PROVE Index(n) \in 0..Rung /\ Index(n) + 1 \in 1..Len(REDIAL_BACKOFF)
  <2>1. Index(n) \in 0..Rung
    BY <1>2 DEF Index, Least
  <2> QED BY <1>1, <1>2, <2>1
<1>4. ASSUME NEW i \in 1..Len(REDIAL_BACKOFF) PROVE REDIAL_BACKOFF[i] \in Nat
  BY <1>1
<1> QED BY <1>2, <1>3, <1>4 DEF redialWait

\* Counting never leaves the counts the code tells apart.
LEMMA Counts ==
  /\ 0 \in 0..(Rung + 1)
  /\ \A n \in 0..(Rung + 1) : n \in Nat /\ OneMore(n) \in 0..(Rung + 1) /\ redialWait(n) \in Nat
  /\ \A f \in [Sessions -> 0..(Rung + 1)] : \A s \in Sessions : Index(f[s]) \in 0..Rung
<1>1. \A n \in 0..(Rung + 1) : n \in Nat
  BY Ladder
<1>2. 0 \in 0..(Rung + 1) /\ \A n \in 0..(Rung + 1) : OneMore(n) \in 0..(Rung + 1)
  BY Ladder DEF OneMore, Least
<1> QED BY <1>1, <1>2, Ladder

LEMMA Clocks == \A t \in Nat, d \in Nat : Later(t, d) \in Nat /\ Left(t, d) \in Nat
BY RedialAssumption DEF Later, Left, Least

LEMMA Bounds == /\ 0 \in 0..SLEEP_TICK /\ SLEEP_TICK \in 0..SLEEP_TICK
                /\ 0 \in 0..DialTime /\ 0 \in 0..MaxSuspends
BY RedialAssumption

\* What else happens to a session's socket and its place in the map.
Link(s) ==
  \/ Drop(s) \/ Reconnect(s) \/ TemporaryBan(s)
  \/ Pair(s) \/ failPending(s) \/ HangUp(s) \/ completePairing(s)
  \/ LoggedOut(s) \/ forget(s)

LEMMA TypeInit == Init => TypeOK
<1> SUFFICES ASSUME Init PROVE TypeOK
  OBVIOUS
<1>1. 0 \in 0..(Rung + 1)
  BY Counts
<1>2. /\ owed \in [Sessions -> 0..(Rung + 1)] /\ strikes \in [Sessions -> 0..(Rung + 1)]
      /\ dueIn \in [Sessions -> Nat] /\ asked \in [Sessions -> Nat]
      /\ sock \in [Sessions -> {"none", "retrying", "up", "deaf"}]
  BY <1>1 DEF Init
<1>3. stage \in [Sessions -> {"new", "linked", "paired"}] /\ todo \subseteq Sessions
  BY RedialAssumption DEF Init
<1> QED BY Bounds, Counts, <1>2, <1>3 DEF Init, TypeOK

LEMMA TypeStep == TypeOK /\ [Next]_vars => TypeOK'
<1> SUFFICES ASSUME TypeOK, [Next]_vars PROVE TypeOK'
  OBVIOUS
<1> USE DEF TypeOK, watcher, debts, history, life
<1>1. ASSUME NEW s \in Sessions, NEW end \in {"up", "none"}, BootDial(s, end) PROVE TypeOK'
  BY <1>1 DEF BootDial, Sharing
<1>2. CASE Watch
  BY <1>2, Bounds DEF Watch
<1>3. CASE Round
  <2>1. dueIn' \in [Sessions -> Nat] /\ asked' \in [Sessions -> Nat]
    BY <1>3, Clocks DEF Round
  <2>2. strikes' \in [Sessions -> 0..(Rung + 1)]
    BY <1>3, Counts DEF Round
  <2> QED BY <1>3, <2>1, <2>2 DEF Round
<1>4. ASSUME NEW s \in Sessions, Disconnect(s) PROVE TypeOK'
  <2>1. owed' \in [Sessions -> 0..(Rung + 1)] /\ dueIn' \in [Sessions -> Nat]
    BY <1>4, Counts DEF Disconnect
  <2>2. \A r \in Sessions : Index(owed'[r]) \in 0..Rung
    BY <2>1, Counts
  <2> QED BY <1>4, <2>1, <2>2 DEF Disconnect, Hung
<1>5. CASE Closed \/ Sleep
  BY <1>5, Bounds DEF Closed, Sleep
<1>6. ASSUME NEW s \in Sessions, Forgive(s)
      PROVE  /\ due' \subseteq Sessions /\ dueIn' \in [Sessions -> Nat]
             /\ owed' \in [Sessions -> 0..(Rung + 1)]
             /\ \A r \in Sessions : Index(owed'[r]) \in 0..Rung
  <2>1. owed' \in [Sessions -> 0..(Rung + 1)]
    BY <1>6, Counts DEF Forgive
  <2>2. \A r \in Sessions : Index(owed'[r]) \in 0..Rung
    BY <2>1, Counts
  <2> QED BY <1>6, <2>1, <2>2 DEF Forgive
<1>7. ASSUME NEW s \in Sessions, NobodyToPay(s) PROVE TypeOK'
  BY <1>7, <1>6 DEF NobodyToPay, Visit
<1>8. ASSUME NEW s \in Sessions, NotDue(s) \/ Dial(s) PROVE TypeOK'
  <2>1. CASE NotDue(s)
    BY <2>1 DEF NotDue, Visit
  <2>2. CASE Dial(s)
    BY <2>2, Bounds DEF Dial, Visit
  <2> QED BY <1>8, <2>1, <2>2
<1>9. ASSUME NEW s \in Sessions, DialTakes(s) PROVE TypeOK'
  <2>1. strikes' \in [Sessions -> 0..(Rung + 1)]
    BY <1>9, Counts DEF DialTakes
  <2> QED BY <1>9, <1>6, <2>1 DEF DialTakes, Answered
<1>10. ASSUME NEW s \in Sessions, DialFails(s) PROVE TypeOK'
  <2>1. owed' \in [Sessions -> 0..(Rung + 1)] /\ dueIn' \in [Sessions -> Nat]
    BY <1>10, Counts DEF DialFails, Owe
  <2>2. strikes' \in [Sessions -> 0..(Rung + 1)]
    BY <1>10, Counts DEF DialFails
  <2>3. \A r \in Sessions : Index(owed'[r]) \in 0..Rung
    BY <2>1, Counts
  <2> QED BY <1>10, <2>1, <2>2, <2>3 DEF DialFails, Answered, Owe
<1>11. CASE Tick
  <2>1. nap' \in 0..SLEEP_TICK /\ since' \in Nat
    BY <1>11, RedialAssumption, Clocks DEF Tick, Left
  <2>2. dialled' \in 0..DialTime
    BY <1>11, RedialAssumption DEF Tick
  <2> QED BY <1>11, <2>1, <2>2 DEF Tick
<1>12. ASSUME NEW d \in Suspends, Suspend(d) PROVE TypeOK'
  <2>1. since' \in Nat /\ suspends' \in 0..MaxSuspends
    BY <1>12, RedialAssumption, Clocks DEF Suspend
  <2> QED BY <1>12, <2>1 DEF Suspend
<1>13. ASSUME NEW s \in Sessions, Link(s) PROVE TypeOK'
  <2>1. CASE Drop(s) \/ TemporaryBan(s) \/ LoggedOut(s) \/ forget(s)
    BY <2>1 DEF Drop, TemporaryBan, LoggedOut, forget, Sharing
  <2>2. CASE Reconnect(s)
    BY <2>2, Counts DEF Reconnect
  <2>3. CASE Pair(s) \/ failPending(s) \/ completePairing(s)
    BY <2>3 DEF Pair, failPending, completePairing, Sharing
  <2>4. CASE HangUp(s)
    BY <2>4 DEF HangUp, Hung
  <2> QED BY <1>13, <2>1, <2>2, <2>3, <2>4 DEF Link
<1>14. CASE UNCHANGED vars
  BY <1>14 DEF vars
<1> QED BY <1>1, <1>2, <1>3, <1>4, <1>5, <1>7, <1>8, <1>9, <1>10, <1>11, <1>12, <1>13, <1>14 DEF Next, Link

\* Every state of the watcher is well formed, and its ladder never runs out.
THEOREM TypeCorrect == Spec => []TypeOK
BY TypeInit, TypeStep, PTL DEF Spec

-----------------------------------------------------------------------------
(***************************************************************************)
(* A session without a socket owes a dial.  A debt is forgiven as "logged  *)
(* out" from the round's snapshot, which is older than the map, so the     *)
(* induction needs that no session in the map can owe one the snapshot     *)
(* does not have: only pairing adds to the map, and what is not yet paired *)
(* owes nothing.  What is linked and not yet paired may have lost its      *)
(* socket before it enters the map, and to the same three.                 *)
(***************************************************************************)
Unpaired == {s \in Sessions : stage[s] # "paired"}

LinkedIsKept ==
  \A s \in Sessions : stage[s] = "linked" /\ sock[s] = "none" => s \in adrift \union unlinked

SnapshotIsEnough ==
  /\ phase = "booting" => due = {}
  /\ phase = "booting" => todo \intersect Unpaired = {}
  /\ phase = "closing" => todo \subseteq seen \ Unpaired
  /\ (sessions \union due) \intersect Unpaired = {}
  /\ due \intersect sessions \subseteq seen
  /\ phase \in {"paying", "dialling"} => todo \subseteq due \ target

Owing == TypeOK /\ GoneIsOwed /\ LinkedIsKept /\ SnapshotIsEnough

LEMMA OwingInit == Init => Owing
BY TypeInit DEF Init, Owing, GoneIsOwed, LinkedIsKept, SnapshotIsEnough, Unpaired, TypeOK

LEMMA OwingStep == Owing /\ [Next]_vars => Owing'
<1> DEFINE Kept == GoneIsOwed /\ LinkedIsKept /\ SnapshotIsEnough
<1> SUFFICES ASSUME Owing, [Next]_vars PROVE Kept'
  BY TypeStep DEF Owing
<1> USE DEF Owing, TypeOK, GoneIsOwed, LinkedIsKept, SnapshotIsEnough, Unpaired,
            watcher, debts, history, life
<1>1. ASSUME NEW s \in Sessions, NEW end \in {"up", "none"}, BootDial(s, end) PROVE Kept'
  BY <1>1 DEF BootDial, Sharing
<1>2. CASE Watch \/ Closed \/ Sleep \/ Tick
  BY <1>2 DEF Watch, Closed, Sleep, Tick
<1>3. CASE Round
  BY <1>3 DEF Round
<1>4. ASSUME NEW s \in Sessions, Disconnect(s) PROVE Kept'
  BY <1>4 DEF Disconnect, Hung
<1>5. ASSUME NEW s \in Sessions, NobodyToPay(s) PROVE Kept'
  <2>1. s \notin sessions \/ sock[s] # "none"
    <3>1. s \in due
      BY <1>5 DEF NobodyToPay, Visit
    <3>2. s \notin sessions \/ s \in seen
      BY <3>1
    <3> QED BY <1>5, <3>2 DEF NobodyToPay, IsConnected
  <2> QED BY <1>5, <2>1 DEF NobodyToPay, Visit, Forgive
<1>6. ASSUME NEW s \in Sessions, NotDue(s) \/ Dial(s) PROVE Kept'
  BY <1>6 DEF NotDue, Dial, Visit
<1>7. ASSUME NEW s \in Sessions, DialTakes(s) PROVE Kept'
  BY <1>7 DEF DialTakes, Answered, Forgive
<1>8. ASSUME NEW s \in Sessions, DialFails(s) PROVE Kept'
  BY <1>8 DEF DialFails, Answered, Owe
<1>9. ASSUME NEW d \in Suspends, Suspend(d) PROVE Kept'
  BY <1>9 DEF Suspend
<1>10. ASSUME NEW s \in Sessions, Drop(s) \/ Reconnect(s) \/ TemporaryBan(s) \/ LoggedOut(s)
       PROVE Kept'
  BY <1>10 DEF Drop, Reconnect, TemporaryBan, LoggedOut
<1>11. ASSUME NEW s \in Sessions, Pair(s) \/ failPending(s) \/ completePairing(s) PROVE Kept'
  BY <1>11 DEF Pair, failPending, completePairing, Sharing
<1>12. ASSUME NEW s \in Sessions, HangUp(s) PROVE Kept'
  BY <1>12 DEF HangUp, Hung
<1>13. ASSUME NEW s \in Sessions, forget(s) PROVE Kept'
  BY <1>13 DEF forget, Sharing
<1>14. CASE UNCHANGED vars
  BY <1>14 DEF vars
<1> QED BY <1>1, <1>2, <1>3, <1>4, <1>5, <1>6, <1>7, <1>8, <1>9, <1>10, <1>11, <1>12, <1>13, <1>14
    DEF Next

\* "A failed dial leaves the session OWING one" (sessions.go:265-270): whatever drops, pairs,
\* hangs up and logs out between the steps of a round, a session in the map without a socket
\* owes a dial, but for those that one of the others closed: a failed dial at Start, failPending
\* behind the pairing, a permanent ending of WhatsApp's, an unlink.
THEOREM AFailedDialIsOwed == Spec => []GoneIsOwed
<1>1. Owing => GoneIsOwed
  BY DEF Owing
<1> QED BY <1>1, OwingInit, OwingStep, PTL DEF Spec

-----------------------------------------------------------------------------
(***************************************************************************)
(* No false suspend.  A round lasts its tick and the dials made in it, so  *)
(* the wall clock explains itself when all of them together end before     *)
(* SLEEP_GAP; the code does not see to it (RoundsEndInTime is about the    *)
(* deployment), and without it NeverMistaken is false.                     *)
(***************************************************************************)
Dials(n) == DialTime * n

RoundsEndInTime == IsFiniteSet(Sessions) /\ Dials(Cardinality(Sessions)) < SLEEP_GAP

\* What the round has taken so far, and what is left to dial in it.
RoundIsShort ==
  LET all == Dials(Cardinality(Sessions)) IN
  ~slept =>
    /\ phase = "closing" => since = 0
    /\ phase = "paying" => since + Dials(Cardinality(todo)) <= all
    /\ phase = "dialling" =>
         since + Dials(Cardinality(todo)) + (DialTime - dialled) <= all
    /\ phase = "sleeping" => since + nap <= SLEEP_TICK + all

LEMMA Products ==
  /\ Dials(0) = 0
  /\ \A n \in Nat : Dials(n) \in Nat /\ Dials(n + 1) = Dials(n) + DialTime
  /\ \A m, n \in Nat : m <= n => Dials(m) <= Dials(n)
<1>1. DialTime \in Nat
  BY RedialAssumption
<1>2. Dials(0) = 0
  BY <1>1 DEF Dials
<1>3. ASSUME NEW n \in Nat PROVE Dials(n) \in Nat /\ Dials(n + 1) = Dials(n) + DialTime
  BY <1>1 DEF Dials
<1>4. ASSUME NEW m \in Nat, NEW n \in Nat, m <= n PROVE Dials(m) <= Dials(n)
  BY <1>1, <1>4 DEF Dials
<1> QED BY <1>2, <1>3, <1>4

\* What a round's sessions may cost: no subset of them more, and one less without one of them.
LEMMA DialsOf ==
  ASSUME IsFiniteSet(Sessions), NEW T, T \subseteq Sessions
  PROVE  /\ Dials(Cardinality(T)) \in Nat
         /\ Dials(Cardinality(T)) <= Dials(Cardinality(Sessions))
         /\ \A s \in T : Dials(Cardinality(T \ {s})) + DialTime = Dials(Cardinality(T))
<1>1. IsFiniteSet(T) /\ Cardinality(T) <= Cardinality(Sessions)
  BY FS_Subset
<1>2. Cardinality(T) \in Nat /\ Cardinality(Sessions) \in Nat
  BY <1>1, FS_CardinalityType
<1>3. ASSUME NEW s \in T
      PROVE  Dials(Cardinality(T \ {s})) + DialTime = Dials(Cardinality(T))
  <2>1. Cardinality(T \ {s}) = Cardinality(T) - 1 /\ IsFiniteSet(T \ {s})
    BY <1>1, FS_RemoveElement
  <2>2. Cardinality(T \ {s}) \in Nat
    BY <2>1, FS_CardinalityType
  <2>3. Cardinality(T) = Cardinality(T \ {s}) + 1
    BY <1>2, <2>1
  <2> QED BY <2>2, <2>3, Products
<1> QED BY <1>1, <1>2, <1>3, Products

LEMMA ShortInit == Init => RoundIsShort
BY DEF Init, RoundIsShort

LEMMA ShortStep ==
  ASSUME IsFiniteSet(Sessions), TypeOK, RoundIsShort, [Next]_vars
  PROVE  RoundIsShort'
<1> DEFINE all == Dials(Cardinality(Sessions))
           left == Dials(Cardinality(todo))
<1> USE DEF watcher, debts, history, life
<1>1. /\ all \in Nat /\ left \in Nat /\ left <= all
      /\ \A s \in todo : Dials(Cardinality(todo \ {s})) \in Nat
                         /\ Dials(Cardinality(todo \ {s})) + DialTime = left
  <2>1. todo \subseteq Sessions
    BY DEF TypeOK
  <2>2. /\ all \in Nat /\ left \in Nat /\ left <= all
        /\ \A s \in todo : Dials(Cardinality(todo \ {s})) + DialTime = left
    BY <2>1, DialsOf
  <2>3. \A s \in todo : Dials(Cardinality(todo \ {s})) \in Nat
    BY <2>1, DialsOf
  <2> QED BY <2>2, <2>3
<1>2. /\ since \in Nat /\ nap \in Nat /\ nap <= SLEEP_TICK
      /\ dialled \in Nat /\ dialled <= DialTime /\ DialTime \in Nat /\ SLEEP_TICK \in Nat
  BY RedialAssumption DEF TypeOK
<1> HIDE DEF all, left
<1>3. /\ all = Dials(Cardinality(Sessions)) /\ left = Dials(Cardinality(todo))
      /\ Dials(Cardinality({})) = 0
  BY Products, FS_EmptySet DEF all, left
<1>4. ASSUME UNCHANGED <<slept, phase, since, todo, dialled, nap>> PROVE RoundIsShort'
  BY <1>4 DEF RoundIsShort
<1>5. ASSUME NEW s \in Sessions, NEW end \in {"up", "none"}, BootDial(s, end) PROVE RoundIsShort'
  BY <1>5 DEF BootDial, RoundIsShort
<1>6. CASE Watch
  BY <1>1, <1>2, <1>3, <1>6 DEF Watch, RoundIsShort
<1>7. CASE Round
  <2>1. due \subseteq Sessions
    BY DEF TypeOK
  <2>2. Dials(Cardinality(due)) \in Nat /\ Dials(Cardinality(due)) <= all
    BY <1>3, <2>1, DialsOf
  <2> QED BY <1>1, <1>2, <1>3, <1>7, <2>2 DEF Round, RoundIsShort
<1>8. ASSUME NEW s \in Sessions, Disconnect(s) PROVE RoundIsShort'
  BY <1>8 DEF Disconnect, RoundIsShort
<1>9. CASE Closed
  <2>1. due \subseteq Sessions
    BY DEF TypeOK
  <2>2. Dials(Cardinality(due)) \in Nat /\ Dials(Cardinality(due)) <= all
    BY <1>3, <2>1, DialsOf
  <2> QED BY <1>3, <1>9, <2>2 DEF Closed, RoundIsShort
<1>10. ASSUME NEW s \in Sessions, NobodyToPay(s) \/ NotDue(s) PROVE RoundIsShort'
  <2>1. /\ s \in todo /\ todo' = todo \ {s} /\ phase = "paying"
        /\ UNCHANGED <<slept, phase, since>>
    BY <1>10 DEF NobodyToPay, NotDue, Visit
  <2>2. ~slept => since + left <= all
    BY <1>3, <2>1 DEF RoundIsShort
  <2>3. ~slept => since + Dials(Cardinality(todo \ {s})) <= all
    BY <1>1, <1>2, <2>1, <2>2
  <2> QED BY <1>3, <2>1, <2>3 DEF RoundIsShort
<1>11. ASSUME NEW s \in Sessions, Dial(s) PROVE RoundIsShort'
  <2>1. /\ s \in todo /\ todo' = todo \ {s} /\ phase = "paying" /\ phase' = "dialling"
        /\ dialled' = 0 /\ UNCHANGED <<slept, since>>
    BY <1>11 DEF Dial, Visit
  <2>2. ~slept => since + left <= all
    BY <1>3, <2>1 DEF RoundIsShort
  <2>3. ~slept => since + Dials(Cardinality(todo \ {s})) + (DialTime - 0) <= all
    BY <1>1, <1>2, <2>1, <2>2
  <2> QED BY <1>3, <2>1, <2>3 DEF RoundIsShort
<1>12. ASSUME NEW s \in Sessions, DialTakes(s) \/ DialFails(s) PROVE RoundIsShort'
  <2>1. /\ phase = "dialling" /\ phase' = "paying" /\ UNCHANGED <<slept, since, todo>>
    BY <1>12 DEF DialTakes, DialFails, Answered
  <2>2. ~slept => since + left + (DialTime - dialled) <= all
    BY <1>3, <2>1 DEF RoundIsShort
  <2>3. ~slept => since + left <= all
    BY <1>1, <1>2, <2>2
  <2> QED BY <1>3, <2>1, <2>3 DEF RoundIsShort
<1>13. CASE Sleep
  <2>1. ~slept => since <= all
    BY <1>1, <1>2, <1>3, <1>13 DEF Sleep, RoundIsShort
  <2>2. /\ phase' = "sleeping" /\ nap' = SLEEP_TICK /\ UNCHANGED <<slept, since>>
    BY <1>13 DEF Sleep
  <2> QED BY <1>1, <1>2, <1>3, <2>1, <2>2 DEF RoundIsShort
<1>14. CASE Tick
  <2>1. UNCHANGED <<slept, phase, todo>>
    BY <1>14 DEF Tick
  <2>2. all \in Nat /\ left \in Nat
    BY <1>1
  <2>3. PICK t \in Nat : since' = t /\ t <= since + 1
    <3>1. Least(since + 1, Horizon) \in Nat /\ Least(since + 1, Horizon) <= since + 1
      BY <1>2, RedialAssumption DEF Least
    <3>2. since' = Least(since + 1, Horizon)
      BY <1>14 DEF Tick, Later
    <3> QED BY <3>1, <3>2
  <2>4. CASE phase = "sleeping"
    <3>1. PICK n \in Int : nap' = n /\ n = nap - 1
      BY <1>2, <1>14, <2>4 DEF Tick, Left
    <3>2. ~slept => since + nap <= SLEEP_TICK + all
      BY <1>3, <2>4 DEF RoundIsShort
    <3>3. ~slept => t + n <= SLEEP_TICK + all
      BY <1>2, <2>3, <2>2, <3>1, <3>2
    <3> QED BY <1>3, <2>1, <2>4, <2>3, <3>1, <3>3 DEF RoundIsShort
  <2>5. CASE phase = "dialling"
    <3>1. PICK n \in Int : dialled' = n /\ n = dialled + 1
      BY <1>2, <1>14, <2>5 DEF Tick
    <3>2. ~slept => since + left + (DialTime - dialled) <= all
      BY <1>3, <2>5 DEF RoundIsShort
    <3>3. ~slept => t + left + (DialTime - n) <= all
      BY <1>2, <2>3, <2>2, <3>1, <3>2
    <3> QED BY <1>3, <2>1, <2>5, <2>3, <3>1, <3>3 DEF RoundIsShort
  <2> QED BY <1>14, <2>4, <2>5 DEF Tick
<1>15. ASSUME NEW d \in Suspends, Suspend(d) PROVE RoundIsShort'
  BY <1>15 DEF Suspend, RoundIsShort
<1>16. ASSUME NEW s \in Sessions, Link(s) PROVE RoundIsShort'
  BY <1>4, <1>16 DEF Link, Drop, Reconnect, TemporaryBan, Pair, failPending, HangUp,
                     completePairing, LoggedOut, forget
<1>17. CASE UNCHANGED vars
  BY <1>4, <1>17 DEF vars
<1> QED BY <1>5, <1>6, <1>7, <1>8, <1>9, <1>10, <1>11, <1>12, <1>13, <1>14, <1>15, <1>16, <1>17 DEF Next, Link

LEMMA ShortAlways ==
  ASSUME IsFiniteSet(Sessions)
  PROVE  Spec => [](TypeOK /\ RoundIsShort)
<1>1. TypeOK /\ RoundIsShort /\ [Next]_vars => TypeOK' /\ RoundIsShort'
  BY TypeStep, ShortStep
<1> QED BY <1>1, TypeInit, ShortInit, PTL DEF Spec

\* Only a suspend turns a round into one that closes.
LEMMA OnlyASuspend ==
  ASSUME RoundsEndInTime, TypeOK, RoundIsShort, Round, phase' = "closing"
  PROVE  slept
<1>1. since >= SLEEP_TICK + SLEEP_GAP /\ phase = "sleeping" /\ nap = 0
  BY DEF Round, hostSlept
<1>2. Cardinality(Sessions) \in Nat /\ Dials(Cardinality(Sessions)) < SLEEP_GAP
  BY FS_CardinalityType DEF RoundsEndInTime
<1>3. /\ Dials(Cardinality(Sessions)) \in Nat /\ since \in Nat
      /\ SLEEP_TICK \in Nat /\ SLEEP_GAP \in Nat
  BY <1>2, Products, RedialAssumption DEF TypeOK
<1> QED BY <1>1, <1>2, <1>3 DEF RoundIsShort

\* "A slow tick is never mistaken for a suspend" (sessions.go:192-196), as long as the dials
\* of one round, one after another, end within SLEEP_GAP: any number of sessions, any ladder.
THEOREM SlowTicksAreNoSuspends ==
  ASSUME RoundsEndInTime
  PROVE  Spec => NeverMistaken
<1>1. TypeOK /\ RoundIsShort /\ [Next]_vars
        => [phase = "sleeping" /\ phase' = "closing" => slept]_vars
  <2> SUFFICES ASSUME TypeOK, RoundIsShort, Next, phase = "sleeping", phase' = "closing"
               PROVE  slept
    OBVIOUS
  <2>1. Round
    BY DEF Next, Watch, Closed, Sleep, Tick, BootDial, Disconnect, NobodyToPay, NotDue, Dial,
           Visit, DialTakes, DialFails, Answered, Drop, Reconnect, TemporaryBan, Pair,
           failPending, HangUp, completePairing, LoggedOut, forget, Suspend, watcher
  <2> QED BY <2>1, OnlyASuspend
<1>2. IsFiniteSet(Sessions)
  BY DEF RoundsEndInTime
<1> QED BY <1>1, <1>2, ShortAlways, PTL DEF Spec, NeverMistaken

-----------------------------------------------------------------------------
(***************************************************************************)
(* The spacing of dials.  A session that owes has climbed at least as many *)
(* rungs as it has failed in a row, and what it has waited and has still   *)
(* to wait make up the rung of its last failure.  A ladder starts anew     *)
(* only in a round that closes, and that one follows a suspend.            *)
(***************************************************************************)
WaitsItsRung ==
  /\ phase = "closing" => \A s \in Sessions : strikes[s] = 0
  /\ \A s \in due : strikes[s] <= owed[s]
  /\ \A s \in due : strikes[s] > 0 => asked[s] + dueIn[s] >= redialWait(strikes[s] - 1)

\* A higher rung is no shorter a wait, and no wait is past the horizon.
LEMMA Rungs ==
  /\ \A m, n \in Nat : m <= n => redialWait(m) <= redialWait(n)
  /\ \A n \in Nat : redialWait(n) \in Nat /\ redialWait(n) <= Horizon
<1>1. Len(REDIAL_BACKOFF) \in Nat /\ Len(REDIAL_BACKOFF) = Rung + 1 /\ Rung \in Nat
  BY RedialAssumption, Ladder DEF Rung
<1>2. ASSUME NEW n \in Nat PROVE Index(n) + 1 \in 1..Len(REDIAL_BACKOFF)
  <2>1. Index(n) \in 0..Rung
    BY Ladder
  <2> QED BY <1>1, <2>1
<1>3. \A m, n \in Nat : m <= n => Index(m) + 1 <= Index(n) + 1
  BY <1>1 DEF Index, Least
<1> QED BY <1>1, <1>2, <1>3, RedialAssumption, Ladder DEF redialWait

LEMMA WaitsInit == Init => WaitsItsRung
BY DEF Init, WaitsItsRung

\* A step that adds no debt and no strike, and moves no clock, keeps the spacing.
LEMMA WaitsStay ==
  ASSUME TypeOK, WaitsItsRung, due' \subseteq due,
         phase' = "closing" => phase = "closing",
         \A s \in Sessions : strikes'[s] \in {strikes[s], 0},
         \A s \in due' : owed'[s] = owed[s] /\ dueIn'[s] = dueIn[s] /\ asked'[s] = asked[s]
  PROVE  WaitsItsRung'
<1>1. Rung \in Nat /\ due \subseteq Sessions /\ \A s \in Sessions : owed[s] \in 0..(Rung + 1)
  BY Ladder DEF TypeOK
<1>2. \A s \in due' : strikes'[s] <= owed'[s]
  BY <1>1 DEF WaitsItsRung
<1> QED BY <1>1, <1>2 DEF WaitsItsRung

LEMMA WaitsRound ==
  ASSUME RoundsEndInTime, TypeOK, RoundIsShort, WaitsItsRung, Round
  PROVE  WaitsItsRung'
<1>1. /\ due' = due /\ owed' = owed /\ due \subseteq Sessions /\ since \in Nat
      /\ \A s \in Sessions : dueIn'[s] = Left(dueIn[s], since) /\ asked'[s] = Later(asked[s], since)
      /\ \A s \in Sessions : dueIn[s] \in Nat /\ asked[s] \in Nat /\ owed[s] \in 0..(Rung + 1)
      /\ \A s \in Sessions : strikes[s] \in 0..(Rung + 1)
      /\ \A s \in Sessions : strikes'[s] = IF slept THEN 0 ELSE strikes[s]
  BY DEF Round, TypeOK
<1>2. Rung \in Nat /\ Horizon \in Nat
  BY Ladder, RedialAssumption
<1>3. phase' = "closing" => \A s \in Sessions : strikes'[s] = 0
  BY <1>1, OnlyASuspend
<1>4. ASSUME NEW s \in due PROVE strikes'[s] <= owed'[s]
  BY <1>1, <1>2 DEF WaitsItsRung
<1>5. ASSUME NEW s \in due, strikes'[s] > 0
      PROVE  asked'[s] + dueIn'[s] >= redialWait(strikes'[s] - 1)
  <2>1. strikes'[s] = strikes[s] /\ strikes[s] - 1 \in Nat
    BY <1>1, <1>2, <1>5
  <2>2. /\ asked[s] + dueIn[s] >= redialWait(strikes[s] - 1)
        /\ redialWait(strikes[s] - 1) \in Nat /\ redialWait(strikes[s] - 1) <= Horizon
    BY <1>5, <2>1, Rungs DEF WaitsItsRung
  <2>3. \A w, a, d \in Nat : a + d >= w /\ w <= Horizon
          => Later(a, since) + Left(d, since) >= w
    BY <1>1, <1>2 DEF Later, Left, Least
  <2> QED BY <1>1, <2>1, <2>2, <2>3
<1> QED BY <1>1, <1>3, <1>4, <1>5 DEF WaitsItsRung

LEMMA WaitsFails ==
  ASSUME TypeOK, WaitsItsRung, NEW s \in Sessions, DialFails(s)
  PROVE  WaitsItsRung'
<1>1. /\ due' = due /\ due \subseteq Sessions /\ phase' = "paying"
      /\ owed[s] \in 0..(Rung + 1) /\ strikes[s] \in 0..(Rung + 1) /\ Rung \in Nat
      /\ dueIn'[s] = redialWait(owed[s]) /\ owed'[s] = OneMore(owed[s])
      /\ strikes'[s] = OneMore(strikes[s]) /\ asked'[s] = 0
      /\ \A r \in Sessions \ {s} : /\ dueIn'[r] = dueIn[r] /\ owed'[r] = owed[r]
                                   /\ strikes'[r] = strikes[r] /\ asked'[r] = asked[r]
  BY Ladder DEF DialFails, Answered, Owe, TypeOK
<1>2. ASSUME s \in due
      PROVE  /\ strikes'[s] <= owed'[s]
             /\ asked'[s] + dueIn'[s] >= redialWait(strikes'[s] - 1)
  <2>1. strikes[s] <= owed[s]
    BY <1>2 DEF WaitsItsRung
  <2>2. strikes'[s] <= owed'[s]
    BY <1>1, <2>1 DEF OneMore, Least
  <2>3. PICK n \in Nat : strikes'[s] - 1 = n /\ n <= owed[s]
    BY <1>1, <2>1 DEF OneMore, Least
  <2>4. redialWait(n) <= redialWait(owed[s]) /\ redialWait(owed[s]) \in Nat
    BY <1>1, <2>3, Rungs
  <2> QED BY <1>1, <2>2, <2>3, <2>4
<1> QED BY <1>1, <1>2 DEF WaitsItsRung

LEMMA WaitsStep ==
  ASSUME RoundsEndInTime, Owing, RoundIsShort, WaitsItsRung, [Next]_vars
  PROVE  WaitsItsRung'
<1> USE DEF watcher, debts, history, life
<1>1. TypeOK
  BY DEF Owing
<1>2. CASE Round
  BY <1>1, <1>2, WaitsRound
<1>3. ASSUME NEW s \in Sessions, DialFails(s) PROVE WaitsItsRung'
  BY <1>1, <1>3, WaitsFails
<1>4. ASSUME NEW s \in Sessions, Disconnect(s) PROVE WaitsItsRung'
  <2>1. /\ due' = due \union {s} /\ due \subseteq Sessions /\ owed'[s] = 0 /\ phase = "closing"
        /\ \A r \in Sessions : owed[r] \in 0..(Rung + 1) /\ owed'[r] \in {0, owed[r]}
        /\ UNCHANGED <<strikes, asked, phase>>
    BY <1>1, <1>4, Ladder DEF Disconnect, TypeOK
  <2>2. \A r \in Sessions : strikes[r] = 0 /\ strikes'[r] = 0
    BY <2>1 DEF WaitsItsRung
  <2>3. \A r \in due' : strikes'[r] <= owed'[r]
    BY <2>1, <2>2, Ladder
  <2> QED BY <2>1, <2>2, <2>3 DEF WaitsItsRung
<1>5. ASSUME NEW s \in Sessions, NobodyToPay(s) \/ DialTakes(s) PROVE WaitsItsRung'
  <2>1. /\ due' = due \ {s} /\ due \subseteq Sessions /\ phase' = "paying"
        /\ \A r \in Sessions : strikes'[r] \in {strikes[r], 0} /\ asked'[r] = asked[r]
        /\ \A r \in Sessions \ {s} : owed'[r] = owed[r] /\ dueIn'[r] = dueIn[r]
    BY <1>1, <1>5 DEF NobodyToPay, DialTakes, Answered, Visit, Forgive, TypeOK
  <2> QED BY <1>1, <2>1, WaitsStay
<1>6. ASSUME NEW s \in Sessions, Reconnect(s) PROVE WaitsItsRung'
  <2>1. /\ \A r \in Sessions : strikes'[r] \in {strikes[r], 0}
        /\ UNCHANGED <<due, owed, dueIn, asked, phase>>
    BY <1>1, <1>6 DEF Reconnect, TypeOK
  <2> QED BY <1>1, <2>1, WaitsStay
<1>7. ASSUME \/ Watch \/ Closed \/ Sleep \/ Tick \/ UNCHANGED vars
             \/ \E s \in Sessions : \/ \E end \in {"up", "none"} : BootDial(s, end)
                                    \/ NotDue(s) \/ Dial(s) \/ (Link(s) /\ ~Reconnect(s))
             \/ \E d \in Suspends : Suspend(d)
      PROVE  WaitsItsRung'
  <2>1. /\ UNCHANGED <<due, owed, dueIn, asked, strikes>>
        /\ phase' = "closing" => phase = "closing"
    BY <1>7 DEF Watch, Closed, Sleep, Tick, vars, BootDial, NotDue, Dial, Visit, Link, Drop,
                TemporaryBan, Pair, failPending, HangUp, completePairing, LoggedOut, forget,
                Suspend
  <2> QED BY <1>1, <2>1, WaitsStay
<1> QED BY <1>2, <1>3, <1>4, <1>5, <1>6, <1>7 DEF Next, Link

\* "Backing off so a session refused for a lasting reason is not dialled every ten seconds"
\* (sessions.go:269-270): n dials failed in a row are followed by the n-th wait of the ladder,
\* for any ladder that does not descend and as long as no round is mistaken for a suspend.
THEOREM DialsAreSpaced ==
  ASSUME RoundsEndInTime
  PROVE  Spec => Spaced
<1>1. IsFiniteSet(Sessions)
  BY DEF RoundsEndInTime
<1>2. Owing /\ RoundIsShort /\ WaitsItsRung /\ [Next]_vars => WaitsItsRung'
  BY WaitsStep
<1>3. Owing /\ WaitsItsRung /\ [Next]_vars
        => [\A s \in target' \ target :
              strikes[s] > 0 => asked[s] >= redialWait(strikes[s] - 1)]_vars
  <2> SUFFICES ASSUME Owing, WaitsItsRung, Next, NEW s \in target' \ target, strikes[s] > 0
               PROVE  asked[s] >= redialWait(strikes[s] - 1)
    OBVIOUS
  <2>1. PICK r \in Sessions : Dial(r)
    <3>1. ASSUME NEW r \in Sessions, ~Dial(r),
                 \/ \E end \in {"up", "none"} : BootDial(r, end)
                 \/ Disconnect(r) \/ NobodyToPay(r) \/ NotDue(r)
                 \/ Dial(r) \/ DialTakes(r) \/ DialFails(r) \/ Link(r)
          PROVE  target' \subseteq target
      BY <3>1 DEF BootDial, Disconnect, NobodyToPay, NotDue, DialTakes, DialFails, Answered,
                  Link, Drop, Reconnect, TemporaryBan, Pair, failPending, HangUp,
                  completePairing, LoggedOut, forget, watcher
    <3>2. Watch \/ Round \/ Closed \/ Sleep \/ Tick \/ (\E d \in Suspends : Suspend(d))
            => target' = target
      BY DEF Watch, Round, Closed, Sleep, Tick, Suspend
    <3> QED BY <3>1, <3>2 DEF Next, Link
  <2>2. s = r /\ s \in due /\ dueIn[s] = 0 /\ asked[s] \in Nat
    BY <2>1 DEF Dial, Visit, Owing, SnapshotIsEnough, TypeOK
  <2> QED BY <2>2 DEF WaitsItsRung
<1>4. Owing /\ [Next]_vars => Owing'
  BY OwingStep
<1> QED BY <1>1, <1>2, <1>3, <1>4, OwingInit, WaitsInit, ShortAlways, PTL DEF Spec, Spaced
=============================================================================
