------------------------------- MODULE Redial -------------------------------
(***************************************************************************)
(* How a session's socket comes back: the dials of Manager.Start and the   *)
(* debts of watchForResume (sessions.go), beside whatsmeow's own           *)
(* reconnects and beside everybody else who closes a socket: WhatsApp, by  *)
(* unlinking the device or barring the number, and failPending, late.      *)
(*                                                                         *)
(* The watcher compares the wall clock of two rounds; whatever it compares *)
(* is relative to the later one, so time is kept that way: since is the    *)
(* wall clock past the last round, dueIn what was left of a wait at that   *)
(* round.  Time passes while the watcher sleeps and while it dials, one    *)
(* session after another; a suspend of the host moves the wall clock only. *)
(***************************************************************************)
EXTENDS Integers, Sequences, FiniteSets

CONSTANTS
  Sessions,        \* Session objects, one per device
  AddressOf,       \* the address each has, or will have once paired
  SLEEP_TICK,      \* the watcher's sleep, in ticks
  SLEEP_GAP,       \* how far past it the wall clock has run if the host slept
  REDIAL_BACKOFF,  \* the ladder of waits, in ticks
  DialTime,        \* the longest Connect, in ticks
  Suspends,        \* lengths of a suspend
  Stored,          \* the sets of devices Start may find in whatsmeow's container
  Barrable,        \* the sessions whose connection WhatsApp may end for good
  Horizon,         \* beyond it no comparison of the code tells times apart
  MaxSuspends      \* bound: how often the host is suspended

ASSUME RedialAssumption ==
  /\ DOMAIN AddressOf = Sessions
  /\ SLEEP_TICK \in Nat
  /\ SLEEP_GAP \in Nat
  /\ REDIAL_BACKOFF \in Seq(Nat)
  /\ REDIAL_BACKOFF # << >>
  /\ DialTime \in Nat
  /\ Suspends \subseteq Nat
  /\ Stored \subseteq SUBSET Sessions
  /\ Horizon \in Nat
  /\ Horizon >= SLEEP_TICK + SLEEP_GAP
  /\ \A n \in 1..Len(REDIAL_BACKOFF) : Horizon >= REDIAL_BACKOFF[n]
  /\ \A m, n \in 1..Len(REDIAL_BACKOFF) : m <= n => REDIAL_BACKOFF[m] <= REDIAL_BACKOFF[n]
  /\ MaxSuspends \in Nat

VARIABLES
  sessions,   \* m.sessions
  sock,       \* each client's socket
  phase,      \* control state of Start, then of watchForResume
  todo,       \* the sessions its loop has still to visit
  target,     \* the sessions being dialled: one or none
  seen,       \* the round's snapshot of m.sessions
  due,        \* the sessions that owe a dial
  dueIn,      \* when, from the last round on
  owed,       \* the dials already failed, up to one past the last rung
  nap,        \* what is left of time.Sleep(SLEEP_TICK)
  since,      \* the wall clock past the last round
  dialled,    \* how long the running Connect has taken
  stage,      \* "new"; "linked", PairSuccess on its way; "paired", it has its address
  unlinked,   \* sessions whose device WhatsApp, or a Logout, has deleted
  leaving,    \* of these, the ones forget has still to drop
  hanging,    \* sessions failPending will disconnect: its goroutine has yet to run
  suspends,   \* bounded by MaxSuspends
  slept,      \* history: the host was suspended since the last round
  adrift,     \* history: sessions whose socket somebody took who owes them no dial
  strikes,    \* history: dials failed in a row since a dial took or a round followed a suspend
  asked       \* history: from the round of the last failed dial to the last round

watcher == <<phase, todo, target, seen, nap, since, dialled>>
debts   == <<due, dueIn, owed>>
life    == <<stage, unlinked, leaving, hanging>>
history == <<slept, adrift, strikes, asked>>
vars    == <<sessions, sock, watcher, debts, life, suspends, history>>

\* No socket: "none" if nothing dials, "retrying" while whatsmeow's own reconnect runs.  A
\* socket: "up", or "deaf" if it died with the host asleep and only a keepalive would tell.
IsConnected(s) == sock[s] \in {"up", "deaf"}

Rung    == Len(REDIAL_BACKOFF) - 1
Least(m, n) == IF m <= n THEN m ELSE n

\* Mutant of Index: redialWait without its min.
Index_Unclamped(n) == n

\* The rung redialWait takes for n failed dials, counted from 0.
Index(n) == Least(n, Rung)
redialWait(n) == REDIAL_BACKOFF[Index(n) + 1]

\* One more failed dial.  The code's count has no end; past the ladder it tells none apart.
OneMore(n) == Least(n + 1, Rung + 1)

Later(t, d) == Least(t + d, Horizon)
Left(t, d)  == IF d <= t THEN t - d ELSE 0

Init ==
  /\ sessions = {}
  /\ sock = [s \in Sessions |-> "none"]
  /\ phase = "booting"
  /\ todo \in Stored
  /\ target = {}
  /\ seen = {}
  /\ due = {}
  /\ dueIn = [s \in Sessions |-> 0]
  /\ owed = [s \in Sessions |-> 0]
  /\ nap = 0
  /\ since = 0
  /\ dialled = 0
  /\ stage = [s \in Sessions |-> IF s \in todo THEN "paired" ELSE "new"]
  /\ unlinked = {}
  /\ leaving = {}
  /\ hanging = {}
  /\ suspends = 0
  /\ slept = FALSE
  /\ adrift = {}
  /\ strikes = [s \in Sessions |-> 0]
  /\ asked = [s \in Sessions |-> 0]

-----------------------------------------------------------------------------
\* m.sessions has one session per address: the last one put there.
Sharing(s) == {r \in sessions : AddressOf[r] = AddressOf[s]}

\* Start registers each stored device and dials it once; a failure is logged.
BootDial(s, end) ==
  /\ phase = "booting"
  /\ s \in todo
  /\ todo' = todo \ {s}
  /\ sessions' = (sessions \ Sharing(s)) \union {s}
  /\ sock' = [sock EXCEPT ![s] = end]
  /\ adrift' = IF end = "up" THEN adrift ELSE adrift \union {s}
  /\ UNCHANGED <<phase, target, seen, nap, since, dialled, debts, life, suspends,
                 slept, strikes, asked>>

Watch ==
  /\ phase = "booting"
  /\ todo = {}
  /\ phase' = "sleeping"
  /\ nap' = SLEEP_TICK
  /\ since' = 0
  /\ slept' = FALSE
  /\ UNCHANGED <<sessions, sock, todo, target, seen, dialled, debts, life, suspends,
                 adrift, strikes, asked>>

-----------------------------------------------------------------------------
\* Mutant of hostSlept: any time past the tick itself is a suspend.
hostSlept_NoGap(elapsed) == elapsed >= SLEEP_TICK

hostSlept(elapsed) == elapsed >= SLEEP_TICK + SLEEP_GAP

\* A round begins: the clock is read, the sessions are listed.
Round ==
  /\ phase = "sleeping"
  /\ nap = 0
  /\ seen' = sessions
  /\ since' = 0
  /\ slept' = FALSE
  /\ dueIn' = [s \in Sessions |-> Left(dueIn[s], since)]
  /\ asked' = [s \in Sessions |-> Later(asked[s], since)]
  /\ strikes' = IF slept THEN [s \in Sessions |-> 0] ELSE strikes
  /\ IF hostSlept(since)
     THEN phase' = "closing" /\ todo' = sessions
     ELSE phase' = "paying" /\ todo' = due
  /\ UNCHANGED <<sessions, sock, target, owed, nap, dialled, due, life, suspends,
                 adrift>>

\* What Client.Disconnect leaves of a socket: none, but a reconnect of whatsmeow's own that
\* is under way may outlive it.
Hung(s) == {"none"} \union (IF sock[s] = "retrying" THEN {"retrying"} ELSE {})

\* The host woke: every socket is closed and owes a dial.
Disconnect(s) ==
  /\ phase = "closing"
  /\ s \in todo
  /\ todo' = todo \ {s}
  /\ \E end \in Hung(s) : sock' = [sock EXCEPT ![s] = end]
  /\ due' = due \union {s}
  /\ dueIn' = [dueIn EXCEPT ![s] = 0]
  /\ owed' = [owed EXCEPT ![s] = 0]
  /\ adrift' = adrift \ {s}
  /\ UNCHANGED <<sessions, phase, target, seen, nap, since, dialled, life, suspends,
                 slept, strikes, asked>>

Closed ==
  /\ phase = "closing"
  /\ todo = {}
  /\ phase' = "paying"
  /\ todo' = due
  /\ UNCHANGED <<sessions, sock, target, seen, nap, since, dialled, debts, life,
                 suspends, history>>

\* The debt of s is over.
Forgive(s) ==
  /\ due' = due \ {s}
  /\ dueIn' = [dueIn EXCEPT ![s] = 0]
  /\ owed' = [owed EXCEPT ![s] = 0]

Visit(s) == phase = "paying" /\ s \in todo /\ todo' = todo \ {s}

\* s was logged out while it owed, or whatsmeow got there first.
\* (Its mutant looks for a socket the wrong way round.)
NobodyToPay_Swapped(s) ==
  /\ Visit(s)
  /\ s \notin seen \/ (dueIn[s] = 0 /\ ~IsConnected(s))
  /\ Forgive(s)
  /\ UNCHANGED <<sessions, sock, phase, target, seen, nap, since, dialled, life,
                 suspends, history>>

NobodyToPay(s) ==
  /\ Visit(s)
  /\ s \notin seen \/ (dueIn[s] = 0 /\ IsConnected(s))
  /\ Forgive(s)
  /\ UNCHANGED <<sessions, sock, phase, target, seen, nap, since, dialled, life,
                 suspends, history>>

NotDue(s) ==
  /\ Visit(s)
  /\ s \in seen /\ dueIn[s] > 0
  /\ UNCHANGED <<sessions, sock, phase, target, seen, nap, since, dialled, debts, life,
                 suspends, history>>

\* Connect blocks the watcher; the other sessions of the round wait for it.
Dial(s) ==
  /\ Visit(s)
  /\ s \in seen /\ dueIn[s] = 0 /\ ~IsConnected(s)
  /\ phase' = "dialling"
  /\ target' = {s}
  /\ dialled' = 0
  /\ UNCHANGED <<sessions, sock, seen, nap, since, debts, life, suspends, history>>

\* Connect returns: the watcher goes on with the round.
Answered(s) ==
  /\ phase = "dialling"
  /\ s \in target
  /\ phase' = "paying"
  /\ target' = {}
  /\ UNCHANGED <<sessions, todo, seen, nap, since, dialled, life, suspends, slept>>

DialTakes(s) ==
  /\ Answered(s)
  /\ ~IsConnected(s)
  /\ sock' = [sock EXCEPT ![s] = "up"]
  /\ strikes' = [strikes EXCEPT ![s] = 0]
  /\ adrift' = adrift \ {s}
  /\ Forgive(s)
  /\ UNCHANGED asked

\* Mutants of Owe: a failed dial is an ending; the wait is not counted up.
Owe_Ends(s) == Forgive(s)
Owe_Flat(s) ==
  /\ dueIn' = [dueIn EXCEPT ![s] = redialWait(0)]
  /\ UNCHANGED <<due, owed>>

Owe(s) ==
  /\ dueIn' = [dueIn EXCEPT ![s] = redialWait(owed[s])]
  /\ owed' = [owed EXCEPT ![s] = OneMore(@)]
  /\ UNCHANGED due

\* So does a dial that finds the socket whatsmeow opened meanwhile.
DialFails(s) ==
  /\ Answered(s)
  /\ Owe(s)
  /\ strikes' = [strikes EXCEPT ![s] = OneMore(@)]
  /\ asked' = [asked EXCEPT ![s] = 0]
  /\ UNCHANGED <<sock, adrift>>

Sleep ==
  /\ phase = "paying"
  /\ todo = {}
  /\ phase' = "sleeping"
  /\ nap' = SLEEP_TICK
  /\ UNCHANGED <<sessions, sock, todo, target, seen, since, dialled, debts, life,
                 suspends, history>>

-----------------------------------------------------------------------------
(***************************************************************************)
(* The clock and the host; whatsmeow; pairing and logout.                  *)
(***************************************************************************)
Tick ==
  /\ \/ phase = "sleeping" /\ nap > 0
     \/ phase = "dialling" /\ dialled < DialTime
  /\ nap' = Left(nap, 1)
  /\ dialled' = IF phase = "dialling" THEN dialled + 1 ELSE dialled
  /\ since' = Later(since, 1)
  /\ UNCHANGED <<sessions, sock, phase, todo, target, seen, debts, life, suspends, history>>

Suspend(d) ==
  /\ suspends < MaxSuspends
  /\ suspends' = suspends + 1
  /\ since' = Later(since, d)
  /\ sock' = [s \in Sessions |-> IF sock[s] = "up" THEN "deaf" ELSE sock[s]]
  /\ slept' = TRUE
  /\ UNCHANGED <<sessions, phase, todo, target, seen, nap, dialled, debts, life,
                 adrift, strikes, asked>>

\* The socket drops, or keepalives find it dead.  whatsmeow reconnects by itself, for as
\* long as there is a device to log in with.
Drop(s) ==
  /\ IsConnected(s)
  /\ sock' = [sock EXCEPT ![s] = IF s \in unlinked THEN "none" ELSE "retrying"]
  /\ UNCHANGED <<sessions, watcher, debts, life, suspends, history>>

Reconnect(s) ==
  /\ sock[s] = "retrying"
  /\ sock' = [sock EXCEPT ![s] = "up"]
  /\ adrift' = adrift \ {s}
  /\ strikes' = [strikes EXCEPT ![s] = 0]
  /\ UNCHANGED <<sessions, watcher, debts, life, suspends, slept, asked>>

\* WhatsApp bars the number "for a while": it ends the stream and whatsmeow, told so, does
\* not dial again.  handleEvent posts the ban and does no more; of whatsmeow's other permanent
\* endings (stream replaced, client outdated), the same to the socket, it takes no notice.
TemporaryBan(s) ==
  /\ s \in Barrable \ unlinked
  /\ sock[s] = "up"
  /\ sock' = [sock EXCEPT ![s] = "none"]
  /\ adrift' = adrift \union {s}
  /\ UNCHANGED <<sessions, watcher, debts, life, suspends, slept, strikes, asked>>

-----------------------------------------------------------------------------
(***************************************************************************)
(* Pairing and its failure (Sessions has them in detail), and logout.      *)
(***************************************************************************)
\* CreateSession has opened a socket and the account links the device on it.
Pair(s) ==
  /\ phase # "booting"
  /\ stage[s] = "new"
  /\ stage' = [stage EXCEPT ![s] = "linked"]
  /\ sock' = [sock EXCEPT ![s] = "up"]
  /\ UNCHANGED <<sessions, watcher, debts, unlinked, leaving, hanging, suspends, history>>

\* failPending, of an earlier Disconnected or StreamError, has read no address and still the
\* status "pending": the Disconnect is left to a goroutine, whenever that runs.
failPending(s) ==
  /\ stage[s] = "linked"
  /\ hanging' = hanging \union {s}
  /\ UNCHANGED <<sessions, sock, watcher, debts, stage, unlinked, leaving, suspends, history>>

HangUp(s) ==
  /\ s \in hanging
  /\ hanging' = hanging \ {s}
  /\ \E end \in Hung(s) :
       /\ sock' = [sock EXCEPT ![s] = end]
       /\ adrift' = IF end = "none" /\ sock[s] # "none" THEN adrift \union {s} ELSE adrift
  /\ UNCHANGED <<sessions, watcher, debts, stage, unlinked, leaving, suspends, slept, strikes,
                 asked>>

\* Its event may have been on its way when the socket was closed: nobody asks.
completePairing(s) ==
  /\ stage[s] = "linked"
  /\ stage' = [stage EXCEPT ![s] = "paired"]
  /\ sessions' = (sessions \ Sharing(s)) \union {s}
  /\ UNCHANGED <<sock, watcher, debts, unlinked, leaving, hanging, suspends, history>>

\* The phone unlinks the device or a Logout does: whatsmeow deletes it and closes the socket.
LoggedOut(s) ==
  /\ sock[s] = "up"
  /\ s \notin unlinked
  /\ unlinked' = unlinked \union {s}
  /\ leaving' = leaving \union {s}
  /\ sock' = [sock EXCEPT ![s] = "none"]
  /\ UNCHANGED <<sessions, watcher, debts, stage, hanging, suspends, history>>

\* Once the event is posted, the map forgets the session's address, whoever has it now.
forget(s) ==
  /\ s \in leaving
  /\ leaving' = leaving \ {s}
  /\ sessions' = IF stage[s] = "paired" THEN sessions \ Sharing(s) ELSE sessions
  /\ UNCHANGED <<sock, watcher, debts, stage, unlinked, hanging, suspends, history>>

-----------------------------------------------------------------------------
Next ==
  \/ Watch \/ Round \/ Closed \/ Sleep \/ Tick
  \/ \E s \in Sessions :
       \/ \E end \in {"up", "none"} : BootDial(s, end)
       \/ Disconnect(s) \/ NobodyToPay(s) \/ NotDue(s)
       \/ Dial(s) \/ DialTakes(s) \/ DialFails(s)
       \/ Drop(s) \/ Reconnect(s) \/ TemporaryBan(s)
       \/ Pair(s) \/ failPending(s) \/ HangUp(s) \/ completePairing(s)
       \/ LoggedOut(s) \/ forget(s)
  \/ \E d \in Suspends : Suspend(d)

Spec == Init /\ [][Next]_vars

(***************************************************************************)
(* The watcher's goroutine runs and its clock advances, a LoggedOut is     *)
(* handled, and whatsmeow's own reconnect, while it runs, gets through in  *)
(* the end.  A dial of the bridge's may fail any number of times, but of   *)
(* the dials made for ever some one takes; a session that is never dialled *)
(* is owed nothing by this.                                                *)
(***************************************************************************)
FairSpec ==
  /\ Spec
  /\ WF_vars(Watch) /\ WF_vars(Round) /\ WF_vars(Closed) /\ WF_vars(Sleep) /\ WF_vars(Tick)
  /\ \A s \in Sessions :
       /\ WF_vars(\E end \in {"up", "none"} : BootDial(s, end))
       /\ WF_vars(Disconnect(s))
       /\ WF_vars(NobodyToPay(s) \/ NotDue(s) \/ Dial(s))
       /\ WF_vars(DialTakes(s) \/ DialFails(s))
       /\ SF_vars(DialTakes(s))
       /\ WF_vars(Reconnect(s)) /\ WF_vars(forget(s))

-----------------------------------------------------------------------------
(***************************************************************************)
(* Properties.                                                             *)
(***************************************************************************)
\* The shape of the state; however many dials have failed, the next wait is a rung of the
\* ladder (redialWait).
TypeOK ==
  /\ sessions \subseteq Sessions
  /\ sock \in [Sessions -> {"none", "retrying", "up", "deaf"}]
  /\ phase \in {"booting", "sleeping", "closing", "paying", "dialling"}
  /\ todo \subseteq Sessions
  /\ target \subseteq Sessions
  /\ (target # {}) = (phase = "dialling")
  /\ seen \subseteq Sessions
  /\ due \subseteq Sessions
  /\ dueIn \in [Sessions -> Nat]
  /\ owed \in [Sessions -> 0..(Rung + 1)]
  /\ \A s \in Sessions : Index(owed[s]) \in 0..Rung
  /\ nap \in 0..SLEEP_TICK
  /\ since \in Nat
  /\ dialled \in 0..DialTime
  /\ stage \in [Sessions -> {"new", "linked", "paired"}]
  /\ unlinked \subseteq Sessions
  /\ leaving \subseteq unlinked
  /\ hanging \subseteq Sessions
  /\ suspends \in 0..MaxSuspends
  /\ slept \in BOOLEAN
  /\ adrift \subseteq Sessions
  /\ strikes \in [Sessions -> 0..(Rung + 1)]
  /\ asked \in [Sessions -> Nat]

\* "A dial that fails is not an ending ... a failed dial leaves the session OWING one"
\* (sessions.go:265-270): a session in the map whose socket is gone and that nothing in
\* whatsmeow dials owes a dial, however pairings, reconnects and other closings fall into the
\* watcher's rounds.  Owed by nobody are the sockets the watcher neither closed nor failed to
\* dial: a dial that failed at Start, one failPending closed behind the pairing, one that
\* WhatsApp ended for good (adrift), and one whose device is unlinked.
GoneIsOwed ==
  \A s \in sessions : sock[s] = "none" => s \in due \union adrift \union unlinked

\* "Sessions that already paired are left alone" (sessions.go:542-545): failPending's
\* Disconnect does not close the socket of a session that is in the map by then.
PairedAreLeftAlone ==
  [][\A s \in sessions \intersect (hanging \ hanging') : sock'[s] = sock[s]]_vars

\* "a slow tick is never mistaken for a suspend" (sessions.go:192-196): sockets are closed
\* only in a round since whose last one the host was suspended.
NeverMistaken == [][phase = "sleeping" /\ phase' = "closing" => slept]_vars

\* "backing off so a session refused for a lasting reason is not dialled every ten seconds"
\* (sessions.go:269-270): a session that failed n dials in a row, with no suspend before the
\* round of any of them, is dialled again no sooner than the n-th rung after the round of the
\* last one.
Spaced ==
  [][\A s \in target' \ target : strikes[s] > 0 => asked[s] >= redialWait(strikes[s] - 1)]_vars

\* "every tick pays the debt until it takes" (sessions.go:269): a session whose socket a
\* round closed is connected again or logged out, and only then is the debt gone.
ComesBack ==
  \A s \in Sessions : s \in due ~> s \notin due /\ (IsConnected(s) \/ s \notin sessions)

\* "A dial that fails is not an ending" (sessions.go:265), of every dial the manager makes:
\* a session without a socket is connected again, or logged out.
NoDialIsAnEnding == \A s \in Sessions : s \in sessions ~> IsConnected(s) \/ s \notin sessions
=============================================================================
