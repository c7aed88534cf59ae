------------------------------ MODULE Sessions ------------------------------
(***************************************************************************)
(* The life of a session: pairing, the map by address, the mapping row,    *)
(* logout and restart (sessions.go and handleEvent in events.go).          *)
(*                                                                         *)
(* Each element of Devices is one CreateSession, the whatsmeow device it   *)
(* makes and the Session object about it.  Several devices may belong to   *)
(* one account, hence to one address.  whatsmeow runs each event's         *)
(* handlers in a goroutine of its own, so the handlers of one session run  *)
(* side by side, and beside the requests of the HTTP server.  The sockets  *)
(* of paired sessions are Redial's: here a live client hears its events.   *)
(***************************************************************************)
EXTENDS Integers, FiniteSets

CONSTANTS
  Devices,     \* one per call of CreateSession
  Addresses,   \* the accounts' numbers
  AddressOf,   \* the account that links each device
  Handlers,    \* the events that find a session without an address: PairSuccess, Connected
  NoDevice,    \* not a device
  MaxCrashes   \* bound: how often the process dies

ASSUME SessionsAssumption ==
  /\ AddressOf \in [Devices -> Addresses]
  /\ NoDevice \notin Devices
  /\ MaxCrashes \in Nat

VARIABLES
  up,         \* "down"; "booting" in Manager.Start; "up"
  todo,       \* the devices Start has still to register
  crashes,    \* bounded by MaxCrashes
  device,     \* whatsmeow's side: linked devices are in its container, on disk
  client,     \* the devices that have a Session object in this process
  closed,     \* linked devices whose client failPending disconnected
  known,      \* session.Address and session.DeviceJID are set
  sessions,   \* m.sessions
  mapping,    \* bridge_sessions: the devices that have a row
  status,     \* pending.status; "none" without a PendingSession
  pending,    \* m.pending
  pairing,    \* control state of the handlers that complete a pairing
  failing,    \* control state of failPending
  leaving,    \* control state of the LoggedOut handler
  asked,      \* the session each Logout request got from the map
  logout      \* control state of the Logout request of each address

process  == <<up, todo, crashes>>
memory   == <<client, closed, known, sessions>>
polling  == <<status, pending>>
handlers == <<pairing, failing, leaving>>
requests == <<asked, logout>>
vars     == <<process, device, memory, mapping, polling, handlers, requests>>

Init ==
  /\ up = "up"
  /\ todo = {}
  /\ crashes = 0
  /\ device = [d \in Devices |-> "new"]
  /\ client = {}
  /\ closed = {}
  /\ known = {}
  /\ sessions = [a \in Addresses |-> NoDevice]
  /\ mapping = {}
  /\ status = [d \in Devices |-> "none"]
  /\ pending = {}
  /\ pairing = [x \in Devices \X Handlers |-> "idle"]
  /\ failing = [d \in Devices |-> "idle"]
  /\ leaving = [d \in Devices |-> "idle"]
  /\ asked = [a \in Addresses |-> NoDevice]
  /\ logout = [a \in Addresses |-> "idle"]

\* The client of d has a socket on which WhatsApp's events arrive.
Hears(d) == d \in client \ closed

-----------------------------------------------------------------------------
(***************************************************************************)
(* CreateSession.  A code is out, or the attempt fails: no socket, no QR   *)
(* code within 15 s, no phone code.  Either way its PendingSession is in   *)
(* the map, from which those three TTLs old are dropped on the way; any    *)
(* earlier one may be.                                                     *)
(***************************************************************************)
CreateSession(d) ==
  /\ up = "up"
  /\ device[d] = "new"
  /\ \E outcome \in {"pairing", "abandoned"} : device' = [device EXCEPT ![d] = outcome]
  /\ client' = client \union {d}
  /\ status' = [status EXCEPT ![d] = "pending"]
  /\ \E old \in SUBSET pending : pending' = (pending \ old) \union {d}
  /\ UNCHANGED <<process, closed, known, sessions, mapping, handlers, requests>>

\* What a poll of PendingState answers, before or after pendingTTL.
state(d, late) == IF status[d] = "pending" /\ late THEN "error" ELSE status[d]

\* The account scans or types the code: whatsmeow stores the device.
Pair(d) ==
  /\ Hears(d)
  /\ device[d] = "pairing"
  /\ device' = [device EXCEPT ![d] = "linked"]
  /\ UNCHANGED <<process, memory, mapping, polling, handlers, requests>>

\* Mutant of QRFails: an event of the QR channel overwrites any status.
QRFails_Unchecked(d) ==
  /\ Hears(d)
  /\ device[d] \in {"pairing", "linked"}
  /\ status[d] # "none"
  /\ status' = [status EXCEPT ![d] = "error"]
  /\ UNCHANGED <<process, device, memory, mapping, pending, handlers, requests>>

\* The QR channel ends with a timeout or an error.
QRFails(d) ==
  /\ Hears(d)
  /\ device[d] \in {"pairing", "linked"}
  /\ status[d] = "pending"
  /\ status' = [status EXCEPT ![d] = "error"]
  /\ UNCHANGED <<process, device, memory, mapping, pending, handlers, requests>>

-----------------------------------------------------------------------------
(***************************************************************************)
(* failPending: Disconnected and StreamError of a session without an       *)
(* address.  The address is read without a lock, the status under its own, *)
(* and the Disconnect runs in a goroutine.                                 *)
(***************************************************************************)
FailPending(d) ==
  /\ Hears(d)
  /\ device[d] \in {"pairing", "linked"}
  /\ failing[d] = "idle"
  /\ d \notin known
  /\ status[d] # "none"
  /\ failing' = [failing EXCEPT ![d] = "deciding"]
  /\ UNCHANGED <<process, device, memory, mapping, polling, pairing, leaving, requests>>

FailDecides(d) ==
  /\ failing[d] = "deciding"
  /\ IF status[d] = "pending"
     THEN /\ status' = [status EXCEPT ![d] = "error"]
          /\ failing' = [failing EXCEPT ![d] = "disconnecting"]
     ELSE /\ failing' = [failing EXCEPT ![d] = "idle"]
          /\ UNCHANGED status
  /\ UNCHANGED <<process, device, memory, mapping, pending, pairing, leaving, requests>>

FailDisconnects(d) ==
  /\ failing[d] = "disconnecting"
  /\ failing' = [failing EXCEPT ![d] = "idle"]
  /\ IF device[d] = "pairing"
     THEN device' = [device EXCEPT ![d] = "abandoned"] /\ UNCHANGED closed
     ELSE closed' = closed \union {d} /\ UNCHANGED device
  /\ UNCHANGED <<process, client, known, sessions, mapping, polling, pairing, leaving, requests>>

-----------------------------------------------------------------------------
(***************************************************************************)
(* completePairing, by the handler h of a session whose address was empty  *)
(* when the handler looked: two handlers may both have found it so.        *)
(***************************************************************************)
At(d, h, step) == pairing[<<d, h>>] = step
Goto(d, h, step) == pairing' = [pairing EXCEPT ![<<d, h>>] = step]

\* Mutant of HandleLinked: whether the device has an identity yet is not asked.
HandleLinked_AnyDevice(d, h) ==
  /\ d \in client
  /\ At(d, h, "idle")
  /\ IF d \in known THEN Goto(d, h, "over") ELSE Goto(d, h, "naming")
  /\ UNCHANGED <<process, device, memory, mapping, polling, failing, leaving, requests>>

\* The event may have been on its way when the client was disconnected.
HandleLinked(d, h) ==
  /\ d \in client
  /\ device[d] = "linked"
  /\ At(d, h, "idle")
  /\ IF d \in known THEN Goto(d, h, "over") ELSE Goto(d, h, "naming")
  /\ UNCHANGED <<process, device, memory, mapping, polling, failing, leaving, requests>>

SetAddress(d, h) ==
  /\ At(d, h, "naming")
  /\ Goto(d, h, "registering")
  /\ known' = known \union {d}
  /\ UNCHANGED <<process, device, client, closed, sessions, mapping, polling, failing, leaving,
                 requests>>

Register(d, h) ==
  /\ At(d, h, "registering")
  /\ Goto(d, h, "flipping")
  /\ sessions' = [sessions EXCEPT ![AddressOf[d]] = d]
  /\ UNCHANGED <<process, device, client, closed, known, mapping, polling, failing, leaving,
                 requests>>

Flip(d, h) ==
  /\ At(d, h, "flipping")
  /\ Goto(d, h, "saving")
  /\ status' = [status EXCEPT ![d] = "paired"]
  /\ UNCHANGED <<process, device, memory, mapping, pending, failing, leaving, requests>>

\* A save that fails is logged; the post of "connected" that follows changes nothing here.
SaveMapping(d, h) ==
  /\ At(d, h, "saving")
  /\ Goto(d, h, "over")
  /\ \E saved \in BOOLEAN : mapping' = IF saved THEN mapping \union {d} ELSE mapping
  /\ UNCHANGED <<process, device, memory, polling, failing, leaving, requests>>

completePairing(d, h) == \/ SetAddress(d, h) \/ Register(d, h) \/ Flip(d, h)
                         \/ SaveMapping(d, h)

-----------------------------------------------------------------------------
(***************************************************************************)
(* The end of a session: the phone unlinks the device (LoggedOut, which    *)
(* whatsmeow sends with the device already deleted), or a Logout request.  *)
(***************************************************************************)
\* forget's first half: the entry of the session's address, whoever has it.
ForgetEntry(d) ==
  sessions' = IF d \in known THEN [sessions EXCEPT ![AddressOf[d]] = NoDevice] ELSE sessions

\* Mutant of DeleteMapping: the rows of the address, not the row of the device.
DeleteMapping_ByAddress(d) ==
  \/ mapping' = {e \in mapping : AddressOf[e] # AddressOf[d]}
  \/ UNCHANGED mapping

\* forget's second half; the delete may fail.
DeleteMapping(d) == mapping' = mapping \ {d} \/ UNCHANGED mapping

LoggedOut(d) ==
  /\ Hears(d)
  /\ device[d] = "linked"
  /\ device' = [device EXCEPT ![d] = "gone"]
  /\ leaving' = [leaving EXCEPT ![d] = "forgetting"]
  /\ UNCHANGED <<process, memory, mapping, polling, pairing, failing, requests>>

\* The post of "logged_out" comes first and takes as long as it takes.
Forget(d) ==
  /\ leaving[d] = "forgetting"
  /\ ForgetEntry(d)
  /\ leaving' = [leaving EXCEPT ![d] = IF d \in known THEN "deleting" ELSE "idle"]
  /\ UNCHANGED <<process, device, client, closed, known, mapping, polling, pairing, failing,
                 requests>>

Delete(d) ==
  /\ leaving[d] = "deleting"
  /\ DeleteMapping(d)
  /\ leaving' = [leaving EXCEPT ![d] = "idle"]
  /\ UNCHANGED <<process, device, memory, polling, pairing, failing, requests>>

Logout(a) ==
  /\ up = "up"
  /\ logout[a] = "idle"
  /\ sessions[a] # NoDevice
  /\ asked' = [asked EXCEPT ![a] = sessions[a]]
  /\ logout' = [logout EXCEPT ![a] = "asking"]
  /\ UNCHANGED <<process, device, memory, mapping, polling, handlers>>

\* The request ends: what it got is of no use any more.
Done(a) ==
  /\ logout' = [logout EXCEPT ![a] = "idle"]
  /\ asked' = [asked EXCEPT ![a] = NoDevice]

\* Mutant of LogoutRefused: a session that could not be logged out is forgotten all the same.
LogoutRefused_Forgets(a) ==
  /\ logout[a] = "asking"
  /\ logout' = [logout EXCEPT ![a] = "forgetting"]
  /\ UNCHANGED <<process, device, memory, mapping, polling, handlers, asked>>

\* Client.Logout fails: no socket, no answer, or no device any more.
LogoutRefused(a) ==
  /\ logout[a] = "asking"
  /\ Done(a)
  /\ UNCHANGED <<process, device, memory, mapping, polling, handlers>>

LogoutTaken(a) ==
  /\ logout[a] = "asking"
  /\ Hears(asked[a])
  /\ device[asked[a]] = "linked"
  /\ device' = [device EXCEPT ![asked[a]] = "gone"]
  /\ logout' = [logout EXCEPT ![a] = "forgetting"]
  /\ UNCHANGED <<process, memory, mapping, polling, handlers, asked>>

LogoutForgets(a) ==
  /\ logout[a] = "forgetting"
  /\ ForgetEntry(asked[a])
  /\ logout' = [logout EXCEPT ![a] = "deleting"]
  /\ UNCHANGED <<process, device, client, closed, known, mapping, polling, handlers, asked>>

LogoutDeletes(a) ==
  /\ logout[a] = "deleting"
  /\ DeleteMapping(asked[a])
  /\ Done(a)
  /\ UNCHANGED <<process, device, memory, polling, handlers>>

-----------------------------------------------------------------------------
(***************************************************************************)
(* The process.                                                            *)
(***************************************************************************)
\* It dies, or Start gives up because the store fails: the disk has whatsmeow's
\* devices and the mapping rows.  A pairing that had not linked its device is over.
Crash ==
  /\ up # "down"
  /\ crashes < MaxCrashes
  /\ crashes' = crashes + 1
  /\ up' = "down"
  /\ todo' = {}
  /\ device' = [d \in Devices |-> IF device[d] = "pairing" THEN "abandoned" ELSE device[d]]
  /\ client' = {}
  /\ closed' = {}
  /\ known' = {}
  /\ sessions' = [a \in Addresses |-> NoDevice]
  /\ status' = [d \in Devices |-> "none"]
  /\ pending' = {}
  /\ pairing' = [x \in Devices \X Handlers |->
                   IF device[x[1]] = "new" THEN "idle" ELSE "over"]
  /\ failing' = [d \in Devices |-> "idle"]
  /\ leaving' = [d \in Devices |-> "idle"]
  /\ asked' = [a \in Addresses |-> NoDevice]
  /\ logout' = [a \in Addresses |-> "idle"]
  /\ UNCHANGED mapping

Start ==
  /\ up = "down"
  /\ up' = "booting"
  /\ todo' = {d \in Devices : device[d] = "linked"}
  /\ UNCHANGED <<crashes, device, memory, mapping, polling, handlers, requests>>

\* Mutant of Boot: an address that has a session keeps it, the device is skipped.
Boot_FirstComes(d) ==
  /\ up = "booting"
  /\ d \in todo
  /\ todo' = todo \ {d}
  /\ IF d \in mapping /\ sessions[AddressOf[d]] = NoDevice
     THEN /\ client' = client \union {d}
          /\ known' = known \union {d}
          /\ sessions' = [sessions EXCEPT ![AddressOf[d]] = d]
     ELSE UNCHANGED <<client, known, sessions>>
  /\ UNCHANGED <<up, crashes, device, closed, mapping, polling, handlers, requests>>

\* A stored device is registered under its mapping, or skipped for lack of one.
Boot(d) ==
  /\ up = "booting"
  /\ d \in todo
  /\ todo' = todo \ {d}
  /\ IF d \in mapping
     THEN /\ client' = client \union {d}
          /\ known' = known \union {d}
          /\ sessions' = [sessions EXCEPT ![AddressOf[d]] = d]
     ELSE UNCHANGED <<client, known, sessions>>
  /\ UNCHANGED <<up, crashes, device, closed, mapping, polling, handlers, requests>>

Serve ==
  /\ up = "booting"
  /\ todo = {}
  /\ up' = "up"
  /\ UNCHANGED <<todo, crashes, device, memory, mapping, polling, handlers, requests>>

-----------------------------------------------------------------------------
Pending(d) == \/ CreateSession(d) \/ Pair(d) \/ QRFails(d)
              \/ FailPending(d) \/ FailDecides(d) \/ FailDisconnects(d)
Leave(d)   == LoggedOut(d) \/ Forget(d) \/ Delete(d)
Request(a) == \/ Logout(a) \/ LogoutRefused(a) \/ LogoutTaken(a)
              \/ LogoutForgets(a) \/ LogoutDeletes(a)

Next ==
  \/ \E d \in Devices : Pending(d) \/ Leave(d) \/ Boot(d)
  \/ \E d \in Devices, h \in Handlers : HandleLinked(d, h) \/ completePairing(d, h)
  \/ \E a \in Addresses : Request(a)
  \/ Crash \/ Start \/ Serve

Spec == Init /\ [][Next]_vars

-----------------------------------------------------------------------------
(***************************************************************************)
(* Properties.                                                             *)
(***************************************************************************)
Steps == {"idle", "naming", "registering", "flipping", "saving", "over"}

\* The shape of the state.  Only a device that was linked has an address, and a request has
\* a session in hand exactly while it runs.
TypeOK ==
  /\ up \in {"down", "booting", "up"}
  /\ todo \subseteq Devices
  /\ crashes \in 0..MaxCrashes
  /\ device \in [Devices -> {"new", "pairing", "abandoned", "linked", "gone"}]
  /\ client \subseteq Devices
  /\ closed \subseteq client
  /\ known \subseteq {d \in client : device[d] \in {"linked", "gone"}}
  /\ sessions \in [Addresses -> Devices \union {NoDevice}]
  /\ mapping \subseteq Devices
  /\ status \in [Devices -> {"none", "pending", "paired", "error"}]
  /\ pending \subseteq client
  /\ pairing \in [Devices \X Handlers -> Steps]
  /\ failing \in [Devices -> {"idle", "deciding", "disconnecting"}]
  /\ leaving \in [Devices -> {"idle", "forgetting", "deleting"}]
  /\ asked \in [Addresses -> Devices \union {NoDevice}]
  /\ logout \in [Addresses -> {"idle", "asking", "forgetting", "deleting"}]
  /\ \A a \in Addresses : logout[a] = "idle" <=> asked[a] = NoDevice

\* Another device of the account took the entry of d, or took it away by being unlinked.
Displaced(d) ==
  \E e \in Devices \ {d} : /\ AddressOf[e] = AddressOf[d]
                           /\ sessions[AddressOf[d]] = e \/ device[e] = "gone"

\* A pairing the poll calls paired, and a device with a mapping once the bridge has started,
\* is dispatched to by its address (register, completePairing, Start) for as long as
\* it is linked, unless another device of the same account displaced it.
Reachable ==
  \A d \in Devices :
    up = "up" /\ device[d] = "linked" /\ (status[d] = "paired" \/ d \in mapping)
      => d \in client /\ (sessions[AddressOf[d]] = d \/ Displaced(d))

\* "so boot stops looking for a device that no longer exists" (sessions.go:661-663): the
\* row of a device is deleted only once whatsmeow deleted the device, by an unlink or a
\* Logout that took; a linked device keeps its row whatever becomes of its siblings.
OnlyTheGoneAreForgotten == [][\A d \in mapping \ mapping' : device[d] = "gone"]_vars

\* A pairing that was told as paired is never told otherwise, by a late QR timeout, a stream
\* error or the TTL (state, failPending, CreateSession's goroutine), while the process lives.
PairedStays ==
  [][\A d \in pending \intersect pending', late \in BOOLEAN :
       state(d, late) = "paired" => state(d, late)' = "paired"]_vars

\* "forget drops everything this bridge keeps about a session whose device is gone: ... the
\* live entry" (sessions.go:661-664): an entry leaves the map when its own device is gone.
ForgetsItsOwn ==
  [][\A a \in Addresses : sessions[a] # NoDevice /\ sessions'[a] = NoDevice
       => up' = "down" \/ device[sessions[a]] = "gone"]_vars
=============================================================================
