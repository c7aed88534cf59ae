# Verification of open-bsp-whatsmeow

TLA+ modules that model the bridge between WhatsApp (through whatsmeow) and
open-bsp-api, the TLC configurations that check them, and TLAPS proofs about
them. Line numbers refer to the Go files of this repository.

## 1. The system

| part | state | operations | interacts with |
|---|---|---|---|
| **outbox** (`outbox.go`, tables of `store.go`) | `bridge_outbox` (durable), one lane goroutine and one-slot channel per address, per lane `failed`, `faultSince` | `Deliver`, `wake`, `drain`, `head`, `remove`, `Start` | called by every handler; posts to the webhook with `postJSON` |
| **offline drain** (`sessions.go` 202-230, `events.go` 90-100, 703-733, 1056-1067) | per session `draining`, `offlineHeld` | `beginDrain`, `holdOffline`, `endDrain`, `flushOffline`, `drainDeadline` | holds messages back from the outbox |
| **redial** (`sessions.go` 154-335) | `owed`, `due` of the watcher, `last` | `Start`, `watchForResume` | `m.sessions`, whatsmeow's sockets |
| **sessions, pairing** (`sessions.go`) | `m.sessions`, `m.pending`, pending status, `bridge_sessions` mapping | `CreateSession`, `completePairing`, `failPending`, `Logout`, `forget` | whatsmeow's container, lifecycle events |
| **intake** (`events.go`) | addressing modes, groups sent, group names | `handleMessage`, `handleReceipt`, `handleProtocolMessage`, `handleSecretEncrypted` | polls, identity, drain, outbox |
| **identity** (`ids.go`, `events.go` 147-212, 415-449) | whatsmeow's LID map (external) | `canonicalUser`, `externalID`, `authorSegment`, `keySender` | every handler |
| **polls** (`polls.go`, `store.go` 270-387) | `bridge_polls`, `bridge_poll_votes` | `rememberPoll`, `seedVotes`, `pollVote`, `PollResults` | intake, history |
| **groups** (`groups.go`, `events.go` 1014-1036) | subject cache, `groupsSent` | change feed, subject fetch, management calls | intake, HTTP |
| **mentions** (`server.go` 389-464, `sessions.go` 60-86) | `addrMode` per chat | `encodeMentions`, `chatSpeaksLID`, `noteAddressingMode` | intake, groups, dispatch |
| **history** (`history.go`) | none | `handleHistorySync` in a goroutine of its own | outbox, polls |
| **dispatch** (`server.go`) | none | `handleDispatch` and its builders | `Get`, whatsmeow, the dispatcher's retries |
| **interactive** (`interactive.go`) | `bridge_interactive` | `rememberInteractive`, `pressFor` | intake, dispatch |
| formatting, media, contacts, HTTP, config | none of interest | | |

What makes it hard: whatsmeow acks a message before the handler sees it, so
whatever a handler drops is gone; handlers, history imports, group fetches, the
deadlines of drains, lanes, the watcher and HTTP requests are goroutines of
their own over shared maps; the process may die at any step; the receiver may be
slow, failing, or finish a request its caller gave up on; the host may sleep.

What correctness means, per part: *outbox*: nothing durable is lost, order per
session, every row settles. *Drain*: an offline queue is one arrival, posted once,
soon, and nothing of it is lost. *Redial*: no session stays without a socket and
without a dial owed, and live sockets are left alone, but for what section 3 names. *Sessions*: a live session is
reachable by its address and survives a restart, and a status told is true.
*Polls*: a tally is of each voter's last pick, whatever the order of arrival.
*Identity*: two events about one message name one row. *Groups*: the name messages carry
is the group's, and a change of members moves who was asked for. *Dispatch*: what is
answered is what happened, a permanent answer is permanent, and every row gets one.
*Mentions*: people are named in the chat's own namespace. *Interactive*: a reply presses
what it names.

The full list of hazards, each at its line, is `hazards` in `PROJECT.json`.

## 2. Modules

| module | models | kind |
|---|---|---|
| `Outbox` | the durable outbox | state machine |
| `DeliveryChannel` | what the outbox promises: accepted, owed, settled in order | abstract specification |
| `OfflineDrain` | the hold on the offline queue of one session | state machine |
| `Arrivals` | the hold with the outbox behind it, from WhatsApp to the receiver | composes `OfflineDrain` and `DeliveryChannel` |
| `Redial` | first dials, debts and the watcher's rounds for several sessions | state machine |
| `Sessions` | pairing, the map by address, mapping rows, logout, restart | state machine |
| `Naming` | addresses, external ids and message keys | operators |
| `Intake` | one message and everything posted about it | state machine, over `Naming` |
| `Polls` | one poll, its votes and the tally told with each | state machine |
| `History` | one history import beside the live votes | state machine, composes `Polls` |
| `Groups` | one group's subject: cache, fetch, change feed, HTTP calls | state machine |
| `Dispatch` | one outgoing row, its requests and their answers | state machine |
| `Mentions` | the namespace of the mentions of a send | state machine, over `Naming` |
| `Interactive` | a message with choices and the replies to it | state machine |
| `Roster` | the routes that change who is in a group | state machine, over `Naming` |
| `Inbound`, `Outbound` | `Intake`, `History` and `Groups` beside one another; `Dispatch`, `Mentions`, `Interactive` and `Roster` | compositions without shared variables |
| `MCOutbox`, `MCOfflineDrain`, `MCArrivals`, `MCRedial`, `MCSessions`, `MCInbound`, `MCOutbound` | instances for TLC | |
| `OutboxProofs`, `OfflineDrainProofs`, `RedialProofs`, `SessionsProofs`, `IntakeProofs`, `HistoryProofs` | theorems of a state machine (`HistoryProofs`: also of `Polls`; `OfflineDrainProofs`: also of `Arrivals`) | |
| `InboundProofs` | theorems of `Groups` and `Inbound` | |
| `OutboundProofs` | theorems of `Dispatch`, `Mentions`, `Interactive`, `Roster` and `Outbound` | |

### Outbox

`Batches` are calls of `Deliver`, each with a control state (`inserting`, `waking`,
`signalling`, or `posting` when the store refused the insert); `lane[a]` is the
control state of the goroutine `drain` (`looking`, `waiting`, `posting`,
`removing`, `sleeping`); `store` is `bridge_outbox`, `id` its identity column.
An insert takes its id when it starts and is visible when it commits, so on
Postgres two inserts may commit in either order; `OneConnection` is SQLite,
whose pool has one connection. `Answer` chooses among HTTP statuses and "no
response" and applies `deliveryVerdict`; a post that got no response may still
be finished by the receiver, at once or much later (`late`, `FinishLate`). Reads,
inserts and deletes may fail. `Crash` loses everything but the table; `Start` wakes
the lanes that have rows before anything else runs.

Time is kept as ages (`age`, `faultAge`) that stop growing where the code stops
telling values apart, and as what is left of a sleep (`nap`).
`before`, `queued`, `fate` and `ownFault` are history variables:
no action reads them.

Abstracted: payloads; `json.Marshal` failing (nothing is written); a row's age is
counted from its commit and not from the `time.Now()` just before it;
statuses other than those of `Answers`, which has one or more of each verdict.

### OfflineDrain

WhatsApp sends `1..N` in order, each once; `Messages` are those of them the hold
takes, the others are edits, revokes and receipts. `Connect(k)` announces a queue
(`OfflineSyncPreview`), `Arrive` is a handler up to `holdOffline`, `Complete` is
`OfflineSyncCompleted`, and each announced queue has a deadline goroutine with the
steps *look under the lock*, *endDrain*, *Deliver*. The event loop is one
goroutine per client: it does nothing else while it has something in hand
(`loop`). `Drop` leaves the hold as it is; `Kill` leaves only the outbox.
`Deliver` is one step here: what happens after it is Outbox's.

### Arrivals

The two halves put together: whatever takes a batch in hand (`LoopTakes`, a deadline's
`DeadlineTakes`) begins a call of `DeliveryChannel`, and whatever delivers ends it (`Deliver`): the
store takes the batch, or refuses it and it is posted once, or nothing comes of it. The lanes move
by themselves (`Lanes`) and outlive the process, whose rows they are. Of the outbox nothing
is used but `DeliveryChannel`, which `Outbox` implements; the calls are all of one address. A call
begins when its batch is in hand, a little before `Deliver` runs, so fewer batches count as accepted
before it and less order is assumed than there is. `passed` is a history variable: what stood aside
(`Aside`) when a batch was taken in hand - what deadlines had, and for an edit, a revoke or a receipt
also what was held.

### Redial

`sock` is what whatsmeow has for a session: no socket, a socket, a socket that
died with the host asleep (`deaf`: `IsConnected` still says yes), or a reconnect of
its own. A round of `watchForResume` is `Round`, a `Disconnect` per
session if the host slept, and a visit to each debt in any order (Go's map order);
a `Connect` takes up to `DialTime` and everything else waits for it. `due`, `dueIn`
and `owed` are the two maps. Times are relative to the last round: that
is all the code compares. `AddressOf` lets two sessions have one address:
registering, pairing and forgetting replace and remove the map's entry by address.

Everybody else who closes a socket is there too: the link (`Drop`, after which whatsmeow
reconnects by itself), WhatsApp for good (`TemporaryBan`, which also stands for whatsmeow's other
permanent disconnects: to the socket they are the same), an unlinking or a `Logout` (`LoggedOut`,
and `forget` once the event is posted), and `failPending`. A session is paired in steps: `Pair` (the
device is linked on an open socket), `completePairing` (the map), and beside them `failPending`,
which has read no address and leaves the `Disconnect` to a goroutine (`HangUp`), whenever that
runs. `Stored` gives the sets of devices `Start` may find. `Index` is the `min` of `redialWait`
(and in `Outbox` of `deliveryWait`): a failure count goes on one past the last rung, where the code's
has no end, so that an index without its `min` would leave the ladder; `TypeOK` says that it does
not. `adrift` is a history variable: whose socket was taken by one who owes no dial.

### Sessions

Each of `Devices` is one `CreateSession` with the whatsmeow device and the
`Session` object it makes; devices of one account have one address. whatsmeow runs
the handlers of an event in a goroutine of their own, so `completePairing` is a chain
of steps (`SetAddress`, `Register`, `Flip`, `SaveMapping`) that each of `Handlers`
may run, beside the LoggedOut handler (`LoggedOut`, `Forget`, `Delete`), `failPending`
(`FailPending` reads the address without a lock, `FailDecides` the status under its
own, `FailDisconnects` runs later), the QR channel's goroutine and a `Logout` request per
address. `device` is whatsmeow's side and, with `mapping`, what is on disk; `Crash`
loses the rest, and `Start`, `Boot`, `Serve` are `Manager.Start` up to the HTTP server.

Abstracted: codes and their rotation; how old a pairing is (a poll may come before
or after `pendingTTL`, and any earlier pairing may be old enough for `CreateSession` to
drop it); posts of lifecycle events, which take time and change nothing the bridge keeps.
The socket of a paired session, who dials it and who closes it late, is Redial's: here a client has its
events until its device goes or `failPending` disconnects it.

### Naming and Intake

A person is an element of `People`, which also stands for their phone digits, and has a LID.
An address is bare digits or a JID: `canonicalUser`, `addressJID`, `chatSegment`,
`authorSegment`, `keySender`, `externalID` and `referencedKey` are the functions of
those names, over JIDs of a user and a server. The set of people in whatsmeow's LID map is
a parameter; the account's own LID is always in it. One handler reads the map at one
instant: a number filed between two lookups of one handler is left out.

`Intake` follows one message, any of `Messages`. It may arrive live, in an import, or be
our own send (`Live`, `Imported`, `Sent`), in any order and more than once; the edits,
revokes, reactions, votes, replies and receipts about it (`Keyed`, `Reply`, `Receipt`) come
from anybody in the chat with the key written in their frame, with or without the numbers
beside its LIDs, while `Learn` grows the map. `named` is the id of the first post that
makes the row. Contents are the kinds that meet different fates in `buildContent`.

### Polls and History

A vote takes three steps of the event loop (`ReadVote`, `KeepVote`, `TellVote`), each a
store call that may fail; the event loop is one goroutine per client, so there is one
`hand`. `History` is the import's goroutine: it reads `Feed` message by message, and a poll
in it is remembered in one step and its votes saved one by one in the next, so live votes
come in between. A row is known by its message's place in the feed. A restart loses the import
and what is in hand, and WhatsApp may deliver the vote in hand again. `taken` is a history variable: the votes the store accepted, in order.

Voters are addresses: a voter whose LID is mapped to a number between two votes has two of them,
and is counted under both (`polls.go` 105).

Abstracted: a hash is the option it stands for, and what DecryptPollVote needs is there; the
batch of push names (`history.go` 36-52), one post without state; rows in the outbox.

### Groups

WhatsApp's `subject` is a number that grows with each rename; `wire` is what the event
loop has yet to be given, announcements and messages. The loop notes a change and posts it in
two steps; the goroutine of a first message and the HTTP calls `handleGroup` and
`handleRenameGroup` ask, get an answer and note it at their own pace. That WhatsApp announces
our own renames to us like anybody's is an assumption; so is that it announces them in order.
`announced` and `overtaken` are history variables, and so is `failed`.

### Dispatch

One row of the consumer (`ask`: its type, content and the trouble with it), the dispatcher's
verdict on it (`row`), and the requests that run for it: the dispatcher waits for one at a
time, but one it hung up on runs on. The steps are the calls that take time: the checks,
the number lookup, storage and upload, each stanza. A call may fail for the link, a timeout, a
busy WhatsApp or a hang-up, and then WhatsApp may have taken the stanza or not (`Goes`,
`Take`); or it fails as nothing that `transientSendError` lists (`Unlisted`, say whatsmeow's own
store), which is answered 422. `Forget` ends the session at any moment, `Age` makes the minute of a status row pass.
External, from the comment at `server.go` 90-97: 2xx is done, 4xx failed for good, 5xx pending. A
request without the key (401, `server.go` 81-84) never reaches the handler and is left out.

### Mentions

One chat, of each server. WhatsApp moves a group to LIDs (`Migrate`) between any two messages;
the bridge notes the mode of each message it is given and of each `GetGroupInfo` answer, which
`handleGroup`, `handleRemoveMembers` or a send to an unknown chat asked for earlier.
`heardLid` and `behind` are history variables.

### Interactive

A message's buttons carry a kind, an id and a title; `Folded` is EqualFold over trimmed
texts. `interactiveOf` is what is kept of them, `pressFor` what becomes of a reply. Abstracted:
the payload's wire encoding, and that a native flow's rows are nested in their button.

### Roster

`seated` is WhatsApp's roster, of a group that addresses by number or by LID. People come and
go between the reading of a roster and a removal, and between calls. A query may fail, be
refused, or be done with its answer lost. External: whom WhatsApp seats or takes out is any
subset of those asked; the numbers that a roster tells are filed by whatsmeow as it reads it.
The change feed's joined and left lists are read, posted and not kept, and are left out.

## 3. Runs

| run | bounds | checks |
|---|---|---|
| `outbox` | 2 batches, 1 lane, SQLite, windows 2 and 1, two rungs, 1 crash, fair | `TypeOK` `Accounting` `NoLoss` `NoLostWake` `ChargedItsOwnFault` `EveryRowSettles` `ImplementsChannel` |
| `outbox_order` | 3 batches, Postgres, 2 callers at once, no crash | `HoldsTheOldest` `LandsInOrder` |
| `drain` | the hold alone: 5 items (two of them not messages), 2 queues; with the outbox: 3 items (one not a message), 1 queue; 1 kill, fair | `TypeOK` `HoldIsWhole` `OnePlaceEach` `LandsAsSent` `HoldEnds` `HandedOnIsPosted` |
| `redial` | 2 sessions, one stored and one paired while the watcher runs, which may be barred; 2 rungs, dials of up to 1 tick, one suspend, short or long, fair | `TypeOK` `GoneIsOwed` `NeverMistaken` `Spaced` `ComesBack` |
| `sessions` | 2 devices of one account, 1 completing handler each, 1 crash | `TypeOK` `Reachable` `OnlyTheGoneAreForgotten` `PairedStays` |
| `inbound` | `Intake`: 3 people, 4 chats (group and direct, by LID and by number), 8 messages; `History` and `Polls`: 2 voters, 3 live votes, a feed of 4, batches of 2, 1 restart; `Groups`: 3 subjects, 2 messages, 2 processes | `InboundTypeOK` `PostsNameTheirRow` `IdsLeadBack` `OnlyTheLiveArm` `KeepsTheLatest` `ToldCountsIt` `ImportIsWhole` `SubjectIsHeard` `GroupIsNamed` |
| `outbound` | `Dispatch`: 23 rows, 2 requests at once, 2 faults; `Mentions`: 3 people, 3 messages; `Interactive`: 5 messages, 6 texts; `Roster`: 3 people, 2 named in a request | `OutboundTypeOK` `Accounted` `FailedForGood` `MentionsSpeakTheChat` `PressesWhatItNames` `MovesWhoWasAsked` `RowSettles` |
| `drain_strand`, `redial_mistaken`, `redial_boot`, `redial_hangup`, `sessions_forget` | the smallest that show it | see below |

Why these bounds: lanes share nothing but the table, and every statement about
rows is by address, so one lane is enough; two batches give a row and the row
behind it, and three the case where the middle one commits last. `outbox` has one caller of
`Deliver` at a time: on one connection inserts follow each other, and how two wakes meet is what the
theorem of `NoLostWake` covers for any number of callers; `outbox_order` has
two, which only Postgres lets commit out of order. Windows of one
and two ticks let them close before, between and after posts; two rungs
are a ladder and its repetition, and a count of one more is past it. Five items and two queues let a queue be cut by a
drop, or be completed, and be followed by another within its grace, with an
edit and a receipt in between; a third queue adds a third deadline and no new kind of
meeting of two. With the outbox behind it three items do, a message, its edit and a message: what
`LandsAsSent` relates is one batch and an older item; the theorem is about any number of them and of
queues. A round of two sessions has one that waits for the other's dial.
The two have addresses of their own: with a shared one they would replace each other in
the map, a case that only `GoneIsOwed` is about and its theorem covers. In Redial a tick is ten seconds: `SLEEP_TICK` is 1 and `SLEEP_GAP` 3
as in the code, a suspend is 1 (not noticed) or 4 (noticed), and the ladder is
shortened to its first rungs. Two devices of one account are the least
that can displace each other in the map; accounts share nothing else. A second
handler per device (PairSuccess and Connected both completing) multiplies the states
by ten and is left to the theorems, which hold for any set of handlers. The drain
and sessions runs do not check deadlock: a session whose link stays down, or all of
whose devices are gone, has nothing left to do.

`Inbound` and `Outbound` hold several components that share no variable in the models (in
the code they share whatsmeow's LID map, which each model moves at will). A variable
`scene`, chosen at the start, says which of them moves, so the states are the sum of
theirs and not the product. Intake follows one message because no statement relates two;
each of the eight is by the account or by another, in one kind of chat. Three subjects let a
rename come before a fetch asks, between its answer and its note, and after. Three live votes are
two of one voter at one instant and one without a time of its own, with an option the poll was not
seen with. Two faults let an answer be lost and the retry fail, or two sends be lost; a
third repeats them. The rows have each refusal of `handleDispatch` once. Three messages of a
chat let one by number and one by LID be noted in either order with an answer in between. Neither
run checks deadlock: a message that is told, a row with its verdict and a chat that fell
silent have nothing left to do.

### Disagreements the runs show

Each is a run that TLC must find violated, with the sentence it contradicts in
`findings`.

| run | what happens |
|---|---|
| `drain_strand` | the link drops mid-queue, the next queue's `beginDrain` discards what was held |
| `redial_mistaken` | a dial as long as `SLEEP_GAP` looks like a suspend to the next tick: every live socket is closed |
| `redial_boot` | a stored device's dial at `Start` fails and is owed by nobody; the session stays deaf while the host stays awake. whatsmeow's reconnects are fair and nothing drops for good: with a debt left by that dial the run passes |
| `redial_hangup` | `failPending` decides just before `completePairing`, its `Disconnect` runs just after: the socket of a paired session is closed, and owed by nobody |
| `sessions_forget` | an account is paired again, its old device is unlinked, and `forget` removes the new session's entry: a live session is answered as unknown until a restart |

More behaviours are in the models, because they are in the code, and have no run
of their own:

* `InsertFails`: a batch the store refuses is posted at once, past older rows still owed
  (`outbox.go:112`); `LandsInOrder` is about queued batches, and `LandsAsSent` names those
  that went past the store (`Bypassed`).
* `Faulted`, `Unreachable`: `faultSince` runs on through answers that are not 500
  (`outbox.go:197-214`), so a 500, an outage and a second 500 drop a row inside its
  delivery window.
* `Arrive`: an edit or receipt of an offline queue is durable before the held message
  it is about (`events.go:892`); `LandsAsSent` allows exactly this, and that a message never does it.
* `Flip`: a pairing reads as paired before its mapping is saved, where the comment at
  `sessions.go:414-416` has the order the other way; a save that fails is only logged, and
  `Boot` skips the device from then on.
* `TemporaryBan`: a ban posts an event and nothing more (`events.go` 71-88); whatsmeow does not dial
  after it, and neither does the watcher. `GoneIsOwed` names it (`adrift`), with a failed dial of
  `Start`, a late `Disconnect` of `failPending` and an unlinked device.
* `DeadlineLooks`: it asks whether some hold is open, not whether its own is
  (`events.go:724`), so a finished queue's deadline may cut the next queue in two.
* `Note`: a call that asked for a group's subject before a rename and notes its answer after it
  puts the old subject back, which messages then carry until the next change
  (`events.go:1025`, `groups.go:337`), where the comment at `events.go:123-124` says that messages
  after a change carry the name it now has. `SubjectIsHeard` allows exactly this.
* `SendUnanswered`: a failed `GetGroupInfo` writes mentions as numbers (`server.go:459-461`)
  into what may be a chat of LIDs, which `server.go:398-401` is there to avoid; so does a
  send before the first message after a move. `MentionsSpeakTheChat` is about the rest.
* `Status`: a status row retried after its minute is answered 200 with nothing sent
  (`server.go:261-268`); `Accounted` names it.
* `TakeOut`: a removal is answered 200 whatever WhatsApp said of each seat (`groups.go:455-468`),
  where an addition reads every seat.
* `groupErrorStatus` hands 429 on as a 4xx, which the split of `server.go` 90-97 calls permanent,
  while `transientSendError` retries it.
* `ImportMessage`: nothing records how far an import came; a restart loses the rest of it.

The two properties of the drain that do hold are stated around these losses:
`OnePlaceEach` counts what was discarded or killed as places of their own, so it says
that there is no third way to lose a message and none to post it twice.
`NeverMistaken` and `Spaced` hold in `redial` because there all the dials of
a round together are shorter than `SLEEP_GAP`; `redial_mistaken` shows that this is needed.

### Fairness

`Outbox`: goroutines run, the clock advances, a post ends (the HTTP client has a
timeout of 30 s, `openbsp.go:40`), a dead process is restarted by its supervisor, and
a store that fails some reads and deletes does not fail all of them for ever
(strong fairness of `Look` and `Remove`). Nothing is assumed of the receiver.
`OfflineDrain`: the event loop finishes its handler and deadlines wake; nothing is
assumed of WhatsApp or the link. `Redial`: the watcher runs, a logout's handler
gets to `forget`, whatsmeow's own reconnect, which retries by itself, gets through while it runs
(weak fairness of `Reconnect`), and a session that the bridge dials for ever is some time let through
(strong fairness of `DialTakes`). None of this grants anything to a session nobody dials.

`Groups`: the fetch goroutine runs and its call ends, answered or failed. `Dispatch`: a
handler runs on, because each of its calls ends (whatsmeow's queries and sends time out; storage
is assumed to answer, which `http.Get` at `server.go:702` does not enforce); the dispatcher posts a
pending row again; the link comes back (Redial's subject). Faults are finitely many: with
endless ones no row need settle.

## 4. Proofs

All for any values of the constants, with the named assumptions of the modules
(`OutboxAssumption`, `NamingAssumption`, `AddressAssumption` and so on); three theorems have one
hypothesis more, which is named with them.

* `OutboxProofs`: `TypeCorrect`, `NothingIsLost` (`NoLoss`), `LaneHoldsTheOldest`,
  `QueuedLandInOrder`, `IdsGrowWithTheCalls` (`Accounting`), `NoWakeIsLost`. Neither `NoLoss` nor
  `HoldsTheOldest` is inductive alone. Order needs that ids grow with the
  calls: what was accepted before a call has a smaller id and is committed, so
  it is visible to any later `head`, even when concurrent inserts commit out of
  order; that a lane's row is the least of the rows that were there when it looked
  and no older one can appear after; and that a post given up by its lane had its
  turn, so it may land late without overtaking anything. This is `Accounting`.
  From the same invariant (`Ordered`) follows the refinement, `OutboxImplementsChannel`: each step
  is a step of `DeliveryChannel` or a stutter, the late finish of a post that was given up included.
  `FaultIsItsOwn` (`ChargedItsOwnFault`) has the hypothesis `OneConnection`, which is SQLite: its
  invariant, `Charged`, says that ids are committed in their order and that a lane's `faultSince`
  is about the least row of its address. On Postgres a row with a smaller id may commit while the
  lane retries a younger one, and inherit its `faultSince`.
* `OfflineDrainProofs`: `TypeCorrect`, `QueueIsOneArrival` (`HoldIsWhole`), `EachItemOnce`
  (`OnePlaceEach`), `OnlyADeadlineIsOvertaken` (`OvertakenOnlyInADeadlinesHand`, which no run
  states: `LandsAsSent` is more). The last needs one fact
  beside the others: what a deadline has in hand is older than the hold opened since.
  `AnOpenHoldIsBounded` (`HoldHasADeadline`) is the safety half of `HoldEnds`: while a hold is open,
  a deadline that has not flushed yet is there to close it.
  Of `Arrivals`: `ReceivedAsSent` (`LandsAsSent`) joins the order in which the hold hands on with the
  order in which the channel settles. Its invariant, `Handed`, says of each batch in hand or
  accepted that all that came before it is accounted for: in it, in a batch accepted when it was
  taken in hand (`older`), aside then, or lost (`Backed`); that a batch in hand is of nothing
  delivered before (`HandsAreBatches`, `Durable`), so no verdict is known of it; and that once one is, its
  `older` batches are settled (`InTurn`). A deadline may flush while the event loop has an item
  in hand; that the item is then newer than the hold is `LoopIsNewer`. `NothingIsPostedTwice`
  (`EachInOneBatch`) follows from the same. `ArrivalsAreItsParts` is the composition's refinement of both
  its parts: the hold's theorems hold of the whole, and what the hold asks of the outbox is what
  `OutboxImplementsChannel` proves of it.
* `RedialProofs`: `TypeCorrect`, `AFailedDialIsOwed` (`GoneIsOwed`, with the four exceptions that
  it names: the sockets that the watcher neither closed nor failed to dial). A debt is forgiven
  by a snapshot older than the map, so the induction needs that no session of
  the map owes a dial the snapshot does not know of: only pairing adds to the map
  and what is not yet paired owes nothing; and that a socket is gone only by a hand the property names. `SlowTicksAreNoSuspends` (`NeverMistaken`) and
  `DialsAreSpaced` (`Spaced`) have the hypothesis `RoundsEndInTime`: the sessions are finitely many
  and a dial of each takes less than `SLEEP_GAP` together. Nothing in the code enforces it;
  it is about the deployment, and `redial_mistaken` shows that without it both fail. The
  invariants are `RoundIsShort`, which bounds the age of a round by the dials it has made,
  and `WaitsItsRung`, which ties each wait to the failures behind it. `RedialAssumption` says that
  the ladder does not descend, as `REDIAL_BACKOFF` does not (`sessions.go` 237-247).
* `SessionsProofs`: `TypeCorrect`, `PairedIsReachable` (`Reachable`), `RowsOutlastSiblings`
  (`OnlyTheGoneAreForgotten`), `ToldPairedForGood` (`PairedStays`). A linked device can
  lose its entry only to a sibling: whoever forgets has a device that is gone in hand
  (`EndsTheGone`) and an entry is always of its own address (`Named`), so what was found
  stays found or was displaced; the handlers between the map and the status, and Start
  between the disk and the map, are what `FoundAgain` adds.
* `IntakeProofs`: `PostsFindTheirRow` (`PostsNameTheirRow`), `IdsLeadToTheirAuthor` (`IdsLeadBack`),
  `OnlyTheLiveAreAnswered` (`OnlyTheLiveArm`). The invariant, `RowInv`, says of each id alone
  what the property says of two: it spells the message's chat and author, in one of the two
  ways a person is spelled, and in the plain way when it was written with the numbers on file.
  That is a fact about the operators: `Canonical` (a spelling of the right person), `Sources` (what
  an event's frame makes of its chat and sender) and `KeyNamesAuthor` (a key read in its
  writer's frame), each for any LID map. `AddressAssumption` says that digits are never
  mistaken for an address with a server.
* `HistoryProofs`: `LatestVoteIsKept` (`KeepsTheLatest`), with an import and a restart anywhere
  between the steps of the live votes. It is inductive with the types of the votes and the
  import's place (`Placed`): all the rest is what one upsert does (`SaveVoteKeeps`).
  `ToldVotesAreCounted` (`ToldCountsIt`) adds that a vote the event loop saved is among those taken
  until it is told (`KeptIsTaken`), and what a tally is: `Sorted` (a finite set with a strict
  total order can be listed in it) makes `PollResults` well defined, `ResultsAreThePicks` says who
  stands where. `ImportsAreWhole` (`ImportIsWhole`): what is due is cut into the batches
  handed over and the one being filled (`Cut`), which is never full (`Filling`).
* `InboundProofs`: `GroupNameIsTheSubject` (`SubjectIsHeard`). While announcements are on the
  way nothing need be current; the invariant says that the last of them is the subject
  (`LastIsSubject`), and that every name the bridge has, noted or in an answer still to be noted,
  is the subject, or older than something announced or coming (`LoopIsCurrent`,
  `AnswersAreKnown`, `NameIsKnown`).
* `OutboundProofs`: `MentionsInTheChatsNamespace` (`MentionsSpeakTheChat`), `APressIsOfItsButton`
  (`PressesWhatItNames`), `MovesOnlyWhoWasAsked` (`MovesWhoWasAsked`), `FailsForGoodOnly`
  (`FailedForGood`) and `TakesWhatItTells` (`Accounted`). The last two share `DispatchIInv`: the
  dispatcher waits for one request (`OneWaits`), a request is answered 4xx for a reason that lasts
  (`RefusedForAReason`), one answered 200 has sent everything (`AllServed`), and how often WhatsApp
  may still take a part, from the requests that run and from the attempt a pending row is owed,
  is paid for with faults (`PaidFor`). That potential is what bounds the copies of a message:
  the statement alone says nothing of a request whose caller hung up.

* Types: each state machine has a theorem of its type invariant (`TypeCorrect`, `IntakeTypeCorrect`,
  `HistoryTypeCorrect`, `GroupsTypeCorrect`, `MentionsTypeCorrect`, `InteractiveTypeCorrect`,
  `RosterTypeCorrect`, `DispatchTypeCorrect`). Most follow from the invariants above with the few
  variables these do not constrain; `IntakeTypeCorrect` is more than that, because that no id holds a
  LID's bare digits is again the fact about spellings (`SpellingsAreSegments`).
  `InboundTypeCorrect` (`InboundTypeOK`) and `OutboundTypeCorrect` (`OutboundTypeOK`) are about the
  compositions the two runs check: each component behaves in them as by itself
  (`EachArrivesByItself`, `EachLeavesByItself`), so all its theorems hold there.

Model-checked only: liveness (`EveryRowSettles`, `HoldEnds`, `HandedOnIsPosted`, `ComesBack`,
`GroupIsNamed`, `RowSettles`), which is out of the prover's reach. What four of them rest on is
proved: no wake-up is lost (`NoLostWake`), an open hold has a deadline (`HoldHasADeadline`), what is
in a deadline's hand it is about to post (`TypeOK`), and a session whose socket the watcher closed
or failed to dial is owed a dial (`GoneIsOwed`).

## 5. Plan

Every safety property of the runs is a theorem, for its component and for the composition the run is
about. What could be joined next, in the way `Arrivals` joins the hold and the outbox: `Groups`,
`Intake` and `OfflineDrain`, which in the code are one handler (`handleMessage`) and here follow the
subject, the id and the place of a message each on its own; and `Redial` with `Dispatch`, whose link
comes back because a dial is owed.

### Not modelled

* Link events (`connected`, `disconnected`, `logged_out`, `temporary_ban`): posted at once, outside the
  outbox, and dropped when the post fails. The bridge keeps nothing of them; what their order means is
  up to a receiver that is not in this repository.
* Markdown and vCards: string formatting, without state, and no statement here is about a text.
* Media transfer (`UploadMedia`, DownloadAny): input and output; what a failure does is modelled.
* Contacts and profiles: reads of whatsmeow's store. HTTP routing and authorization, configuration,
  `main`: stateless, or read once before anything runs.
* Migrations: run once at start, before any goroutine.
