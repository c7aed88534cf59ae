------------------------------- MODULE Roster -------------------------------
(***************************************************************************)
(* The routes that change who is in a group (groups.go 57-187, 371-491).   *)
(*                                                                         *)
(* The consumer names people as the bridge has posted them, or by number.  *)
(* A removal reads the roster first and sends each seat under the JID the  *)
(* group has it by, while people come and go and whatsmeow learns numbers. *)
(***************************************************************************)
EXTENDS Naming, Naturals, FiniteSets

CONSTANTS
  Junk,      \* what is neither digits nor a JID
  MaxWant,   \* bound: how many people a request names
  NoCall

VARIABLES
  byLid,     \* the group addresses its people by LID; it never changes
  seated,    \* WhatsApp: who is in the group
  listed,    \* the people in whatsmeow's LID map
  call,      \* the request being handled
  outcome    \* the answer just given and what it did, or NoCall

rosterVars == <<byLid, seated, listed, call, outcome>>

RosterInit ==
  /\ byLid \in BOOLEAN
  /\ seated \in {S \in SUBSET People : Me \in S}
  /\ listed = {Me}
  /\ call = NoCall
  /\ outcome = NoCall

\* A seat as GetGroupInfo writes it; `told` are the people whose other address comes along.
Seat(p, told) ==
  [JID         |-> IF byLid THEN LID(p) ELSE PN(p),
   PhoneNumber |-> IF ~byLid \/ p \in told THEN PN(p) ELSE NoJID,
   LID         |-> IF byLid \/ p \in told THEN LID(p) ELSE NoJID]

\* personOf, without the name: how a roster and a change write a person.
personOf(lids, seat) == canonicalUser(lids, seat.JID, seat.PhoneNumber)

-----------------------------------------------------------------------------
\* External: people come and go, and whatsmeow learns a number, from a roster it reads too.
Elsewhere == call' = call /\ outcome' = NoCall /\ UNCHANGED byLid
Come   == Elsewhere /\ UNCHANGED listed /\ \E p \in People \ seated : seated' = seated \union {p}
Go     == Elsewhere /\ UNCHANGED listed /\ \E p \in seated \ {Me} : seated' = seated \ {p}
Learns == Elsewhere /\ UNCHANGED seated /\ \E p \in People \ listed : listed' = listed \union {p}

-----------------------------------------------------------------------------
\* WhatsApp's own 4xx ride through, but its 401; the rest is the network.
GroupErrors == {"network", "IQ 401", "IQ 403", "IQ 404", "IQ 429", "IQ 500"}

\* Mutant of groupErrorStatus: its 401 rides through too.
groupErrorStatus_Unauthorized(err) ==
  CASE err = "IQ 401" -> 401
    [] err = "IQ 403" -> 403
    [] err = "IQ 404" -> 404
    [] err = "IQ 429" -> 429
    [] OTHER          -> 502

groupErrorStatus(err) ==
  IF err \in {"IQ 401", "IQ 403"} THEN 403
  ELSE IF err = "IQ 404" THEN 404
  ELSE IF err = "IQ 429" THEN 429
  ELSE 502

\* What may stand in a request: numbers, LIDs as they were posted before their number was
\* known, and neither.
Addresses == People \union {LID(p) : p \in People}

Request(kind) ==
  /\ call = NoCall /\ outcome = NoCall
  /\ \E want \in SUBSET (Addresses \union {Junk}) :
       /\ Cardinality(want) <= MaxWant
       /\ call' = [kind |-> kind, want |-> want, at |-> "arrived", seats |-> {}]
  /\ UNCHANGED <<byLid, seated, listed, outcome>>

\* The consumer reads the answer, and may ask again.
TakeAnswer ==
  /\ outcome # NoCall /\ outcome' = NoCall
  /\ UNCHANGED <<byLid, seated, listed, call>>

memberJIDs(want) == {addressJID(address) : address \in want}

Answered(code, moved, missing) ==
  /\ call' = NoCall
  /\ outcome' = [kind |-> call.kind, code |-> code, want |-> call.want,
                 moved |-> moved, missing |-> missing]

\* groupSession and memberJIDs refuse before WhatsApp is asked.
Refuse ==
  /\ call # NoCall /\ call.at = "arrived"
  /\ \E code \in {404, 503} \union (IF Junk \in call.want \/ call.want = {} THEN {422} ELSE {}) :
       Answered(code, {}, {})
  /\ UNCHANGED <<byLid, seated, listed>>

Ready(kind) ==
  call # NoCall /\ call.kind = kind /\ call.at = "arrived" /\ Junk \notin call.want /\ call.want # {}

Requested == {PersonBehind(address) : address \in call.want}

\* External: whom WhatsApp moves of those a query names, and the roster after it.
Movable ==
  CASE call.kind = "create" -> Requested
    [] call.kind = "add"    -> Requested \ seated
    [] OTHER                -> {p \in seated \ {Me} : {PN(p), LID(p)} \intersect call.seats # {}}

Reseat(people) ==
  seated' = CASE call.kind = "create" -> people \union {Me}
              [] call.kind = "add"    -> seated \union people
              [] OTHER                -> seated \ people

\* A query is refused, or its answer is lost, and then it may have been done.
QueryFails ==
  /\ Ready("create") \/ Ready("add") \/ Ready("remove") \/ (call # NoCall /\ call.at = "found")
  /\ \/ /\ \E err \in GroupErrors : Answered(groupErrorStatus(err), {}, {})
        /\ UNCHANGED seated
     \/ \E people \in SUBSET Movable : Reseat(people) /\ Answered(groupErrorStatus("network"), people, {})
  /\ UNCHANGED <<byLid, listed>>

\* The seats not filled: of those already in, and of who wants no strangers.
participantFailures(people, filled) == people \ filled

\* A new group exists with whoever could be seated; the answer names the others (not_added).
\* (The subject it notes, groups.go:300, is not about who is in the group: see Groups.)
handleCreateGroup ==
  /\ Ready("create")
  /\ \E filled \in SUBSET Movable :
       Reseat(filled) /\ Answered(200, filled, participantFailures(Requested, filled))
  /\ UNCHANGED <<byLid, listed>>

\* One seat left empty fails the call as a whole, and the others stay filled.
handleAddMembers ==
  /\ Ready("add")
  /\ \E filled \in SUBSET Movable :
       /\ Reseat(filled)
       /\ Answered(IF participantFailures(Requested, filled) = {} THEN 200 ELSE 422, filled, {})
  /\ UNCHANGED <<byLid, listed>>

\* Mutant of Matches: a seat is matched by its own JID only.
Matches_Literal(lids, seat, want) == seat.JID = want

\* seatsOf: a person is matched by either JID, or by canonical digits.
Matches(lids, seat, want) ==
  \/ seat.JID = want \/ seat.PhoneNumber = want \/ seat.LID = want
  \/ want.server = NumberServer /\ personOf(lids, seat) = want.user

seatsOf(lids, roster, wanted) ==
  [seats   |-> {seat.JID : seat \in {s \in roster : \E want \in wanted : Matches(lids, s, want)}},
   missing |-> {want \in wanted : \A seat \in roster : ~Matches(lids, seat, want)}]

\* A removal finds everybody on the roster first; one missing is a 404 for all.
handleRemoveMembers ==
  /\ Ready("remove")
  /\ \E told \in SUBSET seated :
       LET lids  == listed \union told
           found == seatsOf(lids, {Seat(p, told) : p \in seated}, memberJIDs(call.want))
       IN /\ listed' = lids
          /\ IF found.missing # {} THEN Answered(404, {}, found.missing)
             ELSE /\ call' = [call EXCEPT !.at = "found", !.seats = found.seats]
                  /\ outcome' = NoCall
  /\ UNCHANGED <<byLid, seated>>

\* WhatsApp takes out the seats it will; what it says of each is not read.
TakeOut ==
  /\ call # NoCall /\ call.at = "found"
  /\ \E out \in SUBSET Movable : Reseat(out) /\ Answered(200, out, {})
  /\ UNCHANGED <<byLid, listed>>

handleLeaveGroup == Elsewhere /\ UNCHANGED listed /\ seated' = seated \ {Me}

RosterNext ==
  \/ Come
  \/ Go
  \/ Learns
  \/ \E kind \in {"create", "add", "remove"} : Request(kind)
  \/ TakeAnswer
  \/ Refuse
  \/ QueryFails
  \/ handleCreateGroup
  \/ handleAddMembers
  \/ handleRemoveMembers
  \/ TakeOut
  \/ handleLeaveGroup

RosterSpec == RosterInit /\ [][RosterNext]_rosterVars

-----------------------------------------------------------------------------
Codes == {200, 403, 404, 422, 429, 502, 503}

\* Type invariant.
RosterTypeOK ==
  /\ byLid \in BOOLEAN
  /\ {seated, listed} \subseteq SUBSET People
  /\ call = NoCall \/ call.want \subseteq Addresses \union {Junk}
  /\ outcome = NoCall \/ outcome.code \in Codes

\* Nobody is moved but those a request names, however their seats are written, and a removal
\* is sent for everybody it names and for nobody else.  It calls somebody missing ("not in the
\* group") who sits there only when they are named by the one address that neither the roster
\* nor, for a number, whatsmeow's map connects with the seat.  An addition answered 200 has
\* seated everybody it names, and a creation names whom it has not.
MovesWhoWasAsked ==
  /\ outcome # NoCall =>
       LET asked == {PersonBehind(address) : address \in outcome.want \ {Junk}}
       IN /\ outcome.moved \subseteq asked
          /\ outcome.code = 200 /\ outcome.kind = "add" => asked \subseteq outcome.moved \intersect seated
          /\ outcome.code = 200 /\ outcome.kind = "create" => asked \ seated \subseteq outcome.missing
          /\ outcome.kind = "remove" => \A p \in seated :
               /\ PN(p) \in outcome.missing => byLid /\ p \notin listed
               /\ LID(p) \in outcome.missing => ~byLid
  /\ call # NoCall /\ call.at = "found" =>
       {IF byLid THEN PersonBehind(jid) ELSE jid.user : jid \in call.seats}
         = {PersonBehind(address) : address \in call.want}
=============================================================================
