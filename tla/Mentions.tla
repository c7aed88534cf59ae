------------------------------ MODULE Mentions ------------------------------
(***************************************************************************)
(* The namespace a mention is written in (server.go 389-464, the addrMode  *)
(* cache of sessions.go).  WhatsApp addresses the people of a chat by      *)
(* number or by LID, and moves groups from the one to the other.  The      *)
(* bridge learns which from the messages it is given, in order, and from   *)
(* GetGroupInfo, asked by a send to a chat it has not heard from and by    *)
(* the group routes; it keeps the last it was told.                        *)
(***************************************************************************)
EXTENDS Naming, Naturals, Sequences

CONSTANTS
  Mentioned,   \* the addresses a send mentions
  MaxHeard,    \* bound: the messages of the chat
  NoSend

\* Who is mentioned was posted by the bridge: a number, or the LID of somebody whose number
\* was not known then.
ASSUME MentionsAssumption ==
  /\ Mentioned \subseteq People \union {LID(p) : p \in People}
  /\ MaxHeard \in Nat

VARIABLES
  server,      \* the chat's server; it never changes
  mode,        \* WhatsApp: how it addresses the chat's people
  inbound,     \* WhatsApp: the messages the event loop has yet to be given, by their mode
  spoken,      \* WhatsApp: how many it has sent
  mapped,      \* the people whose LID the store has (GetLIDForPN)
  addrMode,    \* Session.addrMode of the chat, "" when never noted
  asked,       \* the calls of GetGroupInfo: idle, asking, or the mode they were answered
  mention,     \* the last send's mentions, with how things stood when they were written
  heardLid,    \* history: a message addressed by LID was noted
  behind       \* history: an older answer or message was noted since, or the lookup failed

mentionVars == <<server, mode, inbound, spoken, mapped, addrMode, asked, mention,
                 heardLid, behind>>

Askers == {"route", "send"}   \* handleGroup or handleRemoveMembers; chatSpeaksLID

MentionsInit ==
  /\ server \in {GroupServer, NumberServer, LidServer}
  /\ mode \in CASE server = GroupServer -> {"pn", "lid"}
                [] server = LidServer   -> {"lid"}
                [] OTHER                -> {"pn"}
  /\ inbound = <<>>
  /\ spoken = 0
  /\ mapped = {}
  /\ addrMode = ""
  /\ asked = [a \in Askers |-> "idle"]
  /\ mention = NoSend
  /\ heardLid = FALSE
  /\ behind = FALSE

\* External: a group moves to LIDs; somebody writes; whatsmeow files a LID.
Migrate ==
  /\ server = GroupServer /\ mode = "pn" /\ mode' = "lid"
  /\ UNCHANGED <<server, inbound, spoken, mapped, addrMode, asked, mention, heardLid, behind>>

Speak ==
  /\ spoken < MaxHeard
  /\ spoken' = spoken + 1
  /\ inbound' = Append(inbound, mode)
  /\ UNCHANGED <<server, mode, mapped, addrMode, asked, mention, heardLid, behind>>

FileLid ==
  /\ \E p \in People \ mapped : mapped' = mapped \union {p}
  /\ UNCHANGED <<server, mode, inbound, spoken, addrMode, asked, mention, heardLid, behind>>

-----------------------------------------------------------------------------
\* Mutant of noteAddressingMode: a chat keeps the mode it was first heard in.
noteAddressingMode_First(noted) ==
  /\ addrMode' = IF addrMode = "" THEN noted ELSE addrMode
  /\ heardLid' = (heardLid \/ noted = "lid")
  /\ behind' = (heardLid /\ noted = "pn")

noteAddressingMode(noted) ==
  /\ addrMode' = IF noted = "" THEN addrMode ELSE noted
  /\ heardLid' = (heardLid \/ noted = "lid")
  /\ behind' = (heardLid /\ noted = "pn")

\* handleMessage notes the mode of every message it makes a row of.
Hear ==
  /\ inbound # <<>>
  /\ noteAddressingMode(Head(inbound))
  /\ inbound' = Tail(inbound)
  /\ UNCHANGED <<server, mode, spoken, mapped, asked, mention>>

\* A group route reads the group, and notes the answer when it has it.
AskRoute ==
  /\ server = GroupServer /\ asked["route"] = "idle"
  /\ asked' = [asked EXCEPT !["route"] = mode]
  /\ UNCHANGED <<server, mode, inbound, spoken, mapped, addrMode, mention, heardLid, behind>>

NoteRoute ==
  /\ asked["route"] # "idle"
  /\ noteAddressingMode(asked["route"])
  /\ asked' = [asked EXCEPT !["route"] = "idle"]
  /\ UNCHANGED <<server, mode, inbound, spoken, mapped, mention>>

-----------------------------------------------------------------------------
\* A canonical address in the namespace of the chat, or as it is when it has no LID on file.
wireMention(lids, address, lidChat) ==
  LET pn == addressJID(address)
  IN IF lidChat /\ pn.server = NumberServer /\ address \in lids THEN LID(address) ELSE pn

encodeMentions(lidChat) ==
  mention' = [jids   |-> [a \in Mentioned |-> wireMention(mapped, a, lidChat)],
              mapped |-> mapped, mode |-> mode, sure |-> heardLid' /\ ~behind']

\* What the bridge can tell without asking: what was noted, else what the server says.
Told == addrMode # "" \/ server # GroupServer
SpeaksLid == IF addrMode # "" THEN addrMode = "lid" ELSE server = LidServer

\* A send with mentions to a chat whose mode is known, or to a direct chat.
SendTold ==
  /\ asked["send"] = "idle" /\ Told
  /\ UNCHANGED <<heardLid, behind>>
  /\ encodeMentions(SpeaksLid)
  /\ UNCHANGED <<server, mode, inbound, spoken, mapped, addrMode, asked>>

\* To a group never heard from: WhatsApp is asked, ...
AskSend ==
  /\ asked["send"] = "idle" /\ ~Told
  /\ asked' = [asked EXCEPT !["send"] = mode]
  /\ UNCHANGED <<server, mode, inbound, spoken, mapped, addrMode, mention, heardLid, behind>>

\* ... and its answer noted and used.
SendAnswered ==
  /\ asked["send"] # "idle"
  /\ noteAddressingMode(asked["send"])
  /\ encodeMentions(asked["send"] = "lid")
  /\ asked' = [asked EXCEPT !["send"] = "idle"]
  /\ UNCHANGED <<server, mode, inbound, spoken, mapped>>

\* ... or, when the lookup fails, the mentions go out as numbers.
SendUnanswered ==
  /\ asked["send"] # "idle"
  /\ asked' = [asked EXCEPT !["send"] = "idle"]
  /\ mention' = [jids   |-> [a \in Mentioned |-> wireMention(mapped, a, FALSE)],
                 mapped |-> mapped, mode |-> mode, sure |-> FALSE]
  /\ UNCHANGED <<server, mode, inbound, spoken, mapped, addrMode, heardLid, behind>>

\* The process restarts, and knows no chat's mode.
MentionsRestart ==
  /\ addrMode' = ""
  /\ asked' = [a \in Askers |-> "idle"]
  /\ heardLid' = FALSE
  /\ behind' = FALSE
  /\ UNCHANGED <<server, mode, inbound, spoken, mapped, mention>>

MentionsNext ==
  \/ Migrate
  \/ Speak
  \/ FileLid
  \/ Hear
  \/ AskRoute
  \/ NoteRoute
  \/ SendTold
  \/ AskSend
  \/ SendAnswered
  \/ SendUnanswered
  \/ MentionsRestart

MentionsSpec == MentionsInit /\ [][MentionsNext]_mentionVars
-----------------------------------------------------------------------------
\* Type invariant.
MentionsTypeOK ==
  /\ server \in {GroupServer, NumberServer, LidServer}
  /\ mode \in {"pn", "lid"}
  /\ inbound \in Seq({"pn", "lid"})
  /\ spoken \in 0..MaxHeard
  /\ mapped \subseteq People
  /\ addrMode \in {"", "pn", "lid"}
  /\ asked \in [Askers -> {"idle", "pn", "lid"}]
  /\ mention = NoSend \/ DOMAIN mention.jids = Mentioned
  /\ {heardLid, behind} \subseteq BOOLEAN

\* "The digits are the CHAT's namespace, not ours" (encodeMentions).  Everybody mentioned is
\* named by their own number or LID.  In a chat that speaks LID, once the bridge has noted so,
\* everybody whose LID is on file is named by it, whatever else it was told before; a number
\* is published there only by a send whose lookup failed, that came before the first message,
\* or after an older answer or message was noted over the newer one.  In a chat of numbers
\* nobody mentioned by number is named by LID.
MentionsSpeakTheChat ==
  mention # NoSend =>
    \A a \in Mentioned :
      LET p == PersonBehind(a)
      IN /\ mention.jids[a] \in {PN(p), LID(p)}
         /\ (mention.sure \/ server = LidServer) /\ p \in mention.mapped => mention.jids[a] = LID(p)
         /\ mention.mode = "pn" /\ a = p => mention.jids[a] = PN(p)
=============================================================================
