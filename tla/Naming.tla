------------------------------- MODULE Naming -------------------------------
(***************************************************************************)
(* How the bridge names people, chats and messages (ids.go; events.go      *)
(* 140-212 and 413-449; server.go 351-367): no state, only operators.      *)
(*                                                                         *)
(* A person has a phone number and a LID, and WhatsApp may speak of them   *)
(* by either.  The consumer's addresses are bare phone digits; a LID that  *)
(* no number is known for keeps its server.  So bare digits are an element *)
(* of People, or Lid[p] when a LID's digits are read as if they were a     *)
(* phone's, and an address with its server is the JID itself.  `known` is  *)
(* the set of people whom whatsmeow's LID store has a mapping for.         *)
(***************************************************************************)
CONSTANTS
  People,     \* everyone, each element also standing for their phone digits
  Me,         \* the account the session is paired with
  Lid,        \* the digits of each person's LID
  ChatNames,  \* the conversations
  PeerOf,     \* the other party of a direct chat; NoPeer for a group
  NoPeer,
  SpeaksLID   \* the chats in which WhatsApp addresses people by LID

ASSUME NamingAssumption ==
  /\ Me \in People
  /\ NoPeer \notin People
  /\ PeerOf \in [ChatNames -> (People \ {Me}) \union {NoPeer}]
  /\ \A p, q \in People : (Lid[p] = Lid[q] => p = q) /\ Lid[p] \notin People
  /\ \A p \in People : Lid[p] \notin ChatNames
  /\ People \intersect ChatNames = {}

NumberServer == "s.whatsapp.net"   \* types.DefaultUserServer
LidServer    == "lid"              \* types.HiddenUserServer
GroupServer  == "g.us"             \* types.GroupServer

JID(user, server) == [user |-> user, server |-> server]
NoJID == JID(NoPeer, "none")       \* types.JID{}

PN(p)  == JID(p, NumberServer)
LID(p) == JID(Lid[p], LidServer)
PersonOf(lid) == CHOOSE p \in People : Lid[p] = lid

\* Mutant of canonicalUser: an unmapped LID is written bare, like a number.
canonicalUser_Bare(known, jid, alt) ==
  IF jid.server # LidServer THEN jid.user
  ELSE IF alt.server = NumberServer THEN alt.user
  ELSE IF PersonOf(jid.user) \in known THEN PersonOf(jid.user)
  ELSE jid.user

\* A LID is mapped by the number that came with it, else by the store; unmapped it keeps
\* its server.
canonicalUser(known, jid, alt) ==
  IF jid.server # LidServer THEN jid.user
  ELSE IF alt.server = NumberServer THEN alt.user
  ELSE IF PersonOf(jid.user) \in known THEN PersonOf(jid.user)
  ELSE jid

\* The bare digits an address may be; any other address is written with its server.
Digits == People \union {Lid[p] : p \in People} \union ChatNames

ASSUME AddressAssumption ==
  /\ \A p \in People : LID(p) \notin Digits
  /\ \A c \in ChatNames : JID(c, GroupServer) \notin Digits

\* addressJID: bare digits are a phone number, an address with a server is parsed as written.
addressJID(address) ==
  IF address \in Digits THEN JID(address, NumberServer) ELSE address

-----------------------------------------------------------------------------
(***************************************************************************)
(* A MessageSource: the chat as WhatsApp writes it, who sent the event,    *)
(* and the numbers that came beside the LIDs.                              *)
(***************************************************************************)
IsGroup(c) == PeerOf[c] = NoPeer
Wire(p, c) == IF c \in SpeaksLID THEN LID(p) ELSE PN(p)
ChatJID(c) == IF IsGroup(c) THEN JID(c, GroupServer) ELSE Wire(PeerOf[c], c)

\* The event that p sends in c; `shown` says whether its numbers come along with its LIDs.
Source(c, p, shown) ==
  LET Alt(q) == IF shown /\ c \in SpeaksLID THEN PN(q) ELSE NoJID
  IN [Chat         |-> ChatJID(c),
      IsGroup      |-> IsGroup(c),
      IsFromMe     |-> p = Me,
      Sender       |-> Wire(p, c),
      SenderAlt    |-> Alt(p),
      RecipientAlt |-> IF p = Me /\ ~IsGroup(c) THEN Alt(PeerOf[c]) ELSE NoJID]

PeerAlt(s) == IF s.IsFromMe THEN s.RecipientAlt ELSE s.SenderAlt

\* messages.conversation_address: a group's is its whole JID.
conversationAddressFor(known, s) ==
  IF s.IsGroup THEN s.Chat ELSE canonicalUser(known, s.Chat, PeerAlt(s))

\* The chat segment of an external id: the same namespace, but a group's bare.
chatSegment(known, s) ==
  IF s.IsGroup THEN s.Chat.user ELSE canonicalUser(known, s.Chat, PeerAlt(s))

senderAddressFor(known, s) ==
  IF s.IsFromMe THEN Me
  ELSE canonicalUser(known, IF s.IsGroup THEN s.Sender ELSE s.Chat, s.SenderAlt)

authorSegment(known, s) ==
  IF s.IsFromMe THEN Me ELSE canonicalUser(known, s.Sender, s.SenderAlt)

\* Mutant of keySender: a direct chat's key names the chat's peer, whoever writes it.
keySender_Peer(known, s, author, fromMe, participant) ==
  IF fromMe THEN author
  ELSE IF participant # NoJID THEN canonicalUser(known, participant, NoJID)
  ELSE IF s.IsGroup THEN canonicalUser(known, s.Chat, NoJID)
  ELSE chatSegment(known, s)

\* The sender segment a MessageKey names, read in the frame of the author of the event that
\* carries it: "from me" is theirs, and a direct chat's key without a participant names the
\* other one of the two.
keySender(known, s, author, fromMe, participant) ==
  IF fromMe THEN author
  ELSE IF participant # NoJID THEN canonicalUser(known, participant, NoJID)
  ELSE IF s.IsGroup THEN canonicalUser(known, s.Chat, NoJID)
  ELSE IF author # Me THEN Me
  ELSE chatSegment(known, s)

-----------------------------------------------------------------------------
\* externalID writes wmw.<own>.<chat>.<sender>.<id>.  No segment but the last holds a dot, so
\* the string is the tuple and parseExternalID its projections.
externalID(own, chat, sender, id) == <<own, chat, sender, id>>
parseExternalID(ext) == [own |-> ext[1], chat |-> ext[2], sender |-> ext[3], id |-> ext[4]]

\* The id and the sender's JID of a referenced message, rebuilt from its external id.
referencedKey(ext) ==
  LET e == parseExternalID(ext)
  IN [id |-> e.id, sender |-> IF e.sender = Me THEN PN(Me) ELSE addressJID(e.sender)]

\* External: whatsmeow's BuildMessageKey.  Only a group's key names its participant.
MessageKey(chat, sender, id) ==
  LET mine == sender \in {PN(Me), LID(Me)}
  IN [id |-> id, fromMe |-> mine,
      participant |-> IF mine \/ chat.server # GroupServer THEN NoJID ELSE sender]

\* What our own reaction, revoke, edit and reply say of the message they are about.
buildReaction(chat, ext) == MessageKey(chat, referencedKey(ext).sender, referencedKey(ext).id)
buildRevoke(chat, ext)   == MessageKey(chat, referencedKey(ext).sender, referencedKey(ext).id)
buildEdit(chat, ext)     == MessageKey(chat, PN(Me), referencedKey(ext).id)
replyContext(ext)        == [stanza |-> referencedKey(ext).id, participant |-> referencedKey(ext).sender]

\* Who an address or a JID is about, however it is written.
PersonBehind(a) ==
  IF a \in People THEN a
  ELSE IF a \in {LID(p) : p \in People} THEN PersonOf(a.user)
  ELSE a
=============================================================================
