------------------------------- MODULE Intake -------------------------------
(***************************************************************************)
(* One message, any of Messages, and what the bridge posts about it        *)
(* (events.go from 516, history.go, the answer of handleDispatch).         *)
(*                                                                         *)
(* The consumer has a row per message, found by external id.  A message    *)
(* may reach the bridge live, in a history import and as its own send, and *)
(* edits, revokes, reactions, votes, replies and receipts about it come    *)
(* from anyone in the chat, each with a key in its sender's frame, while   *)
(* whatsmeow learns which number is behind which LID.                      *)
(***************************************************************************)
EXTENDS Naming

CONSTANTS
  Messages,   \* the messages of the chats, each also its own whatsmeow id
  ChatOf, AuthorOf,
  NoPost

ASSUME IntakeAssumption ==
  /\ ChatOf \in [Messages -> ChatNames]
  /\ AuthorOf \in [Messages -> People]
  /\ \A m \in Messages : PeerOf[ChatOf[m]] \in {NoPeer, AuthorOf[m]} \/ AuthorOf[m] = Me

VARIABLES
  msg,      \* the message
  paired,   \* session.Address is set
  known,    \* the people in whatsmeow's LID map
  named,    \* the id under which the message first became a row
  post      \* the last thing posted about it

intakeVars == <<msg, paired, known, named, post>>

Chat   == ChatOf[msg]
Author == AuthorOf[msg]

IntakeInit ==
  /\ msg \in Messages
  /\ paired = FALSE
  /\ known = {Me}
  /\ named = NoPost
  /\ post = NoPost

\* External: a pairing completes, and whatsmeow files a LID's number.
Pair == ~paired /\ paired' = TRUE /\ UNCHANGED <<msg, known, named, post>>
Learn == \E p \in People \ known : known' = known \union {p} /\ UNCHANGED <<msg, paired, named, post>>

\* Nothing written about the message depends on a number that whatsmeow does not have.
Settled == Chat \in SpeaksLID => {Author, PeerOf[Chat]} \subseteq known \union {NoPeer}

Participants == IF IsGroup(Chat) THEN People ELSE {Me, PeerOf[Chat]}

-----------------------------------------------------------------------------
Post(how, id, from, arms) ==
  /\ paired
  /\ post' = [how |-> how, id |-> id, from |-> from, arms |-> arms, settled |-> Settled]
  /\ UNCHANGED <<msg, paired, known>>

\* A post that is, or becomes, the message's row.
PostRow(how, id, from, arms) ==
  /\ Post(how, id, from, arms)
  /\ named' = IF named = NoPost THEN [id |-> id, settled |-> Settled] ELSE named

\* A post that points at the message, which may have no row yet.
Refer(how, s, fromMe, participant) ==
  /\ LET sender == keySender(known, s, authorSegment(known, s), fromMe, participant)
     IN Post(how, externalID(Me, chatSegment(known, s), sender, msg), senderAddressFor(known, s), FALSE)
  /\ UNCHANGED named

RowID(s) == externalID(Me, chatSegment(known, s), authorSegment(known, s), msg)

\* The message's MessageKey as p writes it: groups name the participant, direct chats do not.
FromMe(p) == Author = p
Participant(p) == IF IsGroup(Chat) /\ ~FromMe(p) THEN Wire(Author, Chat) ELSE NoJID

-----------------------------------------------------------------------------
(***************************************************************************)
(* buildContent, for the contents that differ in what becomes of them.  A  *)
(* medium is a file only with its bytes fetched and stored, else a         *)
(* placeholder and the reason; a sender key alone, like a vote on a poll   *)
(* never seen, has nothing to post; what cannot be read is unsupported.    *)
(***************************************************************************)
Contents == {"text", "medium", "lost medium", "sender key", "unreadable"}

buildContent(content, downloadMedia) ==
  CASE content = "text"                     -> [part |-> "text", mediaErr |-> FALSE]
    [] content = "medium" /\ downloadMedia  -> [part |-> "file", mediaErr |-> FALSE]
    [] content = "medium" /\ ~downloadMedia -> [part |-> "media_placeholder", mediaErr |-> TRUE]
    [] content = "lost medium"              -> [part |-> "media_placeholder", mediaErr |-> TRUE]
    [] OTHER                                -> [part |-> "nil", mediaErr |-> FALSE]

\* A message as it arrives.  Without a status it is pending, which arms the consumer's
\* automation; an echo and a message whose file is missing carry one.
Live(content, shown) ==
  LET s     == Source(Chat, Author, shown)
      built == buildContent(content, TRUE)
  IN /\ built.part # "nil" \/ content = "unreadable"
     /\ PostRow("live", RowID(s), senderAddressFor(known, s), ~s.IsFromMe /\ ~built.mediaErr)

\* Mutant of historyStatus: a status only for the account's own messages.
historyStatus_Own(fromMe, ack, mediaErr) ==
  (IF fromMe THEN {ack} ELSE {}) \union (IF mediaErr THEN {"errors"} ELSE {})

\* The status an imported row carries: the phone's last ack of the account's own, read for
\* anything else, and the reason a file is missing beside it.
historyStatus(fromMe, ack, mediaErr) ==
  {IF ~fromMe THEN "read" ELSE ack} \union (IF mediaErr THEN {"errors"} ELSE {})

\* An imported message.  Media are not fetched, what is unreadable is skipped.
Imported(content, ack, shown) ==
  LET s     == Source(Chat, Author, shown)
      built == buildContent(content, FALSE)
  IN /\ built.part # "nil"
     /\ PostRow("history", RowID(s), senderAddressFor(known, s),
                historyStatus(s.IsFromMe, ack, built.mediaErr) = {})

\* handleDispatch answers the id of a send to an address the bridge once posted, or a number.
Sent(address) ==
  LET chat == addressJID(address)
  IN /\ Author = Me
     /\ PostRow("sent", externalID(Me, canonicalUser(known, chat, NoJID), Me, msg), Me, FALSE)

Addresses(c) ==
  IF IsGroup(c) THEN {ChatJID(c)}
  ELSE {PeerOf[c]} \union (IF c \in SpeaksLID THEN {LID(PeerOf[c])} ELSE {})

-----------------------------------------------------------------------------
(***************************************************************************)
(* What points at a message.                                               *)
(***************************************************************************)
\* p's event with a MessageKey of the message.
Keyed(how, p, shown) ==
  Refer(how, Source(Chat, p, shown), FromMe(p), Participant(p))

\* Edits and revokes in the clear: an edit is its author's, a revoke may be a group admin's.
ProtocolMessage(p, shown) ==
  \/ p = Author /\ Keyed("edit", p, shown)
  \/ (p = Author \/ IsGroup(Chat)) /\ Keyed("revoke", p, shown)

\* An edit sealed under its message's secret; the envelope's key, or the one inside, names it.
SecretEncrypted(p, shown) == p = Author /\ Keyed("sealed edit", p, shown)

\* A reaction, open or sealed, and a vote, which looks its poll up under the id it computes.
Reaction(p, shown) == Keyed("reaction", p, shown)
Vote(p, shown)     == Keyed("vote", p, shown)

\* A reply, live or imported: a quote names its author outright and is never "from me".
Reply(p, shown) ==
  Refer("reply", Source(Chat, p, shown), FALSE, Wire(Author, Chat))

\* The author whose message a receipt is about: ours, unless one of our own devices read it.
ReceiptAuthor(s) ==
  IF ~s.IsFromMe THEN Me
  ELSE IF s.IsGroup THEN canonicalUser(known, Wire(Author, Chat), NoJID)
  ELSE conversationAddressFor(known, s)

\* p's receipt.  A self receipt in a group that names no author is dropped.
Receipt(p, shown) ==
  LET s == Source(Chat, p, shown)
  IN /\ (p = Me) # (Author = Me)
     /\ Post("receipt", externalID(Me, chatSegment(known, s), ReceiptAuthor(s), msg), NoPost, FALSE)
     /\ UNCHANGED named

Arrives ==
  \E shown \in BOOLEAN :
    \/ \E content \in Contents :
         \/ Live(content, shown)
         \/ \E ack \in {"delivered", "sent"} : Imported(content, ack, shown)
    \/ \E p \in Participants :
         \/ ProtocolMessage(p, shown)
         \/ SecretEncrypted(p, shown)
         \/ Reaction(p, shown)
         \/ Vote(p, shown)
         \/ Reply(p, shown)
         \/ Receipt(p, shown)

IntakeNext ==
  \/ Pair
  \/ Learn
  \/ Arrives
  \/ \E address \in Addresses(Chat) : Sent(address)

IntakeSpec == IntakeInit /\ [][IntakeNext]_intakeVars

-----------------------------------------------------------------------------
Segments == People \union ChatNames \union {LID(p) : p \in People}
Names    == {Me} \X Segments \X Segments \X Messages
Hows     == {"live", "history", "sent", "edit", "revoke", "sealed edit", "reaction", "vote",
             "reply", "receipt"}

\* Type invariant: ids are tuples of canonical segments, none of them a LID's bare digits.
IntakeTypeOK ==
  /\ msg \in Messages
  /\ paired \in BOOLEAN
  /\ known \in SUBSET People
  /\ named = NoPost \/ named \in [id : Names, settled : BOOLEAN]
  /\ post = NoPost \/ post \in [how : Hows, id : Names, from : Segments \union {NoPost}, arms : BOOLEAN, settled : BOOLEAN]

\* An id with every person in it told by who they are, not by how they are written.
ByPerson(id) == <<id[1], PersonBehind(id[2]), PersonBehind(id[3]), id[4]>>

\* Whatever is posted about a message, by whoever and in whichever frame its key was written,
\* names the row the message has: the same chat, author and id, and letter for letter once
\* the numbers behind its LIDs are on file.  A LID mapped between the two is the one way an
\* edit, a receipt or a second copy misses its row (canonicalUser's fallback).  And a row's
\* sender is the sender its id names.
PostsNameTheirRow ==
  post # NoPost =>
    /\ named # NoPost =>
         /\ ByPerson(post.id) = ByPerson(named.id)
         /\ post.settled /\ named.settled => post.id = named.id
    /\ post.how \in {"live", "history", "sent"} => post.from = post.id[3]

\* The id of a row is all that a reply, reaction, edit or revoke of ours is built from
\* (referencedKey).  It leads back to the message: a quote names its author, also one known by
\* LID alone, and a key that another device of ours echoes is read as that author again.
IdsLeadBack ==
  named # NoPost =>
    LET quote == replyContext(named.id)
        keys  == {buildReaction(ChatJID(Chat), named.id), buildRevoke(ChatJID(Chat), named.id)}
                   \union (IF Author = Me THEN {buildEdit(ChatJID(Chat), named.id)} ELSE {})
        Echo(key) == keySender(known, Source(Chat, Me, FALSE), Me, key.fromMe, key.participant)
    IN /\ quote.stanza = msg /\ quote.participant \in {PN(Author), LID(Author)}
       /\ \A key \in keys : key.id = msg /\ PersonBehind(Echo(key)) = Author

\* Only what somebody else says now arms the consumer's automation: no echo of ours, on any
\* path, and no imported message, with or without its file.
OnlyTheLiveArm == post # NoPost /\ post.arms => post.how = "live" /\ Author # Me
=============================================================================
