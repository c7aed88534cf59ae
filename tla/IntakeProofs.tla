---------------------------- MODULE IntakeProofs ----------------------------
(***************************************************************************)
(* Theorems of Naming and Intake, for any people, chats and messages, and  *)
(* whatever whatsmeow knows of the numbers behind LIDs.                    *)
(***************************************************************************)
EXTENDS Intake, TLAPS

\* The two ways in which an id may spell a person.
Spelled(p) == {p, LID(p)}

\* In c, p is written by number, or the number behind p's LID is on file.
Clear(k, c, p) == c \in SpeaksLID => p \in k

LEMMA Lids ==
  \A p \in People : PersonOf(Lid[p]) = p
<1> TAKE p \in People
<1>1. \A q \in People : Lid[q] = Lid[p] => q = p
  BY NamingAssumption
<1>2. PersonOf(Lid[p]) \in People /\ Lid[PersonOf(Lid[p])] = Lid[p]
  BY DEF PersonOf
<1> QED BY <1>1, <1>2

\* A spelling is of one person.
LEMMA Spellings ==
  ASSUME NEW p \in People
  PROVE  /\ LID(p) \notin People
         /\ \A q \in People : LID(p) = LID(q) => p = q
         /\ \A a \in Spelled(p) : PersonBehind(a) = p
         /\ \A q \in People : q \in Spelled(p) => q = p
<1>1. LID(p) \notin People
  BY AddressAssumption DEF Digits
<1>2. \A q \in People : LID(p) = LID(q) => p = q
  <2> SUFFICES ASSUME NEW q \in People, LID(p) = LID(q) PROVE p = q
    OBVIOUS
  <2>1. LID(p).user = Lid[p] /\ LID(q).user = Lid[q]
    BY DEF LID, JID
  <2> QED BY <2>1, NamingAssumption
<1>3. LID(p).user = Lid[p]
  BY DEF LID, JID
<1> QED BY <1>1, <1>2, <1>3, Lids DEF Spelled, PersonBehind

LEMMA Servers ==
  \A p \in People :
    /\ PN(p).server = NumberServer /\ PN(p).user = p
    /\ LID(p).server = LidServer /\ LID(p).user = Lid[p]
    /\ NoJID.server = "none" /\ NumberServer # LidServer
    /\ PN(p) # NoJID /\ LID(p) # NoJID /\ NumberServer # "none" /\ LidServer # "none"
BY DEF PN, LID, NoJID, JID, NumberServer, LidServer

LEMMA Canonical ==
  ASSUME NEW k, NEW p \in People, NEW jid \in {PN(p), LID(p)}, NEW alt \in {NoJID, PN(p)}
  PROVE  /\ canonicalUser(k, jid, alt) \in Spelled(p)
         /\ jid = PN(p) \/ p \in k => canonicalUser(k, jid, alt) = p
BY Servers, Lids DEF canonicalUser, Spelled

LEMMA Wires ==
  ASSUME NEW k, NEW c \in ChatNames, NEW p \in People
  PROVE  /\ Wire(p, c) \in {PN(p), LID(p)} /\ Wire(p, c) # NoJID
         /\ canonicalUser(k, Wire(p, c), NoJID) \in Spelled(p)
         /\ Clear(k, c, p) => canonicalUser(k, Wire(p, c), NoJID) = p
BY Servers, Canonical DEF Wire, Clear

\* What the bridge makes of an event of p's in c.
LEMMA Sources ==
  ASSUME NEW k, NEW c \in ChatNames, NEW p \in People, NEW shown \in BOOLEAN,
         IsGroup(c) \/ p \in {Me, PeerOf[c]}
  PROVE  LET s == Source(c, p, shown)
         IN /\ s.IsGroup = IsGroup(c) /\ s.IsFromMe = (p = Me)
            /\ authorSegment(k, s) \in Spelled(p)
            /\ p = Me \/ Clear(k, c, p) => authorSegment(k, s) = p
            /\ senderAddressFor(k, s) = authorSegment(k, s)
            /\ IsGroup(c) => chatSegment(k, s) = c
            /\ ~IsGroup(c) =>
                 /\ chatSegment(k, s) \in Spelled(PeerOf[c])
                 /\ Clear(k, c, PeerOf[c]) => chatSegment(k, s) = PeerOf[c]
                 /\ conversationAddressFor(k, s) = chatSegment(k, s)
<1> DEFINE s == Source(c, p, shown)
           Alt(q) == IF shown /\ c \in SpeaksLID THEN PN(q) ELSE NoJID
<1>1. /\ s.Chat = ChatJID(c) /\ s.IsGroup = IsGroup(c) /\ s.IsFromMe = (p = Me)
      /\ s.Sender = Wire(p, c) /\ s.SenderAlt = Alt(p)
      /\ s.RecipientAlt = IF p = Me /\ ~IsGroup(c) THEN Alt(PeerOf[c]) ELSE NoJID
  BY DEF Source
<1>2. Alt(p) \in {NoJID, PN(p)} /\ Wire(p, c) \in {PN(p), LID(p)}
  BY Wires
<1>3. Clear(k, c, p) => Wire(p, c) = PN(p) \/ p \in k
  BY DEF Clear, Wire
<1> HIDE DEF s, Alt
<1>4. /\ authorSegment(k, s) \in Spelled(p)
      /\ p = Me \/ Clear(k, c, p) => authorSegment(k, s) = p
  <2>1. CASE p = Me
    BY <1>1, <2>1 DEF authorSegment, Spelled
  <2>2. CASE p # Me
    <3>1. authorSegment(k, s) = canonicalUser(k, Wire(p, c), Alt(p))
      BY <1>1, <2>2 DEF authorSegment
    <3> QED BY <1>2, <1>3, <2>2, <3>1, Canonical
  <2> QED BY <2>1, <2>2
<1>5. CASE IsGroup(c)
  <2>1. chatSegment(k, s) = c
    BY <1>1, <1>5 DEF chatSegment, ChatJID, JID
  <2>2. senderAddressFor(k, s) = authorSegment(k, s)
    BY <1>1, <1>5 DEF senderAddressFor, authorSegment
  <2> QED BY <1>1, <1>4, <1>5, <2>1, <2>2 DEF s
<1>6. CASE ~IsGroup(c)
  <2>1. PeerOf[c] \in People \ {Me} /\ p \in {Me, PeerOf[c]}
    BY <1>6, NamingAssumption DEF IsGroup
  <2>2. s.Chat = Wire(PeerOf[c], c) /\ PeerAlt(s) = Alt(PeerOf[c])
    BY <1>1, <1>6, <2>1 DEF ChatJID, PeerAlt
  <2>3. Alt(PeerOf[c]) \in {NoJID, PN(PeerOf[c])} /\ Wire(PeerOf[c], c) \in {PN(PeerOf[c]), LID(PeerOf[c])}
    BY <2>1, Wires DEF Alt
  <2>4. Clear(k, c, PeerOf[c]) => Wire(PeerOf[c], c) = PN(PeerOf[c]) \/ PeerOf[c] \in k
    BY DEF Clear, Wire
  <2>5. /\ chatSegment(k, s) = canonicalUser(k, Wire(PeerOf[c], c), Alt(PeerOf[c]))
        /\ conversationAddressFor(k, s) = chatSegment(k, s)
    BY <1>1, <1>6, <2>2 DEF chatSegment, conversationAddressFor
  <2>6. /\ chatSegment(k, s) \in Spelled(PeerOf[c])
        /\ Clear(k, c, PeerOf[c]) => chatSegment(k, s) = PeerOf[c]
    BY <2>1, <2>3, <2>4, <2>5, Canonical
  <2>7. senderAddressFor(k, s) = authorSegment(k, s)
    BY <1>1, <1>6, <2>1, <2>2 DEF senderAddressFor, authorSegment
  <2> QED BY <1>1, <1>4, <1>6, <2>5, <2>6, <2>7 DEF s
<1> QED BY <1>5, <1>6

-----------------------------------------------------------------------------
(***************************************************************************)
(* Ids.  Everything that is posted spells the message's chat and author,   *)
(* and spells them by number when the numbers are on file.                 *)
(***************************************************************************)
ChatSpellings == IF IsGroup(Chat) THEN {Chat} ELSE Spelled(PeerOf[Chat])
PlainChat     == IF IsGroup(Chat) THEN Chat ELSE PeerOf[Chat]

Spells(id) ==
  \E chat \in ChatSpellings, sender \in Spelled(Author) : id = <<Me, chat, sender, msg>>

\* An id with the mark that says whether its numbers were on file.
Fits(x) == Spells(x.id) /\ (x.settled => x.id = <<Me, PlainChat, Author, msg>>)

RowInv ==
  /\ msg \in Messages /\ Me \in known
  /\ named = NoPost \/ Fits(named)
  /\ post = NoPost \/ (Fits(post) /\ (post.how \in {"live", "history", "sent"} => post.from = post.id[3]))

\* The chat, the author and who may send something about a message.
LEMMA Parties ==
  ASSUME msg \in Messages
  PROVE  /\ Chat \in ChatNames /\ Author \in People /\ Me \in People
         /\ IsGroup(Chat) \/ Author \in {Me, PeerOf[Chat]}
         /\ ~IsGroup(Chat) => PeerOf[Chat] \in People \ {Me}
         /\ \A p \in Participants : p \in People /\ (IsGroup(Chat) \/ p \in {Me, PeerOf[Chat]})
         /\ Settled => /\ Clear(known, Chat, Author)
                       /\ ~IsGroup(Chat) => Clear(known, Chat, PeerOf[Chat])
<1>1. /\ Chat \in ChatNames /\ Author \in People /\ Me \in People
      /\ IsGroup(Chat) \/ Author \in {Me, PeerOf[Chat]}
  BY IntakeAssumption, NamingAssumption DEF Chat, Author, IsGroup
<1>2. ~IsGroup(Chat) => PeerOf[Chat] \in People \ {Me}
  BY <1>1, NamingAssumption DEF IsGroup
<1>3. \A p \in Participants : p \in People /\ (IsGroup(Chat) \/ p \in {Me, PeerOf[Chat]})
  BY <1>1, <1>2 DEF Participants
<1>4. Settled => /\ Clear(known, Chat, Author)
                 /\ ~IsGroup(Chat) => Clear(known, Chat, PeerOf[Chat])
  BY <1>1, <1>2, NamingAssumption DEF Settled, Clear
<1> QED BY <1>1, <1>2, <1>3, <1>4

\* A chat and a sender segment that spell the message's make an id that fits it.
LEMMA Fitting ==
  ASSUME msg \in Messages, NEW chat, NEW sender,
         chat \in ChatSpellings, sender \in Spelled(Author),
         Settled => chat = PlainChat /\ sender = Author
  PROVE  /\ Spells(externalID(Me, chat, sender, msg))
         /\ Settled => externalID(Me, chat, sender, msg) = <<Me, PlainChat, Author, msg>>
         /\ externalID(Me, chat, sender, msg)[3] = sender
BY DEF Spells, externalID

LEMMA ChatFits ==
  ASSUME RowInv, NEW p \in Participants, NEW shown \in BOOLEAN
  PROVE  /\ chatSegment(known, Source(Chat, p, shown)) \in ChatSpellings
         /\ Settled => chatSegment(known, Source(Chat, p, shown)) = PlainChat
BY Parties, Sources DEF RowInv, ChatSpellings, PlainChat

\* What is posted keeps RowInv.
LEMMA PostFits ==
  ASSUME RowInv, NEW how, NEW chat, NEW sender, NEW from, NEW arms,
         chat \in ChatSpellings, sender \in Spelled(Author),
         Settled => chat = PlainChat /\ sender = Author,
         how \in {"live", "history", "sent"} => from = sender,
         Post(how, externalID(Me, chat, sender, msg), from, arms),
         named' = named \/ named' = [id |-> externalID(Me, chat, sender, msg), settled |-> Settled]
  PROVE  RowInv'
<1> DEFINE id == externalID(Me, chat, sender, msg)
<1>1. /\ Spells(id) /\ id[3] = sender
      /\ Settled => id = <<Me, PlainChat, Author, msg>>
  BY Fitting DEF RowInv
<1>2. /\ msg' = msg /\ known' = known
      /\ post' = [how |-> how, id |-> id, from |-> from, arms |-> arms, settled |-> Settled]
  BY DEF Post
<1>3. /\ \A x : Spells(x)' <=> Spells(x)
      /\ PlainChat' = PlainChat /\ Author' = Author
  BY <1>2 DEF Spells, ChatSpellings, PlainChat, Author, Chat
<1> HIDE DEF id
<1>4. post'.id = id /\ post'.settled = Settled /\ post'.how = how /\ post'.from = from
  BY <1>2
<1>5. Fits(post)'
  BY <1>1, <1>2, <1>3, <1>4 DEF Fits
<1>6. named' = NoPost \/ Fits(named)'
  <2>1. CASE named' = named
    BY <1>2, <1>3, <2>1 DEF RowInv, Fits
  <2>2. CASE named' = [id |-> id, settled |-> Settled]
    BY <1>1, <1>2, <1>3, <2>2 DEF Fits
  <2> QED BY <2>1, <2>2 DEF id
<1> QED BY <1>1, <1>2, <1>4, <1>5, <1>6 DEF RowInv

-----------------------------------------------------------------------------
(***************************************************************************)
(* What arrives.                                                           *)
(***************************************************************************)
\* The message itself, live or imported.
LEMMA RowsFit ==
  ASSUME RowInv, NEW how, NEW shown \in BOOLEAN, NEW arms,
         PostRow(how, RowID(Source(Chat, Author, shown)),
                 senderAddressFor(known, Source(Chat, Author, shown)), arms)
  PROVE  RowInv'
<1> DEFINE s == Source(Chat, Author, shown)
<1>1. Author \in Participants
  BY Parties DEF RowInv, Participants
<1>2. chatSegment(known, s) \in ChatSpellings /\ (Settled => chatSegment(known, s) = PlainChat)
  BY <1>1, ChatFits
<1>3. /\ authorSegment(known, s) \in Spelled(Author)
      /\ Settled => authorSegment(known, s) = Author
      /\ senderAddressFor(known, s) = authorSegment(known, s)
  BY Parties, Sources DEF RowInv
<1> HIDE DEF s
<1>4. /\ Post(how, externalID(Me, chatSegment(known, s), authorSegment(known, s), msg),
              authorSegment(known, s), arms)
      /\ \/ named' = named
         \/ named' = [id |-> externalID(Me, chatSegment(known, s), authorSegment(known, s), msg),
                      settled |-> Settled]
  BY <1>3 DEF PostRow, RowID, s
<1> QED BY <1>2, <1>3, <1>4, PostFits

\* A key that p writes, read in p's frame, names the author.
LEMMA KeyNamesAuthor ==
  ASSUME RowInv, NEW p \in Participants, NEW shown \in BOOLEAN
  PROVE  LET s      == Source(Chat, p, shown)
             sender == keySender(known, s, authorSegment(known, s), FromMe(p), Participant(p))
         IN sender \in Spelled(Author) /\ (Settled => sender = Author)
<1> DEFINE s      == Source(Chat, p, shown)
           author == authorSegment(known, s)
           sender == keySender(known, s, author, FromMe(p), Participant(p))
<1>1. /\ p \in People /\ (IsGroup(Chat) \/ p \in {Me, PeerOf[Chat]})
      /\ Author \in People /\ Chat \in ChatNames /\ Me \in People
      /\ IsGroup(Chat) \/ Author \in {Me, PeerOf[Chat]}
      /\ ~IsGroup(Chat) => PeerOf[Chat] \in People \ {Me}
      /\ Settled => Clear(known, Chat, Author)
  BY Parties DEF RowInv
<1>2. /\ s.IsGroup = IsGroup(Chat)
      /\ author \in Spelled(p)
      /\ p = Me \/ Clear(known, Chat, p) => author = p
  BY <1>1, Sources
<1>3. chatSegment(known, s) \in ChatSpellings /\ (Settled => chatSegment(known, s) = PlainChat)
  BY ChatFits
<1> HIDE DEF s, author
<1>4. CASE Author = p
  <2>1. sender = author
    BY <1>4 DEF keySender, FromMe
  <2> QED BY <1>1, <1>2, <1>4, <2>1 DEF author, s
<1>5. CASE Author # p /\ IsGroup(Chat)
  <2>1. Participant(p) = Wire(Author, Chat) /\ Wire(Author, Chat) # NoJID
    BY <1>1, <1>5, Wires DEF Participant, FromMe
  <2>2. sender = canonicalUser(known, Wire(Author, Chat), NoJID)
    BY <1>5, <2>1 DEF keySender, FromMe
  <2> QED BY <1>1, <2>2, Wires DEF author, s
<1>6. CASE Author # p /\ ~IsGroup(Chat)
  <2>1. Participant(p) = NoJID
    BY <1>6 DEF Participant
  <2>2. sender = IF author # Me THEN Me ELSE chatSegment(known, s)
    BY <1>2, <1>6, <2>1 DEF keySender, FromMe
  <2>3. CASE p = Me
    BY <1>1, <1>2, <1>3, <1>6, <2>2, <2>3 DEF ChatSpellings, PlainChat, author, s
  <2>4. CASE p # Me
    <3>1. author # Me
      BY <1>1, <1>2, <2>4, Spellings
    <3>2. Author = Me
      BY <1>1, <1>6, <2>4
    <3> QED BY <2>2, <3>1, <3>2 DEF Spelled, author, s
  <2> QED BY <2>3, <2>4
<1> QED BY <1>4, <1>5, <1>6

LEMMA KeysFit ==
  ASSUME RowInv, NEW how \in {"edit", "revoke", "sealed edit", "reaction", "vote"},
         NEW p \in Participants, NEW shown \in BOOLEAN, Keyed(how, p, shown)
  PROVE  RowInv'
<1> DEFINE s      == Source(Chat, p, shown)
           sender == keySender(known, s, authorSegment(known, s), FromMe(p), Participant(p))
<1>1. /\ chatSegment(known, s) \in ChatSpellings /\ sender \in Spelled(Author)
      /\ Settled => chatSegment(known, s) = PlainChat /\ sender = Author
  BY ChatFits, KeyNamesAuthor
<1>2. /\ Post(how, externalID(Me, chatSegment(known, s), sender, msg), senderAddressFor(known, s), FALSE)
      /\ named' = named
  BY DEF Keyed, Refer
<1> HIDE DEF s, sender
<1> QED BY <1>1, <1>2, PostFits

LEMMA RepliesFit ==
  ASSUME RowInv, NEW p \in Participants, NEW shown \in BOOLEAN, Reply(p, shown)
  PROVE  RowInv'
<1> DEFINE s      == Source(Chat, p, shown)
           sender == keySender(known, s, authorSegment(known, s), FALSE, Wire(Author, Chat))
<1>1. Chat \in ChatNames /\ Author \in People /\ (Settled => Clear(known, Chat, Author))
  BY Parties DEF RowInv
<1>2. sender = canonicalUser(known, Wire(Author, Chat), NoJID)
  BY <1>1, Wires DEF keySender
<1>3. sender \in Spelled(Author) /\ (Settled => sender = Author)
  BY <1>1, <1>2, Wires
<1>4. chatSegment(known, s) \in ChatSpellings /\ (Settled => chatSegment(known, s) = PlainChat)
  BY ChatFits
<1>5. /\ Post("reply", externalID(Me, chatSegment(known, s), sender, msg), senderAddressFor(known, s), FALSE)
      /\ named' = named
  BY DEF Reply, Refer
<1> HIDE DEF s, sender
<1> QED BY <1>3, <1>4, <1>5, PostFits

LEMMA ReceiptsFit ==
  ASSUME RowInv, NEW p \in Participants, NEW shown \in BOOLEAN, Receipt(p, shown)
  PROVE  RowInv'
<1> DEFINE s == Source(Chat, p, shown)
<1>1. /\ p \in People /\ (IsGroup(Chat) \/ p \in {Me, PeerOf[Chat]})
      /\ Author \in People /\ Chat \in ChatNames /\ Me \in People
      /\ IsGroup(Chat) \/ Author \in {Me, PeerOf[Chat]}
      /\ Settled => Clear(known, Chat, Author)
  BY Parties DEF RowInv
<1>2. /\ s.IsGroup = IsGroup(Chat) /\ s.IsFromMe = (p = Me)
      /\ ~IsGroup(Chat) => conversationAddressFor(known, s) = chatSegment(known, s)
  BY <1>1, Sources
<1>3. chatSegment(known, s) \in ChatSpellings /\ (Settled => chatSegment(known, s) = PlainChat)
  BY ChatFits
<1>4. /\ (p = Me) # (Author = Me)
      /\ Post("receipt", externalID(Me, chatSegment(known, s), ReceiptAuthor(s), msg), NoPost, FALSE)
      /\ named' = named
  BY DEF Receipt
<1> HIDE DEF s
<1>5. ReceiptAuthor(s) \in Spelled(Author) /\ (Settled => ReceiptAuthor(s) = Author)
  <2>1. CASE p # Me
    <3>1. Author = Me /\ ReceiptAuthor(s) = Me
      BY <1>2, <1>4, <2>1 DEF ReceiptAuthor
    <3> QED BY <3>1 DEF Spelled
  <2>2. CASE p = Me /\ IsGroup(Chat)
    <3>1. ReceiptAuthor(s) = canonicalUser(known, Wire(Author, Chat), NoJID)
      BY <1>2, <2>2 DEF ReceiptAuthor
    <3> QED BY <1>1, <3>1, Wires
  <2>3. CASE p = Me /\ ~IsGroup(Chat)
    <3>1. Author = PeerOf[Chat]
      BY <1>1, <1>4, <2>3
    <3>2. ReceiptAuthor(s) = chatSegment(known, s)
      BY <1>2, <2>3 DEF ReceiptAuthor
    <3> QED BY <1>3, <2>3, <3>1, <3>2 DEF ChatSpellings, PlainChat
  <2> QED BY <2>1, <2>2, <2>3
<1> QED BY <1>3, <1>4, <1>5, PostFits

\* The bridge's own send, to an address it once posted or to a number.
LEMMA SendsFit ==
  ASSUME RowInv, NEW address \in Addresses(Chat), Sent(address)
  PROVE  RowInv'
<1> DEFINE chat == canonicalUser(known, addressJID(address), NoJID)
<1>1. Chat \in ChatNames /\ (~IsGroup(Chat) => PeerOf[Chat] \in People \ {Me}) /\ Author = Me
  BY Parties DEF RowInv, Sent
<1>2. chat \in ChatSpellings /\ (Settled => chat = PlainChat)
  <2>1. CASE IsGroup(Chat)
    <3>1. addressJID(address) = JID(Chat, GroupServer)
      BY <1>1, <2>1, AddressAssumption DEF Addresses, addressJID, ChatJID
    <3>2. JID(Chat, GroupServer).user = Chat /\ JID(Chat, GroupServer).server # LidServer
      BY DEF JID, GroupServer, LidServer
    <3>3. chat = Chat
      BY <3>1, <3>2 DEF canonicalUser
    <3> QED BY <2>1, <3>3 DEF ChatSpellings, PlainChat
  <2>2. CASE ~IsGroup(Chat)
    <3>1. PeerOf[Chat] \in Digits /\ LID(PeerOf[Chat]) \notin Digits
      BY <1>1, <2>2, AddressAssumption DEF Digits
    <3>2. addressJID(address) \in {PN(PeerOf[Chat]), LID(PeerOf[Chat])}
      BY <2>2, <3>1 DEF Addresses, addressJID, PN
    <3>3. Chat \notin SpeaksLID => addressJID(address) = PN(PeerOf[Chat])
      BY <2>2, <3>1 DEF Addresses, addressJID, PN
    <3>4. Settled => Chat \notin SpeaksLID \/ PeerOf[Chat] \in known
      BY <1>1, <2>2, NamingAssumption DEF Settled
    <3> QED BY <1>1, <2>2, <3>2, <3>3, <3>4, Canonical DEF ChatSpellings, PlainChat
  <2> QED BY <2>1, <2>2
<1>3. /\ Post("sent", externalID(Me, chat, Me, msg), Me, FALSE)
      /\ named' = named \/ named' = [id |-> externalID(Me, chat, Me, msg), settled |-> Settled]
  BY DEF Sent, PostRow
<1>4. Me \in Spelled(Author)
  BY <1>1 DEF Spelled
<1> HIDE DEF chat
<1> QED BY <1>1, <1>2, <1>3, <1>4, PostFits

LEMMA RowInit == IntakeInit => RowInv
BY DEF IntakeInit, RowInv

LEMMA RowStep == RowInv /\ [IntakeNext]_intakeVars => RowInv'
<1> SUFFICES ASSUME RowInv, [IntakeNext]_intakeVars PROVE RowInv'
  OBVIOUS
<1>1. ASSUME UNCHANGED <<msg, named, post>>, Me \in known' PROVE RowInv'
  BY <1>1
  DEF RowInv, Fits, Spells, ChatSpellings, PlainChat, Author, Chat
<1>2. CASE Pair \/ Learn \/ UNCHANGED intakeVars
  BY <1>1, <1>2 DEF Pair, Learn, intakeVars, RowInv
<1>3. ASSUME NEW shown \in BOOLEAN, NEW content \in Contents, Live(content, shown)
      PROVE  RowInv'
  BY <1>3, RowsFit DEF Live
<1>4. ASSUME NEW shown \in BOOLEAN, NEW content \in Contents, NEW ack \in {"delivered", "sent"},
             Imported(content, ack, shown)
      PROVE  RowInv'
  BY <1>4, RowsFit DEF Imported
<1>5. ASSUME NEW shown \in BOOLEAN, NEW p \in Participants,
             \/ ProtocolMessage(p, shown)
             \/ SecretEncrypted(p, shown)
             \/ Reaction(p, shown)
             \/ Vote(p, shown)
      PROVE  RowInv'
  BY <1>5, KeysFit DEF ProtocolMessage, SecretEncrypted, Reaction, Vote
<1>6. ASSUME NEW shown \in BOOLEAN, NEW p \in Participants, Reply(p, shown) \/ Receipt(p, shown)
      PROVE  RowInv'
  BY <1>6, RepliesFit, ReceiptsFit
<1>7. CASE Arrives
  BY <1>3, <1>4, <1>5, <1>6, <1>7 DEF Arrives
<1>8. CASE \E address \in Addresses(Chat) : Sent(address)
  BY <1>8, SendsFit
<1> QED BY <1>2, <1>7, <1>8 DEF IntakeNext

LEMMA RowAlways == IntakeSpec => []RowInv
BY RowInit, RowStep, PTL DEF IntakeSpec

\* Two ids of one message are the same by person.
LEMMA OnePerson ==
  ASSUME msg \in Messages, NEW id, Spells(id)
  PROVE  ByPerson(id) = <<Me, PersonBehind(PlainChat), Author, msg>>
<1>1. PICK chat \in ChatSpellings, sender \in Spelled(Author) : id = <<Me, chat, sender, msg>>
  BY DEF Spells
<1>2. PersonBehind(sender) = Author
  BY Parties, Spellings
<1>3. PersonBehind(chat) = PersonBehind(PlainChat)
  <2>1. CASE IsGroup(Chat)
    BY <2>1 DEF ChatSpellings, PlainChat
  <2>2. CASE ~IsGroup(Chat)
    <3>1. PeerOf[Chat] \in People /\ PeerOf[Chat] \in Spelled(PeerOf[Chat])
      BY <2>2, Parties DEF Spelled
    <3> QED BY <2>2, <3>1, Spellings DEF ChatSpellings, PlainChat
  <2> QED BY <2>1, <2>2
<1>4. id[1] = Me /\ id[2] = chat /\ id[3] = sender /\ id[4] = msg
  BY <1>1
<1> QED BY <1>2, <1>3, <1>4 DEF ByPerson

\* Everything posted about a message, in whichever frame its key was written and whatever
\* whatsmeow knew of LIDs, names the message's one row; and a row's sender is its id's.
THEOREM PostsFindTheirRow == IntakeSpec => []PostsNameTheirRow
<1>1. RowInv => PostsNameTheirRow
  <2> SUFFICES ASSUME RowInv, post # NoPost PROVE
                 /\ named # NoPost =>
                      /\ ByPerson(post.id) = ByPerson(named.id)
                      /\ post.settled /\ named.settled => post.id = named.id
                 /\ post.how \in {"live", "history", "sent"} => post.from = post.id[3]
    BY DEF PostsNameTheirRow
  <2>1. Fits(post) /\ (post.how \in {"live", "history", "sent"} => post.from = post.id[3])
    BY DEF RowInv
  <2>2. ASSUME named # NoPost
        PROVE  /\ ByPerson(post.id) = ByPerson(named.id)
               /\ post.settled /\ named.settled => post.id = named.id
    BY <2>1, <2>2, OnePerson DEF RowInv, Fits
  <2> QED BY <2>1, <2>2
<1> QED BY <1>1, RowAlways, PTL

\* The id of a row leads back to its message: a reply quotes its author, and the key of our
\* reaction, revoke or edit is read, on its echo, as that author again.
THEOREM IdsLeadToTheirAuthor == IntakeSpec => []IdsLeadBack
<1>1. RowInv => IdsLeadBack
  <2> SUFFICES ASSUME RowInv, named # NoPost PROVE IdsLeadBack
    BY DEF IdsLeadBack
  <2> DEFINE sender == referencedKey(named.id).sender
             s      == Source(Chat, Me, FALSE)
             Echo(key) == keySender(known, s, Me, key.fromMe, key.participant)
  <2>1. /\ Author \in People /\ Me \in People /\ Chat \in ChatNames /\ Me \in Participants
        /\ IsGroup(Chat) \/ Author \in {Me, PeerOf[Chat]}
        /\ IsGroup(Chat) \/ Me \in {Me, PeerOf[Chat]}
    BY Parties DEF RowInv, Participants
  <2>2. referencedKey(named.id).id = msg /\ sender \in {PN(Author), LID(Author)}
    <3>1. PICK chat \in ChatSpellings, who \in Spelled(Author) : named.id = <<Me, chat, who, msg>>
      BY DEF RowInv, Fits, Spells
    <3>2. named.id[4] = msg /\ named.id[3] = who
      BY <3>1
    <3>3. CASE who = Author
      BY <2>1, <3>2, <3>3
      DEF referencedKey, parseExternalID, addressJID, Digits, PN
    <3>4. CASE who = LID(Author)
      <4>1. who # Me /\ who \notin Digits
        BY <2>1, <3>4, Spellings, AddressAssumption
      <4> QED BY <3>2, <3>4, <4>1 DEF referencedKey, parseExternalID, addressJID
    <3> QED BY <3>3, <3>4 DEF Spelled
  <2>3. sender \in {PN(Me), LID(Me)} <=> Author = Me
    <3>1. \A p \in People : PN(Author) = PN(p) => Author = p
      BY <2>1, Servers
    <3>2. \A p \in People : LID(Author) = LID(p) => Author = p
      BY <2>1, Spellings
    <3>3. \A p \in People : PN(Author) # LID(p) /\ LID(Author) # PN(p)
      BY <2>1, Servers
    <3> QED BY <2>1, <2>2, <3>1, <3>2, <3>3
  <2>4. /\ s.IsGroup = IsGroup(Chat)
        /\ chatSegment(known, s) \in ChatSpellings
    BY <2>1, Sources, ChatFits
  <2>5. ChatJID(Chat).server = GroupServer <=> IsGroup(Chat)
    <3>1. CASE IsGroup(Chat)
      BY <3>1 DEF ChatJID, JID
    <3>2. CASE ~IsGroup(Chat)
      <4>1. PeerOf[Chat] \in People
        BY <3>2, Parties DEF RowInv
      <4>2. ChatJID(Chat) \in {PN(PeerOf[Chat]), LID(PeerOf[Chat])}
        BY <2>1, <3>2, <4>1, Wires DEF ChatJID
      <4> QED BY <3>2, <4>1, <4>2, Servers DEF GroupServer, NumberServer, LidServer
    <3> QED BY <3>1, <3>2
  <2> DEFINE key == MessageKey(ChatJID(Chat), sender, msg)
  <2> HIDE DEF sender, s
  <2>6. key.id = msg /\ PersonBehind(Echo(key)) = Author
    <3>1. /\ key.id = msg
          /\ key.fromMe = (sender \in {PN(Me), LID(Me)})
          /\ key.participant = IF sender \in {PN(Me), LID(Me)} \/ ChatJID(Chat).server # GroupServer
                               THEN NoJID ELSE sender
      BY DEF MessageKey
    <3> HIDE DEF key
    <3>2. CASE Author = Me
      <4>1. Echo(key) = Me
        BY <2>3, <3>1, <3>2 DEF keySender
      <4> QED BY <2>1, <3>1, <3>2, <4>1 DEF PersonBehind
    <3>3. CASE Author # Me /\ IsGroup(Chat)
      <4>1. key.participant = sender /\ sender # NoJID
        BY <2>1, <2>2, <2>3, <2>5, <3>1, <3>3, Servers
      <4>2. Echo(key) = canonicalUser(known, sender, NoJID)
        BY <2>3, <3>1, <3>3, <4>1 DEF keySender
      <4>3. Echo(key) \in Spelled(Author)
        BY <2>1, <2>2, <4>2, Canonical
      <4> QED BY <2>1, <3>1, <4>3, Spellings
    <3>4. CASE Author # Me /\ ~IsGroup(Chat)
      <4>1. Echo(key) = chatSegment(known, s)
        BY <2>3, <2>4, <2>5, <3>1, <3>4 DEF keySender
      <4>2. Echo(key) \in Spelled(Author)
        BY <2>1, <2>4, <3>4, <4>1 DEF ChatSpellings
      <4> QED BY <2>1, <3>1, <4>2, Spellings
    <3> QED BY <3>2, <3>3, <3>4
  <2>7. ASSUME Author = Me
        PROVE  LET edit == buildEdit(ChatJID(Chat), named.id)
               IN edit.id = msg /\ PersonBehind(Echo(edit)) = Author
    <3>1. buildEdit(ChatJID(Chat), named.id).id = msg /\ buildEdit(ChatJID(Chat), named.id).fromMe = TRUE
      BY <2>2 DEF buildEdit, MessageKey
    <3>2. Echo(buildEdit(ChatJID(Chat), named.id)) = Me
      BY <3>1 DEF keySender
    <3> QED BY <2>1, <2>7, <3>1, <3>2 DEF PersonBehind
  <2>8. /\ buildReaction(ChatJID(Chat), named.id) = key /\ buildRevoke(ChatJID(Chat), named.id) = key
        /\ replyContext(named.id).stanza = msg /\ replyContext(named.id).participant = sender
    BY <2>2 DEF buildReaction, buildRevoke, replyContext, sender
  <2> HIDE DEF key
  <2> QED BY <2>2, <2>6, <2>7, <2>8 DEF IdsLeadBack, s
<1> QED BY <1>1, RowAlways, PTL

-----------------------------------------------------------------------------
LEMMA PostArms ==
  ASSUME NEW how, NEW id, NEW from, NEW arms, Post(how, id, from, arms),
         arms => how = "live" /\ Author # Me
  PROVE  OnlyTheLiveArm'
<1>1. post'.how = how /\ post'.arms = arms /\ Author' = Author
  BY DEF Post, Author
<1> QED BY <1>1 DEF OnlyTheLiveArm

\* Only what somebody else says now arms the consumer's automation: an imported row always
\* carries a status.
THEOREM OnlyTheLiveAreAnswered == IntakeSpec => []OnlyTheLiveArm
<1>1. IntakeInit => OnlyTheLiveArm
  BY DEF IntakeInit, OnlyTheLiveArm
<1>2. OnlyTheLiveArm /\ [IntakeNext]_intakeVars => OnlyTheLiveArm'
  <2> SUFFICES ASSUME OnlyTheLiveArm, [IntakeNext]_intakeVars PROVE OnlyTheLiveArm'
    OBVIOUS
  <2>1. CASE Pair \/ Learn \/ UNCHANGED intakeVars
    BY <2>1 DEF Pair, Learn, intakeVars, OnlyTheLiveArm, Author
  <2>2. ASSUME NEW shown \in BOOLEAN, NEW content \in Contents, Live(content, shown)
        PROVE  OnlyTheLiveArm'
    <3>1. Source(Chat, Author, shown).IsFromMe = (Author = Me)
      BY DEF Source
    <3>2. PICK arms : /\ arms => ~Source(Chat, Author, shown).IsFromMe
                      /\ Post("live", RowID(Source(Chat, Author, shown)),
                              senderAddressFor(known, Source(Chat, Author, shown)), arms)
      BY <2>2 DEF Live, PostRow
    <3>3. arms => Author # Me
      BY <3>1, <3>2
    <3> QED BY <3>2, <3>3, PostArms
  <2>3. ASSUME NEW shown \in BOOLEAN, NEW content \in Contents, NEW ack \in {"delivered", "sent"},
               Imported(content, ack, shown)
        PROVE  OnlyTheLiveArm'
    <3> DEFINE s == Source(Chat, Author, shown)
               status == historyStatus(s.IsFromMe, ack, buildContent(content, FALSE).mediaErr)
    <3>1. status # {}
      BY DEF historyStatus
    <3>2. Post("history", RowID(s), senderAddressFor(known, s), status = {})
      BY <2>3 DEF Imported, PostRow
    <3> HIDE DEF status, s
    <3> QED BY <3>1, <3>2, PostArms
  <2>4. ASSUME NEW how, NEW s, NEW fromMe, NEW participant, Refer(how, s, fromMe, participant)
        PROVE  OnlyTheLiveArm'
    BY <2>4, PostArms DEF Refer
  <2>5. ASSUME NEW shown \in BOOLEAN, NEW p \in Participants,
               \/ ProtocolMessage(p, shown)
               \/ SecretEncrypted(p, shown)
               \/ Reaction(p, shown)
               \/ Vote(p, shown)
               \/ Reply(p, shown)
        PROVE  OnlyTheLiveArm'
    BY <2>4, <2>5 DEF ProtocolMessage, SecretEncrypted, Reaction, Vote, Reply, Keyed
  <2>6. ASSUME NEW shown \in BOOLEAN, NEW p \in Participants, Receipt(p, shown)
        PROVE  OnlyTheLiveArm'
    BY <2>6, PostArms DEF Receipt
  <2>7. CASE Arrives
    BY <2>2, <2>3, <2>5, <2>6, <2>7 DEF Arrives
  <2>8. ASSUME NEW address \in Addresses(Chat), Sent(address)
        PROVE  OnlyTheLiveArm'
    BY <2>8, PostArms DEF Sent, PostRow
  <2> QED BY <2>1, <2>7, <2>8 DEF IntakeNext
<1> QED BY <1>1, <1>2, PTL DEF IntakeSpec

-----------------------------------------------------------------------------
(***************************************************************************)
(* The type invariant.  An id that spells the message is made of segments, *)
(* and so is the sender beside it.                                         *)
(***************************************************************************)
Typed ==
  /\ paired \in BOOLEAN /\ known \in SUBSET People
  /\ \/ named = NoPost
     \/ /\ named = [id |-> named.id, settled |-> named.settled]
        /\ named.settled \in BOOLEAN
  /\ \/ post = NoPost
     \/ /\ post = [how |-> post.how, id |-> post.id, from |-> post.from,
                    arms |-> post.arms, settled |-> post.settled]
        /\ post.how \in Hows /\ post.from \in Segments \union {NoPost}
        /\ post.arms \in BOOLEAN /\ post.settled \in BOOLEAN

LEMMA SpellingsAreSegments ==
  ASSUME msg \in Messages
  PROVE  /\ Spelled(Author) \subseteq Segments /\ ChatSpellings \subseteq Segments
         /\ \A p \in People : Spelled(p) \subseteq Segments
         /\ \A id : Spells(id) => id \in Names
<1>1. \A p \in People : Spelled(p) \subseteq Segments
  BY DEF Spelled, Segments
<1>2. /\ Author \in People /\ Chat \in ChatNames /\ Me \in People
      /\ ~IsGroup(Chat) => PeerOf[Chat] \in People
  BY Parties
<1>3. ChatSpellings \subseteq Segments
  BY <1>1, <1>2 DEF ChatSpellings, Segments
<1>4. ASSUME NEW id, Spells(id) PROVE id \in Names
  <2>1. PICK chat \in ChatSpellings, sender \in Spelled(Author) : id = <<Me, chat, sender, msg>>
    BY <1>4 DEF Spells
  <2>2. chat \in Segments /\ sender \in Segments
    BY <1>1, <1>2, <1>3, <2>1
  <2> QED BY <2>1, <2>2 DEF Names
<1> QED BY <1>1, <1>2, <1>3, <1>4

LEMMA PostTyped ==
  ASSUME Typed, NEW how \in Hows, NEW id, NEW from \in Segments \union {NoPost}, NEW arms \in BOOLEAN,
         Post(how, id, from, arms),
         named' = named \/ named' = [id |-> id, settled |-> Settled]
  PROVE  Typed'
<1>1. Settled \in BOOLEAN
  BY DEF Settled
<1>2. /\ paired' = paired /\ known' = known
      /\ post' = [how |-> how, id |-> id, from |-> from, arms |-> arms, settled |-> Settled]
  BY DEF Post
<1>3. UNCHANGED <<Segments>>
  BY DEF Segments
<1> QED BY <1>1, <1>2, <1>3 DEF Typed

\* The sender of what p sends, as it is posted.
LEMMA SendersAreSegments ==
  ASSUME msg \in Messages, NEW p \in Participants, NEW shown \in BOOLEAN
  PROVE  senderAddressFor(known, Source(Chat, p, shown)) \in Segments
<1>1. senderAddressFor(known, Source(Chat, p, shown)) \in Spelled(p) /\ p \in People
  BY Parties, Sources
<1> QED BY <1>1, SpellingsAreSegments

LEMMA TypedStep == RowInv /\ Typed /\ [IntakeNext]_intakeVars => Typed'
<1> SUFFICES ASSUME RowInv, Typed, [IntakeNext]_intakeVars PROVE Typed'
  OBVIOUS
<1>0. msg \in Messages /\ Author \in Participants /\ Me \in Segments
  BY Parties DEF RowInv, Participants, Segments
<1>1. CASE Pair \/ Learn \/ UNCHANGED intakeVars
  BY <1>1 DEF Pair, Learn, intakeVars, Typed
<1>2. ASSUME NEW how \in Hows, NEW id, NEW from \in Segments, NEW arms \in BOOLEAN,
             PostRow(how, id, from, arms)
      PROVE  Typed'
  BY <1>2, PostTyped DEF PostRow
<1>3. ASSUME NEW how \in Hows, NEW p \in Participants, NEW shown \in BOOLEAN, NEW fromMe, NEW participant,
             Refer(how, Source(Chat, p, shown), fromMe, participant)
      PROVE  Typed'
  <2>1. senderAddressFor(known, Source(Chat, p, shown)) \in Segments
    BY <1>0, SendersAreSegments
  <2>2. PICK id : Post(how, id, senderAddressFor(known, Source(Chat, p, shown)), FALSE) /\ named' = named
    BY <1>3 DEF Refer
  <2> QED BY <2>1, <2>2, PostTyped
<1>4. ASSUME NEW shown \in BOOLEAN, NEW content \in Contents, Live(content, shown) PROVE Typed'
  <2>1. senderAddressFor(known, Source(Chat, Author, shown)) \in Segments
    BY <1>0, SendersAreSegments
  <2> DEFINE s    == Source(Chat, Author, shown)
             arms == ~s.IsFromMe /\ ~buildContent(content, TRUE).mediaErr
  <2>2. PostRow("live", RowID(s), senderAddressFor(known, s), arms)
    BY <1>4 DEF Live
  <2>3. arms \in BOOLEAN
    OBVIOUS
  <2> HIDE DEF arms
  <2> QED BY <1>2, <2>1, <2>2, <2>3 DEF Hows
<1>5. ASSUME NEW shown \in BOOLEAN, NEW content \in Contents, NEW ack \in {"delivered", "sent"},
             Imported(content, ack, shown)
      PROVE  Typed'
  <2>1. senderAddressFor(known, Source(Chat, Author, shown)) \in Segments
    BY <1>0, SendersAreSegments
  <2> DEFINE s    == Source(Chat, Author, shown)
             arms == historyStatus(s.IsFromMe, ack, buildContent(content, FALSE).mediaErr) = {}
  <2>2. PostRow("history", RowID(s), senderAddressFor(known, s), arms)
    BY <1>5 DEF Imported
  <2>3. arms \in BOOLEAN
    OBVIOUS
  <2> HIDE DEF arms
  <2> QED BY <1>2, <2>1, <2>2, <2>3 DEF Hows
<1>6. ASSUME NEW shown \in BOOLEAN, NEW p \in Participants,
             \/ ProtocolMessage(p, shown)
             \/ SecretEncrypted(p, shown)
             \/ Reaction(p, shown)
             \/ Vote(p, shown)
             \/ Reply(p, shown)
      PROVE  Typed'
  <2>1. ASSUME NEW how \in Hows, Keyed(how, p, shown) PROVE Typed'
    BY <1>3, <2>1 DEF Keyed
  <2>2. CASE Reply(p, shown)
    BY <1>3, <2>2 DEF Hows, Reply
  <2>3. CASE ProtocolMessage(p, shown) \/ SecretEncrypted(p, shown) \/ Reaction(p, shown) \/ Vote(p, shown)
    BY <2>1, <2>3 DEF Hows, ProtocolMessage, SecretEncrypted, Reaction, Vote
  <2> QED BY <1>6, <2>2, <2>3
<1>7. ASSUME NEW shown \in BOOLEAN, NEW p \in Participants, Receipt(p, shown) PROVE Typed'
  <2>1. PICK id : Post("receipt", id, NoPost, FALSE) /\ named' = named
    BY <1>7 DEF Receipt
  <2>2. NoPost \in Segments \union {NoPost} /\ FALSE \in BOOLEAN
    OBVIOUS
  <2> QED BY <2>1, <2>2, PostTyped DEF Hows
<1>8. ASSUME NEW address, Sent(address) PROVE Typed'
  <2>1. PICK id : PostRow("sent", id, Me, FALSE)
    BY <1>8 DEF Sent
  <2>2. FALSE \in BOOLEAN
    OBVIOUS
  <2> QED BY <1>0, <1>2, <2>1, <2>2 DEF Hows
<1> QED BY <1>1, <1>4, <1>5, <1>6, <1>7, <1>8 DEF IntakeNext, Arrives

\* Ids are tuples of canonical segments, none of them a LID's bare digits, whatever is posted
\* and whatever is known when it is.
THEOREM IntakeTypeCorrect == IntakeSpec => []IntakeTypeOK
<1>1. IntakeInit => Typed
  <2> SUFFICES ASSUME IntakeInit PROVE Typed
    OBVIOUS
  <2>1. paired = FALSE /\ known = {Me} /\ named = NoPost /\ post = NoPost
    BY DEF IntakeInit
  <2>2. paired \in BOOLEAN
    BY <2>1
  <2>3. known \in SUBSET People
    BY <2>1, NamingAssumption
  <2>4. (named = NoPost) /\ (post = NoPost)
    BY <2>1
  <2> QED BY <2>2, <2>3, <2>4, Zenon DEF Typed
<1>2. RowInv /\ Typed => IntakeTypeOK
  <2> SUFFICES ASSUME RowInv, Typed PROVE IntakeTypeOK
    OBVIOUS
  <2>1. msg \in Messages
    BY DEF RowInv
  <2>2. named # NoPost => named.id \in Names
    BY <2>1, SpellingsAreSegments DEF RowInv, Fits
  <2>3. post # NoPost => post.id \in Names
    BY <2>1, SpellingsAreSegments DEF RowInv, Fits
  <2>4. named = NoPost \/ named \in [id : Names, settled : BOOLEAN]
    BY <2>2 DEF Typed
  <2>5. post = NoPost
          \/ post \in [how : Hows, id : Names, from : Segments \union {NoPost}, arms : BOOLEAN, settled : BOOLEAN]
    BY <2>3 DEF Typed
  <2> QED BY <2>1, <2>4, <2>5 DEF Typed, IntakeTypeOK
<1> QED BY <1>1, <1>2, RowInit, RowStep, TypedStep, PTL DEF IntakeSpec
=============================================================================
