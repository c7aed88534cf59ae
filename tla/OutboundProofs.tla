--------------------------- MODULE OutboundProofs ---------------------------
(***************************************************************************)
(* Theorems of Mentions, Interactive, Roster and Dispatch, the modules of  *)
(* what the consumer has the bridge do.  Each is about its own             *)
(* specification, for any people, chats, messages, rows and faults; the    *)
(* last is about Outbound, the four beside one another.                    *)
(***************************************************************************)
EXTENDS Outbound, SequenceTheorems, FiniteSetTheorems, WellFoundedInduction, TLAPS

\* What a LID's digits lead back to, and how the two addresses of a person are written.
LEMMA LidsLeadBack == \A p \in People : PersonOf(Lid[p]) = p
<1> TAKE p \in People
<1>1. PersonOf(Lid[p]) \in People /\ Lid[PersonOf(Lid[p])] = Lid[p]
  BY DEF PersonOf
<1> QED BY <1>1, NamingAssumption

LEMMA TwoAddresses ==
  ASSUME NEW p \in People
  PROVE  /\ PN(p).server = NumberServer /\ PN(p).user = p
         /\ LID(p).server = LidServer /\ LID(p).user = Lid[p]
         /\ NumberServer # LidServer /\ PN(p) # LID(p)
         /\ LID(p) \notin People
         /\ \A q \in People : (PN(p) = PN(q) => p = q) /\ (LID(p) = LID(q) => p = q)
<1>1. /\ PN(p).server = NumberServer /\ PN(p).user = p
      /\ LID(p).server = LidServer /\ LID(p).user = Lid[p]
      /\ NumberServer # LidServer
  BY DEF PN, LID, JID, NumberServer, LidServer
<1>2. LID(p) \notin People
  BY AddressAssumption DEF Digits
<1>3. ASSUME NEW q \in People PROVE (PN(p) = PN(q) => p = q) /\ (LID(p) = LID(q) => p = q)
  <2>1. PN(q).user = q /\ LID(q).user = Lid[q]
    BY DEF PN, LID, JID
  <2> QED BY <1>1, <2>1, NamingAssumption
<1> QED BY <1>1, <1>2, <1>3

\* An address stands for one person, and is sent to one of their two JIDs.
LEMMA Addressed ==
  ASSUME NEW p \in People
  PROVE  /\ PersonBehind(p) = p /\ addressJID(p) = PN(p)
         /\ PersonBehind(LID(p)) = p /\ addressJID(LID(p)) = LID(p)
<1>1. PersonBehind(p) = p /\ addressJID(p) = PN(p)
  BY DEF PersonBehind, addressJID, Digits, PN
<1>2. addressJID(LID(p)) = LID(p)
  BY AddressAssumption DEF addressJID
<1>3. PersonBehind(LID(p)) = p
  BY TwoAddresses, LidsLeadBack DEF PersonBehind
<1> QED BY <1>1, <1>2, <1>3

-----------------------------------------------------------------------------
(***************************************************************************)
(* Mentions.  The invariant follows the mode from WhatsApp to the cache: a *)
(* chat of numbers has only been heard as one, a LID chat never as one,    *)
(* and what was heard as a LID chat is noted as one until an older word of *)
(* it is noted over that.                                                  *)
(***************************************************************************)
LEMMA WiredMention ==
  ASSUME NEW a \in Mentioned, NEW lids \in SUBSET People, NEW lidChat \in BOOLEAN
  PROVE  LET p == PersonBehind(a)
         IN /\ wireMention(lids, a, lidChat) \in {PN(p), LID(p)}
            /\ lidChat /\ p \in lids => wireMention(lids, a, lidChat) = LID(p)
            /\ ~lidChat /\ a = p => wireMention(lids, a, lidChat) = PN(p)
<1>1. CASE a \in People
  <2>1. PersonBehind(a) = a /\ addressJID(a) = PN(a) /\ PN(a).server = NumberServer
    BY <1>1, Addressed, TwoAddresses
  <2> QED BY <2>1 DEF wireMention
<1>2. CASE a \notin People
  <2>1. PICK p \in People : a = LID(p)
    BY <1>2, MentionsAssumption
  <2>2. /\ PersonBehind(a) = p /\ addressJID(a) = LID(p)
        /\ LID(p).server # NumberServer /\ a # p
    BY <1>2, <2>1, Addressed, TwoAddresses
  <2> QED BY <2>2 DEF wireMention
<1> QED BY <1>1, <1>2

\* A queue of modes stays one, whatever is put in or taken out.
LEMMA Queued ==
  ASSUME NEW modes
  PROVE  /\ <<>> \in Seq(modes)
         /\ \A q \in Seq(modes) : \A m \in modes : Append(q, m) \in Seq(modes)
         /\ \A q \in Seq(modes) : q # <<>> => Head(q) \in modes /\ Tail(q) \in Seq(modes)
BY EmptySeq, AppendProperties, HeadTailProperties

\* The modes in which a chat may have been spoken: a group moves from the one to the other.
ModesHeard == IF server = LidServer THEN {"lid"} ELSE IF mode = "pn" THEN {"pn"} ELSE {"pn", "lid"}

ModeFollowed ==
  /\ server \in {GroupServer, NumberServer, LidServer}
  /\ mode \in {"pn", "lid"} /\ (server = LidServer => mode = "lid")
  /\ mapped \in SUBSET People
  /\ heardLid \in BOOLEAN /\ behind \in BOOLEAN
  /\ inbound \in Seq(ModesHeard)
  /\ addrMode \in {""} \union ModesHeard
  /\ asked \in [Askers -> {"idle"} \union ModesHeard]
  /\ server # GroupServer => \A a \in Askers : asked[a] = "idle"
  /\ heardLid /\ ~behind => addrMode = "lid"

LEMMA Servers == GroupServer # LidServer /\ GroupServer # NumberServer /\ NumberServer # LidServer
BY DEF GroupServer, NumberServer, LidServer

LEMMA ModeInit == MentionsInit => ModeFollowed /\ MentionsSpeakTheChat
<1> SUFFICES ASSUME MentionsInit PROVE ModeFollowed /\ MentionsSpeakTheChat
  OBVIOUS
<1>1. /\ server \in {GroupServer, NumberServer, LidServer}
      /\ mode \in {"pn", "lid"} /\ (server = LidServer => mode = "lid")
  BY Servers DEF MentionsInit
<1>2. inbound = <<>> /\ addrMode = "" /\ asked = [a \in Askers |-> "idle"]
  BY DEF MentionsInit
<1>3. inbound \in Seq(ModesHeard)
  BY <1>2, Queued
<1>4. ModeFollowed
  BY <1>1, <1>2, <1>3 DEF MentionsInit, ModeFollowed
<1>5. MentionsSpeakTheChat
  BY DEF MentionsInit, MentionsSpeakTheChat
<1> QED BY <1>4, <1>5

\* Noting a mode keeps to the modes heard, and a chat heard as LID stays noted so.
LEMMA NotedMode ==
  ASSUME ModeFollowed, NEW noted \in ModesHeard, noteAddressingMode(noted)
  PROVE  /\ noted \in {"pn", "lid"}
         /\ addrMode' = noted /\ heardLid' \in BOOLEAN /\ behind' \in BOOLEAN
         /\ heardLid' /\ ~behind' => addrMode' = "lid"
<1>1. noted \in {"pn", "lid"}
  BY DEF ModesHeard
<1>2. heardLid' \in BOOLEAN /\ behind' \in BOOLEAN
  BY DEF noteAddressingMode
<1>3. addrMode' = noted
  BY <1>1 DEF noteAddressingMode
<1>4. heardLid' /\ ~behind' => noted = "lid"
  BY <1>1 DEF noteAddressingMode
<1> QED BY <1>1, <1>2, <1>3, <1>4

\* Mentions written to a chat the bridge takes for what it is speak its language.
LEMMA Encoded ==
  ASSUME ModeFollowed, NEW lidChat \in BOOLEAN, encodeMentions(lidChat),
         UNCHANGED server,
         server = LidServer => lidChat, mode = "pn" => ~lidChat,
         heardLid' /\ ~behind' => lidChat
  PROVE  MentionsSpeakTheChat'
<1>1. /\ mention'.jids = [a \in Mentioned |-> wireMention(mapped, a, lidChat)]
      /\ mention'.mapped = mapped /\ mention'.mode = mode
      /\ mention'.sure = (heardLid' /\ ~behind')
  BY DEF encodeMentions
<1>2. mapped \in SUBSET People
  BY DEF ModeFollowed
<1> QED BY <1>1, <1>2, WiredMention DEF MentionsSpeakTheChat

LEMMA ModeStep ==
  ModeFollowed /\ MentionsSpeakTheChat /\ [MentionsNext]_mentionVars
    => ModeFollowed' /\ MentionsSpeakTheChat'
<1> SUFFICES ASSUME ModeFollowed, MentionsSpeakTheChat, [MentionsNext]_mentionVars
             PROVE  ModeFollowed' /\ MentionsSpeakTheChat'
  OBVIOUS
<1> USE DEF mentionVars
<1>1. ASSUME UNCHANGED <<mention, server>> PROVE MentionsSpeakTheChat'
  BY <1>1 DEF MentionsSpeakTheChat
<1>0. ASSUME UNCHANGED <<server, mode>> PROVE ModesHeard' = ModesHeard
  BY <1>0 DEF ModesHeard
<1>2. CASE Migrate
  <2>1. ModesHeard \subseteq ModesHeard' /\ UNCHANGED <<server, inbound, addrMode, asked>>
    BY <1>2, Servers DEF Migrate, ModesHeard
  <2>2. inbound' \in Seq(ModesHeard')
    BY <2>1, SeqMonotonic DEF ModeFollowed
  <2> QED BY <1>1, <1>2, <2>1, <2>2, Servers DEF Migrate, ModeFollowed
<1>3. CASE Speak
  <2>1. mode \in ModesHeard
    BY DEF ModeFollowed, ModesHeard
  <2>2. inbound' \in Seq(ModesHeard)
    BY <1>3, <2>1, Queued DEF Speak, ModeFollowed
  <2> QED BY <1>0, <1>1, <1>3, <2>2 DEF Speak, ModeFollowed
<1>4. CASE FileLid
  BY <1>0, <1>1, <1>4 DEF FileLid, ModeFollowed
<1>5. CASE Hear
  <2>1. Head(inbound) \in ModesHeard /\ Tail(inbound) \in Seq(ModesHeard)
    BY <1>5, Queued DEF Hear, ModeFollowed
  <2>2. /\ addrMode' \in ModesHeard /\ heardLid' \in BOOLEAN /\ behind' \in BOOLEAN
        /\ heardLid' /\ ~behind' => addrMode' = "lid"
    BY <1>5, <2>1, NotedMode DEF Hear
  <2> QED BY <1>0, <1>1, <1>5, <2>1, <2>2 DEF Hear, ModeFollowed
<1>6. CASE AskRoute \/ AskSend
  <2>1. mode \in ModesHeard /\ server = GroupServer
    BY <1>6, Servers DEF ModeFollowed, ModesHeard, AskRoute, AskSend, Told
  <2>2. asked' \in [Askers -> {"idle"} \union ModesHeard]
    BY <1>6, <2>1 DEF ModeFollowed, AskRoute, AskSend, Askers
  <2>3. UNCHANGED <<server, mode, inbound, mapped, addrMode, mention, heardLid, behind>>
    BY <1>6 DEF AskRoute, AskSend
  <2> QED BY <1>0, <1>1, <2>1, <2>2, <2>3 DEF ModeFollowed
<1>7. CASE NoteRoute
  <2>1. asked["route"] \in ModesHeard /\ asked' \in [Askers -> {"idle"} \union ModesHeard]
    BY <1>7 DEF NoteRoute, ModeFollowed, Askers
  <2>2. /\ addrMode' \in ModesHeard /\ heardLid' \in BOOLEAN /\ behind' \in BOOLEAN
        /\ heardLid' /\ ~behind' => addrMode' = "lid"
    BY <1>7, <2>1, NotedMode DEF NoteRoute
  <2>3. server = GroupServer
    BY <1>7 DEF NoteRoute, ModeFollowed, Askers
  <2> QED BY <1>0, <1>1, <1>7, <2>1, <2>2, <2>3 DEF NoteRoute, ModeFollowed
<1>8. CASE SendTold
  <2>1. /\ SpeaksLid \in BOOLEAN /\ (server = LidServer => SpeaksLid) /\ (mode = "pn" => ~SpeaksLid)
        /\ heardLid /\ ~behind => SpeaksLid
    BY DEF SpeaksLid, ModeFollowed, ModesHeard
  <2>2. MentionsSpeakTheChat'
    BY <1>8, <2>1, Encoded DEF SendTold
  <2> QED BY <1>0, <1>8, <2>2 DEF SendTold, ModeFollowed
<1>9. CASE SendAnswered
  <2>1. asked["send"] \in ModesHeard /\ asked' \in [Askers -> {"idle"} \union ModesHeard]
    BY <1>9 DEF SendAnswered, ModeFollowed, Askers
  <2>2. /\ addrMode' = asked["send"] /\ heardLid' \in BOOLEAN /\ behind' \in BOOLEAN
        /\ heardLid' /\ ~behind' => addrMode' = "lid"
    BY <1>9, <2>1, NotedMode DEF SendAnswered
  <2>3. server = GroupServer
    BY <1>9 DEF SendAnswered, ModeFollowed, Askers
  <2>4. (mode = "pn" => asked["send"] # "lid") /\ server # LidServer
    BY <2>1, <2>3, Servers DEF ModesHeard
  <2>5. MentionsSpeakTheChat'
    BY <1>9, <2>2, <2>4, Encoded DEF SendAnswered
  <2> QED BY <1>0, <1>9, <2>1, <2>2, <2>3, <2>5 DEF SendAnswered, ModeFollowed
<1>10. CASE SendUnanswered
  <2>1. asked' \in [Askers -> {"idle"} \union ModesHeard] /\ server = GroupServer
    BY <1>10 DEF SendUnanswered, ModeFollowed, Askers
  <2>2. MentionsSpeakTheChat'
    BY <1>10, <2>1, Servers, WiredMention DEF SendUnanswered, ModeFollowed, MentionsSpeakTheChat
  <2> QED BY <1>0, <1>10, <2>1, <2>2 DEF SendUnanswered, ModeFollowed
<1>11. CASE MentionsRestart
  BY <1>0, <1>1, <1>11 DEF MentionsRestart, ModeFollowed
<1>12. CASE UNCHANGED mentionVars
  BY <1>0, <1>1, <1>12 DEF ModeFollowed
<1> QED BY <1>2, <1>3, <1>4, <1>5, <1>6, <1>7, <1>8, <1>9, <1>10, <1>11, <1>12 DEF MentionsNext

\* Whoever is mentioned is named by their own number or LID and, once the bridge has noted what
\* the chat speaks, in that namespace, through migrations, late answers and restarts.
THEOREM MentionsInTheChatsNamespace == MentionsSpec => []MentionsSpeakTheChat
BY ModeInit, ModeStep, PTL DEF MentionsSpec

\* The rest of the type invariant: the count of messages, and the mentions of a send.
MentionTyped == spoken \in 0..MaxHeard /\ (mention = NoSend \/ DOMAIN mention.jids = Mentioned)

LEMMA MentionTypedStep == MentionTyped /\ [MentionsNext]_mentionVars => MentionTyped'
<1> SUFFICES ASSUME MentionTyped, [MentionsNext]_mentionVars PROVE MentionTyped'
  OBVIOUS
<1>1. MaxHeard \in Nat
  BY MentionsAssumption
<1>2. CASE Speak
  BY <1>1, <1>2 DEF Speak, MentionTyped
<1>3. ASSUME NEW lidChat, encodeMentions(lidChat), UNCHANGED spoken PROVE MentionTyped'
  <2>1. mention'.jids = [a \in Mentioned |-> wireMention(mapped, a, lidChat)]
    BY <1>3 DEF encodeMentions
  <2> QED BY <1>3, <2>1 DEF MentionTyped
<1>4. CASE SendTold \/ SendAnswered
  BY <1>3, <1>4 DEF SendTold, SendAnswered
<1>5. CASE SendUnanswered
  <2>1. mention'.jids = [a \in Mentioned |-> wireMention(mapped, a, FALSE)]
    BY <1>5 DEF SendUnanswered
  <2> QED BY <1>5, <2>1 DEF SendUnanswered, MentionTyped
<1>6. CASE Migrate \/ FileLid \/ Hear \/ AskRoute \/ NoteRoute \/ AskSend \/ MentionsRestart
           \/ UNCHANGED mentionVars
  BY <1>6 DEF Migrate, FileLid, Hear, AskRoute, NoteRoute, AskSend, MentionsRestart, mentionVars, MentionTyped
<1> QED BY <1>2, <1>4, <1>5, <1>6 DEF MentionsNext

\* What the bridge knows of a chat's mode, and what WhatsApp has yet to give it, is well formed,
\* and a send writes one JID for each address it mentions.
THEOREM MentionsTypeCorrect == MentionsSpec => []MentionsTypeOK
<1>1. MentionsInit => MentionTyped
  <2> SUFFICES ASSUME MentionsInit PROVE MentionTyped
    OBVIOUS
  <2>1. spoken = 0 /\ mention = NoSend
    BY DEF MentionsInit
  <2> QED BY <2>1, MentionsAssumption DEF MentionTyped
<1>2. ModeFollowed /\ MentionTyped => MentionsTypeOK
  <2> SUFFICES ASSUME ModeFollowed, MentionTyped PROVE MentionsTypeOK
    OBVIOUS
  <2>1. ModesHeard \subseteq {"pn", "lid"}
    BY DEF ModesHeard
  <2>2. inbound \in Seq({"pn", "lid"})
    BY <2>1, SeqMonotonic DEF ModeFollowed
  <2>3. addrMode \in {"", "pn", "lid"} /\ asked \in [Askers -> {"idle", "pn", "lid"}]
    BY <2>1 DEF ModeFollowed
  <2>4. {heardLid, behind} \subseteq BOOLEAN
    BY DEF ModeFollowed
  <2> QED BY <2>2, <2>3, <2>4 DEF ModeFollowed, MentionTyped, MentionsTypeOK
<1> QED BY <1>1, <1>2, ModeInit, ModeStep, MentionTypedStep, PTL DEF MentionsSpec

-----------------------------------------------------------------------------
(***************************************************************************)
(* Interactive.  What is kept is what the message offered, whenever it was *)
(* first seen, so the first option picked is the first button named.       *)
(***************************************************************************)
LEMMA FirstIsLeast ==
  ASSUME NEW places \in SUBSET Nat, places # {}
  PROVE  First(places) \in places /\ \A j \in places : First(places) <= j
<1> DEFINE smaller == {ss \in Nat \X Nat : ss[1] < ss[2]}
<1>1. IsWellFoundedOn(smaller, Nat)
  BY NatLessThanWellFounded DEF OpToRel
<1>2. \E i \in places : \A j \in places : ~(<<j, i>> \in smaller)
  <2> HIDE DEF smaller
  <2> QED BY <1>1, WFMin
<1>3. \A i, j \in Nat : <<j, i>> \notin smaller => i <= j
  OBVIOUS
<1>4. PICK i \in places : \A j \in places : i <= j
  BY <1>2, <1>3
<1> QED BY <1>4 DEF First

\* What a text picks of the options kept are the buttons it names.
LEMMA PickedAreNamed ==
  ASSUME offer \in Offers, kept = interactiveOf(offer), NEW said \in Texts
  PROVE  /\ Picked(said) = Named(said) /\ Named(said) \in SUBSET Nat
         /\ kept.form = offer.form /\ offer.form \in Forms
         /\ \A i \in Named(said) : kept.options[i] = offer.buttons[i]
         /\ Named(said) \subseteq DOMAIN kept.options
<1>1. /\ offer.form \in Forms
      /\ offer.buttons \in Seq([kind : Kinds, id : Texts, title : Texts, index : Nat])
  BY InteractiveAssumption
<1>2. /\ kept.form = offer.form
      /\ DOMAIN kept.options = {j \in DOMAIN offer.buttons : Offered(offer.buttons[j])}
      /\ \A i \in DOMAIN kept.options : kept.options[i] = offer.buttons[i]
  BY DEF interactiveOf
<1>3. \A i \in DOMAIN offer.buttons :
        /\ i \in Nat /\ offer.buttons[i].kind \in Kinds
        /\ Offered(offer.buttons[i]) <=> offer.buttons[i].kind \notin {"cta_url", "cta_call", "other"}
  <2> DEFINE Buttons == [kind : Kinds, id : Texts, title : Texts, index : Nat]
  <2>1. DOMAIN offer.buttons = 1..Len(offer.buttons) /\ Len(offer.buttons) \in Nat
    BY <1>1, LenProperties
  <2>2. \A i \in 1..Len(offer.buttons) : offer.buttons[i] \in Buttons
    BY <1>1, ElementOfSeq
  <2>3. \A i \in DOMAIN offer.buttons : i \in Nat /\ offer.buttons[i].kind \in Kinds
    BY <2>1, <2>2
  <2> QED BY <2>3 DEF Offered, Kinds, Flows, Links
<1>4. Picked(said) = Named(said)
  BY <1>2, <1>3 DEF Picked, Named, Names
<1> QED BY <1>1, <1>2, <1>3, <1>4 DEF Picked

\* What a press of a button says, field by field.
LEMMA PressSays ==
  ASSUME NEW button
  PROVE  /\ Press(button).as = kept.form /\ Press(button).id = button.id
         /\ kept.form = "template" => Press(button).index = button.index
         /\ kept.form = "native_flow" /\ button.kind \in Flows => Press(button).flow = button.kind
BY DEF Press

LEMMA InteractiveStep ==
  ASSUME offer \in Offers, kept \in {NoOffer, interactiveOf(offer)}, PressesWhatItNames,
         [InteractiveNext]_interactiveVars
  PROVE  /\ offer' \in Offers /\ kept' \in {NoOffer, interactiveOf(offer')}
         /\ PressesWhatItNames'
<1>1. CASE rememberInteractive \/ UNCHANGED interactiveVars
  <2>1. UNCHANGED <<offer, answer>> /\ kept' \in {NoOffer, interactiveOf(offer)}
    BY <1>1 DEF rememberInteractive, interactiveVars
  <2> QED BY <2>1 DEF PressesWhatItNames, Named
<1>2. ASSUME NEW said \in Texts, ReplyWith(said) PROVE PressesWhatItNames'
  <2> SUFFICES ASSUME answer' = [to |-> pressFor(said), said |-> said, seen |-> kept # NoOffer],
                      UNCHANGED <<offer, kept>>
               PROVE  PressesWhatItNames'
    BY <1>2 DEF ReplyWith, PressesWhatItNames
  <2>1. /\ answer'.to = pressFor(said) /\ answer'.said = said /\ answer'.seen = (kept # NoOffer)
        /\ \A t : Named(t)' = Named(t)
    BY DEF Named
  <2>2. CASE kept = NoOffer
    BY <2>1, <2>2 DEF PressesWhatItNames, pressFor
  <2>3. CASE kept # NoOffer
    <3>1. kept = interactiveOf(offer)
      BY <2>3
    <3>2. CASE DOMAIN kept.options = {}
      <4>1. \A t \in Texts : Named(t) = {}
        BY <3>1, <3>2, PickedAreNamed
      <4>2. answer'.to.as = "text"
        BY <2>1, <3>2, <2>3 DEF pressFor
      <4> QED BY <2>1, <4>1, <4>2 DEF PressesWhatItNames
    <3>3. CASE DOMAIN kept.options # {} /\ Picked(said) = {}
      <4>1. answer'.to.as = "refusal" /\ Named(said) = {}
        BY <2>1, <2>3, <3>1, <3>3, PickedAreNamed DEF pressFor
      <4> QED BY <2>1, <2>3, <4>1 DEF PressesWhatItNames
    <3>4. CASE Picked(said) # {}
      <4> DEFINE i == First(Named(said))
      <4>1. i \in Named(said) /\ \A j \in Named(said) : i <= j
        BY <3>1, <3>4, PickedAreNamed, FirstIsLeast
      <4>2. answer'.to = Press(offer.buttons[i])
        <5>1. DOMAIN kept.options # {}
          BY <3>4 DEF Picked
        <5> QED BY <2>1, <2>3, <3>1, <3>4, <4>1, <5>1, PickedAreNamed DEF pressFor
      <4>3. /\ answer'.to.as = offer.form /\ answer'.to.id = offer.buttons[i].id
            /\ offer.form = "template" => answer'.to.index = offer.buttons[i].index
            /\ offer.form = "native_flow" => answer'.to.flow = offer.buttons[i].kind
        <5>1. kept.form = offer.form
          BY <3>1, PickedAreNamed
        <5>2. offer.form = "native_flow" => offer.buttons[i].kind \in Flows
          <6>1. Offered(offer.buttons[i]) /\ i \in DOMAIN offer.buttons
            BY <3>1, <4>1, PickedAreNamed DEF interactiveOf, Named
          <6> QED BY <6>1, InteractiveAssumption DEF Offered
        <5> QED BY <4>2, <5>1, <5>2, PressSays
      <4>4. answer'.to.as \notin {"refusal", "text"}
        BY <3>1, <4>3, PickedAreNamed DEF Forms
      <4> HIDE DEF i
      <4> QED BY <2>1, <4>1, <4>3, <4>4 DEF PressesWhatItNames
    <3> QED BY <3>2, <3>3, <3>4
  <2> QED BY <2>2, <2>3
<1>3. ASSUME NEW said \in Texts, ReplyWith(said) PROVE UNCHANGED <<offer, kept>>
  BY <1>3 DEF ReplyWith
<1> QED BY <1>1, <1>2, <1>3 DEF InteractiveNext, rememberInteractive, interactiveVars

\* A press is of the first button that the text names, in the message's own form and under that
\* button's id, place and flow; a refusal or a plain text, only when there is none to press.
THEOREM APressIsOfItsButton == InteractiveSpec => []PressesWhatItNames
<1> DEFINE Inv == /\ offer \in Offers /\ kept \in {NoOffer, interactiveOf(offer)}
                  /\ PressesWhatItNames
<1>1. InteractiveInit => Inv
  BY DEF InteractiveInit, PressesWhatItNames
<1>2. Inv /\ [InteractiveNext]_interactiveVars => Inv'
  BY InteractiveStep
<1> QED BY <1>1, <1>2, PTL DEF InteractiveSpec

\* What is kept of a message is what it offered, and an answer has one of the shapes there are.
THEOREM InteractiveTypeCorrect == InteractiveSpec => []InteractiveTypeOK
<1>1. InteractiveInit => InteractiveTypeOK
  BY DEF InteractiveInit, InteractiveTypeOK
<1>2. InteractiveTypeOK /\ [InteractiveNext]_interactiveVars => InteractiveTypeOK'
  <2> SUFFICES ASSUME InteractiveTypeOK, [InteractiveNext]_interactiveVars PROVE InteractiveTypeOK'
    OBVIOUS
  <2>1. CASE rememberInteractive \/ UNCHANGED interactiveVars
    BY <2>1 DEF rememberInteractive, interactiveVars, InteractiveTypeOK
  <2>2. ASSUME NEW said \in Texts, ReplyWith(said) PROVE InteractiveTypeOK'
    <3>1. pressFor(said).as \in Forms \union {"text", "refusal"}
      <4>1. CASE kept = NoOffer
        BY <4>1 DEF pressFor
      <4>2. CASE kept = interactiveOf(offer)
        <5>1. kept.form \in Forms
          BY <4>2, InteractiveAssumption DEF interactiveOf, InteractiveTypeOK
        <5>2. \A option : Press(option).as = kept.form
          BY DEF Press
        <5> QED BY <5>1, <5>2 DEF pressFor
      <4> QED BY <4>1, <4>2 DEF InteractiveTypeOK
    <3>2. answer' = NoAnswer \/ (answer'.said = said /\ answer'.to = pressFor(said))
      BY <2>2 DEF ReplyWith
    <3>3. UNCHANGED <<offer, kept>>
      BY <2>2 DEF ReplyWith
    <3> QED BY <3>1, <3>2, <3>3 DEF InteractiveTypeOK
  <2> QED BY <2>1, <2>2 DEF InteractiveNext
<1> QED BY <1>1, <1>2, PTL DEF InteractiveSpec

-----------------------------------------------------------------------------
(***************************************************************************)
(* Roster.  Whatever way a seat and a request write people, they match     *)
(* only when they are about the same person; so what a removal found is    *)
(* whom it names, and it keeps that while the roster and the map change.   *)
(***************************************************************************)
\* The JID by which the group has a person.
SeatJID(p) == IF byLid THEN LID(p) ELSE PN(p)

LEMMA Seated ==
  ASSUME byLid \in BOOLEAN, NEW p \in People, NEW told
  PROVE  /\ Seat(p, told).JID = SeatJID(p)
         /\ Seat(p, told).PhoneNumber \in {PN(p), NoJID} /\ Seat(p, told).LID \in {LID(p), NoJID}
         /\ p \in told => Seat(p, told).PhoneNumber = PN(p)
BY DEF Seat, SeatJID

\* How a roster writes a person: by number when the seat or the map has it.
LEMMA Written ==
  ASSUME byLid \in BOOLEAN, NEW p \in People, NEW told, NEW lids
  PROVE  /\ personOf(lids, Seat(p, told)) \in {p, LID(p)}
         /\ ~byLid \/ p \in told \/ p \in lids => personOf(lids, Seat(p, told)) = p
<1>1. /\ NoJID.server = "none" /\ NumberServer # "none"
  BY DEF NoJID, JID, NumberServer
<1>2. CASE byLid
  BY <1>1, <1>2, Seated, TwoAddresses, LidsLeadBack DEF SeatJID, personOf, canonicalUser
<1>3. CASE ~byLid
  BY <1>3, Seated, TwoAddresses DEF SeatJID, personOf, canonicalUser
<1> QED BY <1>2, <1>3

LEMMA MatchesTheirOwn ==
  ASSUME byLid \in BOOLEAN, NEW p \in People, NEW told, NEW lids,
         NEW q \in People, NEW want \in {PN(q), LID(q)}, Matches(lids, Seat(p, told), want)
  PROVE  p = q
<1>1. want # NoJID
  BY DEF NoJID, PN, LID, JID, NumberServer, LidServer
<1>2. PN(p) # LID(q) /\ LID(p) # PN(q)
  BY TwoAddresses DEF PN, LID, JID, NumberServer, LidServer
<1>3. CASE want \in {PN(p), LID(p)}
  BY <1>2, <1>3, TwoAddresses
<1>4. CASE want.server = NumberServer /\ personOf(lids, Seat(p, told)) = want.user
  <2>1. want = PN(q) /\ want.user = q
    BY <1>4, TwoAddresses
  <2> QED BY <1>4, <2>1, Written, TwoAddresses
<1> QED BY <1>1, <1>3, <1>4, Seated DEF Matches, SeatJID

LEMMA MatchesBothWays ==
  ASSUME byLid \in BOOLEAN, NEW p \in People, NEW told, NEW lids, told \subseteq lids
  PROVE  /\ ~Matches(lids, Seat(p, told), PN(p)) => byLid /\ p \notin lids
         /\ ~Matches(lids, Seat(p, told), LID(p)) => ~byLid
BY Seated, Written, TwoAddresses DEF Matches, SeatJID

\* The person a seat's JID is about, as the group writes it.
SeatOf(jid) == IF byLid THEN PersonBehind(jid) ELSE jid.user

\* The seats are those of the people a request names.
SeatsOf(seats, want) == {SeatOf(jid) : jid \in seats} = {PersonBehind(address) : address \in want}

\* When nobody is missing, the seats found are exactly those of the people named.
LEMMA FindsWhomItNames ==
  ASSUME byLid \in BOOLEAN, seated \subseteq People,
         NEW want \in SUBSET Addresses, NEW told, NEW lids,
         NEW found, found = seatsOf(lids, {Seat(p, told) : p \in seated}, memberJIDs(want)),
         found.missing = {}
  PROVE  /\ SeatsOf(found.seats, want)
         /\ found.seats \subseteq {SeatJID(p) : p \in People}
<1> DEFINE roster == {Seat(p, told) : p \in seated}
<1>1. \A address \in want : /\ PersonBehind(address) \in People
                            /\ addressJID(address) \in {PN(PersonBehind(address)), LID(PersonBehind(address))}
  BY Addressed DEF Addresses
<1>2. \A p \in People : SeatOf(SeatJID(p)) = p
  BY TwoAddresses, Addressed DEF SeatOf, SeatJID
<1>3. /\ found.seats = {seat.JID : seat \in {s \in roster : \E w \in memberJIDs(want) : Matches(lids, s, w)}}
      /\ \A w \in memberJIDs(want) : \E seat \in roster : Matches(lids, seat, w)
  BY DEF seatsOf
<1>4. \A jid \in found.seats : \E p \in seated : \E address \in want :
        jid = SeatJID(p) /\ p = PersonBehind(address)
  <2> SUFFICES ASSUME NEW jid \in found.seats
               PROVE  \E p \in seated : \E address \in want : jid = SeatJID(p) /\ p = PersonBehind(address)
    OBVIOUS
  <2>1. PICK p \in seated : \E w \in memberJIDs(want) : jid = Seat(p, told).JID /\ Matches(lids, Seat(p, told), w)
    BY <1>3
  <2>2. PICK address \in want : Matches(lids, Seat(p, told), addressJID(address))
    BY <2>1 DEF memberJIDs
  <2>3. p = PersonBehind(address)
    BY <1>1, <2>2, MatchesTheirOwn
  <2> QED BY <2>1, <2>3, Seated
<1>5. \A address \in want : \E jid \in found.seats : SeatOf(jid) = PersonBehind(address)
  <2> SUFFICES ASSUME NEW address \in want
               PROVE  \E jid \in found.seats : SeatOf(jid) = PersonBehind(address)
    OBVIOUS
  <2>1. addressJID(address) \in memberJIDs(want)
    BY DEF memberJIDs
  <2>2. PICK p \in seated : Matches(lids, Seat(p, told), addressJID(address))
    BY <1>3, <2>1
  <2>3. p = PersonBehind(address)
    BY <1>1, <2>2, MatchesTheirOwn
  <2>4. Seat(p, told).JID \in found.seats
    BY <1>3, <2>1, <2>2
  <2> QED BY <1>2, <2>3, <2>4, Seated
<1>6. SeatsOf(found.seats, want)
  <2> DEFINE sent == found.seats
  <2>1. \A jid \in sent : \E address \in want : SeatOf(jid) = PersonBehind(address)
    BY <1>2, <1>4
  <2>2. \A address \in want : \E jid \in sent : SeatOf(jid) = PersonBehind(address)
    BY <1>5
  <2> HIDE DEF sent
  <2>3. {SeatOf(jid) : jid \in sent} = {PersonBehind(address) : address \in want}
    BY <2>1, <2>2
  <2> QED BY <2>3 DEF SeatsOf, sent
<1>7. found.seats \subseteq {SeatJID(p) : p \in People}
  BY <1>4
<1> QED BY <1>6, <1>7

\* A request and, once its seats are found, whom they are of.
Sought ==
  /\ byLid \in BOOLEAN /\ seated \subseteq People /\ listed \subseteq People
  /\ call \in {NoCall} \union
       [kind : {"create", "add", "remove"}, want : SUBSET (Addresses \union {Junk}),
        at : {"arrived", "found"}, seats : SUBSET {SeatJID(p) : p \in People}]
  /\ call # NoCall /\ call.at = "arrived" => call.seats = {}
  /\ call # NoCall /\ call.at = "found" =>
       /\ call.kind = "remove" /\ Junk \notin call.want
       /\ SeatsOf(call.seats, call.want)

\* The part of MovesWhoWasAsked that is about the answer.
AnswerTells ==
  outcome # NoCall =>
    LET asked_ == {PersonBehind(address) : address \in outcome.want \ {Junk}}
    IN /\ outcome.moved \subseteq asked_
       /\ outcome.code = 200 /\ outcome.kind = "add" => asked_ \subseteq outcome.moved \intersect seated
       /\ outcome.code = 200 /\ outcome.kind = "create" => asked_ \ seated \subseteq outcome.missing
       /\ outcome.kind = "remove" => \A p \in seated :
            /\ PN(p) \in outcome.missing => byLid /\ p \notin listed
            /\ LID(p) \in outcome.missing => ~byLid

LEMMA SoughtIsAsked == Sought /\ AnswerTells => MovesWhoWasAsked
BY DEF Sought, AnswerTells, MovesWhoWasAsked, SeatsOf, SeatOf

LEMMA SoughtInit == RosterInit => Sought /\ AnswerTells
<1> SUFFICES ASSUME RosterInit PROVE Sought /\ AnswerTells
  OBVIOUS
<1>1. Me \in People
  BY NamingAssumption
<1> QED BY <1>1 DEF RosterInit, Sought, AnswerTells

\* What stands on the call and on the group alone stays with them.
LEMMA SoughtStays ==
  ASSUME Sought, UNCHANGED <<byLid, call>>, seated' \subseteq People, listed' \subseteq People
  PROVE  Sought'
BY DEF Sought, SeatsOf, SeatOf, SeatJID

\* An answer ends the call.
LEMMA SoughtEnds ==
  ASSUME Sought, call' = NoCall, UNCHANGED byLid, seated' \subseteq People, listed' \subseteq People
  PROVE  Sought'
BY DEF Sought

\* Whom WhatsApp may move are people the request names.
LEMMA MovableAreNamed ==
  ASSUME Sought, call # NoCall,
         Ready("create") \/ Ready("add") \/ Ready("remove") \/ call.at = "found"
  PROVE  /\ Junk \notin call.want /\ Requested \subseteq People
         /\ Movable \subseteq Requested
<1> DEFINE SeatJIDs == {SeatJID(p) : p \in People}
<1>1. /\ Junk \notin call.want /\ call.want \subseteq Addresses /\ call.seats \subseteq SeatJIDs
      /\ call.kind \in {"create", "add", "remove"}
  BY DEF Ready, Sought
<1>2. \A address \in Addresses : PersonBehind(address) \in People
  BY Addressed DEF Addresses
<1>3. Requested \subseteq People
  BY <1>1, <1>2 DEF Requested
<1>4. CASE call.kind \in {"create", "add"}
  BY <1>1, <1>3, <1>4 DEF Movable
<1>5. CASE call.kind = "remove" /\ call.seats = {}
  BY <1>1, <1>3, <1>5 DEF Movable
<1>6. CASE call.kind = "remove" /\ call.seats # {}
  <2>1. call.at = "found"
    BY <1>6 DEF Sought
  <2>2. {SeatOf(jid) : jid \in call.seats} = Requested
    BY <2>1 DEF Sought, SeatsOf, Requested
  <2>3. ASSUME NEW p \in People, {PN(p), LID(p)} \intersect call.seats # {}
        PROVE  p \in Requested
    <3>1. PICK jid \in call.seats : jid \in {PN(p), LID(p)}
      BY <2>3
    <3>2. PICK q \in People : jid = SeatJID(q)
      BY <1>1
    <3>3. p = q
      BY <3>1, <3>2, TwoAddresses DEF SeatJID, PN, LID, JID, NumberServer, LidServer
    <3>4. SeatOf(jid) = p
      BY <3>2, <3>3, TwoAddresses, Addressed DEF SeatOf, SeatJID
    <3> QED BY <2>2, <3>4
  <2>4. Movable \subseteq {p \in seated : {PN(p), LID(p)} \intersect call.seats # {}}
    BY <1>6 DEF Movable
  <2> QED BY <1>1, <1>3, <2>3, <2>4 DEF Sought
<1> QED BY <1>1, <1>3, <1>4, <1>5, <1>6

\* An answer that moves some of those asked for, is not a full success, and calls nobody missing.
LEMMA Told200 ==
  ASSUME Sought, NEW code, NEW moved, NEW missing, Answered(code, moved, missing), UNCHANGED byLid
  PROVE  /\ call' = NoCall
         /\ outcome'.kind = call.kind /\ outcome'.code = code /\ outcome'.want = call.want
         /\ outcome'.moved = moved /\ outcome'.missing = missing
BY DEF Answered

LEMMA SoughtStep ==
  Sought /\ AnswerTells /\ [RosterNext]_rosterVars => Sought' /\ AnswerTells'
<1> SUFFICES ASSUME Sought, AnswerTells, [RosterNext]_rosterVars PROVE Sought' /\ AnswerTells'
  OBVIOUS
<1> DEFINE Named_ == {PersonBehind(address) : address \in call.want \ {Junk}}
<1>1. ASSUME outcome' = NoCall PROVE AnswerTells'
  BY <1>1 DEF AnswerTells
<1>2. CASE Come \/ Go \/ Learns \/ handleLeaveGroup
  <2>1. /\ UNCHANGED <<byLid, call>> /\ outcome' = NoCall
        /\ seated' \subseteq People /\ listed' \subseteq People
    BY <1>2 DEF Come, Go, Learns, handleLeaveGroup, Elsewhere, Sought
  <2> QED BY <1>1, <2>1, SoughtStays
<1>3. ASSUME NEW kind \in {"create", "add", "remove"}, Request(kind) PROVE Sought' /\ AnswerTells'
  <2>1. PICK want \in SUBSET (Addresses \union {Junk}) :
          call' = [kind |-> kind, want |-> want, at |-> "arrived", seats |-> {}]
    BY <1>3 DEF Request
  <2>2. UNCHANGED <<byLid, seated, listed>> /\ outcome' = NoCall
    BY <1>3 DEF Request
  <2>3. Sought'
    BY <2>1, <2>2 DEF Sought
  <2> QED BY <1>1, <2>2, <2>3
<1>4. CASE TakeAnswer
  BY <1>1, <1>4, SoughtStays DEF TakeAnswer, Sought
<1>5. CASE Refuse
  <2>1. PICK code \in {404, 503, 422} : Answered(code, {}, {})
    BY <1>5 DEF Refuse
  <2>2. UNCHANGED <<byLid, seated, listed>>
    BY <1>5 DEF Refuse
  <2>3. Sought'
    BY <2>1, <2>2, Told200, SoughtEnds DEF Sought
  <2>4. AnswerTells'
    BY <2>1, <2>2, Told200 DEF AnswerTells
  <2> QED BY <2>3, <2>4
<1>6. CASE QueryFails
  <2>1. PICK code, moved : /\ Answered(code, moved, {}) /\ code # 200
                           /\ (moved = {} /\ UNCHANGED seated) \/ (moved \subseteq Movable /\ Reseat(moved))
    <3>1. \A err \in GroupErrors : groupErrorStatus(err) # 200
      BY DEF groupErrorStatus
    <3>2. "network" \in GroupErrors
      BY DEF GroupErrors
    <3> QED BY <1>6, <3>1, <3>2 DEF QueryFails
  <2>2. /\ UNCHANGED <<byLid, listed>> /\ call # NoCall
        /\ Ready("create") \/ Ready("add") \/ Ready("remove") \/ call.at = "found"
    BY <1>6 DEF QueryFails, Ready
  <2>3. moved \subseteq Requested /\ Requested \subseteq People /\ Requested = Named_
    BY <2>1, <2>2, MovableAreNamed DEF Requested
  <2>4. seated' \subseteq People
    BY <2>1, <2>3, NamingAssumption DEF Reseat, Sought
  <2>5. Sought'
    BY <2>1, <2>2, <2>4, Told200, SoughtEnds DEF Sought
  <2>6. AnswerTells'
    BY <2>1, <2>2, <2>3, Told200 DEF AnswerTells
  <2> QED BY <2>5, <2>6
<1>7. CASE handleCreateGroup
  <2>1. PICK filled \in SUBSET Movable :
          Reseat(filled) /\ Answered(200, filled, participantFailures(Requested, filled))
    BY <1>7 DEF handleCreateGroup
  <2>2. UNCHANGED <<byLid, listed>> /\ call # NoCall /\ Ready("create") /\ call.kind = "create"
    BY <1>7 DEF handleCreateGroup, Ready
  <2>3. filled \subseteq Requested /\ Requested \subseteq People /\ Requested = Named_
    BY <2>1, <2>2, MovableAreNamed DEF Requested
  <2>4. seated' = filled \union {Me} /\ seated' \subseteq People
    BY <2>1, <2>2, <2>3, NamingAssumption DEF Reseat
  <2>5. Sought'
    BY <2>1, <2>2, <2>4, Told200, SoughtEnds DEF Sought
  <2>6. AnswerTells'
    BY <2>1, <2>2, <2>3, <2>4, Told200 DEF AnswerTells, participantFailures
  <2> QED BY <2>5, <2>6
<1>8. CASE handleAddMembers
  <2>1. PICK filled \in SUBSET Movable :
          /\ Reseat(filled)
          /\ Answered(IF participantFailures(Requested, filled) = {} THEN 200 ELSE 422, filled, {})
    BY <1>8 DEF handleAddMembers
  <2>2. UNCHANGED <<byLid, listed>> /\ call # NoCall /\ Ready("add") /\ call.kind = "add"
    BY <1>8 DEF handleAddMembers, Ready
  <2>3. filled \subseteq Requested /\ Requested \subseteq People /\ Requested = Named_
    BY <2>1, <2>2, MovableAreNamed DEF Requested
  <2>4. seated' = seated \union filled /\ seated' \subseteq People
    BY <2>1, <2>2, <2>3 DEF Reseat, Sought
  <2>5. Sought'
    BY <2>1, <2>2, <2>4, Told200, SoughtEnds DEF Sought
  <2>6. AnswerTells'
    BY <2>1, <2>2, <2>3, <2>4, Told200 DEF AnswerTells, participantFailures
  <2> QED BY <2>5, <2>6
<1>9. CASE handleRemoveMembers
  <2>1. PICK told \in SUBSET seated :
          LET lids  == listed \union told
              found == seatsOf(lids, {Seat(p, told) : p \in seated}, memberJIDs(call.want))
          IN /\ listed' = lids
             /\ IF found.missing # {} THEN Answered(404, {}, found.missing)
                ELSE /\ call' = [call EXCEPT !.at = "found", !.seats = found.seats]
                     /\ outcome' = NoCall
    BY <1>9 DEF handleRemoveMembers
  <2> DEFINE lids   == listed \union told
             roster == {Seat(p, told) : p \in seated}
             found  == seatsOf(lids, roster, memberJIDs(call.want))
  <2>2. /\ UNCHANGED <<byLid, seated>> /\ call # NoCall /\ call.kind = "remove"
        /\ call.want \subseteq Addresses /\ Junk \notin call.want
        /\ byLid \in BOOLEAN /\ seated \subseteq People
        /\ listed' = lids /\ listed' \subseteq People
    BY <1>9, <2>1 DEF handleRemoveMembers, Ready, Sought
  <2>3. CASE found.missing # {}
    <3>1. Answered(404, {}, found.missing)
      BY <2>1, <2>3
    <3>2. Sought'
      BY <2>2, <3>1, Told200, SoughtEnds DEF Sought
    <3>3. ASSUME NEW p \in seated, NEW want \in found.missing PROVE ~Matches(lids, Seat(p, told), want)
      BY <3>3 DEF seatsOf
    <3>4. \A p \in seated : /\ PN(p) \in found.missing => byLid /\ p \notin lids
                            /\ LID(p) \in found.missing => ~byLid
      BY <2>2, <3>3, MatchesBothWays
    <3>5. AnswerTells'
      <4> HIDE DEF found, lids
      <4> QED BY <2>2, <3>1, <3>4, Told200 DEF AnswerTells
    <3> QED BY <3>2, <3>5
  <2>4. CASE found.missing = {}
    <3>1. call' = [call EXCEPT !.at = "found", !.seats = found.seats] /\ outcome' = NoCall
      BY <2>1, <2>4
    <3>2. /\ SeatsOf(found.seats, call.want)
          /\ found.seats \subseteq {SeatJID(p) : p \in People}
      <4>1. call.want \in SUBSET Addresses
        BY <2>2
      <4>2. found = seatsOf(lids, {Seat(p, told) : p \in seated}, memberJIDs(call.want))
        OBVIOUS
      <4> HIDE DEF lids, found
      <4> QED BY <2>2, <2>4, <4>1, <4>2, FindsWhomItNames
    <3>3. /\ call' \in [kind : {"create", "add", "remove"}, want : SUBSET (Addresses \union {Junk}),
                        at : {"arrived", "found"}, seats : SUBSET {SeatJID(p) : p \in People}]
          /\ call'.kind = "remove" /\ call'.want = call.want /\ call'.at = "found" /\ call'.seats = found.seats
      <4> HIDE DEF found
      <4> QED BY <2>2, <3>1, <3>2 DEF Sought
    <3>4. SeatsOf(call.seats, call.want)'
      <4> HIDE DEF found
      <4> QED BY <2>2, <3>2, <3>3 DEF SeatsOf, SeatOf
    <3>5. Sought'
      <4> HIDE DEF found, lids
      <4> QED BY <2>2, <3>2, <3>3, <3>4 DEF Sought, SeatJID
    <3> QED BY <1>1, <3>1, <3>5
  <2> QED BY <2>3, <2>4
<1>10. CASE TakeOut
  <2>1. PICK out \in SUBSET Movable : Reseat(out) /\ Answered(200, out, {})
    BY <1>10 DEF TakeOut
  <2>2. UNCHANGED <<byLid, listed>> /\ call # NoCall /\ call.at = "found" /\ call.kind = "remove"
    BY <1>10 DEF TakeOut, Sought
  <2>3. out \subseteq Requested /\ Requested = Named_
    BY <2>1, <2>2, MovableAreNamed DEF Requested
  <2>4. seated' \subseteq People
    BY <2>1, <2>2 DEF Reseat, Sought
  <2>5. Sought'
    BY <2>1, <2>2, <2>4, Told200, SoughtEnds DEF Sought
  <2>6. AnswerTells'
    BY <2>1, <2>2, <2>3, Told200 DEF AnswerTells
  <2> QED BY <2>5, <2>6
<1>11. CASE UNCHANGED rosterVars
  BY <1>11, SoughtStays DEF rosterVars, Sought, AnswerTells
<1> QED BY <1>2, <1>3, <1>4, <1>5, <1>6, <1>7, <1>8, <1>9, <1>10, <1>11 DEF RosterNext

\* Nobody is moved but those a request names; a removal is sent for everybody it names and for
\* nobody else, and calls a member missing only when nothing connects the address with the seat.
THEOREM MovesOnlyWhoWasAsked == RosterSpec => []MovesWhoWasAsked
BY SoughtInit, SoughtStep, SoughtIsAsked, PTL DEF RosterSpec

\* Whatever the network or WhatsApp says, a route answers one of its own codes; a request names
\* addresses, and nobody but people sits in the group.
THEOREM RosterTypeCorrect == RosterSpec => []RosterTypeOK
<1> DEFINE Coded == outcome = NoCall \/ outcome.code \in Codes
<1>1. RosterInit => Coded
  BY DEF RosterInit
<1>2. Coded /\ [RosterNext]_rosterVars => Coded'
  <2> SUFFICES ASSUME Coded, [RosterNext]_rosterVars PROVE Coded'
    OBVIOUS
  <2>1. ASSUME NEW code \in Codes, NEW moved, NEW missing, Answered(code, moved, missing)
        PROVE  Coded'
    BY <2>1 DEF Answered
  <2>2. \A err : groupErrorStatus(err) \in Codes
    BY DEF groupErrorStatus, Codes
  <2>3. CASE Come \/ Go \/ Learns \/ handleLeaveGroup \/ TakeAnswer \/ UNCHANGED rosterVars
    BY <2>3 DEF Come, Go, Learns, handleLeaveGroup, Elsewhere, TakeAnswer, rosterVars
  <2>4. ASSUME NEW kind, Request(kind) PROVE Coded'
    BY <2>4 DEF Request
  <2>5. CASE Refuse
    <3>1. PICK code \in {404, 503, 422} : Answered(code, {}, {})
      BY <2>5 DEF Refuse
    <3> QED BY <2>1, <3>1 DEF Codes
  <2>6. CASE QueryFails
    BY <2>1, <2>2, <2>6 DEF QueryFails
  <2>7. CASE handleCreateGroup \/ TakeOut
    BY <2>1, <2>7 DEF handleCreateGroup, TakeOut, Codes
  <2>8. CASE handleAddMembers
    <3>1. PICK filled : Answered(200, filled, {}) \/ Answered(422, filled, {})
      BY <2>8 DEF handleAddMembers
    <3> QED BY <2>1, <3>1 DEF Codes
  <2>9. CASE handleRemoveMembers
    <3>1. outcome' = NoCall \/ \E missing : Answered(404, {}, missing)
      BY <2>9 DEF handleRemoveMembers
    <3> QED BY <2>1, <3>1 DEF Codes
  <2> HIDE DEF Coded
  <2> QED BY <2>3, <2>4, <2>5, <2>6, <2>7, <2>8, <2>9 DEF RosterNext
<1>3. Sought /\ Coded => RosterTypeOK
  BY DEF Sought, RosterTypeOK
<1> QED BY <1>1, <1>2, <1>3, SoughtInit, SoughtStep, PTL DEF RosterSpec

-----------------------------------------------------------------------------
\* Dispatch.  What a request may have left to send, and what is in it.
Todos == {<<>>, <<"message">>, <<"contact">>, <<"typing">>, <<"read">>, <<"typing", "read">>}

In(p, todo) == \E i \in 1..Len(todo) : todo[i] = p

LEMMA TodosShrink ==
  ASSUME NEW s \in Todos, s # <<>>
  PROVE  /\ Head(s) \in Parts /\ Tail(s) \in Todos
         /\ \A p \in Parts : In(p, s) <=> (p = Head(s) \/ In(p, Tail(s)))
         /\ ~In(Head(s), Tail(s))
         /\ Tail(s) # <<>> => Head(s) = "typing"
<1>0. \A p : ~In(p, <<>>)
  BY DEF In
<1>1. ASSUME NEW x \in Parts
      PROVE  /\ Head(<<x>>) = x /\ Tail(<<x>>) = <<>>
             /\ \A p : In(p, <<x>>) <=> p = x
  BY DEF In
<1>2. /\ Head(<<"typing", "read">>) = "typing" /\ Tail(<<"typing", "read">>) = <<"read">>
      /\ \A p : In(p, <<"typing", "read">>) <=> p = "typing" \/ p = "read"
  BY DEF In
<1> HIDE DEF In
<1>3. CASE s = <<"typing", "read">>
  BY <1>1, <1>2, <1>3 DEF Todos, Parts
<1>4. ASSUME NEW x \in Parts, s = <<x>>
      PROVE  /\ Head(s) \in Parts /\ Tail(s) \in Todos
             /\ \A p \in Parts : In(p, s) <=> (p = Head(s) \/ In(p, Tail(s)))
             /\ ~In(Head(s), Tail(s))
             /\ Tail(s) # <<>> => Head(s) = "typing"
  BY <1>0, <1>1, <1>4 DEF Todos
<1>5. s = <<"typing", "read">> \/ \E x \in Parts : s = <<x>>
  BY DEF Todos, Parts
<1> QED BY <1>3, <1>4, <1>5

LEMMA NothingIsInNone == \A p : ~In(p, <<>>)
BY DEF In

\* A row begins with all it asks for: its message, its contact, or what its status tells.
LEMMA StatusPartsAreItsKeys ==
  ASSUME ask \in Asks
  PROVE  StatusParts \in Todos /\ \A p \in ask.keys : In(p, StatusParts)
<1>1. ask.keys \subseteq {"typing", "read"}
  BY DispatchAssumption
<1>2. /\ <<"typing">> \o <<"read">> = <<"typing", "read">>
      /\ <<"typing">> \o <<>> = <<"typing">> /\ <<>> \o <<"read">> = <<"read">>
      /\ <<>> \o <<>> = <<>>
  <2>1. /\ <<"typing">> \in Seq(Parts) /\ <<"read">> \in Seq(Parts)
        /\ <<"typing", "read">> \in Seq(Parts) /\ <<>> \in Seq(Parts)
    BY DEF Parts
  <2>2. <<"typing">> \o <<"read">> = <<"typing", "read">>
    <3> DEFINE c == <<"typing">> \o <<"read">>
               d == <<"typing", "read">>
    <3>1. c \in Seq(Parts) /\ Len(c) = 2 /\ c[1] = "typing" /\ c[2] = "read"
      BY <2>1, ConcatProperties
    <3>2. d \in Seq(Parts) /\ Len(d) = 2 /\ d[1] = "typing" /\ d[2] = "read"
      BY <2>1
    <3> HIDE DEF c, d
    <3>3. \A i \in 1..Len(c) : c[i] = d[i]
      BY <3>1, <3>2
    <3>4. c = d
      BY <3>1, <3>2, <3>3, SeqEqual
    <3> QED BY <3>4 DEF c, d
  <2> QED BY <2>1, <2>2, ConcatEmptySeq
<1>3. /\ In("typing", <<"typing", "read">>) /\ In("read", <<"typing", "read">>)
      /\ In("typing", <<"typing">>) /\ In("read", <<"read">>)
  BY DEF In
<1> HIDE DEF In
<1>4. CASE "typing" \in ask.keys /\ "read" \in ask.keys
  BY <1>1, <1>2, <1>3, <1>4 DEF StatusParts, Todos
<1>5. CASE "typing" \in ask.keys /\ "read" \notin ask.keys
  BY <1>1, <1>2, <1>3, <1>5 DEF StatusParts, Todos
<1>6. CASE "typing" \notin ask.keys /\ "read" \in ask.keys
  BY <1>1, <1>2, <1>3, <1>6 DEF StatusParts, Todos
<1>7. CASE "typing" \notin ask.keys /\ "read" \notin ask.keys
  BY <1>1, <1>2, <1>3, <1>7 DEF StatusParts, Todos
<1> QED BY <1>4, <1>5, <1>6, <1>7

\* What the other invariants rest on: the types, and which rows a request at each step may be of.
Steps == {"free", "arrived", "message", "status", "contact", "reached", "sending", "answering"}
Answers == {0, 200, 404, 422, 500, 503}
RequestType == [at : Steps, waiting : BOOLEAN, todo : Todos, code : Answers]

DispatchTyped ==
  /\ ask \in Asks /\ row \in {"pending", "sent", "failed"}
  /\ reqs \in [Requests -> RequestType]
  /\ taken \in [Parts -> Nat] /\ faults \in 0..Faults
  /\ \A r \in Requests :
       /\ reqs[r].at \in {"message", "reached"} => ask.type = "message"
       /\ reqs[r].at \in {"status", "contact"} => ask.type = reqs[r].at
       /\ reqs[r].at = "answering" => reqs[r].code # 0

\* The kinds of step a request takes, told by what they do to it.  It is refused for good, with
\* a reason; given up, for a fault, a link that is down or a caller that has gone, and it may
\* be that the part it was sending was taken; it goes on; it begins to send all it was asked for;
\* it gives a part to WhatsApp; or it skips one that is too old to tell.
Refused(r) ==
  /\ reqs[r].at \notin {"free", "answering"} /\ (reqs[r].at = "sending" => reqs[r].todo # <<>>)
  /\ \E code \in {404, 422} : Reply(r, code)
  /\ ask.trouble # "none" \/ ~known
  /\ UNCHANGED <<ask, row, known, connected, fresh, taken, faults>>

GivesUp(r) ==
  /\ reqs[r].at \notin {"free", "answering"} /\ (reqs[r].at = "sending" => reqs[r].todo # <<>>)
  /\ \E code \in {422, 500, 503} : Reply(r, code) /\ (code = 422 => ask.trouble # "none")
  /\ \/ faults' = faults /\ (~connected \/ ~reqs[r].waiting)
     \/ Fault
  /\ taken' = taken \/ (reqs[r].at = "sending" /\ Take(Head(reqs[r].todo)))
  /\ UNCHANGED <<ask, row, known, connected, fresh>>

GoesOn(r) ==
  /\ \/ reqs[r].at = "arrived" /\ connected /\ ask.type \in {"message", "status", "contact"} /\ Move(r, ask.type)
     \/ reqs[r].at = "message" /\ Move(r, "reached")
  /\ UNCHANGED <<ask, row, known, connected, fresh, taken, faults>>

Begins(r) ==
  /\ reqs[r].at \in {"reached", "status", "contact"}
  /\ \E todo \in Todos :
       /\ \A p \in Asked : In(p, todo)
       /\ reqs' = [reqs EXCEPT ![r].at = "sending", ![r].todo = todo]
  /\ UNCHANGED <<ask, row, known, connected, fresh, taken, faults>>

Gives(r) ==
  /\ reqs[r].at = "sending" /\ reqs[r].todo # <<>> /\ connected
  /\ Take(Head(reqs[r].todo))
  /\ reqs' = [reqs EXCEPT ![r].todo = Tail(@)]
  /\ UNCHANGED <<ask, row, known, connected, fresh, faults>>

Skips(r) ==
  /\ reqs[r].at = "sending" /\ reqs[r].todo # <<>> /\ ask.type = "status" /\ ~fresh
  /\ reqs' = [reqs EXCEPT ![r].todo = Tail(@)]
  /\ UNCHANGED <<ask, row, known, connected, fresh, taken, faults>>

\* What happens around them.
Turns ==
  /\ \/ faults' = faults /\ (connected => connected')
     \/ Fault
  /\ (~known => ~known') /\ (~fresh => ~fresh')
  /\ UNCHANGED <<ask, row, reqs, taken>>

StepOf(r) ==
  \/ Attempt(r) \/ Refused(r) \/ GivesUp(r) \/ GoesOn(r) \/ Begins(r) \/ Gives(r) \/ Skips(r)
  \/ Done(r) \/ ReadAnswer(r) \/ HangUp(r)

LEMMA ErrorsAreTransient ==
  \A err \in Errors : sendErrorStatus(err) = IF err = Unlisted THEN 422 ELSE 503
BY DEF Errors, sendErrorStatus, transientSendError, LinkErrors, SlowErrors, BusyErrors, Unlisted

\* A call that failed is given up, for good if it failed as no error listed does.
LEMMA GoneWrong ==
  ASSUME NEW r \in Requests, NEW err \in Errors, Goes(r, err), Reply(r, sendErrorStatus(err)),
         reqs[r].at \in {"message", "sending"}, reqs[r].at = "sending" => reqs[r].todo # <<>>,
         taken' = taken \/ (reqs[r].at = "sending" /\ Take(Head(reqs[r].todo))),
         UNCHANGED <<ask, row, known, connected, fresh>>
  PROVE  GivesUp(r)
<1>1. CASE err = Unlisted
  <2>1. ask.trouble # "none" /\ Fault
    BY <1>1 DEF Goes, LinkErrors, SlowErrors, BusyErrors, Unlisted
  <2>2. Reply(r, 422)
    BY <1>1, ErrorsAreTransient
  <2> QED BY <2>1, <2>2 DEF GivesUp
<1>2. CASE err # Unlisted
  <2>1. Reply(r, 503)
    BY <1>2, ErrorsAreTransient
  <2>2. (faults' = faults /\ (~connected \/ ~reqs[r].waiting)) \/ Fault
    BY <1>2 DEF Goes
  <2> QED BY <2>1, <2>2 DEF GivesUp
<1> QED BY <1>1, <1>2

LEMMA StepsOfARequest ==
  ASSUME DispatchTyped, DispatchNext
  PROVE  (\E r \in Requests : StepOf(r)) \/ DispatchRestart \/ Turns
<1>1. ASSUME NEW r \in Requests, Check(r) PROVE StepOf(r)
  <2>1. ask.type \in {"message", "status", "contact"} \/ ask.trouble = "unknown type"
    BY DispatchAssumption DEF DispatchTyped
  <2> SUFFICES Refused(r) \/ GivesUp(r) \/ GoesOn(r)
    BY DEF StepOf
  <2>2. CASE Reply(r, 404) /\ ~known
    BY <1>1, <2>2 DEF Check, Refused
  <2>3. CASE Reply(r, 503) /\ ~connected
    BY <1>1, <2>3 DEF Check, GivesUp
  <2>4. CASE Reply(r, 422) /\ ask.trouble # "none"
    BY <1>1, <2>4 DEF Check, Refused
  <2>5. CASE connected /\ Move(r, ask.type) /\ ask.trouble # "unknown type"
    BY <1>1, <2>1, <2>5 DEF Check, GoesOn
  <2> QED BY <1>1, <2>2, <2>3, <2>4, <2>5 DEF Check
<1>2. ASSUME NEW r \in Requests, onWhatsApp(r) PROVE StepOf(r)
  <2>1. CASE Move(r, "reached") /\ UNCHANGED faults
    BY <1>2, <2>1 DEF onWhatsApp, GoesOn, StepOf
  <2>2. CASE ask.trouble = "nobody" /\ Reply(r, 422) /\ UNCHANGED faults
    BY <1>2, <2>2 DEF onWhatsApp, Refused, StepOf
  <2>3. ASSUME NEW err \in Errors, Goes(r, err), Reply(r, sendErrorStatus(err))
        PROVE  GivesUp(r)
    BY <1>2, <2>3, GoneWrong DEF onWhatsApp
  <2> QED BY <1>2, <2>1, <2>2, <2>3 DEF onWhatsApp, StepOf
<1>3. ASSUME NEW r \in Requests, buildOutgoingMessage(r) PROVE StepOf(r)
  <2>0. reqs[r].at = "reached" /\ UNCHANGED <<ask, row, known, connected, filed, fresh, taken>>
    BY <1>3 DEF buildOutgoingMessage
  <2>1. CASE ask.trouble # "none" /\ Reply(r, 422) /\ UNCHANGED faults
    BY <2>0, <2>1 DEF Refused, StepOf
  <2>2. CASE Fault /\ Reply(r, 500)
    BY <2>0, <2>2 DEF GivesUp, StepOf
  <2>3. CASE (Fault \/ (~(connected /\ reqs[r].waiting) /\ UNCHANGED faults)) /\ Reply(r, 503)
    BY <2>0, <2>3 DEF GivesUp, StepOf
  <2>4. CASE Built(r) /\ UNCHANGED faults
    <3>1. Asked = {"message"}
      BY <1>3, <2>0 DEF DispatchTyped, Asked
    <3>2. In("message", <<"message">>) /\ <<"message">> \in Todos
      BY DEF In, Todos
    <3> QED BY <2>0, <2>4, <3>1, <3>2 DEF Built, Begins, StepOf
  <2> QED BY <1>3, <2>1, <2>2, <2>3, <2>4 DEF buildOutgoingMessage, buildMediaMessage, storageStatus
<1>4. ASSUME NEW r \in Requests, Status(r) PROVE StepOf(r)
  <2>1. Asked = ask.keys
    BY <1>4 DEF DispatchTyped, Asked, Status
  <2> QED BY <1>4, <2>1, StatusPartsAreItsKeys DEF DispatchTyped, Status, Begins, StepOf
<1>5. ASSUME NEW r \in Requests, buildContact(r) PROVE StepOf(r)
  <2>1. CASE Reply(r, 422) /\ ask.trouble # "none"
    BY <1>5, <2>1 DEF buildContact, Refused, StepOf
  <2>2. CASE reqs' = [reqs EXCEPT ![r].at = "sending", ![r].todo = <<"contact">>]
    <3>1. Asked = {"contact"}
      BY <1>5 DEF DispatchTyped, Asked, buildContact
    <3>2. In("contact", <<"contact">>) /\ <<"contact">> \in Todos
      BY DEF In, Todos
    <3> QED BY <1>5, <2>2, <3>1, <3>2 DEF buildContact, Begins, StepOf
  <2> QED BY <1>5, <2>1, <2>2 DEF buildContact
<1>6. ASSUME NEW r \in Requests, Send(r) PROVE StepOf(r)
  <2>0. /\ reqs[r].at = "sending" /\ reqs[r].todo # <<>>
        /\ UNCHANGED <<ask, row, known, connected, filed, fresh>>
    BY <1>6 DEF Send
  <2>1. CASE /\ ask.type = "status" /\ ~recent
             /\ reqs' = [reqs EXCEPT ![r].todo = Tail(@)] /\ UNCHANGED <<taken, faults>>
    BY <2>0, <2>1 DEF recent, Skips, StepOf
  <2>2. CASE ask.trouble # "none" /\ Reply(r, 422) /\ UNCHANGED <<taken, faults>>
    BY <2>0, <2>2 DEF Refused, StepOf
  <2>3. CASE /\ connected /\ Take(Head(reqs[r].todo))
             /\ reqs' = [reqs EXCEPT ![r].todo = Tail(@)] /\ UNCHANGED faults
    BY <2>0, <2>3 DEF Gives, StepOf
  <2>4. ASSUME NEW err \in Errors, Goes(r, err), Failed(r, err),
               UNCHANGED taken \/ Take(Head(reqs[r].todo))
        PROVE  GivesUp(r)
    BY <2>0, <2>4, GoneWrong DEF Failed
  <2> QED BY <1>6, <2>1, <2>2, <2>3, <2>4 DEF Send, StepOf
<1>7. CASE LinkDrop \/ LinkUp \/ Forget \/ Age
  BY <1>7 DEF LinkDrop, LinkUp, Forget, Age, Turns, Fault
<1> QED BY <1>1, <1>2, <1>3, <1>4, <1>5, <1>6, <1>7 DEF DispatchNext, StepOf

\* Only the request that takes the step changes, and how.
Alone(r, at, todo, code) ==
  /\ reqs' \in [Requests -> RequestType]
  /\ reqs'[r].at = at /\ reqs'[r].todo = todo /\ reqs'[r].code = code
  /\ \A q \in Requests \ {r} : reqs'[q] = reqs[q]

StillWaits(r) == reqs'[r].waiting = reqs[r].waiting

LEMMA RequestTyped ==
  ASSUME DispatchTyped, NEW r \in Requests
  PROVE  /\ reqs \in [Requests -> RequestType] /\ reqs[r] \in RequestType
         /\ reqs[r].at \in Steps /\ reqs[r].todo \in Todos /\ reqs[r].code \in Answers
         /\ {"free", "arrived", "sending", "answering"} \subseteq Steps /\ <<>> \in Todos
         /\ {0, 200, 404, 422, 500, 503} \subseteq Answers
BY DEF DispatchTyped, RequestType, Steps, Todos, Answers

LEMMA Replaced ==
  ASSUME DispatchTyped, NEW r \in Requests, NEW x \in RequestType, reqs' = [reqs EXCEPT ![r] = x]
  PROVE  Alone(r, x.at, x.todo, x.code) /\ reqs'[r].waiting = x.waiting
<1>1. reqs' \in [Requests -> RequestType] /\ reqs'[r] = x /\ \A q \in Requests \ {r} : reqs'[q] = reqs[q]
  BY RequestTyped
<1> QED BY <1>1 DEF Alone

\* Whether it waits.
LEMMA Waits ==
  ASSUME NEW x \in RequestType, NEW w \in BOOLEAN
  PROVE  LET y == [x EXCEPT !.waiting = w]
         IN  y \in RequestType /\ y.waiting = w /\ y.at = x.at /\ y.todo = x.todo /\ y.code = x.code
BY DEF RequestType

LEMMA AttemptChanges ==
  ASSUME DispatchTyped, NEW r \in Requests, Attempt(r)
  PROVE  Alone(r, "arrived", <<>>, 0) /\ reqs'[r].waiting
<1> DEFINE z == [Free EXCEPT !.at = "arrived"]
           x == [z EXCEPT !.waiting = TRUE]
<1>1. x \in RequestType /\ x.at = "arrived" /\ x.waiting = TRUE /\ x.todo = <<>> /\ x.code = 0
  <2>1. z \in RequestType /\ z.at = "arrived" /\ z.todo = <<>> /\ z.code = 0
    <3>1. Free \in RequestType /\ Free.at = "free" /\ Free.todo = <<>> /\ Free.code = 0
      BY RequestTyped DEF Free, RequestType
    <3> QED BY <3>1, RequestTyped DEF RequestType
  <2> HIDE DEF z
  <2> QED BY <2>1, Waits
<1>2. reqs' = [reqs EXCEPT ![r] = x]
  BY DEF Attempt
<1> HIDE DEF x
<1> QED BY <1>1, <1>2, Replaced

LEMMA ReplyChanges ==
  ASSUME DispatchTyped, NEW r \in Requests, NEW code \in Answers, Reply(r, code)
  PROVE  Alone(r, "answering", reqs[r].todo, code) /\ StillWaits(r)
<1> DEFINE z == [reqs[r] EXCEPT !.at = "answering"]
           x == [z EXCEPT !.code = code]
<1>1. reqs' = [reqs EXCEPT ![r] = x]
  BY RequestTyped DEF Reply
<1>0. z \in RequestType /\ z.at = "answering" /\ z.waiting = reqs[r].waiting /\ z.todo = reqs[r].todo
  BY RequestTyped DEF RequestType
<1> HIDE DEF z
<1>2. x \in RequestType /\ x.at = "answering" /\ x.waiting = reqs[r].waiting /\ x.todo = reqs[r].todo /\ x.code = code
  BY <1>0 DEF RequestType
<1> HIDE DEF x
<1> QED BY <1>1, <1>2, Replaced DEF StillWaits

LEMMA MoveChanges ==
  ASSUME DispatchTyped, NEW r \in Requests, NEW at \in Steps, Move(r, at)
  PROVE  Alone(r, at, reqs[r].todo, reqs[r].code) /\ StillWaits(r)
<1> DEFINE x == [reqs[r] EXCEPT !.at = at]
<1>1. reqs' = [reqs EXCEPT ![r] = x]
  BY RequestTyped DEF Move
<1>2. x \in RequestType /\ x.at = at /\ x.waiting = reqs[r].waiting /\ x.todo = reqs[r].todo /\ x.code = reqs[r].code
  BY RequestTyped DEF RequestType
<1> HIDE DEF x
<1> QED BY <1>1, <1>2, Replaced DEF StillWaits

LEMMA BeginChanges ==
  ASSUME DispatchTyped, NEW r \in Requests, NEW todo \in Todos,
         reqs' = [reqs EXCEPT ![r].at = "sending", ![r].todo = todo]
  PROVE  Alone(r, "sending", todo, reqs[r].code) /\ StillWaits(r)
<1> DEFINE z == [reqs[r] EXCEPT !.at = "sending"]
           x == [z EXCEPT !.todo = todo]
<1>1. reqs' = [reqs EXCEPT ![r] = x]
  BY RequestTyped
<1>0. z \in RequestType /\ z.at = "sending" /\ z.waiting = reqs[r].waiting /\ z.code = reqs[r].code
  BY RequestTyped DEF RequestType
<1> HIDE DEF z
<1>2. x \in RequestType /\ x.at = "sending" /\ x.waiting = reqs[r].waiting /\ x.todo = todo /\ x.code = reqs[r].code
  BY <1>0 DEF RequestType
<1> HIDE DEF x
<1> QED BY <1>1, <1>2, Replaced DEF StillWaits

LEMMA TailChanges ==
  ASSUME DispatchTyped, NEW r \in Requests, reqs[r].todo # <<>>, reqs' = [reqs EXCEPT ![r].todo = Tail(@)]
  PROVE  Alone(r, reqs[r].at, Tail(reqs[r].todo), reqs[r].code) /\ StillWaits(r)
<1> DEFINE rest == Tail(reqs[r].todo)
           x == [reqs[r] EXCEPT !.todo = rest]
<1>1. reqs' = [reqs EXCEPT ![r] = x] /\ rest \in Todos
  BY RequestTyped, TodosShrink
<1> HIDE DEF rest
<1>2. x \in RequestType /\ x.at = reqs[r].at /\ x.waiting = reqs[r].waiting /\ x.todo = rest /\ x.code = reqs[r].code
  BY <1>1, RequestTyped DEF RequestType
<1> HIDE DEF x
<1> QED BY <1>1, <1>2, Replaced DEF StillWaits, rest

LEMMA ReadAnswerChanges ==
  ASSUME DispatchTyped, NEW r \in Requests, ReadAnswer(r)
  PROVE  Alone(r, "free", <<>>, 0) /\ ~reqs'[r].waiting
<1>1. Free \in RequestType /\ Free.at = "free" /\ Free.waiting = FALSE /\ Free.todo = <<>> /\ Free.code = 0
  BY RequestTyped DEF Free, RequestType
<1> QED BY <1>1, Replaced DEF ReadAnswer

LEMMA HangUpChanges ==
  ASSUME DispatchTyped, NEW r \in Requests, HangUp(r)
  PROVE  Alone(r, reqs[r].at, reqs[r].todo, reqs[r].code) /\ ~reqs'[r].waiting
<1> DEFINE x == [reqs[r] EXCEPT !.waiting = FALSE]
<1>1. reqs' = [reqs EXCEPT ![r] = x]
  BY RequestTyped DEF HangUp
<1>2. x \in RequestType /\ x.at = reqs[r].at /\ x.waiting = FALSE /\ x.todo = reqs[r].todo /\ x.code = reqs[r].code
  <2>1. reqs[r] \in RequestType /\ FALSE \in BOOLEAN
    BY RequestTyped
  <2> QED BY <2>1, Waits, Zenon
<1> HIDE DEF x
<1> QED BY <1>1, <1>2, Replaced

LEMMA StepsTyped ==
  ASSUME DispatchTyped, DispatchNext
  PROVE  DispatchTyped'
<1> DEFINE Fits(at, code) == /\ at \in {"message", "reached"} => ask.type = "message"
                             /\ at \in {"status", "contact"} => ask.type = at
                             /\ at = "answering" => code # 0
           Kept == /\ row' \in {"pending", "sent", "failed"} /\ reqs' \in [Requests -> RequestType]
                   /\ taken' \in [Parts -> Nat] /\ faults' \in 0..Faults
                   /\ \A q \in Requests : Fits(reqs'[q].at, reqs'[q].code)
<1>0. /\ ask \in Asks /\ row \in {"pending", "sent", "failed"} /\ reqs \in [Requests -> RequestType]
      /\ taken \in [Parts -> Nat] /\ faults \in 0..Faults /\ Faults \in Nat
      /\ \A r \in Requests : reqs[r] \in RequestType
  BY DispatchAssumption DEF DispatchTyped
<1>1. \A q \in Requests : Fits(reqs[q].at, reqs[q].code)
  BY DEF DispatchTyped
<1>2. ask' = ask
  BY DEF DispatchNext, Attempt, Check, onWhatsApp, buildOutgoingMessage, Status,
         buildContact, Send, Done, ReadAnswer, HangUp, DispatchRestart, LinkDrop, LinkUp, Forget, Age
<1>3. ASSUME NEW r \in Requests, NEW at, NEW todo, NEW code,
             Alone(r, at, todo, code), Fits(at, code)
      PROVE  reqs' \in [Requests -> RequestType] /\ \A q \in Requests : Fits(reqs'[q].at, reqs'[q].code)
  BY <1>1, <1>3 DEF Alone
<1>4. Fault => faults' \in 0..Faults
  BY <1>0 DEF Fault
<1>5. ASSUME NEW p \in Parts, Take(p) PROVE taken' \in [Parts -> Nat]
  BY <1>0, <1>5 DEF Take
<1>6. ASSUME NEW r \in Requests, StepOf(r) PROVE Kept
  <2> HIDE DEF Fits
  <2>0. \A code : Fits("arrived", code) /\ Fits("sending", code) /\ Fits("free", code)
    BY DEF Fits
  <2>00. \A code \in {200, 404, 422, 500, 503} : code \in Answers /\ Fits("answering", code)
    BY DEF Fits, Answers
  <2>1. CASE Attempt(r)
    <3>1. Alone(r, "arrived", <<>>, 0)
      BY <2>1, AttemptChanges
    <3> QED BY <1>0, <1>3, <2>0, <2>1, <3>1 DEF Attempt
  <2>2. CASE Refused(r)
    <3>1. \E code \in {404, 422} : Alone(r, "answering", reqs[r].todo, code)
      BY <2>2, <2>00, ReplyChanges DEF Refused
    <3> QED BY <1>0, <1>3, <2>00, <2>2, <3>1 DEF Refused
  <2>3. CASE GivesUp(r)
    <3>1. \E code \in {422, 500, 503} : Alone(r, "answering", reqs[r].todo, code)
      BY <2>3, <2>00, ReplyChanges DEF GivesUp
    <3>2. taken' \in [Parts -> Nat] /\ faults' \in 0..Faults
      BY <1>0, <1>4, <1>5, <2>3, TodosShrink DEF GivesUp, RequestType
    <3> QED BY <1>0, <1>3, <2>00, <2>3, <3>1, <3>2 DEF GivesUp
  <2>4. CASE GoesOn(r)
    <3>1. CASE reqs[r].at = "message"
      <4>1. Alone(r, "reached", reqs[r].todo, reqs[r].code)
        BY <2>4, <3>1, MoveChanges DEF GoesOn, Steps
      <4>2. Fits("reached", reqs[r].code)
        BY <1>1, <3>1 DEF Fits
      <4> QED BY <1>0, <1>3, <2>4, <4>1, <4>2 DEF GoesOn
    <3>2. CASE ask.type \in {"message", "status", "contact"} /\ Move(r, ask.type)
      <4>1. Alone(r, ask.type, reqs[r].todo, reqs[r].code)
        BY <2>4, <3>2, MoveChanges DEF Steps
      <4>2. Fits(ask.type, reqs[r].code)
        BY <3>2 DEF Fits
      <4> QED BY <1>0, <1>3, <2>4, <4>1, <4>2 DEF GoesOn
    <3> QED BY <2>4, <3>1, <3>2 DEF GoesOn
  <2>5. CASE Begins(r)
    <3>1. \E todo \in Todos : Alone(r, "sending", todo, reqs[r].code)
      BY <2>5, BeginChanges DEF Begins
    <3> QED BY <1>0, <1>3, <2>0, <2>5, <3>1 DEF Begins
  <2>6. CASE Gives(r)
    <3>1. Alone(r, "sending", Tail(reqs[r].todo), reqs[r].code)
      BY <2>6, TailChanges DEF Gives
    <3>2. taken' \in [Parts -> Nat]
      BY <1>0, <1>5, <2>6, TodosShrink DEF Gives, RequestType
    <3> QED BY <1>0, <1>3, <2>0, <2>6, <3>1, <3>2 DEF Gives
  <2>7. CASE Skips(r)
    <3>1. Alone(r, "sending", Tail(reqs[r].todo), reqs[r].code)
      BY <2>7, TailChanges DEF Skips
    <3> QED BY <1>0, <1>3, <2>0, <2>7, <3>1 DEF Skips
  <2>8. CASE Done(r)
    <3>1. Alone(r, "answering", reqs[r].todo, 200)
      BY <2>8, <2>00, ReplyChanges DEF Done
    <3> QED BY <1>0, <1>3, <2>00, <2>8, <3>1 DEF Done
  <2>9. CASE ReadAnswer(r)
    <3>1. Alone(r, "free", <<>>, 0)
      BY <2>9, ReadAnswerChanges
    <3>2. row' \in {"pending", "sent", "failed"}
      BY <1>0, <2>9 DEF ReadAnswer, Verdict
    <3> QED BY <1>0, <1>3, <2>0, <2>9, <3>1, <3>2 DEF ReadAnswer
  <2>10. CASE HangUp(r)
    <3>1. Alone(r, reqs[r].at, reqs[r].todo, reqs[r].code)
      BY <2>10, HangUpChanges
    <3> QED BY <1>0, <1>1, <1>3, <1>4, <2>10, <3>1 DEF HangUp
  <2> QED BY <1>6, <2>1, <2>2, <2>3, <2>4, <2>5, <2>6, <2>7, <2>8, <2>9, <2>10 DEF StepOf
<1>7. ASSUME DispatchRestart PROVE Kept
  <2>1. Free \in RequestType /\ Free.at = "free"
    BY DEF Free, RequestType, Steps, Todos, Answers
  <2> QED BY <1>0, <1>4, <1>7, <2>1 DEF DispatchRestart
<1>8. ASSUME Turns PROVE Kept
  BY <1>0, <1>1, <1>4, <1>8 DEF Turns
<1>9. Kept
  BY <1>6, <1>7, <1>8, StepsOfARequest
<1> QED BY <1>0, <1>2, <1>9 DEF DispatchTyped

\* What each kind of step does to its request.
LEMMA KindsChange ==
  ASSUME DispatchTyped, NEW r \in Requests
  PROVE  /\ Refused(r) => \E code \in {404, 422} : Alone(r, "answering", reqs[r].todo, code) /\ StillWaits(r)
         /\ GivesUp(r) => \E code \in {422, 500, 503} :
                            /\ Alone(r, "answering", reqs[r].todo, code) /\ StillWaits(r)
                            /\ code = 422 => ask.trouble # "none"
         /\ GoesOn(r) => \E at \in {"message", "status", "contact", "reached"} :
                            Alone(r, at, reqs[r].todo, reqs[r].code) /\ StillWaits(r)
         /\ Begins(r) => \E todo \in Todos : /\ \A p \in Asked : In(p, todo)
                                             /\ Alone(r, "sending", todo, reqs[r].code) /\ StillWaits(r)
         /\ Gives(r) \/ Skips(r) => Alone(r, "sending", Tail(reqs[r].todo), reqs[r].code) /\ StillWaits(r)
         /\ Done(r) => Alone(r, "answering", reqs[r].todo, 200) /\ StillWaits(r)
<1>1. {200, 404, 422, 500, 503} \subseteq Answers /\ {"message", "status", "contact", "reached"} \subseteq Steps
  BY DEF Answers, Steps
<1>2. Refused(r) => \E code \in {404, 422} : Alone(r, "answering", reqs[r].todo, code) /\ StillWaits(r)
  BY <1>1, ReplyChanges DEF Refused
<1>3. GivesUp(r) => \E code \in {422, 500, 503} :
                      /\ Alone(r, "answering", reqs[r].todo, code) /\ StillWaits(r)
                      /\ code = 422 => ask.trouble # "none"
  BY <1>1, ReplyChanges DEF GivesUp
<1>4. GoesOn(r) => \E at \in {"message", "status", "contact", "reached"} :
                     Alone(r, at, reqs[r].todo, reqs[r].code) /\ StillWaits(r)
  BY <1>1, MoveChanges DEF GoesOn
<1>5. Begins(r) => \E todo \in Todos : /\ \A p \in Asked : In(p, todo)
                                      /\ Alone(r, "sending", todo, reqs[r].code) /\ StillWaits(r)
  BY BeginChanges DEF Begins
<1>6. Gives(r) \/ Skips(r) => Alone(r, "sending", Tail(reqs[r].todo), reqs[r].code) /\ StillWaits(r)
  BY TailChanges DEF Gives, Skips
<1>7. Done(r) => Alone(r, "answering", reqs[r].todo, 200) /\ StillWaits(r)
  BY <1>1, ReplyChanges DEF Done
<1> QED BY <1>2, <1>3, <1>4, <1>5, <1>6, <1>7

\* The dispatcher waits for one answer at a time, and only while the row is pending.
OneWaits ==
  /\ \A q, r \in Requests : reqs[q].waiting /\ reqs[r].waiting => q = r
  /\ \A r \in Requests : reqs[r].waiting => row = "pending" /\ reqs[r].at # "free"

LEMMA OneWaitsOn ==
  ASSUME DispatchTyped, OneWaits, DispatchNext
  PROVE  OneWaits'
<1>1. ASSUME NEW r \in Requests, StillWaits(r), NEW at, NEW todo, NEW code, Alone(r, at, todo, code),
             reqs[r].at # "free", at # "free", row' = row
      PROVE  OneWaits'
  BY <1>1 DEF OneWaits, StillWaits, Alone
<1>2. ASSUME NEW r \in Requests, StepOf(r) PROVE OneWaits'
  <2>1. CASE Attempt(r)
    <3>1. Alone(r, "arrived", <<>>, 0) /\ reqs'[r].waiting
      BY <2>1, AttemptChanges
    <3>2. row = "pending" /\ row' = row /\ \A q \in Requests : ~reqs[q].waiting
      BY <2>1 DEF Attempt
    <3>3. \A q \in Requests : q # r => ~reqs'[q].waiting
      BY <3>1, <3>2 DEF Alone
    <3> QED BY <3>1, <3>2, <3>3 DEF OneWaits, Alone
  <2>2. CASE Refused(r)
    BY <1>1, <2>2, KindsChange DEF Refused
  <2>3. CASE GivesUp(r)
    BY <1>1, <2>3, KindsChange DEF GivesUp
  <2>4. CASE GoesOn(r)
    BY <1>1, <2>4, KindsChange DEF GoesOn
  <2>5. CASE Begins(r)
    <3>1. reqs[r].at # "free" /\ row' = row
      BY <2>5 DEF Begins
    <3>2. \E todo : Alone(r, "sending", todo, reqs[r].code) /\ StillWaits(r)
      BY <2>5, KindsChange
    <3> QED BY <1>1, <3>1, <3>2
  <2>6. CASE Gives(r)
    <3>1. reqs[r].at # "free" /\ row' = row
      BY <2>6 DEF Gives
    <3>2. \E todo : Alone(r, "sending", todo, reqs[r].code) /\ StillWaits(r)
      BY <2>6, KindsChange
    <3> QED BY <1>1, <3>1, <3>2
  <2>7. CASE Skips(r)
    <3>1. reqs[r].at # "free" /\ row' = row
      BY <2>7 DEF Skips
    <3>2. \E todo : Alone(r, "sending", todo, reqs[r].code) /\ StillWaits(r)
      BY <2>7, KindsChange
    <3> QED BY <1>1, <3>1, <3>2
  <2>8. CASE Done(r)
    BY <1>1, <2>8, KindsChange DEF Done
  <2>9. CASE ReadAnswer(r)
    <3>1. Alone(r, "free", <<>>, 0) /\ ~reqs'[r].waiting
      BY <2>9, ReadAnswerChanges
    <3>2. ~reqs[r].waiting => row' = row
      BY <2>9 DEF ReadAnswer
    <3> QED BY <3>1, <3>2 DEF OneWaits, Alone
  <2>10. CASE HangUp(r)
    <3>1. Alone(r, reqs[r].at, reqs[r].todo, reqs[r].code) /\ ~reqs'[r].waiting /\ row' = row
      BY <2>10, HangUpChanges DEF HangUp
    <3> QED BY <3>1 DEF OneWaits, Alone
  <2> QED BY <1>2, <2>1, <2>2, <2>3, <2>4, <2>5, <2>6, <2>7, <2>8, <2>9, <2>10 DEF StepOf
<1>3. CASE DispatchRestart
  <2>1. \A r \in Requests : reqs'[r].waiting = FALSE
    BY <1>3 DEF DispatchRestart, Free
  <2> QED BY <2>1 DEF OneWaits
<1>4. CASE Turns
  BY <1>4 DEF Turns, OneWaits
<1> QED BY <1>2, <1>3, <1>4, StepsOfARequest

\* The row never changes; a session forgotten stays forgotten, and old status stays old.
LEMMA Steady ==
  ASSUME DispatchTyped, DispatchNext
  PROVE  ask' = ask /\ Asked' = Asked /\ (~known => ~known') /\ (~fresh => ~fresh')
<1>1. ASSUME NEW r \in Requests, StepOf(r) PROVE UNCHANGED <<ask, known, fresh>>
  BY <1>1 DEF StepOf, Attempt, Refused, GivesUp, GoesOn, Begins, Gives, Skips, Done, ReadAnswer, HangUp
<1>2. ASSUME DispatchRestart PROVE UNCHANGED <<ask, known, fresh>>
  BY <1>2 DEF DispatchRestart
<1>3. ASSUME Turns PROVE ask' = ask /\ (~known => ~known') /\ (~fresh => ~fresh')
  BY <1>3 DEF Turns
<1>4. ask' = ask /\ (~known => ~known') /\ (~fresh => ~fresh')
  BY <1>1, <1>2, <1>3, StepsOfARequest
<1> QED BY <1>4 DEF Asked

\* Who is refused for good is refused for something wrong with the row, or its session is gone.
RefusedForAReason ==
  \A r \in Requests : reqs[r].at = "answering" /\ reqs[r].code \in {404, 422} => ask.trouble # "none" \/ ~known

LEMMA RefusedForAReasonStill ==
  ASSUME DispatchTyped, RefusedForAReason, DispatchNext
  PROVE  RefusedForAReason'
<1>0. ask' = ask /\ (~known => ~known')
  BY Steady
<1>1. ASSUME NEW r \in Requests, NEW at, NEW todo, NEW code, Alone(r, at, todo, code),
             at = "answering" /\ code \in {404, 422} => ask.trouble # "none" \/ ~known
      PROVE  RefusedForAReason'
  BY <1>0, <1>1 DEF RefusedForAReason, Alone
<1>2. ASSUME NEW r \in Requests, StepOf(r) PROVE RefusedForAReason'
  <2>1. CASE Attempt(r)
    BY <1>1, <2>1, AttemptChanges
  <2>2. CASE Refused(r)
    BY <1>1, <2>2, KindsChange DEF Refused
  <2>3. CASE GivesUp(r)
    BY <1>1, <2>3, KindsChange
  <2>4. CASE GoesOn(r)
    BY <1>1, <2>4, KindsChange
  <2>5. CASE Begins(r)
    BY <1>1, <2>5, KindsChange
  <2>6. CASE Gives(r)
    BY <1>1, <2>6, KindsChange
  <2>7. CASE Skips(r)
    BY <1>1, <2>7, KindsChange
  <2>8. CASE Done(r)
    BY <1>1, <2>8, KindsChange
  <2>9. CASE ReadAnswer(r)
    BY <1>1, <2>9, ReadAnswerChanges
  <2>10. CASE HangUp(r)
    BY <1>1, <2>10, HangUpChanges DEF RefusedForAReason
  <2> QED BY <1>2, <2>1, <2>2, <2>3, <2>4, <2>5, <2>6, <2>7, <2>8, <2>9, <2>10 DEF StepOf
<1>3. CASE DispatchRestart
  BY <1>3 DEF DispatchRestart, Free, RefusedForAReason
<1>4. CASE Turns
  BY <1>0, <1>4 DEF Turns, RefusedForAReason
<1> QED BY <1>2, <1>3, <1>4, StepsOfARequest

\* While nothing has gone wrong: whoever is served is waited for, what is past the first check has
\* a link, and what is said of the row beyond typing is said only for a request that will be
\* answered 200.
Fulfilled(r) ==
  (reqs[r].at = "sending" /\ reqs[r].todo = <<>>) \/ (reqs[r].at = "answering" /\ reqs[r].code = 200)

Untaken == \A p \in Asked \ {"typing"} : taken[p] = 0

NoFaultYet ==
  faults = 0 =>
    /\ \A r \in Requests : reqs[r].at # "free" => reqs[r].waiting
    /\ \A r \in Requests : reqs[r].at \in {"message", "status", "contact", "reached", "sending"} => connected
    /\ Untaken \/ row = "sent" \/ \E r \in Requests : Fulfilled(r)

LEMMA AskedAreParts == DispatchTyped => Asked \subseteq Parts
BY DispatchAssumption DEF DispatchTyped, Asked, Parts

LEMMA NoFaultYetStill ==
  ASSUME DispatchTyped, OneWaits, NoFaultYet, DispatchNext
  PROVE  NoFaultYet'
<1> SUFFICES ASSUME faults' = 0 PROVE NoFaultYet'
  BY DEF NoFaultYet
<1>0. faults \in Nat /\ ~Fault /\ taken \in [Parts -> Nat]
  <2>0. faults \in 0..Faults /\ taken \in [Parts -> Nat]
    BY DEF DispatchTyped
  <2>1. Faults \in Nat
    BY DispatchAssumption
  <2>3. faults \in Nat
    BY <2>0, <2>1
  <2>2. faults + 1 # 0
    BY <2>3
  <2> QED BY <2>0, <2>3, <2>2 DEF Fault
<1>1. faults = 0
  <2>1. ASSUME NEW r \in Requests, StepOf(r) PROVE faults' = faults \/ Fault
    BY <2>1 DEF StepOf, Attempt, Refused, GivesUp, GoesOn, Begins, Gives, Skips, Done, ReadAnswer, HangUp, Fault
  <2>2. ASSUME DispatchRestart \/ Turns PROVE faults' = faults \/ Fault
    BY <2>2 DEF DispatchRestart, Turns, Fault
  <2> QED BY <1>0, <2>1, <2>2, StepsOfARequest
<1>2. /\ \A r \in Requests : reqs[r].at # "free" => reqs[r].waiting
      /\ \A r \in Requests : reqs[r].at \in {"message", "status", "contact", "reached", "sending"} => connected
      /\ Untaken \/ row = "sent" \/ \E r \in Requests : Fulfilled(r)
  BY <1>1 DEF NoFaultYet
<1>3. ASSUME NEW r \in Requests, reqs[r].at # "free"
      PROVE  /\ reqs[r].waiting /\ row = "pending" /\ (\A q \in Requests \ {r} : reqs[q].at = "free")
             /\ Fulfilled(r) \/ Untaken
  <2>1. reqs[r].waiting /\ row = "pending"
    BY <1>2, <1>3 DEF OneWaits
  <2>2. \A q \in Requests \ {r} : reqs[q].at = "free"
    BY <1>2, <2>1 DEF OneWaits
  <2>3. \A q \in Requests \ {r} : ~Fulfilled(q)
    BY <2>2 DEF Fulfilled
  <2> QED BY <1>2, <2>1, <2>2, <2>3
<1>4. Asked' = Asked /\ (taken' = taken => (Untaken => Untaken'))
  BY Steady DEF Untaken
\* A step of the one request that is served, which leaves it waiting, or free.
<1>5. ASSUME NEW r \in Requests, reqs[r].at # "free", NEW at, NEW todo, NEW code, Alone(r, at, todo, code),
             StillWaits(r) \/ at = "free", connected' = connected,
             at \in {"message", "status", "contact", "reached", "sending"} => connected,
             Untaken' \/ row' = "sent" \/ Fulfilled(r)'
      PROVE  NoFaultYet'
  <2>1. \A q \in Requests \ {r} : reqs'[q] = reqs[q] /\ reqs[q].at = "free"
    BY <1>3, <1>5 DEF Alone
  <2>2. \A q \in Requests : reqs'[q].at # "free" => reqs'[q].waiting
    BY <1>3, <1>5, <2>1 DEF Alone, StillWaits
  <2>3. \A q \in Requests : reqs'[q].at \in {"message", "status", "contact", "reached", "sending"} => connected'
    BY <1>5, <2>1 DEF Alone
  <2> QED BY <1>5, <2>2, <2>3 DEF NoFaultYet
<1>6. ASSUME NEW r \in Requests, StepOf(r) PROVE NoFaultYet'
  <2>1. CASE Attempt(r)
    <3>1. /\ \A q \in Requests : ~reqs[q].waiting
          /\ row = "pending" /\ row' = row /\ taken' = taken /\ connected' = connected
      BY <2>1 DEF Attempt
    <3>2. \A q \in Requests : reqs[q].at = "free"
      BY <1>2, <3>1
    <3>3. Untaken
      BY <1>2, <3>1, <3>2 DEF Fulfilled
    <3>4. Alone(r, "arrived", <<>>, 0) /\ reqs'[r].waiting
      BY <2>1, AttemptChanges
    <3>5. \A q \in Requests : /\ reqs'[q].at # "free" => reqs'[q].waiting
                              /\ reqs'[q].at \in {"free", "arrived"}
      BY <3>2, <3>4 DEF Alone
    <3> QED BY <1>4, <3>1, <3>3, <3>5 DEF NoFaultYet
  <2>2. CASE Refused(r)
    <3>1. reqs[r].at # "free" /\ ~Fulfilled(r) /\ taken' = taken /\ connected' = connected
      BY <2>2 DEF Refused, Fulfilled
    <3>2. \E code : Alone(r, "answering", reqs[r].todo, code) /\ StillWaits(r)
      BY <2>2, KindsChange
    <3> QED BY <1>3, <1>4, <1>5, <3>1, <3>2
  <2>3. CASE GivesUp(r)
    <3>1. reqs[r].at # "free" /\ ~Fulfilled(r) /\ connected' = connected
      BY <2>3 DEF GivesUp, Fulfilled
    <3>2. ~connected /\ reqs[r].at # "sending"
      BY <1>0, <1>2, <1>3, <2>3, <3>1 DEF GivesUp
    <3>3. taken' = taken
      BY <2>3, <3>2 DEF GivesUp
    <3>4. \E code : Alone(r, "answering", reqs[r].todo, code) /\ StillWaits(r)
      BY <2>3, KindsChange
    <3> QED BY <1>3, <1>4, <1>5, <3>1, <3>3, <3>4
  <2>4. CASE GoesOn(r)
    <3>1. reqs[r].at # "free" /\ ~Fulfilled(r) /\ taken' = taken /\ connected' = connected
      BY <2>4 DEF GoesOn, Fulfilled
    <3>2. connected
      BY <1>2, <2>4 DEF GoesOn
    <3>3. \E at : Alone(r, at, reqs[r].todo, reqs[r].code) /\ StillWaits(r)
      BY <2>4, KindsChange
    <3> QED BY <1>3, <1>4, <1>5, <3>1, <3>2, <3>3
  <2>5. CASE Begins(r)
    <3>1. reqs[r].at # "free" /\ ~Fulfilled(r) /\ taken' = taken /\ connected' = connected
      BY <2>5 DEF Begins, Fulfilled
    <3>2. connected
      BY <1>2, <2>5 DEF Begins
    <3>3. \E todo : Alone(r, "sending", todo, reqs[r].code) /\ StillWaits(r)
      BY <2>5, KindsChange
    <3> QED BY <1>3, <1>4, <1>5, <3>1, <3>2, <3>3
  <2>6. CASE Gives(r)
    <3>1. reqs[r].at # "free" /\ ~Fulfilled(r) /\ connected /\ connected' = connected
      BY <2>6 DEF Gives, Fulfilled
    <3>2. Alone(r, "sending", Tail(reqs[r].todo), reqs[r].code) /\ StillWaits(r)
      BY <2>6, KindsChange
    <3>3. CASE Tail(reqs[r].todo) = <<>>
      <4>1. Fulfilled(r)'
        BY <3>2, <3>3 DEF Fulfilled, Alone
      <4> QED BY <1>5, <3>1, <3>2, <4>1
    <3>4. CASE Tail(reqs[r].todo) # <<>>
      <4>1. Head(reqs[r].todo) = "typing"
        BY <2>6, <3>4, RequestTyped, TodosShrink DEF Gives
      <4>2. \A p \in Asked \ {"typing"} : taken'[p] = taken[p]
        BY <1>0, <2>6, <4>1, AskedAreParts DEF Gives, Take
      <4>3. Untaken'
        BY <1>3, <1>4, <3>1, <4>2 DEF Untaken
      <4> QED BY <1>5, <3>1, <3>2, <4>3
    <3> QED BY <3>3, <3>4
  <2>7. CASE Skips(r)
    <3>1. reqs[r].at # "free" /\ ~Fulfilled(r) /\ taken' = taken /\ connected' = connected
      BY <2>7 DEF Skips, Fulfilled
    <3>2. connected
      BY <1>2, <2>7 DEF Skips
    <3>3. Alone(r, "sending", Tail(reqs[r].todo), reqs[r].code) /\ StillWaits(r)
      BY <2>7, KindsChange
    <3> QED BY <1>3, <1>4, <1>5, <3>1, <3>2, <3>3
  <2>8. CASE Done(r)
    <3>1. reqs[r].at # "free" /\ connected' = connected
      BY <2>8 DEF Done
    <3>2. Alone(r, "answering", reqs[r].todo, 200) /\ StillWaits(r)
      BY <2>8, KindsChange
    <3>3. Fulfilled(r)'
      BY <3>2 DEF Alone, Fulfilled
    <3> QED BY <1>5, <3>1, <3>2, <3>3
  <2>9. CASE ReadAnswer(r)
    <3>1. reqs[r].at # "free" /\ reqs[r].at # "sending" /\ taken' = taken /\ connected' = connected
      BY <2>9 DEF ReadAnswer
    <3>2. Alone(r, "free", <<>>, 0)
      BY <2>9, ReadAnswerChanges
    <3>3. row' = Verdict(reqs[r].code)
      BY <1>3, <2>9, <3>1 DEF ReadAnswer
    <3>4. Fulfilled(r) => row' = "sent"
      BY <3>1, <3>3 DEF Fulfilled, Verdict
    <3> QED BY <1>3, <1>4, <1>5, <3>1, <3>2, <3>4
  <2>10. CASE HangUp(r)
    BY <1>0, <2>10 DEF HangUp
  <2> QED BY <1>6, <2>1, <2>2, <2>3, <2>4, <2>5, <2>6, <2>7, <2>8, <2>9, <2>10 DEF StepOf
<1>7. CASE DispatchRestart
  BY <1>0, <1>7 DEF DispatchRestart
<1>8. CASE Turns
  <2>1. reqs' = reqs /\ row' = row /\ taken' = taken /\ (connected => connected')
    BY <1>0, <1>8 DEF Turns
  <2>2. (\E r \in Requests : Fulfilled(r)) => (\E r \in Requests : Fulfilled(r)')
    BY <2>1 DEF Fulfilled
  <2> QED BY <1>2, <1>4, <2>1, <2>2 DEF NoFaultYet
<1> QED BY <1>6, <1>7, <1>8, StepsOfARequest

\* A row failed for good was refused for a reason.
FailedForAReason == row = "failed" => ask.trouble # "none" \/ ~known

LEMMA FailedForAReasonStill ==
  ASSUME DispatchTyped, OneWaits, RefusedForAReason, FailedForAReason, DispatchNext
  PROVE  FailedForAReason'
<1>1. ask' = ask /\ (~known => ~known')
  BY Steady
<1>2. ASSUME NEW r \in Requests, ReadAnswer(r) PROVE row' = "failed" => ask.trouble # "none" \/ ~known
  <2>1. CASE reqs[r].waiting
    <3>1. row' = Verdict(reqs[r].code) /\ reqs[r].at = "answering"
      BY <1>2, <2>1 DEF ReadAnswer
    <3>2. reqs[r].code \in {0, 200, 404, 422, 500, 503}
      BY RequestTyped DEF Answers
    <3>3. row' = "failed" => reqs[r].code \in {404, 422}
      BY <3>1, <3>2 DEF Verdict
    <3> QED BY <3>1, <3>3 DEF RefusedForAReason
  <2>2. CASE ~reqs[r].waiting
    BY <1>2, <2>2 DEF ReadAnswer, FailedForAReason
  <2> QED BY <2>1, <2>2
<1>3. ASSUME NEW r \in Requests, StepOf(r) PROVE ReadAnswer(r) \/ row' = row
  BY <1>3 DEF StepOf, Attempt, Refused, GivesUp, GoesOn, Begins, Gives, Skips, Done, HangUp
<1>4. DispatchRestart \/ Turns => row' = row
  BY DEF DispatchRestart, Turns
<1> QED BY <1>1, <1>2, <1>3, <1>4, StepsOfARequest DEF FailedForAReason

\* What is answered 200, and so what is sent, was taken, all of it; or it was too old to tell.
Served(p) == taken[p] >= 1 \/ (ask.type = "status" /\ ~fresh)

AllServed ==
  /\ \A r \in Requests : reqs[r].at = "sending" => \A p \in Asked : In(p, reqs[r].todo) \/ Served(p)
  /\ \A r \in Requests : reqs[r].at = "answering" /\ reqs[r].code = 200 => \A p \in Asked : Served(p)
  /\ row = "sent" => \A p \in Asked : Served(p)

LEMMA TakenGrows ==
  ASSUME DispatchTyped, DispatchNext, NEW p \in Parts
  PROVE  taken'[p] \in Nat /\ taken'[p] >= taken[p] /\ (Served(p) => Served(p)')
<1>0. taken \in [Parts -> Nat] /\ ask' = ask /\ (~fresh => ~fresh')
  BY Steady DEF DispatchTyped
<1>1. ASSUME NEW part, Take(part) PROVE taken'[p] \in Nat /\ taken'[p] >= taken[p]
  BY <1>0, <1>1 DEF Take
<1>2. CASE taken' = taken
  BY <1>0, <1>2 DEF Served
<1>3. ASSUME NEW r \in Requests, StepOf(r) PROVE taken' = taken \/ \E part : Take(part)
  BY <1>3 DEF StepOf, Attempt, Refused, GivesUp, GoesOn, Begins, Gives, Skips, Done, ReadAnswer, HangUp
<1>4. DispatchRestart \/ Turns => taken' = taken
  BY DEF DispatchRestart, Turns
<1>5. taken'[p] \in Nat /\ taken'[p] >= taken[p] /\ taken[p] \in Nat
  BY <1>0, <1>1, <1>3, <1>4, StepsOfARequest
<1> QED BY <1>0, <1>5 DEF Served

LEMMA AllServedStill ==
  ASSUME DispatchTyped, AllServed, DispatchNext
  PROVE  AllServed'
<1>0. Asked' = Asked /\ \A p \in Asked : Served(p) => Served(p)'
  BY Steady, AskedAreParts, TakenGrows
<1>1. ASSUME NEW r \in Requests, NEW at, NEW todo, NEW code, Alone(r, at, todo, code),
             at = "sending" => \A p \in Asked : In(p, todo) \/ Served(p)',
             at = "answering" /\ code = 200 => \A p \in Asked : Served(p)',
             row' = row
      PROVE  AllServed'
  BY <1>0, <1>1 DEF AllServed, Alone
<1>2. ASSUME NEW r \in Requests, StepOf(r) PROVE AllServed'
  <2>1. CASE Attempt(r)
    <3>1. Alone(r, "arrived", <<>>, 0) /\ row' = row
      BY <2>1, AttemptChanges DEF Attempt
    <3> QED BY <1>1, <3>1
  <2>2. CASE Refused(r)
    <3>1. row' = row /\ \E code \in {404, 422} : Alone(r, "answering", reqs[r].todo, code)
      BY <2>2, KindsChange DEF Refused
    <3> QED BY <1>1, <3>1
  <2>3. CASE GivesUp(r)
    <3>1. row' = row /\ \E code \in {422, 500, 503} : Alone(r, "answering", reqs[r].todo, code)
      BY <2>3, KindsChange DEF GivesUp
    <3> QED BY <1>1, <3>1
  <2>4. CASE GoesOn(r)
    <3>1. row' = row /\ \E at \in {"message", "status", "contact", "reached"} :
                          Alone(r, at, reqs[r].todo, reqs[r].code)
      BY <2>4, KindsChange DEF GoesOn
    <3> QED BY <1>1, <3>1
  <2>5. CASE Begins(r)
    <3>1. row' = row /\ \E todo \in Todos : (\A p \in Asked : In(p, todo)) /\ Alone(r, "sending", todo, reqs[r].code)
      <4>1. row' = row
        BY <2>5 DEF Begins
      <4> QED BY <2>5, <4>1, KindsChange
    <3> QED BY <1>1, <3>1
  <2>6. CASE Gives(r)
    <3>1. row' = row /\ Take(Head(reqs[r].todo)) /\ reqs[r].at = "sending" /\ reqs[r].todo # <<>>
      BY <2>6 DEF Gives
    <3>2. Alone(r, "sending", Tail(reqs[r].todo), reqs[r].code)
      BY <2>6, KindsChange
    <3>3. /\ Head(reqs[r].todo) \in Parts
          /\ \A p \in Parts : In(p, reqs[r].todo) => p = Head(reqs[r].todo) \/ In(p, Tail(reqs[r].todo))
      BY <3>1, RequestTyped, TodosShrink
    <3>4. \A p \in Parts : p = Head(reqs[r].todo) => Served(p)'
      <4>1. taken \in [Parts -> Nat]
        BY DEF DispatchTyped
      <4> QED BY <3>1, <3>3, <4>1 DEF Take, Served
    <3>5. \A p \in Asked : In(p, Tail(reqs[r].todo)) \/ Served(p)'
      BY <1>0, <3>1, <3>3, <3>4, AskedAreParts DEF AllServed
    <3> QED BY <1>1, <3>1, <3>2, <3>5
  <2>7. CASE Skips(r)
    <3>1. row' = row /\ ask.type = "status" /\ ~fresh
      BY <2>7 DEF Skips
    <3>2. Alone(r, "sending", Tail(reqs[r].todo), reqs[r].code)
      BY <2>7, KindsChange
    <3>3. \A p : Served(p)'
      BY <3>1, Steady DEF Served
    <3> QED BY <1>1, <3>1, <3>2, <3>3
  <2>8. CASE Done(r)
    <3>1. row' = row /\ reqs[r].at = "sending" /\ reqs[r].todo = <<>>
      BY <2>8 DEF Done
    <3>2. Alone(r, "answering", reqs[r].todo, 200)
      BY <2>8, KindsChange
    <3>3. \A p \in Asked : Served(p)'
      BY <1>0, <3>1, NothingIsInNone DEF AllServed
    <3> QED BY <1>1, <3>1, <3>2, <3>3
  <2>9. CASE ReadAnswer(r)
    <3>1. Alone(r, "free", <<>>, 0)
      BY <2>9, ReadAnswerChanges
    <3>2. row' = "sent" => row = "sent" \/ (reqs[r].at = "answering" /\ reqs[r].code = 200)
      <4>1. reqs[r].code \in {0, 200, 404, 422, 500, 503} /\ reqs[r].at = "answering" /\ reqs[r].code # 0
        BY <2>9, RequestTyped DEF Answers, ReadAnswer, DispatchTyped
      <4>2. CASE row' = Verdict(reqs[r].code)
        BY <4>1, <4>2 DEF Verdict
      <4> QED BY <2>9, <4>2 DEF ReadAnswer
    <3>3. row' = "sent" => \A p \in Asked : Served(p)'
      BY <1>0, <3>2 DEF AllServed
    <3> QED BY <1>0, <3>1, <3>3 DEF AllServed, Alone
  <2>10. CASE HangUp(r)
    <3>1. row' = row /\ Alone(r, reqs[r].at, reqs[r].todo, reqs[r].code)
      BY <2>10, HangUpChanges DEF HangUp
    <3> QED BY <1>0, <1>1, <3>1 DEF AllServed
  <2> QED BY <1>2, <2>1, <2>2, <2>3, <2>4, <2>5, <2>6, <2>7, <2>8, <2>9, <2>10 DEF StepOf
<1>3. CASE DispatchRestart
  <2>1. row' = row /\ \A r \in Requests : reqs'[r].at = "free"
    BY <1>3 DEF DispatchRestart, Free
  <2> QED BY <1>0, <2>1 DEF AllServed
<1>4. CASE Turns
  BY <1>0, <1>4 DEF Turns, AllServed
<1> QED BY <1>2, <1>3, <1>4, StepsOfARequest

\* What may still be taken: a part by each request that has it before it, and by the attempt
\* that the dispatcher owes the row, or will, once it reads that it was put off.
MayTake(r, p) ==
  \/ reqs[r].at \in {"arrived", "message", "status", "contact", "reached"}
  \/ reqs[r].at = "sending" /\ In(p, reqs[r].todo)

Takers(p) == {r \in Requests : MayTake(r, p)}
Ahead(p) == Cardinality(Takers(p))

Again(r) ==
  /\ reqs[r].waiting
  /\ \/ reqs[r].at = "answering" /\ reqs[r].code >= 500
     \/ reqs[r].at \notin {"arrived", "answering"} /\ ~connected

Owed ==
  \/ row = "pending" /\ \A r \in Requests : ~reqs[r].waiting
  \/ \E r \in Requests : Again(r)

PaidFor == \A p \in Parts : taken[p] + Ahead(p) + (IF Owed THEN 1 ELSE 0) <= 1 + faults

LEMMA AheadIsNat == \A p : Ahead(p) \in Nat /\ IsFiniteSet(Takers(p))
<1> TAKE p
<1>1. Takers(p) \subseteq Requests /\ IsFiniteSet(Requests)
  BY DispatchAssumption DEF Takers
<1>2. IsFiniteSet(Takers(p))
  BY <1>1, FS_Subset
<1> QED BY <1>2, FS_CardinalityType DEF Ahead

LEMMA AheadChanges ==
  ASSUME NEW r \in Requests, NEW p, \A q \in Requests \ {r} : reqs'[q] = reqs[q]
  PROVE  /\ Ahead(p)' \in Nat
         /\ (MayTake(r, p)' <=> MayTake(r, p)) => Ahead(p)' = Ahead(p)
         /\ MayTake(r, p) /\ ~MayTake(r, p)' => Ahead(p)' = Ahead(p) - 1
         /\ ~MayTake(r, p) /\ MayTake(r, p)' => Ahead(p)' = Ahead(p) + 1
<1>0. Takers(p) \subseteq Requests /\ IsFiniteSet(Takers(p)) /\ Ahead(p) = Cardinality(Takers(p))
  BY AheadIsNat DEF Takers, Ahead
<1>1. Takers(p)' \subseteq Requests /\ Ahead(p)' = Cardinality(Takers(p)')
  BY DEF Takers, Ahead
<1>2. \A q \in Requests \ {r} : q \in Takers(p)' <=> q \in Takers(p)
  BY DEF Takers, MayTake
<1>3. /\ r \in Takers(p)' <=> MayTake(r, p)'
      /\ r \in Takers(p) <=> MayTake(r, p)
  BY DEF Takers
<1>4. CASE MayTake(r, p)' <=> MayTake(r, p)
  <2>1. Takers(p)' = Takers(p)
    BY <1>0, <1>1, <1>2, <1>3, <1>4
  <2> QED BY <1>0, <1>1, <1>4, <2>1, AheadIsNat
<1>5. CASE MayTake(r, p) /\ ~MayTake(r, p)'
  <2>1. Takers(p)' = Takers(p) \ {r} /\ r \in Takers(p)
    BY <1>0, <1>1, <1>2, <1>3, <1>5
  <2>2. Cardinality(Takers(p)') = Cardinality(Takers(p)) - 1 /\ Cardinality(Takers(p)') \in Nat
    BY <1>0, <2>1, FS_RemoveElement, FS_CardinalityType
  <2> QED BY <1>0, <1>1, <1>5, <2>2
<1>6. CASE ~MayTake(r, p) /\ MayTake(r, p)'
  <2>1. Takers(p)' = Takers(p) \union {r} /\ r \notin Takers(p)
    BY <1>0, <1>1, <1>2, <1>3, <1>6
  <2>2. Cardinality(Takers(p)') = Cardinality(Takers(p)) + 1 /\ Cardinality(Takers(p)') \in Nat
    BY <1>0, <2>1, FS_AddElement, FS_CardinalityType
  <2> QED BY <1>0, <1>1, <1>6, <2>2
<1> QED BY <1>4, <1>5, <1>6

LEMMA OwedOnlyAsBefore ==
  ASSUME NEW r \in Requests, \A q \in Requests \ {r} : reqs'[q] = reqs[q], StillWaits(r),
         row' = row, connected => connected', Again(r)' => Again(r)
  PROVE  Owed' => Owed
<1>1. ASSUME \A q \in Requests : ~reqs'[q].waiting PROVE \A q \in Requests : ~reqs[q].waiting
  BY <1>1 DEF StillWaits
<1>2. ASSUME NEW q \in Requests, Again(q)' PROVE \E s \in Requests : Again(s)
  BY <1>2 DEF Again
<1> QED BY <1>1, <1>2 DEF Owed

LEMMA PaidForStill ==
  ASSUME DispatchTyped, DispatchTyped', OneWaits, PaidFor, DispatchNext
  PROVE  PaidFor'
<1> SUFFICES ASSUME NEW p \in Parts
             PROVE  taken'[p] + Ahead(p)' + (IF Owed' THEN 1 ELSE 0) <= 1 + faults'
  BY DEF PaidFor
<1> DEFINE n  == taken[p] + Ahead(p)
           nn == taken'[p] + Ahead(p)'
<1>0. taken \in [Parts -> Nat] /\ taken' \in [Parts -> Nat] /\ faults \in 0..Faults
  BY DEF DispatchTyped
<1>1. taken[p] \in Nat /\ taken'[p] \in Nat /\ Ahead(p) \in Nat /\ Ahead(p)' \in Nat /\ faults \in Nat
  <2>1. Faults \in Nat
    BY DispatchAssumption
  <2>2. Ahead(p) \in Nat
    BY AheadIsNat
  <2>3. IsFiniteSet(Takers(p)')
    <3>1. Takers(p)' \subseteq Requests /\ IsFiniteSet(Requests)
      BY DispatchAssumption DEF Takers
    <3> QED BY <3>1, FS_Subset
  <2>4. Ahead(p)' \in Nat
    BY <2>3, FS_CardinalityType DEF Ahead
  <2> QED BY <1>0, <2>1, <2>2, <2>4
<1>2. n \in Nat /\ nn \in Nat /\ n + (IF Owed THEN 1 ELSE 0) <= 1 + faults
  BY <1>1 DEF PaidFor
<1> HIDE DEF n, nn
<1>3. ASSUME \/ nn <= n /\ (Owed' => Owed) /\ faults' = faults
             \/ nn <= n /\ faults' = faults + 1
             \/ nn <= n - 1 /\ faults' = faults
             \/ nn <= n + 1 /\ Owed /\ ~Owed' /\ faults' = faults
      PROVE  nn + (IF Owed' THEN 1 ELSE 0) <= 1 + faults'
  <2>1. CASE Owed /\ Owed'
    BY <1>1, <1>2, <1>3, <2>1
  <2>2. CASE Owed /\ ~Owed'
    BY <1>1, <1>2, <1>3, <2>2
  <2>3. CASE ~Owed /\ Owed'
    BY <1>1, <1>2, <1>3, <2>3
  <2>4. CASE ~Owed /\ ~Owed'
    BY <1>1, <1>2, <1>3, <2>4
  <2> QED BY <2>1, <2>2, <2>3, <2>4
<1>4. \A part \in Parts : Take(part) => taken'[p] = IF p = part THEN taken[p] + 1 ELSE taken[p]
  BY <1>0 DEF Take
<1>5. taken' = taken /\ Ahead(p)' = Ahead(p) => nn = n
  BY DEF n, nn
<1>6. taken' = taken /\ Ahead(p)' = Ahead(p) - 1 => nn = n - 1
  BY <1>1 DEF n, nn
\* A step that leaves r, or takes it from those who may take the part, and takes nothing.
<1>7. ASSUME NEW r \in Requests, \A q \in Requests \ {r} : reqs'[q] = reqs[q],
             MayTake(r, p)' => MayTake(r, p), taken' = taken
      PROVE  nn <= n
  <2>1. Ahead(p)' = Ahead(p) \/ Ahead(p)' = Ahead(p) - 1
    BY <1>7, AheadChanges
  <2> QED BY <1>2, <1>5, <1>6, <1>7, <2>1
<1>8. ASSUME NEW r \in Requests, StepOf(r) PROVE nn + (IF Owed' THEN 1 ELSE 0) <= 1 + faults'
  <2>1. CASE Attempt(r)
    <3>1. /\ \A q \in Requests : ~reqs[q].waiting
          /\ row = "pending" /\ taken' = taken /\ faults' = faults
      BY <2>1 DEF Attempt
    <3>2. Alone(r, "arrived", <<>>, 0) /\ reqs'[r].waiting
      BY <2>1, AttemptChanges
    <3>3. reqs[r].at = "free" /\ ~MayTake(r, p)
      BY <2>1 DEF Attempt, Free, MayTake
    <3>4. MayTake(r, p)'
      BY <3>2 DEF Alone, MayTake
    <3>5. Ahead(p)' = Ahead(p) + 1
      BY <3>2, <3>3, <3>4, AheadChanges DEF Alone
    <3>6. nn = n + 1
      BY <1>1, <3>1, <3>5 DEF n, nn
    <3>7. Owed
      BY <3>1 DEF Owed
    <3>8. \A q \in Requests : ~Again(q)'
      BY <3>1, <3>2 DEF Alone, Again
    <3>9. ~Owed'
      BY <3>2, <3>8 DEF Owed
    <3> QED BY <1>2, <1>3, <3>1, <3>6, <3>7, <3>9
  <2>2. CASE Refused(r)
    <3>1. PICK code \in {404, 422} : Alone(r, "answering", reqs[r].todo, code) /\ StillWaits(r)
      BY <2>2, KindsChange
    <3>2. taken' = taken /\ faults' = faults /\ row' = row /\ connected' = connected
      BY <2>2 DEF Refused
    <3>3. ~MayTake(r, p)' /\ ~Again(r)'
      BY <3>1 DEF Alone, MayTake, Again
    <3> QED BY <1>3, <1>7, <3>1, <3>2, <3>3, OwedOnlyAsBefore DEF Alone
  <2>3. CASE GivesUp(r)
    <3>1. PICK code \in {422, 500, 503} : Alone(r, "answering", reqs[r].todo, code) /\ StillWaits(r)
      BY <2>3, KindsChange
    <3>2. row' = row /\ connected' = connected /\ reqs[r].at \notin {"free", "answering"}
      BY <2>3 DEF GivesUp
    <3>3. ~MayTake(r, p)' /\ \A q \in Requests \ {r} : reqs'[q] = reqs[q]
      BY <3>1 DEF Alone, MayTake
    <3>4. CASE taken' = taken /\ MayTake(r, p)
      <4>1. nn = n - 1
        BY <1>6, <3>3, <3>4, AheadChanges
      <4>2. faults' = faults \/ faults' = faults + 1
        BY <2>3 DEF GivesUp, Fault
      <4> QED BY <1>2, <1>3, <4>1, <4>2
    <3>5. CASE ~(taken' = taken /\ MayTake(r, p))
      <4>1. reqs[r].at = "sending" /\ reqs[r].todo # <<>>
        <5>1. reqs[r].at \in Steps
          BY RequestTyped
        <5> QED BY <2>3, <3>5, <5>1 DEF GivesUp, MayTake, Steps
      <4>2. nn <= n
        <5>1. CASE taken' = taken
          BY <1>7, <3>3, <5>1
        <5>2. CASE Take(Head(reqs[r].todo))
          <6>1. Head(reqs[r].todo) \in Parts /\ (p = Head(reqs[r].todo) => MayTake(r, p))
            BY <4>1, RequestTyped, TodosShrink DEF MayTake
          <6>2. CASE p = Head(reqs[r].todo)
            <7>1. Ahead(p)' = Ahead(p) - 1 /\ taken'[p] = taken[p] + 1
              BY <1>4, <3>3, <5>2, <6>1, <6>2, AheadChanges
            <7> QED BY <1>1, <7>1 DEF n, nn
          <6>3. CASE p # Head(reqs[r].todo)
            <7>1. (Ahead(p)' = Ahead(p) - 1 \/ Ahead(p)' = Ahead(p)) /\ taken'[p] = taken[p]
              BY <1>4, <3>3, <5>2, <6>1, <6>3, AheadChanges
            <7> QED BY <1>1, <7>1 DEF n, nn
          <6> QED BY <6>2, <6>3
        <5> QED BY <2>3, <5>1, <5>2 DEF GivesUp
      <4>3. CASE Fault
        BY <1>3, <4>2, <4>3 DEF Fault
      <4>4. CASE faults' = faults /\ ~reqs[r].waiting
        <5>1. ~Again(r)'
          BY <3>1, <4>4 DEF Again, StillWaits
        <5> QED BY <1>3, <3>1, <3>2, <3>3, <4>2, <4>4, <5>1, OwedOnlyAsBefore
      <4>5. CASE faults' = faults /\ reqs[r].waiting /\ ~connected
        <5>1. Owed
          BY <4>1, <4>5 DEF Owed, Again
        <5> QED BY <1>3, <4>2, <4>5, <5>1
      <4> QED BY <2>3, <4>3, <4>4, <4>5 DEF GivesUp
    <3> QED BY <3>4, <3>5
  <2>4. CASE GoesOn(r)
    <3>1. PICK at \in {"message", "status", "contact", "reached"} :
            Alone(r, at, reqs[r].todo, reqs[r].code) /\ StillWaits(r)
      BY <2>4, KindsChange
    <3>2. taken' = taken /\ faults' = faults /\ row' = row /\ connected' = connected
      BY <2>4 DEF GoesOn
    <3>3. MayTake(r, p)
      BY <2>4 DEF GoesOn, MayTake
    <3>4. Again(r)' => Again(r)
      BY <2>4, <3>1, <3>2 DEF GoesOn, Again, Alone, StillWaits
    <3> QED BY <1>3, <1>7, <3>1, <3>2, <3>3, <3>4, OwedOnlyAsBefore DEF Alone
  <2>5. CASE Begins(r)
    <3>1. PICK todo \in Todos : Alone(r, "sending", todo, reqs[r].code) /\ StillWaits(r)
      BY <2>5, KindsChange
    <3>2. taken' = taken /\ faults' = faults /\ row' = row /\ connected' = connected
      BY <2>5 DEF Begins
    <3>3. MayTake(r, p)
      BY <2>5 DEF Begins, MayTake
    <3>4. Again(r)' => Again(r)
      BY <2>5, <3>1, <3>2 DEF Begins, Again, Alone, StillWaits
    <3> QED BY <1>3, <1>7, <3>1, <3>2, <3>3, <3>4, OwedOnlyAsBefore DEF Alone
  <2>6. CASE Gives(r)
    <3>1. Alone(r, "sending", Tail(reqs[r].todo), reqs[r].code) /\ StillWaits(r)
      BY <2>6, KindsChange
    <3>2. /\ faults' = faults /\ row' = row /\ connected' = connected /\ reqs[r].at = "sending"
          /\ reqs[r].todo # <<>> /\ Take(Head(reqs[r].todo))
      BY <2>6 DEF Gives
    <3>3. /\ Head(reqs[r].todo) \in Parts
          /\ \A x \in Parts : In(x, reqs[r].todo) <=> (x = Head(reqs[r].todo) \/ In(x, Tail(reqs[r].todo)))
          /\ ~In(Head(reqs[r].todo), Tail(reqs[r].todo))
      BY <3>2, RequestTyped, TodosShrink
    <3>4. /\ MayTake(r, p)' <=> In(p, Tail(reqs[r].todo))
          /\ MayTake(r, p) <=> In(p, reqs[r].todo)
      BY <3>1, <3>2 DEF MayTake, Alone
    <3>5. CASE p = Head(reqs[r].todo)
      <4>1. MayTake(r, p) /\ ~MayTake(r, p)'
        BY <3>3, <3>4, <3>5
      <4>2. Ahead(p)' = Ahead(p) - 1
        BY <3>1, <4>1, AheadChanges DEF Alone
      <4>3. taken'[p] = taken[p] + 1
        BY <1>4, <3>2, <3>3, <3>5
      <4>4. nn = n
        BY <1>1, <4>2, <4>3 DEF n, nn
      <4>5. Again(r)' => Again(r)
        BY <3>1, <3>2 DEF Again, Alone, StillWaits
      <4> QED BY <1>2, <1>3, <3>1, <3>2, <4>4, <4>5, OwedOnlyAsBefore DEF Alone
    <3>6. CASE p # Head(reqs[r].todo)
      <4>1. MayTake(r, p)' <=> MayTake(r, p)
        BY <3>3, <3>4, <3>6
      <4>2. Ahead(p)' = Ahead(p)
        BY <3>1, <4>1, AheadChanges DEF Alone
      <4>3. taken'[p] = taken[p]
        BY <1>4, <3>2, <3>3, <3>6
      <4>4. nn = n
        BY <1>1, <4>2, <4>3 DEF n, nn
      <4>5. Again(r)' => Again(r)
        BY <3>1, <3>2 DEF Again, Alone, StillWaits
      <4> QED BY <1>2, <1>3, <3>1, <3>2, <4>4, <4>5, OwedOnlyAsBefore DEF Alone
    <3> QED BY <3>5, <3>6
  <2>7. CASE Skips(r)
    <3>1. Alone(r, "sending", Tail(reqs[r].todo), reqs[r].code) /\ StillWaits(r)
      BY <2>7, KindsChange
    <3>2. /\ taken' = taken /\ faults' = faults /\ row' = row /\ connected' = connected
          /\ reqs[r].at = "sending" /\ reqs[r].todo # <<>>
      BY <2>7 DEF Skips
    <3>3. MayTake(r, p)' => MayTake(r, p)
      BY <3>1, <3>2, RequestTyped, TodosShrink DEF Alone, MayTake
    <3>4. Again(r)' => Again(r)
      BY <3>1, <3>2 DEF Again, Alone, StillWaits
    <3> QED BY <1>3, <1>7, <3>1, <3>2, <3>3, <3>4, OwedOnlyAsBefore DEF Alone
  <2>8. CASE Done(r)
    <3>1. Alone(r, "answering", reqs[r].todo, 200) /\ StillWaits(r)
      BY <2>8, KindsChange
    <3>2. taken' = taken /\ faults' = faults /\ row' = row /\ connected' = connected
      BY <2>8 DEF Done
    <3>3. ~MayTake(r, p)' /\ ~Again(r)'
      BY <3>1 DEF Alone, MayTake, Again
    <3> QED BY <1>3, <1>7, <3>1, <3>2, <3>3, OwedOnlyAsBefore DEF Alone
  <2>9. CASE ReadAnswer(r)
    <3>1. Alone(r, "free", <<>>, 0) /\ ~reqs'[r].waiting
      BY <2>9, ReadAnswerChanges
    <3>2. taken' = taken /\ faults' = faults /\ connected' = connected /\ reqs[r].at = "answering"
      BY <2>9 DEF ReadAnswer
    <3>3. ~MayTake(r, p)' /\ ~Again(r)'
      BY <3>1 DEF Alone, MayTake, Again
    <3>4. nn <= n
      BY <1>7, <3>1, <3>2, <3>3 DEF Alone
    <3>5. CASE ~reqs[r].waiting
      <4>1. row' = row /\ StillWaits(r)
        <5>1. reqs[r].waiting \in BOOLEAN /\ reqs'[r].waiting \in BOOLEAN
          BY <3>1 DEF DispatchTyped, RequestType, Alone
        <5> QED BY <2>9, <3>1, <3>5, <5>1 DEF ReadAnswer, StillWaits
      <4> QED BY <1>3, <3>1, <3>2, <3>3, <3>4, <4>1, OwedOnlyAsBefore DEF Alone
    <3>6. CASE reqs[r].waiting
      <4>1. row' = Verdict(reqs[r].code)
        BY <2>9, <3>6 DEF ReadAnswer
      <4>2. \A q \in Requests : ~reqs'[q].waiting
        BY <3>1, <3>6 DEF OneWaits, Alone
      <4>3. ASSUME Owed' PROVE Again(r)
        <5>1. row' = "pending"
          BY <4>2, <4>3 DEF Owed, Again
        <5>2. reqs[r].code \in {0, 200, 404, 422, 500, 503}
          BY RequestTyped DEF Answers
        <5>3. reqs[r].code >= 500
          BY <4>1, <5>1, <5>2 DEF Verdict
        <5> QED BY <3>2, <3>6, <5>3 DEF Again
      <4>4. Owed' => Owed
        BY <4>3 DEF Owed
      <4> QED BY <1>3, <3>2, <3>4, <4>4
    <3> QED BY <3>5, <3>6
  <2>10. CASE HangUp(r)
    <3>1. Alone(r, reqs[r].at, reqs[r].todo, reqs[r].code) /\ taken' = taken /\ faults' = faults + 1
      BY <2>10, HangUpChanges DEF HangUp, Fault
    <3>2. MayTake(r, p)' => MayTake(r, p)
      BY <3>1 DEF Alone, MayTake
    <3> QED BY <1>3, <1>7, <3>1, <3>2 DEF Alone
  <2> QED BY <1>8, <2>1, <2>2, <2>3, <2>4, <2>5, <2>6, <2>7, <2>8, <2>9, <2>10 DEF StepOf
<1>9. ASSUME DispatchRestart PROVE nn + (IF Owed' THEN 1 ELSE 0) <= 1 + faults'
  <2>1. taken' = taken /\ faults' = faults + 1 /\ \A r \in Requests : reqs'[r].at = "free"
    BY <1>9 DEF DispatchRestart, Fault, Free
  <2>2. Takers(p)' = {}
    BY <2>1 DEF Takers, MayTake
  <2>3. Ahead(p)' = 0
    BY <2>2, FS_EmptySet DEF Ahead
  <2>4. nn <= n
    BY <1>1, <2>1, <2>3 DEF n, nn
  <2> QED BY <1>3, <2>1, <2>4
<1>10. ASSUME Turns PROVE nn + (IF Owed' THEN 1 ELSE 0) <= 1 + faults'
  <2>1. taken' = taken /\ reqs' = reqs /\ row' = row
    BY <1>10 DEF Turns
  <2>2. Ahead(p)' = Ahead(p)
    BY <2>1 DEF Ahead, Takers, MayTake
  <2>3. nn = n
    BY <1>5, <2>1, <2>2
  <2>4. CASE Fault
    BY <1>2, <1>3, <2>3, <2>4 DEF Fault
  <2>5. CASE faults' = faults /\ (connected => connected')
    <3>1. Owed' => Owed
      BY <2>1, <2>5 DEF Owed, Again
    <3> QED BY <1>2, <1>3, <2>3, <2>5, <3>1
  <2> QED BY <1>10, <2>4, <2>5 DEF Turns
<1>11. nn + (IF Owed' THEN 1 ELSE 0) <= 1 + faults'
  BY <1>8, <1>9, <1>10, StepsOfARequest
<1> QED BY <1>11 DEF nn

\* The inductive invariant.
DispatchIInv ==
  /\ DispatchTyped /\ OneWaits
  /\ RefusedForAReason /\ FailedForAReason /\ NoFaultYet
  /\ AllServed /\ PaidFor

LEMMA DispatchStarts == DispatchInit => DispatchIInv
<1> SUFFICES ASSUME DispatchInit PROVE DispatchIInv
  OBVIOUS
<1>0. Faults \in Nat
  BY DispatchAssumption
<1>1. \A r \in Requests : reqs[r].at = "free" /\ reqs[r].waiting = FALSE
  BY DEF DispatchInit, Free
<1>2. DispatchTyped
  <2>1. Free \in RequestType
    BY DEF Free, RequestType, Steps, Todos, Answers
  <2>2. taken \in [Parts -> Nat] /\ faults \in 0..Faults
    BY <1>0 DEF DispatchInit
  <2> QED BY <1>1, <2>1, <2>2 DEF DispatchInit, DispatchTyped
<1>3. OneWaits /\ RefusedForAReason /\ FailedForAReason /\ AllServed
  BY <1>1 DEF DispatchInit, OneWaits, RefusedForAReason, FailedForAReason, AllServed
<1>4. NoFaultYet
  BY <1>1, <1>2, AskedAreParts DEF DispatchInit, NoFaultYet, Untaken
<1>5. PaidFor
  <2> SUFFICES ASSUME NEW p \in Parts PROVE taken[p] + Ahead(p) + (IF Owed THEN 1 ELSE 0) <= 1 + faults
    BY DEF PaidFor
  <2>1. Takers(p) = {}
    BY <1>1 DEF Takers, MayTake
  <2>2. Ahead(p) = 0
    BY <2>1, FS_EmptySet DEF Ahead
  <2>3. taken[p] = 0 /\ faults = 0
    BY DEF DispatchInit
  <2> QED BY <2>2, <2>3
<1> QED BY <1>2, <1>3, <1>4, <1>5 DEF DispatchIInv

LEMMA DispatchGoesOn == DispatchIInv /\ [DispatchNext]_dispatchVars => DispatchIInv'
<1> SUFFICES ASSUME DispatchIInv, [DispatchNext]_dispatchVars PROVE DispatchIInv'
  OBVIOUS
<1>1. CASE DispatchNext
  BY <1>1, StepsTyped, OneWaitsOn, RefusedForAReasonStill, FailedForAReasonStill, NoFaultYetStill,
     AllServedStill, PaidForStill DEF DispatchIInv
<1>2. CASE UNCHANGED dispatchVars
  <2>1. UNCHANGED <<ask, row, reqs, known, connected, fresh, taken, faults>>
    BY <1>2 DEF dispatchVars
  <2>2. DispatchTyped' /\ OneWaits'
    BY <2>1 DEF DispatchIInv, DispatchTyped, OneWaits
  <2>3. RefusedForAReason' /\ FailedForAReason'
    BY <2>1 DEF DispatchIInv, RefusedForAReason, FailedForAReason
  <2>4. NoFaultYet'
    BY <2>1 DEF DispatchIInv, NoFaultYet, Untaken, Fulfilled, Asked
  <2>5. AllServed'
    BY <2>1 DEF DispatchIInv, AllServed, Served, Asked
  <2>6. PaidFor'
    <3>1. \A p : Ahead(p)' = Ahead(p)
      BY <2>1 DEF Ahead, Takers, MayTake
    <3>2. Owed' <=> Owed
      BY <2>1 DEF Owed, Again
    <3> QED BY <2>1, <3>1, <3>2 DEF DispatchIInv, PaidFor
  <2> QED BY <2>2, <2>3, <2>4, <2>5, <2>6 DEF DispatchIInv
<1> QED BY <1>1, <1>2

\* A row is failed for good only when something is wrong with it or its session is gone, and
\* without a fault it was then not taken: a request that got as far as to be taken is answered
\* 200, and nobody else is there to fail the row.
THEOREM FailsForGoodOnly == DispatchSpec => []FailedForGood
<1>1. DispatchIInv => FailedForGood
  <2> SUFFICES ASSUME DispatchIInv, row = "failed" PROVE FailedForGood
    BY DEF FailedForGood
  <2>1. ask.trouble # "none" \/ ~known
    BY DEF DispatchIInv, FailedForAReason
  <2>2. ASSUME faults = 0 PROVE \A p \in Asked \ {"typing"} : taken[p] = 0
    <3>1. \A r \in Requests : reqs[r].at = "free"
      BY <2>2 DEF DispatchIInv, NoFaultYet, OneWaits
    <3> QED BY <2>2, <3>1 DEF DispatchIInv, NoFaultYet, Fulfilled, Untaken
  <2> QED BY <2>1, <2>2 DEF FailedForGood
<1> QED BY <1>1, DispatchStarts, DispatchGoesOn, PTL DEF DispatchSpec

\* A row said to be sent was taken, all of it, and a part is taken again only at the price of a
\* fault: what may still be taken, by the requests under way and by the attempt the dispatcher owes
\* the row, is paid for in advance.
THEOREM TakesWhatItTells == DispatchSpec => []Accounted
<1>1. DispatchIInv => Accounted
  <2> SUFFICES ASSUME DispatchIInv PROVE Accounted
    OBVIOUS
  <2>1. ASSUME NEW p \in Parts PROVE taken[p] <= 1 + faults
    <3>1. taken[p] + Ahead(p) + (IF Owed THEN 1 ELSE 0) <= 1 + faults
      BY DEF DispatchIInv, PaidFor
    <3>2. taken[p] \in Nat /\ faults \in Nat /\ Ahead(p) \in Nat
      <4>1. taken \in [Parts -> Nat] /\ faults \in 0..Faults
        BY DEF DispatchIInv, DispatchTyped
      <4>2. Faults \in Nat
        BY DispatchAssumption
      <4> QED BY <4>1, <4>2, AheadIsNat
    <3> QED BY <3>1, <3>2
  <2>2. row = "sent" => \A p \in Asked : Served(p)
    BY DEF DispatchIInv, AllServed
  <2> QED BY <2>1, <2>2 DEF Accounted, Served
<1> QED BY <1>1, DispatchStarts, DispatchGoesOn, PTL DEF DispatchSpec

LEMMA DispatchTypeAlways == DispatchInit /\ [][DispatchNext]_dispatchVars => []DispatchTypeOK
<1> DEFINE Flags == {known, connected, filed, fresh} \subseteq BOOLEAN
<1>1. DispatchInit => Flags
  <2> SUFFICES ASSUME DispatchInit PROVE Flags
    OBVIOUS
  <2>1. known = TRUE /\ fresh = TRUE /\ connected \in BOOLEAN /\ filed \in BOOLEAN
    BY DEF DispatchInit
  <2> QED BY <2>1
<1>2. Flags /\ [DispatchNext]_dispatchVars => Flags'
  <2> SUFFICES ASSUME Flags, [DispatchNext]_dispatchVars PROVE Flags'
    OBVIOUS
  <2>1. known' \in {known, FALSE} /\ connected' \in {connected, TRUE, FALSE}
        /\ filed' \in {filed, TRUE} /\ fresh' \in {fresh, FALSE}
    <3>1. ASSUME NEW r \in Requests, onWhatsApp(r)
          PROVE  filed' \in {filed, TRUE} /\ UNCHANGED <<known, connected, fresh>>
      BY <3>1 DEF onWhatsApp
    <3>2. ASSUME NEW r \in Requests,
                 \/ Attempt(r) \/ Check(r) \/ buildOutgoingMessage(r) \/ Status(r) \/ buildContact(r)
                 \/ Send(r) \/ Done(r) \/ ReadAnswer(r) \/ HangUp(r)
          PROVE  UNCHANGED <<known, connected, filed, fresh>>
      BY <3>2 DEF Attempt, Check, buildOutgoingMessage, Status, buildContact, Send, Done, ReadAnswer, HangUp
    <3>3. CASE DispatchRestart \/ LinkDrop \/ LinkUp \/ Forget \/ Age \/ UNCHANGED dispatchVars
      BY <3>3 DEF DispatchRestart, LinkDrop, LinkUp, Forget, Age, dispatchVars
    <3> QED BY <3>1, <3>2, <3>3 DEF DispatchNext
  <2> QED BY <2>1
<1>3. DispatchIInv /\ Flags => DispatchTypeOK
  <2> SUFFICES ASSUME DispatchIInv, Flags PROVE DispatchTypeOK
    OBVIOUS
  <2>1. \A todo \in Todos : todo \in Seq(Parts)
    <3>1. /\ <<>> \in Seq(Parts) /\ <<"message">> \in Seq(Parts) /\ <<"contact">> \in Seq(Parts)
          /\ <<"typing">> \in Seq(Parts) /\ <<"read">> \in Seq(Parts)
          /\ <<"typing", "read">> \in Seq(Parts)
      BY DEF Parts
    <3> QED BY <3>1 DEF Todos
  <2>2. ASSUME NEW r \in Requests
        PROVE  /\ reqs[r].at \in Steps /\ reqs[r].waiting \in BOOLEAN
               /\ reqs[r].todo \in Seq(Parts) /\ reqs[r].code \in Answers
    <3>1. reqs[r] \in RequestType
      BY DEF DispatchIInv, DispatchTyped
    <3>2. reqs[r].todo \in Todos
      BY <3>1 DEF RequestType
    <3> QED BY <2>1, <3>1, <3>2 DEF RequestType
  <2> QED BY <2>2 DEF DispatchIInv, DispatchTyped, DispatchTypeOK, Steps, Answers
<1> QED BY <1>1, <1>2, <1>3, DispatchStarts, DispatchGoesOn, PTL

\* Every state of a row and its requests is well formed: no request is at an unknown step, or
\* answers a code that handleDispatch does not give.
THEOREM DispatchTypeCorrect == DispatchSpec => []DispatchTypeOK
BY DispatchTypeAlways, PTL DEF DispatchSpec

-----------------------------------------------------------------------------
(***************************************************************************)
(* Outbound.  Whatever the scene, each of the four behaves as by itself:   *)
(* its own theorems hold of the whole.                                     *)
(***************************************************************************)
LEMMA EachLeavesByItself ==
  Spec => /\ MentionsSpec /\ InteractiveSpec /\ RosterSpec
          /\ DispatchInit /\ [][DispatchNext]_dispatchVars
<1>1. Init => MentionsInit /\ InteractiveInit /\ RosterInit /\ DispatchInit
  BY DEF Init
<1>2. [Next]_vars => /\ [MentionsNext]_mentionVars
                     /\ [InteractiveNext]_interactiveVars
                     /\ [RosterNext]_rosterVars
                     /\ [DispatchNext]_dispatchVars
  BY DEF Next, InDispatch, InMentions, InInteractive, InRoster, vars
<1> QED BY <1>1, <1>2, PTL DEF Spec, MentionsSpec, InteractiveSpec, RosterSpec

\* Every state of what is sent is well formed: what a chat is known to speak, what is kept of an
\* interactive message and answered to it, whom a request moves and with which code it ends, and
\* the steps and answers of a row's requests.
THEOREM OutboundTypeCorrect == Spec => []OutboundTypeOK
<1>1. DispatchTypeOK /\ MentionsTypeOK /\ InteractiveTypeOK /\ RosterTypeOK => OutboundTypeOK
  BY DEF OutboundTypeOK
<1> QED BY <1>1, EachLeavesByItself, DispatchTypeAlways, MentionsTypeCorrect, InteractiveTypeCorrect,
           RosterTypeCorrect, PTL
=============================================================================
