--------------------------- MODULE InboundProofs ----------------------------
(***************************************************************************)
(* Theorems of Groups, for any number of subjects, messages and processes, *)
(* and of Inbound, which is Groups beside Intake and History.              *)
(***************************************************************************)
EXTENDS Inbound, IntakeProofs, HistoryProofs, SequenceTheorems

CallsTyped ==
  calls \in [Callers -> [at : {"idle", "asking", "answered", "noted"}, name : 0..Subjects]]

\* The part of the type invariant that the order of subjects needs.
Ranged ==
  /\ subject \in 1..Subjects
  /\ wire \in Seq(0..Subjects)
  /\ loop \in 0..Subjects /\ groupName \in 0..Subjects /\ announced \in 0..Subjects
  /\ CallsTyped

\* A change of subject is on its way to the event loop.
Coming == \E i \in DOMAIN wire : wire[i] # Message

\* The last change on the wire announces the subject the group has, the others older ones.
LastIsSubject ==
  \A i \in DOMAIN wire :
    /\ wire[i] <= subject
    /\ wire[i] # Message /\ (\A j \in DOMAIN wire : i < j => wire[j] = Message) => wire[i] = subject

\* What the event loop noted last is the subject, unless a newer one is coming.
LoopIsCurrent ==
  /\ announced <= subject /\ loop \in {0, announced}
  /\ announced \in {0, subject} \/ Coming

\* An answer in hand is the subject, or a change since was announced or is coming.
AnswersAreKnown ==
  \A c \in Callers :
    /\ calls[c].name <= subject
    /\ calls[c].at = "answered" =>
         /\ calls[c].name # 0
         /\ calls[c].name = subject \/ Coming \/ calls[c].name < announced

NameIsKnown ==
  /\ groupName <= subject
  /\ groupName \in {0, subject} \/ Coming \/ (overtaken /\ groupName < announced)

GInv == Ranged /\ LastIsSubject /\ LoopIsCurrent /\ AnswersAreKnown /\ NameIsKnown

-----------------------------------------------------------------------------
(***************************************************************************)
(* The wire.                                                               *)
(***************************************************************************)
LEMMA WireAppends ==
  ASSUME Ranged, NEW x \in 0..Subjects, wire' = Append(wire, x)
  PROVE  /\ wire' \in Seq(0..Subjects)
         /\ DOMAIN wire = 1..Len(wire) /\ DOMAIN wire' = 1..(Len(wire) + 1) /\ Len(wire) \in Nat
         /\ wire'[Len(wire) + 1] = x
         /\ \A i \in DOMAIN wire : wire'[i] = wire[i]
BY DEF Ranged

LEMMA ChangeIsSent ==
  ASSUME Ranged, LastIsSubject, NewSubject
  PROVE  /\ subject' \in 1..Subjects /\ subject' = subject + 1
         /\ wire' \in Seq(0..Subjects) /\ Coming' /\ LastIsSubject'
<1>0. \A i \in DOMAIN wire : wire[i] \in 0..Subjects
  <2>1. wire \in Seq(0..Subjects) /\ DOMAIN wire = 1..Len(wire)
    BY DEF Ranged
  <2> QED BY <2>1, ElementOfSeq
<1>1. subject' \in 1..Subjects /\ subject' = subject + 1 /\ subject' \in 0..Subjects
  BY GroupsAssumption DEF NewSubject, Ranged
<1>2. wire' = Append(wire, subject')
  BY DEF NewSubject
<1>3. /\ wire' \in Seq(0..Subjects)
      /\ DOMAIN wire' = 1..(Len(wire) + 1) /\ Len(wire) \in Nat
      /\ wire'[Len(wire) + 1] = subject'
      /\ DOMAIN wire = 1..Len(wire) /\ \A i \in DOMAIN wire : wire'[i] = wire[i]
  BY <1>1, <1>2, WireAppends
<1>4. Coming'
  BY <1>1, <1>3 DEF Coming, Message
<1>5. LastIsSubject'
  <2>1. ASSUME NEW i \in DOMAIN wire' PROVE wire'[i] <= subject'
    <3>1. CASE i \in DOMAIN wire
      <4>1. wire[i] <= subject /\ wire'[i] = wire[i]
        BY <1>3, <3>1 DEF LastIsSubject
      <4>2. wire[i] \in 0..Subjects
        BY <1>0, <3>1
      <4> QED BY <1>1, <4>1, <4>2 DEF Ranged
    <3>2. CASE i = Len(wire) + 1
      BY <1>1, <1>3, <3>2
    <3> QED BY <1>3, <2>1, <3>1, <3>2
  <2> QED BY <1>1, <1>3, <2>1 DEF LastIsSubject, Message
<1> QED BY <1>1, <1>3, <1>4, <1>5

LEMMA MessageIsSent ==
  ASSUME Ranged, LastIsSubject, wire' = Append(wire, Message), subject' = subject
  PROVE  wire' \in Seq(0..Subjects) /\ (Coming' <=> Coming) /\ LastIsSubject'
<1>1. /\ wire' \in Seq(0..Subjects)
      /\ DOMAIN wire = 1..Len(wire) /\ DOMAIN wire' = 1..(Len(wire) + 1) /\ Len(wire) \in Nat
      /\ wire'[Len(wire) + 1] = Message
      /\ \A i \in DOMAIN wire : wire'[i] = wire[i]
  BY WireAppends, GroupsAssumption DEF Message
<1>2. Coming' <=> Coming
  BY <1>1 DEF Coming
<1>3. LastIsSubject'
  BY <1>1 DEF LastIsSubject, Message, Ranged
<1> QED BY <1>1, <1>2, <1>3

\* Once the head is taken, nothing is lost but a change, which was the last or is followed.
LEMMA HeadIsTaken ==
  ASSUME Ranged, LastIsSubject, wire # <<>>, wire' = Tail(wire), subject' = subject
  PROVE  /\ wire' \in Seq(0..Subjects) /\ Head(wire) \in 0..subject /\ LastIsSubject'
         /\ Head(wire) = Message => (Coming' <=> Coming)
         /\ Head(wire) # Message => Coming' \/ Head(wire) = subject
<1>1. /\ wire' \in Seq(0..Subjects) /\ Head(wire) = wire[1] /\ Head(wire) \in 0..Subjects
      /\ Len(wire) \in Nat /\ Len(wire) >= 1
      /\ DOMAIN wire = 1..Len(wire) /\ DOMAIN wire' = 1..(Len(wire) - 1)
      /\ \A i \in 1..(Len(wire) - 1) : wire'[i] = wire[i + 1]
  <2>1. wire \in Seq(0..Subjects) /\ wire # <<>> /\ wire' = Tail(wire)
    BY DEF Ranged
  <2>2. Len(wire) \in Nat /\ DOMAIN wire = 1..Len(wire) /\ (Len(wire) = 0 => wire = <<>>)
    BY <2>1
  <2>3. /\ Head(wire) \in 0..Subjects /\ wire' \in Seq(0..Subjects) /\ Len(wire') = Len(wire) - 1
        /\ \A i \in 1..Len(wire') : wire'[i] = wire[i + 1]
    BY <2>1, HeadTailProperties
  <2>4. DOMAIN wire' = 1..Len(wire') /\ Head(wire) = wire[1]
    BY <2>1, <2>3
  <2> QED BY <2>1, <2>2, <2>3, <2>4
<1>2. \A i \in DOMAIN wire : i # 1 => i - 1 \in DOMAIN wire' /\ wire'[i - 1] = wire[i]
  BY <1>1
<1>3. LastIsSubject'
  <2> SUFFICES ASSUME NEW i \in DOMAIN wire', wire'[i] # Message,
                      \A j \in DOMAIN wire' : i < j => wire'[j] = Message
               PROVE  wire'[i] = subject
    BY <1>1 DEF LastIsSubject
  <2>1. i + 1 \in DOMAIN wire /\ wire[i + 1] = wire'[i]
    BY <1>1
  <2>2. \A j \in DOMAIN wire : i + 1 < j => wire[j] = Message
    <3> TAKE j \in DOMAIN wire
    <3> HAVE i + 1 < j
    <3>1. j # 1 /\ i < j - 1
      BY <1>1
    <3> QED BY <1>2, <3>1
  <2> QED BY <2>1, <2>2 DEF LastIsSubject
<1>4. Coming' => Coming
  BY <1>1 DEF Coming
<1>5. Coming /\ Head(wire) = Message => Coming'
  BY <1>1, <1>2 DEF Coming
<1>6. ~Coming' /\ Head(wire) # Message => Head(wire) = subject
  <2> HAVE ~Coming' /\ Head(wire) # Message
  <2>1. \A j \in DOMAIN wire' : wire'[j] = Message
    BY DEF Coming
  <2>2. \A j \in DOMAIN wire : j # 1 => wire[j] = Message
    BY <1>2, <2>1
  <2>3. 1 \in DOMAIN wire /\ \A j \in DOMAIN wire : 1 < j => j # 1
    BY <1>1
  <2> QED BY <1>1, <2>2, <2>3 DEF LastIsSubject
<1>7. Head(wire) \in 0..subject
  BY <1>1 DEF LastIsSubject, Ranged
<1> QED BY <1>1, <1>3, <1>4, <1>5, <1>6, <1>7

\* WhatsApp delivers the change in hand again.
LEMMA ChangeComesAgain ==
  ASSUME Ranged, LastIsSubject, LoopIsCurrent, loop # 0,
         wire' = <<loop>> \o wire, subject' = subject
  PROVE  wire' \in Seq(0..Subjects) /\ Coming' /\ LastIsSubject'
<1>1. loop \in 0..Subjects /\ loop # Message /\ wire \in Seq(0..Subjects)
  BY DEF Ranged, Message
<1>2. /\ wire' \in Seq(0..Subjects) /\ Len(wire) \in Nat
      /\ DOMAIN wire = 1..Len(wire) /\ DOMAIN wire' = 1..(Len(wire) + 1)
      /\ wire'[1] = loop
      /\ \A i \in DOMAIN wire : wire'[i + 1] = wire[i]
  BY <1>1
<1>3. Coming'
  BY <1>1, <1>2 DEF Coming
<1>4. LastIsSubject'
  <2>0. ASSUME NEW i \in DOMAIN wire' PROVE wire'[i] <= subject'
    <3>1. CASE i = 1
      BY <1>1, <1>2, <3>1 DEF LoopIsCurrent
    <3>2. CASE i # 1
      <4>1. i - 1 \in DOMAIN wire /\ (i - 1) + 1 = i
        BY <1>2, <3>2
      <4> QED BY <1>2, <4>1 DEF LastIsSubject
    <3> QED BY <3>1, <3>2
  <2> SUFFICES ASSUME NEW i \in DOMAIN wire', wire'[i] # Message,
                      \A j \in DOMAIN wire' : i < j => wire'[j] = Message
               PROVE  wire'[i] = subject
    BY <2>0 DEF LastIsSubject
  <2>1. CASE i = 1
    <3>1. \A k \in DOMAIN wire : wire[k] = Message
      <4> TAKE k \in DOMAIN wire
      <4>1. k + 1 \in DOMAIN wire' /\ i < k + 1 /\ wire'[k + 1] = wire[k]
        BY <1>2, <2>1
      <4> QED BY <4>1
    <3> QED BY <1>1, <1>2, <2>1, <3>1 DEF LoopIsCurrent, Coming
  <2>2. CASE i # 1
    <3>1. i - 1 \in DOMAIN wire /\ wire'[i] = wire[i - 1]
      <4>1. i - 1 \in DOMAIN wire /\ (i - 1) + 1 = i
        BY <1>2, <2>2
      <4> QED BY <1>2, <4>1
    <3>2. \A k \in DOMAIN wire : i - 1 < k => wire[k] = Message
      <4> TAKE k \in DOMAIN wire
      <4> HAVE i - 1 < k
      <4>1. k + 1 \in DOMAIN wire' /\ i < k + 1 /\ wire'[k + 1] = wire[k]
        BY <1>2
      <4> QED BY <4>1
    <3> QED BY <3>1, <3>2 DEF LastIsSubject
  <2> QED BY <2>1, <2>2
<1> QED BY <1>2, <1>3, <1>4

LEMMA WireStays ==
  ASSUME UNCHANGED <<wire, subject>>
  PROVE  (Coming' <=> Coming) /\ (LastIsSubject' <=> LastIsSubject)
BY DEF Coming, LastIsSubject

-----------------------------------------------------------------------------
(***************************************************************************)
(* The steps.                                                              *)
(***************************************************************************)
LEMMA GInit == GroupsInit => GInv
<1> SUFFICES ASSUME GroupsInit PROVE GInv
  OBVIOUS
<1> USE GroupsAssumption DEF GroupsInit
<1>1. wire \in Seq(0..Subjects) /\ DOMAIN wire = {}
  OBVIOUS
<1>2. CallsTyped
  BY DEF Idle, CallsTyped
<1>3. \A c \in Callers : calls[c].name = 0 /\ calls[c].at = "idle"
  BY DEF Idle
<1>4. Ranged
  BY <1>1, <1>2 DEF Ranged
<1>5. LastIsSubject
  BY <1>1 DEF LastIsSubject
<1>6. LoopIsCurrent /\ NameIsKnown
  BY DEF LoopIsCurrent, NameIsKnown
<1>7. AnswersAreKnown
  BY <1>3 DEF AnswersAreKnown
<1> QED BY <1>4, <1>5, <1>6, <1>7 DEF GInv

LEMMA GWhatsApp ==
  ASSUME GInv, Renamed \/ Say
  PROVE  GInv'
<1> USE GroupsAssumption DEF GInv
<1>1. CASE Renamed
  <2>1. /\ subject' \in 1..Subjects /\ subject' = subject + 1
        /\ wire' \in Seq(0..Subjects) /\ Coming' /\ LastIsSubject'
    BY <1>1, ChangeIsSent DEF Renamed
  <2> QED BY <1>1, <2>1 DEF Renamed, Ranged, CallsTyped, LoopIsCurrent, AnswersAreKnown, NameIsKnown
<1>2. CASE Say
  <2>1. wire' \in Seq(0..Subjects) /\ (Coming' <=> Coming) /\ LastIsSubject'
    BY <1>2, MessageIsSent DEF Say
  <2> QED BY <1>2, <2>1 DEF Say, Ranged, CallsTyped, LoopIsCurrent, AnswersAreKnown, NameIsKnown
<1> QED BY <1>1, <1>2

LEMMA GLoop ==
  ASSUME GInv, Loop
  PROVE  GInv'
<1> USE GroupsAssumption DEF GInv
<1>1. CASE NoteChange
  <2>1. /\ wire' \in Seq(0..Subjects) /\ Head(wire) \in 0..subject /\ LastIsSubject'
        /\ Coming' \/ Head(wire) = subject
    BY <1>1, HeadIsTaken DEF NoteChange
  <2>2. /\ Head(wire) # 0 /\ groupName' = Head(wire) /\ loop' = Head(wire)
        /\ announced' = Head(wire) /\ overtaken' = FALSE
        /\ UNCHANGED <<subject, said, groupsSent, calls, shown, failed, life>>
    BY <1>1 DEF NoteChange, noteGroupName, Message
  <2>3. Ranged' /\ Head(wire) <= subject
    BY <2>1, <2>2 DEF Ranged, CallsTyped
  <2>4. LoopIsCurrent' /\ NameIsKnown'
    BY <2>1, <2>2, <2>3 DEF LoopIsCurrent, NameIsKnown
  <2>5. AnswersAreKnown'
    BY <2>1, <2>2, <2>3 DEF AnswersAreKnown, Ranged, CallsTyped
  <2> QED BY <2>1, <2>3, <2>4, <2>5
<1>2. CASE postGroupChange
  <2>1. (Coming' <=> Coming) /\ LastIsSubject'
    BY <1>2, WireStays DEF postGroupChange
  <2> QED BY <1>2, <2>1
      DEF postGroupChange, Ranged, CallsTyped, LoopIsCurrent, AnswersAreKnown, NameIsKnown
<1>3. CASE handleMessage
  <2>1. wire' \in Seq(0..Subjects) /\ LastIsSubject' /\ (Coming' <=> Coming)
    BY <1>3, HeadIsTaken DEF handleMessage
  <2>2. /\ CallsTyped'
        /\ \A c \in Callers : /\ calls'[c].name = calls[c].name
                              /\ calls'[c].at \in {"asking", calls[c].at}
    BY <1>3 DEF handleMessage, markGroupSent, Callers, Ranged, CallsTyped
  <2>3. UNCHANGED <<subject, loop, announced, groupName, overtaken, shown, said, failed, life>>
        /\ groupsSent' = TRUE
    BY <1>3 DEF handleMessage, markGroupSent
  <2>4. Ranged'
    BY <2>1, <2>2, <2>3 DEF Ranged
  <2>5. LoopIsCurrent' /\ NameIsKnown'
    BY <2>1, <2>3 DEF LoopIsCurrent, NameIsKnown
  <2>6. AnswersAreKnown'
    BY <2>1, <2>2, <2>3 DEF AnswersAreKnown
  <2> QED BY <2>1, <2>4, <2>5, <2>6
<1> QED BY <1>1, <1>2, <1>3 DEF Loop

LEMMA GCall ==
  ASSUME GInv, NEW c \in Callers, Ask(c) \/ Answer(c) \/ Fail(c) \/ Note(c)
  PROVE  GInv'
<1> USE GroupsAssumption DEF GInv
<1>1. CASE Ask(c)
  <2>1. /\ CallsTyped'
        /\ \A d \in Callers : /\ calls'[d].name = calls[d].name
                              /\ calls'[d].at \in {"asking", calls[d].at}
    BY <1>1 DEF Ask, Ranged, CallsTyped
  <2>2. UNCHANGED <<subject, wire, said, loop, groupsSent, groupName, shown, failed, announced,
                    overtaken, life>>
    BY <1>1 DEF Ask
  <2>3. (Coming' <=> Coming) /\ LastIsSubject'
    BY <2>2, WireStays
  <2>4. Ranged'
    BY <2>1, <2>2 DEF Ranged
  <2>5. LoopIsCurrent' /\ NameIsKnown'
    BY <2>2, <2>3 DEF LoopIsCurrent, NameIsKnown
  <2>6. AnswersAreKnown'
    BY <2>1, <2>2, <2>3 DEF AnswersAreKnown
  <2> QED BY <2>3, <2>4, <2>5, <2>6
<1>2. CASE Answer(c)
  <2>1. /\ calls' = [calls EXCEPT ![c] = [at |-> "answered", name |-> subject']]
        /\ UNCHANGED <<said, loop, groupsSent, groupName, shown, failed, announced, overtaken, life>>
    BY <1>2 DEF Answer
  <2>2. /\ subject' \in 1..Subjects /\ wire' \in Seq(0..Subjects) /\ LastIsSubject'
        /\ \/ subject' = subject /\ (Coming' <=> Coming)
           \/ subject' = subject + 1 /\ Coming'
    BY <1>2, ChangeIsSent, WireStays DEF Answer, Ranged
  <2>3. Ranged'
    <3>1. CallsTyped'
      BY <2>1, <2>2 DEF Ranged, CallsTyped
    <3> QED BY <2>1, <2>2, <3>1 DEF Ranged
  <2>4. LoopIsCurrent' /\ NameIsKnown'
    BY <2>1, <2>2 DEF LoopIsCurrent, NameIsKnown, Ranged
  <2>5. AnswersAreKnown'
    BY <2>1, <2>2 DEF AnswersAreKnown, Ranged, CallsTyped
  <2> QED BY <2>2, <2>3, <2>4, <2>5
<1>3. CASE Fail(c)
  <2>1. /\ calls' = [calls EXCEPT ![c] = Idle]
        /\ UNCHANGED <<said, loop, groupsSent, groupName, shown, announced, overtaken, life>>
    BY <1>3 DEF Fail, Ranged
  <2>2. /\ subject' \in 1..Subjects /\ wire' \in Seq(0..Subjects) /\ LastIsSubject'
        /\ \/ subject' = subject /\ (Coming' <=> Coming)
           \/ subject' = subject + 1 /\ Coming'
    BY <1>3, ChangeIsSent, WireStays DEF Fail, Ranged
  <2>3. Ranged'
    <3>1. CallsTyped'
      BY <2>1 DEF Ranged, CallsTyped, Idle
    <3> QED BY <2>1, <2>2, <3>1 DEF Ranged
  <2>4. LoopIsCurrent' /\ NameIsKnown'
    BY <2>1, <2>2 DEF LoopIsCurrent, NameIsKnown, Ranged
  <2>5. AnswersAreKnown'
    BY <2>1, <2>2 DEF AnswersAreKnown, Ranged, CallsTyped, Idle
  <2> QED BY <2>2, <2>3, <2>4, <2>5
<1>4. CASE Note(c)
  <2>1. /\ calls[c].at = "answered" /\ calls[c].name # 0 /\ calls[c].name \in 0..subject
        /\ calls[c].name = subject \/ Coming \/ calls[c].name < announced
    BY <1>4 DEF Note, AnswersAreKnown, Ranged, CallsTyped
  <2>2. /\ groupName' = calls[c].name
        /\ overtaken' = (overtaken \/ calls[c].name < announced)
        /\ UNCHANGED <<subject, wire, said, loop, groupsSent, shown, failed, announced, life>>
    BY <1>4, <2>1 DEF Note, noteGroupName
  <2>3. /\ CallsTyped'
        /\ \A d \in Callers : calls'[d] = calls[d]
                            \/ (calls'[d].name \in {0, calls[d].name} /\ calls'[d].at # "answered")
    BY <1>4 DEF Note, Idle, Ranged, CallsTyped
  <2>4. (Coming' <=> Coming) /\ LastIsSubject'
    BY <2>2, WireStays
  <2>5. Ranged'
    <3>1. groupName' \in 0..Subjects
      BY <2>1, <2>2 DEF Ranged
    <3> QED BY <2>2, <2>3, <3>1 DEF Ranged
  <2>6. LoopIsCurrent' /\ NameIsKnown'
    <3>1. LoopIsCurrent'
      BY <2>2, <2>4 DEF LoopIsCurrent
    <3>2. calls[c].name < announced => overtaken'
      BY <2>2
    <3>3. groupName' = calls[c].name /\ subject' = subject /\ announced' = announced
      BY <2>2
    <3>4. NameIsKnown'
      BY <2>1, <2>4, <3>2, <3>3 DEF NameIsKnown
    <3> QED BY <3>1, <3>4
  <2>7. AnswersAreKnown'
    <3> SUFFICES ASSUME NEW d \in Callers
                 PROVE  /\ calls'[d].name <= subject
                        /\ calls'[d].at = "answered" =>
                             /\ calls'[d].name # 0
                             /\ calls'[d].name = subject \/ Coming \/ calls'[d].name < announced
      BY <2>2, <2>4 DEF AnswersAreKnown
    <3>1. CASE calls'[d] = calls[d]
      BY <3>1 DEF AnswersAreKnown
    <3>2. CASE calls'[d].name \in {0, calls[d].name} /\ calls'[d].at # "answered"
      BY <3>2 DEF AnswersAreKnown, Ranged
    <3> QED BY <2>3, <3>1, <3>2
  <2> QED BY <2>4, <2>5, <2>6, <2>7
<1> QED BY <1>1, <1>2, <1>3, <1>4

LEMMA GEnds ==
  ASSUME GInv, PostSubject \/ GroupsRestart
  PROVE  GInv'
<1> USE GroupsAssumption DEF GInv
<1>1. CASE PostSubject
  <2>1. /\ calls' = [calls EXCEPT !["fetch"] = Idle]
        /\ UNCHANGED <<subject, wire, said, loop, groupsSent, groupName, failed, announced,
                       overtaken, life>>
    BY <1>1 DEF PostSubject, Callers, Ranged, CallsTyped
  <2>2. (Coming' <=> Coming) /\ LastIsSubject'
    BY <2>1, WireStays
  <2>3. Ranged'
    <3>1. CallsTyped'
      BY <2>1 DEF Ranged, CallsTyped, Idle, Callers
    <3> QED BY <2>1, <3>1 DEF Ranged
  <2>4. LoopIsCurrent' /\ NameIsKnown'
    BY <2>1, <2>2 DEF LoopIsCurrent, NameIsKnown
  <2>5. AnswersAreKnown'
    BY <2>1, <2>2 DEF AnswersAreKnown, Ranged, CallsTyped, Idle
  <2> QED BY <2>2, <2>3, <2>4, <2>5
<1>2. CASE GroupsRestart
  <2>1. /\ groupName' = 0 /\ loop' = 0
        /\ calls' = [d \in Callers |-> Idle] /\ announced' = 0
        /\ overtaken' = FALSE /\ UNCHANGED subject
    BY <1>2 DEF GroupsRestart
  <2>2. wire' \in Seq(0..Subjects) /\ LastIsSubject'
    <3>1. CASE wire' = wire
      BY <1>2, <3>1, WireStays DEF GroupsRestart, Ranged
    <3>2. CASE loop # 0 /\ wire' = <<loop>> \o wire
      BY <1>2, <3>2, ChangeComesAgain DEF GroupsRestart
    <3> QED BY <1>2, <3>1, <3>2 DEF GroupsRestart
  <2>3. Ranged'
    <3>1. CallsTyped'
      BY <2>1 DEF Ranged, CallsTyped, Idle
    <3> QED BY <2>1, <2>2, <3>1 DEF Ranged
  <2>4. LoopIsCurrent' /\ NameIsKnown'
    BY <2>1 DEF LoopIsCurrent, NameIsKnown, Ranged
  <2>5. AnswersAreKnown'
    BY <2>1 DEF AnswersAreKnown, Ranged, CallsTyped, Idle
  <2> QED BY <2>2, <2>3, <2>4, <2>5
<1> QED BY <1>1, <1>2

LEMMA GStep == GInv /\ [GroupsNext]_groupVars => GInv'
<1> SUFFICES ASSUME GInv, [GroupsNext]_groupVars PROVE GInv'
  OBVIOUS
<1>1. CASE UNCHANGED groupVars
  BY <1>1, WireStays
  DEF groupVars, GInv, Ranged, CallsTyped, LoopIsCurrent, AnswersAreKnown, NameIsKnown
<1>2. CASE GroupsNext
  BY <1>2, GWhatsApp, GLoop, GCall, GEnds DEF GroupsNext, Loop
<1> QED BY <1>1, <1>2

LEMMA GAlways == GroupsSpec => []GInv
BY GInit, GStep, PTL DEF GroupsSpec

\* Once every announcement is handled, the name that messages carry is the group's, unless a
\* call noted an answer that was older than an announcement already noted.
THEOREM GroupNameIsTheSubject == GroupsSpec => []SubjectIsHeard
<1>1. GInv => SubjectIsHeard
  BY DEF GInv, NameIsKnown, SubjectIsHeard, Quiet, Coming
<1> QED BY <1>1, GAlways, PTL
-----------------------------------------------------------------------------
\* The rest of the type invariant.
Counted ==
  /\ said \in 0..Chatter
  /\ shown \in 0..Subjects
  /\ {groupsSent, failed, overtaken} \subseteq BOOLEAN
  /\ life \in 1..Lives

LEMMA CountedStep == GInv /\ Counted /\ [GroupsNext]_groupVars => Counted'
<1> SUFFICES ASSUME GInv, Counted, [GroupsNext]_groupVars PROVE Counted'
  OBVIOUS
<1>1. said' \in 0..Chatter
  <2>1. said' = said \/ (said < Chatter /\ said' = said + 1)
    BY DEF GroupsNext, groupVars, Renamed, Say, NoteChange, postGroupChange, handleMessage, Ask,
           Answer, Fail, Note, PostSubject, GroupsRestart
  <2> QED BY <2>1, GroupsAssumption DEF Counted
<1>2. life' \in 1..Lives
  <2>1. life' = life \/ (life < Lives /\ life' = life + 1)
    BY DEF GroupsNext, groupVars, Renamed, Say, NoteChange, postGroupChange, handleMessage, Ask,
           Answer, Fail, Note, PostSubject, GroupsRestart
  <2> QED BY <2>1, GroupsAssumption DEF Counted
<1>3. shown' \in 0..Subjects
  <2>1. shown' \in {shown, loop, calls["fetch"].name}
    BY DEF GroupsNext, groupVars, Renamed, Say, NoteChange, postGroupChange, handleMessage, Ask,
           Answer, Fail, Note, PostSubject, GroupsRestart
  <2>2. calls["fetch"].name \in 0..Subjects
    BY DEF GInv, Ranged, CallsTyped, Callers
  <2> QED BY <2>1, <2>2 DEF Counted, GInv, Ranged
<1>4. groupsSent' \in BOOLEAN
  <2>1. groupsSent' \in {groupsSent, TRUE, FALSE}
    BY DEF GroupsNext, groupVars, Renamed, Say, NoteChange, postGroupChange, handleMessage, Ask,
           Answer, Fail, Note, PostSubject, GroupsRestart, markGroupSent
  <2> QED BY <2>1 DEF Counted
<1>5. failed' \in BOOLEAN
  <2>1. UNCHANGED failed \/ failed' = FALSE \/ \E c \in Callers : failed' = (failed \/ c = "fetch")
    BY DEF GroupsNext, groupVars, Renamed, Say, NoteChange, postGroupChange, handleMessage, Ask,
           Answer, Fail, Note, PostSubject, GroupsRestart
  <2> QED BY <2>1 DEF Counted
<1>6. overtaken' \in BOOLEAN
  <2>1. \/ UNCHANGED overtaken \/ overtaken' = FALSE
        \/ \E c \in Callers : overtaken' = (overtaken \/ calls[c].name < announced)
    BY DEF GroupsNext, groupVars, Renamed, Say, NoteChange, postGroupChange, handleMessage, Ask,
           Answer, Fail, Note, PostSubject, GroupsRestart
  <2> QED BY <2>1 DEF Counted
<1> QED BY <1>1, <1>2, <1>3, <1>4, <1>5, <1>6 DEF Counted

LEMMA GTypeAlways == GroupsInit /\ [][GroupsNext]_groupVars => []GroupsTypeOK
<1>1. GroupsInit => Counted
  <2> SUFFICES ASSUME GroupsInit PROVE Counted
    OBVIOUS
  <2>1. said = 0 /\ shown = 0 /\ life = 1
    BY DEF GroupsInit
  <2>2. groupsSent = FALSE /\ failed = FALSE /\ overtaken = FALSE
    BY DEF GroupsInit
  <2>3. said \in 0..Chatter /\ shown \in 0..Subjects /\ life \in 1..Lives
    BY <2>1, GroupsAssumption
  <2> QED BY <2>2, <2>3 DEF Counted
<1>2. GInv /\ Counted => GroupsTypeOK
  BY DEF GInv, Ranged, CallsTyped, Counted, GroupsTypeOK
<1> QED BY <1>1, <1>2, GInit, GStep, CountedStep, PTL

\* Every state of the group is well formed: no name is noted, shown or in hand that the group
\* never had.
THEOREM GroupsTypeCorrect == GroupsSpec => []GroupsTypeOK
BY GTypeAlways, PTL DEF GroupsSpec

-----------------------------------------------------------------------------
(***************************************************************************)
(* Inbound.  Whatever the scene, each of the three behaves as by itself:   *)
(* its own theorems hold of the whole.                                     *)
(***************************************************************************)
LEMMA EachArrivesByItself ==
  Spec => IntakeSpec /\ HistorySpec /\ GroupsInit /\ [][GroupsNext]_groupVars
<1>1. Init => IntakeInit /\ HistoryInit /\ GroupsInit
  BY DEF Init
<1>2. [Next]_vars => /\ [IntakeNext]_intakeVars
                     /\ [HistoryNext]_<<pollVars, historyVars>>
                     /\ [GroupsNext]_groupVars
  BY DEF Next, InIntake, InHistory, InGroups, vars
<1> QED BY <1>1, <1>2, PTL DEF Spec, IntakeSpec, HistorySpec

\* Every state of what is taken in is well formed: the ids and addresses of what is posted, the
\* votes, the tallies and the import's batches, and the names of the group.
THEOREM InboundTypeCorrect == Spec => []InboundTypeOK
<1>1. IntakeTypeOK /\ HistoryTypeOK /\ GroupsTypeOK => InboundTypeOK
  BY DEF InboundTypeOK
<1> QED BY <1>1, EachArrivesByItself, IntakeTypeCorrect, HistoryTypeCorrect, GTypeAlways, PTL
=============================================================================
