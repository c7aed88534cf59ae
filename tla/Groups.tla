------------------------------- MODULE Groups -------------------------------
(***************************************************************************)
(* What the bridge knows of one group's subject (groups.go, postGroupChange *)
(* and handleMessage in events.go, the caches of sessions.go).             *)
(*                                                                         *)
(* WhatsApp keeps the subject and announces every change, in order, to the *)
(* event loop.  The goroutine that a first message starts, and the HTTP    *)
(* calls that read or set the subject, ask WhatsApp and note its answer    *)
(* in the same cache, each at its own pace.                                *)
(***************************************************************************)
EXTENDS Naturals, Sequences, FiniteSets

CONSTANTS
  Subjects,   \* bound: the subjects a group has one after another, 1..Subjects
  Chatter,    \* bound: the messages of the group
  Lives       \* bound: the processes, one after another

ASSUME GroupsAssumption == Subjects \in Nat \ {0} /\ Chatter \in Nat /\ Lives \in Nat \ {0}

VARIABLES
  subject,      \* WhatsApp: the group's subject
  wire,         \* WhatsApp: what the event loop has yet to be given, oldest first
  said,         \* WhatsApp: the messages sent so far
  loop,         \* the subject the event loop noted and has yet to post, or 0
  groupsSent,   \* Session.groupsSent has the group
  groupName,    \* Session.groupNames, 0 when never noted
  calls,        \* each call: idle, asking, or the step it is at with WhatsApp's answer
  shown,        \* the receiver's subject, 0 when never posted
  failed,       \* history: the fetch of this process failed
  announced,    \* history: the newest subject the event loop noted
  overtaken,    \* history: a call noted an older one since
  life

groupVars == <<subject, wire, said, loop, groupsSent, groupName, calls, shown,
               failed, announced, overtaken, life>>

Callers == {"fetch", "handleGroup", "handleRenameGroup"}
Idle    == [at |-> "idle", name |-> 0]
Message == 0   \* on the wire; a change is the subject it announces

GroupsInit ==
  /\ subject = 1
  /\ wire = <<>>
  /\ said = 0
  /\ loop = 0
  /\ groupsSent = FALSE
  /\ groupName = 0
  /\ calls = [c \in Callers |-> Idle]
  /\ shown = 0
  /\ failed = FALSE
  /\ announced = 0
  /\ overtaken = FALSE
  /\ life = 1

\* External: WhatsApp takes a new subject and announces it to every device of every member.
NewSubject ==
  /\ subject < Subjects
  /\ subject' = subject + 1
  /\ wire' = Append(wire, subject + 1)

Renamed ==
  /\ NewSubject
  /\ UNCHANGED <<said, loop, groupsSent, groupName, calls, shown, failed, announced, overtaken, life>>

\* External: somebody writes to the group.
Say ==
  /\ said < Chatter
  /\ said' = said + 1
  /\ wire' = Append(wire, Message)
  /\ UNCHANGED <<subject, loop, groupsSent, groupName, calls, shown, failed, announced, overtaken, life>>

-----------------------------------------------------------------------------
\* Mutant of noteGroupName: the first subject is kept.
noteGroupName_First(name) == groupName' = IF groupName # 0 THEN groupName ELSE name

noteGroupName(name) == groupName' = IF name = 0 THEN groupName ELSE name

\* The event loop notes the subject of a change, or of a group just joined.
NoteChange ==
  /\ loop = 0 /\ wire # <<>> /\ Head(wire) # Message
  /\ noteGroupName(Head(wire))
  /\ loop' = Head(wire)
  /\ announced' = Head(wire)
  /\ overtaken' = FALSE
  /\ wire' = Tail(wire)
  /\ UNCHANGED <<subject, said, groupsSent, calls, shown, failed, life>>

\* ... and posts it.
postGroupChange ==
  /\ loop # 0
  /\ shown' = loop
  /\ loop' = 0
  /\ UNCHANGED <<subject, wire, said, groupsSent, groupName, calls, failed, announced, overtaken, life>>

\* Mutant of handleMessage: no fetch for a group whose subject is in the cache.
handleMessage_Cached ==
  /\ loop = 0 /\ wire # <<>> /\ Head(wire) = Message
  /\ groupsSent' = TRUE
  /\ calls' = IF groupsSent \/ groupName # 0 THEN calls ELSE [calls EXCEPT !["fetch"].at = "asking"]
  /\ wire' = Tail(wire)
  /\ UNCHANGED <<subject, said, loop, groupName, shown, failed, announced, overtaken, life>>

\* Marks the group, and says whether this is the first time; the fetch is started only then.
markGroupSent ==
  /\ groupsSent' = TRUE
  /\ calls' = IF groupsSent THEN calls ELSE [calls EXCEPT !["fetch"].at = "asking"]

\* The first message of a process from the group has its subject fetched.
handleMessage ==
  /\ loop = 0 /\ wire # <<>> /\ Head(wire) = Message
  /\ markGroupSent
  /\ wire' = Tail(wire)
  /\ UNCHANGED <<subject, said, loop, groupName, shown, failed, announced, overtaken, life>>

-----------------------------------------------------------------------------
\* An HTTP call comes in; the fetch was started by its message.
Ask(c) ==
  /\ c # "fetch" /\ calls[c] = Idle
  /\ calls' = [calls EXCEPT ![c].at = "asking"]
  /\ UNCHANGED <<subject, wire, said, loop, groupsSent, groupName, shown, failed, announced, overtaken, life>>

\* WhatsApp answers: a read with the subject it has, a rename by taking a new one.
Answer(c) ==
  /\ calls[c].at = "asking"
  /\ IF c = "handleRenameGroup" THEN NewSubject ELSE UNCHANGED <<subject, wire>>
  /\ calls' = [calls EXCEPT ![c] = [at |-> "answered", name |-> subject']]
  /\ UNCHANGED <<said, loop, groupsSent, groupName, shown, failed, announced, overtaken, life>>

\* Nothing is noted of a call that failed, and no call is repeated; a rename may have been
\* taken though its answer was lost.
Fail(c) ==
  /\ calls[c].at = "asking"
  /\ \/ c = "handleRenameGroup" /\ NewSubject
     \/ UNCHANGED <<subject, wire>>
  /\ calls' = [calls EXCEPT ![c] = Idle]
  /\ failed' = (failed \/ c = "fetch")
  /\ UNCHANGED <<said, loop, groupsSent, groupName, shown, announced, overtaken, life>>

\* The answer is noted; an HTTP call is then done, the fetch has its post to make.
Note(c) ==
  /\ calls[c].at = "answered"
  /\ noteGroupName(calls[c].name)
  /\ overtaken' = (overtaken \/ calls[c].name < announced)
  /\ calls' = [calls EXCEPT ![c] = IF c = "fetch" THEN [@ EXCEPT !.at = "noted"] ELSE Idle]
  /\ UNCHANGED <<subject, wire, said, loop, groupsSent, shown, failed, announced, life>>

PostSubject ==
  /\ calls["fetch"].at = "noted"
  /\ shown' = calls["fetch"].name
  /\ calls' = [calls EXCEPT !["fetch"] = Idle]
  /\ UNCHANGED <<subject, wire, said, loop, groupsSent, groupName, failed, announced, overtaken, life>>

\* The process restarts with empty caches; a change in hand comes again, or was acknowledged.
GroupsRestart ==
  /\ life < Lives
  /\ life' = life + 1
  /\ groupsSent' = FALSE
  /\ groupName' = 0
  /\ calls' = [c \in Callers |-> Idle]
  /\ loop' = 0
  /\ wire' \in {wire} \union (IF loop = 0 THEN {} ELSE {<<loop>> \o wire})
  /\ failed' = FALSE
  /\ announced' = 0
  /\ overtaken' = FALSE
  /\ UNCHANGED <<subject, said, shown>>

Loop  == NoteChange \/ postGroupChange \/ handleMessage
Fetch == Answer("fetch") \/ Fail("fetch") \/ Note("fetch") \/ PostSubject

GroupsNext ==
  \/ Renamed
  \/ Say
  \/ NoteChange
  \/ postGroupChange
  \/ handleMessage
  \/ \E c \in Callers : Ask(c) \/ Answer(c) \/ Fail(c) \/ Note(c)
  \/ PostSubject
  \/ GroupsRestart

GroupsFairness == WF_groupVars(Fetch)
GroupsSpec == GroupsInit /\ [][GroupsNext]_groupVars /\ GroupsFairness

-----------------------------------------------------------------------------
\* Type invariant.
GroupsTypeOK ==
  /\ subject \in 1..Subjects
  /\ wire \in Seq(0..Subjects)
  /\ said \in 0..Chatter
  /\ {loop, groupName, shown, announced} \subseteq 0..Subjects
  /\ {groupsSent, failed, overtaken} \subseteq BOOLEAN
  /\ calls \in [Callers -> [at : {"idle", "asking", "answered", "noted"}, name : 0..Subjects]]
  /\ life \in 1..Lives

Quiet == wire = <<>> /\ loop = 0 /\ \A c \in Callers : calls[c].at \in {"idle", "asking"}

\* "A new subject is kept first, so the messages after it carry the name it now has"
\* (postGroupChange): once every announcement is handled, the name that messages carry is the
\* group's.  The one way to lose it: a call that asked before the last change and noted its
\* answer after; the old name then stays until the next change or call.
SubjectIsHeard ==
  Quiet => groupName \in {0, subject} \/ (overtaken /\ groupName < announced)

\* The first message of a process from a group leads to its subject being noted and posted,
\* unless the one fetch it starts fails (markGroupSent: it is not repeated) or the process ends.
GroupIsNamed == groupsSent ~> ((groupName # 0 /\ shown # 0) \/ failed \/ ~groupsSent)
=============================================================================
