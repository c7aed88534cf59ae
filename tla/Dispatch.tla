------------------------------ MODULE Dispatch ------------------------------
(***************************************************************************)
(* One row that the consumer's dispatcher sends through the bridge         *)
(* (handleDispatch and what it calls in server.go, pressFor's verdicts).   *)
(*                                                                         *)
(* The dispatcher posts the row and reads the answer: 2xx is done, 4xx is  *)
(* failed for good, anything else stays pending and is posted again.  It   *)
(* may hang up before the answer, and then the request of its earlier      *)
(* attempt still runs beside the next one.                                 *)
(***************************************************************************)
EXTENDS Naturals, Sequences, FiniteSets

CONSTANTS
  Requests,   \* bound: the requests that run at once
  Faults,     \* bound: what goes wrong on the way, taken together
  Asks        \* the rows: type, content, and the trouble with it or on its way, if any

ASSUME DispatchAssumption ==
  /\ Requests # {} /\ IsFiniteSet(Requests) /\ Faults \in Nat
  /\ \A a \in Asks : a.keys \subseteq {"typing", "read"}
  /\ \A a \in Asks : a.type \in {"message", "status", "contact"} \/ a.trouble = "unknown type"

VARIABLES
  ask,        \* the row's content; it never changes
  row,        \* the dispatcher's verdict on it
  reqs,       \* each request: the step it is at, its caller, what is left to send, its answer
  known,      \* Manager.Get finds the session
  connected,  \* Client.IsConnected
  filed,      \* whatsmeow has the LID of the chat's number on file
  fresh,      \* the status keys of the row are no older than a minute
  taken,      \* what WhatsApp took, by how often
  faults

dispatchVars == <<ask, row, reqs, known, connected, filed, fresh, taken, faults>>

Free  == [at |-> "free", waiting |-> FALSE, todo |-> <<>>, code |-> 0]
Parts == {"message", "typing", "read", "contact"}

DispatchInit ==
  /\ ask \in Asks
  /\ row = "pending"
  /\ reqs = [r \in Requests |-> Free]
  /\ known = TRUE
  /\ connected \in BOOLEAN
  /\ filed \in BOOLEAN
  /\ fresh = TRUE
  /\ taken = [p \in Parts |-> 0]
  /\ faults = 0

Fault == faults < Faults /\ faults' = faults + 1

-----------------------------------------------------------------------------
(***************************************************************************)
(* Errors.  What clears on its own is 503, the rest 422.                   *)
(***************************************************************************)
LinkErrors == {"ErrNotConnected", "ErrSocketClosed", "DisconnectedError"}
SlowErrors == {"ErrIQTimedOut", "ErrMessageTimedOut", "DeadlineExceeded", "net.Error"}
BusyErrors == {"IQ 419", "IQ 429", "IQ 500", "IQ 503", "IQ 530"}

\* Mutant of transientSendError: what a server error says is final.
transientSendError_Final(err) == err \in LinkErrors \union SlowErrors \union {"Canceled"}

transientSendError(err) == err \in LinkErrors \union SlowErrors \union BusyErrors \union {"Canceled"}
sendErrorStatus(err) == IF transientSendError(err) THEN 503 ELSE 422

\* Anything else, such as a failure of whatsmeow's own store under the call.
Unlisted == "unlisted"

Errors == LinkErrors \union SlowErrors \union BusyErrors \union {"Canceled", Unlisted}

\* Goes(r, err): a call of r's to WhatsApp may end with err.
Goes(r, err) ==
  \/ ~connected /\ err \in LinkErrors /\ UNCHANGED faults
  \/ ~reqs[r].waiting /\ err = "Canceled" /\ UNCHANGED faults
  \/ err \in SlowErrors \union BusyErrors /\ Fault
  \/ err = Unlisted /\ ask.trouble = Unlisted /\ Fault

-----------------------------------------------------------------------------
Move(r, at)   == reqs' = [reqs EXCEPT ![r].at = at]
Reply(r, code) == reqs' = [reqs EXCEPT ![r].at = "answering", ![r].code = code]

\* The dispatcher posts the row; it waits for one answer at a time.
Attempt(r) ==
  /\ row = "pending" /\ reqs[r] = Free
  /\ \A q \in Requests : ~reqs[q].waiting
  /\ reqs' = [reqs EXCEPT ![r] = [Free EXCEPT !.at = "arrived", !.waiting = TRUE]]
  /\ UNCHANGED <<ask, row, known, connected, filed, fresh, taken, faults>>

\* What is looked at before anything is sent: the session, the media URL, the link, the
\* address, and the type.
Check(r) ==
  /\ reqs[r].at = "arrived"
  /\ IF ~known THEN Reply(r, 404)
     ELSE IF ask.trouble = "media_url" THEN Reply(r, 422)
     ELSE IF ~connected THEN Reply(r, 503)
     ELSE IF ask.trouble \in {"no address", "not a number", "unknown type"} THEN Reply(r, 422)
     ELSE Move(r, ask.type)
  /\ UNCHANGED <<ask, row, known, connected, filed, fresh, taken, faults>>

\* A direct chat by number is asked for once; the answer files its LID.
onWhatsApp(r) ==
  /\ reqs[r].at = "message"
  /\ \/ /\ filed \/ ask.chat # "number"
        /\ Move(r, "reached") /\ UNCHANGED <<filed, faults>>
     \/ /\ ~filed /\ ask.chat = "number" /\ connected
        /\ IF ask.trouble = "nobody" THEN Reply(r, 422) /\ UNCHANGED filed
           ELSE Move(r, "reached") /\ filed' = TRUE
        /\ UNCHANGED faults
     \/ /\ ~filed /\ ask.chat = "number"
        /\ \E err \in Errors : Goes(r, err) /\ Reply(r, sendErrorStatus(err))
        /\ UNCHANGED filed
  /\ UNCHANGED <<ask, row, known, connected, fresh, taken>>

\* Mutant of storageStatus: a missing file may come back.
storageStatus_Patient(answer) == 503

\* A file that storage does not have stays missing; 429 and 5xx pass.
storageStatus(answer) == IF answer = "gone" THEN 422 ELSE 503

\* A medium is weighed, fetched from storage and uploaded; a fetch or an upload may fail for
\* now, also because the caller has hung up.
buildMediaMessage(r) ==
  \/ ask.trouble \in {"no payload", "too large"} /\ Reply(r, 422) /\ UNCHANGED faults
  \/ ask.trouble = "gone" /\ Reply(r, storageStatus("gone")) /\ UNCHANGED faults
  \/ /\ ask.trouble # "no payload"
     /\ Fault \/ (~(connected /\ reqs[r].waiting) /\ UNCHANGED faults)
     /\ Reply(r, storageStatus("busy"))

Built(r) == reqs' = [reqs EXCEPT ![r].at = "sending", ![r].todo = <<"message">>]

\* Everything wrong with the content itself is 422; pressFor reads the store for a text, and a
\* store that fails is 500.
buildOutgoingMessage(r) ==
  /\ reqs[r].at = "reached"
  /\ \/ /\ ask.trouble \in {"empty", "no option", "bad id", "unsupported"}
        /\ Reply(r, 422) /\ UNCHANGED faults
     \/ ask.content = "text" /\ ask.trouble # "empty" /\ Fault /\ Reply(r, 500)
     \/ ask.content = "file" /\ buildMediaMessage(r)
     \/ ask.trouble \in {"none", "nobody", "refused", Unlisted} /\ Built(r) /\ UNCHANGED faults
  /\ UNCHANGED <<ask, row, known, connected, filed, fresh, taken>>

\* A status row tells of what changed within the last minute: typing, then read.
recent == fresh

StatusParts ==
  (IF "typing" \in ask.keys THEN <<"typing">> ELSE <<>>)
  \o (IF "read" \in ask.keys THEN <<"read">> ELSE <<>>)

Status(r) ==
  /\ reqs[r].at = "status"
  /\ reqs' = [reqs EXCEPT ![r].at = "sending", ![r].todo = StatusParts]
  /\ UNCHANGED <<ask, row, known, connected, filed, fresh, taken, faults>>

buildContact(r) ==
  /\ reqs[r].at = "contact"
  /\ IF ask.trouble \in {"no contact", "not a person"} THEN Reply(r, 422)
     ELSE reqs' = [reqs EXCEPT ![r].at = "sending", ![r].todo = <<"contact">>]
  /\ UNCHANGED <<ask, row, known, connected, filed, fresh, taken, faults>>

\* SendMessage, SendChatPresence, MarkRead, SendAppState: WhatsApp takes it and says so, or
\* refuses it for good, or the call fails, and then nobody knows whether it was taken.
Take(p) == taken' = [taken EXCEPT ![p] = @ + 1]

\* Mutant of Failed: a failed call is only logged.
Failed_Logged(r, err) == reqs' = [reqs EXCEPT ![r].todo = Tail(@)]

Failed(r, err) == Reply(r, sendErrorStatus(err))

Send(r) ==
  /\ reqs[r].at = "sending" /\ reqs[r].todo # <<>>
  /\ LET part == Head(reqs[r].todo)
     IN IF ask.type = "status" /\ ~recent
        THEN reqs' = [reqs EXCEPT ![r].todo = Tail(@)] /\ UNCHANGED <<taken, faults>>
        ELSE IF part = "read" /\ ask.trouble = "bad id"
        THEN Reply(r, 422) /\ UNCHANGED <<taken, faults>>
        ELSE \/ /\ connected /\ ask.trouble # "refused"
                /\ Take(part)
                /\ reqs' = [reqs EXCEPT ![r].todo = Tail(@)]
                /\ UNCHANGED faults
             \/ connected /\ ask.trouble = "refused" /\ Reply(r, 422) /\ UNCHANGED <<taken, faults>>
             \/ /\ \E err \in Errors : Goes(r, err) /\ Failed(r, err)
                /\ UNCHANGED taken \/ (ask.trouble # "refused" /\ Take(part))
  /\ UNCHANGED <<ask, row, known, connected, filed, fresh>>

Done(r) ==
  /\ reqs[r].at = "sending" /\ reqs[r].todo = <<>>
  /\ Reply(r, 200)
  /\ UNCHANGED <<ask, row, known, connected, filed, fresh, taken, faults>>

\* External: the dispatcher reads the answer, if it still waits for it.
Verdict(code) == IF code < 300 THEN "sent" ELSE IF code < 500 THEN "failed" ELSE "pending"

ReadAnswer(r) ==
  /\ reqs[r].at = "answering"
  /\ row' = IF reqs[r].waiting THEN Verdict(reqs[r].code) ELSE row
  /\ reqs' = [reqs EXCEPT ![r] = Free]
  /\ UNCHANGED <<ask, known, connected, filed, fresh, taken, faults>>

-----------------------------------------------------------------------------
\* External: the dispatcher hangs up, or the answer is lost on its way.
HangUp(r) ==
  /\ Fault /\ reqs[r].waiting
  /\ reqs' = [reqs EXCEPT ![r].waiting = FALSE]
  /\ UNCHANGED <<ask, row, known, connected, filed, fresh, taken>>

\* The bridge restarts; every caller sees its connection break.
DispatchRestart ==
  /\ Fault
  /\ reqs' = [r \in Requests |-> Free]
  /\ UNCHANGED <<ask, row, known, connected, filed, fresh, taken>>

LinkDrop == connected /\ Fault /\ connected' = FALSE /\ UNCHANGED <<ask, row, reqs, known, filed, fresh, taken>>
LinkUp   == ~connected /\ connected' = TRUE /\ UNCHANGED <<ask, row, reqs, known, filed, fresh, taken, faults>>
Forget   == known /\ known' = FALSE /\ UNCHANGED <<ask, row, reqs, connected, filed, fresh, taken, faults>>
Age      == fresh /\ fresh' = FALSE /\ UNCHANGED <<ask, row, reqs, known, connected, filed, taken, faults>>

Handle(r) ==
  Check(r) \/ onWhatsApp(r) \/ buildOutgoingMessage(r) \/ Status(r) \/ buildContact(r)
           \/ Send(r) \/ Done(r) \/ ReadAnswer(r)

DispatchNext ==
  \/ \E r \in Requests :
       \/ Attempt(r)
       \/ Check(r)
       \/ onWhatsApp(r)
       \/ buildOutgoingMessage(r)
       \/ Status(r)
       \/ buildContact(r)
       \/ Send(r)
       \/ Done(r)
       \/ ReadAnswer(r)
       \/ HangUp(r)
  \/ DispatchRestart
  \/ LinkDrop
  \/ LinkUp
  \/ Forget
  \/ Age

-----------------------------------------------------------------------------
\* Type invariant.
DispatchTypeOK ==
  /\ ask \in Asks
  /\ row \in {"pending", "sent", "failed"}
  /\ \A r \in Requests :
       /\ reqs[r].at \in {"free", "arrived", "message", "status", "contact", "reached", "sending", "answering"}
       /\ reqs[r].waiting \in BOOLEAN
       /\ reqs[r].todo \in Seq(Parts)
       /\ reqs[r].code \in {0, 200, 404, 422, 500, 503}
  /\ {known, connected, filed, fresh} \subseteq BOOLEAN
  /\ taken \in [Parts -> Nat]
  /\ faults \in 0..Faults

\* What a row asks for in the end.
Asked == IF ask.type \in {"message", "contact"} THEN {ask.type} ELSE ask.keys

\* A row said to be sent was taken, all of it, and each part more than once only at the price
\* of a fault each time: the answer was lost and the dispatcher asked again.  The exception is
\* a status row retried after its minute, which is answered 200 with nothing sent (`recent`).
Accounted ==
  /\ \A p \in Parts : taken[p] <= 1 + faults
  /\ row = "sent" => \/ \A p \in Asked : taken[p] >= 1
                     \/ ask.type = "status" /\ ~fresh

\* "Only what clears on its own is 503": a row is failed for good only when something is wrong
\* with the row, its session is gone, or whatsmeow failed under it with an error of no kind
\* that transientSendError lists; never for the link, a slow or busy WhatsApp, or a hang-up.
\* Without a fault a failed row was not taken.
FailedForGood ==
  row = "failed" =>
    /\ ask.trouble # "none" \/ ~known
    /\ faults = 0 => \A p \in Asked \ {"typing"} : taken[p] = 0

DispatchFairness ==
  /\ \A r \in Requests : WF_dispatchVars(Handle(r))
  /\ WF_dispatchVars(\E r \in Requests : Attempt(r))
  /\ WF_dispatchVars(LinkUp)

DispatchSpec == DispatchInit /\ [][DispatchNext]_dispatchVars /\ DispatchFairness
=============================================================================
