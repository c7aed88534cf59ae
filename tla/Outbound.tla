----------------------------- MODULE Outbound ------------------------------
(***************************************************************************)
(* What goes to WhatsApp: Dispatch, Mentions, Interactive and Roster.  The *)
(* four share no variable: `scene` says which of them a behaviour is       *)
(* about, and the others stay in one initial state.                        *)
(***************************************************************************)
EXTENDS Dispatch, Mentions, Interactive, Roster

VARIABLE scene
vars == <<dispatchVars, mentionVars, interactiveVars, rosterVars, scene>>

Init ==
  /\ DispatchInit
  /\ MentionsInit
  /\ InteractiveInit
  /\ RosterInit
  /\ scene \in {"dispatch", "mentions", "interactive", "roster"}
  /\ scene # "dispatch"    => ask = CHOOSE a \in Asks : TRUE
  /\ scene # "dispatch"    => connected /\ filed
  /\ scene # "mentions"    => server = LidServer
  /\ scene # "interactive" => offer = CHOOSE o \in Offers : TRUE
  /\ scene # "roster"      => byLid /\ seated = People

InDispatch(Action) ==
  scene = "dispatch" /\ Action /\ UNCHANGED <<mentionVars, interactiveVars, rosterVars, scene>>
InMentions ==
  scene = "mentions" /\ MentionsNext /\ UNCHANGED <<dispatchVars, interactiveVars, rosterVars, scene>>
InInteractive ==
  scene = "interactive" /\ InteractiveNext /\ UNCHANGED <<dispatchVars, mentionVars, rosterVars, scene>>
InRoster ==
  scene = "roster" /\ RosterNext /\ UNCHANGED <<dispatchVars, mentionVars, interactiveVars, scene>>

Next == InDispatch(DispatchNext) \/ InMentions \/ InInteractive \/ InRoster

\* The fairness of Dispatch, in its scene.
Spec ==
  /\ Init /\ [][Next]_vars
  /\ \A r \in Requests : WF_vars(InDispatch(Handle(r)))
  /\ WF_vars(InDispatch(\E r \in Requests : Attempt(r)))
  /\ WF_vars(InDispatch(LinkUp))

\* The four type invariants.
OutboundTypeOK == DispatchTypeOK /\ MentionsTypeOK /\ InteractiveTypeOK /\ RosterTypeOK

\* Every row the dispatcher posts gets its verdict: the retries end once the faults do and the
\* link is back, because what is wrong with the row itself is never answered 5xx.
RowSettles == (scene = "dispatch" /\ row = "pending") ~> (row \in {"sent", "failed"})
=============================================================================
