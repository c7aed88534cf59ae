------------------------------ MODULE Inbound ------------------------------
(***************************************************************************)
(* What comes from WhatsApp beside the hold and the outbox: Intake,        *)
(* History (with Polls) and Groups.  The three share no variable: `scene`  *)
(* says which of them a behaviour is about, and the others stay in an      *)
(* initial state.                                                          *)
(***************************************************************************)
EXTENDS Intake, History, Groups

VARIABLE scene
vars == <<intakeVars, pollVars, historyVars, groupVars, scene>>

Init ==
  /\ IntakeInit
  /\ HistoryInit
  /\ GroupsInit
  /\ scene \in {"intake", "history", "groups"}
  /\ scene # "intake" => msg = CHOOSE m \in Messages : TRUE

InIntake  == scene = "intake" /\ IntakeNext /\ UNCHANGED <<pollVars, historyVars, groupVars, scene>>
InHistory == scene = "history" /\ HistoryNext /\ UNCHANGED <<intakeVars, groupVars, scene>>
InGroups  == scene = "groups" /\ GroupsNext /\ UNCHANGED <<intakeVars, pollVars, historyVars, scene>>

Next == InIntake \/ InHistory \/ InGroups
Spec == Init /\ [][Next]_vars /\ WF_vars(InGroups /\ Fetch)

\* The three type invariants.
InboundTypeOK == IntakeTypeOK /\ HistoryTypeOK /\ GroupsTypeOK
=============================================================================
