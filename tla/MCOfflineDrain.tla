--------------------------- MODULE MCOfflineDrain ---------------------------
(***************************************************************************)
(* OfflineDrain for TLC.                                                   *)
(***************************************************************************)
EXTENDS OfflineDrain

\* Two messages, each of which may come in a queue of its own.
Two == {1, 2}
=============================================================================
