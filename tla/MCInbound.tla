----------------------------- MODULE MCInbound -----------------------------
(***************************************************************************)
(* Inbound for TLC.                                                        *)
(***************************************************************************)
EXTENDS Inbound, TLC

CONSTANTS me, ana, bob, lme, lana, lbob,
          lidGroup, pnGroup, lidChat, pnChat, m1, m2, m3, m4, m5, m6, m7, m8,
          red, blue, mauve

-----------------------------------------------------------------------------
Lids  == me :> lme @@ ana :> lana @@ bob :> lbob
Peers == lidGroup :> NoPeer @@ pnGroup :> NoPeer @@ lidChat :> ana @@ pnChat :> bob

\* A message by the account and one by somebody else in each chat.
Chatted == m1 :> lidGroup @@ m2 :> lidGroup @@ m3 :> pnGroup @@ m4 :> pnGroup
             @@ m5 :> lidChat @@ m6 :> lidChat @@ m7 :> pnChat @@ m8 :> pnChat
Authors == m1 :> ana @@ m2 :> me @@ m3 :> ana @@ m4 :> me
             @@ m5 :> ana @@ m6 :> me @@ m7 :> bob @@ m8 :> me

\* Two votes of one person at one instant, and one without a time that names an option the
\* poll was not seen with; the import brings a vote of each voter, and one that names nobody.
Live1(voter, hashes, sent) == [voter |-> voter, hashes |-> hashes, sent |-> sent, stamp |-> 2]
LiveVotes == {Live1(1, {red}, 2), Live1(1, {red, blue}, 2), Live1(2, {blue, mauve}, 0)}

Seeded(fromMe, participant, hashes, sent) ==
  [fromMe |-> fromMe, participant |-> participant, hashes |-> hashes, sent |-> sent]
Unparsed == 9
Item(kind, seeds) == [kind |-> kind, isGroup |-> FALSE, peer |-> 1, votes |-> seeds]
Phone ==
  <<Item("text", <<>>),
    Item("reference", <<>>),
    Item("poll", <<Seeded(TRUE, Nobody, {red}, 2),
                   Seeded(FALSE, Unparsed, {red}, 1),
                   Seeded(FALSE, Nobody, {blue}, 0)>>),
    Item("text", <<>>)>>
PollOptions == <<red, blue>>
=============================================================================
