------------------------------ MODULE History ------------------------------
(***************************************************************************)
(* One history import (history.go): a goroutine of its own that reads the  *)
(* phone's messages in order, skips what is no row, posts the rest in      *)
(* batches and seeds the votes of the polls it meets, while the event loop *)
(* takes live votes (Polls).  Nothing of its progress is stored.           *)
(***************************************************************************)
EXTENDS Polls

CONSTANTS
  Feed,       \* the messages of the conversations: kind and, of a poll, its chat and votes;
              \* a row is known by its message's place here
  BatchSize,  \* historyBatchSize
  Own         \* the account's address

ASSUME HistoryAssumption ==
  /\ BatchSize \in Nat \ {0} /\ Own \in Voters /\ 0 \notin Voters
  /\ Feed \in Seq(Range(Feed))
  /\ \A i \in DOMAIN Feed : Feed[i].kind = "poll" =>
       /\ Feed[i].peer \in Voters
       /\ Feed[i].votes \in Seq(Range(Feed[i].votes))
       /\ \A j \in DOMAIN Feed[i].votes : Feed[i].votes[j].sent \in Nat

VARIABLES
  import,     \* none, running, done, or lost with the process
  next,       \* the message being read
  seed,       \* the vote of it to seed next; 0 before its poll is remembered
  pending,    \* the rows of the batch being filled
  batches     \* the batches handed to the outbox

historyVars == <<import, next, seed, pending, batches>>

HistoryInit ==
  /\ PollsInit
  /\ import = "none"
  /\ next = 1
  /\ seed = 0
  /\ pending = <<>>
  /\ batches = <<>>

\* What is not imported: broadcasts and newsletters, what does not parse, what points at
\* other rows, what has no content.
Skipped == {"broadcast", "unparsed", "reference", "empty"}
Importable(i) == Feed[i].kind \notin Skipped

handleHistorySync ==
  /\ import = "none"
  /\ import' = "running"
  /\ UNCHANGED <<pollVars, next, seed, pending, batches>>

\* Whose a seeded vote is, nobody's or a voter's: the key is in the account's own frame.
Nobody == 0
SeedVoter(message, update) ==
  CASE update.fromMe                                          -> Own
    [] ~update.fromMe /\ update.participant \in Voters        -> update.participant
    [] ~update.fromMe /\ update.participant = Nobody /\ ~message.isGroup -> message.peer
    [] OTHER                                                  -> Nobody

\* The message is a poll: it is remembered before its votes are seeded.
ImportPoll ==
  /\ import = "running" /\ next <= Len(Feed)
  /\ Feed[next].kind = "poll" /\ seed = 0
  /\ rememberPoll
  /\ seed' = 1
  /\ UNCHANGED <<votes, hand, heard, told, taken, restarts, import, next, pending, batches>>

\* A vote that names nobody is passed over, and so is one the store refuses.
SeedVote ==
  /\ import = "running" /\ seed > 0 /\ seed <= Len(Feed[next].votes)
  /\ LET update == Feed[next].votes[seed]
         voter  == SeedVoter(Feed[next], update)
     IN \/ voter # Nobody /\ SaveVote(voter, selectedOptions(Options, update.hashes), update.sent)
        \/ UNCHANGED <<votes, taken>>
  /\ seed' = seed + 1
  /\ UNCHANGED <<poll, hand, heard, told, restarts, import, next, pending, batches>>

\* The rest of a message: its row joins the batch, which is posted when it is full.
ImportMessage ==
  /\ import = "running" /\ next <= Len(Feed)
  /\ Feed[next].kind = "poll" => seed > Len(Feed[next].votes)
  /\ LET rows == IF Importable(next) THEN Append(pending, next) ELSE pending
     IN IF Importable(next) /\ Len(rows) >= BatchSize
        THEN pending' = <<>> /\ batches' = Append(batches, rows)
        ELSE pending' = rows /\ UNCHANGED batches
  /\ next' = next + 1
  /\ seed' = 0
  /\ UNCHANGED <<pollVars, import>>

\* Mutant of FinishImport: the last batch is never flushed.
FinishImport_Unflushed ==
  /\ import = "running" /\ next > Len(Feed)
  /\ import' = "done"
  /\ pending' = <<>>
  /\ UNCHANGED <<pollVars, next, seed, batches>>

FinishImport ==
  /\ import = "running" /\ next > Len(Feed)
  /\ import' = "done"
  /\ pending' = <<>>
  /\ batches' = IF pending = <<>> THEN batches ELSE Append(batches, pending)
  /\ UNCHANGED <<pollVars, next, seed>>

\* WhatsApp pushes the history once, and the import keeps no place in it.
HistoryRestart ==
  /\ PollsRestart
  /\ import' = IF import = "running" THEN "lost" ELSE import
  /\ pending' = <<>>
  /\ seed' = 0
  /\ UNCHANGED <<next, batches>>

HistoryNext ==
  \/ UNCHANGED historyVars /\ (Poll \/ (\E ballot \in Ballots : ReadVote(ballot)) \/ KeepVote \/ TellVote)
  \/ handleHistorySync
  \/ ImportPoll
  \/ SeedVote
  \/ ImportMessage
  \/ FinishImport
  \/ HistoryRestart

HistorySpec == HistoryInit /\ [][HistoryNext]_<<pollVars, historyVars>>

-----------------------------------------------------------------------------
\* Type invariant.
HistoryTypeOK ==
  /\ PollsTypeOK
  /\ import \in {"none", "running", "done", "lost"}
  /\ next \in 1..(Len(Feed) + 1)
  /\ seed \in Nat
  /\ pending \in Seq(DOMAIN Feed)
  /\ batches \in Seq(Seq(DOMAIN Feed))

\* The rows of the messages read so far, and those of them that were handed over.
Due    == {i \in 1..(next - 1) : Importable(i)}
Posted == UNION {Range(batches[b]) : b \in DOMAIN batches}

Rising(rows) == \A m, n \in DOMAIN rows : m < n => rows[m] < rows[n]
Precede(rows, others) == \A i \in Range(rows), j \in Range(others) : i < j

\* An import posts the rows of the messages it has read, once each, in their order and in
\* batches that are none of them empty or too large: none that was not due, none past a gap,
\* and short of a restart all but the ones of the batch being filled.
ImportIsWhole ==
  /\ \A b \in DOMAIN batches : Rising(batches[b]) /\ Len(batches[b]) \in 1..BatchSize
  /\ \A a, b \in DOMAIN batches : a < b => Precede(batches[a], batches[b])
  /\ Posted \subseteq Due
  /\ \A i \in Due, j \in Posted : i < j => i \in Posted
  /\ import # "lost" => /\ Posted \union Range(pending) = Due
                        /\ Rising(pending) /\ \A b \in DOMAIN batches : Precede(batches[b], pending)
  /\ import = "done" => pending = <<>> /\ next > Len(Feed)
=============================================================================
