------------------------------- MODULE Polls -------------------------------
(***************************************************************************)
(* One poll, the votes kept on it and the tally each live vote is posted   *)
(* with (polls.go; SavePoll to PollResults in store.go).  The event loop   *)
(* takes a vote in several store calls, and a history import writes votes  *)
(* on the same poll meanwhile (History).                                   *)
(***************************************************************************)
EXTENDS Naturals, Sequences, FiniteSets, SequencesExt

CONSTANTS
  Voters,    \* voters' addresses, as numbers in the order in which the store sorts them
  Options,   \* the poll's options, a sequence; a hash is the option it stands for
  Ballots,   \* the live votes: voter, hashes, sent (0 when the vote carries no time), stamp
  Restarts,  \* bound: how often the process is restarted
  NoVote, NoHand, NoTold

Picks == SUBSET Range(Options)   \* what a vote may name; their order is nobody's concern

\* External: the options of a WhatsApp poll differ; a vote is their hashes and could not tell two
\* equal ones apart.
ASSUME PollsAssumption ==
  /\ Voters \subseteq Nat /\ IsFiniteSet(Voters)
  /\ Options \in Seq(Range(Options)) /\ IsInjective(Options)
  /\ Restarts \in Nat
  /\ \A ballot \in Ballots : ballot.voter \in Voters /\ {ballot.sent, ballot.stamp} \subseteq Nat
  /\ NoVote \notin [pick : Picks, at : Nat]

VARIABLES
  poll,      \* the poll is in bridge_polls
  votes,     \* bridge_poll_votes: the pick and voted_at of each voter
  hand,      \* the vote the event loop has in hand, and how its save went
  heard,     \* the live votes delivered so far
  told,      \* the vote posted last, with its results
  taken,     \* history: the votes the store accepted, in the order it did
  restarts

pollVars == <<poll, votes, hand, heard, told, taken, restarts>>

PollsInit ==
  /\ poll = FALSE
  /\ votes = [v \in Voters |-> NoVote]
  /\ hand = NoHand
  /\ heard = {}
  /\ told = NoTold
  /\ taken = <<>>
  /\ restarts = 0

\* The options some hash answers to; a hash no option answers to is lost.
selectedOptions(options, hashes) == Range(options) \intersect hashes

\* A second sighting keeps the first, and a poll never changes.  A failed save is only logged.
rememberPoll == poll' \in {poll, TRUE}

\* Mutant of SaveVote: of two votes of one instant the first stands.
SaveVote_Strict(voter, selected, at) ==
  /\ votes' = [votes EXCEPT ![voter] =
                 IF @ = NoVote \/ @.at < at THEN [pick |-> selected, at |-> at] ELSE @]
  /\ taken' = Append(taken, [voter |-> voter, pick |-> selected, at |-> at])

\* The upsert, which refuses a vote older than the one kept.
SaveVote(voter, selected, at) ==
  /\ votes' = [votes EXCEPT ![voter] =
                 IF @ = NoVote \/ @.at <= at THEN [pick |-> selected, at |-> at] ELSE @]
  /\ taken' = Append(taken, [voter |-> voter, pick |-> selected, at |-> at])

\* One entry per option, with its voters in the order in which they voted.
PollResults(options) ==
  LET Before(v, w) == votes[v].at < votes[w].at \/ (votes[v].at = votes[w].at /\ v < w)
      For(option)  == {v \in Voters : votes[v] # NoVote /\ option \in votes[v].pick}
      InOrder(s)   == \A m, n \in DOMAIN s : m < n => Before(s[m], s[n])
  IN [i \in DOMAIN options |-> CHOOSE s \in SetToSeqs(For(options[i])) : InOrder(s)]

-----------------------------------------------------------------------------
\* The message that carries the poll, or its echo.
Poll ==
  /\ hand = NoHand
  /\ rememberPoll
  /\ UNCHANGED <<votes, hand, heard, told, taken, restarts>>

\* GetPoll and DecryptPollVote: a vote without its poll or its secret is dropped for good.
ReadVote(ballot) ==
  /\ hand = NoHand
  /\ ballot \notin heard
  /\ heard' = heard \union {ballot}
  /\ \/ poll /\ hand' = [ballot |-> ballot, save |-> "due"]
     \/ UNCHANGED hand
  /\ UNCHANGED <<poll, votes, told, taken, restarts>>

\* The sender's clock, or the server's when the vote carries none.
At(ballot) == IF ballot.sent > 0 THEN ballot.sent ELSE ballot.stamp

KeepVote ==
  /\ hand # NoHand /\ hand.save = "due"
  /\ \/ /\ SaveVote(hand.ballot.voter, selectedOptions(Options, hand.ballot.hashes), At(hand.ballot))
        /\ hand' = [hand EXCEPT !.save = "kept"]
     \/ /\ hand' = [hand EXCEPT !.save = "failed"]
        /\ UNCHANGED <<votes, taken>>
  /\ UNCHANGED <<poll, heard, told, restarts>>

\* Mutant of TellVote: the tally is read after a failed save too.
TellVote_Refused ==
  /\ hand # NoHand /\ hand.save # "due"
  /\ told' = [ballot |-> hand.ballot, results |-> PollResults(Options)]
  /\ hand' = NoHand
  /\ UNCHANGED <<poll, votes, heard, taken, restarts>>

\* The vote is posted with what PollResults reads now, or with none after a failed store call.
TellVote ==
  /\ hand # NoHand /\ hand.save # "due"
  /\ \/ hand.save = "kept" /\ told' = [ballot |-> hand.ballot, results |-> PollResults(Options)]
     \/ told' = [ballot |-> hand.ballot, results |-> <<>>]
  /\ hand' = NoHand
  /\ UNCHANGED <<poll, votes, heard, taken, restarts>>

\* The process restarts.  The vote in hand was acknowledged, or WhatsApp delivers it again.
PollsRestart ==
  /\ restarts < Restarts
  /\ restarts' = restarts + 1
  /\ hand' = NoHand
  /\ heard' \in {heard} \union (IF hand = NoHand THEN {} ELSE {heard \ {hand.ballot}})
  /\ UNCHANGED <<poll, votes, told, taken>>

PollsNext ==
  \/ Poll
  \/ \E ballot \in Ballots : ReadVote(ballot)
  \/ KeepVote
  \/ TellVote
  \/ PollsRestart

PollsSpec == PollsInit /\ [][PollsNext]_pollVars

-----------------------------------------------------------------------------
\* Type invariant.
PollsTypeOK ==
  /\ poll \in BOOLEAN
  /\ votes \in [Voters -> {NoVote} \union [pick : Picks, at : Nat]]
  /\ hand = NoHand \/ hand \in [ballot : Ballots, save : {"due", "kept", "failed"}]
  /\ heard \subseteq Ballots
  /\ told = NoTold \/ (told.ballot \in Ballots /\ DOMAIN told.results \in {{}, DOMAIN Options})
  /\ taken \in Seq([voter : Voters, pick : Picks, at : Nat])
  /\ restarts \in 0..Restarts

VotesOf(v) == {i \in DOMAIN taken : taken[i].voter = v}

\* The table keeps each voter's latest vote, whatever order the live votes and the import's
\* reached the store in: nothing kept is older than a vote it displaced, and of two votes of
\* one instant the one saved last stands (SaveVote's upsert).
KeepsTheLatest ==
  \A v \in Voters :
    IF VotesOf(v) = {} THEN votes[v] = NoVote
    ELSE \E i \in VotesOf(v) :
           /\ votes[v] = [pick |-> taken[i].pick, at |-> taken[i].at]
           /\ \A j \in VotesOf(v) : taken[j].at < taken[i].at \/ (taken[j].at = taken[i].at /\ j <= i)

\* A vote told with results is counted in them: its voter stands under the options of that
\* vote, or of one that is no older and came in between, and nobody stands without a vote.
ToldCountsIt ==
  (told # NoTold /\ told.results # <<>>) =>
    LET voter == told.ballot.voter
        time  == IF told.ballot.sent = 0 THEN told.ballot.stamp ELSE told.ballot.sent
        Under(v) == {Options[i] : i \in {i \in DOMAIN Options : v \in Range(told.results[i])}}
    IN /\ \E i \in VotesOf(voter) : taken[i].at >= time /\ Under(voter) = taken[i].pick
       /\ \A v \in Voters : Under(v) # {} => \E i \in VotesOf(v) : Under(v) = taken[i].pick
=============================================================================
