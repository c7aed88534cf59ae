--------------------------- MODULE HistoryProofs ---------------------------
(***************************************************************************)
(* Theorems of Polls and History, for any voters, options, votes and feed. *)
(***************************************************************************)
EXTENDS History, FiniteSetTheorems, TLAPS

Kept == [pick : Picks, at : Nat]
Saved == [voter : Voters, pick : Picks, at : Nat]
Hands == [ballot : Ballots, save : {"due", "kept", "failed"}]

\* What the table and the votes in hand are made of, as far as SaveVote needs it.
VotesTyped ==
  /\ votes \in [Voters -> {NoVote} \union Kept]
  /\ taken \in Seq(Saved)
  /\ hand = NoHand \/ hand \in Hands

\* The import stands inside the feed, and seeds only the votes of a poll.
Placed ==
  /\ next \in 1..(Len(Feed) + 1)
  /\ seed \in Nat
  /\ seed > 0 => next <= Len(Feed) /\ Feed[next].kind = "poll"

KInv == VotesTyped /\ Placed /\ KeepsTheLatest

LEMMA KInit == HistoryInit => KInv
<1> SUFFICES ASSUME HistoryInit PROVE KInv
  OBVIOUS
<1> USE DEF HistoryInit, PollsInit
<1>1. VotesTyped
  BY DEF VotesTyped
<1>2. Placed
  BY HistoryAssumption DEF Placed
<1>3. KeepsTheLatest
  BY DEF KeepsTheLatest, VotesOf
<1> QED BY <1>1, <1>2, <1>3 DEF KInv

\* The upsert keeps the latest vote of whoever it is called for, and everybody else's.
LEMMA SaveVoteKeeps ==
  ASSUME VotesTyped, KeepsTheLatest,
         NEW voter \in Voters, NEW selected \in Picks, NEW at \in Nat,
         SaveVote(voter, selected, at)
  PROVE  /\ votes' \in [Voters -> {NoVote} \union Kept]
         /\ taken' \in Seq(Saved)
         /\ KeepsTheLatest'
<1> DEFINE last == Len(taken) + 1
           vote == [pick |-> selected, at |-> at]
<1>1. /\ vote \in Kept /\ vote # NoVote /\ vote.at = at
      /\ [voter |-> voter, pick |-> selected, at |-> at] \in Saved
  BY PollsAssumption DEF Kept, Saved
<1>2. /\ DOMAIN taken = 1..Len(taken) /\ DOMAIN taken' = 1..last
      /\ last \in Nat /\ last \notin DOMAIN taken
      /\ \A i \in DOMAIN taken : i < last /\ taken'[i] = taken[i] /\ taken[i].at \in Nat
      /\ \A i \in DOMAIN taken : taken[i].pick \in Picks
      /\ taken'[last] = [voter |-> voter, pick |-> selected, at |-> at]
      /\ taken' \in Seq(Saved)
  <2> DEFINE e == [voter |-> voter, pick |-> selected, at |-> at]
  <2>1. taken \in Seq(Saved) /\ e \in Saved /\ taken' = Append(taken, e)
    BY <1>1 DEF SaveVote, VotesTyped
  <2>2. /\ DOMAIN taken = 1..Len(taken) /\ Len(taken) \in Nat
        /\ \A i \in DOMAIN taken : taken[i] \in Saved
    BY <2>1
  <2>3. \A i \in DOMAIN taken : taken[i].at \in Nat /\ taken[i].pick \in Picks
    BY <2>2 DEF Saved
  <2> HIDE DEF e
  <2>4. taken' \in Seq(Saved) /\ Len(taken') = last /\ taken'[last] = e
        /\ \A i \in 1..Len(taken) : taken'[i] = taken[i]
    BY <2>1
  <2> USE DEF e
  <2> QED BY <2>2, <2>3, <2>4
<1>3. /\ votes \in [Voters -> {NoVote} \union Kept]
      /\ votes' = [votes EXCEPT ![voter] =
                     IF votes[voter] = NoVote \/ votes[voter].at <= at THEN vote ELSE votes[voter]]
  BY DEF SaveVote, VotesTyped
<1>4. votes' \in [Voters -> {NoVote} \union Kept]
  BY <1>1, <1>3
<1>5. ASSUME NEW v \in Voters, v # voter
      PROVE  IF VotesOf(v)' = {} THEN votes'[v] = NoVote
             ELSE \E i \in VotesOf(v)' :
                    /\ votes'[v] = [pick |-> taken'[i].pick, at |-> taken'[i].at]
                    /\ \A j \in VotesOf(v)' : taken'[j].at < taken'[i].at
                                                \/ (taken'[j].at = taken'[i].at /\ j <= i)
  <2>1. VotesOf(v)' = VotesOf(v) /\ votes'[v] = votes[v]
    BY <1>2, <1>3, <1>5 DEF VotesOf
  <2>2. \A i \in VotesOf(v) : taken'[i] = taken[i]
    BY <1>2 DEF VotesOf
  <2>3. CASE VotesOf(v) = {}
    BY <2>1, <2>3 DEF KeepsTheLatest
  <2>4. CASE VotesOf(v) # {}
    <3>1. PICK i \in VotesOf(v) :
            /\ votes[v] = [pick |-> taken[i].pick, at |-> taken[i].at]
            /\ \A j \in VotesOf(v) : taken[j].at < taken[i].at
                                      \/ (taken[j].at = taken[i].at /\ j <= i)
      BY <2>4 DEF KeepsTheLatest
    <3> QED BY <2>1, <2>2, <2>4, <3>1
  <2> QED BY <2>3, <2>4
<1>6. /\ VotesOf(voter)' # {}
      /\ \E i \in VotesOf(voter)' :
           /\ votes'[voter] = [pick |-> taken'[i].pick, at |-> taken'[i].at]
           /\ \A j \in VotesOf(voter)' : taken'[j].at < taken'[i].at
                                           \/ (taken'[j].at = taken'[i].at /\ j <= i)
  <2>1. VotesOf(voter)' = VotesOf(voter) \union {last} /\ VotesOf(voter) \subseteq DOMAIN taken
    BY <1>2 DEF VotesOf
  <2>2. CASE VotesOf(voter) = {}
    <3>1. votes'[voter] = vote
      BY <1>3, <2>2 DEF KeepsTheLatest
    <3> QED BY <1>2, <2>1, <2>2, <3>1
  <2>3. CASE VotesOf(voter) # {}
    <3>1. PICK i \in VotesOf(voter) :
            /\ votes[voter] = [pick |-> taken[i].pick, at |-> taken[i].at]
            /\ \A j \in VotesOf(voter) : taken[j].at < taken[i].at
                                          \/ (taken[j].at = taken[i].at /\ j <= i)
      BY <2>3 DEF KeepsTheLatest
    <3>2. votes[voter].at = taken[i].at /\ taken[i].at \in Nat /\ i \in DOMAIN taken
      BY <1>2, <2>1, <3>1
    <3>3. taken[i].pick \in Picks
      BY <1>2, <3>2
    <3>4. votes[voter] # NoVote
      BY <3>1, <3>2, <3>3, PollsAssumption
    <3>5. CASE taken[i].at <= at
      <4>1. votes'[voter] = vote
        BY <1>3, <3>2, <3>5
      <4>2. \A j \in VotesOf(voter) : taken'[j].at < at \/ (taken'[j].at = at /\ j <= last)
        BY <1>2, <2>1, <3>1, <3>2, <3>5
      <4>3. taken'[last].pick = selected /\ taken'[last].at = at /\ last <= last
        BY <1>2
      <4>4. votes'[voter] = [pick |-> taken'[last].pick, at |-> taken'[last].at]
        BY <4>1, <4>3
      <4>5. \A j \in VotesOf(voter)' : taken'[j].at < taken'[last].at
                                       \/ (taken'[j].at = taken'[last].at /\ j <= last)
        BY <2>1, <4>2, <4>3
      <4> HIDE DEF last
      <4> QED BY <2>1, <4>4, <4>5
    <3>6. CASE at < taken[i].at
      <4>1. votes'[voter] = votes[voter]
        BY <1>3, <3>2, <3>4, <3>6
      <4>2. \A j \in VotesOf(voter) \union {last} :
              taken'[j].at < taken'[i].at \/ (taken'[j].at = taken'[i].at /\ j <= i)
        BY <1>2, <2>1, <3>1, <3>2, <3>6
      <4> QED BY <1>2, <2>1, <3>1, <3>2, <4>1, <4>2
    <3> QED BY <3>2, <3>5, <3>6
  <2> QED BY <2>1, <2>2, <2>3
<1> QED BY <1>2, <1>4, <1>5, <1>6 DEF KeepsTheLatest

\* A step that saves no vote keeps the table as it is.
LEMMA TableStays ==
  ASSUME KeepsTheLatest, UNCHANGED <<votes, taken>>
  PROVE  KeepsTheLatest'
BY DEF KeepsTheLatest, VotesOf

\* A live vote's time and a seeded vote's voter are what SaveVote expects.
LEMMA Arguments ==
  /\ \A ballot \in Ballots : ballot.voter \in Voters /\ At(ballot) \in Nat
  /\ \A hashes : selectedOptions(Options, hashes) \in Picks
  /\ \A message, update : message.peer \in Voters /\ SeedVoter(message, update) # Nobody
                           => SeedVoter(message, update) \in Voters
<1>1. \A ballot \in Ballots : ballot.voter \in Voters /\ At(ballot) \in Nat
  BY PollsAssumption DEF At
<1>2. \A hashes : selectedOptions(Options, hashes) \in Picks
  BY DEF selectedOptions, Picks
<1>3. ASSUME NEW message, NEW update, message.peer \in Voters, SeedVoter(message, update) # Nobody
      PROVE  SeedVoter(message, update) \in Voters
  BY <1>3, HistoryAssumption DEF SeedVoter, Nobody
<1> QED BY <1>1, <1>2, <1>3

\* The live side: the event loop's steps.
LEMMA KLive ==
  ASSUME KInv, UNCHANGED historyVars,
         Poll \/ (\E ballot \in Ballots : ReadVote(ballot)) \/ KeepVote \/ TellVote
  PROVE  KInv'
<1> USE DEF KInv
<1>1. Placed'
  BY DEF Placed, historyVars
<1>2. CASE Poll
  BY <1>1, <1>2, TableStays DEF Poll, VotesTyped
<1>3. ASSUME NEW ballot \in Ballots, ReadVote(ballot) PROVE KInv'
  BY <1>1, <1>3, TableStays DEF ReadVote, VotesTyped, Hands
<1>4. CASE KeepVote
  <2>1. hand.ballot \in Ballots /\ (hand' = NoHand \/ hand' \in Hands)
    BY <1>4 DEF KeepVote, VotesTyped, Hands
  <2>2. CASE SaveVote(hand.ballot.voter, selectedOptions(Options, hand.ballot.hashes), At(hand.ballot))
    BY <1>1, <2>1, <2>2, Arguments, SaveVoteKeeps DEF VotesTyped
  <2>3. CASE UNCHANGED <<votes, taken>>
    BY <1>1, <2>1, <2>3, TableStays DEF VotesTyped
  <2> QED BY <1>4, <2>2, <2>3 DEF KeepVote
<1>5. CASE TellVote
  BY <1>1, <1>5, TableStays DEF TellVote, VotesTyped
<1> QED BY <1>2, <1>3, <1>4, <1>5

LEMMA KSeed ==
  ASSUME KInv, SeedVote
  PROVE  KInv'
<1> USE DEF KInv
<1> DEFINE update == Feed[next].votes[seed]
           voter  == SeedVoter(Feed[next], update)
<1>1. /\ next \in DOMAIN Feed /\ Feed[next].kind = "poll" /\ Feed[next].peer \in Voters
      /\ seed \in DOMAIN Feed[next].votes /\ update.sent \in Nat
  BY HistoryAssumption DEF SeedVote, Placed
<1>2. Placed'
  BY DEF SeedVote, Placed
<1>3. hand' = NoHand \/ hand' \in Hands
  BY DEF SeedVote, VotesTyped
<1>4. CASE voter # Nobody /\ SaveVote(voter, selectedOptions(Options, update.hashes), update.sent)
  BY <1>1, <1>2, <1>3, <1>4, Arguments, SaveVoteKeeps DEF VotesTyped
<1>5. CASE UNCHANGED <<votes, taken>>
  BY <1>2, <1>3, <1>5, TableStays DEF VotesTyped
<1> QED BY <1>4, <1>5 DEF SeedVote

LEMMA KStep == KInv /\ [HistoryNext]_<<pollVars, historyVars>> => KInv'
<1> SUFFICES ASSUME KInv, [HistoryNext]_<<pollVars, historyVars>> PROVE KInv'
  OBVIOUS
<1> USE DEF KInv
<1>1. CASE /\ UNCHANGED historyVars
           /\ Poll \/ (\E ballot \in Ballots : ReadVote(ballot)) \/ KeepVote \/ TellVote
  BY <1>1, KLive
<1>2. CASE SeedVote
  BY <1>2, KSeed
<1>3. CASE handleHistorySync \/ ImportPoll \/ ImportMessage \/ FinishImport \/ HistoryRestart
  <2>1. UNCHANGED <<votes, taken>> /\ (hand' = hand \/ hand' = NoHand)
    BY <1>3 DEF handleHistorySync, ImportPoll, ImportMessage, FinishImport, HistoryRestart,
                PollsRestart, pollVars
  <2>2. Placed'
    BY <1>3, HistoryAssumption
    DEF handleHistorySync, ImportPoll, ImportMessage, FinishImport, HistoryRestart, Placed
  <2> QED BY <2>1, <2>2, TableStays DEF VotesTyped
<1>4. CASE UNCHANGED <<pollVars, historyVars>>
  BY <1>4, TableStays DEF pollVars, historyVars, VotesTyped, Placed
<1> QED BY <1>1, <1>2, <1>3, <1>4 DEF HistoryNext

\* Whatever the order in which live votes, an import's votes, failed saves and restarts reach
\* the table, each voter's row is the latest of the votes it took, the last saved of equals.
THEOREM LatestVoteIsKept == HistorySpec => []KeepsTheLatest
<1>1. KInv => KeepsTheLatest
  BY DEF KInv
<1> QED BY <1>1, KInit, KStep, PTL DEF HistorySpec

-----------------------------------------------------------------------------
(***************************************************************************)
(* The tally of a told vote.  PollResults lists, under each option, the    *)
(* voters whose kept pick has it (Sorted: a finite set with a strict total *)
(* order has an ordered enumeration, each element at its rank).  What is   *)
(* kept is the latest (KeepsTheLatest), and a vote saved by the event loop *)
(* is among the taken ones until it is told (KeptIsTaken).                 *)
(***************************************************************************)
\* A finite set in the order R: each element at its rank.
LEMMA Sorted ==
  ASSUME NEW S, IsFiniteSet(S), NEW R,
         \A v \in S : <<v, v>> \notin R,
         \A u, v, w \in S : <<u, v>> \in R /\ <<v, w>> \in R => <<u, w>> \in R,
         \A v, w \in S : v # w => <<v, w>> \in R \/ <<w, v>> \in R
  PROVE  \E s \in SetToSeqs(S) : \A m, n \in DOMAIN s : m < n => <<s[m], s[n]>> \in R
<1> DEFINE N     == Cardinality(S)
           B(v)  == {w \in S : <<w, v>> \in R}
           rank  == [v \in S |-> Cardinality(B(v)) + 1]
           s     == [k \in 1..N |-> CHOOSE v \in S : rank[v] = k]
<1>1. N \in Nat
  BY FS_CardinalityType
<1>2. ASSUME NEW v \in S
      PROVE  /\ IsFiniteSet(B(v)) /\ Cardinality(B(v)) \in Nat /\ Cardinality(B(v)) + 1 <= N
  <2>1. IsFiniteSet(S \ {v}) /\ Cardinality(S \ {v}) = N - 1
    BY FS_RemoveElement
  <2>2. B(v) \in SUBSET (S \ {v})
    <3>1. ASSUME NEW w \in B(v) PROVE w \in S /\ w # v
      OBVIOUS
    <3> QED BY <3>1
  <2> HIDE DEF B, N
  <2>3. IsFiniteSet(B(v)) /\ Cardinality(B(v)) <= N - 1
    BY <2>1, <2>2, FS_Subset
  <2>4. Cardinality(B(v)) \in Nat
    BY <2>3, FS_CardinalityType
  <2> QED BY <1>1, <2>3, <2>4
<1>3. ASSUME NEW v \in S, NEW w \in S, <<w, v>> \in R
      PROVE  Cardinality(B(w)) < Cardinality(B(v))
  <2>1. B(w) \union {w} \in SUBSET B(v) /\ w \notin B(w)
    BY <1>3
  <2>2. IsFiniteSet(B(w)) /\ Cardinality(B(w)) \in Nat /\ IsFiniteSet(B(v)) /\ Cardinality(B(v)) \in Nat
    BY <1>2
  <2>3. Cardinality(B(w) \union {w}) = Cardinality(B(w)) + 1
    BY <2>1, <2>2, FS_AddElement
  <2>4. Cardinality(B(w) \union {w}) <= Cardinality(B(v))
    BY <2>1, <2>2, FS_Subset
  <2> QED BY <2>2, <2>3, <2>4
<1> HIDE DEF B, N
<1>4. /\ rank \in [S -> 1..N]
      /\ \A v, w \in S : <<w, v>> \in R => rank[w] < rank[v]
      /\ \A v, w \in S : v # w => rank[v] # rank[w]
  <2>1. ASSUME NEW v \in S PROVE rank[v] = Cardinality(B(v)) + 1 /\ rank[v] \in 1..N
    <3>1. rank[v] = Cardinality(B(v)) + 1
      OBVIOUS
    <3>2. Cardinality(B(v)) \in Nat /\ Cardinality(B(v)) + 1 <= N
      BY <1>2
    <3> HIDE DEF rank
    <3> QED BY <1>1, <3>1, <3>2
  <2> HIDE DEF rank
  <2>2. ASSUME NEW v \in S, NEW w \in S, <<w, v>> \in R PROVE rank[w] < rank[v]
    <3>1. /\ Cardinality(B(v)) \in Nat /\ Cardinality(B(w)) \in Nat
          /\ Cardinality(B(w)) < Cardinality(B(v))
      BY <1>2, <1>3, <2>2
    <3>2. rank[v] = Cardinality(B(v)) + 1 /\ rank[w] = Cardinality(B(w)) + 1
      BY <2>1
    <3> QED BY <3>1, <3>2
  <2>3. ASSUME NEW v \in S, NEW w \in S, v # w PROVE rank[v] # rank[w]
    <3>1. rank[v] \in Int /\ rank[w] \in Int
      BY <1>1, <2>1
    <3>2. rank[w] < rank[v] \/ rank[v] < rank[w]
      BY <2>2, <2>3
    <3> QED BY <3>1, <3>2
  <2> USE DEF rank
  <2>4. rank \in [S -> 1..N]
    BY <2>1
  <2> QED BY <2>2, <2>3, <2>4
<1> HIDE DEF rank
<1>5. \A k \in 1..N : \E v \in S : rank[v] = k
  <2>1. rank \in Injection(S, 1..N)
    BY <1>4 DEF Injection, IsInjective
  <2>2. IsFiniteSet(1..N) /\ Cardinality(1..N) = N /\ Cardinality(S) = N
    BY <1>1, FS_Interval DEF N
  <2>3. rank \in Surjection(S, 1..N)
    BY <2>1, <2>2, FS_Injection
  <2> QED BY <2>3 DEF Surjection
<1>6. \A k \in 1..N : s[k] \in S /\ rank[s[k]] = k
  BY <1>5
<1>7. s \in SetToSeqs(S)
  <2>1. s \in [1..N -> S]
    BY <1>6
  <2>2. \A i, j \in 1..N : i # j => s[i] # s[j]
    BY <1>6
  <2> HIDE DEF s
  <2>3. /\ s \in [1..Cardinality(S) -> S]
        /\ \A i, j \in 1..Cardinality(S) : i # j => s[i] # s[j]
    BY <2>1, <2>2 DEF N
  <2> QED BY <2>3 DEF SetToSeqs
<1>8. DOMAIN s = 1..N
  OBVIOUS
<1> HIDE DEF s
<1>9. ASSUME NEW m \in 1..N, NEW n \in 1..N, m < n PROVE <<s[m], s[n]>> \in R
  <2>1. s[m] \in S /\ s[n] \in S /\ rank[s[m]] = m /\ rank[s[n]] = n
    BY <1>6
  <2>2. s[m] # s[n] /\ ~(rank[s[n]] < rank[s[m]])
    BY <1>1, <1>9, <2>1
  <2> QED BY <1>4, <2>1, <2>2
<1> QED BY <1>7, <1>8, <1>9

\* An enumeration misses nobody.
LEMMA Enumerates ==
  ASSUME NEW S, IsFiniteSet(S), NEW s \in SetToSeqs(S)
  PROVE  Range(s) = S
<1>1. /\ s \in [1..Cardinality(S) -> S]
      /\ \A i, j \in 1..Cardinality(S) : i # j => s[i] # s[j]
  BY DEF SetToSeqs
<1>2. s \in Injection(1..Cardinality(S), S)
  BY <1>1 DEF Injection, IsInjective
<1>3. Cardinality(S) \in Nat
  BY FS_CardinalityType
<1>4. Cardinality(1..Cardinality(S)) = Cardinality(S)
  BY <1>3, FS_Interval
<1>5. s \in Surjection(1..Cardinality(S), S)
  BY <1>2, <1>4, FS_Injection
<1> QED BY <1>1, <1>5 DEF Surjection, Range

\* Under an option stand the voters whose kept pick has it, all of them and nobody else.
LEMMA ResultsAreThePicks ==
  ASSUME VotesTyped
  PROVE  /\ DOMAIN PollResults(Options) = DOMAIN Options
         /\ \A i \in DOMAIN Options : Range(PollResults(Options)[i])
              = {v \in Voters : votes[v] # NoVote /\ Options[i] \in votes[v].pick}
<1> DEFINE Before(v, w) == votes[v].at < votes[w].at \/ (votes[v].at = votes[w].at /\ v < w)
           For(option)  == {v \in Voters : votes[v] # NoVote /\ option \in votes[v].pick}
           InOrder(s)   == \A m, n \in DOMAIN s : m < n => Before(s[m], s[n])
<1>1. PollResults(Options)
        = [i \in DOMAIN Options |-> CHOOSE s \in SetToSeqs(For(Options[i])) : InOrder(s)]
  BY DEF PollResults
<1>2. ASSUME NEW option
      PROVE  /\ IsFiniteSet(For(option))
             /\ \E s \in SetToSeqs(For(option)) : InOrder(s)
  <2> DEFINE S == For(option)
             R == {p \in S \X S : Before(p[1], p[2])}
  <2>1. S \in SUBSET Voters
    OBVIOUS
  <2>2. IsFiniteSet(S)
    BY <2>1, FS_Subset, PollsAssumption
  <2>3. \A v \in S : v \in Nat /\ votes[v].at \in Nat
    BY PollsAssumption DEF VotesTyped, Kept
  <2>4. \A v, w \in S : <<v, w>> \in R <=> Before(v, w)
    OBVIOUS
  <2> HIDE DEF S, R
  <2>5. \A v \in S : <<v, v>> \notin R
    BY <2>3, <2>4
  <2>6. \A u, v, w \in S : <<u, v>> \in R /\ <<v, w>> \in R => <<u, w>> \in R
    BY <2>3, <2>4
  <2>7. \A v, w \in S : v # w => <<v, w>> \in R \/ <<w, v>> \in R
    BY <2>3, <2>4
  <2>8. PICK s \in SetToSeqs(S) : \A m, n \in DOMAIN s : m < n => <<s[m], s[n]>> \in R
    BY <2>2, <2>5, <2>6, <2>7, Sorted
  <2>9. \A m \in DOMAIN s : s[m] \in S
    BY <2>8 DEF SetToSeqs
  <2>10. InOrder(s)
    BY <2>4, <2>8, <2>9
  <2> QED BY <2>2, <2>8, <2>10 DEF S
<1> HIDE DEF InOrder, For
<1>3. ASSUME NEW i \in DOMAIN Options
      PROVE  Range(PollResults(Options)[i]) = For(Options[i])
  <2>1. PollResults(Options)[i] \in SetToSeqs(For(Options[i]))
    BY <1>1, <1>2
  <2> QED BY <1>2, <2>1, Enumerates
<1>4. DOMAIN PollResults(Options) = DOMAIN Options
  BY <1>1
<1> QED BY <1>3, <1>4 DEF For

\* A save adds its vote to those taken, and takes none away.
LEMMA TakenGrows ==
  ASSUME VotesTyped, NEW voter \in Voters, NEW selected \in Picks, NEW at \in Nat,
         SaveVote(voter, selected, at)
  PROVE  /\ \A v \in Voters : \A i \in VotesOf(v) : i \in VotesOf(v)' /\ taken'[i] = taken[i]
         /\ \E j \in VotesOf(voter)' : taken'[j].at = at
<1> DEFINE e == [voter |-> voter, pick |-> selected, at |-> at]
           last == Len(taken) + 1
<1>1. taken \in Seq(Saved) /\ e \in Saved /\ taken' = Append(taken, e)
  BY DEF SaveVote, VotesTyped, Saved
<1>2. e.voter = voter /\ e.at = at
  OBVIOUS
<1> HIDE DEF e
<1>3. /\ DOMAIN taken = 1..Len(taken) /\ Len(taken) \in Nat
      /\ DOMAIN taken' = 1..last /\ taken'[last] = e
      /\ \A i \in 1..Len(taken) : taken'[i] = taken[i]
  BY <1>1
<1> QED BY <1>2, <1>3 DEF VotesOf

\* What the event loop saved is among the votes taken until it is told.
KeptIsTaken ==
  (hand # NoHand /\ hand.save = "kept") =>
    \E j \in VotesOf(hand.ballot.voter) : taken[j].at = At(hand.ballot)

TInv ==
  /\ KInv
  /\ told = NoTold \/ told.ballot \in Ballots
  /\ KeptIsTaken
  /\ ToldCountsIt

LEMMA TInit == HistoryInit => TInv
BY KInit DEF HistoryInit, PollsInit, TInv, KeptIsTaken, ToldCountsIt

\* Telling: the tally is the table's, and the table has the latest votes.
LEMMA TellCounts ==
  ASSUME KInv, KeptIsTaken, TellVote
  PROVE  ToldCountsIt'
<1> SUFFICES ASSUME told' # NoTold, told'.results # << >> PROVE ToldCountsIt'
  BY DEF ToldCountsIt
<1> USE DEF KInv
<1>1. /\ hand # NoHand /\ hand.save = "kept" /\ hand.ballot \in Ballots
      /\ told' = [ballot |-> hand.ballot, results |-> PollResults(Options)]
      /\ taken' = taken
  BY DEF TellVote, VotesTyped, Hands
<1> DEFINE voter == hand.ballot.voter
           Under(v) == {Options[i] : i \in {i \in DOMAIN Options : v \in Range(told'.results[i])}}
<1>2. ASSUME NEW v \in Voters
      PROVE  Under(v) = IF votes[v] = NoVote THEN {} ELSE votes[v].pick
  <2>1. \A i \in DOMAIN Options :
          v \in Range(told'.results[i]) <=> votes[v] # NoVote /\ Options[i] \in votes[v].pick
    BY <1>1, ResultsAreThePicks
  <2>2. votes[v] # NoVote => votes[v].pick \subseteq {Options[i] : i \in DOMAIN Options}
    BY DEF VotesTyped, Kept, Picks, Range
  <2> QED BY <2>1, <2>2
<1>3. /\ voter \in Voters /\ At(hand.ballot) \in Nat
      /\ At(hand.ballot) = IF hand.ballot.sent = 0 THEN hand.ballot.stamp ELSE hand.ballot.sent
  <2>1. voter \in Voters /\ hand.ballot.sent \in Nat /\ hand.ballot.stamp \in Nat
    BY <1>1, PollsAssumption
  <2>2. CASE hand.ballot.sent = 0
    BY <2>1, <2>2 DEF At
  <2>3. CASE hand.ballot.sent # 0
    <3>1. hand.ballot.sent > 0
      BY <2>1, <2>3
    <3> QED BY <2>1, <2>3, <3>1 DEF At
  <2> QED BY <2>2, <2>3
<1>4. \A i \in DOMAIN taken : taken[i].at \in Nat /\ taken[i].pick \in Picks
  <2>1. \A i \in DOMAIN taken : taken[i] \in Saved
    BY DEF VotesTyped
  <2> QED BY <2>1 DEF Saved
<1>5. ASSUME NEW v \in Voters, VotesOf(v) # {}
      PROVE  \E i \in VotesOf(v) :
               /\ Under(v) = taken[i].pick
               /\ \A j \in VotesOf(v) : taken[i].at >= taken[j].at
  <2>1. PICK i \in VotesOf(v) :
          /\ votes[v] = [pick |-> taken[i].pick, at |-> taken[i].at]
          /\ \A j \in VotesOf(v) : taken[j].at < taken[i].at \/ (taken[j].at = taken[i].at /\ j <= i)
    BY <1>5 DEF KeepsTheLatest
  <2>2. \A j \in VotesOf(v) : taken[j].at \in Nat
    BY <1>4 DEF VotesOf
  <2>3. votes[v] # NoVote /\ votes[v].pick = taken[i].pick
    BY <1>4, <2>1, PollsAssumption DEF VotesOf
  <2> QED BY <1>2, <2>1, <2>2, <2>3
<1>6. ASSUME NEW v \in Voters, Under(v) # {} PROVE VotesOf(v) # {}
  BY <1>2, <1>6 DEF KeepsTheLatest
<1> HIDE DEF Under
<1>7. PICK j \in VotesOf(voter) : taken[j].at = At(hand.ballot)
  BY <1>1 DEF KeptIsTaken
<1>8. PICK i \in VotesOf(voter) : /\ Under(voter) = taken[i].pick
                                  /\ taken[i].at >= At(hand.ballot)
  BY <1>3, <1>5, <1>7
<1>9. \A v \in Voters : Under(v) # {} => \E n \in VotesOf(v) : Under(v) = taken[n].pick
  BY <1>5, <1>6
<1>10. \A v : VotesOf(v)' = VotesOf(v)
  BY <1>1 DEF VotesOf
<1>11. told'.ballot = hand.ballot
  BY <1>1
<1> QED BY <1>1, <1>3, <1>8, <1>9, <1>10, <1>11 DEF ToldCountsIt, Under

\* A tally told stays right as further votes are taken.
LEMMA ToldStays ==
  ASSUME ToldCountsIt, told' = told,
         \A v \in Voters : \A i \in VotesOf(v) : i \in VotesOf(v)' /\ taken'[i] = taken[i],
         told = NoTold \/ told.ballot.voter \in Voters
  PROVE  ToldCountsIt'
BY DEF ToldCountsIt
\* A step that saves no vote leaves what was taken, so the vote in hand stays among it.
LEMMA HandStays ==
  ASSUME KeptIsTaken, taken' = taken, hand' = hand \/ hand' = NoHand
  PROVE  KeptIsTaken'
BY DEF KeptIsTaken, VotesOf

LEMMA NothingTold ==
  ASSUME TInv, taken' = taken, told' = told
  PROVE  ToldCountsIt'
<1>1. told = NoTold \/ told.ballot.voter \in Voters
  BY Arguments DEF TInv
<1> QED BY <1>1, ToldStays DEF TInv, VotesOf

\* A vote saved leaves the others where they were, those told of among them.
LEMMA SaveStays ==
  ASSUME TInv, told' = told,
         NEW voter \in Voters, NEW selected \in Picks, NEW at \in Nat,
         SaveVote(voter, selected, at)
  PROVE  /\ ToldCountsIt'
         /\ \E j \in VotesOf(voter)' : taken'[j].at = at
         /\ hand' = hand => KeptIsTaken'
<1>1. /\ \A v \in Voters : \A i \in VotesOf(v) : i \in VotesOf(v)' /\ taken'[i] = taken[i]
      /\ \E j \in VotesOf(voter)' : taken'[j].at = at
  BY TakenGrows DEF TInv, KInv
<1>2. told = NoTold \/ told.ballot.voter \in Voters
  BY Arguments DEF TInv
<1>3. ToldCountsIt'
  BY <1>1, <1>2, ToldStays DEF TInv
<1>4. ASSUME hand' = hand, hand # NoHand, hand.save = "kept"
      PROVE  \E j \in VotesOf(hand.ballot.voter)' : taken'[j].at = At(hand.ballot)
  <2>1. hand.ballot.voter \in Voters
    BY <1>4, Arguments DEF TInv, KInv, VotesTyped, Hands
  <2>2. PICK j \in VotesOf(hand.ballot.voter) : taken[j].at = At(hand.ballot)
    BY <1>4 DEF TInv, KeptIsTaken
  <2>3. j \in DOMAIN taken' /\ taken'[j].voter = hand.ballot.voter /\ taken'[j] = taken[j]
    BY <1>1, <2>1 DEF VotesOf
  <2> QED BY <1>4, <2>2, <2>3 DEF VotesOf
<1>5. hand' = hand => KeptIsTaken'
  BY <1>4 DEF KeptIsTaken, VotesOf, At
<1> QED BY <1>1, <1>3, <1>5

\* The event loop's save: the vote in hand becomes one of those taken.
LEMMA TKeep ==
  ASSUME TInv, KeepVote
  PROVE  KeptIsTaken' /\ ToldCountsIt'
<1> DEFINE ballot == hand.ballot
<1>1. /\ hand # NoHand /\ hand \in Hands /\ ballot \in Ballots
      /\ told' = told
  BY DEF KeepVote, TInv, KInv, VotesTyped, Hands
<1>2. CASE /\ SaveVote(ballot.voter, selectedOptions(Options, ballot.hashes), At(ballot))
           /\ hand' = [hand EXCEPT !.save = "kept"]
  <2>1. /\ ToldCountsIt'
        /\ \E j \in VotesOf(ballot.voter)' : taken'[j].at = At(ballot)
    BY <1>1, <1>2, Arguments, SaveStays
  <2>2. hand'.ballot = ballot
    BY <1>1, <1>2 DEF Hands
  <2> QED BY <2>1, <2>2 DEF KeptIsTaken, VotesOf, At
<1>3. CASE hand' = [hand EXCEPT !.save = "failed"] /\ UNCHANGED <<votes, taken>>
  <2>1. hand'.save = "failed"
    BY <1>1, <1>3 DEF Hands
  <2>2. ToldCountsIt'
    BY <1>1, <1>3, NothingTold
  <2> QED BY <2>1, <2>2 DEF KeptIsTaken
<1> QED BY <1>2, <1>3 DEF KeepVote

LEMMA TSeed ==
  ASSUME TInv, SeedVote
  PROVE  KeptIsTaken' /\ ToldCountsIt'
<1> DEFINE update == Feed[next].votes[seed]
           voter  == SeedVoter(Feed[next], update)
<1>1. /\ next \in DOMAIN Feed /\ Feed[next].kind = "poll" /\ Feed[next].peer \in Voters
      /\ seed \in DOMAIN Feed[next].votes /\ update.sent \in Nat
  BY HistoryAssumption DEF SeedVote, TInv, KInv, Placed
<1>2. hand' = hand /\ told' = told
  BY DEF SeedVote
<1>3. CASE voter # Nobody /\ SaveVote(voter, selectedOptions(Options, update.hashes), update.sent)
  <2>1. voter \in Voters /\ selectedOptions(Options, update.hashes) \in Picks
    BY <1>1, <1>3, Arguments
  <2> QED BY <1>1, <1>2, <1>3, <2>1, SaveStays
<1>4. CASE UNCHANGED <<votes, taken>>
  BY <1>2, <1>4, HandStays, NothingTold DEF TInv
<1> QED BY <1>3, <1>4 DEF SeedVote

LEMMA TStep == TInv /\ [HistoryNext]_<<pollVars, historyVars>> => TInv'
<1> SUFFICES ASSUME TInv, [HistoryNext]_<<pollVars, historyVars>> PROVE TInv'
  OBVIOUS
<1>1. KInv'
  BY KStep DEF TInv
<1>2. CASE Poll \/ handleHistorySync \/ ImportPoll \/ ImportMessage \/ FinishImport
           \/ HistoryRestart \/ UNCHANGED <<pollVars, historyVars>>
  <2>1. taken' = taken /\ told' = told /\ (hand' = hand \/ hand' = NoHand)
    BY <1>2 DEF Poll, handleHistorySync, ImportPoll, ImportMessage, FinishImport, HistoryRestart,
                PollsRestart, pollVars
  <2>2. KeptIsTaken' /\ ToldCountsIt'
    BY <2>1, HandStays, NothingTold DEF TInv
  <2> QED BY <1>1, <2>1, <2>2 DEF TInv
<1>3. ASSUME NEW ballot \in Ballots, ReadVote(ballot) PROVE TInv'
  <2>1. taken' = taken /\ told' = told
    BY <1>3 DEF ReadVote
  <2>2. hand' = hand \/ hand'.save = "due"
    BY <1>3 DEF ReadVote
  <2>3. KeptIsTaken'
    <3>1. CASE hand' = hand
      BY <2>1, <3>1, HandStays DEF TInv
    <3>2. CASE hand'.save = "due"
      BY <3>2 DEF KeptIsTaken
    <3> QED BY <2>2, <3>1, <3>2
  <2>4. ToldCountsIt'
    BY <2>1, NothingTold
  <2> QED BY <1>1, <2>1, <2>3, <2>4 DEF TInv
<1>4. CASE KeepVote
  <2>1. told' = told
    BY <1>4 DEF KeepVote
  <2> QED BY <1>1, <1>4, <2>1, TKeep DEF TInv
<1>5. CASE TellVote
  <2>1. hand' = NoHand /\ told'.ballot \in Ballots
    BY <1>5 DEF TellVote, TInv, KInv, VotesTyped, Hands
  <2>2. KeptIsTaken'
    BY <2>1 DEF KeptIsTaken
  <2>3. ToldCountsIt'
    BY <1>5, TellCounts DEF TInv
  <2> QED BY <1>1, <2>1, <2>2, <2>3 DEF TInv
<1>6. CASE SeedVote
  <2>1. told' = told
    BY <1>6 DEF SeedVote
  <2> QED BY <1>1, <1>6, <2>1, TSeed DEF TInv
<1> QED BY <1>2, <1>3, <1>4, <1>5, <1>6 DEF HistoryNext

\* A live vote posted with a tally is counted in it, by itself or by a vote of the same voter
\* that is no older, and the tally counts nobody but for a vote the store took - although the
\* import seeds votes between the save and the read of the table.
THEOREM ToldVotesAreCounted == HistorySpec => []ToldCountsIt
<1>1. TInv => ToldCountsIt
  BY DEF TInv
<1> QED BY <1>1, TInit, TStep, PTL DEF HistorySpec
-----------------------------------------------------------------------------
(***************************************************************************)
(* The import's rows.  What is due is cut into the batches handed over and *)
(* the one being filled, which comes after them all and is never full.     *)
(***************************************************************************)
Handed(bs) == UNION {Range(bs[b]) : b \in DOMAIN bs}

Cut(bs, rows, due) ==
  /\ \A b \in DOMAIN bs : Rising(bs[b]) /\ Len(bs[b]) \in 1..BatchSize
  /\ \A a, b \in DOMAIN bs : a < b => Precede(bs[a], bs[b])
  /\ Handed(bs) \union Range(rows) = due
  /\ Rising(rows)
  /\ \A b \in DOMAIN bs : Precede(bs[b], rows)

Filling ==
  /\ import \in {"none", "running", "done", "lost"}
  /\ pending \in Seq(DOMAIN Feed) /\ Len(pending) < BatchSize
  /\ batches \in Seq(Seq(DOMAIN Feed))

\* A restart loses the batch that was being filled, whose rows came last.
WInv ==
  /\ KInv
  /\ Filling
  /\ \E rows \in Seq(DOMAIN Feed) :
       Cut(batches, rows, Due) /\ (import # "lost" => pending = rows)
  /\ import \in {"none", "done"} => pending = << >>
  /\ import = "done" => next > Len(Feed)

\* What one more entry makes of a sequence.
LEMMA Appended ==
  ASSUME NEW T, NEW s \in Seq(T), NEW e \in T
  PROVE  /\ Append(s, e) \in Seq(T) /\ Len(Append(s, e)) = Len(s) + 1
         /\ Range(Append(s, e)) = Range(s) \union {e}
         /\ DOMAIN s = 1..Len(s) /\ DOMAIN Append(s, e) = 1..(Len(s) + 1) /\ Len(s) \in Nat
         /\ DOMAIN Append(s, e) = DOMAIN s \union {Len(s) + 1}
         /\ Append(s, e)[Len(s) + 1] = e
         /\ \A i \in 1..Len(s) : Append(s, e)[i] = s[i]
<1> DEFINE a == Append(s, e)
           n == Len(s) + 1
<1>1. /\ a \in Seq(T) /\ Len(s) \in Nat /\ Len(a) = n
      /\ DOMAIN s = 1..Len(s) /\ DOMAIN a = 1..n /\ a[n] = e
      /\ \A i \in 1..Len(s) : a[i] = s[i]
  OBVIOUS
<1> HIDE DEF a
<1>2. DOMAIN a = DOMAIN s \union {n}
  BY <1>1
<1>3. Range(a) = Range(s) \union {e}
  BY <1>1, <1>2 DEF Range
<1> QED BY <1>1, <1>2, <1>3 DEF a

\* Nothing is handed over past a gap: the rows not handed over come later.
LEMMA NoGap ==
  ASSUME NEW bs \in Seq(Seq(DOMAIN Feed)), NEW rows \in Seq(DOMAIN Feed), NEW due,
         Cut(bs, rows, due)
  PROVE  /\ Handed(bs) \subseteq due
         /\ \A i \in due, j \in Handed(bs) : i < j => i \in Handed(bs)
<1>1. DOMAIN Feed \subseteq Nat
  BY HistoryAssumption
<1>2. \A i \in Range(rows) : i \in Nat
  BY <1>1 DEF Range
<1>3. ASSUME NEW i \in Range(rows), NEW j \in Handed(bs), i < j PROVE FALSE
  <2>1. PICK b \in DOMAIN bs : j \in Range(bs[b])
    BY DEF Handed
  <2>2. j < i
    BY <2>1 DEF Cut, Precede
  <2>3. j \in Nat
    BY <1>1, <2>1 DEF Range
  <2> QED BY <1>2, <1>3, <2>2, <2>3
<1> QED BY <1>3 DEF Cut

\* A row later than all that was due joins the batch being filled.
LEMMA RowJoins ==
  ASSUME NEW bs, NEW rows \in Seq(DOMAIN Feed), NEW due, Cut(bs, rows, due),
         NEW i \in DOMAIN Feed, \A j \in due : j < i
  PROVE  Cut(bs, Append(rows, i), due \union {i})
<1> DEFINE more == Append(rows, i)
<1>1. /\ DOMAIN rows = 1..Len(rows) /\ DOMAIN more = 1..(Len(rows) + 1) /\ Len(rows) \in Nat
      /\ more[Len(rows) + 1] = i /\ \A n \in 1..Len(rows) : more[n] = rows[n]
      /\ Range(more) = Range(rows) \union {i}
  BY Appended
<1> HIDE DEF more
<1>2. \A m \in 1..Len(rows) : rows[m] \in Range(rows)
  BY <1>1 DEF Range
<1>3. Range(rows) \subseteq due /\ Handed(bs) \subseteq due
  BY DEF Cut
<1>4. ASSUME NEW m \in DOMAIN more, NEW n \in DOMAIN more, m < n PROVE more[m] < more[n]
  <2>1. m \in 1..Len(rows) /\ (n \in 1..Len(rows) \/ n = Len(rows) + 1)
    BY <1>1, <1>4
  <2>2. \A k, l \in DOMAIN rows : k < l => rows[k] < rows[l]
    BY DEF Cut, Rising
  <2> QED BY <1>1, <1>2, <1>3, <1>4, <2>1, <2>2
<1>5. ASSUME NEW b \in DOMAIN bs PROVE Precede(bs[b], more)
  <2>1. Range(bs[b]) \subseteq due
    BY <1>3 DEF Handed
  <2>2. Precede(bs[b], rows)
    BY DEF Cut
  <2> QED BY <1>1, <2>1, <2>2 DEF Precede
<1>6. Handed(bs) \union Range(more) = due \union {i}
  BY <1>1 DEF Cut
<1>7. Rising(more)
  BY <1>4 DEF Rising
<1> QED BY <1>5, <1>6, <1>7 DEF Cut, more

\* The batch being filled is handed over.
LEMMA BatchJoins ==
  ASSUME NEW bs \in Seq(Seq(DOMAIN Feed)), NEW rows \in Seq(DOMAIN Feed), NEW due,
         Cut(bs, rows, due), Len(rows) \in 1..BatchSize
  PROVE  Cut(Append(bs, rows), << >>, due)
<1> DEFINE more == Append(bs, rows)
<1>1. /\ Len(bs) \in Nat
      /\ DOMAIN bs = 1..Len(bs) /\ DOMAIN more = 1..(Len(bs) + 1)
      /\ DOMAIN more = DOMAIN bs \union {Len(bs) + 1}
      /\ more[Len(bs) + 1] = rows
      /\ \A b \in 1..Len(bs) : more[b] = bs[b]
  BY Appended
<1> HIDE DEF more
<1>2. Range(<< >>) = {} /\ Rising(<< >>)
  BY DEF Range, Rising
<1>3. Handed(more) = Handed(bs) \union Range(rows)
  BY <1>1 DEF Handed
<1>4. Handed(more) \union Range(<< >>) = due
  BY <1>2, <1>3 DEF Cut
<1>5. ASSUME NEW b \in DOMAIN more PROVE Rising(more[b]) /\ Len(more[b]) \in 1..BatchSize
  BY <1>1 DEF Cut
<1>6. ASSUME NEW a \in DOMAIN more, NEW b \in DOMAIN more, a < b PROVE Precede(more[a], more[b])
  <2>1. a \in DOMAIN bs /\ (b \in DOMAIN bs \/ b = Len(bs) + 1)
    BY <1>1, <1>6
  <2> QED BY <1>1, <1>6, <2>1 DEF Cut
<1>7. \A b \in DOMAIN more : Precede(more[b], << >>)
  BY <1>2 DEF Precede
<1> QED BY <1>2, <1>4, <1>5, <1>6, <1>7 DEF Cut, more

LEMMA WInit == HistoryInit => WInv
<1> SUFFICES ASSUME HistoryInit PROVE WInv
  OBVIOUS
<1> USE DEF HistoryInit
<1>1. KInv /\ Filling
  BY KInit, HistoryAssumption DEF Filling
<1>2. batches = << >> /\ pending = << >> /\ next = 1 /\ import = "none"
  OBVIOUS
<1>3. Due = {} /\ DOMAIN batches = {} /\ Handed(batches) = {} /\ Range(pending) = {}
  BY <1>2 DEF Due, Handed, Range
<1>4. Cut(batches, pending, Due)
  BY <1>2, <1>3 DEF Cut, Rising
<1> QED BY <1>1, <1>2, <1>4 DEF WInv, Filling

\* A message read: its row joins the batch, and the batch those handed over when it is full.
LEMMA WMessage ==
  ASSUME WInv, KInv', ImportMessage
  PROVE  WInv'
<1> DEFINE rows == IF Importable(next) THEN Append(pending, next) ELSE pending
<1>1. /\ import = "running" /\ import' = import /\ next' = next + 1
      /\ next \in DOMAIN Feed /\ next \in Nat
      /\ pending \in Seq(DOMAIN Feed) /\ Len(pending) \in Nat /\ Len(pending) < BatchSize
      /\ BatchSize \in Nat /\ BatchSize > 0
      /\ batches \in Seq(Seq(DOMAIN Feed))
      /\ Cut(batches, pending, Due)
  BY HistoryAssumption DEF ImportMessage, WInv, KInv, Placed, Filling
<1>2. Due' = Due \union (IF Importable(next) THEN {next} ELSE {}) /\ \A i \in Due : i < next
  <2>1. 1..(next' - 1) = 1..(next - 1) \union {next} /\ \A i \in 1..(next - 1) : i < next
    BY <1>1, HistoryAssumption
  <2> QED BY <2>1 DEF Due, Importable
<1>3. /\ rows \in Seq(DOMAIN Feed) /\ Len(rows) <= BatchSize /\ Len(rows) \in Nat
      /\ Cut(batches, rows, Due')
  <2>1. CASE ~Importable(next)
    BY <1>1, <1>2, <2>1
  <2>2. CASE Importable(next)
    <3>1. /\ Append(pending, next) \in Seq(DOMAIN Feed)
          /\ Len(Append(pending, next)) = Len(pending) + 1
      BY <1>1, Appended
    <3>2. Cut(batches, Append(pending, next), Due \union {next})
      BY <1>1, <1>2, RowJoins
    <3> QED BY <1>1, <1>2, <2>2, <3>1, <3>2
  <2> QED BY <2>1, <2>2
<1>4. CASE Importable(next) /\ Len(rows) >= BatchSize
  <2>1. batches' = Append(batches, rows) /\ pending' = << >>
    BY <1>4 DEF ImportMessage
  <2> HIDE DEF rows
  <2>2. Len(rows) \in 1..BatchSize
    BY <1>1, <1>3, <1>4
  <2>3. Cut(batches', << >>, Due')
    BY <1>1, <1>3, <2>1, <2>2, BatchJoins
  <2>4. Filling'
    BY <1>1, <1>3, <2>1 DEF Filling
  <2>5. /\ << >> \in Seq(DOMAIN Feed)
        /\ Cut(batches', << >>, Due') /\ (import' # "lost" => pending' = << >>)
    BY <2>1, <2>3
  <2>6. import' \notin {"none", "done"}
    BY <1>1
  <2> QED BY <1>1, <2>4, <2>5, <2>6 DEF WInv
<1>5. CASE ~(Importable(next) /\ Len(rows) >= BatchSize)
  <2>1. batches' = batches /\ pending' = rows
    BY <1>5 DEF ImportMessage
  <2>2. Len(rows) < BatchSize
    BY <1>1, <1>3, <1>5
  <2> HIDE DEF rows
  <2>3. Filling'
    BY <1>1, <1>3, <2>1, <2>2 DEF Filling
  <2> QED BY <1>1, <1>3, <2>1, <2>3 DEF WInv
<1> QED BY <1>4, <1>5

\* The end of the feed: what is left is handed over.
LEMMA WFinish ==
  ASSUME WInv, KInv', FinishImport
  PROVE  WInv'
<1>1. /\ import = "running" /\ import' = "done" /\ next' = next /\ next > Len(Feed)
      /\ pending' = << >>
      /\ pending \in Seq(DOMAIN Feed) /\ Len(pending) \in Nat /\ Len(pending) < BatchSize
      /\ BatchSize \in Nat /\ BatchSize > 0
      /\ batches \in Seq(Seq(DOMAIN Feed))
      /\ Cut(batches, pending, Due)
  BY HistoryAssumption DEF FinishImport, WInv, Filling
<1>2. Due' = Due
  BY <1>1 DEF Due, Importable
<1>3. batches' \in Seq(Seq(DOMAIN Feed)) /\ Cut(batches', << >>, Due)
  <2>1. CASE pending = << >>
    BY <1>1, <2>1 DEF FinishImport
  <2>2. CASE pending # << >>
    <3>1. batches' = Append(batches, pending)
      BY <2>2 DEF FinishImport
    <3>2. Len(pending) \in 1..BatchSize
      BY <1>1, <2>2
    <3> QED BY <1>1, <3>1, <3>2, BatchJoins
  <2> QED BY <2>1, <2>2
<1>4. Filling'
  BY <1>1, <1>3 DEF Filling
<1>5. /\ << >> \in Seq(DOMAIN Feed)
      /\ Cut(batches', << >>, Due') /\ (import' # "lost" => pending' = << >>)
  BY <1>1, <1>2, <1>3
<1>6. next' > Len(Feed)
  BY <1>1
<1> QED BY <1>1, <1>4, <1>5, <1>6 DEF WInv

LEMMA WStep == WInv /\ [HistoryNext]_<<pollVars, historyVars>> => WInv'
<1> SUFFICES ASSUME WInv, [HistoryNext]_<<pollVars, historyVars>> PROVE WInv'
  OBVIOUS
<1>1. KInv'
  BY KStep DEF WInv
<1>2. CASE ImportMessage
  BY <1>1, <1>2, WMessage
<1>3. CASE FinishImport
  BY <1>1, <1>3, WFinish
<1>4. CASE HistoryRestart
  <2>1. /\ batches' = batches /\ next' = next /\ pending' = << >>
        /\ import' = IF import = "running" THEN "lost" ELSE import
    BY <1>4 DEF HistoryRestart
  <2>2. Due' = Due
    BY <2>1 DEF Due, Importable
  <2>3. Filling'
    BY <2>1, HistoryAssumption DEF WInv, Filling
  <2>4. PICK rows \in Seq(DOMAIN Feed) :
          Cut(batches, rows, Due) /\ (import # "lost" => pending = rows)
    BY DEF WInv
  <2>5. import' # "lost" => rows = << >>
    BY <2>1, <2>4 DEF WInv, Filling
  <2>6. Cut(batches', rows, Due') /\ (import' # "lost" => pending' = rows)
    BY <2>1, <2>2, <2>4, <2>5
  <2>7. /\ import' \in {"none", "done"} => pending' = << >>
        /\ import' = "done" => next' > Len(Feed)
    BY <2>1 DEF WInv
  <2> QED BY <1>1, <2>3, <2>6, <2>7 DEF WInv
<1>5. CASE handleHistorySync
  <2>1. /\ batches' = batches /\ next' = next /\ pending' = pending
        /\ import = "none" /\ import' = "running"
    BY <1>5 DEF handleHistorySync
  <2>2. Due' = Due
    BY <2>1 DEF Due, Importable
  <2> QED BY <1>1, <2>1, <2>2 DEF WInv, Filling
<1>6. CASE \/ Poll \/ (\E ballot \in Ballots : ReadVote(ballot)) \/ KeepVote \/ TellVote
           \/ ImportPoll \/ SeedVote \/ UNCHANGED <<pollVars, historyVars>>
  <2>1. CASE UNCHANGED historyVars \/ ImportPoll \/ SeedVote
    <3>1. batches' = batches /\ next' = next /\ pending' = pending /\ import' = import
      BY <2>1 DEF ImportPoll, SeedVote, historyVars
    <3>2. Due' = Due
      BY <3>1 DEF Due, Importable
    <3> QED BY <1>1, <3>1, <3>2 DEF WInv, Filling
  <2> QED BY <1>2, <1>3, <1>4, <1>5, <1>6, <2>1 DEF HistoryNext
<1> QED BY <1>2, <1>3, <1>4, <1>5, <1>6 DEF HistoryNext

\* An import posts the rows of what it has read once each, in their order, in batches of the
\* size meant and without a gap; short of a restart, all but those of the batch being filled.
THEOREM ImportsAreWhole == HistorySpec => []ImportIsWhole
<1>1. WInv => ImportIsWhole
  <2> SUFFICES ASSUME WInv PROVE ImportIsWhole
    OBVIOUS
  <2>1. PICK rows \in Seq(DOMAIN Feed) :
          Cut(batches, rows, Due) /\ (import # "lost" => pending = rows)
    BY DEF WInv
  <2>2. Posted = Handed(batches)
    BY DEF Posted, Handed
  <2>3. /\ Posted \subseteq Due
        /\ \A i \in Due, j \in Posted : i < j => i \in Posted
    BY <2>1, <2>2, NoGap DEF WInv, Filling
  <2> QED BY <2>1, <2>2, <2>3 DEF ImportIsWhole, Cut, WInv
<1> QED BY <1>1, WInit, WStep, PTL DEF HistorySpec
-----------------------------------------------------------------------------
\* The rest of the type invariant: what neither the votes nor the import's rows are made of.
Rest ==
  /\ poll \in BOOLEAN
  /\ heard \subseteq Ballots
  /\ told = NoTold \/ (told.ballot \in Ballots /\ DOMAIN told.results \in {{}, DOMAIN Options})
  /\ restarts \in 0..Restarts

LEMMA RestStep == WInv /\ Rest /\ [HistoryNext]_<<pollVars, historyVars>> => Rest'
<1> SUFFICES ASSUME WInv, Rest, [HistoryNext]_<<pollVars, historyVars>> PROVE Rest'
  OBVIOUS
<1> USE DEF Rest
<1>1. CASE Poll \/ ImportPoll
  BY <1>1 DEF Poll, ImportPoll, rememberPoll
<1>2. ASSUME NEW ballot \in Ballots, ReadVote(ballot) PROVE Rest'
  BY <1>2 DEF ReadVote
<1>3. CASE TellVote
  <2>1. hand.ballot \in Ballots
    BY <1>3 DEF TellVote, WInv, KInv, VotesTyped, Hands
  <2>2. DOMAIN PollResults(Options) = DOMAIN Options /\ DOMAIN << >> = {}
    BY ResultsAreThePicks DEF WInv, KInv
  <2>3. told'.ballot = hand.ballot /\ told'.results \in {PollResults(Options), << >>}
    BY <1>3 DEF TellVote
  <2>4. DOMAIN told'.results \in {{}, DOMAIN Options}
    BY <2>2, <2>3
  <2>5. UNCHANGED <<poll, heard, restarts>>
    BY <1>3 DEF TellVote
  <2> QED BY <2>1, <2>3, <2>4, <2>5
<1>4. CASE HistoryRestart
  <2>1. heard' \subseteq heard
    BY <1>4 DEF HistoryRestart, PollsRestart
  <2>2. restarts' = restarts + 1 /\ restarts < Restarts
    BY <1>4 DEF HistoryRestart, PollsRestart
  <2>3. UNCHANGED <<poll, told>>
    BY <1>4 DEF HistoryRestart, PollsRestart
  <2> QED BY <2>1, <2>2, <2>3, PollsAssumption
<1>5. CASE KeepVote \/ SeedVote \/ handleHistorySync \/ ImportMessage \/ FinishImport
           \/ UNCHANGED <<pollVars, historyVars>>
  BY <1>5 DEF KeepVote, SeedVote, handleHistorySync, ImportMessage, FinishImport, pollVars
<1> QED BY <1>1, <1>2, <1>3, <1>4, <1>5 DEF HistoryNext

\* Every state of the polls and of the import is well formed: a tally has an entry for each
\* option, and the import stays inside the feed.
THEOREM HistoryTypeCorrect == HistorySpec => []HistoryTypeOK
<1>1. HistoryInit => Rest
  <2> SUFFICES ASSUME HistoryInit PROVE Rest
    OBVIOUS
  <2>1. poll = FALSE /\ heard = {} /\ told = NoTold /\ restarts = 0
    BY DEF HistoryInit, PollsInit
  <2>2. restarts \in 0..Restarts
    BY <2>1, PollsAssumption
  <2> QED BY <2>1, <2>2 DEF Rest
<1>2. WInv /\ Rest => HistoryTypeOK
  BY DEF WInv, KInv, VotesTyped, Placed, Filling, Rest, HistoryTypeOK, PollsTypeOK, Kept, Saved, Hands
<1> QED BY <1>1, <1>2, WInit, WStep, RestStep, PTL DEF HistorySpec
=============================================================================
