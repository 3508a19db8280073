----------------------------- MODULE CommunityProofs -----------------------------
(***************************************************************************)
(* What Community guarantees for any number of users and of requests in    *)
(* flight: counters that agree with the rows they count, a rating between  *)
(* the votes, and choices that stand.                                      *)
(***************************************************************************)
EXTENDS Community, FiniteSetTheorems, TLAPS

-----------------------------------------------------------------------------
(* Type correctness *)

\* What a voter's row holds is a rating, or 0 without a row.
LEMMA ValueType ==
    ASSUME NEW b \in Values \cup {0}
    PROVE  b \in 0 .. 100
BY ValuesAssumption

\* What is stored of a vote is a rating, and not 0 unless the vote is.
LEMMA NewVoteType ==
    ASSUME NEW a \in 0 .. 100, NEW b \in Values \cup {0}
    PROVE  /\ NewVote(a, b) \in 0 .. 100
           /\ b # 0 => NewVote(a, b) # 0
BY ValueType DEF NewVote, Mean

\* Every variable keeps its type, whatever the constants.
THEOREM TypeCorrect == Spec => []TypeOK
<1>1. Init => TypeOK
  BY BoundsAssumption DEF Init, TypeOK, VoteRequest, ToggleRequest, SellRequest, NoToggle
<1>2. TypeOK /\ [Next]_vars => TypeOK'
  <2> SUFFICES ASSUME TypeOK, [Next]_vars PROVE TypeOK'
    OBVIOUS
  <2> USE DEF TypeOK
  <2>1. ASSUME NEW v \in Votes, NEW value \in Values, VoteRead(v, value) PROVE TypeOK'
    BY <2>1 DEF VoteRead, VoteRequest, followers, sale
  <2>2. ASSUME NEW v \in Votes, VoteCommit(v) PROVE TypeOK'
    <3>1. NewVote(voting[v].vote, voting[v].value) \in 0 .. 100
      BY NewVoteType DEF VoteRequest
    <3>2. /\ voting[v].value \in Values \cup {0}
          /\ VoterOf[v] \in Users
          /\ VoteAnswered \in VoteRequest
      BY RequestsAssumption DEF VoteRequest, VoteAnswered
    <3> QED
      BY <2>2, <3>1, <3>2 DEF VoteCommit, followers, sale
  <2>3. ASSUME NEW v \in Votes, VoteFail(v) PROVE TypeOK'
    BY <2>3 DEF VoteFail, VoteRequest, VoteAnswered, followers, sale
  <2>4. ASSUME NEW t \in Toggles, ToggleStep(t) PROVE TypeOK'
    <3> DEFINE u == FollowerOf[t]
    <3>1. /\ u \in Users
          /\ NoToggle \in ToggleRequest
          /\ \A row, follow \in BOOLEAN :
                [pc |-> "read", row |-> row, follow |-> follow] \in ToggleRequest
          /\ (u \in followRows) \in BOOLEAN
          /\ (u \in following) \in BOOLEAN
      BY RequestsAssumption DEF NoToggle, ToggleRequest
    <3>2. CASE ToggleRead(t)
      BY <3>1, <3>2 DEF ToggleRead, rating, sale
    <3>3. CASE ToggleCommit(t)
      <4>1. FollowsStep(toggling[t].row, toggling[t].follow) \in {-1, 1}
        BY DEF FollowsStep
      <4> QED
        BY <3>1, <3>3, <4>1 DEF ToggleCommit, rating, sale
    <3>4. CASE ToggleFail(t)
      BY <3>1, <3>4 DEF ToggleFail, rating, sale
    <3> QED
      BY <2>4, <3>2, <3>3, <3>4 DEF ToggleStep
  <2>5. ASSUME NEW s \in SellVotes, SellStep(s) PROVE TypeOK'
    <3>1. /\ OwnerOf[s] \in Users
          /\ SellAnswered \in SellRequest
          /\ \A isSell \in BOOLEAN : [pc |-> "checked", isSell |-> isSell] \in SellRequest
          /\ Choice(s) \in {"sell", "keep"}
      BY RequestsAssumption DEF SellAnswered, SellRequest, Choice
    <3>2. ASSUME NEW isSell \in BOOLEAN, SellCheck(s, isSell) PROVE TypeOK'
      BY <3>1, <3>2 DEF SellCheck, rating, followers
    <3>3. CASE SellCommit(s)
      BY <3>1, <3>3 DEF SellCommit, rating, followers
    <3>4. CASE SellFail(s)
      BY <3>1, <3>4 DEF SellFail, rating, followers
    <3> QED
      BY <2>5, <3>2, <3>3, <3>4 DEF SellStep
  <2>6. ASSUME NEW u \in Users, Buy(u) PROVE TypeOK'
    BY <2>6 DEF Buy, rating, followers
  <2>7. ASSUME Tick PROVE TypeOK'
    BY <2>7 DEF Tick, rating, followers, sale
  <2>8. CASE UNCHANGED vars
    BY <2>8 DEF vars, rating, followers, sale
  <2> QED
    BY <2>1, <2>2, <2>3, <2>4, <2>5, <2>6, <2>7, <2>8 DEF Next, VoteStep
<1> QED
  BY <1>1, <1>2, PTL DEF Spec

-----------------------------------------------------------------------------
(* Ratings *)

\* What a request to rate records: the voter becomes one of the voters, once.
LEMMA VoteCommitRows ==
    ASSUME TypeOK, NEW v \in Votes, VoteCommit(v), voting[v].value # 0
    PROVE  /\ VoterOf[v] \in Users
           /\ voted[VoterOf[v]] = 0
           /\ voted'[VoterOf[v]] = voting[v].value
           /\ \A u \in Users : voted[u] # 0 => voted'[u] = voted[u]
           /\ Voters' = Voters \cup {VoterOf[v]}
           /\ VoterOf[v] \notin Voters
<1>1. VoterOf[v] \in Users
  BY RequestsAssumption
<1>2. /\ voted[VoterOf[v]] = 0
      /\ voted' = [voted EXCEPT ![VoterOf[v]] = voting[v].value]
  BY DEF VoteCommit
<1>3. voted \in [Users -> Values \cup {0}]
  BY DEF TypeOK
<1> QED
  BY <1>1, <1>2, <1>3 DEF Voters, IsVoted

\* The rating that a request computes from the one it read is between the votes,
\* its own among them.
LEMMA NewVoteBetween ==
    ASSUME TypeOK, RatingInv, NEW v \in Votes, VoteCommit(v)
    PROVE  /\ BetweenVotes(vote)'
           /\ vote' \in 1 .. 100
<1> DEFINE u == VoterOf[v]
<1>1. PICK old \in 0 .. 100, new \in Values :
          /\ voting[v].value = new
          /\ old = 0 \/ BetweenVotes(old)
          /\ vote' = NewVote(old, new)
  BY DEF RatingInv, VoteCommit, TypeOK, VoteRequest
<1>2. new \in 5 .. 100
  BY ValuesAssumption
<1>3. /\ u \in Users
      /\ voted'[u] = new
      /\ \A w \in Users : voted[w] # 0 => voted'[w] = voted[w]
  BY <1>1, <1>2, VoteCommitRows
<1>4. vote' \in 1 .. 100
  <2>1. NewVote(old, new) \in 0 .. 100 /\ NewVote(old, new) # 0
    BY <1>2 DEF NewVote, Mean
  <2> QED
    BY <1>1, <2>1
<1>5. CASE old = 0
  <2>1. vote' = new
    BY <1>1, <1>5 DEF NewVote
  <2> QED
    BY <1>2, <1>3, <1>4, <2>1 DEF BetweenVotes
<1>6. CASE old # 0
  <2>1. PICK worst \in Users, best \in Users :
            voted[worst] # 0 /\ voted[worst] <= old /\ old <= voted[best]
    BY <1>1, <1>6 DEF BetweenVotes
  <2>2. voted[worst] \in Values \cup {0} /\ voted[best] \in Values \cup {0}
    BY DEF TypeOK
  <2>3. PICK lo \in 0 .. 100, hi \in 0 .. 100 :
            /\ voted'[worst] = lo /\ voted'[best] = hi
            /\ lo # 0 /\ lo <= old /\ old <= hi
    <3>1. voted[worst] \in 0 .. 100 /\ voted[best] \in 0 .. 100
      BY <2>2, ValueType
    <3>2. voted[best] # 0
      BY <1>6, <2>1, <3>1
    <3>3. voted'[worst] = voted[worst] /\ voted'[best] = voted[best]
      BY <1>3, <2>1, <3>2
    <3> QED
      BY <2>1, <3>1, <3>3
  <2>4. vote' = Mean(old, new)
    BY <1>1, <1>6 DEF NewVote
  <2>5. CASE old <= new
    <3>1. lo <= vote' /\ vote' <= new
      BY <1>2, <2>3, <2>4, <2>5 DEF Mean
    <3> QED
      BY <1>3, <1>4, <2>3, <3>1 DEF BetweenVotes
  <2>6. CASE new < old
    <3>1. new <= vote' /\ vote' <= hi
      BY <1>2, <2>3, <2>4, <2>6 DEF Mean
    <3>2. new # 0
      BY <1>2
    <3> QED
      BY <1>3, <1>4, <2>3, <3>1, <3>2 DEF BetweenVotes
  <2> QED
    BY <1>2, <2>5, <2>6
<1> QED
  BY <1>4, <1>5, <1>6

\* The strengthening about ratings that were read and are stored is inductive.
THEOREM RatingsInductive == Spec => []RatingInv
<1>1. Init => RatingInv
  BY DEF Init, RatingInv
<1>2. TypeOK /\ RatingInv /\ [Next]_vars => RatingInv'
  <2> SUFFICES ASSUME TypeOK, RatingInv, [Next]_vars PROVE RatingInv'
    OBVIOUS
  <2>1. ASSUME NEW v \in Votes, NEW value \in Values, VoteRead(v, value) PROVE RatingInv'
    <3>1. UNCHANGED <<voted, totalVote, vote>>
      BY <2>1 DEF VoteRead
    <3>2. voting' = [voting EXCEPT ![v] = [pc |-> "read", value |-> value, vote |-> vote]]
      BY <2>1 DEF VoteRead
    <3>3. \A w \in Votes : w # v => voting'[w] = voting[w]
      BY <3>2 DEF TypeOK
    <3>4. voting'[v] = [pc |-> "read", value |-> value, vote |-> vote]
      BY <3>2 DEF TypeOK
    <3> QED
      BY <3>1, <3>3, <3>4 DEF RatingInv, BetweenVotes
  <2>2. ASSUME NEW v \in Votes, VoteCommit(v) PROVE RatingInv'
    <3>1. BetweenVotes(vote)' /\ vote' \in 1 .. 100
      BY <2>2, NewVoteBetween
    <3>2. ASSUME NEW w \in Votes, voting'[w].pc = "read"
          PROVE  /\ voting'[w].value \in Values
                 /\ voting'[w].vote = 0 \/ BetweenVotes(voting[w].vote)'
                 /\ voting'[w] = voting[w]
      <4>1. w # v /\ voting'[w] = voting[w]
        BY <2>2, <3>2 DEF VoteCommit, VoteAnswered, TypeOK
      <4>2. voting[w].value \in Values /\ (voting[w].vote = 0 \/ BetweenVotes(voting[w].vote))
        BY <3>2, <4>1 DEF RatingInv
      <4>3. voting[w].vote \in 0 .. 100
        BY DEF TypeOK, VoteRequest
      <4>4. voting[v].value # 0
        BY <2>2, ValuesAssumption DEF RatingInv, VoteCommit
      <4>5. \A u \in Users : voted[u] # 0 => voted'[u] = voted[u]
        BY <2>2, <4>4, VoteCommitRows
      <4>6. ASSUME voting[w].vote # 0 PROVE BetweenVotes(voting[w].vote)'
        <5> DEFINE x == voting[w].vote
        <5>1. x \in 1 .. 100 /\ BetweenVotes(x)
          BY <4>2, <4>3, <4>6
        <5>2. \E worst, best \in Users :
                  voted'[worst] # 0 /\ voted'[worst] <= x /\ x <= voted'[best]
          BY <4>5, <5>1 DEF BetweenVotes
        <5> QED
          BY <4>1, <5>2 DEF BetweenVotes
      <4> QED
        BY <4>1, <4>2, <4>6
    <3> QED
      BY <3>1, <3>2 DEF RatingInv, BetweenVotes
  <2>3. ASSUME NEW v \in Votes, VoteFail(v) PROVE RatingInv'
    <3>1. UNCHANGED <<voted, totalVote, vote>>
      BY <2>3 DEF VoteFail
    <3>2. \A w \in Votes : voting'[w].pc = "read" => voting'[w] = voting[w]
      BY <2>3 DEF VoteFail, VoteAnswered, TypeOK
    <3> QED
      BY <3>1, <3>2 DEF RatingInv, BetweenVotes
  <2>4. CASE UNCHANGED rating
    BY <2>4 DEF rating, RatingInv, BetweenVotes
  <2>5. ASSUME NEW t \in Toggles, ToggleStep(t) PROVE UNCHANGED rating
    BY <2>5 DEF ToggleStep, ToggleRead, ToggleCommit, ToggleFail
  <2>6. ASSUME NEW s \in SellVotes, SellStep(s) PROVE UNCHANGED rating
    BY <2>6 DEF SellStep, SellCheck, SellCommit, SellFail
  <2>7. ASSUME NEW u \in Users, Buy(u) PROVE UNCHANGED rating
    BY <2>7 DEF Buy
  <2>8. Tick \/ UNCHANGED vars => UNCHANGED rating
    BY DEF Tick, vars
  <2> QED
    BY <2>1, <2>2, <2>3, <2>4, <2>5, <2>6, <2>7, <2>8 DEF Next, VoteStep
<1> QED
  BY <1>1, <1>2, TypeCorrect, PTL DEF Spec

\* The rating is never better than the best vote nor worse than the worst, with any
\* number of votes computed from a rating that is out of date.
THEOREM RatingBetweenVotes == Spec => []VoteBetweenVotes
<1>1. RatingInv => VoteBetweenVotes
  BY DEF RatingInv, VoteBetweenVotes
<1> QED
  BY <1>1, RatingsInductive, PTL

\* Every voter is counted once, with any number of requests of each in flight.
THEOREM VotersCounted == Spec => []VotesCounted
<1>1. Init => VotersInv
  <2> SUFFICES ASSUME Init PROVE VotersInv
    OBVIOUS
  <2>1. Voters = {} /\ totalVote = 0
    BY DEF Init, Voters, IsVoted
  <2> QED
    BY <2>1, FS_EmptySet DEF VotersInv
<1>2. TypeOK /\ RatingInv /\ VotersInv /\ [Next]_vars => VotersInv'
  <2> SUFFICES ASSUME TypeOK, RatingInv, VotersInv, [Next]_vars PROVE VotersInv'
    OBVIOUS
  <2>1. ASSUME NEW v \in Votes, VoteCommit(v) PROVE VotersInv'
    <3>1. voting[v].value # 0
      BY <2>1, ValuesAssumption DEF RatingInv, VoteCommit
    <3>2. Voters' = Voters \cup {VoterOf[v]} /\ VoterOf[v] \notin Voters
      BY <2>1, <3>1, VoteCommitRows
    <3>3. totalVote' = totalVote + 1
      BY <2>1 DEF VoteCommit
    <3>4. /\ IsFiniteSet(Voters \cup {VoterOf[v]})
          /\ Cardinality(Voters \cup {VoterOf[v]}) = Cardinality(Voters) + 1
      BY <3>2, FS_AddElement DEF VotersInv
    <3> QED
      BY <3>2, <3>3, <3>4 DEF VotersInv
  <2>2. CASE UNCHANGED <<voted, totalVote>>
    BY <2>2 DEF VotersInv, Voters, IsVoted
  <2>3. ASSUME NEW v \in Votes, (\E value \in Values : VoteRead(v, value)) \/ VoteFail(v)
        PROVE  UNCHANGED <<voted, totalVote>>
    BY <2>3 DEF VoteRead, VoteFail
  <2>4. ASSUME NEW t \in Toggles, ToggleStep(t) PROVE UNCHANGED <<voted, totalVote>>
    BY <2>4 DEF ToggleStep, ToggleRead, ToggleCommit, ToggleFail, rating
  <2>5. ASSUME NEW s \in SellVotes, SellStep(s) PROVE UNCHANGED <<voted, totalVote>>
    BY <2>5 DEF SellStep, SellCheck, SellCommit, SellFail, rating
  <2>6. ASSUME NEW u \in Users, Buy(u) PROVE UNCHANGED <<voted, totalVote>>
    BY <2>6 DEF Buy, rating
  <2>7. Tick \/ UNCHANGED vars => UNCHANGED <<voted, totalVote>>
    BY DEF Tick, vars, rating
  <2> QED
    BY <2>1, <2>2, <2>3, <2>4, <2>5, <2>6, <2>7 DEF Next, VoteStep
<1>3. VotersInv => VotesCounted
  BY DEF VotersInv, VotesCounted
<1> QED
  BY <1>1, <1>2, <1>3, TypeCorrect, RatingsInductive, PTL DEF Spec

-----------------------------------------------------------------------------
(* Followers *)

\* The batch of the only request of a user finds the user's row as it was read.
LEMMA ToggleCommitKeeps ==
    ASSUME TypeOK, FollowersInv, NEW t \in Toggles, ToggleCommit(t)
    PROVE  FollowersInv'
<1> DEFINE u == FollowerOf[t]
           leaves == toggling[t].row /\ toggling[t].follow
<1>1. /\ followRows' = followRows \cup {u}
      /\ following' = IF leaves THEN following \ {u} ELSE following \cup {u}
      /\ follows' = follows + FollowsStep(toggling[t].row, toggling[t].follow)
      /\ toggling[t].pc = "read"
  BY DEF ToggleCommit
<1>2. toggling' = [toggling EXCEPT ![t] = NoToggle]
  BY DEF ToggleCommit
<1>3. \A s \in Toggles : toggling'[s].pc = "read" => s # t /\ toggling'[s] = toggling[s]
  BY <1>2 DEF TypeOK, NoToggle
<1>4. following' \subseteq followRows' /\ IsFiniteSet(following')
  <2>1. IsFiniteSet(following \ {u}) /\ IsFiniteSet(following \cup {u})
    BY FS_AddElement, FS_RemoveElement DEF FollowersInv
  <2>2. following \subseteq followRows
    BY DEF FollowersInv
  <2> QED
    BY <1>1, <2>1, <2>2
<1>5. ASSUME OneToggleEach
      PROVE  /\ follows' = Cardinality(following')
             /\ \A s \in Toggles :
                 toggling'[s].pc = "read" =>
                     /\ toggling'[s].row <=> FollowerOf[s] \in followRows'
                     /\ toggling'[s].follow <=> FollowerOf[s] \in following'
  <2>1. /\ follows = Cardinality(following)
        /\ \A s \in Toggles :
            toggling[s].pc = "read" =>
                /\ toggling[s].row <=> FollowerOf[s] \in followRows
                /\ toggling[s].follow <=> FollowerOf[s] \in following
    BY <1>5 DEF FollowersInv
  <2>2. leaves <=> u \in following
    BY <1>1, <2>1 DEF FollowersInv
  <2>3. /\ IsFiniteSet(following)
        /\ Cardinality(following \ {u}) =
             IF u \in following THEN Cardinality(following) - 1 ELSE Cardinality(following)
        /\ Cardinality(following \cup {u}) =
             IF u \in following THEN Cardinality(following) ELSE Cardinality(following) + 1
    BY FS_AddElement, FS_RemoveElement DEF FollowersInv
  <2>4. FollowsStep(toggling[t].row, toggling[t].follow) = IF leaves THEN -1 ELSE 1
    BY DEF FollowsStep
  <2>5. follows' = Cardinality(following')
    <3>1. CASE leaves
      BY <1>1, <2>1, <2>2, <2>3, <2>4, <3>1 DEF TypeOK
    <3>2. CASE ~leaves
      BY <1>1, <2>1, <2>2, <2>3, <2>4, <3>2 DEF TypeOK
    <3> QED
      BY <3>1, <3>2
  <2>6. ASSUME NEW s \in Toggles, toggling'[s].pc = "read"
        PROVE  /\ toggling'[s].row <=> FollowerOf[s] \in followRows'
               /\ toggling'[s].follow <=> FollowerOf[s] \in following'
    <3>1. FollowerOf[s] # u
      BY <1>3, <1>5, <2>6 DEF OneToggleEach
    <3>2. /\ FollowerOf[s] \in followRows' <=> FollowerOf[s] \in followRows
          /\ FollowerOf[s] \in following' <=> FollowerOf[s] \in following
      BY <1>1, <3>1
    <3>3. toggling[s].pc = "read" /\ toggling'[s] = toggling[s]
      BY <1>3, <2>6
    <3> QED
      BY <2>1, <3>2, <3>3
  <2> QED
    BY <2>5, <2>6
<1> QED
  BY <1>4, <1>5 DEF FollowersInv, OneToggleEach

\* Followers are counted right when no user has two requests in flight, for any
\* number of users whose requests overlap.
THEOREM FollowersCounted == Spec => []FollowsCounted
<1>1. Init => FollowersInv
  BY FS_EmptySet DEF Init, FollowersInv, NoToggle
<1>2. TypeOK /\ FollowersInv /\ [Next]_vars => FollowersInv'
  <2> SUFFICES ASSUME TypeOK, FollowersInv, [Next]_vars PROVE FollowersInv'
    OBVIOUS
  <2>1. ASSUME NEW t \in Toggles, ToggleRead(t) PROVE FollowersInv'
    <3>1. UNCHANGED <<followRows, following, follows>>
      BY <2>1 DEF ToggleRead
    <3>2. /\ toggling'[t].row = (FollowerOf[t] \in followRows)
          /\ toggling'[t].follow = (FollowerOf[t] \in following)
          /\ \A s \in Toggles : s # t => toggling'[s] = toggling[s]
      BY <2>1 DEF ToggleRead, TypeOK
    <3> QED
      BY <3>1, <3>2, Zenon DEF FollowersInv, OneToggleEach
  <2>2. ASSUME NEW t \in Toggles, ToggleCommit(t) PROVE FollowersInv'
    BY <2>2, ToggleCommitKeeps
  <2>3. ASSUME NEW t \in Toggles, ToggleFail(t) PROVE FollowersInv'
    <3>1. UNCHANGED <<followRows, following, follows>>
      BY <2>3 DEF ToggleFail
    <3>2. \A s \in Toggles : toggling'[s].pc = "read" => toggling'[s] = toggling[s]
      BY <2>3 DEF ToggleFail, NoToggle, TypeOK
    <3> QED
      BY <3>1, <3>2 DEF FollowersInv, OneToggleEach
  <2>4. CASE UNCHANGED followers
    BY <2>4 DEF followers, FollowersInv, OneToggleEach
  <2>5. ASSUME NEW v \in Votes, VoteStep(v) PROVE UNCHANGED followers
    BY <2>5 DEF VoteStep, VoteRead, VoteCommit, VoteFail
  <2>6. ASSUME NEW s \in SellVotes, SellStep(s) PROVE UNCHANGED followers
    BY <2>6 DEF SellStep, SellCheck, SellCommit, SellFail
  <2>7. ASSUME NEW u \in Users, Buy(u) PROVE UNCHANGED followers
    BY <2>7 DEF Buy
  <2>8. Tick \/ UNCHANGED vars => UNCHANGED followers
    BY DEF Tick, vars
  <2> QED
    BY <2>1, <2>2, <2>3, <2>4, <2>5, <2>6, <2>7, <2>8 DEF Next, ToggleStep
<1>3. TypeOK /\ FollowersInv => FollowsCounted
  <2>1. TypeOK => following = {u \in Users : IsFollowingProject(u)}
    BY DEF TypeOK, IsFollowingProject
  <2> QED
    BY <2>1 DEF FollowersInv, FollowsCounted
<1> QED
  BY <1>1, <1>2, <1>3, TypeCorrect, PTL DEF Spec

-----------------------------------------------------------------------------
(* The vote to sell *)

\* A step keeps the choices made, and marks the owners who made one.
LEMMA SaleStep ==
    ASSUME TypeOK, SaleInv, [Next]_vars
    PROVE  /\ SaleInv'
           /\ \A u \in Users :
                sellHistory[u] # "none" => sellHistory'[u] = sellHistory[u] /\ u \in sellVoted'
<1>1. ASSUME NEW s \in SellVotes, SellCommit(s)
      PROVE  /\ sellHistory[OwnerOf[s]] = "none"
             /\ sellVoted' = sellVoted \cup {OwnerOf[s]}
             /\ \A u \in Users : u # OwnerOf[s] => sellHistory'[u] = sellHistory[u]
  BY <1>1 DEF SellCommit, TypeOK
<1>2. CASE UNCHANGED <<sellVoted, sellHistory>>
  BY <1>2 DEF SaleInv
<1>3. CASE \E s \in SellVotes : SellCommit(s)
  BY <1>1, <1>3 DEF SaleInv
<1>4. ASSUME NEW s \in SellVotes, (\E isSell \in BOOLEAN : SellCheck(s, isSell)) \/ SellFail(s)
      PROVE  UNCHANGED <<sellVoted, sellHistory>>
  BY <1>4 DEF SellCheck, SellFail
<1>5. ASSUME NEW v \in Votes, VoteStep(v) PROVE UNCHANGED <<sellVoted, sellHistory>>
  BY <1>5 DEF VoteStep, VoteRead, VoteCommit, VoteFail, sale
<1>6. ASSUME NEW t \in Toggles, ToggleStep(t) PROVE UNCHANGED <<sellVoted, sellHistory>>
  BY <1>6 DEF ToggleStep, ToggleRead, ToggleCommit, ToggleFail, sale
<1>7. ASSUME NEW u \in Users, Buy(u) PROVE UNCHANGED <<sellVoted, sellHistory>>
  BY <1>7 DEF Buy
<1>8. Tick \/ UNCHANGED vars => UNCHANGED <<sellVoted, sellHistory>>
  BY DEF Tick, vars, sale
<1> QED
  BY <1>2, <1>3, <1>4, <1>5, <1>6, <1>7, <1>8 DEF Next, SellStep

\* An owner's choice about the sale stands, however many requests of the owner were
\* checked before it was recorded.
THEOREM ChoicesStand == Spec => SellChoiceStands
<1>1. Init => SaleInv
  BY DEF Init, SaleInv
<1>2. TypeOK /\ SaleInv /\ [Next]_vars => SaleInv'
  BY SaleStep
<1>3. TypeOK /\ SaleInv /\ [Next]_vars =>
        [\A u \in Users :
            sellHistory[u] # "none" =>
                sellHistory'[u] = sellHistory[u] /\ u \in sellVoted']_vars
  BY SaleStep
<1> QED
  BY <1>1, <1>2, <1>3, TypeCorrect, PTL DEF Spec, SellChoiceStands
=============================================================================
