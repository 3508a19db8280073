-------------------------------- MODULE Community --------------------------------
(***************************************************************************)
(* What users do to one project besides buying it: rate it (voteProject),  *)
(* follow it (toggleFollowProject) and, as owners, vote to sell it         *)
(* (voteSellProject).  Each handler reads first and then writes a row of   *)
(* the user together with a counter of the project in one batch; several   *)
(* requests, also of one user, may be between the two.                     *)
(*                                                                         *)
(* Ratings are counted in tenths: project_profile.vote has one decimal and *)
(* the database rounds half up what is stored in it.  Projects do not meet *)
(* in these handlers, so that one stands for all.                          *)
(***************************************************************************)
EXTENDS Integers, FiniteSets

CONSTANTS
    Users,
    Votes,          \* requests to rate the project
    VoterOf,        \* the user who makes each
    Values,         \* the values voted: multiples of 0.5 from 0.5 to 10, in tenths
    Toggles,        \* clients that follow or unfollow, one request at a time
    FollowerOf,     \* the user of each client
    SellVotes,      \* requests to vote about the sale
    OwnerOf,        \* the user who makes each
    StartVoteSell, EndVoteSell,     \* days
    MaxInFlight,    \* bound: how many requests are handled at a time
    MaxDay,         \* bound: the clock stops there
    MaxNft          \* bound on total_nft of one owner

ASSUME RequestsAssumption ==
    /\ VoterOf \in [Votes -> Users]
    /\ FollowerOf \in [Toggles -> Users]
    /\ OwnerOf \in [SellVotes -> Users]
ASSUME ValuesAssumption == Values \subseteq {v \in 5 .. 100 : v % 5 = 0}
ASSUME BoundsAssumption ==
    /\ StartVoteSell \in Nat /\ EndVoteSell \in Nat
    /\ MaxInFlight \in Nat /\ MaxDay \in Nat /\ MaxNft \in Nat

VARIABLES
    day,            \* the server's clock
    voted,          \* project_voter.value, 0 without a row
    totalVote,      \* project_profile.total_vote
    vote,           \* project_profile.vote
    voting,         \* the requests to rate
    followRows,     \* the users with a project_follower row
    following,      \* those whose row has is_follow
    follows,        \* project_profile.follows
    toggling,       \* the requests to follow or unfollow
    totalNft,       \* project_nft_owner.total_nft, 0 without a row
    sellVoted,      \* the users whose project_nft_owner row has is_sell_voted
    sellHistory,    \* project_sell_vote_history.is_sell, "none" without a row
    selling         \* the requests to vote about the sale

rating == <<voted, totalVote, vote, voting>>
followers == <<followRows, following, follows, toggling>>
sale == <<totalNft, sellVoted, sellHistory, selling>>
vars == <<day, rating, followers, sale>>

-----------------------------------------------------------------------------
(* Type definitions *)

VoteRequest == [pc : {"idle", "read", "done"}, value : Values \cup {0}, vote : 0 .. 100]

ToggleRequest == [pc : {"idle", "read"}, row : BOOLEAN, follow : BOOLEAN]

SellRequest == [pc : {"idle", "checked", "done"}, isSell : BOOLEAN]

VoteAnswered == [pc |-> "done", value |-> 0, vote |-> 0]

NoToggle == [pc |-> "idle", row |-> FALSE, follow |-> FALSE]

SellAnswered == [pc |-> "done", isSell |-> FALSE]

TypeOK ==
    /\ day \in Nat
    /\ voted \in [Users -> Values \cup {0}]
    /\ totalVote \in Nat
    /\ vote \in 0 .. 100
    /\ voting \in [Votes -> VoteRequest]
    /\ followRows \in SUBSET Users
    /\ following \in SUBSET Users
    /\ follows \in Int
    /\ toggling \in [Toggles -> ToggleRequest]
    /\ totalNft \in [Users -> Nat]
    /\ sellVoted \in SUBSET Users
    /\ sellHistory \in [Users -> {"none", "sell", "keep"}]
    /\ selling \in [SellVotes -> SellRequest]

-----------------------------------------------------------------------------
(* Helper formulae *)

\* Mutant: only the new value is halved.
HalfOfNew(old, new) == old + (new + 1) \div 2

\* The mean, rounded half up to a tenth by the column it is stored in.
Mean(old, new) == (old + new + 1) \div 2

\* The first rating stands as it is.
NewVote(old, new) == IF old > 0 THEN Mean(old, new) ELSE new

\* Mutant: whoever has a row is taken as a follower.
CountsRow(row, follow) == IF row THEN -1 ELSE 1

\* [follower?.is_follow ? 'decrement' : 'increment']: 1
FollowsStep(row, follow) == IF row /\ follow THEN -1 ELSE 1

\* What a user is shown about himself.
IsVoted(u) == voted[u] # 0

\* [!!isFollowing?.is_follow]
IsFollowingProject(u) == u \in following

SellVoteOpen == day >= StartVoteSell /\ day <= EndVoteSell

RequestsInFlight ==
    Cardinality({v \in Votes : voting[v].pc = "read"})
    + Cardinality({t \in Toggles : toggling[t].pc = "read"})
    + Cardinality({s \in SellVotes : selling[s].pc = "checked"})

MayStart == RequestsInFlight < MaxInFlight

-----------------------------------------------------------------------------
Init ==
    /\ day = 0
    /\ voted = [u \in Users |-> 0]
    /\ totalVote = 0
    /\ vote = 0
    /\ voting = [v \in Votes |-> [pc |-> "idle", value |-> 0, vote |-> 0]]
    /\ followRows = {}
    /\ following = {}
    /\ follows = 0
    /\ toggling = [t \in Toggles |-> NoToggle]
    /\ totalNft = [u \in Users |-> 0]
    /\ sellVoted = {}
    /\ sellHistory = [u \in Users |-> "none"]
    /\ selling = [s \in SellVotes |-> [pc |-> "idle", isSell |-> FALSE]]

-----------------------------------------------------------------------------
(* Rating the project *)

\* Reads the profile, with the rating so far.
VoteRead(v, value) ==
    /\ MayStart
    /\ voting[v].pc = "idle"
    /\ voting' = [voting EXCEPT ![v] = [pc |-> "read", value |-> value, vote |-> vote]]
    /\ UNCHANGED <<day, voted, totalVote, vote, followers, sale>>

\* Mutant: the voter's row is written over.
VoteOverwrites(v) ==
    /\ voting[v].pc = "read"
    /\ voted' = [voted EXCEPT ![VoterOf[v]] = voting[v].value]
    /\ totalVote' = totalVote + 1
    /\ vote' = NewVote(voting[v].vote, voting[v].value)
    /\ voting' = [voting EXCEPT ![v] = VoteAnswered]
    /\ UNCHANGED <<day, followers, sale>>

\* Creates the voter's row, counts it, and writes the rating as a value computed
\* from the one that was read.
VoteCommit(v) ==
    /\ voting[v].pc = "read"
    /\ voted[VoterOf[v]] = 0
    /\ voted' = [voted EXCEPT ![VoterOf[v]] = voting[v].value]
    /\ totalVote' = totalVote + 1
    /\ vote' = NewVote(voting[v].vote, voting[v].value)
    /\ voting' = [voting EXCEPT ![v] = VoteAnswered]
    /\ UNCHANGED <<day, followers, sale>>

\* The row exists, or the database fails: nothing is written, the error is swallowed.
VoteFail(v) ==
    /\ voting[v].pc = "read"
    /\ voting' = [voting EXCEPT ![v] = VoteAnswered]
    /\ UNCHANGED <<day, voted, totalVote, vote, followers, sale>>

-----------------------------------------------------------------------------
(* Following it *)

ToggleRead(t) ==
    /\ MayStart
    /\ toggling[t].pc = "idle"
    /\ toggling' = [toggling EXCEPT ![t] =
                      [pc |-> "read", row |-> FollowerOf[t] \in followRows,
                       follow |-> FollowerOf[t] \in following]]
    /\ UNCHANGED <<day, rating, followRows, following, follows, sale>>

\* Creates the row or sets it to the opposite of what was read, and counts.  A
\* row that another request created meanwhile violates the key, see ToggleFail.
ToggleCommit(t) ==
    /\ toggling[t].pc = "read"
    /\ LET u == FollowerOf[t]
           read == toggling[t] IN
       /\ read.row \/ u \notin followRows
       /\ followRows' = followRows \cup {u}
       /\ following' = IF read.row /\ read.follow THEN following \ {u} ELSE following \cup {u}
       /\ follows' = follows + FollowsStep(read.row, read.follow)
    /\ toggling' = [toggling EXCEPT ![t] = NoToggle]
    /\ UNCHANGED <<day, rating, sale>>

ToggleFail(t) ==
    /\ toggling[t].pc = "read"
    /\ toggling' = [toggling EXCEPT ![t] = NoToggle]
    /\ UNCHANGED <<day, rating, followRows, following, follows, sale>>

-----------------------------------------------------------------------------
(* Voting to sell it *)

\* Reads the project and the owner's row, and refuses who does not own any of
\* it, comes at the wrong time, or has voted.
SellCheck(s, isSell) ==
    /\ MayStart
    /\ selling[s].pc = "idle"
    /\ totalNft[OwnerOf[s]] >= 1
    /\ SellVoteOpen
    /\ OwnerOf[s] \notin sellVoted
    /\ selling' = [selling EXCEPT ![s] = [pc |-> "checked", isSell |-> isSell]]
    /\ UNCHANGED <<day, rating, followers, totalNft, sellVoted, sellHistory>>

Choice(s) == IF selling[s].isSell THEN "sell" ELSE "keep"

\* Mutant: the history row is written over.
SellOverwrites(s) ==
    /\ selling[s].pc = "checked"
    /\ sellVoted' = sellVoted \cup {OwnerOf[s]}
    /\ sellHistory' = [sellHistory EXCEPT ![OwnerOf[s]] = Choice(s)]
    /\ selling' = [selling EXCEPT ![s] = SellAnswered]
    /\ UNCHANGED <<day, rating, followers, totalNft>>

\* Marks the owner and creates the history row, of which there is one per owner.
SellCommit(s) ==
    /\ selling[s].pc = "checked"
    /\ sellHistory[OwnerOf[s]] = "none"
    /\ sellVoted' = sellVoted \cup {OwnerOf[s]}
    /\ sellHistory' = [sellHistory EXCEPT ![OwnerOf[s]] = Choice(s)]
    /\ selling' = [selling EXCEPT ![s] = SellAnswered]
    /\ UNCHANGED <<day, rating, followers, totalNft>>

SellFail(s) ==
    /\ selling[s].pc = "checked"
    /\ selling' = [selling EXCEPT ![s] = SellAnswered]
    /\ UNCHANGED <<day, rating, followers, totalNft, sellVoted, sellHistory>>

\* updateProjectNftOwner
Buy(u) ==
    /\ totalNft[u] < MaxNft
    /\ totalNft' = [totalNft EXCEPT ![u] = @ + 1]
    /\ UNCHANGED <<day, rating, followers, sellVoted, sellHistory, selling>>

Tick ==
    /\ day < MaxDay
    /\ day' = day + 1
    /\ UNCHANGED <<rating, followers, sale>>

-----------------------------------------------------------------------------
VoteStep(v) == (\E value \in Values : VoteRead(v, value)) \/ VoteCommit(v) \/ VoteFail(v)

ToggleStep(t) == ToggleRead(t) \/ ToggleCommit(t) \/ ToggleFail(t)

SellStep(s) == (\E isSell \in BOOLEAN : SellCheck(s, isSell)) \/ SellCommit(s) \/ SellFail(s)

Next ==
    \/ \E v \in Votes : VoteStep(v)
    \/ \E t \in Toggles : ToggleStep(t)
    \/ \E s \in SellVotes : SellStep(s)
    \/ \E u \in Users : Buy(u)
    \/ Tick

Spec == Init /\ [][Next]_vars

-----------------------------------------------------------------------------
(* Properties *)

Voters == {u \in Users : IsVoted(u)}

BetweenVotes(x) ==
    \E worst, best \in Users :
        voted[worst] # 0 /\ voted[worst] <= x /\ x <= voted[best]

OneToggleEach == \A s, t \in Toggles : FollowerOf[s] = FollowerOf[t] => s = t

\* Everyone who is shown to have voted is counted once, also who sends the vote twice.
VotesCounted == totalVote = Cardinality(Voters)

\* The rating is never better than the best vote nor worse than the worst,
\* although it is computed from one that was read before others voted.
VoteBetweenVotes == totalVote > 0 => BetweenVotes(vote)

\* Those who are shown that they follow the project are counted right when no user has
\* two requests in flight, however the requests of different users overlap.
FollowsCounted ==
    OneToggleEach => follows = Cardinality({u \in Users : IsFollowingProject(u)})

\* An owner's choice stands: whatever requests were checked before the first of
\* them was recorded, none replaces it, and the mark on the owner's row agrees.
SellChoiceStands ==
    [][\A u \in Users :
        sellHistory[u] # "none" => sellHistory'[u] = sellHistory[u] /\ u \in sellVoted']_vars

-----------------------------------------------------------------------------
(* Why they hold: inductive strengthenings *)

VotersInv == IsFiniteSet(Voters) /\ totalVote = Cardinality(Voters)

\* Any rating that is stored or was read, however long ago, lies between votes that
\* are still there.
RatingInv ==
    /\ vote = 0 \/ BetweenVotes(vote)
    /\ totalVote > 0 => vote # 0
    /\ \A v \in Votes :
        voting[v].pc = "read" =>
            /\ voting[v].value \in Values
            /\ voting[v].vote = 0 \/ BetweenVotes(voting[v].vote)

\* What the only request of a user has read of the user's row still holds.
FollowersInv ==
    /\ following \subseteq followRows
    /\ IsFiniteSet(following)
    /\ OneToggleEach =>
        /\ follows = Cardinality(following)
        /\ \A t \in Toggles :
            toggling[t].pc = "read" =>
                /\ toggling[t].row <=> FollowerOf[t] \in followRows
                /\ toggling[t].follow <=> FollowerOf[t] \in following

SaleInv == \A u \in Users : sellHistory[u] # "none" => u \in sellVoted
=============================================================================
