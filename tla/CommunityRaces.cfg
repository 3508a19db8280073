\* Requests of one user and of two overlap.
SPECIFICATION Spec
CONSTANTS
    u1 = u1
    u2 = u2
    v3 = v3
    t2 = t2
    s3 = s3
    Users = {u1, u2}
    Votes = {v1, v2, v3}
    VoterOf <- ByU1ButV3
    Values = {5, 100}
    Toggles = {t1, t2}
    FollowerOf <- ByU1ButT2
    SellVotes = {s1, s2}
    OwnerOf <- ByU1ButS3
    StartVoteSell = 1
    EndVoteSell = 1
    MaxInFlight = 2
    MaxDay = 2
    MaxNft = 1
INVARIANTS
    VotesCounted
    VoteBetweenVotes
    FollowsCounted
PROPERTIES
    SellChoiceStands
