\* Two withdrawals of one wallet overlap.
SPECIFICATION HSpec
CONSTANTS
    u1 = u1
    i1 = i1
    i2 = i2
    r3 = r3
    Users = {u1}
    Withdrawals = {w1, w2}
    WUser <- AllByU1
    Amounts = {1, 2}
    RefClaims = {r1}
    Invitees = {i1, i2}
    RInvitee <- R3AboutI2
    Inviter <- AllInvitedByU1
    RewardReferral = 2
    WithWallet = {u1}
    Unit = 2
    PoolFunds = 8
    MaxCredit = 2
    MaxOtp = 2
    MaxInFlight = 2
SYMMETRY Symmetry
CHECK_DEADLOCK FALSE
INVARIANTS
    SentWithinCredits
