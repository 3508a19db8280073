\* Withdrawals of either sign, rewards and credits overlap in every way; the first
\* reward creates the wallet.
SPECIFICATION HSpec
CONSTANTS
    u1 = u1
    i1 = i1
    i2 = i2
    r3 = r3
    Users = {u1}
    Withdrawals = {w1, w2}
    WUser <- AllByU1
    Amounts <- OneBackTwoOff
    RefClaims = {r1, r2, r3}
    Invitees = {i1, i2}
    RInvitee <- R3AboutI2
    Inviter <- AllInvitedByU1
    RewardReferral = 2
    WithWallet = {}
    Unit = 2
    PoolFunds = 6
    MaxCredit = 3
    MaxOtp = 2
    MaxInFlight = 3
SYMMETRY Symmetry
CHECK_DEADLOCK FALSE
INVARIANTS
    WalletBacked
    ClaimedIffRewarded
    LogMatchesChain
    Balanced
    UsedOnce
