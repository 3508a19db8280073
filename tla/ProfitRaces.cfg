\* Two runs of the job and two claims of each balance overlap, on two projects.
SPECIFICATION Spec
CONSTANTS
    p1 = p1
    p2 = p2
    Users = {u1}
    WalletOwners = {u1}
    Projects = {p1, p2}
    Jobs = {j1, j2}
    Claims = {c1, c2}
    NftPrice <- PriceOne
    TakeProfitAt <- FromDayZero
    ProfitPeriod <- TwoDaysForP2
    VoteSellAt <- VoteSellP1OnDay3
    Id <- P1First
    Unlisted = Unlisted
    RewardReferral = 50
    MaxDay = 4
    MaxInvested = 1
CHECK_DEADLOCK FALSE
SYMMETRY Symmetry
INVARIANTS
    AccountsMatchLog
    CreditsBounded
    VoteStopsProfit
PROPERTIES
    ImplementsLedger
