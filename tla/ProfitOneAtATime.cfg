\* Runs of the job do not overlap, nor do claims of one balance; u2 has no wallet.
SPECIFICATION Spec
CONSTANTS
    p1 = p1
    p2 = p2
    Users = {u1, u2}
    WalletOwners = {u1}
    Projects = {p1, p2}
    Jobs = {j1}
    Claims = {c1}
    NftPrice <- PriceOne
    TakeProfitAt <- FromDayZero
    ProfitPeriod <- TwoDaysForP2
    VoteSellAt <- VoteSellP1OnDay3
    Id <- P1First
    Unlisted = Unlisted
    RewardReferral = 50
    MaxDay = 3
    MaxInvested = 1
CHECK_DEADLOCK FALSE
INVARIANTS
    IndexCoversLog
    BalanceNotNegative
    OwnersPaidAlike
    OwnBalanceShown
    DashboardMatchesLog
PROPERTIES
    RateNeverFalls
