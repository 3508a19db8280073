\* Two runs of the job, two claims and an admin overlap, and the card changes hands.
SPECIFICATION Spec
CONSTANTS
    u1 = u1
    u2 = u2
    Users = {u1, u2}
    WalletHolders = {u1}
    Cards = {c1}
    Nobody = Nobody
    Profits = {1}
    Runs = {r1, r2}
    Claims = {k1, k2}
    Admins = {a1}
    NftPrice = 3
    FirstQuarter = 1
    MaxQuarter = 2
    MaxNft = 1
SYMMETRY Symmetry
INVARIANTS
    WalletsMatchLog
    BookedWithinQuarters
    PaidWithinClaimed
    BookedProfitHasHolder
    RepaidAtTheEnd
