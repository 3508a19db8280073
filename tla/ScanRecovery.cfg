\* A scan fails, the server restarts, c2 gets a row, a type and a project meanwhile.
SPECIFICATION FairSpec
CONSTANTS
    e2 = e2
    u1 = u1
    c1 = c1
    c2 = c2
    Events = {e1, e2}
    ContractOf <- C2ForE2
    BuyerOf <- BoughtByU1
    Quantity <- TwoForE2
    Users = {u1}
    Contracts = {c1, c2}
    KnownContracts = {c1}
    WithProject = {c1}
    Window = 2
    MaxBlock = 4
    MaxFailures = 1
    MaxRestarts = 1
INVARIANTS
    CountedAtMostOnce
PROPERTIES
    PurchaseSaved
