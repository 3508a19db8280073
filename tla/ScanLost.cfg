\* One call of a scan fails.
SPECIFICATION Spec
CONSTANTS
    e2 = e2
    u1 = u1
    c1 = c1
    c2 = c2
    Events = {e1, e2}
    ContractOf <- C2ForE2
    BuyerOf <- BoughtByU1
    Quantity <- TwoForE2
    Users = {u1}
    Contracts = {c1, c2}
    KnownContracts = {c1, c2}
    WithProject = {c1, c2}
    Window = 4
    MaxBlock = 3
    MaxFailures = 1
    MaxRestarts = 0
INVARIANTS
    SavedIsCounted
