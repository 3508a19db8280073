\* Uploads of one user, two admins and reverts overlap.
SPECIFICATION KycSpec
CONSTANTS
    u1 = u1
    Users = {u1}
    Clients = {c1, c2}
    UploaderOf <- ByU1
    Admins = {a1, a2}
    MaxRows = 4
    MaxRevived = 1
SYMMETRY Symmetry
INVARIANTS
    ShownKycDecides
    FewLiveRows
