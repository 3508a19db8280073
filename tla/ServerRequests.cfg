\* Requests about notifications, a password and a profile overlap, fail and are lost.
SPECIFICATION MCSpec
CONSTANTS
    Anonymous = Anonymous
    None = None
    Absent = Absent
    Users = {u1, u2}
    Clients = {c1}
    GivenNames = {n1}
    FamilyNames = {n2}
    Picture = Picture
    FirstPassword = p1
    Passwords = {p1, p2}
    Earlier = r0
    Requests = {r0, r1, r2}
    MaxNotes = 2
    MaxRestarts = 1
CHECK_DEADLOCK FALSE
INVARIANTS
    TypeOK
    CountSettles
    PasswordsInOrder
    MailedLinksWork
    
    InitializedOnce
PROPERTIES
    ReportsArrive
