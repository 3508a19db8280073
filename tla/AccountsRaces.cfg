\* Requests for the same person, and to link the same wallet, overlap.
SPECIFICATION Spec
CONSTANTS
    NoOne = NoOne
    mail = mail
    google = google
    facebook1 = facebook1
    facebook2 = facebook2
    register = register
    byGoogle = byGoogle
    byFacebook = byFacebook
    other = other
    l1 = l1
    Emails = {mail}
    GoogleIds = {google}
    FacebookIds = {facebook1, facebook2}
    Addresses = {x1, x2}
    Sessions = {register, byGoogle, byFacebook, other}
    IdentityOf <- People
    Links = {l1, l2}
    LinkerOf <- FirstTwo
CHECK_DEADLOCK FALSE
INVARIANTS
    OneUserPerIdentity
    ReferralsAgree
PROPERTIES
    LinkedStays
