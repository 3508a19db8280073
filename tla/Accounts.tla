-------------------------------- MODULE Accounts ---------------------------------
(***************************************************************************)
(* How users come into being: by e-mail (register) or by a Google or a     *)
(* Facebook login that finds nobody; how one becomes the referral of       *)
(* another (addReferral); how the e-mail is verified (verifyEmail) and how *)
(* the blockchain wallet is linked (updateWalletAddress).                  *)
(*                                                                         *)
(* A handler looks whether the user exists, finds the inviter, creates the *)
(* row and then the referral, in separate statements; other requests, also *)
(* for the same person, come in between.  Users are numbered in the order  *)
(* in which their rows are created, and a referral code, which its owner   *)
(* keeps, is the owner's number: to know a code is to know the inviter.    *)
(***************************************************************************)
EXTENDS Integers, FiniteSets, Sequences

CONSTANTS
    NoOne,          \* null
    Emails, GoogleIds, FacebookIds, Addresses,
    Sessions,       \* requests to register or log in, each one handled once
    IdentityOf,     \* what each brings: [email, google, facebook], one of them by which it registers
    Links,          \* clients that link a wallet, one request at a time
    LinkerOf        \* the number of the user who makes each

Identity == [email : Emails \cup {NoOne}, google : GoogleIds \cup {NoOne},
             facebook : FacebookIds \cup {NoOne}]

ASSUME IdentitiesAssumption ==
    /\ NoOne \notin Emails \cup GoogleIds \cup FacebookIds \cup Addresses
    /\ IsFiniteSet(Sessions)
    /\ IdentityOf \in [Sessions -> Identity]
    /\ \A s \in Sessions :
        /\ IdentityOf[s].google # NoOne => IdentityOf[s].email # NoOne
        /\ IdentityOf[s].google = NoOne \/ IdentityOf[s].facebook = NoOne
        /\ IdentityOf[s] # [email |-> NoOne, google |-> NoOne, facebook |-> NoOne]
ASSUME LinksAssumption == IsFiniteSet(Links) /\ LinkerOf \in [Links -> Nat \ {0}]

VARIABLES
    users,          \* table user, in the order of creation
    referralLog,    \* referral_log: who invited each user by it, 0 without a row
    notified,       \* the users whose inviter got the notification
    mailed,         \* the e-mails a verification token was sent to
    address,        \* user.wallet_address
    session,        \* the requests to register or log in
    link            \* the requests to link a wallet

vars == <<users, referralLog, notified, mailed, address, session, link>>

-----------------------------------------------------------------------------
(* Type definitions *)

\* Rows of users; inviter is 0 without one.
User == [email : Emails \cup {NoOne}, google : GoogleIds \cup {NoOne},
         facebook : FacebookIds \cup {NoOne}, inviter : Nat,
         status : {"PENDING", "ACTIVE"}]

UserIds == 1 .. Len(users)

\* user is the row created or found, 0 before.
SessionState ==
    [pc : {"idle", "unknown", "invited", "created", "referred", "notified", "done", "failed"},
     inviter : Nat, user : Nat]

NewSession == [pc |-> "idle", inviter |-> 0, user |-> 0]

LinkState == [pc : {"idle", "free", "checked"}, address : Addresses \cup {NoOne}]

NoLink == [pc |-> "idle", address |-> NoOne]

TypeOK ==
    /\ users \in Seq(User)
    /\ referralLog \in [UserIds -> Nat]
    /\ notified \in SUBSET UserIds
    /\ mailed \in SUBSET Emails
    /\ address \in [UserIds -> Addresses \cup {NoOne}]
    /\ session \in [Sessions -> SessionState]
    /\ link \in [Links -> LinkState]

-----------------------------------------------------------------------------
(* Helper formulae *)

ByEmail(e) == {i \in UserIds : e # NoOne /\ users[i].email = e}
ByGoogle(g) == {i \in UserIds : g # NoOne /\ users[i].google = g}
ByFacebook(f) == {i \in UserIds : f # NoOne /\ users[i].facebook = f}

\* The users a request takes for the one who makes it: by the id of the network it
\* comes from or, unless that is Facebook, by e-mail.
Known(s) ==
    LET id == IdentityOf[s] IN
    IF id.facebook # NoOne THEN ByFacebook(id.facebook)
                           ELSE ByGoogle(id.google) \cup ByEmail(id.email)

IsRegistration(s) == IdentityOf[s].google = NoOne /\ IdentityOf[s].facebook = NoOne

\* Mutant: the e-mail is not unique.
KeysFreeButEmail(id) == ByGoogle(id.google) = {} /\ ByFacebook(id.facebook) = {}

\* The unique keys of the table accept the row.
KeysFree(id) ==
    ByEmail(id.email) = {} /\ ByGoogle(id.google) = {} /\ ByFacebook(id.facebook) = {}

\* The referrals an inviter is shown.
GetReferralUser(inviter) == {i \in UserIds : users[i].inviter = inviter}

\* [user?.wallet_address]
GetWalletAddress(i) == IF i \in UserIds THEN address[i] ELSE NoOne

Extended(f, value) == [i \in 1 .. Len(users) + 1 |-> IF i \in UserIds THEN f[i] ELSE value]

Goto(s, pc) == session' = [session EXCEPT ![s].pc = pc]

-----------------------------------------------------------------------------
Init ==
    /\ users = << >>
    /\ referralLog = << >>
    /\ notified = {}
    /\ mailed = {}
    /\ address = << >>
    /\ session = [s \in Sessions |-> NewSession]
    /\ link = [l \in Links |-> NoLink]

-----------------------------------------------------------------------------
(* Registering and logging in *)

\* Nobody is found: the request goes on to create the user.
FindNobody(s) ==
    /\ session[s].pc = "idle"
    /\ Known(s) = {}
    /\ Goto(s, "unknown")
    /\ UNCHANGED <<users, referralLog, notified, mailed, address, link>>

\* getInviter: the owner of the code that was given; none, or one that nobody has,
\* means no inviter.
Inviters == {0} \cup UserIds

FindInviter(s, inviter) ==
    /\ session[s].pc = "unknown"
    /\ session' = [session EXCEPT ![s].pc = "invited", ![s].inviter = inviter]
    /\ UNCHANGED <<users, referralLog, notified, mailed, address, link>>

\* A login finds the user; findFirst takes any that fits.
LogIn(s) ==
    /\ session[s].pc = "idle"
    /\ ~IsRegistration(s)
    /\ \E i \in Known(s) :
        session' = [session EXCEPT ![s] = [NewSession EXCEPT !.pc = "done", !.user = i]]
    /\ UNCHANGED <<users, referralLog, notified, mailed, address, link>>

\* "Email has been registered before"
Refuse(s) ==
    /\ session[s].pc = "idle"
    /\ IsRegistration(s)
    /\ Known(s) # {}
    /\ Goto(s, "failed")
    /\ UNCHANGED <<users, referralLog, notified, mailed, address, link>>

CreateUser(s) ==
    /\ session[s].pc = "invited"
    /\ LET id == IdentityOf[s]
           inviter == session[s].inviter IN
       /\ KeysFree(id)
       /\ users' = Append(users, [email |-> id.email, google |-> id.google,
                                  facebook |-> id.facebook, inviter |-> inviter,
                                  status |-> "PENDING"])
       /\ session' = [session EXCEPT ![s].pc = IF inviter = 0 THEN "notified" ELSE "created",
                                     ![s].user = Len(users) + 1]
    /\ referralLog' = Extended(referralLog, 0)
    /\ address' = Extended(address, NoOne)
    /\ UNCHANGED <<notified, mailed, link>>

\* Mutant: the row names the latest user as the inviter.
ReferLatest(s) ==
    /\ session[s].pc = "created"
    /\ referralLog' = [referralLog EXCEPT ![session[s].user] = Len(users)]
    /\ Goto(s, "referred")
    /\ UNCHANGED <<users, notified, mailed, address, link>>

Refer(s) ==
    /\ session[s].pc = "created"
    /\ referralLog' = [referralLog EXCEPT ![session[s].user] = session[s].inviter]
    /\ Goto(s, "referred")
    /\ UNCHANGED <<users, notified, mailed, address, link>>

\* createAndPushNoti for the inviter
Notify(s) ==
    /\ session[s].pc = "referred"
    /\ notified' = notified \cup {session[s].user}
    /\ Goto(s, "notified")
    /\ UNCHANGED <<users, referralLog, mailed, address, link>>

\* addReferral swallows its errors: without the row, or with the row and without
\* the notification, the request goes on.
ReferralLost(s) ==
    /\ session[s].pc \in {"created", "referred"}
    /\ Goto(s, "notified")
    /\ UNCHANGED <<users, referralLog, notified, mailed, address, link>>

\* A registration mails the token, a login answers with one.
Answer(s) ==
    /\ session[s].pc = "notified"
    /\ mailed' = IF IsRegistration(s) THEN mailed \cup {IdentityOf[s].email} ELSE mailed
    /\ Goto(s, "done")
    /\ UNCHANGED <<users, referralLog, notified, address, link>>

\* A key is taken, or the database or the server fails.
Fail(s) ==
    /\ session[s].pc \notin {"idle", "done", "failed"}
    /\ Goto(s, "failed")
    /\ UNCHANGED <<users, referralLog, notified, mailed, address, link>>

\* AuthService.register of the admin application, on the same table: no check, no
\* inviter, no mail.
RegisterAdmin(e) ==
    /\ ByEmail(e) = {}
    /\ users' = Append(users, [email |-> e, google |-> NoOne, facebook |-> NoOne,
                               inviter |-> 0, status |-> "PENDING"])
    /\ referralLog' = Extended(referralLog, 0)
    /\ address' = Extended(address, NoOne)
    /\ UNCHANGED <<notified, mailed, session, link>>

VerifyEmail(e) ==
    /\ e \in mailed
    /\ \E i \in ByEmail(e) : users' = [users EXCEPT ![i].status = "ACTIVE"]
    /\ UNCHANGED <<referralLog, notified, mailed, address, session, link>>

-----------------------------------------------------------------------------
(* Linking a wallet *)

\* Nobody has the address.
LinkFree(l, a) ==
    /\ link[l].pc = "idle"
    /\ LinkerOf[l] \in UserIds
    /\ \A i \in UserIds : address[i] # a
    /\ link' = [link EXCEPT ![l] = [pc |-> "free", address |-> a]]
    /\ UNCHANGED <<users, referralLog, notified, mailed, address, session>>

\* Mutant: a user who has an address may link another.
LinkAgain(l) ==
    /\ link[l].pc = "free"
    /\ link' = [link EXCEPT ![l].pc = "checked"]
    /\ UNCHANGED <<users, referralLog, notified, mailed, address, session>>

\* The user has none.
LinkCheck(l) ==
    /\ link[l].pc = "free"
    /\ address[LinkerOf[l]] = NoOne
    /\ link' = [link EXCEPT ![l].pc = "checked"]
    /\ UNCHANGED <<users, referralLog, notified, mailed, address, session>>

LinkCommit(l) ==
    /\ link[l].pc = "checked"
    /\ \A i \in UserIds \ {LinkerOf[l]} : address[i] # link[l].address
    /\ address' = [address EXCEPT ![LinkerOf[l]] = link[l].address]
    /\ link' = [link EXCEPT ![l] = NoLink]
    /\ UNCHANGED <<users, referralLog, notified, mailed, session>>

\* The address or the user is taken, or the database fails.
LinkFail(l) ==
    /\ link[l].pc \in {"free", "checked"}
    /\ link' = [link EXCEPT ![l] = NoLink]
    /\ UNCHANGED <<users, referralLog, notified, mailed, address, session>>

-----------------------------------------------------------------------------
SessionStep(s) ==
    \/ FindNobody(s)
    \/ \E inviter \in Inviters : FindInviter(s, inviter)
    \/ LogIn(s) \/ Refuse(s) \/ CreateUser(s) \/ Refer(s)
    \/ Notify(s) \/ ReferralLost(s) \/ Answer(s) \/ Fail(s)

LinkStep(l) ==
    \/ \E a \in Addresses : LinkFree(l, a)
    \/ LinkCheck(l) \/ LinkCommit(l) \/ LinkFail(l)

Next ==
    \/ \E s \in Sessions : SessionStep(s)
    \/ \E e \in Emails : VerifyEmail(e) \/ RegisterAdmin(e)
    \/ \E l \in Links : LinkStep(l)

Spec == Init /\ [][Next]_vars

-----------------------------------------------------------------------------
(* Properties *)

\* However requests for one person overlap, no two users have the same e-mail,
\* network id or wallet address.
OneUserPerIdentity ==
    \A i, j \in UserIds :
        i # j =>
            /\ users[i].email = NoOne \/ users[i].email # users[j].email
            /\ users[i].google = NoOne \/ users[i].google # users[j].google
            /\ users[i].facebook = NoOne \/ users[i].facebook # users[j].facebook
            /\ address[i] = NoOne \/ address[i] # address[j]

\* The referral that claimReferral pays for is one the inviter is shown, by the row
\* of the user, and the inviter was there before: nobody is paid for inviting an
\* inviter, directly or around a circle.  Who was told of a referral can claim it.
ReferralsAgree ==
    \A i \in UserIds :
        /\ \A j \in GetReferralUser(i) : i < j
        /\ referralLog[i] # 0 => i \in GetReferralUser(referralLog[i])
        /\ i \in notified => referralLog[i] # 0

\* A wallet once linked stays, when a user links from one client at a time.
LinkedStays ==
    [][\A i \in UserIds :
        GetWalletAddress(i) # NoOne /\ Cardinality({l \in Links : LinkerOf[l] = i}) = 1 =>
            GetWalletAddress(i)' = GetWalletAddress(i)]_vars

\* Why referrals agree: an inviter was there before the row that names him,
RowsInv ==
    \A i \in UserIds :
        /\ users[i].inviter < i
        /\ referralLog[i] \in {0, users[i].inviter}
        /\ i \in notified => referralLog[i] # 0

\* and what a request goes on to record is what the row says.
RequestsInv ==
    \A s \in Sessions :
        /\ session[s].pc = "invited" => session[s].inviter \in Inviters
        /\ session[s].pc \in {"created", "referred"} =>
            /\ session[s].user \in UserIds
            /\ session[s].inviter = users[session[s].user].inviter
            /\ session[s].inviter # 0
        /\ session[s].pc = "referred" => referralLog[session[s].user] # 0
=============================================================================
