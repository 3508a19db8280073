------------------------------- MODULE UserProofs ------------------------------
(***************************************************************************)
(* The rows of UserService.  Accounts, for any number of people, requests  *)
(* and clients: no two users share an e-mail, a network id or a wallet,    *)
(* and a referral that is paid for is one that the row of the user names.  *)
(* Kyc, for any users, clients and admins, and any number of rows: types,  *)
(* that a user is shown a complete row which says whether he may upload,   *)
(* and how many verifications of a user can be live.                       *)
(***************************************************************************)
EXTENDS Accounts, Kyc, FiniteSetTheorems, WellFoundedInduction, TLAPS

-----------------------------------------------------------------------------
(* Accounts: types *)

LEMMA IdentityType == \A s \in Sessions : IdentityOf[s] \in Identity
BY IdentitiesAssumption

\* What a row added at the end does to the table.
LEMMA RowAdded ==
    ASSUME TypeOK, NEW row \in User, users' = Append(users, row)
    PROVE  /\ users' \in Seq(User)
           /\ Len(users') = Len(users) + 1
           /\ UserIds' = UserIds \cup {Len(users) + 1}
           /\ \A i \in UserIds : users'[i] = users[i]
           /\ users'[Len(users) + 1] = row
           /\ Len(users) \in Nat
<1>1. users \in Seq(User) /\ Len(users) \in Nat
  BY DEF TypeOK
<1>2. users' \in Seq(User) /\ Len(users') = Len(users) + 1
  BY <1>1
<1>3. UserIds' = UserIds \cup {Len(users) + 1}
  BY <1>1, <1>2 DEF UserIds
<1>4. \A i \in UserIds : users'[i] = users[i]
  BY <1>1 DEF UserIds
<1>5. users'[Len(users) + 1] = row
  BY <1>1
<1> QED  BY <1>1, <1>2, <1>3, <1>4, <1>5

\* The columns kept beside it, with the values of the new row.
LEMMA LogExtended ==
    ASSUME TypeOK, NEW row \in User, users' = Append(users, row),
           referralLog' = Extended(referralLog, 0)
    PROVE  /\ referralLog' \in [UserIds' -> Nat]
           /\ \A i \in UserIds : referralLog'[i] = referralLog[i]
           /\ referralLog'[Len(users) + 1] = 0
<1>1. Len(users) \in Nat /\ Len(users') = Len(users) + 1
  BY RowAdded
<1>2. referralLog \in [UserIds -> Nat]
  BY DEF TypeOK
<1> QED  BY <1>1, <1>2 DEF Extended, UserIds

LEMMA AddressExtended ==
    ASSUME TypeOK, NEW row \in User, users' = Append(users, row),
           address' = Extended(address, NoOne)
    PROVE  /\ address' \in [UserIds' -> Addresses \cup {NoOne}]
           /\ \A i \in UserIds : address'[i] = address[i]
           /\ address'[Len(users) + 1] = NoOne
<1>1. Len(users) \in Nat /\ Len(users') = Len(users) + 1
  BY RowAdded
<1>2. address \in [UserIds -> Addresses \cup {NoOne}]
  BY DEF TypeOK
<1> QED  BY <1>1, <1>2 DEF Extended, UserIds

\* One request moves, the others stay where they are.
LEMMA SessionMoved ==
    ASSUME TypeOK, NEW s \in Sessions,
           NEW pc \in {"idle", "unknown", "invited", "created", "referred", "notified",
                       "done", "failed"},
           Goto(s, pc)
    PROVE  /\ session' \in [Sessions -> SessionState]
           /\ session'[s].pc = pc
           /\ session'[s].user = session[s].user
           /\ session'[s].inviter = session[s].inviter
           /\ \A r \in Sessions \ {s} : session'[r] = session[r]
<1>1. session[s] \in SessionState /\ session \in [Sessions -> SessionState]
  BY DEF TypeOK
<1>2. session' = [session EXCEPT ![s] = [session[s] EXCEPT !.pc = pc]]
  BY DEF Goto
<1>3. [session[s] EXCEPT !.pc = pc] \in SessionState
  BY <1>1 DEF SessionState
<1>4. session'[s] = [session[s] EXCEPT !.pc = pc]
  BY <1>1, <1>2
<1>5. /\ session'[s].pc = pc
      /\ session'[s].user = session[s].user
      /\ session'[s].inviter = session[s].inviter
  BY <1>1, <1>4 DEF SessionState
<1> QED  BY <1>1, <1>2, <1>3, <1>5

\* The rows that the two applications create.
LEMMA RowTypes ==
    /\ \A s \in Sessions, inviter \in Nat :
         [email |-> IdentityOf[s].email, google |-> IdentityOf[s].google,
          facebook |-> IdentityOf[s].facebook, inviter |-> inviter,
          status |-> "PENDING"] \in User
    /\ \A e \in Emails :
         [email |-> e, google |-> NoOne, facebook |-> NoOne,
          inviter |-> 0, status |-> "PENDING"] \in User
BY IdentityType DEF Identity, User

\* Everything keeps its type, however requests of any number of people overlap.
LEMMA TypeStep == TypeOK /\ RequestsInv /\ [Next]_vars => TypeOK'
<1> SUFFICES ASSUME TypeOK, RequestsInv, [Next]_vars PROVE TypeOK'
  OBVIOUS
<1>1. ASSUME NEW s \in Sessions, FindNobody(s) \/ Refuse(s) \/ ReferralLost(s) \/ Fail(s)
      PROVE  TypeOK'
  <2>1. session' \in [Sessions -> SessionState]
    BY <1>1, SessionMoved DEF FindNobody, Refuse, ReferralLost, Fail
  <2> QED  BY <1>1, <2>1 DEF FindNobody, Refuse, ReferralLost, Fail, TypeOK, UserIds
<1>2. ASSUME NEW s \in Sessions, NEW inviter \in Inviters, FindInviter(s, inviter)
      PROVE  TypeOK'
  <2>1. inviter \in Nat
    BY DEF Inviters, UserIds
  <2>2. session' \in [Sessions -> SessionState]
    BY <1>2, <2>1 DEF FindInviter, TypeOK, SessionState
  <2> QED  BY <1>2, <2>2 DEF FindInviter, TypeOK, UserIds
<1>3. ASSUME NEW s \in Sessions, LogIn(s) PROVE TypeOK'
  <2>1. PICK i \in Known(s) : session' = [session EXCEPT ![s] = [NewSession EXCEPT !.pc = "done", !.user = i]]
    BY <1>3 DEF LogIn
  <2>2. i \in Nat
    BY <2>1 DEF Known, ByFacebook, ByGoogle, ByEmail, UserIds
  <2>3. session' \in [Sessions -> SessionState]
    BY <2>1, <2>2 DEF TypeOK, SessionState, NewSession
  <2> QED  BY <1>3, <2>3 DEF LogIn, TypeOK, UserIds
<1>4. ASSUME NEW s \in Sessions, CreateUser(s) PROVE TypeOK'
  <2> DEFINE row == [email |-> IdentityOf[s].email, google |-> IdentityOf[s].google,
                     facebook |-> IdentityOf[s].facebook,
                     inviter |-> session[s].inviter, status |-> "PENDING"]
  <2>1. row \in User
    BY RowTypes DEF TypeOK, SessionState
  <2>2. users' = Append(users, row)
    BY <1>4 DEF CreateUser
  <2> HIDE DEF row
  <2>3. users' \in Seq(User) /\ UserIds \subseteq UserIds' /\ Len(users) + 1 \in Nat
    BY <2>1, <2>2, RowAdded
  <2>4. referralLog' \in [UserIds' -> Nat]
    BY <1>4, <2>1, <2>2, LogExtended DEF CreateUser
  <2>5. address' \in [UserIds' -> Addresses \cup {NoOne}]
    BY <1>4, <2>1, <2>2, AddressExtended DEF CreateUser
  <2>6. session' \in [Sessions -> SessionState]
    <3>1. [session[s] EXCEPT !.pc = IF session[s].inviter = 0 THEN "notified" ELSE "created",
                             !.user = Len(users) + 1] \in SessionState
      BY <2>3 DEF TypeOK, SessionState
    <3>2. session' = [session EXCEPT ![s] =
              [session[s] EXCEPT !.pc = IF session[s].inviter = 0 THEN "notified" ELSE "created",
                                 !.user = Len(users) + 1]]
      BY <1>4 DEF CreateUser
    <3> QED  BY <3>1, <3>2 DEF TypeOK
  <2> QED  BY <1>4, <2>3, <2>4, <2>5, <2>6 DEF CreateUser, TypeOK
<1>5. ASSUME NEW s \in Sessions, Refer(s) PROVE TypeOK'
  <2>1. session[s].inviter \in Nat
    BY DEF TypeOK, SessionState
  <2>2. session' \in [Sessions -> SessionState]
    BY <1>5, SessionMoved DEF Refer
  <2> QED  BY <1>5, <2>1, <2>2 DEF Refer, TypeOK, UserIds
<1>6. ASSUME NEW s \in Sessions, Answer(s) PROVE TypeOK'
  <2>1. IsRegistration(s) => IdentityOf[s].email \in Emails
    BY IdentitiesAssumption DEF IsRegistration, Identity
  <2>2. session' \in [Sessions -> SessionState]
    BY <1>6, SessionMoved DEF Answer
  <2> QED  BY <1>6, <2>1, <2>2 DEF Answer, TypeOK, UserIds
<1>7. ASSUME NEW e \in Emails, RegisterAdmin(e) PROVE TypeOK'
  <2> DEFINE row == [email |-> e, google |-> NoOne, facebook |-> NoOne,
                     inviter |-> 0, status |-> "PENDING"]
  <2>1. row \in User /\ users' = Append(users, row)
    BY <1>7, RowTypes DEF RegisterAdmin
  <2> HIDE DEF row
  <2>2. users' \in Seq(User) /\ UserIds \subseteq UserIds'
    BY <2>1, RowAdded
  <2>3. referralLog' \in [UserIds' -> Nat]
    BY <1>7, <2>1, LogExtended DEF RegisterAdmin
  <2>4. address' \in [UserIds' -> Addresses \cup {NoOne}]
    BY <1>7, <2>1, AddressExtended DEF RegisterAdmin
  <2> QED  BY <1>7, <2>2, <2>3, <2>4 DEF RegisterAdmin, TypeOK
<1>8. ASSUME NEW e \in Emails, VerifyEmail(e) PROVE TypeOK'
  <2>1. PICK i \in ByEmail(e) : users' = [users EXCEPT ![i].status = "ACTIVE"]
    BY <1>8 DEF VerifyEmail
  <2>2. users' \in Seq(User) /\ Len(users') = Len(users)
    <3>1. i \in 1 .. Len(users) /\ users[i] \in User /\ users \in Seq(User)
      BY DEF ByEmail, UserIds, TypeOK
    <3>2. [users[i] EXCEPT !.status = "ACTIVE"] \in User
      BY <3>1 DEF User
    <3>3. users' = [users EXCEPT ![i] = [users[i] EXCEPT !.status = "ACTIVE"]]
      BY <2>1
    <3> QED  BY <3>1, <3>2, <3>3
  <2> QED  BY <1>8, <2>2 DEF VerifyEmail, TypeOK, UserIds
<1>9. ASSUME NEW l \in Links, LinkStep(l) PROVE TypeOK'
  <2>1. ASSUME NEW a \in Addresses, LinkFree(l, a) PROVE TypeOK'
    BY <1>9, <2>1 DEF LinkFree, TypeOK, UserIds, LinkState
  <2>2. CASE LinkCheck(l) \/ LinkFail(l)
    <3>1. [link[l] EXCEPT !.pc = "checked"] \in LinkState /\ NoLink \in LinkState
      BY DEF TypeOK, LinkState, NoLink
    <3>2. link' = [link EXCEPT ![l] = [link[l] EXCEPT !.pc = "checked"]]
            \/ link' = [link EXCEPT ![l] = NoLink]
      BY <2>2 DEF LinkCheck, LinkFail
    <3>3. link' \in [Links -> LinkState]
      BY <3>1, <3>2 DEF TypeOK
    <3> QED  BY <2>2, <3>3 DEF LinkCheck, LinkFail, TypeOK, UserIds
  <2>3. CASE LinkCommit(l)
    <3>1. link[l].address \in Addresses \cup {NoOne}
      BY DEF TypeOK, LinkState
    <3>2. NoLink \in LinkState
      BY DEF LinkState, NoLink
    <3> QED  BY <2>3, <3>1, <3>2 DEF LinkCommit, TypeOK, UserIds
  <2> QED  BY <1>9, <2>1, <2>2, <2>3 DEF LinkStep
<1>10. ASSUME NEW s \in Sessions, Notify(s) PROVE TypeOK'
  <2>1. session[s].user \in UserIds
    BY <1>10 DEF Notify, RequestsInv
  <2>2. session' \in [Sessions -> SessionState]
    BY <1>10, SessionMoved DEF Notify
  <2> QED  BY <1>10, <2>1, <2>2 DEF Notify, TypeOK, UserIds
<1>11. CASE UNCHANGED vars
  BY <1>11 DEF vars, TypeOK, UserIds
<1> QED
  BY <1>1, <1>2, <1>3, <1>4, <1>5, <1>6, <1>7, <1>8, <1>9, <1>10, <1>11 DEF Next, SessionStep

-----------------------------------------------------------------------------
(* Accounts: one user per identity *)

\* A row that the unique keys accept shares nothing with those that are there.
LEMMA AcceptedRow ==
    ASSUME TypeOK, OneUserPerIdentity, NEW row \in User, users' = Append(users, row),
           ByEmail(row.email) = {}, ByGoogle(row.google) = {}, ByFacebook(row.facebook) = {},
           address' = Extended(address, NoOne)
    PROVE  OneUserPerIdentity'
<1>1. /\ UserIds' = UserIds \cup {Len(users) + 1}
      /\ \A i \in UserIds : users'[i] = users[i]
      /\ users'[Len(users) + 1] = row
      /\ Len(users) \in Nat
  BY RowAdded
<1>2. /\ \A i \in UserIds : address'[i] = address[i]
      /\ address'[Len(users) + 1] = NoOne
  BY AddressExtended
<1>3. ASSUME NEW i \in UserIds
      PROVE  /\ row.email = NoOne \/ row.email # users[i].email
             /\ row.google = NoOne \/ row.google # users[i].google
             /\ row.facebook = NoOne \/ row.facebook # users[i].facebook
  BY DEF ByEmail, ByGoogle, ByFacebook
<1> DEFINE Apart(i, j) ==
      /\ users'[i].email = NoOne \/ users'[i].email # users'[j].email
      /\ users'[i].google = NoOne \/ users'[i].google # users'[j].google
      /\ users'[i].facebook = NoOne \/ users'[i].facebook # users'[j].facebook
      /\ address'[i] = NoOne \/ address'[i] # address'[j]
<1>4. ASSUME NEW i \in UserIds', NEW j \in UserIds', i # j PROVE Apart(i, j)
  <2>1. CASE i \in UserIds /\ j \in UserIds
    <3>1. users'[i] = users[i] /\ users'[j] = users[j] /\ address'[i] = address[i] /\ address'[j] = address[j]
      BY <1>1, <1>2, <2>1
    <3> QED  BY <1>4, <2>1, <3>1 DEF OneUserPerIdentity
  <2>2. CASE i = Len(users) + 1
    <3>1. j \in UserIds
      BY <1>1, <1>4, <2>2
    <3> QED  BY <1>1, <1>2, <1>3, <2>2, <3>1
  <2>3. CASE j = Len(users) + 1
    <3>1. i \in UserIds
      BY <1>1, <1>4, <2>3
    <3> QED  BY <1>1, <1>2, <1>3, <2>3, <3>1
  <2> QED  BY <1>1, <2>1, <2>2, <2>3
<1> QED  BY <1>4 DEF OneUserPerIdentity

LEMMA IdentityStep ==
    TypeOK /\ OneUserPerIdentity /\ [Next]_vars => OneUserPerIdentity'
<1> SUFFICES ASSUME TypeOK, OneUserPerIdentity, [Next]_vars PROVE OneUserPerIdentity'
  OBVIOUS
<1>1. CASE UNCHANGED <<users, address>>
  BY <1>1 DEF OneUserPerIdentity, UserIds
<1>2. ASSUME NEW s \in Sessions, CreateUser(s) PROVE OneUserPerIdentity'
  <2> DEFINE row == [email |-> IdentityOf[s].email, google |-> IdentityOf[s].google,
                     facebook |-> IdentityOf[s].facebook,
                     inviter |-> session[s].inviter, status |-> "PENDING"]
  <2>1. row \in User
    BY RowTypes DEF TypeOK, SessionState
  <2>2. users' = Append(users, row) /\ address' = Extended(address, NoOne)
    BY <1>2 DEF CreateUser
  <2>3. ByEmail(row.email) = {} /\ ByGoogle(row.google) = {} /\ ByFacebook(row.facebook) = {}
    BY <1>2 DEF CreateUser, KeysFree
  <2> HIDE DEF row
  <2> QED  BY <2>1, <2>2, <2>3, AcceptedRow
<1>3. ASSUME NEW e \in Emails, RegisterAdmin(e) PROVE OneUserPerIdentity'
  <2> DEFINE row == [email |-> e, google |-> NoOne, facebook |-> NoOne,
                     inviter |-> 0, status |-> "PENDING"]
  <2>1. row \in User /\ users' = Append(users, row) /\ address' = Extended(address, NoOne)
    BY <1>3, RowTypes DEF RegisterAdmin
  <2>2. ByEmail(row.email) = {} /\ ByGoogle(row.google) = {} /\ ByFacebook(row.facebook) = {}
    BY <1>3 DEF RegisterAdmin, ByGoogle, ByFacebook
  <2> HIDE DEF row
  <2> QED  BY <2>1, <2>2, AcceptedRow
<1>4. ASSUME NEW e \in Emails, VerifyEmail(e) PROVE OneUserPerIdentity'
  <2>1. PICK i \in UserIds : users' = [users EXCEPT ![i].status = "ACTIVE"]
    BY <1>4 DEF VerifyEmail, ByEmail
  <2>2. UserIds' = UserIds
    BY <2>1 DEF UserIds, TypeOK
  <2>3. \A j \in UserIds : /\ users'[j].email = users[j].email
                          /\ users'[j].google = users[j].google
                          /\ users'[j].facebook = users[j].facebook
    BY <2>1 DEF TypeOK, User, UserIds
  <2>4. address' = address
    BY <1>4 DEF VerifyEmail
  <2> QED  BY <2>2, <2>3, <2>4 DEF OneUserPerIdentity
<1>5. ASSUME NEW l \in Links, LinkCommit(l) PROVE OneUserPerIdentity'
  <2>1. UserIds' = UserIds /\ users' = users
    BY <1>5 DEF LinkCommit, UserIds
  <2>2. \A i, j \in UserIds :
          i # j => address'[i] = NoOne \/ address'[i] # address'[j]
    BY <1>5 DEF LinkCommit, OneUserPerIdentity, TypeOK
  <2> QED  BY <2>1, <2>2 DEF OneUserPerIdentity
<1> QED
  BY <1>1, <1>2, <1>3, <1>4, <1>5
  DEF Next, SessionStep, LinkStep, vars, FindNobody, FindInviter, LogIn, Refuse, Refer,
      Notify, ReferralLost, Answer, Fail, LinkFree, LinkCheck, LinkFail

-----------------------------------------------------------------------------
(* Accounts: referrals *)

\* A new row, of which no request knows yet but the one that creates it.
LEMMA RowsExtended ==
    ASSUME TypeOK, RowsInv, NEW row \in User, users' = Append(users, row),
           row.inviter \in Inviters, referralLog' = Extended(referralLog, 0),
           notified' = notified
    PROVE  RowsInv'
<1>1. /\ UserIds' = UserIds \cup {Len(users) + 1}
      /\ \A i \in UserIds : users'[i] = users[i]
      /\ users'[Len(users) + 1] = row
      /\ Len(users) \in Nat
  BY RowAdded
<1>2. /\ \A i \in UserIds : referralLog'[i] = referralLog[i]
      /\ referralLog'[Len(users) + 1] = 0
  BY LogExtended
<1>3. row.inviter < Len(users) + 1
  BY <1>1 DEF Inviters, UserIds
<1>4. Len(users) + 1 \notin notified
  BY <1>1 DEF TypeOK, UserIds
<1>5. ASSUME NEW i \in UserIds'
      PROVE  /\ users'[i].inviter < i
             /\ referralLog'[i] \in {0, users'[i].inviter}
             /\ i \in notified' => referralLog'[i] # 0
  <2>1. CASE i \in UserIds
    BY <1>1, <1>2, <2>1 DEF RowsInv
  <2>2. CASE i = Len(users) + 1
    BY <1>1, <1>2, <1>3, <1>4, <2>2
  <2> QED  BY <1>1, <1>5, <2>1, <2>2
<1> QED  BY <1>5 DEF RowsInv

\* A request that is not about to record anything asks nothing of the tables.
LEMMA OthersKept ==
    ASSUME TypeOK, RequestsInv, TypeOK',
           UserIds \subseteq UserIds',
           \A i \in UserIds : users'[i].inviter = users[i].inviter,
           \A i \in UserIds : referralLog[i] # 0 => referralLog'[i] # 0,
           NEW s \in Sessions,
           session'[s] = session[s]
             \/ session'[s].pc \in {"idle", "unknown", "failed", "notified", "done"}
    PROVE  /\ session'[s].pc = "invited" => session'[s].inviter \in Inviters'
           /\ session'[s].pc \in {"created", "referred"} =>
                /\ session'[s].user \in UserIds'
                /\ session'[s].inviter = users'[session'[s].user].inviter
                /\ session'[s].inviter # 0
           /\ session'[s].pc = "referred" => referralLog'[session'[s].user] # 0
BY DEF RequestsInv, Inviters

LEMMA ReferralStep ==
    TypeOK /\ RequestsInv /\ RowsInv /\ [Next]_vars => RequestsInv' /\ RowsInv'
<1> SUFFICES ASSUME TypeOK, RequestsInv, RowsInv, [Next]_vars
             PROVE  RequestsInv' /\ RowsInv'
  OBVIOUS
<1>0. TypeOK'
  BY TypeStep
<1>1. ASSUME NEW s \in Sessions, FindNobody(s) \/ Refuse(s) \/ ReferralLost(s) \/ Fail(s)
                                \/ LogIn(s) \/ Answer(s)
      PROVE  RequestsInv' /\ RowsInv'
  <2>1. UNCHANGED <<users, referralLog, notified>>
    BY <1>1 DEF FindNobody, Refuse, ReferralLost, Fail, LogIn, Answer
  <2>2. \A r \in Sessions : session'[r] = session[r]
          \/ session'[r].pc \in {"idle", "unknown", "failed", "notified", "done"}
    <3>1. ASSUME LogIn(s) PROVE session'[s].pc = "done" /\ \A r \in Sessions \ {s} : session'[r] = session[r]
      BY <3>1 DEF LogIn, NewSession, TypeOK
    <3>2. ASSUME NEW pc \in {"unknown", "failed", "notified", "done"}, Goto(s, pc)
          PROVE  session'[s].pc = pc /\ \A r \in Sessions \ {s} : session'[r] = session[r]
      BY <3>2, SessionMoved
    <3>3. FindNobody(s) \/ Refuse(s) \/ ReferralLost(s) \/ Fail(s) \/ Answer(s)
            => \E pc \in {"unknown", "failed", "notified", "done"} : Goto(s, pc)
      BY DEF FindNobody, Refuse, ReferralLost, Fail, Answer
    <3> QED  BY <1>1, <3>1, <3>2, <3>3
  <2>3. UserIds' = UserIds
    BY <2>1 DEF UserIds
  <2> QED  BY <1>0, <2>1, <2>2, <2>3, OthersKept DEF RequestsInv, RowsInv
<1>2. ASSUME NEW s \in Sessions, NEW inviter \in Inviters, FindInviter(s, inviter)
      PROVE  RequestsInv' /\ RowsInv'
  <2>1. UNCHANGED <<users, referralLog, notified>> /\ UserIds' = UserIds /\ Inviters' = Inviters
    BY <1>2 DEF FindInviter, UserIds, Inviters
  <2>2. RequestsInv'
    BY <1>2, <2>1 DEF FindInviter, RequestsInv, TypeOK, SessionState
  <2> QED  BY <2>1, <2>2 DEF RowsInv
<1>3. ASSUME NEW s \in Sessions, CreateUser(s) PROVE RequestsInv' /\ RowsInv'
  <2> DEFINE row == [email |-> IdentityOf[s].email, google |-> IdentityOf[s].google,
                     facebook |-> IdentityOf[s].facebook,
                     inviter |-> session[s].inviter, status |-> "PENDING"]
  <2>1. row \in User
    BY RowTypes DEF TypeOK, SessionState
  <2>2. users' = Append(users, row)
    BY <1>3 DEF CreateUser
  <2>3. row.inviter = session[s].inviter /\ session[s].inviter \in Inviters
    BY <1>3 DEF CreateUser, RequestsInv
  <2> HIDE DEF row
  <2>4. RowsInv'
    BY <1>3, <2>1, <2>2, <2>3, RowsExtended DEF CreateUser
  <2>5. /\ UserIds' = UserIds \cup {Len(users) + 1}
        /\ \A i \in UserIds : users'[i] = users[i]
        /\ users'[Len(users) + 1] = row
    BY <2>1, <2>2, RowAdded
  <2>6. \A i \in UserIds : referralLog'[i] = referralLog[i]
    BY <1>3, <2>1, <2>2, LogExtended DEF CreateUser
  <2>7. session'[s] = [session[s] EXCEPT
            !.pc = IF session[s].inviter = 0 THEN "notified" ELSE "created",
            !.user = Len(users) + 1]
    BY <1>3 DEF CreateUser, TypeOK
  <2>8. \A r \in Sessions \ {s} : session'[r] = session[r]
    BY <1>3 DEF CreateUser, TypeOK
  <2>9. /\ session'[s].pc = (IF session[s].inviter = 0 THEN "notified" ELSE "created")
        /\ session'[s].user = Len(users) + 1
        /\ session'[s].inviter = session[s].inviter
    BY <2>7 DEF TypeOK, SessionState
  <2>10. RequestsInv'
    <3> SUFFICES ASSUME NEW r \in Sessions
        PROVE  /\ session'[r].pc = "invited" => session'[r].inviter \in Inviters'
               /\ session'[r].pc \in {"created", "referred"} =>
                    /\ session'[r].user \in UserIds'
                    /\ session'[r].inviter = users'[session'[r].user].inviter
                    /\ session'[r].inviter # 0
               /\ session'[r].pc = "referred" => referralLog'[session'[r].user] # 0
      BY DEF RequestsInv
    <3>1. CASE r = s
      BY <2>3, <2>5, <2>9, <3>1
    <3>2. CASE r # s
      BY <1>0, <2>5, <2>6, <2>8, <3>2, OthersKept
    <3> QED  BY <3>1, <3>2
  <2> QED  BY <2>4, <2>10
<1>4. ASSUME NEW e \in Emails, RegisterAdmin(e) PROVE RequestsInv' /\ RowsInv'
  <2> DEFINE row == [email |-> e, google |-> NoOne, facebook |-> NoOne,
                     inviter |-> 0, status |-> "PENDING"]
  <2>1. row \in User /\ users' = Append(users, row) /\ row.inviter \in Inviters
    BY <1>4, RowTypes DEF RegisterAdmin, Inviters
  <2> HIDE DEF row
  <2>2. RowsInv'
    BY <1>4, <2>1, RowsExtended DEF RegisterAdmin
  <2>3. /\ UserIds' = UserIds \cup {Len(users) + 1}
        /\ \A i \in UserIds : users'[i] = users[i]
    BY <2>1, RowAdded
  <2>4. \A i \in UserIds : referralLog'[i] = referralLog[i]
    BY <1>4, <2>1, LogExtended DEF RegisterAdmin
  <2>5. session' = session
    BY <1>4 DEF RegisterAdmin
  <2> QED  BY <1>0, <2>2, <2>3, <2>4, <2>5, OthersKept DEF RequestsInv
<1>5. ASSUME NEW s \in Sessions, Refer(s) PROVE RequestsInv' /\ RowsInv'
  <2>1. users' = users /\ notified' = notified /\ UserIds' = UserIds /\ Inviters' = Inviters
    BY <1>5 DEF Refer, UserIds, Inviters
  <2>2. /\ session[s].user \in UserIds
        /\ session[s].inviter = users[session[s].user].inviter
        /\ session[s].inviter # 0
    BY <1>5 DEF Refer, RequestsInv
  <2>3. /\ referralLog' = [referralLog EXCEPT ![session[s].user] = session[s].inviter]
        /\ referralLog'[session[s].user] = session[s].inviter
        /\ \A i \in UserIds \ {session[s].user} : referralLog'[i] = referralLog[i]
    BY <1>5, <2>2 DEF Refer, TypeOK
  <2>4. RowsInv'
    BY <2>1, <2>2, <2>3 DEF RowsInv
  <2>5. \A r \in Sessions \ {s} : session'[r] = session[r]
    BY <1>5, SessionMoved DEF Refer
  <2>6. /\ session'[s].pc = "referred"
        /\ session'[s].user = session[s].user
        /\ session'[s].inviter = session[s].inviter
    BY <1>5, SessionMoved DEF Refer
  <2>7. \A i \in UserIds : referralLog[i] # 0 => referralLog'[i] # 0
    BY <2>2, <2>3
  <2>8. RequestsInv'
    <3> SUFFICES ASSUME NEW r \in Sessions
        PROVE  /\ session'[r].pc = "invited" => session'[r].inviter \in Inviters'
               /\ session'[r].pc \in {"created", "referred"} =>
                    /\ session'[r].user \in UserIds'
                    /\ session'[r].inviter = users'[session'[r].user].inviter
                    /\ session'[r].inviter # 0
               /\ session'[r].pc = "referred" => referralLog'[session'[r].user] # 0
      BY DEF RequestsInv
    <3>1. CASE r = s
      BY <2>1, <2>2, <2>3, <2>6, <3>1
    <3>2. CASE r # s
      BY <1>0, <2>1, <2>5, <2>7, <3>2, OthersKept
    <3> QED  BY <3>1, <3>2
  <2> QED  BY <2>4, <2>8
<1>6. ASSUME NEW s \in Sessions, Notify(s) PROVE RequestsInv' /\ RowsInv'
  <2>1. users' = users /\ referralLog' = referralLog /\ UserIds' = UserIds
    BY <1>6 DEF Notify, UserIds
  <2>2. \A r \in Sessions : session'[r] = session[r] \/ session'[r].pc = "notified"
    BY <1>6, SessionMoved DEF Notify
  <2>3. RequestsInv'
    BY <1>0, <2>1, <2>2, OthersKept DEF RequestsInv
  <2>4. referralLog[session[s].user] # 0 /\ notified' = notified \cup {session[s].user}
    BY <1>6 DEF Notify, RequestsInv
  <2> QED  BY <2>1, <2>3, <2>4 DEF RowsInv
<1>7. ASSUME NEW e \in Emails, VerifyEmail(e) PROVE RequestsInv' /\ RowsInv'
  <2>1. PICK i \in UserIds : users' = [users EXCEPT ![i].status = "ACTIVE"]
    BY <1>7 DEF VerifyEmail, ByEmail
  <2>2. UserIds' = UserIds
    BY <2>1 DEF UserIds, TypeOK
  <2>3. \A j \in UserIds : users'[j].inviter = users[j].inviter
    BY <2>1 DEF TypeOK, User, UserIds
  <2>4. UNCHANGED <<referralLog, notified, session>>
    BY <1>7 DEF VerifyEmail
  <2> QED  BY <1>0, <2>2, <2>3, <2>4, OthersKept DEF RequestsInv, RowsInv
<1>8. CASE UNCHANGED <<users, referralLog, notified, session>>
  BY <1>8 DEF RequestsInv, RowsInv, Inviters, UserIds
<1> QED
  BY <1>1, <1>2, <1>3, <1>4, <1>5, <1>6, <1>7, <1>8
  DEF Next, SessionStep, LinkStep, vars, LinkFree, LinkCheck, LinkCommit, LinkFail

-----------------------------------------------------------------------------
(* Accounts: the theorems *)

\* Everything keeps its type, and the strengthening holds.
THEOREM Inductive == Spec => [](TypeOK /\ RequestsInv /\ RowsInv)
<1>1. Init => TypeOK
  BY DEF Init, TypeOK, UserIds, NewSession, NoLink, SessionState, LinkState
<1>2. Init => RequestsInv /\ RowsInv
  BY DEF Init, RequestsInv, RowsInv, UserIds, NewSession
<1> QED  BY <1>1, <1>2, TypeStep, ReferralStep, PTL DEF Spec

\* However requests for one person overlap, in either application, no two users
\* have the same e-mail, network id or wallet (AuthService, updateWalletAddress).
THEOREM IdentitiesUnique == Spec => []OneUserPerIdentity
<1>1. Init => OneUserPerIdentity
  BY DEF Init, OneUserPerIdentity, UserIds
<1> QED  BY <1>1, IdentityStep, Inductive, PTL DEF Spec

\* A referral that is recorded, and so paid for by claimReferral, is the one that
\* the row of the user names, of an inviter who was there before (addReferral).
THEOREM ReferralsTrue == Spec => []ReferralsAgree
<1>1. TypeOK /\ RowsInv => ReferralsAgree
  <2> SUFFICES ASSUME TypeOK, RowsInv, NEW i \in UserIds
               PROVE  /\ \A j \in GetReferralUser(i) : i < j
                      /\ referralLog[i] # 0 => i \in GetReferralUser(referralLog[i])
                      /\ i \in notified => referralLog[i] # 0
    BY DEF ReferralsAgree
  <2> QED  BY DEF RowsInv, GetReferralUser
<1> QED  BY <1>1, Inductive, PTL

-----------------------------------------------------------------------------
(* Accounts: linked wallets *)

OnlyLinkOfItsUser(l) == {k \in Links : LinkerOf[k] = LinkerOf[l]} = {l}

\* While a user links from one client, what it has checked stays true.
CheckedFree ==
    \A l \in Links :
        /\ link[l].pc # "idle" => LinkerOf[l] \in UserIds
        /\ link[l].pc = "checked" /\ OnlyLinkOfItsUser(l) => address[LinkerOf[l]] = NoOne

\* Steps that leave the requests to link and the addresses that are there alone.
LEMMA LinksKept ==
    ASSUME CheckedFree, UserIds \subseteq UserIds', link' = link,
           \A i \in UserIds : address'[i] = address[i]
    PROVE  CheckedFree'
BY DEF CheckedFree, OnlyLinkOfItsUser

\* The step of one request: where it goes, and what it writes.
LEMMA LinkMoved ==
    ASSUME TypeOK, NEW l \in Links, LinkStep(l)
    PROVE  /\ UserIds' = UserIds
           /\ \A k \in Links \ {l} : link'[k] = link[k]
           /\ link'[l].pc # "idle" => LinkerOf[l] \in UserIds \/ link[l].pc # "idle"
           /\ link'[l].pc = "checked" => address[LinkerOf[l]] = NoOne
           /\ \/ address' = address
              \/ /\ link[l].pc = "checked"
                 /\ link'[l].pc = "idle"
                 /\ \A i \in UserIds \ {LinkerOf[l]} : address'[i] = address[i]
<1>0. link \in [Links -> LinkState] /\ address \in [UserIds -> Addresses \cup {NoOne}]
  BY DEF TypeOK
<1>1. UserIds' = UserIds
  BY DEF LinkStep, LinkFree, LinkCheck, LinkCommit, LinkFail, UserIds
<1>2. ASSUME NEW a \in Addresses, LinkFree(l, a)
      PROVE  /\ LinkerOf[l] \in UserIds /\ address' = address
             /\ link'[l].pc = "free" /\ \A k \in Links \ {l} : link'[k] = link[k]
  BY <1>0, <1>2 DEF LinkFree
<1>3. ASSUME LinkCheck(l)
      PROVE  /\ link[l].pc = "free" /\ address[LinkerOf[l]] = NoOne /\ address' = address
             /\ \A k \in Links \ {l} : link'[k] = link[k]
  BY <1>0, <1>3 DEF LinkCheck
<1>4. ASSUME LinkCommit(l)
      PROVE  /\ link[l].pc = "checked" /\ link'[l].pc = "idle"
             /\ \A i \in UserIds \ {LinkerOf[l]} : address'[i] = address[i]
             /\ \A k \in Links \ {l} : link'[k] = link[k]
  BY <1>0, <1>4 DEF LinkCommit, NoLink
<1>5. ASSUME LinkFail(l)
      PROVE  /\ link'[l].pc = "idle" /\ address' = address
             /\ \A k \in Links \ {l} : link'[k] = link[k]
  BY <1>0, <1>5 DEF LinkFail, NoLink
<1> QED
  BY <1>1, <1>2, <1>3, <1>4, <1>5 DEF LinkStep

LEMMA CheckedFreeStep ==
    ASSUME TypeOK, CheckedFree, [Next]_vars
    PROVE  CheckedFree'
<1>1. CASE UNCHANGED <<users, address, link>>
  BY <1>1, LinksKept DEF UserIds
<1>2. ASSUME NEW row \in User, users' = Append(users, row),
             address' = Extended(address, NoOne), link' = link
      PROVE  CheckedFree'
  <2>1. UserIds' = UserIds \cup {Len(users) + 1}
    BY <1>2, RowAdded
  <2>2. \A i \in UserIds : address'[i] = address[i]
    BY <1>2, AddressExtended
  <2> QED  BY <1>2, <2>1, <2>2, LinksKept
<1>3. ASSUME NEW s \in Sessions, CreateUser(s) PROVE CheckedFree'
  <2> DEFINE row == [email |-> IdentityOf[s].email, google |-> IdentityOf[s].google,
                     facebook |-> IdentityOf[s].facebook,
                     inviter |-> session[s].inviter, status |-> "PENDING"]
  <2>1. row \in User
    BY RowTypes DEF TypeOK, SessionState
  <2>2. users' = Append(users, row) /\ address' = Extended(address, NoOne) /\ link' = link
    BY <1>3 DEF CreateUser
  <2> HIDE DEF row
  <2> QED  BY <1>2, <2>1, <2>2
<1>4. ASSUME NEW e \in Emails, RegisterAdmin(e) PROVE CheckedFree'
  <2> DEFINE row == [email |-> e, google |-> NoOne, facebook |-> NoOne,
                     inviter |-> 0, status |-> "PENDING"]
  <2>1. row \in User
    BY RowTypes
  <2>2. users' = Append(users, row) /\ address' = Extended(address, NoOne) /\ link' = link
    BY <1>4 DEF RegisterAdmin
  <2> HIDE DEF row
  <2> QED  BY <1>2, <2>1, <2>2
<1>5. ASSUME NEW e \in Emails, VerifyEmail(e) PROVE CheckedFree'
  <2>1. UserIds' = UserIds /\ address' = address /\ link' = link
    BY <1>5 DEF VerifyEmail, ByEmail, UserIds, TypeOK
  <2> QED  BY <2>1, LinksKept
<1>6. ASSUME NEW l \in Links, LinkStep(l) PROVE CheckedFree'
  <2> SUFFICES ASSUME NEW k \in Links
               PROVE  /\ link'[k].pc # "idle" => LinkerOf[k] \in UserIds
                      /\ link'[k].pc = "checked" /\ OnlyLinkOfItsUser(k) =>
                             address'[LinkerOf[k]] = NoOne
    BY <1>6, LinkMoved DEF CheckedFree, OnlyLinkOfItsUser
  <2>1. /\ link[k].pc # "idle" => LinkerOf[k] \in UserIds
        /\ link[k].pc = "checked" /\ OnlyLinkOfItsUser(k) => address[LinkerOf[k]] = NoOne
    BY DEF CheckedFree
  <2>2. CASE k = l
    BY <1>6, <2>1, <2>2, LinkMoved
  <2>3. CASE k # l
    <3>1. link'[k] = link[k]
      BY <1>6, <2>3, LinkMoved
    <3>2. OnlyLinkOfItsUser(k) => LinkerOf[l] # LinkerOf[k]
      BY <2>3 DEF OnlyLinkOfItsUser
    <3> QED  BY <1>6, <2>1, <3>1, <3>2, LinkMoved
  <2> QED  BY <2>2, <2>3
<1> QED
  BY <1>1, <1>3, <1>4, <1>5, <1>6
  DEF Next, SessionStep, vars, FindNobody, FindInviter, LogIn, Refuse, Refer,
      Notify, ReferralLost, Answer, Fail

\* A wallet that is linked stays, when its user links from one client at a time:
\* no step of another user or of the other requests overwrites it, and the request
\* that does write has seen that the user has none (updateWalletAddress).
THEOREM LinkedWalletStays == Spec => LinkedStays
<1>1. Init => CheckedFree
  BY DEF Init, CheckedFree, NoLink
<1>2. TypeOK /\ CheckedFree /\ [Next]_vars => CheckedFree'
  BY CheckedFreeStep
<1>3. TypeOK /\ CheckedFree /\ [Next]_vars =>
        [\A i \in UserIds :
            GetWalletAddress(i) # NoOne /\ Cardinality({l \in Links : LinkerOf[l] = i}) = 1 =>
                GetWalletAddress(i)' = GetWalletAddress(i)]_vars
  <2> SUFFICES ASSUME TypeOK, CheckedFree, [Next]_vars, NEW i \in UserIds,
                      GetWalletAddress(i) # NoOne,
                      Cardinality({l \in Links : LinkerOf[l] = i}) = 1
               PROVE  GetWalletAddress(i)' = GetWalletAddress(i)
    OBVIOUS
  <2> DEFINE mine == {l \in Links : LinkerOf[l] = i}
  <2>1. \A k, l \in mine : k = l
    <3>1. IsFiniteSet(mine)
      BY LinksAssumption, FS_Subset
    <3>2. PICK k : mine = {k}
      BY <3>1, FS_Singleton
    <3> QED  BY <3>2
  <2>2. i \in UserIds' /\ address'[i] = address[i] => GetWalletAddress(i)' = GetWalletAddress(i)
    BY DEF GetWalletAddress
  <2>3. address[i] # NoOne
    BY DEF GetWalletAddress
  <2>4. CASE UNCHANGED <<users, address>>
    BY <2>2, <2>4 DEF UserIds
  <2>5. ASSUME NEW row \in User, users' = Append(users, row),
               address' = Extended(address, NoOne)
        PROVE  GetWalletAddress(i)' = GetWalletAddress(i)
    BY <2>2, <2>5, RowAdded, AddressExtended
  <2>6. ASSUME NEW s \in Sessions, CreateUser(s)
        PROVE  GetWalletAddress(i)' = GetWalletAddress(i)
    <3> DEFINE row == [email |-> IdentityOf[s].email, google |-> IdentityOf[s].google,
                       facebook |-> IdentityOf[s].facebook,
                       inviter |-> session[s].inviter, status |-> "PENDING"]
    <3>1. row \in User
      BY RowTypes DEF TypeOK, SessionState
    <3>2. users' = Append(users, row) /\ address' = Extended(address, NoOne)
      BY <2>6 DEF CreateUser
    <3> HIDE DEF row
    <3> QED  BY <2>5, <3>1, <3>2
  <2>7. ASSUME NEW e \in Emails, RegisterAdmin(e)
        PROVE  GetWalletAddress(i)' = GetWalletAddress(i)
    <3> DEFINE row == [email |-> e, google |-> NoOne, facebook |-> NoOne,
                       inviter |-> 0, status |-> "PENDING"]
    <3>1. row \in User
      BY RowTypes
    <3>2. users' = Append(users, row) /\ address' = Extended(address, NoOne)
      BY <2>7 DEF RegisterAdmin
    <3> HIDE DEF row
    <3> QED  BY <2>5, <3>1, <3>2
  <2>8. ASSUME NEW e \in Emails, VerifyEmail(e)
        PROVE  GetWalletAddress(i)' = GetWalletAddress(i)
    <3>1. UserIds' = UserIds /\ address' = address
      BY <2>8 DEF VerifyEmail, ByEmail, UserIds, TypeOK
    <3> QED  BY <2>2, <3>1
  <2>9. ASSUME NEW l \in Links, LinkStep(l)
        PROVE  GetWalletAddress(i)' = GetWalletAddress(i)
    <3>1. CASE LinkerOf[l] = i
      <4>1. OnlyLinkOfItsUser(l)
        BY <2>1, <3>1 DEF OnlyLinkOfItsUser
      <4>2. link[l].pc # "checked"
        BY <2>3, <3>1, <4>1 DEF CheckedFree
      <4> QED  BY <2>2, <2>9, <4>2, LinkMoved
    <3>2. CASE LinkerOf[l] # i
      BY <2>2, <2>9, <3>2, LinkMoved
    <3> QED  BY <3>1, <3>2
  <2> QED
    BY <2>4, <2>6, <2>7, <2>8, <2>9
    DEF Next, SessionStep, vars, FindNobody, FindInviter, LogIn, Refuse, Refer,
        Notify, ReferralLost, Answer, Fail
<1> QED
  BY <1>1, <1>2, <1>3, Inductive, PTL DEF Spec, LinkedStays

-----------------------------------------------------------------------------
(* Kyc *)

USE ActorsAssumption, BoundsAssumption

\* Sequences and the functions they are.
LEMMA SeqIsFunction ==
    ASSUME NEW T, NEW s \in Seq(T)
    PROVE  Len(s) \in Nat /\ s \in [1 .. Len(s) -> T]
OBVIOUS

LEMMA FunctionIsSeq ==
    ASSUME NEW T, NEW n \in Nat, NEW s \in [1 .. n -> T]
    PROVE  s \in Seq(T) /\ Len(s) = n
OBVIOUS

\* A set of rows is finite, and counts.
LEMMA RowsFinite ==
    ASSUME KycTypeOK, NEW S \in SUBSET Rows
    PROVE  IsFiniteSet(S) /\ Cardinality(S) \in Nat
<1>1. Len(kyc) \in Nat
  BY DEF KycTypeOK
<1>2. IsFiniteSet(Rows)
  BY <1>1, FS_Interval DEF Rows
<1> QED  BY <1>2, FS_Subset, FS_CardinalityType

\* Setting the status of rows revives failed rows of u, and makes no other live.
LEMMA RevivedCount ==
    ASSUME KycTypeOK, NEW rows, NEW st \in KycStatus, NEW u \in Users,
           kyc' = WithStatus(rows, st)
    PROVE  /\ Cardinality(RevivedBy(u, rows, st)) \in Nat
           /\ Cardinality(LiveRowsOf(u)') \in Nat
           /\ Cardinality(LiveRowsOf(u)')
                <= Cardinality(LiveRowsOf(u)) + Cardinality(RevivedBy(u, rows, st))
<1> DEFINE L == LiveRowsOf(u)
           R == RevivedBy(u, rows, st)
<1>1. L \in SUBSET Rows /\ R \in SUBSET Rows
  BY DEF LiveRowsOf, RevivedBy, RowsOf
<1>2. IsFiniteSet(L) /\ IsFiniteSet(R) /\ Cardinality(L) \in Nat /\ Cardinality(R) \in Nat
  BY <1>1, RowsFinite
<1>3. Rows' = Rows /\ \A i \in Rows : /\ kyc'[i].user = kyc[i].user
                                     /\ kyc'[i].status = IF i \in rows THEN st ELSE kyc[i].status
  <2>1. kyc' = [i \in 1 .. Len(kyc) |->
                  IF i \in rows THEN [kyc[i] EXCEPT !.status = st] ELSE kyc[i]]
    BY DEF WithStatus, Rows
  <2>2. Len(kyc) \in Nat /\ kyc \in [1 .. Len(kyc) -> KycRow]
    BY SeqIsFunction DEF KycTypeOK
  <2>3. Len(kyc') = Len(kyc)
    BY <2>1, <2>2
  <2> QED  BY <2>1, <2>2, <2>3 DEF Rows, KycRow
<1>4. L' \subseteq L \cup R
  BY <1>3 DEF LiveRowsOf, RevivedBy, RowsOf
<1>5. IsFiniteSet(L \cup R) /\ Cardinality(L \cup R) = Cardinality(L) + Cardinality(R) - Cardinality(L \cap R)
  BY <1>2, FS_Union
<1>6. Cardinality(L \cap R) \in Nat
  BY <1>1, RowsFinite
<1>7. IsFiniteSet(L') /\ Cardinality(L') <= Cardinality(L \cup R)
  BY <1>4, <1>5, FS_Subset
<1>8. Cardinality(L') \in Nat
  BY <1>7, FS_CardinalityType
<1> QED  BY <1>2, <1>5, <1>6, <1>7, <1>8

\* The rows a decision sets keep their type, and revive no more than the bound.
LEMMA WithStatusType ==
    ASSUME KycTypeOK, NEW rows, NEW st \in KycStatus, kyc' = WithStatus(rows, st),
           MayRevive(rows, st), CountRevived(rows, st)
    PROVE  /\ kyc' \in Seq(KycRow)
           /\ Len(kyc') = Len(kyc)
           /\ revived' \in [Users -> 0 .. MaxRevived]
<1>1. kyc' = [i \in 1 .. Len(kyc) |->
                IF i \in rows THEN [kyc[i] EXCEPT !.status = st] ELSE kyc[i]]
  BY DEF WithStatus, Rows
<1>2. Len(kyc) \in Nat /\ kyc \in [1 .. Len(kyc) -> KycRow]
  BY SeqIsFunction DEF KycTypeOK
<1>3. \A u \in Users : Cardinality(RevivedBy(u, rows, st)) \in Nat
  BY RevivedCount
<1>4. revived' \in [Users -> 0 .. MaxRevived]
  BY <1>3 DEF CountRevived, MayRevive, KycTypeOK
<1>5. kyc' \in [1 .. Len(kyc) -> KycRow]
  BY <1>1, <1>2 DEF KycRow
<1>6. kyc' \in Seq(KycRow) /\ Len(kyc') = Len(kyc)
  BY <1>2, <1>5, FunctionIsSeq
<1> QED  BY <1>4, <1>6

\* Types hold whatever uploads, decisions and reverts overlap (ImageService, and
\* the UserService of the admin application).
THEOREM KycTypeCorrect == KycSpec => []KycTypeOK
<1>1. KycInit => KycTypeOK
  BY DEF KycInit, KycTypeOK, NoUpload, Upload, NoDecision, Decision, KycStatus, Rows
<1>2. KycTypeOK /\ [KycNext]_kycVars => KycTypeOK'
  <2> SUFFICES ASSUME KycTypeOK, [KycNext]_kycVars PROVE KycTypeOK'
    OBVIOUS
  <2> USE DEF KycTypeOK
  <2>1. ASSUME NEW c \in Clients, UploadStep(c), ~CreateRow(c) PROVE KycTypeOK'
    <3>1. UNCHANGED <<kyc, stored, revived, decision>>
      BY <2>1 DEF UploadStep, UploadCheck, UploadFail, PutImage
    <3>2. upload' \in [Clients -> Upload]
      <4>1. NoUpload \in Upload
        BY DEF NoUpload, Upload
      <4>2. \A l \in Labels : [upload[c] EXCEPT !.put = @ \cup {l}] \in Upload
        BY DEF Upload
      <4>3. [upload[c] EXCEPT !.pc = "uploading"] \in Upload
        BY DEF Upload
      <4> QED  BY <2>1, <4>1, <4>2, <4>3 DEF UploadStep, UploadCheck, UploadFail, PutImage
    <3> QED  BY <3>1, <3>2 DEF Rows
  <2>2. ASSUME NEW c \in Clients, CreateRow(c) PROVE KycTypeOK'
    <3>1. kyc' \in Seq(KycRow) /\ Len(kyc') = Len(kyc) + 1
      BY <2>2 DEF CreateRow, KycStatus, KycRow
    <3>2. stored' \in [Rows' -> SUBSET Labels]
      <4>1. stored \in Seq(SUBSET Labels) /\ Len(stored) = Len(kyc)
        BY SeqIsFunction, FunctionIsSeq DEF Rows
      <4>2. upload[c].put \in SUBSET Labels
        BY DEF Upload
      <4>3. stored' \in Seq(SUBSET Labels) /\ Len(stored') = Len(kyc')
        BY <2>2, <3>1, <4>1, <4>2 DEF CreateRow
      <4> QED  BY <4>3, SeqIsFunction DEF Rows
    <3>3. upload' \in [Clients -> Upload]
      BY <2>2 DEF CreateRow, NoUpload, Upload
    <3>4. Len(kyc') <= MaxRows
      BY <2>2, <3>1 DEF CreateRow
    <3>5. UNCHANGED <<revived, decision>>
      BY <2>2 DEF CreateRow
    <3> QED  BY <3>1, <3>2, <3>3, <3>4, <3>5
  <2>3. ASSUME NEW a \in Admins, NEW us \in SUBSET Users, NEW st \in KycStatus,
               DecideRead(a, us, st)
        PROVE  KycTypeOK'
    <3> DEFINE rows == {i \in Rows : kyc[i].user \in us /\ kyc[i].status = "PENDING"}
    <3>1. [pc |-> "read", rows |-> rows, status |-> st] \in Decision
      BY DEF Decision, Rows
    <3> QED  BY <2>3, <3>1 DEF DecideRead, GetKycs, Rows
  <2>4. ASSUME NEW a \in Admins, DecideCommit(a) PROVE KycTypeOK'
    <3>1. decision[a].status \in KycStatus /\ NoDecision \in Decision
      BY DEF Decision, NoDecision, KycStatus
    <3>2. /\ kyc' \in Seq(KycRow)
          /\ Len(kyc') = Len(kyc)
          /\ revived' \in [Users -> 0 .. MaxRevived]
      BY <2>4, <3>1, WithStatusType DEF DecideCommit
    <3> QED  BY <2>4, <3>1, <3>2 DEF DecideCommit, Rows
  <2>5. ASSUME NEW a \in Admins, DecideFail(a) PROVE KycTypeOK'
    BY <2>5 DEF DecideFail, NoDecision, Decision, KycStatus, Rows
  <2>6. ASSUME NEW i \in Rows, RevertKycToPending(i) PROVE KycTypeOK'
    <3>1. "PENDING" \in KycStatus
      BY DEF KycStatus
    <3>2. /\ kyc' \in Seq(KycRow)
          /\ Len(kyc') = Len(kyc)
          /\ revived' \in [Users -> 0 .. MaxRevived]
      BY <2>6, <3>1, WithStatusType DEF RevertKycToPending
    <3> QED  BY <2>6, <3>2 DEF RevertKycToPending, Rows
  <2>7. CASE UNCHANGED kycVars  BY <2>7 DEF kycVars, Rows
  <2> QED  BY <2>1, <2>2, <2>3, <2>4, <2>5, <2>6, <2>7 DEF KycNext, UploadStep, DecideStep
<1> QED  BY <1>1, <1>2, PTL DEF KycSpec

-----------------------------------------------------------------------------
\* A set of rows that is not empty has a newest one.
LEMMA NewestExists ==
    ASSUME KycTypeOK, NEW S \in SUBSET Rows, S # {}
    PROVE  \E i \in S : \A j \in S : j <= i
<1> DEFINE n == Len(kyc)
           T == {n - i : i \in S}
<1>1. n \in Nat
  BY DEF KycTypeOK
<1>2. S \subseteq 1 .. n
  BY DEF Rows
<1> HIDE DEF n
<1>3. T \in SUBSET Nat /\ T # {}
  <2>1. \A i \in S : i \in Int /\ n - i \in Nat
    BY <1>1, <1>2
  <2>2. T \subseteq Nat
    BY <2>1
  <2>3. PICK i \in S : TRUE
    OBVIOUS
  <2>4. n - i \in T
    BY <2>3
  <2> QED  BY <2>2, <2>4
<1> DEFINE Less == {ss \in Nat \X Nat : ss[1] < ss[2]}
<1>4. IsWellFoundedOn(Less, Nat)
  BY NatLessThanWellFounded DEF OpToRel
<1> HIDE DEF Less, T
<1>5. \E x \in T : \A y \in T : ~ (<<y, x>> \in Less)
  BY <1>3, <1>4, WFMin
<1>6. PICK x \in T : \A y \in T : ~ (<<y, x>> \in Less)
  BY <1>5
<1>7. \A y \in T : x <= y
  <2> SUFFICES ASSUME NEW y \in T PROVE x <= y
    OBVIOUS
  <2>1. x \in Nat /\ y \in Nat /\ ~ (<<y, x>> \in Less)
    BY <1>3, <1>6
  <2> QED  BY <2>1 DEF Less
<1>8. PICK i \in S : x = n - i
  BY DEF T
<1>9. \A j \in S : j <= i
  <2> SUFFICES ASSUME NEW j \in S PROVE j <= i
    OBVIOUS
  <2>1. n - i <= n - j
    BY <1>7, <1>8 DEF T
  <2> QED  BY <2>1, <1>1, <1>2
<1> QED  BY <1>9

\* Whatever a user is shown is one of his rows, a live one if he has any.
LEMMA ShownRowIsOwn ==
    ASSUME KycTypeOK, NEW u \in Users
    PROVE  /\ ShownRow(u) \subseteq RowsOf(u)
           /\ MayUpload(u) <=> \A i \in ShownRow(u) : kyc[i].status = "FAILED"
<1>1. CASE LiveRowsOf(u) = {}
  BY <1>1 DEF ShownRow, LiveRowsOf, MayUpload
<1>2. CASE LiveRowsOf(u) # {}
  <2>1. LiveRowsOf(u) \in SUBSET Rows
    BY DEF LiveRowsOf, RowsOf
  <2>2. \E i \in LiveRowsOf(u) : \A j \in LiveRowsOf(u) : j <= i
    BY <1>2, <2>1, NewestExists
  <2> QED  BY <1>2, <2>2 DEF ShownRow, LiveRowsOf, MayUpload
<1> QED  BY <1>1, <1>2

\* A row is created with its three images, and nothing takes them away
\* (uploadKycImages, uploadMultiple).
THEOREM ImagesComplete == KycSpec => []RowsComplete
<1>1. KycInit => RowsComplete
  BY DEF KycInit, RowsComplete, Rows
<1>2. RowsComplete /\ KycTypeOK /\ [KycNext]_kycVars => RowsComplete'
  <2> SUFFICES ASSUME RowsComplete, KycTypeOK, [KycNext]_kycVars PROVE RowsComplete'
    OBVIOUS
  <2>1. ASSUME UNCHANGED stored, Len(kyc') = Len(kyc) PROVE RowsComplete'
    BY <2>1 DEF RowsComplete, Rows
  <2>2. ASSUME NEW c \in Clients, CreateRow(c) PROVE RowsComplete'
    <3>1. stored \in Seq(SUBSET Labels) /\ Len(stored) = Len(kyc) /\ Len(kyc) \in Nat
      BY SeqIsFunction, FunctionIsSeq DEF KycTypeOK, Rows
    <3>2. upload[c].put = Labels
      BY <2>2 DEF CreateRow, AllUploaded
    <3>3. Len(kyc') = Len(kyc) + 1
      BY <2>2 DEF CreateRow, KycTypeOK
    <3>4. \A i \in 1 .. Len(kyc) + 1 : stored'[i] = IF i = Len(kyc) + 1 THEN Labels ELSE stored[i]
      BY <2>2, <3>1, <3>2 DEF CreateRow
    <3> QED  BY <3>1, <3>3, <3>4 DEF RowsComplete, Rows
  <2>3. ASSUME NEW c \in Clients, UploadStep(c), ~CreateRow(c) PROVE RowsComplete'
    BY <2>1, <2>3 DEF UploadStep, UploadCheck, UploadFail, PutImage
  <2>4. ASSUME NEW a \in Admins, DecideStep(a) PROVE RowsComplete'
    <3>1. CASE DecideCommit(a)
      <4>1. Len(kyc') = Len(kyc)
        BY <3>1, WithStatusType DEF DecideCommit, KycTypeOK, Decision
      <4> QED  BY <2>1, <3>1, <4>1 DEF DecideCommit
    <3>2. CASE ~DecideCommit(a)
      BY <2>1, <2>4, <3>2 DEF DecideStep, DecideRead, GetKycs, DecideFail
    <3> QED  BY <3>1, <3>2
  <2>5. ASSUME NEW i \in Rows, RevertKycToPending(i) PROVE RowsComplete'
    <3>1. Len(kyc') = Len(kyc)
      BY <2>5, WithStatusType DEF RevertKycToPending, KycStatus
    <3> QED  BY <2>1, <2>5, <3>1 DEF RevertKycToPending
  <2>6. CASE UNCHANGED kycVars  BY <2>1, <2>6 DEF kycVars
  <2> QED  BY <2>2, <2>3, <2>4, <2>5, <2>6 DEF KycNext
<1> QED  BY <1>1, <1>2, KycTypeCorrect, PTL DEF KycSpec

\* What a user is shown of his verification is complete, and tells him whether he
\* may upload (getKycImages and uploadKycImages).
THEOREM ShownDecides == KycSpec => []ShownKycDecides
<1>1. KycTypeOK /\ RowsComplete => ShownKycDecides
  BY ShownRowIsOwn DEF ShownKycDecides, RowsComplete, RowsOf
<1> QED  BY <1>1, KycTypeCorrect, ImagesComplete, PTL

-----------------------------------------------------------------------------
\* The clients of a user, those that upload, and his live rows are finitely many.
LEMMA CountsNat ==
    ASSUME KycTypeOK, NEW u \in Users
    PROVE  /\ IsFiniteSet(Uploading(u)) /\ Cardinality(Uploading(u)) \in Nat
           /\ IsFiniteSet(LiveRowsOf(u)) /\ Cardinality(LiveRowsOf(u)) \in Nat
           /\ Cardinality({c \in Clients : UploaderOf[c] = u}) \in Nat
           /\ Cardinality(Uploading(u)) <= Cardinality({c \in Clients : UploaderOf[c] = u})
<1> DEFINE C == {c \in Clients : UploaderOf[c] = u}
<1>1. IsFiniteSet(C) /\ Cardinality(C) \in Nat
  BY FS_Subset, FS_CardinalityType
<1>2. Uploading(u) \in SUBSET C
  BY DEF Uploading
<1>3. IsFiniteSet(Uploading(u)) /\ Cardinality(Uploading(u)) <= Cardinality(C)
  BY <1>1, <1>2, FS_Subset
<1>4. Cardinality(Uploading(u)) \in Nat
  BY <1>3, FS_CardinalityType
<1>5. LiveRowsOf(u) \in SUBSET Rows
  BY DEF LiveRowsOf, RowsOf
<1> QED  BY <1>1, <1>3, <1>4, <1>5, RowsFinite

\* A decision adds to the live rows what it adds to those revived.
LEMMA DecisionKeepsRoom ==
    ASSUME KycTypeOK, RoomForUploads, NEW rows, NEW st \in KycStatus,
           kyc' = WithStatus(rows, st), CountRevived(rows, st), UNCHANGED upload
    PROVE  RoomForUploads'
<1> SUFFICES ASSUME NEW u \in Users
             PROVE  Cardinality(LiveRowsOf(u)') + Cardinality(Uploading(u)')
                      <= Cardinality({c \in Clients : UploaderOf[c] = u}) + revived'[u]
  BY DEF RoomForUploads
<1>1. Uploading(u)' = Uploading(u)
  BY DEF Uploading
<1>2. revived'[u] = revived[u] + Cardinality(RevivedBy(u, rows, st)) /\ revived[u] \in Nat
  BY DEF CountRevived, KycTypeOK
<1>3. Cardinality(LiveRowsOf(u)) + Cardinality(Uploading(u))
        <= Cardinality({c \in Clients : UploaderOf[c] = u}) + revived[u]
  BY DEF RoomForUploads
<1> QED  BY <1>1, <1>2, <1>3, RevivedCount, CountsNat

\* A user has at most one live verification per client, but for those an admin made
\* live again (uploadKycImages, updatePendingKyc and revertKycToPending).
THEOREM LiveRowsBounded == KycSpec => []FewLiveRows
<1>1. KycInit => RoomForUploads
  <2> SUFFICES ASSUME KycInit, NEW u \in Users
               PROVE  Cardinality(LiveRowsOf(u)) + Cardinality(Uploading(u))
                        <= Cardinality({c \in Clients : UploaderOf[c] = u}) + revived[u]
    BY DEF RoomForUploads
  <2>1. LiveRowsOf(u) = {} /\ Uploading(u) = {} /\ revived[u] = 0
    BY DEF KycInit, LiveRowsOf, RowsOf, Rows, Uploading, NoUpload
  <2>2. Cardinality({c \in Clients : UploaderOf[c] = u}) \in Nat
    BY FS_Subset, FS_CardinalityType
  <2> QED  BY <2>1, <2>2, FS_EmptySet
<1>2. RoomForUploads /\ KycTypeOK /\ [KycNext]_kycVars => RoomForUploads'
  <2> SUFFICES ASSUME RoomForUploads, KycTypeOK, [KycNext]_kycVars PROVE RoomForUploads'
    OBVIOUS
  <2>1. ASSUME UNCHANGED <<kyc, revived>>, \A u \in Users : Uploading(u)' = Uploading(u)
        PROVE  RoomForUploads'
    BY <2>1 DEF RoomForUploads, LiveRowsOf, RowsOf, Rows
  <2>2. ASSUME NEW c \in Clients, UploadCheck(c) PROVE RoomForUploads'
    <3> SUFFICES ASSUME NEW u \in Users
                 PROVE  Cardinality(LiveRowsOf(u)') + Cardinality(Uploading(u)')
                          <= Cardinality({d \in Clients : UploaderOf[d] = u}) + revived'[u]
      BY DEF RoomForUploads
    <3>1. LiveRowsOf(u)' = LiveRowsOf(u) /\ revived' = revived
      BY <2>2 DEF UploadCheck, LiveRowsOf, RowsOf, Rows
    <3>2. CASE u = UploaderOf[c]
      <4>1. Cardinality(LiveRowsOf(u)) = 0
        BY <2>2, <3>2, FS_EmptySet DEF UploadCheck, MayUpload
      <4>2. Uploading(u)' \in SUBSET {d \in Clients : UploaderOf[d] = u}
        BY DEF Uploading
      <4>3. IsFiniteSet({d \in Clients : UploaderOf[d] = u})
        BY FS_Subset
      <4>4. /\ IsFiniteSet(Uploading(u)')
            /\ Cardinality(Uploading(u)') <= Cardinality({d \in Clients : UploaderOf[d] = u})
        BY <4>2, <4>3, FS_Subset
      <4>5. Cardinality(Uploading(u)') \in Nat /\ revived[u] \in Nat
        BY <4>4, FS_CardinalityType DEF KycTypeOK
      <4>6. Cardinality({d \in Clients : UploaderOf[d] = u}) \in Nat
        BY CountsNat
      <4> QED  BY <3>1, <4>1, <4>4, <4>5, <4>6
    <3>3. CASE u # UploaderOf[c]
      <4>1. Uploading(u)' = Uploading(u)
        BY <2>2, <3>3 DEF UploadCheck, Uploading, KycTypeOK
      <4> QED  BY <3>1, <4>1 DEF RoomForUploads
    <3> QED  BY <3>2, <3>3
  <2>3. ASSUME NEW c \in Clients, NEW l \in Labels, PutImage(c, l) PROVE RoomForUploads'
    <3>1. \A u \in Users : Uploading(u)' = Uploading(u)
      BY <2>3 DEF PutImage, Uploading, KycTypeOK, Upload
    <3> QED  BY <2>1, <2>3, <3>1 DEF PutImage
  <2>4. ASSUME NEW c \in Clients, CreateRow(c) \/ UploadFail(c) PROVE RoomForUploads'
    <3> SUFFICES ASSUME NEW u \in Users
                 PROVE  Cardinality(LiveRowsOf(u)') + Cardinality(Uploading(u)')
                          <= Cardinality({d \in Clients : UploaderOf[d] = u}) + revived'[u]
      BY DEF RoomForUploads
    <3>1. Uploading(u)' = Uploading(u) \ {c}
      BY <2>4 DEF CreateRow, UploadFail, Uploading, NoUpload, KycTypeOK
    <3> DEFINE L == LiveRowsOf(u)
               U == Uploading(u)
    <3>2. IsFiniteSet(U) /\ Cardinality(U) \in Nat /\ IsFiniteSet(L) /\ Cardinality(L) \in Nat
      BY CountsNat
    <3>3. Cardinality({d \in Clients : UploaderOf[d] = u}) \in Nat
      BY CountsNat
    <3> HIDE DEF L, U
    <3>4. Cardinality(U \ {c}) = IF c \in U THEN Cardinality(U) - 1 ELSE Cardinality(U)
      BY <3>2, FS_RemoveElement
    <3>5. Cardinality(U') = IF c \in U THEN Cardinality(U) - 1 ELSE Cardinality(U)
      BY <3>1, <3>4 DEF U
    <3>6. CASE UploadFail(c)
      <4>1. LiveRowsOf(u)' = LiveRowsOf(u) /\ revived' = revived
        BY <3>6 DEF UploadFail, LiveRowsOf, RowsOf, Rows
      <4>2. Cardinality(LiveRowsOf(u)) + Cardinality(Uploading(u))
              <= Cardinality({d \in Clients : UploaderOf[d] = u}) + revived[u]
        BY DEF RoomForUploads
      <4>3. revived[u] \in Nat
        BY DEF KycTypeOK
      <4> QED  BY <3>5, <3>2, <3>3, <4>1, <4>2, <4>3 DEF L, U
    <3>7. CASE CreateRow(c)
      <4> DEFINE n == Len(kyc)
      <4>1. n \in Nat /\ kyc \in [1 .. n -> KycRow]
        BY SeqIsFunction DEF KycTypeOK
      <4>2. /\ Len(kyc') = n + 1
            /\ \A i \in 1 .. n : kyc'[i] = kyc[i]
            /\ kyc'[n + 1] = [user |-> UploaderOf[c], status |-> "PENDING"]
        BY <3>7 DEF CreateRow, KycTypeOK
      <4>3. LiveRowsOf(u)' = LiveRowsOf(u) \cup (IF UploaderOf[c] = u THEN {n + 1} ELSE {})
        BY <4>1, <4>2 DEF LiveRowsOf, RowsOf, Rows
      <4>4. UploaderOf[c] = u <=> c \in Uploading(u)
        BY <3>7 DEF CreateRow, Uploading
      <4>5. Cardinality(L) + Cardinality(U)
              <= Cardinality({d \in Clients : UploaderOf[d] = u}) + revived[u]
        BY DEF RoomForUploads, L, U
      <4>6. revived' = revived /\ revived[u] \in Nat
        BY <3>7 DEF CreateRow, KycTypeOK
      <4>7. CASE UploaderOf[c] = u
        <5>1. L' = L \cup {n + 1} /\ c \in U
          BY <4>3, <4>4, <4>7 DEF L, U
        <5>2. Cardinality(L \cup {n + 1}) =
                IF n + 1 \in L THEN Cardinality(L) ELSE Cardinality(L) + 1
          BY <3>2, FS_AddElement
        <5> QED  BY <3>5, <3>2, <3>3, <4>5, <4>6, <5>1, <5>2 DEF L, U
      <4>8. CASE UploaderOf[c] # u
        <5>1. L' = L /\ c \notin U
          BY <4>3, <4>4, <4>8 DEF L, U
        <5> QED  BY <3>5, <3>2, <3>3, <4>5, <4>6, <5>1 DEF L, U
      <4> QED  BY <4>7, <4>8
    <3> QED  BY <2>4, <3>6, <3>7
  <2>5. ASSUME NEW a \in Admins, DecideStep(a) PROVE RoomForUploads'
    <3>1. CASE DecideCommit(a)
      <4>1. decision[a].status \in KycStatus
        BY DEF KycTypeOK, Decision
      <4> QED  BY <3>1, <4>1, DecisionKeepsRoom DEF DecideCommit
    <3>2. CASE ~DecideCommit(a)
      <4>1. UNCHANGED <<kyc, revived, upload>>
        BY <2>5, <3>2 DEF DecideStep, DecideRead, GetKycs, DecideFail
      <4> QED  BY <2>1, <4>1 DEF Uploading
    <3> QED  BY <3>1, <3>2
  <2>6. ASSUME NEW i \in Rows, RevertKycToPending(i) PROVE RoomForUploads'
    BY <2>6, DecisionKeepsRoom DEF RevertKycToPending, KycStatus
  <2>7. CASE UNCHANGED kycVars
    BY <2>1, <2>7 DEF kycVars, Uploading
  <2> QED  BY <2>2, <2>3, <2>4, <2>5, <2>6, <2>7 DEF KycNext, UploadStep
<1>3. KycTypeOK /\ RoomForUploads => FewLiveRows
  <2> SUFFICES ASSUME KycTypeOK, RoomForUploads, NEW u \in Users
               PROVE  Cardinality(LiveRowsOf(u))
                        <= Cardinality({c \in Clients : UploaderOf[c] = u}) + revived[u]
    BY DEF FewLiveRows
  <2>1. revived[u] \in Nat
    BY DEF KycTypeOK
  <2> QED  BY <2>1, CountsNat DEF RoomForUploads
<1> QED  BY <1>1, <1>2, <1>3, KycTypeCorrect, PTL DEF KycSpec
=============================================================================
