--------------------------- MODULE WalletLedgerProofs ---------------------------
(***************************************************************************)
(* What WalletLedger guarantees for any number of users and of requests in *)
(* flight: no balance that was not credited, and is_claim set exactly for  *)
(* the referrals whose reward was paid.                                    *)
(***************************************************************************)
EXTENDS WalletHistory, Sums

\* A step of a withdrawal that only moves its program counter.
LEMMA GotoKeeps ==
    ASSUME LedgerInv, NEW w \in Withdrawals, NEW pc, Goto(w, pc),
           pc \in {"verified", "funded", "debited", "sent", "failed", "lost", "unlogged", "done"}
    PROVE  /\ wd' \in [Withdrawals -> Withdrawal]
           /\ \A v \in Withdrawals : /\ wd'[v].amount = wd[v].amount
                                     /\ wd'[v].balance = wd[v].balance
                                     /\ v # w => wd'[v] = wd[v]
           /\ wd'[w].pc = pc
BY DEF Goto, LedgerInv, TypeOK, Withdrawal

\* Where a step leaves a withdrawal, and that it leaves the others alone.
LEMMA WithdrawMoves ==
    ASSUME LedgerInv, NEW w \in Withdrawals, WithdrawStep(w)
    PROVE  /\ \A v \in Withdrawals \ {w} : wd'[v] = wd[v]
           /\ wd[w].pc # "idle" => wd'[w].amount = wd[w].amount /\ wd'[w].otp = wd[w].otp
           /\ wd[w].pc # "idle" /\ wd[w].pc # "verified" => wd'[w].balance = wd[w].balance
<1>1. ASSUME NEW a \in Amounts, WithdrawGetOtp(w, a) PROVE
          wd[w].pc = "idle" /\ \A v \in Withdrawals \ {w} : wd'[v] = wd[v]
  BY <1>1 DEF WithdrawGetOtp, LedgerInv, TypeOK
<1>2. ASSUME NEW pc, Goto(w, pc) PROVE
          /\ \A v \in Withdrawals \ {w} : wd'[v] = wd[v]
          /\ wd'[w].amount = wd[w].amount /\ wd'[w].otp = wd[w].otp
          /\ wd'[w].balance = wd[w].balance
  BY <1>2 DEF Goto, LedgerInv, TypeOK, Withdrawal
<1>3. CASE WithdrawReadWallet(w)
  <2>1. wd[w].pc = "verified"
    BY <1>3 DEF WithdrawReadWallet
  <2>2. CASE Goto(w, "failed")
    BY <1>2, <2>2
  <2>3. CASE wd' = [wd EXCEPT ![w].pc = "checked", ![w].balance = wallet[WUser[w]]]
    BY <2>1, <2>3 DEF LedgerInv, TypeOK, Withdrawal
  <2> QED  BY <1>3, <2>2, <2>3 DEF WithdrawReadWallet
<1>4. CASE \E pc : Goto(w, pc)
  BY <1>2, <1>4
<1>5. WithdrawDelOtp(w) \/ WithdrawCheckPool(w) \/ WithdrawDebit(w) \/ WithdrawTransfer(w)
        \/ WithdrawAnswerLost(w) \/ WithdrawRefused(w) \/ WithdrawLog(w) \/ WithdrawFail(w)
      => \E pc : Goto(w, pc)
  BY DEF WithdrawDelOtp, WithdrawCheckPool, WithdrawDebit, WithdrawTransfer,
         WithdrawAnswerLost, WithdrawRefused, WithdrawLog, WithdrawFail
<1> QED  BY <1>1, <1>3, <1>4, <1>5 DEF WithdrawStep

\* The new place of a withdrawal, by what it does.
LEMMA WithdrawPlaces ==
    ASSUME LedgerInv, NEW w \in Withdrawals
    PROVE  /\ \A a \in Amounts : WithdrawGetOtp(w, a) =>
                wd[w].pc = "idle" /\ wd'[w].pc = "otp" /\ wd'[w].otp = otp[WUser[w]]
           /\ WithdrawDelOtp(w) => wd[w].pc = "otp" /\ wd'[w].pc \in {"verified", "failed"}
           /\ WithdrawReadWallet(w) =>
                wd[w].pc = "verified" /\ wd'[w].pc \in {"checked", "failed"}
           /\ WithdrawCheckPool(w) => wd[w].pc = "checked" /\ wd'[w].pc \in {"funded", "failed"}
           /\ WithdrawDebit(w) => wd[w].pc = "funded" /\ wd'[w].pc = "debited"
           /\ WithdrawTransfer(w) => wd[w].pc = "debited" /\ wd'[w].pc = "sent"
           /\ WithdrawAnswerLost(w) => wd[w].pc = "debited" /\ wd'[w].pc = "unlogged"
           /\ WithdrawRefused(w) => wd[w].pc = "debited" /\ wd'[w].pc = "lost"
           /\ WithdrawLog(w) => wd[w].pc = "sent" /\ wd'[w].pc = "done"
           /\ WithdrawFail(w) =>
                \/ wd[w].pc = "debited" /\ wd'[w].pc = "lost"
                \/ wd[w].pc = "sent" /\ wd'[w].pc = "unlogged"
                \/ /\ wd[w].pc \in {"otp", "verified", "checked", "funded"}
                   /\ wd'[w].pc = "failed"
<1>1. \A pc : Goto(w, pc) => wd'[w].pc = pc
  BY DEF Goto, LedgerInv, TypeOK, Withdrawal
<1>2. ASSUME NEW a \in Amounts, WithdrawGetOtp(w, a)
      PROVE  wd[w].pc = "idle" /\ wd'[w].pc = "otp" /\ wd'[w].otp = otp[WUser[w]]
  BY <1>2 DEF WithdrawGetOtp, LedgerInv, TypeOK
<1>3. WithdrawReadWallet(w) => wd[w].pc = "verified" /\ wd'[w].pc \in {"checked", "failed"}
  <2>1. wd' = [wd EXCEPT ![w].pc = "checked", ![w].balance = wallet[WUser[w]]]
        => wd'[w].pc = "checked"
    BY DEF LedgerInv, TypeOK, Withdrawal
  <2> QED  BY <1>1, <2>1 DEF WithdrawReadWallet
<1>4. WithdrawFail(w) => \/ wd[w].pc = "debited" /\ wd'[w].pc = "lost"
                         \/ wd[w].pc = "sent" /\ wd'[w].pc = "unlogged"
                         \/ /\ wd[w].pc \in {"otp", "verified", "checked", "funded"}
                            /\ wd'[w].pc = "failed"
  BY <1>1 DEF WithdrawFail, WithdrawalsInFlight
<1>5. WithdrawCheckPool(w) => wd[w].pc = "checked" /\ wd'[w].pc \in {"funded", "failed"}
  BY <1>1 DEF WithdrawCheckPool
<1> QED
  BY <1>1, <1>2, <1>3, <1>4, <1>5
  DEF WithdrawDelOtp, WithdrawDebit, WithdrawTransfer, WithdrawAnswerLost, WithdrawRefused,
      WithdrawLog

\* What negative amounts have added, as withdrawals move.
LEMMA RaisedType ==
    ASSUME TypeOK
    PROVE  /\ \A w \in Withdrawals : \A u : RaisedBy(w, u) \in Nat
           /\ \A u : Raised(u) \in Nat
           /\ \A u \in Users : Backing(u) \in Nat
<1>1. ASSUME NEW w \in Withdrawals, NEW u PROVE RaisedBy(w, u) \in Nat
  <2>1. wd[w].amount \in Int
    BY DEF TypeOK, Withdrawal
  <2> QED  BY <2>1 DEF RaisedBy
<1>2. ASSUME NEW u PROVE Raised(u) \in Nat
  <2> DEFINE raises == [w \in Withdrawals |-> RaisedBy(w, u)]
  <2>1. \A w \in Withdrawals : raises[w] \in Nat
    BY <1>1
  <2>2. Raised(u) = SumFunctionOnSet(raises, Withdrawals)
    BY DEF Raised
  <2> HIDE DEF raises
  <2> QED  BY <2>1, <2>2, SumNat, RequestsAssumption
<1>3. \A u \in Users : Backing(u) \in Nat
  BY <1>2 DEF Backing, TypeOK
<1> QED  BY <1>1, <1>2, <1>3

\* The same of the next state.
LEMMA RaisedTypeNext == ASSUME TypeOK' PROVE \A u \in Users : Backing(u)' \in Nat
<1>1. ASSUME NEW u PROVE Raised(u)' \in Nat
  <2> DEFINE raises == [w \in Withdrawals |-> RaisedBy(w, u)']
  <2>1. \A w \in Withdrawals : raises[w] \in Nat
    BY DEF TypeOK, Withdrawal, RaisedBy
  <2>2. Raised(u)' = SumFunctionOnSet(raises, Withdrawals)
    BY DEF Raised
  <2> HIDE DEF raises
  <2> QED  BY <2>1, <2>2, SumNat, RequestsAssumption
<1> QED  BY <1>1 DEF Backing, TypeOK

LEMMA RaisedSame == wd' = wd => \A u : Raised(u)' = Raised(u)
BY DEF Raised, RaisedBy

\* A step of one withdrawal changes the sum by what it does to that one.
LEMMA RaisedChange ==
    ASSUME TypeOK, wd' \in [Withdrawals -> Withdrawal], NEW w \in Withdrawals,
           \A v \in Withdrawals \ {w} : wd'[v] = wd[v]
    PROVE  \A u : Raised(u)' = Raised(u) + (RaisedBy(w, u)' - RaisedBy(w, u))
<1> SUFFICES ASSUME NEW u
             PROVE  Raised(u)' = Raised(u) + (RaisedBy(w, u)' - RaisedBy(w, u))
  OBVIOUS
<1> DEFINE before == [v \in Withdrawals |-> RaisedBy(v, u)]
           after == [v \in Withdrawals |-> RaisedBy(v, u)']
<1>1. \A v \in Withdrawals : before[v] \in Nat
  BY RaisedType
<1>2. after[w] \in Int
  BY DEF Withdrawal, RaisedBy
<1>3. \A v \in Withdrawals \ {w} : after[v] = before[v]
  BY DEF RaisedBy
<1>4. /\ Raised(u) = SumFunctionOnSet(before, Withdrawals)
      /\ Raised(u)' = SumFunctionOnSet(after, Withdrawals)
      /\ before[w] = RaisedBy(w, u) /\ after[w] = RaisedBy(w, u)'
  BY DEF Raised
<1> HIDE DEF before, after
<1> QED  BY <1>1, <1>2, <1>3, <1>4, SumChange, RequestsAssumption

\* No step takes backing away: a withdrawal that was debited stays so.
LEMMA RaisedGrows ==
    ASSUME LedgerInv, NEW w \in Withdrawals, WithdrawStep(w),
           wd' \in [Withdrawals -> Withdrawal]
    PROVE  \A u : Raised(u)' >= Raised(u)
<1> SUFFICES ASSUME NEW u PROVE Raised(u)' >= Raised(u)
  OBVIOUS
<1>1. Raised(u)' = Raised(u) + (RaisedBy(w, u)' - RaisedBy(w, u))
  BY WithdrawMoves, RaisedChange DEF LedgerInv
<1>2. Raised(u) \in Nat /\ RaisedBy(w, u) \in Nat
  BY RaisedType DEF LedgerInv
<1>3. RaisedBy(w, u)' \in Nat
  BY DEF Withdrawal, RaisedBy
<1> DEFINE pcs == {"debited", "sent", "lost", "unlogged", "done"}
<1>4. wd[w].pc \in pcs => wd'[w].pc \in pcs /\ wd'[w].amount = wd[w].amount
  BY WithdrawPlaces, WithdrawMoves DEF WithdrawStep
<1>5. RaisedBy(w, u)' >= RaisedBy(w, u)
  <2>1. CASE wd[w].pc \in pcs
    <3>1. RaisedBy(w, u)' = RaisedBy(w, u)
      BY <1>4, <2>1 DEF RaisedBy
    <3> QED  BY <1>2, <3>1
  <2>2. CASE wd[w].pc \notin pcs
    <3>1. RaisedBy(w, u) = 0
      BY <2>2 DEF RaisedBy
    <3> QED  BY <1>3, <3>1
  <2> QED  BY <2>1, <2>2
<1> QED  BY <1>1, <1>2, <1>3, <1>5

\* Balances and reads that do not change stay backed.
LEMMA BackedStays ==
    ASSUME LedgerInv, TypeOK', wallet' = wallet, rc' = rc,
           \A w \in Withdrawals : wd'[w].balance = wd[w].balance,
           \A u \in Users : Backing(u)' >= Backing(u)
    PROVE  ReadsBacked' /\ WalletBacked'
<1>1. \A u \in Users : /\ Backing(u) \in Nat /\ Backing(u)' \in Int
                       /\ Backing(u)' >= Backing(u) /\ wallet[u] \in Nat
  <2>1. \A u \in Users : Backing(u) \in Nat
    BY RaisedType DEF LedgerInv
  <2>2. \A u \in Users : Backing(u)' \in Nat
    BY RaisedTypeNext
  <2> QED  BY <2>1, <2>2 DEF LedgerInv, TypeOK
<1>2. \A w \in Withdrawals : WUser[w] \in Users /\ wd[w].balance \in Nat
  BY RequestsAssumption DEF LedgerInv, TypeOK, Withdrawal
<1>3. \A r \in RefClaims : Inviter[RInvitee[r]] \in Users /\ rc[r].balance \in Nat
  BY RequestsAssumption DEF LedgerInv, TypeOK, RefClaim
<1>4. ReadsBacked'
  <2>1. ASSUME NEW w \in Withdrawals PROVE wd'[w].balance <= Backing(WUser[w])'
    BY <1>1, <1>2 DEF LedgerInv, ReadsBacked
  <2>2. ASSUME NEW r \in RefClaims PROVE rc'[r].balance <= Backing(Inviter[RInvitee[r]])'
    BY <1>1, <1>3 DEF LedgerInv, ReadsBacked
  <2> QED  BY <2>1, <2>2 DEF ReadsBacked
<1>5. WalletBacked'
  BY <1>1 DEF LedgerInv, WalletBacked
<1> QED  BY <1>4, <1>5

\* What a withdrawal does keeps the invariant.
LEMMA WithdrawKeeps ==
    ASSUME LedgerInv, NEW w \in Withdrawals, WithdrawStep(w)
    PROVE  LedgerInv'
<1> USE DEF LedgerInv
<1>0. /\ \A v \in Withdrawals : WUser[v] \in Users /\ wd[v] \in Withdrawal
      /\ \A v \in Withdrawals : wd[v].amount \in Int /\ wd[v].balance \in Nat
  BY RequestsAssumption DEF TypeOK, Withdrawal
<1>1. \A u \in Users : Backing(u) \in Nat /\ credited[u] \in Nat /\ Raised(u) \in Nat
  BY RaisedType DEF TypeOK
<1>2. credited' = credited
  BY DEF WithdrawStep, WithdrawGetOtp, WithdrawDelOtp, WithdrawReadWallet, WithdrawCheckPool,
         WithdrawDebit, WithdrawTransfer, WithdrawAnswerLost, WithdrawRefused, WithdrawLog,
         WithdrawFail
<1>3. ASSUME wd' \in [Withdrawals -> Withdrawal]
      PROVE  \A u \in Users : /\ Backing(u)' >= Backing(u) /\ Backing(u)' \in Nat
                              /\ Raised(u)' \in Int
                              /\ Backing(u)' = credited[u] + Raised(u)'
  <2> SUFFICES ASSUME NEW u \in Users
               PROVE  /\ Backing(u)' >= Backing(u) /\ Backing(u)' \in Nat
                      /\ Raised(u)' \in Int /\ Backing(u)' = credited[u] + Raised(u)'
    OBVIOUS
  <2>1. Raised(u)' >= Raised(u)
    BY <1>3, RaisedGrows
  <2>2. Raised(u)' = Raised(u) + (RaisedBy(w, u)' - RaisedBy(w, u))
    BY <1>3, WithdrawMoves, RaisedChange
  <2>3. RaisedBy(w, u)' \in Int /\ RaisedBy(w, u) \in Int
    BY <1>0, <1>3 DEF Withdrawal, RaisedBy
  <2>4. Raised(u)' \in Int
    BY <1>1, <2>2, <2>3
  <2>5. Backing(u)' = credited[u] + Raised(u)'
    BY <1>2 DEF Backing
  <2>6. Backing(u) = credited[u] + Raised(u)
    BY DEF Backing
  <2> QED  BY <1>1, <2>1, <2>4, <2>5, <2>6
<1>4. ASSUME NEW a \in Amounts, WithdrawGetOtp(w, a) PROVE LedgerInv'
  <2>1. a \in Int /\ otp[WUser[w]] \in Nat
    BY <1>0, RequestsAssumption DEF TypeOK
  <2>2. wd' \in [Withdrawals -> Withdrawal]
    BY <1>4, <2>1 DEF WithdrawGetOtp, TypeOK, Withdrawal
  <2>3. TypeOK'
    BY <1>4, <2>2 DEF WithdrawGetOtp, TypeOK
  <2>4. Covered'
    BY <1>4 DEF WithdrawGetOtp, Covered, TypeOK
  <2>5. \A v \in Withdrawals : wd'[v].balance <= Backing(WUser[v])'
    <3> SUFFICES ASSUME NEW v \in Withdrawals PROVE wd'[v].balance <= Backing(WUser[v])'
      OBVIOUS
    <3>1. wd'[v].balance = wd[v].balance \/ wd'[v].balance = 0
      BY <1>4 DEF WithdrawGetOtp, TypeOK
    <3>2. wd[v].balance <= Backing(WUser[v])
      BY DEF ReadsBacked
    <3> QED  BY <1>0, <1>1, <1>3, <2>2, <3>1, <3>2
  <2>6. /\ \A r \in RefClaims : rc[r].balance <= Backing(Inviter[RInvitee[r]])'
        /\ \A u \in Users : wallet[u] <= Backing(u)'
    <3>1. \A r \in RefClaims : Inviter[RInvitee[r]] \in Users /\ rc[r].balance \in Nat
      BY RequestsAssumption DEF TypeOK, RefClaim
    <3>2. \A u \in Users : wallet[u] \in Nat
      BY DEF TypeOK
    <3> QED  BY <1>1, <1>3, <2>2, <3>1, <3>2 DEF ReadsBacked, WalletBacked
  <2>7. ReadsBacked' /\ WalletBacked'
    BY <1>4, <2>5, <2>6 DEF WithdrawGetOtp, ReadsBacked, WalletBacked
  <2> QED
    BY <2>3, <2>4, <2>7
<1>5. CASE WithdrawDelOtp(w)
  <2>1. PICK pc \in {"verified", "failed"} : Goto(w, pc)
    BY <1>5 DEF WithdrawDelOtp
  <2>2. otp' \in [Users -> Nat]
    BY <1>5 DEF WithdrawDelOtp, TypeOK
  <2>3. TypeOK' /\ Covered'
    BY <1>5, <2>1, <2>2, GotoKeeps DEF WithdrawDelOtp, TypeOK, Covered
  <2>4. ReadsBacked' /\ WalletBacked'
    BY <1>3, <1>5, <2>1, <2>3, GotoKeeps, BackedStays DEF WithdrawDelOtp
  <2> QED
    BY <2>3, <2>4
<1>6. CASE WithdrawReadWallet(w)
  <2>1. CASE wd' = [wd EXCEPT ![w].pc = "checked", ![w].balance = wallet[WUser[w]]]
             /\ Enough(wallet[WUser[w]], wd[w].amount)
    <3>1. wallet[WUser[w]] \in Nat /\ wallet[WUser[w]] <= Backing(WUser[w])
      BY <1>0 DEF TypeOK, WalletBacked
    <3>2. wd' \in [Withdrawals -> Withdrawal]
      BY <2>1, <3>1, <1>0 DEF TypeOK, Withdrawal
    <3>3. TypeOK'
      BY <1>6, <3>2 DEF WithdrawReadWallet, TypeOK
    <3>4. /\ wd'[w].balance = wallet[WUser[w]]
          /\ wd'[w].amount = wd[w].amount /\ wd'[w].pc = "checked"
          /\ \A v \in Withdrawals : v # w => wd'[v] = wd[v]
      BY <2>1, <1>0 DEF TypeOK, Withdrawal
    <3>5. wd[w].amount <= wallet[WUser[w]]
      BY <2>1, <3>1, <1>0 DEF Enough
    <3>6. Covered'
      BY <3>4, <3>5 DEF Covered
    <3>7. \A v \in Withdrawals : wd'[v].balance <= Backing(WUser[v])'
      <4> SUFFICES ASSUME NEW v \in Withdrawals PROVE wd'[v].balance <= Backing(WUser[v])'
        OBVIOUS
      <4>1. wd'[v].balance \in Nat /\ wd'[v].balance <= Backing(WUser[v])
        <5>1. CASE v = w
          BY <3>1, <3>4, <5>1
        <5>2. CASE v # w
          BY <1>0, <3>4, <5>2 DEF ReadsBacked
        <5> QED  BY <5>1, <5>2
      <4> QED  BY <1>0, <1>1, <1>3, <3>2, <4>1
    <3>8. /\ \A r \in RefClaims : rc[r].balance <= Backing(Inviter[RInvitee[r]])'
          /\ \A u \in Users : wallet[u] <= Backing(u)'
      <4>1. \A r \in RefClaims : Inviter[RInvitee[r]] \in Users /\ rc[r].balance \in Nat
        BY RequestsAssumption DEF TypeOK, RefClaim
      <4>2. \A u \in Users : wallet[u] \in Nat
        BY DEF TypeOK
      <4> QED  BY <1>1, <1>3, <3>2, <4>1, <4>2 DEF ReadsBacked, WalletBacked
    <3>9. ReadsBacked' /\ WalletBacked'
      BY <1>6, <3>7, <3>8 DEF WithdrawReadWallet, ReadsBacked, WalletBacked
    <3> QED
      BY <3>3, <3>6, <3>9
  <2>2. CASE Goto(w, "failed")
    <3>1. TypeOK' /\ Covered'
      BY <1>6, <2>2, GotoKeeps DEF WithdrawReadWallet, TypeOK, Covered
    <3>2. ReadsBacked' /\ WalletBacked'
      BY <1>3, <1>6, <2>2, <3>1, GotoKeeps, BackedStays DEF WithdrawReadWallet
    <3> QED  BY <3>1, <3>2
  <2> QED
    BY <1>6, <2>1, <2>2 DEF WithdrawReadWallet
<1>7. CASE WithdrawCheckPool(w)
  <2>1. PICK pc \in {"failed", "funded"} : Goto(w, pc) /\ wd[w].pc = "checked"
    BY <1>7 DEF WithdrawCheckPool
  <2>2. TypeOK' /\ Covered'
    BY <1>7, <2>1, GotoKeeps DEF WithdrawCheckPool, TypeOK, Covered
  <2>3. ReadsBacked' /\ WalletBacked'
    BY <1>3, <1>7, <2>1, <2>2, GotoKeeps, BackedStays DEF WithdrawCheckPool
  <2> QED
    BY <2>2, <2>3
<1>8. CASE WithdrawDebit(w)
  <2> DEFINE h == WUser[w]
             rest == wd[w].balance - wd[w].amount
  <2>1. /\ h \in Users /\ wd[w].amount <= wd[w].balance /\ wd[w].balance <= Backing(h)
        /\ rest \in Nat
    BY <1>0, <1>8 DEF WithdrawDebit, Covered, ReadsBacked
  <2>2. wallet' = [wallet EXCEPT ![h] = rest] /\ Goto(w, "debited") /\ rc' = rc
    BY <1>8 DEF WithdrawDebit
  <2>3. wd' \in [Withdrawals -> Withdrawal] /\ wd'[w].pc = "debited"
        /\ wd'[w].amount = wd[w].amount
    BY <2>2, GotoKeeps
  <2>4. TypeOK' /\ Covered'
    BY <1>8, <2>1, <2>2, GotoKeeps DEF WithdrawDebit, TypeOK, Covered
  <2>5. rest <= Backing(h)'
    <3>1. CASE wd[w].amount >= 0
      <4>1. rest <= Backing(h)
        BY <1>0, <1>1, <2>1, <3>1
      <4> QED  BY <1>1, <1>3, <2>1, <2>3, <4>1
    <3>2. CASE wd[w].amount < 0
      <4>1. wd[w].pc = "funded"
        BY <1>8 DEF WithdrawDebit
      <4>2. RaisedBy(w, h) = 0 /\ RaisedBy(w, h)' = -wd[w].amount
        BY <2>3, <3>2, <4>1 DEF RaisedBy
      <4>3. Raised(h)' = Raised(h) + (RaisedBy(w, h)' - RaisedBy(w, h))
        BY <2>3, WithdrawMoves, RaisedChange
      <4>4. Backing(h) = credited[h] + Raised(h) /\ Backing(h)' = credited[h] + Raised(h)'
        BY <1>3, <2>1, <2>3 DEF Backing
      <4>5. credited[h] \in Nat /\ Raised(h) \in Nat /\ wd[w].amount \in Int
        BY <1>0, <1>1, <2>1
      <4>6. Backing(h)' = Backing(h) - wd[w].amount
        BY <4>2, <4>3, <4>4, <4>5
      <4> QED  BY <1>0, <1>1, <2>1, <4>6
    <3> QED  BY <1>0, <3>1, <3>2
  <2>6. WalletBacked'
    <3> SUFFICES ASSUME NEW u \in Users PROVE wallet'[u] <= Backing(u)'
      BY DEF WalletBacked
    <3>1. CASE u = h
      BY <2>2, <2>5, <3>1 DEF TypeOK
    <3>2. CASE u # h
      <4>1. wallet'[u] = wallet[u] /\ wallet[u] \in Nat /\ wallet[u] <= Backing(u)
        BY <2>2, <3>2 DEF TypeOK, WalletBacked
      <4> QED  BY <1>1, <1>3, <2>3, <4>1
    <3> QED  BY <3>1, <3>2
  <2>7. ReadsBacked'
    <3>1. \A v \in Withdrawals : wd'[v].balance = wd[v].balance
      BY <2>2, GotoKeeps
    <3>2. \A r \in RefClaims : Inviter[RInvitee[r]] \in Users /\ rc[r].balance \in Nat
      BY RequestsAssumption DEF TypeOK, RefClaim
    <3>3. \A v \in Withdrawals : wd'[v].balance <= Backing(WUser[v])'
      BY <1>0, <1>1, <1>3, <2>3, <3>1 DEF ReadsBacked
    <3>4. \A r \in RefClaims : rc'[r].balance <= Backing(Inviter[RInvitee[r]])'
      BY <1>1, <1>3, <2>2, <2>3, <3>2 DEF ReadsBacked
    <3> QED  BY <3>3, <3>4 DEF ReadsBacked
  <2> QED
    BY <2>4, <2>6, <2>7
<1>9. CASE WithdrawTransfer(w) \/ WithdrawAnswerLost(w)
  <2>1. wd[w].amount * Unit \in Nat /\ wd[w].amount \in Nat
    BY <1>0, <1>9, UnitsAssumption DEF WithdrawTransfer, WithdrawAnswerLost, Transferable
  <2>2. pool' \in Nat /\ sent' \in [Users -> Nat]
    <3>1. pool >= wd[w].amount * Unit /\ pool' = pool - wd[w].amount * Unit
      BY <1>9 DEF WithdrawTransfer, WithdrawAnswerLost, Transferable
    <3>2. sent' = [sent EXCEPT ![WUser[w]] = @ + wd[w].amount]
      BY <1>9 DEF WithdrawTransfer, WithdrawAnswerLost
    <3>3. pool' \in Nat
      BY <2>1, <3>1 DEF TypeOK
    <3>4. sent' \in [Users -> Nat]
      BY <2>1, <3>2, <1>0 DEF TypeOK
    <3> QED
      BY <3>3, <3>4
  <2>3. PICK pc \in {"sent", "unlogged"} : Goto(w, pc)
    BY <1>9 DEF WithdrawTransfer, WithdrawAnswerLost
  <2>4. UNCHANGED <<hasWallet, wallet, credited, isClaim, rewards, otp, issued, withdrawn, rc>>
    BY <1>9 DEF WithdrawTransfer, WithdrawAnswerLost
  <2>5. TypeOK' /\ Covered'
    BY <2>1, <2>2, <2>3, <2>4, GotoKeeps DEF TypeOK, Covered
  <2>6. ReadsBacked' /\ WalletBacked'
    BY <1>3, <2>3, <2>4, <2>5, GotoKeeps, BackedStays
  <2> QED
    BY <2>5, <2>6
<1>10. CASE WithdrawLog(w)
  <2>1. withdrawn' \in [Users -> Nat]
    <3>1. wd[w].amount \in Nat
      BY <1>0, <1>10 DEF WithdrawLog, Covered
    <3> QED  BY <1>0, <1>10, <3>1 DEF WithdrawLog, TypeOK
  <2>2. Goto(w, "done") /\ wallet' = wallet /\ rc' = rc
    BY <1>10 DEF WithdrawLog
  <2>3. TypeOK' /\ Covered'
    BY <1>10, <2>1, <2>2, GotoKeeps DEF WithdrawLog, TypeOK, Covered
  <2>4. ReadsBacked' /\ WalletBacked'
    BY <1>3, <2>2, <2>3, GotoKeeps, BackedStays
  <2> QED
    BY <2>3, <2>4
<1>11. CASE WithdrawRefused(w) \/ WithdrawFail(w)
  <2>1. PICK pc \in {"lost", "unlogged", "failed"} : Goto(w, pc)
    BY <1>11 DEF WithdrawRefused, WithdrawFail
  <2>2. UNCHANGED <<hasWallet, wallet, credited, isClaim, rewards, otp, issued, sent,
                    withdrawn, pool, rc>>
    BY <1>11 DEF WithdrawRefused, WithdrawFail
  <2>3. TypeOK' /\ Covered'
    BY <2>1, <2>2, GotoKeeps DEF TypeOK, Covered
  <2>4. ReadsBacked' /\ WalletBacked'
    BY <1>3, <2>1, <2>2, <2>3, GotoKeeps, BackedStays
  <2> QED
    BY <2>3, <2>4
<1> QED
  BY <1>4, <1>5, <1>6, <1>7, <1>8, <1>9, <1>10, <1>11 DEF WithdrawStep

\* So does what a request of a reward does.
LEMMA RefKeeps ==
    ASSUME LedgerInv, NEW r \in RefClaims, RefStep(r)
    PROVE  LedgerInv'
<1> USE DEF LedgerInv
<1> DEFINE i == RInvitee[r]
           u == Inviter[i]
<1>0. i \in Invitees /\ u \in Users /\ RewardReferral \in Nat
  BY RequestsAssumption
<1>a. wd' = wd
  BY DEF RefStep, RefCheck, RefLock, RefReadWallet, RefCommit, RefFail
<1>b. \A v \in Users : Raised(v)' = Raised(v) /\ Backing(v) = credited[v] + Raised(v)
                       /\ Backing(v)' = credited'[v] + Raised(v)
  BY <1>a, RaisedSame DEF Backing
<1>c. \A v \in Users : Backing(v) \in Nat /\ credited[v] \in Nat /\ Raised(v) \in Nat
  BY RaisedType DEF TypeOK
<1>1. CASE RefCheck(r) \/ RefLock(r) \/ RefFail(r)
  <2>1. PICK pc \in {"checked", "locked", "failed"} : rc' = [rc EXCEPT ![r].pc = pc]
    BY <1>1 DEF RefCheck, RefLock, RefFail
  <2>2. UNCHANGED <<hasWallet, wallet, credited, isClaim, rewards, otp, issued, sent,
                    withdrawn, pool, wd>>
    BY <1>1 DEF RefCheck, RefLock, RefFail
  <2>3. /\ rc' \in [RefClaims -> RefClaim]
        /\ \A q \in RefClaims : rc'[q].balance = rc[q].balance
    BY <2>1 DEF TypeOK, RefClaim
  <2>4. Backing(u)' = Backing(u) /\ \A v \in Users : Backing(v)' = Backing(v)
    BY <1>0, <1>b, <2>2
  <2>5. TypeOK' /\ Covered'
    BY <2>2, <2>3 DEF TypeOK, Covered
  <2>6. ReadsBacked' /\ WalletBacked'
    BY <2>2, <2>3, <2>4, RequestsAssumption DEF ReadsBacked, WalletBacked
  <2> QED
    BY <2>5, <2>6
<1>2. CASE RefReadWallet(r)
  <2>1. wallet[u] \in Nat /\ wallet[u] <= Backing(u)
    BY <1>0 DEF TypeOK, WalletBacked
  <2>2. rc' = [rc EXCEPT ![r] = [pc |-> "read", found |-> u \in hasWallet, balance |-> wallet[u]]]
    BY <1>2 DEF RefReadWallet
  <2>3. rc' \in [RefClaims -> RefClaim]
    BY <2>1, <2>2 DEF TypeOK, RefClaim
  <2>4. \A q \in RefClaims : rc'[q].balance <= Backing(Inviter[RInvitee[q]])
    BY <2>1, <2>2 DEF TypeOK, ReadsBacked
  <2>5. \A v \in Users : Backing(v)' = Backing(v)
    BY <1>2, <1>b DEF RefReadWallet
  <2>6. TypeOK' /\ Covered'
    BY <1>2, <2>3 DEF RefReadWallet, TypeOK, Covered
  <2>7. ReadsBacked' /\ WalletBacked'
    BY <1>2, <2>4, <2>5, RequestsAssumption DEF RefReadWallet, ReadsBacked, WalletBacked
  <2> QED
    BY <2>6, <2>7
<1>3. CASE RefCommit(r)
  <2>1. /\ rc[r].balance \in Nat
        /\ rc[r].balance <= Backing(u)
    BY <1>0 DEF TypeOK, RefClaim, ReadsBacked
  <2>2. /\ hasWallet' = hasWallet \cup {u}
        /\ wallet' = [wallet EXCEPT ![u] = rc[r].balance + RewardReferral]
        /\ credited' = [credited EXCEPT ![u] = @ + RewardReferral]
        /\ isClaim' = [isClaim EXCEPT ![i] = TRUE]
        /\ rewards' = [rewards EXCEPT ![i] = @ + 1]
        /\ rc' = [rc EXCEPT ![r].pc = "done"]
        /\ UNCHANGED <<otp, issued, sent, withdrawn, pool, wd>>
    BY <1>3 DEF RefCommit, RewardedBalance, LogCredit
  <2>3. /\ rc' \in [RefClaims -> RefClaim]
        /\ \A q \in RefClaims : rc'[q].balance = rc[q].balance
    BY <2>2 DEF TypeOK, RefClaim
  <2>4. /\ credited' \in [Users -> Nat]
        /\ credited'[u] = credited[u] + RewardReferral
        /\ \A v \in Users : credited[v] <= credited'[v]
    BY <1>0, <1>c, <2>2 DEF TypeOK
  <2>5. /\ Backing(u)' = Backing(u) + RewardReferral
        /\ \A v \in Users : Backing(v)' >= Backing(v) /\ Backing(v)' \in Nat
    <3>1. ASSUME NEW v \in Users PROVE Backing(v)' >= Backing(v) /\ Backing(v)' \in Nat
      <4>1. credited'[v] \in Nat /\ credited[v] <= credited'[v]
        BY <2>4
      <4> QED  BY <1>b, <1>c, <4>1
    <3> QED  BY <1>0, <1>b, <1>c, <2>4, <3>1
  <2>6. wallet' \in [Users -> Nat]
    BY <1>0, <2>1, <2>2 DEF TypeOK
  <2>7. WalletBacked'
    <3> SUFFICES ASSUME NEW v \in Users PROVE wallet'[v] <= Backing(v)'
      BY DEF WalletBacked
    <3>1. CASE v = u
      <4>1. wallet'[v] = rc[r].balance + RewardReferral
        BY <1>0, <2>2, <3>1 DEF TypeOK
      <4> HIDE DEF u
      <4> QED  BY <1>0, <1>c, <2>1, <2>5, <3>1, <4>1
    <3>2. CASE v # u
      <4>1. wallet'[v] = wallet[v] /\ wallet[v] \in Nat /\ wallet[v] <= Backing(v)
        BY <2>2, <3>2 DEF TypeOK, WalletBacked
      <4> QED  BY <1>c, <2>5, <4>1
    <3> QED  BY <3>1, <3>2
  <2>8. TypeOK'
    BY <1>0, <2>2, <2>3, <2>4, <2>6 DEF TypeOK
  <2>9. ReadsBacked'
    <3>1. ASSUME NEW w \in Withdrawals PROVE wd'[w].balance <= Backing(WUser[w])'
      <4>1. WUser[w] \in Users /\ wd[w].balance \in Nat /\ wd[w].balance <= Backing(WUser[w])
        BY RequestsAssumption DEF TypeOK, Withdrawal, ReadsBacked
      <4> QED  BY <1>a, <1>c, <2>5, <4>1
    <3>2. ASSUME NEW q \in RefClaims PROVE rc'[q].balance <= Backing(Inviter[RInvitee[q]])'
      <4> DEFINE h == Inviter[RInvitee[q]]
      <4>1. h \in Users /\ rc[q].balance \in Nat /\ rc[q].balance <= Backing(h)
        BY RequestsAssumption DEF TypeOK, RefClaim, ReadsBacked
      <4>2. Backing(h)' >= Backing(h) /\ Backing(h)' \in Nat /\ Backing(h) \in Nat
        BY <1>c, <2>5, <4>1
      <4>3. rc'[q].balance <= Backing(h)'
        BY <2>3, <4>1, <4>2
      <4> QED  BY <4>3
    <3> QED  BY <3>1, <3>2 DEF ReadsBacked
  <2>10. Covered'
    BY <2>2 DEF Covered
  <2> QED
    BY <2>7, <2>8, <2>9, <2>10
<1> QED
  BY <1>1, <1>2, <1>3 DEF RefStep

\* And a relative credit.
LEMMA CreditKeeps ==
    ASSUME LedgerInv, NEW u \in Users, Credit(u)
    PROVE  LedgerInv'
<1> USE DEF LedgerInv
<1>1. /\ wallet' = [wallet EXCEPT ![u] = @ + 1]
      /\ credited' = [credited EXCEPT ![u] = @ + 1]
      /\ UNCHANGED <<hasWallet, isClaim, rewards, otp, issued, sent, withdrawn, pool, wd, rc>>
  BY DEF Credit, LogCredit
<1>2. TypeOK' /\ Covered'
  BY <1>1 DEF TypeOK, Covered
<1>3. \A v \in Users :
        /\ Backing(v) \in Nat /\ Backing(v)' \in Nat
        /\ Backing(v)' = Backing(v) + (IF v = u THEN 1 ELSE 0)
        /\ wallet[v] \in Nat
        /\ wallet'[v] = wallet[v] + (IF v = u THEN 1 ELSE 0)
  <2> SUFFICES ASSUME NEW v \in Users
               PROVE  /\ Backing(v) \in Nat /\ Backing(v)' \in Nat
                      /\ Backing(v)' = Backing(v) + (IF v = u THEN 1 ELSE 0)
                      /\ wallet[v] \in Nat
                      /\ wallet'[v] = wallet[v] + (IF v = u THEN 1 ELSE 0)
    OBVIOUS
  <2>1. Raised(v) \in Nat /\ Backing(v) \in Nat
    BY RaisedType
  <2>2. Raised(v)' = Raised(v)
    BY <1>1, RaisedSame
  <2>3. /\ credited[v] \in Nat /\ credited'[v] = credited[v] + (IF v = u THEN 1 ELSE 0)
        /\ wallet[v] \in Nat /\ wallet'[v] = wallet[v] + (IF v = u THEN 1 ELSE 0)
    BY <1>1 DEF TypeOK
  <2>4. Backing(v) = credited[v] + Raised(v) /\ Backing(v)' = credited'[v] + Raised(v)'
    BY DEF Backing
  <2> QED  BY <2>1, <2>2, <2>3, <2>4
<1>4. WalletBacked'
  BY <1>3 DEF WalletBacked
<1>5. ReadsBacked'
  <2>1. \A w \in Withdrawals :
          /\ WUser[w] \in Users
          /\ wd[w].balance \in Nat
          /\ wd[w].balance <= Backing(WUser[w])
    BY RequestsAssumption DEF TypeOK, Withdrawal, ReadsBacked
  <2>2. \A q \in RefClaims :
          /\ Inviter[RInvitee[q]] \in Users
          /\ rc[q].balance \in Nat
          /\ rc[q].balance <= Backing(Inviter[RInvitee[q]])
    BY RequestsAssumption DEF TypeOK, RefClaim, ReadsBacked
  <2>3. \A v \in Users : /\ Backing(v) \in Nat /\ Backing(v)' \in Nat
                         /\ Backing(v)' >= Backing(v)
    BY <1>3
  <2> QED
    BY <1>1, <2>1, <2>2, <2>3 DEF ReadsBacked
<1> QED
  BY <1>2, <1>4, <1>5

LEMMA LedgerInit == Init => LedgerInv
<1> SUFFICES ASSUME Init PROVE LedgerInv
  OBVIOUS
<1>1. TypeOK /\ Covered
  BY RequestsAssumption, UnitsAssumption DEF Init, TypeOK, Withdrawal, RefClaim, Covered
<1>2. \A u \in Users : Backing(u) \in Nat
  BY <1>1, RaisedType
<1>3. ReadsBacked /\ WalletBacked
  BY <1>2, RequestsAssumption DEF Init, ReadsBacked, WalletBacked
<1> QED  BY <1>1, <1>3 DEF LedgerInv

LEMMA LedgerStep == LedgerInv /\ [Next]_vars => LedgerInv'
<1> SUFFICES ASSUME LedgerInv, [Next]_vars PROVE LedgerInv'
  OBVIOUS
<1>0. ASSUME wd' = wd, credited' = credited
      PROVE  \A u : Backing(u)' = Backing(u)
  BY <1>0, RaisedSame DEF Backing
<1>1. ASSUME NEW u \in Users, GetOneTimePassword(u) \/ OtpExpires(u) PROVE LedgerInv'
  <2>1. /\ otp' \in [Users -> Nat] /\ issued' \in Nat
        /\ UNCHANGED <<hasWallet, wallet, credited, isClaim, rewards, sent, withdrawn,
                       pool, wd, rc>>
    BY <1>1 DEF GetOneTimePassword, OtpExpires, LedgerInv, TypeOK
  <2> QED
    BY <1>0, <2>1 DEF LedgerInv, TypeOK, Covered, ReadsBacked, WalletBacked
<1>2. ASSUME NEW u \in Users, Credit(u) PROVE LedgerInv'
  BY <1>2, CreditKeeps
<1>3. ASSUME NEW w \in Withdrawals, WithdrawStep(w) PROVE LedgerInv'
  BY <1>3, WithdrawKeeps
<1>4. ASSUME NEW r \in RefClaims, RefStep(r) PROVE LedgerInv'
  BY <1>4, RefKeeps
<1>5. CASE UNCHANGED vars
  BY <1>0, <1>5 DEF vars, LedgerInv, TypeOK, Covered, ReadsBacked, WalletBacked
<1> QED
  BY <1>1, <1>2, <1>3, <1>4, <1>5 DEF Next

\* No wallet ever holds more than the log credited and withdrawals of negative
\* amounts added, and no withdrawal takes it below zero, with any number of requests
\* in flight, with amounts of either sign and whatever fails.
THEOREM WalletNeverAheadOfLog == Spec => [](TypeOK /\ WalletBacked)
<1>1. LedgerInv => TypeOK /\ WalletBacked
  BY DEF LedgerInv
<1> QED
  BY <1>1, LedgerInit, LedgerStep, PTL DEF Spec

LEMMA ClaimedStep == TypeOK /\ ClaimedIffRewarded /\ [Next]_vars => ClaimedIffRewarded'
<1> SUFFICES ASSUME TypeOK, ClaimedIffRewarded, [Next]_vars PROVE ClaimedIffRewarded'
  OBVIOUS
<1>1. CASE UNCHANGED <<isClaim, rewards>>
  BY <1>1 DEF ClaimedIffRewarded
<1>2. ASSUME NEW r \in RefClaims, RefCommit(r) PROVE ClaimedIffRewarded'
  <2>1. /\ isClaim' = [isClaim EXCEPT ![RInvitee[r]] = TRUE]
        /\ rewards' = [rewards EXCEPT ![RInvitee[r]] = @ + 1]
    BY <1>2 DEF RefCommit
  <2>2. \A i \in Invitees : rewards[i] \in Nat
    BY DEF TypeOK
  <2> QED
    BY <2>1, <2>2 DEF ClaimedIffRewarded, TypeOK
<1> QED
  BY <1>1, <1>2
  DEF Next, GetOneTimePassword, OtpExpires, Credit, WithdrawStep, WithdrawGetOtp,
      WithdrawDelOtp, WithdrawReadWallet, WithdrawCheckPool, WithdrawDebit,
      WithdrawTransfer, WithdrawAnswerLost, WithdrawRefused, WithdrawLog, WithdrawFail,
      RefStep, RefCheck, RefLock, RefReadWallet, RefFail, vars

LEMMA ClaimedInit == Init => ClaimedIffRewarded
BY DEF Init, ClaimedIffRewarded

\* is_claim is set exactly for the referrals whose reward was paid.
THEOREM ClaimMarksReward == Spec => []ClaimedIffRewarded
BY ClaimedInit, ClaimedStep, WalletNeverAheadOfLog, PTL DEF Spec

-----------------------------------------------------------------------------
(* Withdrawals and their rows of the log *)

LEMMA AmountType ==
    ASSUME TypeOK, NEW u, NEW pcs
    PROVE  /\ \A w \in Withdrawals : AmountIn(w, u, pcs) \in Int
           /\ Total(u, pcs) \in Int
<1> DEFINE amounts == [w \in Withdrawals |-> AmountIn(w, u, pcs)]
<1>1. \A w \in Withdrawals : AmountIn(w, u, pcs) \in Int
  BY DEF TypeOK, Withdrawal, AmountIn
<1>2. \A w \in Withdrawals : amounts[w] \in Int
  BY <1>1
<1>3. Total(u, pcs) = SumFunctionOnSet(amounts, Withdrawals)
  BY DEF Total
<1> HIDE DEF amounts
<1> QED  BY <1>1, <1>2, <1>3, SumType, RequestsAssumption

\* A step of one withdrawal changes the totals by what it does to that one.
LEMMA TotalChange ==
    ASSUME TypeOK, TypeOK', NEW w \in Withdrawals,
           \A v \in Withdrawals \ {w} : wd'[v] = wd[v]
    PROVE  \A u, pcs :
               Total(u, pcs)' = Total(u, pcs) + (AmountIn(w, u, pcs)' - AmountIn(w, u, pcs))
<1> SUFFICES ASSUME NEW u, NEW pcs
             PROVE  Total(u, pcs)'
                        = Total(u, pcs) + (AmountIn(w, u, pcs)' - AmountIn(w, u, pcs))
  OBVIOUS
<1> DEFINE before == [v \in Withdrawals |-> AmountIn(v, u, pcs)]
           after == [v \in Withdrawals |-> AmountIn(v, u, pcs)']
<1>1. \A v \in Withdrawals : before[v] \in Int
  BY AmountType
<1>2. after[w] \in Int
  BY DEF TypeOK, Withdrawal, AmountIn
<1>3. \A v \in Withdrawals \ {w} : after[v] = before[v]
  BY DEF AmountIn
<1>4. /\ Total(u, pcs) = SumFunctionOnSet(before, Withdrawals)
      /\ Total(u, pcs)' = SumFunctionOnSet(after, Withdrawals)
      /\ before[w] = AmountIn(w, u, pcs) /\ after[w] = AmountIn(w, u, pcs)'
  BY DEF Total
<1> HIDE DEF before, after
<1> QED  BY <1>1, <1>2, <1>3, <1>4, SumChange, RequestsAssumption

LEMMA TotalSame == \A u, pcs : wd' = wd => Total(u, pcs)' = Total(u, pcs)
BY DEF Total, AmountIn

LEMMA ChainStep == LedgerInv /\ LogMatchesChain /\ [Next]_vars => LogMatchesChain'
<1> SUFFICES ASSUME LedgerInv, LogMatchesChain, [Next]_vars PROVE LogMatchesChain'
  OBVIOUS
<1> DEFINE pcs == {"sent", "unlogged"}
<1>1. TypeOK /\ TypeOK'
  BY LedgerStep DEF LedgerInv
<1>2. CASE UNCHANGED <<sent, withdrawn, wd>>
  BY <1>2, TotalSame DEF LogMatchesChain
<1>3. ASSUME NEW w \in Withdrawals, WithdrawStep(w) PROVE LogMatchesChain'
  <2> SUFFICES ASSUME NEW u \in Users
               PROVE  sent'[u] = withdrawn'[u] + Total(u, pcs)'
    BY DEF LogMatchesChain
  <2>1. Total(u, pcs)' = Total(u, pcs) + (AmountIn(w, u, pcs)' - AmountIn(w, u, pcs))
    BY <1>1, <1>3, WithdrawMoves, TotalChange
  <2>2. sent[u] = withdrawn[u] + Total(u, pcs)
    BY DEF LogMatchesChain
  <2>3. /\ sent[u] \in Nat /\ withdrawn[u] \in Nat /\ Total(u, pcs) \in Int
        /\ wd[w].amount \in Int /\ WUser[w] \in Users
    BY <1>1, AmountType, RequestsAssumption DEF TypeOK, Withdrawal
  <2>4. wd[w].pc # "idle" => wd'[w].amount = wd[w].amount
    BY <1>3, WithdrawMoves
  <2> DEFINE owed == IF WUser[w] = u THEN wd[w].amount ELSE 0
  <2>5. /\ AmountIn(w, u, pcs) = IF wd[w].pc \in pcs THEN owed ELSE 0
        /\ wd[w].pc # "idle" => AmountIn(w, u, pcs)' = IF wd'[w].pc \in pcs THEN owed ELSE 0
        /\ wd'[w].pc \notin pcs => AmountIn(w, u, pcs)' = 0
    BY <2>4 DEF AmountIn
  <2>6. owed \in Int
    BY <2>3
  <2>7. CASE WithdrawTransfer(w) \/ WithdrawAnswerLost(w)
    <3>1. sent'[u] = sent[u] + owed /\ withdrawn' = withdrawn
      BY <1>1, <2>3, <2>7 DEF WithdrawTransfer, WithdrawAnswerLost, TypeOK
    <3>2. AmountIn(w, u, pcs)' = owed /\ AmountIn(w, u, pcs) = 0
      BY <2>5, <2>7, WithdrawPlaces
    <3> HIDE DEF owed, pcs
    <3> QED  BY <2>1, <2>2, <2>3, <2>6, <3>1, <3>2
  <2>8. CASE WithdrawLog(w)
    <3>1. withdrawn'[u] = withdrawn[u] + owed /\ sent' = sent
      BY <1>1, <2>3, <2>8 DEF WithdrawLog, TypeOK
    <3>2. AmountIn(w, u, pcs)' = 0 /\ AmountIn(w, u, pcs) = owed
      BY <2>5, <2>8, WithdrawPlaces
    <3> HIDE DEF owed, pcs
    <3> QED  BY <2>1, <2>2, <2>3, <2>6, <3>1, <3>2
  <2>9. CASE ~(WithdrawTransfer(w) \/ WithdrawAnswerLost(w) \/ WithdrawLog(w))
    <3>1. withdrawn' = withdrawn /\ sent' = sent
      BY <1>3, <2>9
      DEF WithdrawStep, WithdrawGetOtp, WithdrawDelOtp, WithdrawReadWallet, WithdrawCheckPool,
          WithdrawDebit, WithdrawRefused, WithdrawFail
    <3>2. /\ wd[w].pc \in pcs <=> wd'[w].pc \in pcs
          /\ wd[w].pc = "idle" => wd'[w].pc \notin pcs
      BY <1>3, <2>9, WithdrawPlaces DEF WithdrawStep
    <3>3. AmountIn(w, u, pcs)' = AmountIn(w, u, pcs)
      BY <2>5, <3>2
    <3>4. AmountIn(w, u, pcs) \in Int
      BY <1>1, AmountType
    <3> HIDE DEF owed, pcs
    <3> QED  BY <2>1, <2>2, <2>3, <3>1, <3>3, <3>4
  <2> QED  BY <2>7, <2>8, <2>9
<1> QED
  BY <1>2, <1>3
  DEF Next, GetOneTimePassword, OtpExpires, Credit, RefStep, RefCheck, RefLock, RefReadWallet,
      RefCommit, RefFail, vars

\* What left the pool is what WITHDRAW_BALANCE rows say, plus what withdrawals sent
\* that have not, or will never have, written theirs: no row without a transfer and
\* no transfer twice, whatever fails (withdrawBalance).
THEOREM LogFollowsChain == Spec => []LogMatchesChain
<1>1. Init => LogMatchesChain
  <2> SUFFICES ASSUME Init, NEW u \in Users
               PROVE  sent[u] = withdrawn[u] + Total(u, {"sent", "unlogged"})
    BY DEF LogMatchesChain
  <2> DEFINE amounts == [w \in Withdrawals |-> AmountIn(w, u, {"sent", "unlogged"})]
  <2>1. \A w \in Withdrawals : amounts[w] = 0
    BY DEF Init, AmountIn
  <2>2. Total(u, {"sent", "unlogged"}) = SumFunctionOnSet(amounts, Withdrawals)
    BY DEF Total
  <2> HIDE DEF amounts
  <2>3. Total(u, {"sent", "unlogged"}) = Cardinality(Withdrawals) * 0
    BY <2>1, <2>2, SumOfConstant, RequestsAssumption
  <2>4. Cardinality(Withdrawals) \in Nat
    BY FS_CardinalityType, RequestsAssumption
  <2> QED  BY <2>3, <2>4 DEF Init
<1> QED  BY <1>1, LedgerInit, LedgerStep, ChainStep, PTL DEF Spec

-----------------------------------------------------------------------------
(* As long as requests do not overlap *)

\* Only a wallet that exists holds money or pays a withdrawal.
WalletsExist ==
    /\ \A u \in Users \ hasWallet : wallet[u] = 0
    /\ \A w \in Withdrawals : wd[w].pc \in {"checked", "funded"} => WUser[w] \in hasWallet

\* What the only request in flight has read is still so.
ReadsFresh ==
    ~overlapped =>
        /\ InFlight <= 1
        /\ \A w \in Withdrawals :
               wd[w].pc \in {"checked", "funded"} => wd[w].balance = wallet[WUser[w]]
        /\ \A r \in RefClaims :
               rc[r].pc = "read" =>
                   LET u == Inviter[RInvitee[r]] IN
                   rc[r].found = (u \in hasWallet) /\ rc[r].balance = wallet[u]

\* The withdrawals that a password has let pass.
Passed == {w \in Withdrawals : wd[w].pc \notin {"idle", "otp", "failed"}}

\* A password is issued once, for one user, and is gone when it was used.
PasswordsUsed ==
    /\ \A u \in Users : otp[u] <= issued
    /\ \A w \in Withdrawals : wd[w].pc # "idle" => wd[w].otp \in 1 .. issued
    /\ \A u, v \in Users : otp[u] = otp[v] /\ otp[u] # 0 => u = v
    /\ \A w \in Withdrawals, u \in Users :
            wd[w].pc # "idle" /\ u # WUser[w] => otp[u] # wd[w].otp
    /\ \A w \in Passed : otp[WUser[w]] # wd[w].otp

\* The only request in flight is about a password, or a reward, that was not used.
UsesFresh ==
    ~overlapped =>
        /\ \A r \in ClaimsInFlight : ~isClaim[RInvitee[r]]
        /\ \A v \in Passed, w \in Withdrawals :
               wd[w].pc = "otp" => wd[v].otp # wd[w].otp

HistoryInv == WalletsExist /\ ReadsFresh /\ PasswordsUsed /\ UsesFresh

LEMMA OnlyOneInFlight ==
    ASSUME InFlight <= 1
    PROVE  /\ \A v, w \in WithdrawalsInFlight : v = w
           /\ \A q, r \in ClaimsInFlight : q = r
           /\ WithdrawalsInFlight = {} \/ ClaimsInFlight = {}
           /\ InFlight \in Nat
           /\ InFlight = 0 => WithdrawalsInFlight = {} /\ ClaimsInFlight = {}
<1>1. IsFiniteSet(WithdrawalsInFlight) /\ IsFiniteSet(ClaimsInFlight)
  BY RequestsAssumption, FS_Subset DEF WithdrawalsInFlight, ClaimsInFlight
<1>2. Cardinality(WithdrawalsInFlight) \in Nat /\ Cardinality(ClaimsInFlight) \in Nat
  BY <1>1, FS_CardinalityType
<1>3. ASSUME NEW S, IsFiniteSet(S), Cardinality(S) <= 1 PROVE \A x, y \in S : x = y
  <2> SUFFICES ASSUME NEW x \in S, NEW y \in S, x # y PROVE FALSE
    OBVIOUS
  <2>1. Cardinality(S \ {x}) = Cardinality(S) - 1 /\ IsFiniteSet(S \ {x})
    BY <1>3, FS_RemoveElement
  <2>2. Cardinality(S \ {x}) \in Nat /\ Cardinality(S) \in Nat
    BY <1>3, <2>1, FS_CardinalityType
  <2>3. Cardinality(S \ {x}) = 0
    BY <1>3, <2>1, <2>2
  <2>4. S \ {x} = {}
    BY <2>1, <2>3, FS_EmptySet
  <2> QED  BY <2>4
<1>4. /\ Cardinality(WithdrawalsInFlight) = 0 => WithdrawalsInFlight = {}
      /\ Cardinality(ClaimsInFlight) = 0 => ClaimsInFlight = {}
  BY <1>1, FS_EmptySet
<1>5. /\ InFlight = Cardinality(WithdrawalsInFlight) + Cardinality(ClaimsInFlight)
      /\ Cardinality(WithdrawalsInFlight) <= 1 /\ Cardinality(ClaimsInFlight) <= 1
      /\ Cardinality(WithdrawalsInFlight) = 0 \/ Cardinality(ClaimsInFlight) = 0
      /\ InFlight = 0 =>
            Cardinality(WithdrawalsInFlight) = 0 /\ Cardinality(ClaimsInFlight) = 0
  BY <1>2 DEF InFlight
<1>6. (\A v, w \in WithdrawalsInFlight : v = w) /\ (\A q, r \in ClaimsInFlight : q = r)
  BY <1>1, <1>3, <1>5
<1>7. InFlight \in Nat
  BY <1>2, <1>5
<1> QED  BY <1>4, <1>5, <1>6, <1>7

\* A claim's step leaves the other claims, and what it read once, alone.
LEMMA RefMoves ==
    ASSUME LedgerInv, NEW r \in RefClaims, RefStep(r)
    PROVE  /\ \A q \in RefClaims \ {r} : rc'[q] = rc[q]
           /\ RefCheck(r) => rc[r].pc = "idle" /\ rc'[r].pc = "checked"
           /\ RefLock(r) => rc[r].pc = "checked" /\ rc'[r].pc = "locked"
           /\ RefReadWallet(r) =>
                /\ rc[r].pc = "locked" /\ rc'[r].pc = "read"
                /\ rc'[r].found = (Inviter[RInvitee[r]] \in hasWallet)
                /\ rc'[r].balance = wallet[Inviter[RInvitee[r]]]
           /\ RefCommit(r) => rc[r].pc = "read" /\ rc'[r].pc = "done"
           /\ RefFail(r) => rc[r].pc \in {"checked", "locked", "read"} /\ rc'[r].pc = "failed"
<1>1. ASSUME NEW pc, rc' = [rc EXCEPT ![r].pc = pc]
      PROVE  (\A q \in RefClaims \ {r} : rc'[q] = rc[q]) /\ rc'[r].pc = pc
  BY <1>1 DEF LedgerInv, TypeOK, RefClaim
<1>2. CASE RefReadWallet(r)
  <2> DEFINE u == Inviter[RInvitee[r]]
             result == [pc |-> "read", found |-> u \in hasWallet, balance |-> wallet[u]]
  <2>1. rc' = [rc EXCEPT ![r] = result] /\ rc[r].pc = "locked"
    BY <1>2 DEF RefReadWallet
  <2>2. result.pc = "read" /\ result.found = (u \in hasWallet) /\ result.balance = wallet[u]
    OBVIOUS
  <2> HIDE DEF u, result
  <2>3. (\A q \in RefClaims \ {r} : rc'[q] = rc[q]) /\ rc'[r] = result
    BY <2>1 DEF LedgerInv, TypeOK
  <2>4. ~RefCheck(r) /\ ~RefLock(r) /\ ~RefCommit(r)
    BY <2>1 DEF RefCheck, RefLock, RefCommit
  <2>5. RefFail(r) => rc'[r].pc = "failed"
    BY <1>1 DEF RefFail
  <2> QED  BY <2>1, <2>2, <2>3, <2>4, <2>5 DEF u
<1>3. CASE RefCheck(r) \/ RefLock(r) \/ RefCommit(r) \/ RefFail(r)
  <2>1. \E pc : rc' = [rc EXCEPT ![r].pc = pc]
    BY <1>3 DEF RefCheck, RefLock, RefCommit, RefFail
  <2>2. CASE ~RefReadWallet(r)
    BY <1>1, <1>3, <2>1, <2>2 DEF RefCheck, RefLock, RefCommit, RefFail, ClaimsInFlight
  <2> QED  BY <1>2, <2>2
<1> QED  BY <1>2, <1>3 DEF RefStep

\* The steps that change a wallet.
LEMMA WalletSame ==
    ASSUME LedgerInv, [Next]_vars,
           \A w \in Withdrawals : ~WithdrawDebit(w),
           \A r \in RefClaims : ~RefCommit(r), \A u \in Users : ~Credit(u)
    PROVE  wallet' = wallet /\ hasWallet' = hasWallet /\ credited' = credited
BY DEF Next, GetOneTimePassword, OtpExpires, WithdrawStep, WithdrawGetOtp, WithdrawDelOtp,
       WithdrawReadWallet, WithdrawCheckPool, WithdrawTransfer, WithdrawAnswerLost,
       WithdrawRefused, WithdrawLog, WithdrawFail, RefStep, RefCheck, RefLock,
       RefReadWallet, RefFail, vars

\* The requests move one at a time.
LEMMA OneMoves ==
    ASSUME LedgerInv, [Next]_vars
    PROVE  \/ wd' = wd /\ rc' = rc
           \/ rc' = rc /\ \E w \in Withdrawals : WithdrawStep(w)
           \/ wd' = wd /\ \E r \in RefClaims : RefStep(r)
<1>1. \A w \in Withdrawals : WithdrawStep(w) => rc' = rc
  BY DEF WithdrawStep, WithdrawGetOtp, WithdrawDelOtp, WithdrawReadWallet, WithdrawCheckPool,
         WithdrawDebit, WithdrawTransfer, WithdrawAnswerLost, WithdrawRefused, WithdrawLog,
         WithdrawFail
<1>2. \A r \in RefClaims : RefStep(r) => wd' = wd
  BY DEF RefStep, RefCheck, RefLock, RefReadWallet, RefCommit, RefFail
<1> QED  BY <1>1, <1>2 DEF Next, GetOneTimePassword, OtpExpires, Credit, vars

LEMMA ExistStep == LedgerInv /\ WalletsExist /\ [Next]_vars => WalletsExist'
<1> SUFFICES ASSUME LedgerInv, WalletsExist, [Next]_vars PROVE WalletsExist'
  OBVIOUS
<1>1. hasWallet \subseteq hasWallet' /\ \A u \in Users \ hasWallet' : wallet'[u] = 0
  <2>1. CASE wallet' = wallet /\ hasWallet' = hasWallet
    BY <2>1 DEF WalletsExist
  <2>2. ASSUME NEW w \in Withdrawals, WithdrawDebit(w)
        PROVE  hasWallet' = hasWallet /\ \A u \in Users \ hasWallet : wallet'[u] = 0
    BY <2>2 DEF WithdrawDebit, WalletsExist, LedgerInv, TypeOK
  <2>3. ASSUME NEW r \in RefClaims, RefCommit(r)
        PROVE  hasWallet \subseteq hasWallet' /\ \A u \in Users \ hasWallet' : wallet'[u] = 0
    BY <2>3 DEF RefCommit, WalletsExist, LedgerInv, TypeOK
  <2>4. ASSUME NEW u \in Users, Credit(u)
        PROVE  hasWallet' = hasWallet /\ \A v \in Users \ hasWallet : wallet'[v] = 0
    BY <2>4 DEF Credit, WalletsExist, LedgerInv, TypeOK
  <2> QED  BY <2>1, <2>2, <2>3, <2>4, WalletSame
<1>2. ASSUME NEW w \in Withdrawals, wd'[w].pc \in {"checked", "funded"}
      PROVE  WUser[w] \in hasWallet'
  <2>1. CASE wd'[w] = wd[w]
    BY <1>1, <1>2, <2>1 DEF WalletsExist
  <2>2. CASE WithdrawStep(w)
    <3>1. CASE WithdrawCheckPool(w)
      BY <1>1, <3>1, WithdrawPlaces DEF WalletsExist
    <3>2. CASE WithdrawReadWallet(w)
      <4>1. wd'[w].pc # "failed"
        BY <1>2
      <4>2. Goto(w, "failed") => wd'[w].pc = "failed"
        BY DEF Goto, LedgerInv, TypeOK, Withdrawal
      <4> QED  BY <1>1, <3>2, <4>1, <4>2 DEF WithdrawReadWallet
    <3>3. CASE ~WithdrawCheckPool(w) /\ ~WithdrawReadWallet(w)
      BY <1>2, <2>2, <3>3, WithdrawPlaces DEF WithdrawStep
    <3> QED  BY <3>1, <3>2, <3>3
  <2>3. wd'[w] = wd[w] \/ WithdrawStep(w)
    BY OneMoves, WithdrawMoves
  <2> QED  BY <2>1, <2>2, <2>3
<1> QED  BY <1>1, <1>2 DEF WalletsExist

\* What history says of a step after which no requests have overlapped.
LEMMA NoOverlap ==
    ASSUME LedgerInv, ReadsFresh, [HNext]_hvars, ~overlapped'
    PROVE  /\ [Next]_vars /\ ~overlapped /\ InFlight' <= 1
           /\ \A v, w \in WithdrawalsInFlight : v = w
           /\ \A q, r \in ClaimsInFlight : q = r
           /\ WithdrawalsInFlight = {} \/ ClaimsInFlight = {}
           /\ \A u \in Users : Credit(u) => WithdrawalsInFlight = {} /\ ClaimsInFlight = {}
<1>1. [Next]_vars /\ ~overlapped
  <2>1. CASE HNext
    BY <2>1, Zenon DEF HNext
  <2>2. CASE UNCHANGED hvars
    <3>1. vars' = vars /\ overlapped' = overlapped
      BY <2>2 DEF hvars
    <3> QED  BY <3>1
  <2> QED  BY <2>1, <2>2
<1>2. InFlight <= 1
  BY <1>1 DEF ReadsFresh
<1>3. InFlight \in Nat
  BY <1>2, OnlyOneInFlight
<1>4. InFlight' <= 1
  <2>1. CASE HNext
    <3>1. ~(InFlight' > 1)
      BY <2>1 DEF HNext
    <3>2. InFlight' \in Nat
      <4>1. /\ IsFiniteSet(WithdrawalsInFlight') /\ IsFiniteSet(ClaimsInFlight')
        BY RequestsAssumption, FS_Subset DEF WithdrawalsInFlight, ClaimsInFlight
      <4>2. Cardinality(WithdrawalsInFlight') \in Nat /\ Cardinality(ClaimsInFlight') \in Nat
        BY <4>1, FS_CardinalityType
      <4> QED  BY <4>2 DEF InFlight
    <3> QED  BY <3>1, <3>2
  <2>2. CASE UNCHANGED hvars
    BY <1>2, <2>2 DEF hvars, vars, InFlight, WithdrawalsInFlight, ClaimsInFlight
  <2> QED  BY <2>1, <2>2
<1>5. ASSUME NEW u \in Users, Credit(u) PROVE InFlight = 0
  <2>1. credited' # credited /\ rc' = rc
    <3>1. credited'[u] = credited[u] + 1 /\ credited[u] \in Nat /\ rc' = rc
      BY <1>5 DEF Credit, LogCredit, LedgerInv, TypeOK
    <3> QED  BY <3>1
  <2>2. HNext
    BY <2>1 DEF hvars, vars
  <2>3. ~CreditMeanwhile
    BY <2>2 DEF HNext
  <2> QED  BY <1>3, <2>1, <2>3 DEF CreditMeanwhile
<1> QED  BY <1>1, <1>2, <1>4, <1>5, OnlyOneInFlight

LEMMA FreshStep ==
    LedgerInv /\ WalletsExist /\ ReadsFresh /\ [HNext]_hvars => ReadsFresh'
<1> SUFFICES ASSUME LedgerInv, WalletsExist, ReadsFresh, [HNext]_hvars, ~overlapped'
             PROVE  /\ InFlight' <= 1
                    /\ \A w \in Withdrawals : wd'[w].pc \in {"checked", "funded"} =>
                            wd'[w].balance = wallet'[WUser[w]]
                    /\ \A r \in RefClaims : rc'[r].pc = "read" =>
                            /\ rc'[r].found = (Inviter[RInvitee[r]] \in hasWallet')
                            /\ rc'[r].balance = wallet'[Inviter[RInvitee[r]]]
  BY DEF ReadsFresh
<1>1. [Next]_vars /\ ~overlapped /\ InFlight' <= 1
  BY NoOverlap
<1>2. ASSUME NEW w \in Withdrawals, wd'[w].pc \in {"checked", "funded"}
      PROVE  wd'[w].balance = wallet'[WUser[w]]
  <2>1. CASE ~WithdrawStep(w)
    <3>1. wd'[w] = wd[w] /\ w \in WithdrawalsInFlight
      BY <1>1, <1>2, <2>1, OneMoves, WithdrawMoves DEF WithdrawalsInFlight
    <3>2. \A v \in Withdrawals : ~WithdrawDebit(v)
      <4> SUFFICES ASSUME NEW v \in Withdrawals, WithdrawDebit(v) PROVE FALSE
        OBVIOUS
      <4>1. v \in WithdrawalsInFlight
        BY DEF WithdrawDebit, WithdrawalsInFlight
      <4>2. v = w
        BY <3>1, <4>1, NoOverlap
      <4> QED  BY <2>1, <4>2 DEF WithdrawStep
    <3>3. \A r \in RefClaims : ~RefCommit(r)
      BY <3>1, NoOverlap DEF RefCommit, ClaimsInFlight
    <3>4. \A u \in Users : ~Credit(u)
      BY <3>1, NoOverlap
    <3>5. wallet' = wallet
      BY <1>1, <3>2, <3>3, <3>4, WalletSame
    <3> QED  BY <1>1, <1>2, <3>1, <3>5 DEF ReadsFresh
  <2>2. CASE WithdrawReadWallet(w)
    <3>1. Goto(w, "failed") => wd'[w].pc = "failed"
      BY DEF Goto, LedgerInv, TypeOK, Withdrawal
    <3>2. wd' = [wd EXCEPT ![w].pc = "checked", ![w].balance = wallet[WUser[w]]]
      BY <1>2, <2>2, <3>1 DEF WithdrawReadWallet
    <3>3. wd'[w].balance = wallet[WUser[w]]
      BY <3>2 DEF LedgerInv, TypeOK, Withdrawal
    <3> QED  BY <2>2, <3>3 DEF WithdrawReadWallet
  <2>3. CASE WithdrawCheckPool(w)
    <3>1. wd[w].pc = "checked" /\ wallet' = wallet
      BY <2>3 DEF WithdrawCheckPool
    <3>2. wd'[w].balance = wd[w].balance
      BY <2>3, <3>1, WithdrawMoves DEF WithdrawStep
    <3> QED  BY <1>1, <3>1, <3>2 DEF ReadsFresh
  <2>4. CASE WithdrawStep(w) /\ ~WithdrawReadWallet(w) /\ ~WithdrawCheckPool(w)
    BY <1>2, <2>4, WithdrawPlaces DEF WithdrawStep
  <2> QED  BY <2>1, <2>2, <2>3, <2>4
<1>3. ASSUME NEW r \in RefClaims, rc'[r].pc = "read"
      PROVE  /\ rc'[r].found = (Inviter[RInvitee[r]] \in hasWallet')
             /\ rc'[r].balance = wallet'[Inviter[RInvitee[r]]]
  <2>1. CASE RefReadWallet(r)
    <3>1. wallet' = wallet /\ hasWallet' = hasWallet
      BY <2>1 DEF RefReadWallet
    <3> QED  BY <2>1, <3>1, RefMoves DEF RefStep
  <2>2. CASE RefStep(r) /\ ~RefReadWallet(r)
    BY <1>3, <2>2, RefMoves DEF RefStep
  <2>3. CASE ~RefStep(r)
    <3>1. rc'[r] = rc[r] /\ r \in ClaimsInFlight
      BY <1>1, <1>3, <2>3, OneMoves, RefMoves DEF ClaimsInFlight
    <3>2. \A q \in RefClaims : ~RefCommit(q)
      <4> SUFFICES ASSUME NEW q \in RefClaims, RefCommit(q) PROVE FALSE
        OBVIOUS
      <4>1. q \in ClaimsInFlight
        BY DEF RefCommit, ClaimsInFlight
      <4>2. q = r
        BY <3>1, <4>1, NoOverlap
      <4> QED  BY <2>3, <4>2 DEF RefStep
    <3>3. \A w \in Withdrawals : ~WithdrawDebit(w)
      BY <3>1, NoOverlap DEF WithdrawDebit, WithdrawalsInFlight
    <3>4. \A u \in Users : ~Credit(u)
      BY <3>1, NoOverlap
    <3>5. wallet' = wallet /\ hasWallet' = hasWallet
      BY <1>1, <3>2, <3>3, <3>4, WalletSame
    <3> QED  BY <1>1, <1>3, <3>1, <3>5 DEF ReadsFresh
  <2> QED  BY <2>1, <2>2, <2>3
<1> QED  BY <1>1, <1>2, <1>3

LEMMA BalanceStep ==
    /\ LedgerInv /\ WalletsExist /\ ReadsFresh /\ Balanced /\ [HNext]_hvars
    /\ LedgerInv' /\ WalletsExist'
    => Balanced'
<1> DEFINE pcs == {"debited", "sent", "lost", "unlogged"}
<1> SUFFICES ASSUME LedgerInv, WalletsExist, ReadsFresh, Balanced, [HNext]_hvars,
                    LedgerInv', WalletsExist', ~overlapped', NEW u \in Users
             PROVE  GetBalance(u)' + Total(u, pcs)' = HistoryTotal(u)'
  BY DEF Balanced
<1>1. [Next]_vars /\ ~overlapped /\ TypeOK /\ TypeOK'
  BY NoOverlap DEF LedgerInv
<1>2. /\ wallet[u] \in Nat /\ credited[u] \in Nat /\ withdrawn[u] \in Nat
      /\ wallet'[u] \in Nat /\ credited'[u] \in Nat /\ withdrawn'[u] \in Nat
      /\ Total(u, pcs) \in Int
  BY <1>1, AmountType DEF TypeOK
<1>3. wallet[u] + Total(u, pcs) = credited[u] - withdrawn[u]
  <2>1. GetBalance(u) = wallet[u]
    BY DEF GetBalance, WalletsExist
  <2> QED  BY <1>1, <2>1 DEF Balanced, HistoryTotal
<1> SUFFICES wallet'[u] + Total(u, pcs)' = credited'[u] - withdrawn'[u]
  <2>1. GetBalance(u)' = wallet'[u]
    BY DEF GetBalance, WalletsExist
  <2> QED  BY <2>1 DEF HistoryTotal
<1>4. CASE wallet' = wallet /\ credited' = credited /\ withdrawn' = withdrawn /\ wd' = wd
  BY <1>3, <1>4, TotalSame
<1>5. ASSUME NEW w \in Withdrawals, WithdrawStep(w)
      PROVE  wallet'[u] + Total(u, pcs)' = credited'[u] - withdrawn'[u]
  <2> DEFINE owed == IF WUser[w] = u THEN wd[w].amount ELSE 0
  <2>1. Total(u, pcs)' = Total(u, pcs) + (AmountIn(w, u, pcs)' - AmountIn(w, u, pcs))
    BY <1>1, <1>5, WithdrawMoves, TotalChange
  <2>2. /\ wd[w].amount \in Int /\ wd[w].balance \in Nat /\ WUser[w] \in Users
        /\ owed \in Int /\ AmountIn(w, u, pcs) \in Int
    <3>1. wd[w].amount \in Int /\ wd[w].balance \in Nat /\ WUser[w] \in Users
      BY <1>1, RequestsAssumption DEF TypeOK, Withdrawal
    <3>2. AmountIn(w, u, pcs) \in Int
      BY <1>1, AmountType
    <3> QED  BY <3>1, <3>2
  <2>3. wd[w].pc # "idle" => wd'[w].amount = wd[w].amount
    BY <1>5, WithdrawMoves
  <2>4. /\ AmountIn(w, u, pcs) = IF wd[w].pc \in pcs THEN owed ELSE 0
        /\ wd[w].pc # "idle" => AmountIn(w, u, pcs)' = IF wd'[w].pc \in pcs THEN owed ELSE 0
        /\ wd'[w].pc \notin pcs => AmountIn(w, u, pcs)' = 0
    BY <2>3 DEF AmountIn
  <2>5. CASE WithdrawDebit(w)
    <3>1. wd[w].balance = wallet[WUser[w]]
      BY <1>1, <2>5 DEF WithdrawDebit, ReadsFresh
    <3>2. wallet'[u] = wallet[u] - owed /\ credited' = credited /\ withdrawn' = withdrawn
      BY <1>1, <1>2, <2>2, <2>5, <3>1 DEF WithdrawDebit, TypeOK
    <3>3. AmountIn(w, u, pcs)' = owed /\ AmountIn(w, u, pcs) = 0
      BY <2>4, <2>5, WithdrawPlaces
    <3> HIDE DEF owed, pcs
    <3> QED  BY <1>2, <1>3, <2>1, <2>2, <3>2, <3>3
  <2>6. CASE WithdrawLog(w)
    <3>1. withdrawn'[u] = withdrawn[u] + owed /\ wallet' = wallet /\ credited' = credited
      BY <1>1, <1>2, <2>2, <2>6 DEF WithdrawLog, TypeOK
    <3>2. AmountIn(w, u, pcs)' = 0 /\ AmountIn(w, u, pcs) = owed
      BY <2>4, <2>6, WithdrawPlaces
    <3> HIDE DEF owed, pcs
    <3>3. Total(u, pcs)' = Total(u, pcs) - owed
      BY <1>2, <2>1, <2>2, <3>2
    <3>4. wallet'[u] = wallet[u] /\ credited'[u] = credited[u]
      BY <3>1
    <3> QED  BY <1>2, <1>3, <2>2, <3>1, <3>3, <3>4
  <2>7. CASE ~WithdrawDebit(w) /\ ~WithdrawLog(w)
    <3>1. wallet' = wallet /\ credited' = credited /\ withdrawn' = withdrawn
      BY <1>5, <2>7
      DEF WithdrawStep, WithdrawGetOtp, WithdrawDelOtp, WithdrawReadWallet, WithdrawCheckPool,
          WithdrawTransfer, WithdrawAnswerLost, WithdrawRefused, WithdrawFail
    <3>2. /\ wd[w].pc \in pcs <=> wd'[w].pc \in pcs
          /\ wd[w].pc = "idle" => wd'[w].pc \notin pcs
      BY <1>5, <2>7, WithdrawPlaces DEF WithdrawStep
    <3>3. AmountIn(w, u, pcs)' = AmountIn(w, u, pcs)
      BY <2>4, <3>2
    <3> HIDE DEF owed, pcs
    <3> QED  BY <1>2, <1>3, <2>1, <2>2, <3>1, <3>3
  <2> QED  BY <2>5, <2>6, <2>7
<1>6. ASSUME NEW r \in RefClaims, RefCommit(r)
      PROVE  wallet'[u] + Total(u, pcs)' = credited'[u] - withdrawn'[u]
  <2> DEFINE h == Inviter[RInvitee[r]]
             reward == IF u = h THEN RewardReferral ELSE 0
  <2>1. h \in Users /\ reward \in Nat /\ RewardReferral \in Nat
    BY RequestsAssumption
  <2>2. rc[r].balance = wallet[h]
    BY <1>1, <1>6 DEF RefCommit, ReadsFresh
  <2>3. /\ wallet' = [wallet EXCEPT ![h] = rc[r].balance + RewardReferral]
        /\ credited' = [credited EXCEPT ![h] = @ + RewardReferral]
        /\ withdrawn' = withdrawn /\ wd' = wd
    BY <1>6 DEF RefCommit, RewardedBalance, LogCredit
  <2> HIDE DEF h
  <2>4. wallet'[u] = wallet[u] + reward /\ credited'[u] = credited[u] + reward
    BY <1>1, <1>2, <2>1, <2>2, <2>3 DEF TypeOK
  <2>5. Total(u, pcs)' = Total(u, pcs)
    BY <2>3, TotalSame
  <2> HIDE DEF reward, pcs
  <2> QED  BY <1>2, <1>3, <2>1, <2>3, <2>4, <2>5
<1>7. ASSUME NEW v \in Users, Credit(v)
      PROVE  wallet'[u] + Total(u, pcs)' = credited'[u] - withdrawn'[u]
  <2> DEFINE extra == IF u = v THEN 1 ELSE 0
  <2>1. wallet'[u] = wallet[u] + extra /\ credited'[u] = credited[u] + extra
    BY <1>1, <1>2, <1>7 DEF Credit, LogCredit, TypeOK
  <2>2. withdrawn' = withdrawn /\ wd' = wd
    BY <1>7 DEF Credit
  <2>3. Total(u, pcs)' = Total(u, pcs)
    BY <2>2, TotalSame
  <2> HIDE DEF pcs
  <2> QED  BY <1>2, <1>3, <2>1, <2>2, <2>3
<1>8. CASE \E v \in Users : GetOneTimePassword(v) \/ OtpExpires(v)
  BY <1>4, <1>8 DEF GetOneTimePassword, OtpExpires
<1>9. CASE \E r \in RefClaims : RefStep(r) /\ ~RefCommit(r)
  BY <1>4, <1>9 DEF RefStep, RefCheck, RefLock, RefReadWallet, RefFail
<1>10. CASE UNCHANGED vars
  BY <1>4, <1>10 DEF vars
<1> HIDE DEF pcs
<1> QED  BY <1>1, <1>5, <1>6, <1>7, <1>8, <1>9, <1>10 DEF Next

LEMMA PasswordsStep == LedgerInv /\ PasswordsUsed /\ [Next]_vars => PasswordsUsed'
<1> SUFFICES ASSUME LedgerInv, PasswordsUsed, [Next]_vars PROVE PasswordsUsed'
  OBVIOUS
<1>0. /\ issued \in Nat /\ \A u \in Users : otp[u] \in Nat
      /\ \A w \in Withdrawals : wd[w].otp \in Nat /\ WUser[w] \in Users
      /\ otp \in [Users -> Nat]
  BY RequestsAssumption DEF LedgerInv, TypeOK, Withdrawal
<1>1. CASE UNCHANGED <<otp, issued, wd>>
  BY <1>1 DEF PasswordsUsed, Passed
<1>2. ASSUME NEW u \in Users, GetOneTimePassword(u) PROVE PasswordsUsed'
  <2>1. issued' = issued + 1 /\ otp' = [otp EXCEPT ![u] = issued + 1] /\ wd' = wd
    BY <1>2 DEF GetOneTimePassword
  <2>2. \A w \in Withdrawals : wd[w].pc # "idle" => wd[w].otp <= issued
    BY <1>0 DEF PasswordsUsed
  <2>3. /\ \A v \in Users : otp'[v] <= issued'
        /\ \A w \in Withdrawals : wd'[w].pc # "idle" => wd'[w].otp \in 1 .. issued'
    BY <1>0, <2>1 DEF PasswordsUsed
  <2>4. \A v, w \in Users : otp'[v] = otp'[w] /\ otp'[v] # 0 => v = w
    BY <1>0, <2>1 DEF PasswordsUsed
  <2>5. \A w \in Withdrawals, v \in Users :
          wd'[w].pc # "idle" /\ v # WUser[w] => otp'[v] # wd'[w].otp
    BY <1>0, <2>1, <2>2 DEF PasswordsUsed
  <2>6. \A w \in Passed' : otp'[WUser[w]] # wd'[w].otp
    BY <1>0, <2>1, <2>2 DEF PasswordsUsed, Passed
  <2> QED  BY <2>3, <2>4, <2>5, <2>6 DEF PasswordsUsed
<1>3. ASSUME NEW u \in Users, otp' = [otp EXCEPT ![u] = 0], issued' = issued,
             \A w \in Withdrawals :
                /\ wd'[w].otp = wd[w].otp
                /\ wd'[w].pc = "idle" <=> wd[w].pc = "idle"
                /\ w \in Passed' => w \in Passed \/ (WUser[w] = u /\ wd[w].pc # "idle")
      PROVE  PasswordsUsed'
  <2>1. \A v \in Users : otp'[v] = IF v = u THEN 0 ELSE otp[v]
    BY <1>0, <1>3
  <2>2. /\ \A v \in Users : otp'[v] <= issued'
        /\ \A v, w \in Users : otp'[v] = otp'[w] /\ otp'[v] # 0 => v = w
    BY <1>0, <1>3, <2>1 DEF PasswordsUsed
  <2>3. \A w \in Withdrawals : wd'[w].pc # "idle" => wd'[w].otp \in 1 .. issued'
    BY <1>3 DEF PasswordsUsed
  <2>4. \A w \in Withdrawals, v \in Users :
          wd'[w].pc # "idle" /\ v # WUser[w] => otp'[v] # wd'[w].otp
    BY <1>0, <1>3, <2>1, <2>3 DEF PasswordsUsed
  <2>5. \A w \in Passed' : otp'[WUser[w]] # wd'[w].otp
    <3> SUFFICES ASSUME NEW w \in Passed' PROVE otp'[WUser[w]] # wd'[w].otp
      OBVIOUS
    <3>1. w \in Withdrawals /\ wd'[w].pc # "idle" /\ wd'[w].otp = wd[w].otp
      BY <1>3 DEF Passed
    <3>2. wd'[w].otp \in 1 .. issued'
      BY <2>3, <3>1
    <3>3. CASE WUser[w] = u
      BY <1>0, <1>3, <2>1, <3>2, <3>3
    <3>4. CASE WUser[w] # u
      <4>1. w \in Passed
        BY <1>3, <3>1, <3>4
      <4> QED  BY <1>0, <2>1, <3>1, <3>4, <4>1 DEF PasswordsUsed
    <3> QED  BY <3>3, <3>4
  <2> QED  BY <2>2, <2>3, <2>4, <2>5 DEF PasswordsUsed
<1>4. ASSUME NEW u \in Users, OtpExpires(u) PROVE PasswordsUsed'
  <2>1. otp' = [otp EXCEPT ![u] = 0] /\ issued' = issued /\ wd' = wd
    BY <1>4 DEF OtpExpires
  <2>2. \A w \in Withdrawals :
          /\ wd'[w].otp = wd[w].otp
          /\ wd'[w].pc = "idle" <=> wd[w].pc = "idle"
          /\ w \in Passed' => w \in Passed \/ (WUser[w] = u /\ wd[w].pc # "idle")
    BY <2>1 DEF Passed
  <2> QED  BY <1>3, <2>1, <2>2
<1>5. ASSUME NEW w \in Withdrawals, WithdrawStep(w) PROVE PasswordsUsed'
  <2>0. \A v \in Withdrawals \ {w} : wd'[v] = wd[v]
    BY <1>5, WithdrawMoves
  <2>1. ASSUME NEW a \in Amounts, WithdrawGetOtp(w, a) PROVE PasswordsUsed'
    <3>1. /\ wd'[w].pc = "otp" /\ wd'[w].otp = otp[WUser[w]] /\ otp[WUser[w]] # 0
          /\ otp' = otp /\ issued' = issued
      BY <2>1, WithdrawPlaces DEF WithdrawGetOtp
    <3>2. otp[WUser[w]] \in 1 .. issued
      BY <1>0, <3>1 DEF PasswordsUsed
    <3>3. \A v \in Withdrawals : v \in Passed' => v \in Passed /\ v # w
      BY <2>0, <3>1 DEF Passed
    <3>4. \A v \in Withdrawals, u \in Users :
            wd'[v].pc # "idle" /\ u # WUser[v] => otp'[u] # wd'[v].otp
      BY <1>0, <2>0, <3>1 DEF PasswordsUsed
    <3>5. \A v \in Withdrawals : wd'[v].pc # "idle" => wd'[v].otp \in 1 .. issued'
      BY <2>0, <3>1, <3>2 DEF PasswordsUsed
    <3>6. \A v \in Passed' : v \in Withdrawals /\ otp'[WUser[v]] # wd'[v].otp
      BY <2>0, <3>1, <3>3 DEF PasswordsUsed, Passed
    <3> QED  BY <3>1, <3>4, <3>5, <3>6 DEF PasswordsUsed
  <2>2. CASE wd[w].pc # "idle"
    <3>1. wd'[w].otp = wd[w].otp
      BY <1>5, <2>2, WithdrawMoves
    <3>2. wd'[w].pc # "idle"
      BY <1>5, WithdrawPlaces DEF WithdrawStep
    <3>3. CASE WithdrawDelOtp(w)
      <4>1. otp' = [otp EXCEPT ![WUser[w]] = 0] /\ issued' = issued
        BY <3>3 DEF WithdrawDelOtp
      <4>2. \A v \in Withdrawals :
              /\ wd'[v].otp = wd[v].otp
              /\ wd'[v].pc = "idle" <=> wd[v].pc = "idle"
              /\ v \in Passed' => v \in Passed \/ (WUser[v] = WUser[w] /\ wd[v].pc # "idle")
        BY <2>0, <2>2, <3>1, <3>2 DEF Passed
      <4>3. WUser[w] \in Users
        BY <1>0
      <4> QED  BY <1>3, <4>1, <4>2, <4>3
    <3>4. CASE ~WithdrawDelOtp(w)
      <4>1. otp' = otp /\ issued' = issued
        BY <1>5, <3>4
        DEF WithdrawStep, WithdrawGetOtp, WithdrawReadWallet, WithdrawCheckPool, WithdrawDebit,
            WithdrawTransfer, WithdrawAnswerLost, WithdrawRefused, WithdrawLog, WithdrawFail
      <4>2. w \in Passed' => w \in Passed
        BY <1>5, <2>2, <3>4, WithdrawPlaces DEF WithdrawStep, Passed
      <4>3. \A v \in Withdrawals : /\ wd'[v].otp = wd[v].otp
                                   /\ wd'[v].pc = "idle" <=> wd[v].pc = "idle"
                                   /\ v \in Passed' => v \in Passed
        BY <2>0, <2>2, <3>1, <3>2, <4>2 DEF Passed
      <4>4. \A v \in Passed' : v \in Withdrawals
        BY DEF Passed
      <4> QED  BY <4>1, <4>3, <4>4 DEF PasswordsUsed
    <3> QED  BY <3>3, <3>4
  <2>3. wd[w].pc = "idle" => \E a \in Amounts : WithdrawGetOtp(w, a)
    BY <1>5, WithdrawPlaces DEF WithdrawStep
  <2> QED  BY <2>1, <2>2, <2>3
<1> QED
  BY <1>1, <1>2, <1>4, <1>5
  DEF Next, Credit, RefStep, RefCheck, RefLock, RefReadWallet, RefCommit, RefFail, vars

LEMMA UsesStep ==
    LedgerInv /\ ReadsFresh /\ PasswordsUsed /\ UsesFresh /\ [HNext]_hvars => UsesFresh'
<1> SUFFICES ASSUME LedgerInv, ReadsFresh, PasswordsUsed, UsesFresh, [HNext]_hvars,
                    ~overlapped'
             PROVE  /\ \A r \in ClaimsInFlight' : ~isClaim'[RInvitee[r]]
                    /\ \A v \in Passed', w \in Withdrawals :
                           wd'[w].pc = "otp" => wd'[v].otp # wd'[w].otp
  BY DEF UsesFresh
<1>1. [Next]_vars /\ ~overlapped
  BY NoOverlap
<1>2. ASSUME NEW r \in ClaimsInFlight' PROVE ~isClaim'[RInvitee[r]]
  <2>1. r \in RefClaims /\ rc'[r].pc \in {"checked", "locked", "read"}
    BY DEF ClaimsInFlight
  <2>2. CASE RefStep(r)
    <3>1. RefCheck(r) \/ RefLock(r) \/ RefReadWallet(r)
      BY <2>1, <2>2, RefMoves DEF RefStep
    <3>2. isClaim' = isClaim
      BY <3>1 DEF RefCheck, RefLock, RefReadWallet
    <3>3. ~isClaim[RInvitee[r]]
      BY <1>1, <2>1, <3>1 DEF RefCheck, RefLock, RefReadWallet, UsesFresh, ClaimsInFlight
    <3> QED  BY <3>2, <3>3
  <2>3. CASE ~RefStep(r)
    <3>1. rc'[r] = rc[r]
      BY <1>1, <2>1, <2>3, OneMoves, RefMoves
    <3>2. r \in ClaimsInFlight
      BY <2>1, <3>1 DEF ClaimsInFlight
    <3>3. \A q \in RefClaims : ~RefCommit(q)
      <4> SUFFICES ASSUME NEW q \in RefClaims, RefCommit(q) PROVE FALSE
        OBVIOUS
      <4>1. q \in ClaimsInFlight
        BY DEF RefCommit, ClaimsInFlight
      <4>2. q = r
        BY <3>2, <4>1, NoOverlap
      <4> QED  BY <2>3, <4>2 DEF RefStep
    <3>4. isClaim' = isClaim
      BY <1>1, <3>3
      DEF Next, GetOneTimePassword, OtpExpires, Credit, WithdrawStep, WithdrawGetOtp,
          WithdrawDelOtp, WithdrawReadWallet, WithdrawCheckPool, WithdrawDebit,
          WithdrawTransfer, WithdrawAnswerLost, WithdrawRefused, WithdrawLog, WithdrawFail,
          RefStep, RefCheck, RefLock, RefReadWallet, RefFail, vars
    <3> QED  BY <1>1, <3>2, <3>4 DEF UsesFresh
  <2> QED  BY <2>2, <2>3
<1>3. ASSUME NEW v \in Passed', NEW w \in Withdrawals, wd'[w].pc = "otp"
      PROVE  wd'[v].otp # wd'[w].otp
  <2>1. v \in Withdrawals /\ v # w /\ wd'[v].pc \notin {"idle", "otp", "failed"}
    BY <1>3 DEF Passed
  <2>2. ASSUME NEW a \in Amounts, WithdrawGetOtp(w, a) PROVE wd'[v].otp # wd'[w].otp
    <3>1. wd'[w].otp = otp[WUser[w]] /\ wd'[v] = wd[v]
      BY <2>1, <2>2, WithdrawPlaces, WithdrawMoves DEF WithdrawStep
    <3>2. v \in Passed
      BY <2>1, <3>1 DEF Passed
    <3>3. WUser[w] \in Users
      BY RequestsAssumption
    <3> QED  BY <2>1, <3>1, <3>2, <3>3 DEF PasswordsUsed, Passed
  <2>3. CASE \A a \in Amounts : ~WithdrawGetOtp(w, a)
    <3>1. ~WithdrawStep(w)
      BY <1>3, <2>3, WithdrawPlaces DEF WithdrawStep
    <3>2. wd'[w] = wd[w] /\ w \in WithdrawalsInFlight
      BY <1>1, <1>3, <3>1, OneMoves, WithdrawMoves DEF WithdrawalsInFlight
    <3>3. wd'[v] = wd[v]
      <4>1. CASE WithdrawStep(v)
        <5>1. wd[v].pc = "idle" \/ v \in WithdrawalsInFlight
          BY <2>1, <4>1, WithdrawPlaces DEF WithdrawStep, WithdrawalsInFlight
        <5>2. v \notin WithdrawalsInFlight
          BY <2>1, <3>2, NoOverlap
        <5>3. wd'[v].pc = "otp"
          BY <2>1, <4>1, <5>1, <5>2, WithdrawPlaces DEF WithdrawStep
        <5> QED  BY <2>1, <5>3
      <4>2. CASE ~WithdrawStep(v)
        BY <1>1, <2>1, <4>2, OneMoves, WithdrawMoves
      <4> QED  BY <4>1, <4>2
    <3>4. v \in Passed
      BY <2>1, <3>3 DEF Passed
    <3> QED  BY <1>1, <1>3, <3>2, <3>3, <3>4 DEF UsesFresh
  <2> QED  BY <2>2, <2>3
<1> QED  BY <1>2, <1>3

LEMMA UsedStep ==
    /\ LedgerInv /\ ReadsFresh /\ UsesFresh /\ ClaimedIffRewarded /\ UsedOnce
    /\ [HNext]_hvars
    => UsedOnce'
<1> SUFFICES ASSUME LedgerInv, ReadsFresh, UsesFresh, ClaimedIffRewarded, UsedOnce,
                    [HNext]_hvars, ~overlapped'
             PROVE  /\ \A i \in Invitees : rewards'[i] <= 1
                    /\ \A v, w \in Passed' : wd'[v].otp = wd'[w].otp => v = w
  BY DEF UsedOnce, Passed
<1>1. [Next]_vars /\ ~overlapped
  BY NoOverlap
<1>2. ASSUME NEW i \in Invitees PROVE rewards'[i] <= 1
  <2>1. rewards[i] \in Nat /\ rewards[i] <= 1
    BY <1>1 DEF UsedOnce, LedgerInv, TypeOK
  <2>2. ASSUME NEW r \in RefClaims, RefCommit(r) PROVE rewards'[i] <= 1
    <3>1. r \in ClaimsInFlight /\ RInvitee[r] \in Invitees
      BY <2>2, RequestsAssumption DEF RefCommit, ClaimsInFlight
    <3>2. ~isClaim[RInvitee[r]]
      BY <1>1, <3>1 DEF UsesFresh
    <3>3. rewards[RInvitee[r]] = 0
      BY <3>1, <3>2 DEF ClaimedIffRewarded, LedgerInv, TypeOK
    <3>4. rewards' = [rewards EXCEPT ![RInvitee[r]] = @ + 1]
      BY <2>2 DEF RefCommit
    <3> QED  BY <2>1, <3>1, <3>3, <3>4 DEF LedgerInv, TypeOK
  <2>3. CASE \A r \in RefClaims : ~RefCommit(r)
    <3>1. rewards' = rewards
      BY <1>1, <2>3
      DEF Next, GetOneTimePassword, OtpExpires, Credit, WithdrawStep, WithdrawGetOtp,
          WithdrawDelOtp, WithdrawReadWallet, WithdrawCheckPool, WithdrawDebit,
          WithdrawTransfer, WithdrawAnswerLost, WithdrawRefused, WithdrawLog, WithdrawFail,
          RefStep, RefCheck, RefLock, RefReadWallet, RefFail, vars
    <3> QED  BY <2>1, <3>1
  <2> QED  BY <2>2, <2>3
\* A withdrawal that passes in this step did not pass with a password used before.
<1>3. ASSUME NEW w \in Passed' PROVE
        /\ w \in Withdrawals
        /\ wd'[w].otp = wd[w].otp
        /\ w \in Passed \/ (WithdrawStep(w) /\ wd[w].pc = "otp")
  <2>1. w \in Withdrawals /\ wd'[w].pc \notin {"idle", "otp", "failed"}
    BY DEF Passed
  <2>2. CASE ~WithdrawStep(w)
    <3>1. wd'[w] = wd[w]
      BY <1>1, <2>1, <2>2, OneMoves, WithdrawMoves
    <3>2. w \in Passed /\ wd'[w].otp = wd[w].otp
      BY <2>1, <3>1 DEF Passed
    <3> QED  BY <2>1, <3>2
  <2>3. CASE WithdrawStep(w)
    <3>1. wd[w].pc # "idle" /\ wd[w].pc # "failed"
      BY <2>1, <2>3, WithdrawPlaces DEF WithdrawStep
    <3>2. wd'[w].otp = wd[w].otp
      BY <2>1, <2>3, <3>1, WithdrawMoves
    <3>3. w \in Passed \/ wd[w].pc = "otp"
      BY <2>1, <3>1 DEF Passed
    <3> QED  BY <2>1, <2>3, <3>2, <3>3
  <2> QED  BY <2>2, <2>3
<1>4. ASSUME NEW v \in Passed', NEW w \in Passed', wd'[v].otp = wd'[w].otp, v # w
      PROVE  FALSE
  <2>1. ASSUME NEW x \in Passed', NEW y \in Passed', x # y, WithdrawStep(x) PROVE y \in Passed
    <3>1. wd'[y] = wd[y]
      BY <1>3, <2>1, WithdrawMoves
    <3> QED  BY <3>1 DEF Passed
  <2>2. v \in Passed \/ w \in Passed
    BY <1>3, <1>4, <2>1
  <2>3. CASE v \in Passed /\ w \in Passed
    BY <1>1, <1>3, <1>4, <2>3 DEF UsedOnce, Passed
  <2>4. CASE v \notin Passed \/ w \notin Passed
    <3>1. \/ v \in Passed /\ wd[w].pc = "otp"
          \/ w \in Passed /\ wd[v].pc = "otp"
      BY <1>3, <2>2, <2>4
    <3> QED  BY <1>1, <1>3, <1>4, <3>1 DEF UsesFresh
  <2> QED  BY <2>3, <2>4
<1> QED  BY <1>2, <1>4

LEMMA HistoryInvariant ==
    HSpec => [](LedgerInv /\ ClaimedIffRewarded /\ HistoryInv /\ Balanced /\ UsedOnce)
<1> DEFINE Inv == LedgerInv /\ ClaimedIffRewarded /\ HistoryInv /\ Balanced /\ UsedOnce
<1>1. HInit => Inv
  <2> SUFFICES ASSUME HInit PROVE Inv
    OBVIOUS
  <2>1. Init /\ ~overlapped
    BY DEF HInit
  <2>2. LedgerInv /\ ClaimedIffRewarded
    BY <2>1, LedgerInit, ClaimedInit
  <2>3. \A w \in Withdrawals : wd[w].pc = "idle" /\ wd[w].amount = 0
    BY <2>1 DEF Init
  <2>4. \A r \in RefClaims : rc[r].pc = "idle"
    BY <2>1 DEF Init
  <2>5. InFlight = 0
    <3>1. WithdrawalsInFlight = {} /\ ClaimsInFlight = {}
      BY <2>3, <2>4 DEF WithdrawalsInFlight, ClaimsInFlight
    <3> QED  BY <3>1, FS_EmptySet DEF InFlight
  <2>6. HistoryInv
    BY <2>1, <2>3, <2>4, <2>5
    DEF HistoryInv, WalletsExist, ReadsFresh, PasswordsUsed, UsesFresh, Passed, ClaimsInFlight,
        Init
  <2>7. UsedOnce
    BY <2>1, <2>3 DEF UsedOnce, Init
  <2>8. Balanced
    <3> SUFFICES ASSUME NEW u \in Users
                 PROVE  GetBalance(u) + Total(u, {"debited", "sent", "lost", "unlogged"})
                            = HistoryTotal(u)
      BY DEF Balanced
    <3> DEFINE pcs == {"debited", "sent", "lost", "unlogged"}
               amounts == [w \in Withdrawals |-> AmountIn(w, u, pcs)]
    <3>1. \A w \in Withdrawals : amounts[w] = 0
      BY <2>3 DEF AmountIn
    <3>2. Total(u, pcs) = SumFunctionOnSet(amounts, Withdrawals)
      BY DEF Total
    <3> HIDE DEF amounts
    <3>3. Total(u, pcs) = Cardinality(Withdrawals) * 0
      BY <3>1, <3>2, SumOfConstant, RequestsAssumption
    <3>4. Cardinality(Withdrawals) \in Nat
      BY FS_CardinalityType, RequestsAssumption
    <3>5. Total(u, pcs) = 0
      BY <3>3, <3>4
    <3>6. GetBalance(u) = 0 /\ HistoryTotal(u) = 0
      BY <2>1 DEF Init, GetBalance, HistoryTotal
    <3> QED  BY <3>5, <3>6
  <2> QED  BY <2>2, <2>6, <2>7, <2>8
<1>2. Inv /\ [HNext]_hvars => Inv'
  <2> SUFFICES ASSUME Inv, [HNext]_hvars PROVE Inv'
    OBVIOUS
  <2>1. [Next]_vars
    BY DEF HNext, hvars
  <2>2. LedgerInv' /\ ClaimedIffRewarded'
    BY <2>1, LedgerStep, ClaimedStep DEF LedgerInv
  <2>3. HistoryInv'
    BY <2>1, ExistStep, FreshStep, PasswordsStep, UsesStep DEF HistoryInv
  <2>4. Balanced' /\ UsedOnce'
    BY <2>2, <2>3, BalanceStep, UsedStep DEF HistoryInv
  <2> QED  BY <2>2, <2>3, <2>4
<1> QED  BY <1>1, <1>2, PTL DEF HSpec

\* As long as no two requests overlapped, the balance a user is shown is what the
\* rows of the transaction history add up to, less what withdrawals took and did not
\* write down, although balances are written as absolute values computed from an
\* earlier read, and whatever fails half way (withdrawBalance, claimReferral).
THEOREM BalanceShown == HSpec => []Balanced
BY HistoryInvariant, PTL

\* As long as no two requests overlapped, no password lets two withdrawals pass and
\* no referral is rewarded twice, whenever passwords are issued, expire and are lost.
THEOREM NothingUsedTwice == HSpec => []UsedOnce
BY HistoryInvariant, PTL

=============================================================================
