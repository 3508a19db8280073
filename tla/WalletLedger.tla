------------------------------ MODULE WalletLedger ------------------------------
(***************************************************************************)
(* The wallet rows and the handlers that write them: a withdrawal to the   *)
(* blockchain (TransactionService.withdrawBalance) and the reward of a     *)
(* referral (UserService.claimReferral), which write the absolute value    *)
(* they computed from an earlier read, and the handlers that increment the *)
(* wallet relatively, in one batch with their row of transaction_log.      *)
(*                                                                         *)
(* A step ends where the code awaits.  A handler's interactive transaction *)
(* is spread over steps: what it writes shows when it commits, and the row *)
(* it updated first stays locked until then.  The wallet update of a       *)
(* withdrawal does not use the transaction's client: it shows at once.     *)
(* Money is counted in tokens; the pool in base units, Unit to a token.    *)
(***************************************************************************)
EXTENDS Integers, FiniteSets, Functions

CONSTANTS
    Users,
    Withdrawals,    \* withdrawal requests; each is made once
    WUser,          \* the user who makes the request
    Amounts,        \* the amounts asked for, in tokens, of either sign
    RefClaims,      \* requests of a referral's reward; each is made once
    Invitees,       \* rows of referral_log
    RInvitee,       \* the invitee a request is about
    Inviter,        \* referral_log.invited_by
    RewardReferral, \* the REWARD_REFERRAL of the environment
    WithWallet,     \* the users whose wallet was created at registration
    Unit,           \* base units of a token: 10^18 in the code
    PoolFunds,      \* base units in the pool wallet initially
    MaxCredit,      \* bound on the relative credits of one user
    MaxOtp,         \* bound on the one-time passwords issued
    MaxInFlight     \* bound on the requests being handled at the same time

ASSUME RequestsAssumption ==
    /\ IsFiniteSet(Withdrawals) /\ WUser \in [Withdrawals -> Users]
    /\ Amounts \subseteq Int
    /\ IsFiniteSet(RefClaims) /\ RInvitee \in [RefClaims -> Invitees]
    /\ Inviter \in [Invitees -> Users]
    /\ RewardReferral \in Nat
    /\ WithWallet \subseteq Users
ASSUME UnitsAssumption == Unit \in Nat \ {0} /\ PoolFunds \in Nat
ASSUME LimitsAssumption ==
    MaxCredit \in Nat /\ MaxOtp \in Nat /\ MaxInFlight \in Nat \ {0}

VARIABLES
    hasWallet,      \* the users with a wallet row
    wallet,         \* wallet.balance, 0 without a row
    credited,       \* total of the user's rows of transaction_log that credit
    isClaim,        \* referral_log.is_claim
    rewards,        \* number of CLAIM_REFERRAL rows an invitee has led to
    otp,            \* the password cached for the user's address, 0 for none
    issued,         \* how many passwords were issued
    sent,           \* tokens transferred to the user on the blockchain
    withdrawn,      \* total of the user's WITHDRAW_BALANCE rows
    pool,           \* base units in the pool wallet
    wd,             \* the withdrawal requests
    rc              \* the requests of rewards

vars == <<hasWallet, wallet, credited, isClaim, rewards, otp, issued, sent, withdrawn,
          pool, wd, rc>>

-----------------------------------------------------------------------------
(* Type definitions *)

Withdrawal == [pc : {"idle", "otp", "verified", "checked", "funded", "debited", "sent",
                     "failed", "lost", "unlogged", "done"},
               amount : Int, otp : Nat, balance : Nat]

RefClaim == [pc : {"idle", "checked", "locked", "read", "failed", "done"},
             found : BOOLEAN, balance : Nat]

TypeOK ==
    /\ hasWallet \in SUBSET Users
    /\ wallet \in [Users -> Nat]
    /\ credited \in [Users -> Nat]
    /\ isClaim \in [Invitees -> BOOLEAN]
    /\ rewards \in [Invitees -> Nat]
    /\ otp \in [Users -> Nat]
    /\ issued \in Nat
    /\ sent \in [Users -> Nat]
    /\ withdrawn \in [Users -> Nat]
    /\ pool \in Nat
    /\ wd \in [Withdrawals -> Withdrawal]
    /\ rc \in [RefClaims -> RefClaim]

-----------------------------------------------------------------------------
(* Helper formulae *)

WithdrawalsInFlight ==
    {w \in Withdrawals :
        wd[w].pc \in {"otp", "verified", "checked", "funded", "debited", "sent"}}
ClaimsInFlight == {r \in RefClaims : rc[r].pc \in {"checked", "locked", "read"}}

MayStart == Cardinality(WithdrawalsInFlight) + Cardinality(ClaimsInFlight) < MaxInFlight

\* The update of the referral_log row is not committed yet: others wait for it.
Locked(i) == \E r \in RefClaims : RInvitee[r] = i /\ rc[r].pc \in {"locked", "read"}

Goto(w, pc) == wd' = [wd EXCEPT ![w].pc = pc]

\* Mutant: the row of the log is forgotten.
LogForgotten(u, amount) == credited' = credited

\* A row of transaction_log that explains a credit of user u.
LogCredit(u, amount) == credited' = [credited EXCEPT ![u] = @ + amount]

\* What the user is shown: a user without a wallet row has nothing.
GetBalance(u) == IF u \in hasWallet THEN wallet[u] ELSE 0

\* What the rows of getTransactionHistory add up to.
HistoryTotal(u) == credited[u] - withdrawn[u]

-----------------------------------------------------------------------------
Init ==
    /\ hasWallet = WithWallet
    /\ wallet = [u \in Users |-> 0]
    /\ credited = [u \in Users |-> 0]
    /\ isClaim = [i \in Invitees |-> FALSE]
    /\ rewards = [i \in Invitees |-> 0]
    /\ otp = [u \in Users |-> 0]
    /\ issued = 0
    /\ sent = [u \in Users |-> 0]
    /\ withdrawn = [u \in Users |-> 0]
    /\ pool = PoolFunds
    /\ wd = [w \in Withdrawals |-> [pc |-> "idle", amount |-> 0, otp |-> 0, balance |-> 0]]
    /\ rc = [r \in RefClaims |-> [pc |-> "idle", found |-> FALSE, balance |-> 0]]

-----------------------------------------------------------------------------
(* The withdrawal *)

GetOneTimePassword(u) ==
    /\ issued < MaxOtp
    /\ issued' = issued + 1
    /\ otp' = [otp EXCEPT ![u] = issued + 1]
    /\ UNCHANGED <<hasWallet, wallet, credited, isClaim, rewards, sent, withdrawn, pool, wd, rc>>

\* The cache forgets the password after five minutes, or when the server restarts.
OtpExpires(u) ==
    /\ otp[u] # 0
    /\ otp' = [otp EXCEPT ![u] = 0]
    /\ UNCHANGED <<hasWallet, wallet, credited, isClaim, rewards, issued, sent, withdrawn,
                   pool, wd, rc>>

WithdrawGetOtp(w, a) ==
    /\ wd[w].pc = "idle"
    /\ MayStart
    /\ otp[WUser[w]] # 0
    /\ wd' = [wd EXCEPT ![w] = [pc |-> "otp", amount |-> a, otp |-> otp[WUser[w]], balance |-> 0]]
    /\ UNCHANGED <<hasWallet, wallet, credited, isClaim, rewards, otp, issued, sent,
                   withdrawn, pool, rc>>

\* Mutant: the password stays in the cache.
WithdrawKeepOtp(w) ==
    /\ wd[w].pc = "otp"
    /\ \E pc \in {"verified", "failed"} : Goto(w, pc)
    /\ UNCHANGED <<hasWallet, wallet, credited, isClaim, rewards, otp, issued, sent,
                   withdrawn, pool, rc>>

\* Forgets the password in the cache, then verifies the signature.
WithdrawDelOtp(w) ==
    /\ wd[w].pc = "otp"
    /\ otp' = [otp EXCEPT ![WUser[w]] = 0]
    /\ \E pc \in {"verified", "failed"} : Goto(w, pc)
    /\ UNCHANGED <<hasWallet, wallet, credited, isClaim, rewards, issued, sent, withdrawn,
                   pool, rc>>

\* wallet.balance.lessThan(amount) is refused; nothing looks at the sign.
Enough(balance, amount) == balance >= amount

WithdrawReadWallet(w) ==
    /\ wd[w].pc = "verified"
    /\ IF WUser[w] \in hasWallet /\ Enough(wallet[WUser[w]], wd[w].amount)
       THEN wd' = [wd EXCEPT ![w].pc = "checked", ![w].balance = wallet[WUser[w]]]
       ELSE Goto(w, "failed")
    /\ UNCHANGED <<hasWallet, wallet, credited, isClaim, rewards, otp, issued, sent,
                   withdrawn, pool, rc>>

\* balanceOf answers in base units, the amount is in tokens: parseUnits scales
\* both alike and the comparison is between the two.
WithdrawCheckPool(w) ==
    /\ wd[w].pc = "checked"
    /\ Goto(w, IF pool < wd[w].amount THEN "failed" ELSE "funded")
    /\ UNCHANGED <<hasWallet, wallet, credited, isClaim, rewards, otp, issued, sent,
                   withdrawn, pool, rc>>

\* An absolute value, committed at once.
WithdrawDebit(w) ==
    /\ wd[w].pc = "funded"
    /\ wallet' = [wallet EXCEPT ![WUser[w]] = wd[w].balance - wd[w].amount]
    /\ Goto(w, "debited")
    /\ UNCHANGED <<hasWallet, credited, isClaim, rewards, otp, issued, sent, withdrawn,
                   pool, rc>>

\* The library encodes no negative number as uint256, and the token contract
\* transfers what the pool has.
Transferable(amount) == amount >= 0 /\ pool >= amount * Unit

WithdrawTransfer(w) ==
    /\ wd[w].pc = "debited"
    /\ Transferable(wd[w].amount)
    /\ pool' = pool - wd[w].amount * Unit
    /\ sent' = [sent EXCEPT ![WUser[w]] = @ + wd[w].amount]
    /\ Goto(w, "sent")
    /\ UNCHANGED <<hasWallet, wallet, credited, isClaim, rewards, otp, issued, withdrawn, rc>>

\* The transfer is under way but the node's answer is lost: the handler throws.
WithdrawAnswerLost(w) ==
    /\ wd[w].pc = "debited"
    /\ Transferable(wd[w].amount)
    /\ pool' = pool - wd[w].amount * Unit
    /\ sent' = [sent EXCEPT ![WUser[w]] = @ + wd[w].amount]
    /\ Goto(w, "unlogged")
    /\ UNCHANGED <<hasWallet, wallet, credited, isClaim, rewards, otp, issued, withdrawn, rc>>

\* One of the two throws: the transaction has nothing to roll back.
WithdrawRefused(w) ==
    /\ wd[w].pc = "debited"
    /\ ~Transferable(wd[w].amount)
    /\ Goto(w, "lost")
    /\ UNCHANGED <<hasWallet, wallet, credited, isClaim, rewards, otp, issued, sent,
                   withdrawn, pool, rc>>

WithdrawLog(w) ==
    /\ wd[w].pc = "sent"
    /\ withdrawn' = [withdrawn EXCEPT ![WUser[w]] = @ + wd[w].amount]
    /\ Goto(w, "done")
    /\ UNCHANGED <<hasWallet, wallet, credited, isClaim, rewards, otp, issued, sent, pool, rc>>

\* Mutant: a request that fails after the transfer makes it again.
WithdrawRetries(w) ==
    /\ w \in WithdrawalsInFlight
    /\ Goto(w, CASE wd[w].pc = "debited" -> "lost"
                 [] wd[w].pc = "sent" -> "debited"
                 [] OTHER -> "failed")
    /\ UNCHANGED <<hasWallet, wallet, credited, isClaim, rewards, otp, issued, sent,
                   withdrawn, pool, rc>>

\* An awaited call fails (node, database, the transaction's five seconds) or the
\* server restarts; nothing that was done is undone.
WithdrawFail(w) ==
    /\ w \in WithdrawalsInFlight
    /\ Goto(w, CASE wd[w].pc = "debited" -> "lost"
                 [] wd[w].pc = "sent" -> "unlogged"
                 [] OTHER -> "failed")
    /\ UNCHANGED <<hasWallet, wallet, credited, isClaim, rewards, otp, issued, sent,
                   withdrawn, pool, rc>>

-----------------------------------------------------------------------------
(* The reward of a referral *)

\* Finds the referral_log row and that its reward was not claimed.
RefCheck(r) ==
    /\ rc[r].pc = "idle"
    /\ MayStart
    /\ ~isClaim[RInvitee[r]]
    /\ rc' = [rc EXCEPT ![r].pc = "checked"]
    /\ UNCHANGED <<hasWallet, wallet, credited, isClaim, rewards, otp, issued, sent,
                   withdrawn, pool, wd>>

\* Mutant: is_claim is set outside the transaction, as a withdrawal's debit is.
RefMarkAtOnce(r) ==
    /\ rc[r].pc = "checked"
    /\ ~Locked(RInvitee[r])
    /\ isClaim' = [isClaim EXCEPT ![RInvitee[r]] = TRUE]
    /\ rc' = [rc EXCEPT ![r].pc = "locked"]
    /\ UNCHANGED <<hasWallet, wallet, credited, rewards, otp, issued, sent, withdrawn,
                   pool, wd>>

\* Begins the transaction: sets is_claim, which locks the row until the end.
RefLock(r) ==
    /\ rc[r].pc = "checked"
    /\ ~Locked(RInvitee[r])
    /\ rc' = [rc EXCEPT ![r].pc = "locked"]
    /\ UNCHANGED <<hasWallet, wallet, credited, isClaim, rewards, otp, issued, sent,
                   withdrawn, pool, wd>>

RefReadWallet(r) ==
    /\ rc[r].pc = "locked"
    /\ LET u == Inviter[RInvitee[r]] IN
       rc' = [rc EXCEPT ![r] = [pc |-> "read", found |-> u \in hasWallet, balance |-> wallet[u]]]
    /\ UNCHANGED <<hasWallet, wallet, credited, isClaim, rewards, otp, issued, sent,
                   withdrawn, pool, wd>>

\* Mutant: the wallet is written as if it were new.
RewardOnly(r) == RewardReferral

\* 0 for a wallet that was not found.
RewardedBalance(r) == rc[r].balance + RewardReferral

\* Creates the wallet, or writes the balance that was read plus the reward, with
\* the row of the log; a wallet that another request created meanwhile violates
\* the primary key, see RefFail.
RefCommit(r) ==
    /\ rc[r].pc = "read"
    /\ LET i == RInvitee[r]
           u == Inviter[i] IN
       /\ rc[r].found \/ u \notin hasWallet
       /\ hasWallet' = hasWallet \cup {u}
       /\ wallet' = [wallet EXCEPT ![u] = RewardedBalance(r)]
       /\ LogCredit(u, RewardReferral)
       /\ isClaim' = [isClaim EXCEPT ![i] = TRUE]
       /\ rewards' = [rewards EXCEPT ![i] = @ + 1]
    /\ rc' = [rc EXCEPT ![r].pc = "done"]
    /\ UNCHANGED <<otp, issued, sent, withdrawn, pool, wd>>

\* The transaction fails, times out or loses the server: all of it is undone.
RefFail(r) ==
    /\ r \in ClaimsInFlight
    /\ rc' = [rc EXCEPT ![r].pc = "failed"]
    /\ UNCHANGED <<hasWallet, wallet, credited, isClaim, rewards, otp, issued, sent,
                   withdrawn, pool, wd>>

-----------------------------------------------------------------------------
(* Relative credits *)

\* The batch of claimProjectProfit, claimProfitForVipUser or finishProject: one
\* statement increments the wallet, another writes the row of the log.
Credit(u) ==
    /\ MayStart
    /\ u \in hasWallet
    /\ credited[u] < MaxCredit
    /\ wallet' = [wallet EXCEPT ![u] = @ + 1]
    /\ LogCredit(u, 1)
    /\ UNCHANGED <<hasWallet, isClaim, rewards, otp, issued, sent, withdrawn, pool, wd, rc>>

-----------------------------------------------------------------------------
WithdrawStep(w) ==
    \/ \E a \in Amounts : WithdrawGetOtp(w, a)
    \/ WithdrawDelOtp(w)
    \/ WithdrawReadWallet(w)
    \/ WithdrawCheckPool(w)
    \/ WithdrawDebit(w)
    \/ WithdrawTransfer(w)
    \/ WithdrawAnswerLost(w)
    \/ WithdrawRefused(w)
    \/ WithdrawLog(w)
    \/ WithdrawFail(w)

RefStep(r) == RefCheck(r) \/ RefLock(r) \/ RefReadWallet(r) \/ RefCommit(r) \/ RefFail(r)

Next ==
    \/ \E u \in Users : GetOneTimePassword(u) \/ OtpExpires(u) \/ Credit(u)
    \/ \E w \in Withdrawals : WithdrawStep(w)
    \/ \E r \in RefClaims : RefStep(r)

Spec == Init /\ [][Next]_vars
-----------------------------------------------------------------------------
(* Properties that hold however requests overlap and fail *)

\* What a withdrawal of a negative amount has added to the wallet of user u.
RaisedBy(w, u) ==
    IF /\ WUser[w] = u
       /\ wd[w].pc \in {"debited", "sent", "lost", "unlogged", "done"}
       /\ wd[w].amount < 0
    THEN -wd[w].amount
    ELSE 0

Raised(u) == SumFunctionOnSet([w \in Withdrawals |-> RaisedBy(w, u)], Withdrawals)

\* All a balance of user u can come from.
Backing(u) == credited[u] + Raised(u)

\* Every token in a wallet was credited by a row of transaction_log, or added by
\* a withdrawal of a negative amount, which withdrawBalance lets pass and no row
\* shows.  Stale absolute writes of withdrawBalance and claimReferral may lose
\* money or bring back what was withdrawn, but add nothing of their own, however
\* old the balance they start from.
WalletBacked == \A u \in Users : wallet[u] <= Backing(u)

\* A referral is marked as claimed exactly when its reward was paid, also when
\* the transaction of claimReferral fails half way.
ClaimedIffRewarded == \A i \in Invitees : isClaim[i] <=> rewards[i] > 0

-----------------------------------------------------------------------------
(* Why: an inductive strengthening *)

\* A withdrawal goes on only with a balance that covers the amount, ...
Covered ==
    \A w \in Withdrawals :
        /\ wd[w].pc \in {"checked", "funded"} => wd[w].amount <= wd[w].balance
        /\ wd[w].pc = "sent" => wd[w].amount >= 0

\* ... and a balance that was read, however long ago, was backed then.
ReadsBacked ==
    /\ \A w \in Withdrawals : wd[w].balance <= Backing(WUser[w])
    /\ \A r \in RefClaims : rc[r].balance <= Backing(Inviter[RInvitee[r]])

LedgerInv == TypeOK /\ Covered /\ ReadsBacked /\ WalletBacked

-----------------------------------------------------------------------------
(* A property that needs positive amounts and withdrawals that do not overlap *)

\* "Balance not enough!": nobody is sent more than was credited.
SentWithinCredits == \A u \in Users : sent[u] <= credited[u]
=============================================================================
