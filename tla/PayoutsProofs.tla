------------------------------ MODULE PayoutsProofs -------------------------------
(***************************************************************************)
(* For any number of users, cards, runs of the job and requests: types,    *)
(* among them that no amount becomes negative, and that wallets and the    *)
(* log agree.                                                              *)
(***************************************************************************)
EXTENDS Payouts, Sums

-----------------------------------------------------------------------------
(* Types *)

LEMMA Product == \A m, n \in Nat : m * n \in Nat
OBVIOUS

LEMMA IdleTypes == IdleRun \in Run /\ NoCard \in Card /\ NoClaim \in Claim
BY BoundsAssumption DEF IdleRun, NoCard, NoClaim, Run, Card, Claim

\* A run goes on with rows it owes, or is over.
LEMMA BookingTypes ==
    ASSUME NEW run \in Run, NEW rows \in SUBSET ToBook(run)
    PROVE  /\ Booking(run, rows) \in Run
           /\ Booking(run, rows).todo = rows
           /\ rows \subseteq ToBook(Booking(run, rows))
           /\ rows = {} => Booking(run, rows) = IdleRun
           /\ rows # {} => /\ Booking(run, rows).pc = run.pc
                           /\ Booking(run, rows).now = run.now
                           /\ Booking(run, rows).quarters = run.quarters
<1>1. CASE rows = {}
  BY <1>1, IdleTypes DEF Booking, IdleRun
<1>2. CASE rows # {}
  <2> DEFINE result == [run EXCEPT !.todo = rows]
  <2>1. result \in Run /\ result.todo = rows /\ result.pc = run.pc
        /\ result.now = run.now /\ result.quarters = run.quarters
        /\ result.cards = run.cards
    BY DEF Run, ToBook
  <2>2. Booking(run, rows) = result
    BY <1>2 DEF Booking
  <2> HIDE DEF result
  <2>3. ToBook(result) = ToBook(run)
    BY <2>1 DEF ToBook, Due
  <2> QED  BY <1>2, <2>1, <2>2, <2>3
<1> QED  BY <1>1, <1>2

\* What a run makes of the cards it read.
LEMMA JobTypes ==
    ASSUME TypeOK, DueCards, NEW r \in Runs, JobStep(r)
    PROVE  job' \in [Runs -> Run] /\ DueCards'
<1>1. job \in [Runs -> Run] /\ job[r] \in Run
  BY DEF TypeOK
<1>2. CASE JobRead(r)
  <2>1. [IdleRun EXCEPT !.pc = "read", !.cards = card, !.quarters = quarters] \in Run
    BY DEF TypeOK, IdleRun, Run
  <2>2. job'[r].todo = {} /\ \A q \in Runs \ {r} : job'[q] = job[q]
    BY <1>1, <1>2 DEF JobRead, IdleRun
  <2>3. job' \in [Runs -> Run]
    BY <1>1, <1>2, <2>1 DEF JobRead
  <2> QED  BY <2>2, <2>3 DEF DueCards
<1>3. CASE JobStart(r)
  <2> DEFINE started == [job[r] EXCEPT !.pc = "booking", !.now = quarter]
             result == Booking(started, ToBook(started))
  <2>1. started \in Run
    BY <1>1 DEF TypeOK, Run
  <2>2. result \in Run /\ result.todo \subseteq ToBook(result)
    <3> HIDE DEF started
    <3> QED  BY <2>1, BookingTypes
  <2>3. job' = [job EXCEPT ![r] = result]
    BY <1>3 DEF JobStart
  <2> HIDE DEF result
  <2>4. job' \in [Runs -> Run] /\ job'[r] = result /\ \A q \in Runs \ {r} : job'[q] = job[q]
    BY <1>1, <2>2, <2>3
  <2> QED  BY <2>2, <2>4 DEF DueCards
<1>4. ASSUME NEW c \in Cards, JobBook(r, c) PROVE job' \in [Runs -> Run] /\ DueCards'
  <2> DEFINE result == Booking(job[r], job[r].todo \ {c})
  <2>1. result \in Run /\ result.todo \subseteq ToBook(result)
    BY <1>1, BookingTypes DEF DueCards
  <2>2. job' = [job EXCEPT ![r] = result]
    BY <1>4 DEF JobBook
  <2> HIDE DEF result
  <2>3. job' \in [Runs -> Run] /\ job'[r] = result /\ \A q \in Runs \ {r} : job'[q] = job[q]
    BY <1>1, <2>1, <2>2
  <2> QED  BY <2>1, <2>3 DEF DueCards
<1>5. CASE JobEnd(r)
  <2>1. job' \in [Runs -> Run]
    BY <1>1, <1>5, IdleTypes DEF JobEnd
  <2>2. job'[r].todo = {} /\ \A q \in Runs \ {r} : job'[q] = job[q]
    BY <1>1, <1>5 DEF JobEnd, IdleRun
  <2> QED  BY <2>1, <2>2 DEF DueCards
<1> QED  BY <1>2, <1>3, <1>4, <1>5 DEF JobStep

\* A row of the change log has a positive number of quarters and an amount.
LEMMA BookedAmount ==
    ASSUME TypeOK, DueCards, NEW r \in Runs, NEW c \in Cards, c \in job[r].todo
    PROVE  Due(job[r], c) \in Nat /\ Due(job[r], c) * job[r].cards[c].profit \in Nat
<1>1. job[r] \in Run /\ c \in ToBook(job[r])
  BY DEF TypeOK, DueCards
<1> DEFINE n == Due(job[r], c)
           profit == job[r].cards[c].profit
<1>2. n \in Nat
  BY <1>1 DEF ToBook, Due, Run
<1>3. profit \in Nat
  <2>1. job[r].cards[c] \in Card
    BY <1>1 DEF Run
  <2>2. profit \in Profits \cup {0}
    BY <2>1 DEF Card
  <2> HIDE DEF profit
  <2>3. Profits \cup {0} \subseteq Nat
    BY AmountsAssumption
  <2> QED  BY <2>2, <2>3
<1> HIDE DEF n, profit
<1>4. n * profit \in Nat
  BY <1>2, <1>3, Product
<1> QED  BY <1>2, <1>4 DEF n, profit

LEMMA TypeStep == TypeOK /\ DueCards /\ [Next]_vars => TypeOK' /\ DueCards'
<1> SUFFICES ASSUME TypeOK, DueCards, [Next]_vars PROVE TypeOK' /\ DueCards'
  OBVIOUS
<1>1. ASSUME NEW c \in Cards, CardStep(c) PROVE TypeOK' /\ DueCards'
  <2>1. \A state \in {"open", "timed", "deleted"}, profit \in Profits \cup {0} :
          [state |-> state, profit |-> profit] \in Card
    BY DEF Card
  <2>2. ASSUME NEW u \in Users, NEW state \in {"open", "timed"}, NEW profit \in Profits,
               CreateVipCard(c, u, state, profit) \/ UpdateVipCard(c, u, state, profit)
        PROVE  TypeOK' /\ DueCards'
    <3>1. [state |-> state, profit |-> profit] \in Card
      BY <2>1
    <3> QED
      BY <2>2, <3>1
      DEF CreateVipCard, UpdateVipCard, TypeOK, DueCards, changeLog, accounts, project
  <2>3. CASE DeleteVipCard(c)
    BY <2>1, <2>3 DEF DeleteVipCard, TypeOK, DueCards, changeLog, accounts, project
  <2> QED  BY <1>1, <2>2, <2>3 DEF CardStep
<1>2. ASSUME NEW r \in Runs, JobStep(r) PROVE TypeOK' /\ DueCards'
  <2>1. job' \in [Runs -> Run] /\ DueCards'
    BY <1>2, JobTypes
  <2>2. CASE JobRead(r) \/ JobStart(r) \/ JobEnd(r)
    BY <2>1, <2>2 DEF JobRead, JobStart, JobEnd, TypeOK, vipCards, changeLog, accounts, project
  <2>3. ASSUME NEW c \in Cards, JobBook(r, c) PROVE TypeOK'
    <3>1. c \in job[r].todo
      BY <2>3 DEF JobBook
    <3> DEFINE n == Due(job[r], c)
               amount == n * job[r].cards[c].profit
    <3>2. n \in Nat /\ amount \in Nat
      BY <3>1, BookedAmount
    <3>3. /\ quarters' = [quarters EXCEPT ![c] = @ + n]
          /\ unclaimed' = [unclaimed EXCEPT ![c] = @ + amount]
      BY <2>3 DEF JobBook
    <3> HIDE DEF n, amount
    <3>4. quarters' \in [Cards -> Nat] /\ unclaimed' \in [Cards -> Nat]
      BY <3>2, <3>3 DEF TypeOK
    <3> QED  BY <2>1, <2>3, <3>4 DEF JobBook, TypeOK, vipCards, accounts, project
  <2> QED  BY <1>2, <2>1, <2>2, <2>3 DEF JobStep
<1>3. ASSUME NEW k \in Claims, ClaimStep(k) PROVE TypeOK' /\ DueCards'
  <2>1. claim \in [Claims -> Claim] /\ NoClaim \in Claim
    BY IdleTypes DEF TypeOK
  <2>2. ASSUME NEW u \in Users, NEW c \in Cards, ClaimRead(k, u, c) PROVE TypeOK' /\ DueCards'
    <3>1. [pc |-> "read", user |-> u, cards |-> {c}, profit |-> unclaimed[c]] \in Claim
      BY DEF TypeOK, Claim
    <3>2. claim' \in [Claims -> Claim]
      BY <2>1, <2>2, <3>1 DEF ClaimRead
    <3> QED
      BY <2>2, <3>2 DEF ClaimRead, TypeOK, DueCards, vipCards, changeLog, accounts, project
  <2>3. CASE ClaimCommit(k)
    <3>1. claim[k].profit \in Nat /\ claim[k].cards \subseteq Cards
      BY <2>1 DEF Claim
    <3>2. vipPaid' \in [Users -> Nat] /\ wallet' \in [WalletHolders -> Nat]
      <4> DEFINE h == claim[k].user
                 paid == claim[k].profit
      <4>1. /\ vipPaid' = [vipPaid EXCEPT ![h] = @ + paid]
            /\ wallet' = [wallet EXCEPT ![h] = @ + paid]
        BY <2>3 DEF ClaimCommit, PayClaim
      <4>2. paid \in Nat /\ h \in WalletHolders /\ h \in Users
        BY <2>3, <3>1, ActorsAssumption DEF ClaimCommit, PayClaim
      <4> HIDE DEF h, paid
      <4> QED  BY <4>1, <4>2 DEF TypeOK
    <3>3. PICK c \in claim[k].cards :
             /\ claimed' = [claimed EXCEPT ![c] = @ + unclaimed[c]]
             /\ unclaimed' = [unclaimed EXCEPT ![c] = 0]
      BY <2>3 DEF ClaimCommit
    <3>4. c \in Cards
      BY <3>1
    <3>5. claimed' \in [Cards -> Nat] /\ unclaimed' \in [Cards -> Nat]
      BY <3>3, <3>4 DEF TypeOK
    <3>6. claim' \in [Claims -> Claim]
      BY <2>1, <2>3 DEF ClaimCommit
    <3> QED
      BY <2>3, <3>2, <3>5, <3>6 DEF ClaimCommit, TypeOK, DueCards, vipCards, project
  <2>4. CASE ClaimFail(k)
    <3>1. claim' \in [Claims -> Claim]
      BY <2>1, <2>4 DEF ClaimFail
    <3> QED
      BY <2>4, <3>1 DEF ClaimFail, TypeOK, DueCards, vipCards, changeLog, accounts, project
  <2> QED  BY <1>3, <2>2, <2>3, <2>4 DEF ClaimStep
<1>4. ASSUME NEW a \in Admins, FinishStep(a) PROVE TypeOK' /\ DueCards'
  <2> DEFINE Finish == [pc : {"idle", "open", "owners"}, owned : [Users -> Nat]]
  <2>1. finish \in [Admins -> Finish] /\ NoFinish \in Finish
    BY DEF TypeOK, NoFinish
  <2>2. CASE FinishRead(a)
    <3>1. [finish[a] EXCEPT !.pc = "open"] \in Finish
      BY <2>1
    <3>2. finish' = [finish EXCEPT ![a] = [finish[a] EXCEPT !.pc = "open"]]
      BY <2>2 DEF FinishRead
    <3>3. finish' \in [Admins -> Finish]
      BY <2>1, <3>1, <3>2
    <3> QED
      BY <2>2, <3>3 DEF FinishRead, TypeOK, DueCards, vipCards, changeLog, accounts, project
  <2>3. CASE FinishOwners(a)
    <3>1. [pc |-> "owners", owned |-> totalNft] \in Finish
      BY DEF TypeOK
    <3>2. finish' \in [Admins -> Finish]
      BY <2>1, <2>3, <3>1 DEF FinishOwners
    <3> QED
      BY <2>3, <3>2 DEF FinishOwners, TypeOK, DueCards, vipCards, changeLog, accounts, project
  <2>4. CASE FinishCommit(a)
    <3>1. \A u \in Users : NftPrice * finish[a].owned[u] \in Nat
      BY <2>1, AmountsAssumption, Product
    <3>2. wallet' \in [WalletHolders -> Nat] /\ repaid' \in [Users -> Nat]
      BY <2>4, <3>1, ActorsAssumption DEF FinishCommit, Repay, TypeOK
    <3>3. finish' \in [Admins -> Finish]
      BY <2>1, <2>4 DEF FinishCommit
    <3> QED  BY <2>4, <3>2, <3>3 DEF FinishCommit, TypeOK, DueCards, vipCards, changeLog
  <2>5. CASE FinishFail(a)
    <3>1. finish' \in [Admins -> Finish]
      BY <2>1, <2>5 DEF FinishFail
    <3> QED
      BY <2>5, <3>1 DEF FinishFail, TypeOK, DueCards, vipCards, changeLog, accounts, project
  <2> QED  BY <1>4, <2>2, <2>3, <2>4, <2>5 DEF FinishStep
<1>5. ASSUME NEW u \in Users, Buy(u) PROVE TypeOK' /\ DueCards'
  BY <1>5 DEF Buy, TypeOK, DueCards, vipCards, changeLog, accounts
<1>6. CASE Tick
  BY <1>6 DEF Tick, TypeOK, DueCards, vipCards, changeLog, accounts, project
<1>7. CASE UNCHANGED vars
  BY <1>7 DEF vars, TypeOK, DueCards, vipCards, changeLog, accounts, project
<1> QED  BY <1>1, <1>2, <1>3, <1>4, <1>5, <1>6, <1>7 DEF Next

\* Everything keeps its type: no amount and no number of quarters becomes negative,
\* although runs book by a change log that is out of date (UserJob.computeProfit).
THEOREM TypeCorrect == Spec => [](TypeOK /\ DueCards)
<1>1. Init => TypeOK
  <2> SUFFICES ASSUME Init PROVE TypeOK
    OBVIOUS
  <2>1. claim \in [Claims -> Claim]
    BY IdleTypes DEF Init
  <2>2. finish \in [Admins -> [pc : {"idle", "open", "owners"}, owned : [Users -> Nat]]]
    <3>1. NoFinish \in [pc : {"idle", "open", "owners"}, owned : [Users -> Nat]]
      BY DEF NoFinish
    <3> QED  BY <3>1 DEF Init
  <2>3. card \in [Cards -> Card] /\ job \in [Runs -> Run] /\ quarter \in Nat
    BY IdleTypes, BoundsAssumption DEF Init
  <2> QED  BY <2>1, <2>2, <2>3 DEF Init, TypeOK
<1>2. Init => DueCards
  BY DEF Init, DueCards, IdleRun
<1> QED  BY <1>1, <1>2, TypeStep, PTL DEF Spec

-----------------------------------------------------------------------------
(* Wallets *)

LEMMA WalletStep == TypeOK /\ WalletsMatchLog /\ [Next]_vars => WalletsMatchLog'
<1> SUFFICES ASSUME TypeOK, WalletsMatchLog, [Next]_vars PROVE WalletsMatchLog'
  OBVIOUS
<1>1. CASE UNCHANGED accounts
  BY <1>1 DEF WalletsMatchLog, accounts
<1>2. ASSUME NEW k \in Claims, ClaimCommit(k) PROVE WalletsMatchLog'
  <2> DEFINE h == claim[k].user
             paid == claim[k].profit
  <2>1. paid \in Nat
    BY DEF TypeOK, Claim
  <2>2. /\ h \in WalletHolders /\ repaid' = repaid
        /\ vipPaid' = [vipPaid EXCEPT ![h] = @ + paid]
        /\ wallet' = [wallet EXCEPT ![h] = @ + paid]
    BY <1>2 DEF ClaimCommit, PayClaim
  <2> HIDE DEF h, paid
  <2> QED  BY <2>1, <2>2, ActorsAssumption DEF WalletsMatchLog, TypeOK
<1>3. ASSUME NEW a \in Admins, FinishCommit(a) PROVE WalletsMatchLog'
  <2>1. \A u \in Users : finish[a].owned[u] \in Nat
    BY DEF TypeOK
  <2>2. /\ \A u \in Users : finish[a].owned[u] > 0 => u \in WalletHolders
        /\ wallet' = [u \in WalletHolders |-> wallet[u] + NftPrice * finish[a].owned[u]]
        /\ repaid' = [u \in Users |-> repaid[u] + NftPrice * finish[a].owned[u]]
        /\ vipPaid' = vipPaid
    BY <1>3 DEF FinishCommit, Repay
  <2>3. ASSUME NEW u \in Users PROVE
          IF u \in WalletHolders THEN wallet'[u] = vipPaid'[u] + repaid'[u]
                                 ELSE vipPaid'[u] = 0 /\ repaid'[u] = 0
    <3> DEFINE price == NftPrice * finish[a].owned[u]
    <3>1. price \in Nat /\ (finish[a].owned[u] = 0 => price = 0)
      BY <2>1, Product, AmountsAssumption
    <3>2. /\ u \in WalletHolders => wallet'[u] = wallet[u] + price
          /\ repaid'[u] = repaid[u] + price
      BY <2>2
    <3> HIDE DEF price
    <3>3. CASE u \in WalletHolders
      BY <2>2, <3>1, <3>2, <3>3 DEF WalletsMatchLog, TypeOK
    <3>4. CASE u \notin WalletHolders
      <4>1. finish[a].owned[u] = 0
        BY <2>1, <2>2, <3>4
      <4> QED  BY <2>2, <3>1, <3>2, <3>4, <4>1 DEF WalletsMatchLog
    <3> QED  BY <3>3, <3>4
  <2> QED  BY <2>3 DEF WalletsMatchLog
<1> QED
  BY <1>1, <1>2, <1>3
  DEF Next, CardStep, CreateVipCard, UpdateVipCard, DeleteVipCard, JobStep, JobRead, JobStart,
      JobBook, JobEnd, ClaimStep, ClaimRead, ClaimFail, FinishStep, FinishRead, FinishOwners,
      FinishFail, Buy, Tick, vars

\* Every wallet holds what the log says was paid into it, and nobody without a
\* wallet is paid, for any number of claims and of ends of the project that overlap
\* and fail (claimProfitForVipUser, finishProject).
THEOREM WalletsTrue == Spec => []WalletsMatchLog
<1>1. Init => WalletsMatchLog
  BY ActorsAssumption DEF Init, WalletsMatchLog
<1> QED  BY <1>1, WalletStep, TypeCorrect, PTL
     DEF Spec

-----------------------------------------------------------------------------
(* The end of the project *)

\* What the admins who are not ending the project may have repaid to u.
RepaidBy(u) == [a \in Admins |-> IF finish[a].pc = "idle" THEN NftPrice * totalNft[u] ELSE 0]

\* Who is ending the project did not repay anyone yet, having found it open, and
\* will repay no more than the NFTs an owner has now.
RepaidByOthers ==
    /\ \A u \in Users : ~ended => repaid[u] = 0
    /\ \A u \in Users : repaid[u] <= SumFunctionOnSet(RepaidBy(u), Admins)
    /\ \A a \in Admins, u \in Users :
            finish[a].pc = "owners" => finish[a].owned[u] <= totalNft[u]

\* RepaidBy is a sum of natural numbers, that only grows as long as no admin leaves
\* the idle state and no NFT is sold.
LEMMA RepaidByGrows ==
    ASSUME TypeOK, TypeOK', NEW u \in Users, totalNft[u] <= totalNft'[u],
           \A a \in Admins : finish[a].pc = "idle" => finish'[a].pc = "idle"
    PROVE  /\ SumFunctionOnSet(RepaidBy(u), Admins) \in Nat
           /\ SumFunctionOnSet(RepaidBy(u), Admins) <= SumFunctionOnSet(RepaidBy(u)', Admins)
           /\ SumFunctionOnSet(RepaidBy(u)', Admins) \in Nat
<1> DEFINE before == NftPrice * totalNft[u]
           after == NftPrice * totalNft'[u]
<1>1. totalNft[u] \in Nat /\ totalNft'[u] \in Nat /\ NftPrice \in Nat
  BY AmountsAssumption DEF TypeOK
<1>2. \A p, m, n \in Nat : m <= n => p * m <= p * n
  OBVIOUS
<1>3. before \in Nat /\ after \in Nat /\ before <= after
  BY <1>1, <1>2, Product
<1>4. \A a \in Admins :
        /\ RepaidBy(u)[a] = IF finish[a].pc = "idle" THEN before ELSE 0
        /\ RepaidBy(u)'[a] = IF finish'[a].pc = "idle" THEN after ELSE 0
  BY DEF RepaidBy
<1> HIDE DEF before, after
<1>5. \A a \in Admins : /\ RepaidBy(u)[a] \in Nat /\ RepaidBy(u)'[a] \in Nat
                        /\ RepaidBy(u)[a] <= RepaidBy(u)'[a]
  BY <1>3, <1>4
<1> QED  BY <1>5, SumMonotone, SumNat, ActorsAssumption

LEMMA RepaidStep ==
    TypeOK /\ TypeOK' /\ RepaidByOthers /\ [Next]_vars => RepaidByOthers'
<1> SUFFICES ASSUME TypeOK, TypeOK', RepaidByOthers, [Next]_vars PROVE RepaidByOthers'
  OBVIOUS
<1>1. \A u \in Users : /\ repaid[u] \in Nat /\ repaid'[u] \in Nat
                       /\ totalNft[u] \in Nat /\ totalNft'[u] \in Nat
  BY DEF TypeOK
<1>2. ASSUME repaid' = repaid, ended' = ended,
             \A u \in Users : totalNft[u] <= totalNft'[u],
             \A a \in Admins : finish[a].pc = "idle" => finish'[a].pc = "idle",
             \A a \in Admins, u \in Users :
                finish'[a].pc = "owners" => finish'[a].owned[u] <= totalNft'[u]
      PROVE  RepaidByOthers'
  <2>1. ASSUME NEW u \in Users PROVE repaid'[u] <= SumFunctionOnSet(RepaidBy(u)', Admins)
    <3>1. repaid[u] <= SumFunctionOnSet(RepaidBy(u), Admins)
      BY DEF RepaidByOthers
    <3> QED  BY <1>1, <1>2, <3>1, RepaidByGrows
  <2> QED  BY <1>2, <2>1 DEF RepaidByOthers
<1>3. CASE UNCHANGED <<accounts, project, finish>>
  <2>1. repaid' = repaid /\ ended' = ended /\ totalNft' = totalNft /\ finish' = finish
    BY <1>3 DEF accounts, project
  <2> QED  BY <1>1, <1>2, <2>1 DEF RepaidByOthers
<1>4. ASSUME NEW k \in Claims, ClaimCommit(k) PROVE RepaidByOthers'
  <2>1. repaid' = repaid /\ ended' = ended /\ totalNft' = totalNft /\ finish' = finish
    BY <1>4 DEF ClaimCommit, project
  <2> QED  BY <1>1, <1>2, <2>1 DEF RepaidByOthers
<1>5. ASSUME NEW u \in Users, Buy(u) PROVE RepaidByOthers'
  <2>1. repaid' = repaid /\ ended' = ended /\ finish' = finish
    BY <1>5 DEF Buy, accounts
  <2>2. \A v \in Users : totalNft[v] <= totalNft'[v]
    BY <1>1, <1>5 DEF Buy, TypeOK
  <2>3. \A a \in Admins, v \in Users :
          finish[a].pc = "owners" => finish[a].owned[v] <= totalNft'[v]
    BY <1>1, <2>2 DEF RepaidByOthers, TypeOK
  <2> QED  BY <1>2, <2>1, <2>2, <2>3
<1>6. ASSUME NEW a \in Admins, FinishOwners(a) \/ FinishFail(a) PROVE RepaidByOthers'
  <2>1. repaid' = repaid /\ ended' = ended /\ totalNft' = totalNft
    BY <1>6 DEF FinishOwners, FinishFail, accounts, project
  <2>2. \A b \in Admins : b # a => finish'[b] = finish[b]
    BY <1>6 DEF FinishOwners, FinishFail, TypeOK
  <2>3. finish[a].pc # "idle"
    BY <1>6 DEF FinishOwners, FinishFail
  <2>4. \/ finish'[a].pc = "owners" /\ finish'[a].owned = totalNft
        \/ finish'[a].pc = "idle"
    BY <1>6 DEF FinishOwners, FinishFail, NoFinish, TypeOK
  <2> QED  BY <1>1, <1>2, <2>1, <2>2, <2>3, <2>4 DEF RepaidByOthers
<1>7. ASSUME NEW a \in Admins, FinishRead(a) PROVE RepaidByOthers'
  <2>1. ~ended' /\ repaid' = repaid /\ totalNft' = totalNft
    BY <1>7 DEF FinishRead, accounts, project
  <2>2. \A u \in Users : repaid'[u] = 0
    BY <1>7, <2>1 DEF FinishRead, RepaidByOthers
  <2>3. \A u \in Users : SumFunctionOnSet(RepaidBy(u)', Admins) \in Nat
    <3> SUFFICES ASSUME NEW u \in Users PROVE SumFunctionOnSet(RepaidBy(u)', Admins) \in Nat
      OBVIOUS
    <3> DEFINE price == NftPrice * totalNft'[u]
    <3>1. price \in Nat
      BY <1>1, Product, AmountsAssumption
    <3>2. \A b \in Admins : RepaidBy(u)'[b] = IF finish'[b].pc = "idle" THEN price ELSE 0
      BY DEF RepaidBy
    <3> HIDE DEF price
    <3> QED  BY <3>1, <3>2, SumNat, ActorsAssumption
  <2>4. \A b \in Admins : finish'[b].pc = "owners" => finish'[b] = finish[b]
    BY <1>7 DEF FinishRead, TypeOK
  <2> QED  BY <2>1, <2>2, <2>3, <2>4 DEF RepaidByOthers
<1>8. ASSUME NEW a \in Admins, FinishCommit(a) PROVE RepaidByOthers'
  <2>1. /\ finish[a].pc = "owners" /\ ended' = TRUE /\ totalNft' = totalNft
        /\ finish'[a].pc = "idle" /\ \A b \in Admins : b # a => finish'[b] = finish[b]
        /\ \A u \in Users : repaid'[u] = repaid[u] + NftPrice * finish[a].owned[u]
    BY <1>8 DEF FinishCommit, Repay, NoFinish, TypeOK
  <2>2. ASSUME NEW u \in Users PROVE repaid'[u] <= SumFunctionOnSet(RepaidBy(u)', Admins)
    <3> DEFINE price == NftPrice * totalNft[u]
               paid == NftPrice * finish[a].owned[u]
               before == RepaidBy(u)
               after == RepaidBy(u)'
    <3>1. finish[a].owned[u] \in Nat /\ finish[a].owned[u] <= totalNft[u]
      BY <2>1 DEF RepaidByOthers, TypeOK
    <3>2. price \in Nat /\ paid \in Nat /\ paid <= price
      <4>1. \A p, m, n \in Nat : m <= n => p * m <= p * n
        OBVIOUS
      <4> QED  BY <1>1, <3>1, <4>1, Product, AmountsAssumption
    <3>3. \A b \in Admins : /\ before[b] = IF finish[b].pc = "idle" THEN price ELSE 0
                            /\ after[b] = IF finish'[b].pc = "idle" THEN price ELSE 0
      BY <2>1 DEF RepaidBy
    <3>4. repaid'[u] = repaid[u] + paid /\ repaid[u] <= SumFunctionOnSet(before, Admins)
      BY <2>1 DEF RepaidByOthers
    <3> HIDE DEF price, paid, before, after
    <3>5. /\ \A b \in Admins : before[b] \in Int
          /\ after[a] = price /\ before[a] = 0
          /\ \A b \in Admins \ {a} : after[b] = before[b]
      BY <2>1, <3>2, <3>3
    <3>6. SumFunctionOnSet(after, Admins) = SumFunctionOnSet(before, Admins) + (price - 0)
      BY <3>2, <3>5, SumChange, ActorsAssumption
    <3>7. SumFunctionOnSet(before, Admins) \in Int
      BY <3>5, SumType, ActorsAssumption
    <3>8. repaid'[u] <= SumFunctionOnSet(after, Admins)
      BY <1>1, <3>2, <3>4, <3>6, <3>7
    <3> QED  BY <3>8 DEF after
  <2>3. \A b \in Admins, u \in Users :
          finish'[b].pc = "owners" => finish'[b].owned[u] <= totalNft'[u]
    BY <2>1 DEF RepaidByOthers
  <2> QED  BY <2>1, <2>2, <2>3 DEF RepaidByOthers
<1> QED
  BY <1>3, <1>4, <1>5, <1>6, <1>7, <1>8
  DEF Next, CardStep, CreateVipCard, UpdateVipCard, DeleteVipCard, JobStep, JobRead, JobStart,
      JobBook, JobEnd, ClaimStep, ClaimRead, ClaimFail, FinishStep, Tick, vars

LEMMA RepaidInvariant == Spec => []RepaidByOthers
<1>1. Init => RepaidByOthers
  <2> SUFFICES ASSUME Init PROVE RepaidByOthers
    OBVIOUS
  <2>1. ASSUME NEW u \in Users PROVE 0 <= SumFunctionOnSet(RepaidBy(u), Admins)
    <3>1. \A a \in Admins : RepaidBy(u)[a] = NftPrice * 0
      BY <2>1 DEF RepaidBy, Init, NoFinish
    <3>2. NftPrice * 0 = 0
      BY AmountsAssumption
    <3> QED  BY <3>1, <3>2, SumNat, ActorsAssumption
  <2> QED  BY <2>1 DEF Init, RepaidByOthers, NoFinish
<1> QED  BY <1>1, RepaidStep, TypeCorrect, PTL DEF Spec

\* Nobody is repaid while the project goes on, and who owns NFTs is repaid at most
\* once by each admin, for no more than those NFTs, however many end the project at
\* once, fail and start over while NFTs are bought (finishProject).
THEOREM RepaidRight == Spec => []RepaidAtTheEnd
<1>1. TypeOK /\ RepaidByOthers => RepaidAtTheEnd
  <2> SUFFICES ASSUME TypeOK, RepaidByOthers, NEW u \in Users
               PROVE  /\ repaid[u] > 0 => ended
                      /\ repaid[u] <= Cardinality(Admins) * NftPrice * totalNft[u]
    BY DEF RepaidAtTheEnd
  <2> DEFINE price == NftPrice * totalNft[u]
             most == [a \in Admins |-> price]
  <2>1. price \in Nat /\ totalNft[u] \in Nat /\ repaid[u] \in Nat
    BY Product, AmountsAssumption DEF TypeOK
  <2>2. \A a \in Admins : RepaidBy(u)[a] = IF finish[a].pc = "idle" THEN price ELSE 0
    BY DEF RepaidBy
  <2>3. /\ SumFunctionOnSet(RepaidBy(u), Admins) <= SumFunctionOnSet(most, Admins)
        /\ SumFunctionOnSet(RepaidBy(u), Admins) \in Nat
    <3> HIDE DEF price
    <3>1. \A a \in Admins : /\ RepaidBy(u)[a] \in Nat /\ most[a] \in Nat
                            /\ RepaidBy(u)[a] <= most[a]
      BY <2>1, <2>2
    <3> HIDE DEF most
    <3> QED  BY <3>1, SumMonotone, SumNat, ActorsAssumption
  <2>4. SumFunctionOnSet(most, Admins) = Cardinality(Admins) * price
    <3> HIDE DEF price
    <3>1. \A a \in Admins : most[a] = price
      OBVIOUS
    <3> HIDE DEF most
    <3> QED  BY <2>1, <3>1, SumOfConstant, ActorsAssumption
  <2>5. Cardinality(Admins) * price = Cardinality(Admins) * NftPrice * totalNft[u]
    <3>1. \A l, m, n \in Nat : l * (m * n) = l * m * n
      OBVIOUS
    <3> QED  BY <2>1, <3>1, FS_CardinalityType, ActorsAssumption, AmountsAssumption
  <2>6. repaid[u] <= SumFunctionOnSet(RepaidBy(u), Admins)
    BY DEF RepaidByOthers
  <2>7. SumFunctionOnSet(most, Admins) \in Nat
    <3>1. Cardinality(Admins) \in Nat
      BY FS_CardinalityType, ActorsAssumption
    <3> HIDE DEF price, most
    <3> QED  BY <2>1, <2>4, <3>1, Product
  <2>8. repaid[u] <= Cardinality(Admins) * NftPrice * totalNft[u]
    <3> HIDE DEF price, most
    <3> QED  BY <2>1, <2>3, <2>4, <2>5, <2>6, <2>7
  <2> QED  BY <2>1, <2>8 DEF RepaidByOthers
<1> QED  BY <1>1, RepaidInvariant, TypeCorrect, PTL

-----------------------------------------------------------------------------
(* The nightly job *)

LesserOf(m, n) == IF m <= n THEN m ELSE n

\* How many quarters the log may hold of card c without what run r still books.
RoomLeftBy(c) ==
    [r \in Runs |->
        CASE job[r].pc = "read" -> LesserOf(quarter, job[r].quarters[c])
          [] job[r].pc = "booking" /\ c \in job[r].todo -> quarter - Due(job[r], c)
          [] OTHER -> quarter]

\* A run counts from a time that is over, and the log has room for what it books.
RoomForRuns ==
    /\ \A r \in Runs : job[r].now <= quarter
    /\ \A c \in Cards : quarters[c] <= SumFunctionOnSet(RoomLeftBy(c), Runs)

\* A run leaves room for at most all quarters that have passed.
LEMMA RoomType ==
    ASSUME TypeOK, DueCards, RoomForRuns, NEW c \in Cards, NEW r \in Runs
    PROVE  RoomLeftBy(c)[r] \in Nat /\ RoomLeftBy(c)[r] <= quarter
<1>1. job[r] \in Run /\ quarter \in Nat /\ job[r].now <= quarter
  BY DEF TypeOK, RoomForRuns
<1>2. job[r].now \in Nat /\ job[r].quarters[c] \in Nat
  BY <1>1 DEF Run
<1>3. CASE job[r].pc = "booking" /\ c \in job[r].todo
  <2>1. Due(job[r], c) \in Nat
    BY <1>3, BookedAmount
  <2>2. Due(job[r], c) <= quarter
    BY <1>1, <1>2 DEF Due
  <2> QED  BY <1>1, <1>3, <2>1, <2>2 DEF RoomLeftBy
<1>4. CASE ~(job[r].pc = "booking" /\ c \in job[r].todo)
  BY <1>1, <1>2, <1>4 DEF RoomLeftBy, LesserOf
<1> QED  BY <1>3, <1>4

\* A step that books nothing and takes room from no run keeps the invariant.
LEMMA RoomGrows ==
    ASSUME TypeOK, DueCards, RoomForRuns, TypeOK', DueCards', quarters' = quarters,
           \A r \in Runs : job'[r].now <= quarter',
           \A c \in Cards, r \in Runs : RoomLeftBy(c)[r] <= RoomLeftBy(c)'[r],
           \A c \in Cards, r \in Runs : RoomLeftBy(c)'[r] \in Int
    PROVE  RoomForRuns'
<1> SUFFICES ASSUME NEW c \in Cards
             PROVE  quarters[c] <= SumFunctionOnSet(RoomLeftBy(c)', Runs)
  BY DEF RoomForRuns
<1> DEFINE before == RoomLeftBy(c)
           after == RoomLeftBy(c)'
<1>1. \A r \in Runs : before[r] \in Int /\ after[r] \in Int /\ before[r] <= after[r]
  BY RoomType
<1>2. quarters[c] <= SumFunctionOnSet(before, Runs) /\ quarters[c] \in Nat
  BY DEF RoomForRuns, TypeOK
<1> HIDE DEF before, after
<1>3. /\ SumFunctionOnSet(before, Runs) <= SumFunctionOnSet(after, Runs)
      /\ SumFunctionOnSet(before, Runs) \in Int /\ SumFunctionOnSet(after, Runs) \in Int
  BY <1>1, SumMonotone, SumType, ActorsAssumption
<1>4. quarters[c] <= SumFunctionOnSet(after, Runs)
  BY <1>2, <1>3
<1> QED  BY <1>4 DEF after

\* What run r takes or gives back is all that changes for card c.
LEMMA RoomChange ==
    ASSUME TypeOK, DueCards, RoomForRuns, NEW c \in Cards, NEW r \in Runs,
           RoomLeftBy(c)'[r] \in Int,
           \A q \in Runs \ {r} : RoomLeftBy(c)'[q] = RoomLeftBy(c)[q]
    PROVE  /\ SumFunctionOnSet(RoomLeftBy(c)', Runs)
                = SumFunctionOnSet(RoomLeftBy(c), Runs)
                    + (RoomLeftBy(c)'[r] - RoomLeftBy(c)[r])
           /\ SumFunctionOnSet(RoomLeftBy(c), Runs) \in Int
           /\ RoomLeftBy(c)[r] <= SumFunctionOnSet(RoomLeftBy(c), Runs)
<1> DEFINE before == RoomLeftBy(c)
           after == RoomLeftBy(c)'
<1>1. \A q \in Runs : before[q] \in Nat
  BY RoomType
<1>2. after[r] \in Int /\ \A q \in Runs \ {r} : after[q] = before[q]
  OBVIOUS
<1> HIDE DEF before, after
<1>3. SumFunctionOnSet(after, Runs) = SumFunctionOnSet(before, Runs) + (after[r] - before[r])
  BY <1>1, <1>2, SumChange, ActorsAssumption
<1>4. SumFunctionOnSet(before, Runs) \in Nat /\ before[r] <= SumFunctionOnSet(before, Runs)
  BY <1>1, SumNat, ActorsAssumption
<1> QED  BY <1>3, <1>4 DEF before, after

LEMMA RoomStep ==
    /\ TypeOK /\ DueCards /\ RoomForRuns /\ [Next]_vars /\ TypeOK' /\ DueCards'
    => RoomForRuns'
<1> SUFFICES ASSUME TypeOK, DueCards, RoomForRuns, [Next]_vars, TypeOK', DueCards'
             PROVE  RoomForRuns'
  OBVIOUS
<1>0. /\ quarter \in Nat /\ job \in [Runs -> Run] /\ \A r \in Runs : job[r].now <= quarter
      /\ \A c \in Cards : quarters[c] \in Nat
  BY DEF TypeOK, RoomForRuns
<1>1. CASE UNCHANGED <<quarter, quarters, job>>
  BY <1>1 DEF RoomForRuns, RoomLeftBy, Due
<1>2. CASE Tick
  <2>1. quarter' = quarter + 1 /\ job' = job /\ quarters' = quarters
    BY <1>2 DEF Tick, changeLog
  <2>2. ASSUME NEW c \in Cards, NEW r \in Runs
        PROVE  RoomLeftBy(c)'[r] \in Int /\ RoomLeftBy(c)[r] <= RoomLeftBy(c)'[r]
    <3>1. job[r].now \in Nat /\ job[r].quarters[c] \in Nat
      BY <1>0 DEF Run
    <3>2. Due(job[r], c) \in Int
      BY <3>1 DEF Due
    <3> QED  BY <1>0, <2>1, <3>1, <3>2 DEF RoomLeftBy, LesserOf, Due
  <2>3. \A r \in Runs : job'[r].now <= quarter'
    <3> SUFFICES ASSUME NEW r \in Runs PROVE job[r].now <= quarter + 1
      BY <2>1
    <3>1. job[r].now \in Nat
      BY <1>0 DEF Run
    <3> QED  BY <1>0, <3>1
  <2> QED  BY <2>1, <2>2, <2>3, RoomGrows
<1>3. ASSUME NEW r \in Runs, JobStep(r) PROVE RoomForRuns'
  <2>1. quarter' = quarter /\ \A q \in Runs \ {r} : job'[q] = job[q]
    BY <1>0, <1>3 DEF JobStep, JobRead, JobStart, JobBook, JobEnd
  <2>2. \A c \in Cards, q \in Runs \ {r} :
          RoomLeftBy(c)'[q] = RoomLeftBy(c)[q] /\ RoomLeftBy(c)[q] \in Nat
    BY <2>1, RoomType DEF RoomLeftBy, Due
  <2>3. CASE JobRead(r)
    <3>1. /\ job[r].pc = "idle" /\ quarters' = quarters
          /\ job'[r].pc = "read" /\ job'[r].quarters = quarters /\ job'[r].now = 0
      BY <1>0, <2>3 DEF JobRead, IdleRun, changeLog
    <3>2. \A q \in Runs : job'[q].now <= quarter'
      BY <1>0, <2>1, <3>1
    <3>3. ASSUME NEW c \in Cards
          PROVE  quarters'[c] <= SumFunctionOnSet(RoomLeftBy(c)', Runs)
      <4>1. /\ RoomLeftBy(c)[r] = quarter
            /\ RoomLeftBy(c)'[r] = LesserOf(quarter, quarters[c])
        BY <2>1, <3>1 DEF RoomLeftBy
      <4>2. RoomLeftBy(c)'[r] \in Int
        BY <1>0, <4>1 DEF LesserOf
      <4>3. /\ SumFunctionOnSet(RoomLeftBy(c)', Runs)
                 = SumFunctionOnSet(RoomLeftBy(c), Runs)
                     + (RoomLeftBy(c)'[r] - RoomLeftBy(c)[r])
            /\ SumFunctionOnSet(RoomLeftBy(c), Runs) \in Int
            /\ RoomLeftBy(c)[r] <= SumFunctionOnSet(RoomLeftBy(c), Runs)
        BY <2>2, <4>2, RoomChange
      <4>4. quarters[c] <= SumFunctionOnSet(RoomLeftBy(c), Runs)
        BY DEF RoomForRuns
      <4> QED  BY <1>0, <3>1, <4>1, <4>3, <4>4 DEF LesserOf
    <3> QED  BY <3>2, <3>3 DEF RoomForRuns
  <2>4. CASE JobStart(r)
    <3> DEFINE started == [job[r] EXCEPT !.pc = "booking", !.now = quarter]
               result == Booking(started, ToBook(started))
    <3>1. job[r].pc = "read" /\ quarters' = quarters /\ job'[r] = result
      BY <1>0, <2>4 DEF JobStart, changeLog
    <3>2. /\ result = IdleRun /\ result.pc = "idle" /\ result.now = 0
          \/ /\ result.pc = "booking" /\ result.now = quarter
             /\ result.quarters = job[r].quarters
      <4>1. /\ started \in Run /\ started.pc = "booking" /\ started.now = quarter
            /\ started.quarters = job[r].quarters
        BY <1>0 DEF Run
      <4> HIDE DEF started
      <4>2. CASE ToBook(started) = {}
        BY <4>2 DEF Booking, IdleRun
      <4>3. CASE ToBook(started) # {}
        BY <4>1, <4>3, BookingTypes
      <4> QED  BY <4>2, <4>3
    <3> HIDE DEF result
    <3>3. \A q \in Runs : job'[q].now <= quarter'
      BY <1>0, <2>1, <3>1, <3>2
    <3>4. ASSUME NEW c \in Cards
          PROVE  RoomLeftBy(c)'[r] \in Int /\ RoomLeftBy(c)[r] <= RoomLeftBy(c)'[r]
      <4>1. job[r].quarters[c] \in Nat
        BY <1>0 DEF Run
      <4>2. RoomLeftBy(c)[r] = LesserOf(quarter, job[r].quarters[c])
        BY <3>1 DEF RoomLeftBy
      <4>3. \/ RoomLeftBy(c)'[r] = quarter
            \/ RoomLeftBy(c)'[r] = quarter - (quarter - job[r].quarters[c])
        BY <2>1, <3>1, <3>2 DEF RoomLeftBy, Due
      <4> QED  BY <1>0, <4>1, <4>2, <4>3 DEF LesserOf
    <3>5. \A c \in Cards, q \in Runs :
            RoomLeftBy(c)'[q] \in Int /\ RoomLeftBy(c)[q] <= RoomLeftBy(c)'[q]
      BY <2>2, <3>4
    <3> QED  BY <3>1, <3>3, <3>5, RoomGrows
  <2>5. ASSUME NEW d \in Cards, JobBook(r, d) PROVE RoomForRuns'
    <3> DEFINE n == Due(job[r], d)
               result == Booking(job[r], job[r].todo \ {d})
    <3>1. /\ job[r].pc = "booking" /\ d \in job[r].todo /\ job'[r] = result
          /\ quarters' = [quarters EXCEPT ![d] = @ + n]
      BY <1>0, <2>5 DEF JobBook
    <3>2. /\ result.todo = job[r].todo \ {d}
          /\ \/ result.pc = "idle" /\ result.now = 0 /\ result.todo = {}
             \/ /\ result.pc = "booking" /\ result.now = job[r].now
                /\ result.quarters = job[r].quarters
      <4>1. job[r].todo \ {d} \subseteq ToBook(job[r])
        BY DEF DueCards
      <4>2. IdleRun.pc = "idle" /\ IdleRun.now = 0
        BY DEF IdleRun
      <4> QED  BY <1>0, <3>1, <4>1, <4>2, BookingTypes
    <3>3. n \in Nat
      BY <3>1, BookedAmount
    <3> HIDE DEF result
    <3>4. ASSUME NEW c \in Cards
          PROVE  quarters'[c] <= SumFunctionOnSet(RoomLeftBy(c)', Runs)
      <4>1. CASE c = d
        <5>1. RoomLeftBy(c)[r] = quarter - n /\ RoomLeftBy(c)'[r] = quarter
          BY <2>1, <3>1, <3>2, <4>1 DEF RoomLeftBy
        <5> HIDE DEF n
        <5>2. /\ SumFunctionOnSet(RoomLeftBy(c)', Runs)
                   = SumFunctionOnSet(RoomLeftBy(c), Runs) + n
              /\ SumFunctionOnSet(RoomLeftBy(c), Runs) \in Int
          <6>1. RoomLeftBy(c)'[r] \in Int
            BY <1>0, <5>1
          <6> QED  BY <1>0, <2>2, <3>3, <5>1, <6>1, RoomChange
        <5>3. quarters[c] <= SumFunctionOnSet(RoomLeftBy(c), Runs)
          BY DEF RoomForRuns
        <5>4. quarters'[c] = quarters[c] + n
          BY <3>1, <4>1 DEF TypeOK
        <5> QED  BY <1>0, <3>3, <5>2, <5>3, <5>4
      <4>2. CASE c # d
        <5>1. /\ result.pc = "booking" => Due(result, c) = Due(job[r], c)
              /\ c \in result.todo <=> c \in job[r].todo
          BY <3>2, <4>2 DEF Due
        <5>2. RoomLeftBy(c)'[r] = RoomLeftBy(c)[r]
          BY <2>1, <3>1, <3>2, <5>1 DEF RoomLeftBy
        <5>3. RoomLeftBy(c)[r] \in Nat
          BY RoomType
        <5>4. /\ SumFunctionOnSet(RoomLeftBy(c)', Runs)
                   = SumFunctionOnSet(RoomLeftBy(c), Runs)
                       + (RoomLeftBy(c)'[r] - RoomLeftBy(c)[r])
              /\ SumFunctionOnSet(RoomLeftBy(c), Runs) \in Int
          BY <2>2, <5>2, <5>3, RoomChange
        <5>5. SumFunctionOnSet(RoomLeftBy(c)', Runs) = SumFunctionOnSet(RoomLeftBy(c), Runs)
          BY <5>2, <5>3, <5>4
        <5>6. quarters'[c] = quarters[c]
          BY <3>1, <4>2 DEF TypeOK
        <5> QED  BY <5>5, <5>6 DEF RoomForRuns
      <4> QED  BY <4>1, <4>2
    <3>5. \A q \in Runs : job'[q].now <= quarter'
      BY <1>0, <2>1, <3>1, <3>2
    <3> QED  BY <3>4, <3>5 DEF RoomForRuns
  <2>6. CASE JobEnd(r)
    <3>1. quarters' = quarters /\ job'[r].pc = "idle" /\ job'[r].now = 0
      BY <1>0, <2>6 DEF JobEnd, IdleRun, changeLog
    <3>2. \A c \in Cards : RoomLeftBy(c)'[r] = quarter
      BY <2>1, <3>1 DEF RoomLeftBy
    <3>3. \A c \in Cards, q \in Runs :
            RoomLeftBy(c)'[q] \in Int /\ RoomLeftBy(c)[q] <= RoomLeftBy(c)'[q]
      BY <1>0, <2>2, <3>2, RoomType
    <3>4. \A q \in Runs : job'[q].now <= quarter'
      BY <1>0, <2>1, <3>1
    <3> QED  BY <3>1, <3>3, <3>4, RoomGrows
  <2> QED  BY <1>3, <2>3, <2>4, <2>5, <2>6 DEF JobStep
<1> QED
  BY <1>1, <1>2, <1>3
  DEF Next, CardStep, CreateVipCard, UpdateVipCard, DeleteVipCard, ClaimStep, ClaimRead,
      ClaimCommit, ClaimFail, FinishStep, FinishRead, FinishOwners, FinishCommit, FinishFail,
      Buy, vars, changeLog

LEMMA RoomInvariant == Spec => []RoomForRuns
<1>1. Init => RoomForRuns
  <2> SUFFICES ASSUME Init PROVE RoomForRuns
    OBVIOUS
  <2>1. quarter \in Nat /\ \A r \in Runs : job[r].now = 0 /\ job[r].pc = "idle"
    BY BoundsAssumption DEF Init, IdleRun
  <2>2. ASSUME NEW c \in Cards PROVE 0 <= SumFunctionOnSet(RoomLeftBy(c), Runs)
    <3>1. \A r \in Runs : RoomLeftBy(c)[r] = quarter
      BY <2>1 DEF RoomLeftBy
    <3> QED  BY <2>1, <3>1, SumNat, ActorsAssumption
  <2> QED  BY <2>1, <2>2 DEF Init, RoomForRuns
<1> QED  BY <1>1, RoomStep, TypeCorrect, PTL DEF Spec

\* No card has more quarters booked than passed for each run that may overlap, so a
\* single job books no quarter twice, however often it ends before its time, cards
\* change and time passes between its reading and its booking (UserJob.computeProfit).
THEOREM BookedRight == Spec => []BookedWithinQuarters
<1>1. TypeOK /\ DueCards /\ RoomForRuns => BookedWithinQuarters
  <2> SUFFICES ASSUME TypeOK, DueCards, RoomForRuns, NEW c \in Cards
               PROVE  quarters[c] <= Cardinality(Runs) * quarter
    BY DEF BookedWithinQuarters
  <2> DEFINE room == RoomLeftBy(c)
             most == [r \in Runs |-> quarter]
  <2>1. quarter \in Nat /\ quarters[c] \in Nat
    BY DEF TypeOK
  <2>2. \A r \in Runs : /\ room[r] \in Nat /\ most[r] \in Nat
                        /\ room[r] <= most[r] /\ most[r] = quarter
    BY <2>1, RoomType
  <2>3. quarters[c] <= SumFunctionOnSet(room, Runs)
    BY DEF RoomForRuns
  <2> HIDE DEF room, most
  <2>4. /\ SumFunctionOnSet(room, Runs) <= SumFunctionOnSet(most, Runs)
        /\ SumFunctionOnSet(room, Runs) \in Nat /\ SumFunctionOnSet(most, Runs) \in Nat
    BY <2>2, SumMonotone, SumNat, ActorsAssumption
  <2>5. SumFunctionOnSet(most, Runs) = Cardinality(Runs) * quarter
    BY <2>1, <2>2, SumOfConstant, ActorsAssumption
  <2> QED  BY <2>1, <2>3, <2>4, <2>5
<1> QED  BY <1>1, RoomInvariant, TypeCorrect, PTL

-----------------------------------------------------------------------------
(* VIP cards *)

\* Cards that are not deleted have a holder, and rows of the log such a card.
RowsHaveCards ==
    \A c \in Cards :
        /\ Live(c) => holder[c] \in Users
        /\ unclaimed[c] > 0 => quarters[c] > 0
        /\ quarters[c] > 0 => Live(c)

LEMMA CardsStep ==
    TypeOK /\ DueCards /\ RowsHaveCards /\ [Next]_vars => RowsHaveCards'
<1> SUFFICES ASSUME TypeOK, DueCards, RowsHaveCards, [Next]_vars PROVE RowsHaveCards'
  OBVIOUS
<1>0. \A c \in Cards : quarters[c] \in Nat /\ unclaimed[c] \in Nat
  BY DEF TypeOK
<1>1. CASE UNCHANGED <<vipCards, changeLog>>
  BY <1>1 DEF vipCards, changeLog, RowsHaveCards, Live
<1>2. ASSUME NEW c \in Cards, CardStep(c) PROVE RowsHaveCards'
  <2>1. /\ changeLog' = changeLog
        /\ \A d \in Cards \ {c} : card'[d] = card[d] /\ holder'[d] = holder[d]
    BY <1>2 DEF CardStep, CreateVipCard, UpdateVipCard, DeleteVipCard, TypeOK
  <2>2. \A d \in Cards \ {c} : Live(d)' <=> Live(d)
    BY <2>1 DEF Live
  <2>3. Live(c)' => holder'[c] \in Users
    BY <1>0, <1>2 DEF CardStep, CreateVipCard, UpdateVipCard, DeleteVipCard, RowsHaveCards,
                      Live, TypeOK
  <2>4. quarters[c] > 0 => Live(c)'
    BY <1>0, <1>2 DEF CardStep, CreateVipCard, UpdateVipCard, DeleteVipCard, RowsHaveCards,
                      Live, TypeOK
  <2> QED  BY <2>1, <2>2, <2>3, <2>4 DEF RowsHaveCards, changeLog
<1>3. ASSUME NEW r \in Runs, NEW d \in Cards, JobBook(r, d) PROVE RowsHaveCards'
  <2> DEFINE n == Due(job[r], d)
             amount == n * job[r].cards[d].profit
  <2>1. d \in job[r].todo /\ Live(d) /\ vipCards' = vipCards
    BY <1>3 DEF JobBook
  <2>2. n \in Nat /\ n >= 1 /\ amount \in Nat
    BY <2>1, BookedAmount DEF DueCards, ToBook
  <2>3. /\ quarters' = [quarters EXCEPT ![d] = @ + n]
        /\ unclaimed' = [unclaimed EXCEPT ![d] = @ + amount]
    BY <1>3 DEF JobBook
  <2> HIDE DEF n, amount
  <2>4. \A c \in Cards : (Live(c)' <=> Live(c)) /\ holder'[c] = holder[c]
    BY <2>1 DEF Live, vipCards
  <2>5. quarters'[d] > 0 /\ \A c \in Cards \ {d} : quarters'[c] = quarters[c]
                                                   /\ unclaimed'[c] = unclaimed[c]
    BY <1>0, <2>2, <2>3 DEF TypeOK
  <2> QED  BY <2>1, <2>4, <2>5 DEF RowsHaveCards
<1>4. ASSUME NEW k \in Claims, ClaimCommit(k) PROVE RowsHaveCards'
  <2>1. PICK d \in claim[k].cards : unclaimed' = [unclaimed EXCEPT ![d] = 0]
    BY <1>4 DEF ClaimCommit
  <2>2. vipCards' = vipCards /\ quarters' = quarters
    BY <1>4 DEF ClaimCommit
  <2>3. \A c \in Cards : unclaimed'[c] > 0 => unclaimed[c] > 0
    BY <1>0, <2>1 DEF TypeOK
  <2> QED  BY <2>2, <2>3 DEF RowsHaveCards, Live, vipCards
<1> QED
  BY <1>1, <1>2, <1>3, <1>4
  DEF Next, JobStep, JobRead, JobStart, JobEnd, ClaimStep, ClaimRead, ClaimFail, FinishStep,
      FinishRead, FinishOwners, FinishCommit, FinishFail, Buy, Tick, vars

LEMMA CardsInvariant == Spec => []RowsHaveCards
<1>1. Init => RowsHaveCards
  BY DEF Init, RowsHaveCards, Live, NoCard
<1> QED  BY <1>1, CardsStep, TypeCorrect, PTL DEF Spec

\* What is booked has a card that somebody holds and can claim it by, although the job
\* books by a list that is out of date while admins delete cards and give them to
\* others (UserJob.computeProfit, updateVipCard, deleteVipCard).
THEOREM NothingBookedIsLost == Spec => []BookedProfitHasHolder
<1>1. TypeOK /\ RowsHaveCards => BookedProfitHasHolder
  BY DEF TypeOK, RowsHaveCards, BookedProfitHasHolder
<1> QED  BY <1>1, CardsInvariant, TypeCorrect, PTL

-----------------------------------------------------------------------------
(* Claims *)

TheOne(cards) == CHOOSE c \in cards : TRUE

\* What claim k has read and the log no longer shows as unclaimed.
Overdrawn(k) ==
    IF claim[k].pc = "read"
    THEN LET c == TheOne(claim[k].cards) IN
         IF claim[k].profit <= unclaimed[c] THEN 0 ELSE claim[k].profit - unclaimed[c]
    ELSE 0

\* How much each client may have been paid before what it read.
PayableBefore == [k \in Claims |-> ClaimedWorth - Overdrawn(k)]

Paid == SumFunctionOnSet(vipPaid, Users)

PaidBeforeReads ==
    /\ \A k \in Claims : claim[k].pc = "read" => \E c \in Cards : claim[k].cards = {c}
    /\ Paid <= SumFunctionOnSet(PayableBefore, Claims)

LEMMA TotalTypes ==
    ASSUME TypeOK
    PROVE  ClaimedWorth \in Nat /\ Paid \in Nat
<1>1. \A c \in Cards : claimed[c] \in Nat
  BY DEF TypeOK
<1>2. \A u \in Users : vipPaid[u] \in Nat
  BY DEF TypeOK
<1> QED  BY <1>1, <1>2, SumNat, ActorsAssumption DEF ClaimedWorth, Paid

LEMMA TotalTypesNext ==
    ASSUME TypeOK'
    PROVE  ClaimedWorth' \in Nat /\ Paid' \in Nat
<1>1. \A c \in Cards : claimed'[c] \in Nat
  BY DEF TypeOK
<1>2. \A u \in Users : vipPaid'[u] \in Nat
  BY DEF TypeOK
<1>3. SumFunctionOnSet(claimed', Cards) \in Nat /\ SumFunctionOnSet(vipPaid', Users) \in Nat
  BY <1>1, <1>2, SumNat, ActorsAssumption
<1> QED  BY <1>3 DEF ClaimedWorth, Paid

\* A set of one card.
LEMMA TheOneIs == \A c, cards : cards = {c} => TheOne(cards) = c
BY DEF TheOne

LEMMA OverdrawnType ==
    ASSUME TypeOK, PaidBeforeReads, NEW k \in Claims
    PROVE  /\ Overdrawn(k) \in Nat
           /\ claim[k].pc # "read" => Overdrawn(k) = 0
           /\ \A c : claim[k].pc = "read" /\ claim[k].cards = {c} =>
                /\ Overdrawn(k) = IF claim[k].profit <= unclaimed[c]
                                  THEN 0 ELSE claim[k].profit - unclaimed[c]
                /\ c \in Cards
<1>1. claim[k].profit \in Nat /\ \A c \in Cards : unclaimed[c] \in Nat
  BY DEF TypeOK, Claim
<1>2. ASSUME NEW c, claim[k].pc = "read", claim[k].cards = {c}
      PROVE  /\ Overdrawn(k) = IF claim[k].profit <= unclaimed[c]
                               THEN 0 ELSE claim[k].profit - unclaimed[c]
             /\ c \in Cards
  <2>1. TheOne(claim[k].cards) = c
    BY <1>2, TheOneIs
  <2>2. c \in Cards
    BY <1>2 DEF PaidBeforeReads
  <2> QED  BY <1>2, <2>1, <2>2 DEF Overdrawn
<1>3. CASE claim[k].pc = "read"
  <2>1. PICK c \in Cards : claim[k].cards = {c}
    BY <1>3 DEF PaidBeforeReads
  <2>2. Overdrawn(k) \in Nat
    BY <1>1, <1>2, <1>3, <2>1
  <2> QED  BY <1>2, <1>3, <2>2
<1>4. CASE claim[k].pc # "read"
  BY <1>2, <1>4 DEF Overdrawn
<1> QED  BY <1>3, <1>4

\* What each client may have been paid, before a step and after it.
LEMMA PayableType ==
    ASSUME TypeOK, TypeOK', PaidBeforeReads, \A k \in Claims : Overdrawn(k)' \in Nat
    PROVE  /\ \A k \in Claims : /\ PayableBefore[k] = ClaimedWorth - Overdrawn(k)
                                /\ PayableBefore'[k] = ClaimedWorth' - Overdrawn(k)'
                                /\ PayableBefore[k] \in Int /\ PayableBefore'[k] \in Int
           /\ SumFunctionOnSet(PayableBefore, Claims) \in Int
           /\ SumFunctionOnSet(PayableBefore', Claims) \in Int
<1>1. ASSUME NEW k \in Claims
      PROVE  /\ PayableBefore[k] = ClaimedWorth - Overdrawn(k)
             /\ PayableBefore'[k] = ClaimedWorth' - Overdrawn(k)'
             /\ PayableBefore[k] \in Int /\ PayableBefore'[k] \in Int
  <2>1. Overdrawn(k) \in Nat /\ Overdrawn(k)' \in Nat
    BY OverdrawnType
  <2>2. /\ PayableBefore[k] = ClaimedWorth - Overdrawn(k)
        /\ PayableBefore'[k] = ClaimedWorth' - Overdrawn(k)'
    BY DEF PayableBefore
  <2> QED  BY <2>1, <2>2, TotalTypes, TotalTypesNext
<1> QED  BY <1>1, SumType, ActorsAssumption

\* A step that pays nobody and marks no row, and after which no client has read more
\* that is gone, keeps the sums in order.
LEMMA PayableGrows ==
    ASSUME TypeOK, TypeOK', PaidBeforeReads, vipPaid' = vipPaid, claimed' = claimed,
           \A k \in Claims : Overdrawn(k)' \in Nat /\ Overdrawn(k)' <= Overdrawn(k)
    PROVE  Paid' <= SumFunctionOnSet(PayableBefore', Claims)
<1> DEFINE before == PayableBefore
           after == PayableBefore'
<1>1. ClaimedWorth' = ClaimedWorth /\ Paid' = Paid
  BY DEF ClaimedWorth, Paid
<1>2. /\ \A k \in Claims : /\ before[k] = ClaimedWorth - Overdrawn(k)
                           /\ after[k] = ClaimedWorth' - Overdrawn(k)'
                           /\ before[k] \in Int /\ after[k] \in Int
      /\ SumFunctionOnSet(before, Claims) \in Int
      /\ SumFunctionOnSet(after, Claims) \in Int
  BY PayableType
<1>3. Paid <= SumFunctionOnSet(before, Claims)
  BY DEF PaidBeforeReads
<1> HIDE DEF before, after
<1>4. \A k \in Claims : before[k] \in Int /\ after[k] \in Int /\ before[k] <= after[k]
  BY <1>1, <1>2, OverdrawnType, TotalTypes
<1>5. SumFunctionOnSet(before, Claims) <= SumFunctionOnSet(after, Claims)
  BY <1>4, SumMonotone, ActorsAssumption
<1>6. Paid' <= SumFunctionOnSet(after, Claims)
  BY <1>1, <1>2, <1>3, <1>5, TotalTypes
<1> QED  BY <1>6 DEF after

\* The wallet is paid what client k read, and the card's rows are worth that much at
\* least, those that others marked in between included.
LEMMA CommitPays ==
    ASSUME TypeOK, TypeOK', PaidBeforeReads, NEW k \in Claims, ClaimCommit(k)
    PROVE  PaidBeforeReads'
<1>1. PICK c \in Cards : claim[k].cards = {c}
  BY DEF ClaimCommit, PaidBeforeReads
<1> DEFINE h == claim[k].user
           gone == unclaimed[c]
           paid == claim[k].profit
<1>2. /\ claimed' = [claimed EXCEPT ![c] = @ + gone]
      /\ unclaimed' = [unclaimed EXCEPT ![c] = 0]
      /\ vipPaid' = [vipPaid EXCEPT ![h] = @ + paid]
      /\ claim' = [claim EXCEPT ![k] = NoClaim] /\ claim[k].pc = "read"
  BY <1>1 DEF ClaimCommit, PayClaim
<1>3. h \in Users /\ gone \in Nat /\ paid \in Nat
  BY ActorsAssumption DEF ClaimCommit, PayClaim, TypeOK, Claim
<1> HIDE DEF h, gone, paid
<1>4. claim'[k].pc = "idle" /\ \A j \in Claims \ {k} : claim'[j] = claim[j]
  BY <1>2 DEF NoClaim, TypeOK
<1>5. \A j \in Claims : claim'[j].pc = "read" => \E d \in Cards : claim'[j].cards = {d}
  BY <1>4 DEF PaidBeforeReads
<1>6. ASSUME NEW j \in Claims, NEW d \in Cards,
             claim[j].pc = "read", claim[j].cards = {d}, j # k
      PROVE  Overdrawn(j)' = IF claim[j].profit <= unclaimed'[d]
                             THEN 0 ELSE claim[j].profit - unclaimed'[d]
  <2>1. claim'[j] = claim[j]
    BY <1>4, <1>6
  <2>2. TheOne(claim[j].cards) = d
    BY <1>6, TheOneIs
  <2> QED  BY <1>6, <2>1, <2>2 DEF Overdrawn
\* A client that read card c has it marked by this step, one that read another card
\* does not.
<1>7. ASSUME NEW j \in Claims
      PROVE  /\ Overdrawn(j)' \in Nat
             /\ Overdrawn(j)' <= Overdrawn(j) + gone
             /\ j = k => Overdrawn(j)' = 0 /\ Overdrawn(j) + gone >= paid
  <2>1. Overdrawn(j) \in Nat
    BY OverdrawnType
  <2>2. CASE j = k
    <3>1. Overdrawn(j)' = 0
      BY <1>4, <2>2 DEF Overdrawn
    <3>2. Overdrawn(j) = IF paid <= gone THEN 0 ELSE paid - gone
      BY <1>1, <1>2, <2>2, OverdrawnType DEF paid, gone
    <3> QED  BY <1>3, <2>1, <2>2, <3>1, <3>2
  <2>3. CASE j # k /\ claim[j].pc # "read"
    <3>1. Overdrawn(j)' = 0 /\ Overdrawn(j) = 0
      BY <1>4, <2>3 DEF Overdrawn
    <3> QED  BY <1>3, <2>3, <3>1
  <2>4. CASE j # k /\ claim[j].pc = "read"
    <3>1. PICK d \in Cards : claim[j].cards = {d}
      BY <2>4 DEF PaidBeforeReads
    <3>2. /\ Overdrawn(j) = IF claim[j].profit <= unclaimed[d]
                            THEN 0 ELSE claim[j].profit - unclaimed[d]
          /\ Overdrawn(j)' = IF claim[j].profit <= unclaimed'[d]
                             THEN 0 ELSE claim[j].profit - unclaimed'[d]
      BY <1>6, <2>4, <3>1, OverdrawnType
    <3>3. claim[j].profit \in Nat /\ unclaimed[d] \in Nat
      BY DEF TypeOK, Claim
    <3>4. CASE d = c
      <4>1. unclaimed'[d] = 0 /\ unclaimed[d] = gone
        BY <1>2, <3>4 DEF gone, TypeOK
      <4> QED  BY <1>3, <2>4, <3>2, <3>3, <4>1
    <3>5. CASE d # c
      <4>1. unclaimed'[d] = unclaimed[d]
        BY <1>2, <3>5 DEF TypeOK
      <4> QED  BY <1>3, <2>4, <3>2, <3>3, <4>1
    <3> QED  BY <3>4, <3>5
  <2> QED  BY <2>2, <2>3, <2>4
<1>8. ClaimedWorth' = ClaimedWorth + gone
  <2>1. /\ \A d \in Cards : claimed[d] \in Int
        /\ claimed'[c] = claimed[c] + gone /\ claimed'[c] \in Int
        /\ \A d \in Cards \ {c} : claimed'[d] = claimed[d]
    BY <1>2, <1>3 DEF TypeOK
  <2>2. SumFunctionOnSet(claimed', Cards)
          = SumFunctionOnSet(claimed, Cards) + (claimed'[c] - claimed[c])
    BY <2>1, SumChange, ActorsAssumption
  <2>3. SumFunctionOnSet(claimed, Cards) \in Int
    BY <2>1, SumType, ActorsAssumption
  <2> QED  BY <1>3, <2>1, <2>2, <2>3 DEF ClaimedWorth
<1>9. Paid' = Paid + paid
  <2>1. /\ \A u \in Users : vipPaid[u] \in Int
        /\ vipPaid'[h] = vipPaid[h] + paid /\ vipPaid'[h] \in Int
        /\ \A u \in Users \ {h} : vipPaid'[u] = vipPaid[u]
    BY <1>2, <1>3 DEF TypeOK
  <2>2. SumFunctionOnSet(vipPaid', Users)
          = SumFunctionOnSet(vipPaid, Users) + (vipPaid'[h] - vipPaid[h])
    BY <1>3, <2>1, SumChange, ActorsAssumption
  <2>3. SumFunctionOnSet(vipPaid, Users) \in Int
    BY <2>1, SumType, ActorsAssumption
  <2> QED  BY <1>3, <2>1, <2>2, <2>3 DEF Paid
<1>10. Paid' <= SumFunctionOnSet(PayableBefore', Claims)
  <2> DEFINE before == PayableBefore
             after == PayableBefore'
  <2>1. /\ \A j \in Claims : /\ before[j] = ClaimedWorth - Overdrawn(j)
                             /\ after[j] = ClaimedWorth' - Overdrawn(j)'
                             /\ before[j] \in Int /\ after[j] \in Int
        /\ SumFunctionOnSet(before, Claims) \in Int
        /\ SumFunctionOnSet(after, Claims) \in Int
    BY <1>7, PayableType
  <2>2. Paid <= SumFunctionOnSet(before, Claims) /\ Paid \in Nat /\ ClaimedWorth \in Nat
    BY TotalTypes DEF PaidBeforeReads
  <2> HIDE DEF before, after
  <2>3. \A j \in Claims : before[j] \in Int /\ after[j] \in Int /\ before[j] <= after[j]
    <3> SUFFICES ASSUME NEW j \in Claims PROVE before[j] <= after[j]
      BY <2>1
    <3>1. Overdrawn(j) \in Nat /\ Overdrawn(j)' \in Nat /\ Overdrawn(j)' <= Overdrawn(j) + gone
      BY <1>7, OverdrawnType
    <3> QED  BY <1>3, <1>8, <2>1, <2>2, <3>1
  <2>4. before[k] + paid <= after[k]
    <3>1. Overdrawn(k)' = 0 /\ Overdrawn(k) + gone >= paid /\ Overdrawn(k) \in Nat
      BY <1>7, OverdrawnType
    <3> QED  BY <1>3, <1>8, <2>1, <2>2, <3>1
  <2>5. SumFunctionOnSet(before, Claims) + paid <= SumFunctionOnSet(after, Claims)
    BY <1>3, <2>3, <2>4, ActorsAssumption, SumGain
  <2>6. Paid' <= SumFunctionOnSet(after, Claims)
    BY <1>3, <1>9, <2>1, <2>2, <2>5
  <2> QED  BY <2>6 DEF after
<1> QED  BY <1>5, <1>10 DEF PaidBeforeReads

LEMMA PaidStep ==
    /\ TypeOK /\ DueCards /\ PaidBeforeReads /\ [Next]_vars /\ TypeOK'
    => PaidBeforeReads'
<1> SUFFICES ASSUME TypeOK, DueCards, PaidBeforeReads, [Next]_vars, TypeOK'
             PROVE  PaidBeforeReads'
  OBVIOUS
<1>1. CASE UNCHANGED <<changeLog, vipPaid, claim>>
  <2>1. claimed' = claimed /\ unclaimed' = unclaimed /\ vipPaid' = vipPaid /\ claim' = claim
    BY <1>1 DEF changeLog
  <2>2. \A k \in Claims : Overdrawn(k)' \in Nat /\ Overdrawn(k)' <= Overdrawn(k)
    <3>1. \A k \in Claims : Overdrawn(k)' = Overdrawn(k) /\ Overdrawn(k) \in Nat
      BY <2>1, OverdrawnType DEF Overdrawn
    <3> QED  BY <3>1
  <2>3. Paid' <= SumFunctionOnSet(PayableBefore', Claims)
    BY <2>1, <2>2, PayableGrows
  <2> QED  BY <2>1, <2>3 DEF PaidBeforeReads
<1>2. ASSUME NEW r \in Runs, NEW d \in Cards, JobBook(r, d) PROVE PaidBeforeReads'
  <2> DEFINE amount == Due(job[r], d) * job[r].cards[d].profit
  <2>1. claimed' = claimed /\ vipPaid' = vipPaid /\ claim' = claim
    BY <1>2 DEF JobBook, accounts
  <2>2. unclaimed' = [unclaimed EXCEPT ![d] = @ + amount]
    BY <1>2 DEF JobBook
  <2>3. amount \in Nat
    BY <1>2, BookedAmount DEF JobBook
  <2> HIDE DEF amount
  <2>4. \A c \in Cards : /\ unclaimed[c] \in Nat /\ unclaimed'[c] \in Nat
                         /\ unclaimed[c] <= unclaimed'[c]
    BY <2>2, <2>3 DEF TypeOK
  <2>5. ASSUME NEW k \in Claims PROVE Overdrawn(k)' \in Nat /\ Overdrawn(k)' <= Overdrawn(k)
    <3>1. claim[k].profit \in Nat
      BY DEF TypeOK, Claim
    <3>2. CASE claim[k].pc = "read"
      <4>1. PICK c \in Cards : claim[k].cards = {c}
        BY <3>2 DEF PaidBeforeReads
      <4>2. /\ TheOne(claim'[k].cards) = c
            /\ claim'[k].pc = "read" /\ claim'[k].profit = claim[k].profit
        BY <2>1, <3>2, <4>1, TheOneIs
      <4>3. /\ Overdrawn(k) = IF claim[k].profit <= unclaimed[c]
                              THEN 0 ELSE claim[k].profit - unclaimed[c]
            /\ Overdrawn(k)' = IF claim[k].profit <= unclaimed'[c]
                               THEN 0 ELSE claim[k].profit - unclaimed'[c]
        <5>1. Overdrawn(k)' = IF claim[k].profit <= unclaimed'[c]
                              THEN 0 ELSE claim[k].profit - unclaimed'[c]
          BY <4>2 DEF Overdrawn
        <5> QED  BY <3>2, <4>1, <5>1, OverdrawnType
      <4>4. /\ unclaimed[c] \in Nat /\ unclaimed'[c] \in Nat
            /\ unclaimed[c] <= unclaimed'[c]
        BY <2>4
      <4> QED  BY <3>1, <4>3, <4>4
    <3>3. CASE claim[k].pc # "read"
      BY <2>1, <3>3 DEF Overdrawn
    <3> QED  BY <3>2, <3>3
  <2>6. Paid' <= SumFunctionOnSet(PayableBefore', Claims)
    BY <2>1, <2>5, PayableGrows
  <2> QED  BY <2>1, <2>6 DEF PaidBeforeReads
<1>3. ASSUME NEW k \in Claims, ClaimFail(k) \/ \E u \in Users, c \in Cards : ClaimRead(k, u, c)
      PROVE  PaidBeforeReads'
  <2>1. claimed' = claimed /\ unclaimed' = unclaimed /\ vipPaid' = vipPaid
    BY <1>3 DEF ClaimFail, ClaimRead, changeLog, accounts
  <2>2. \A j \in Claims \ {k} : claim'[j] = claim[j]
    BY <1>3 DEF ClaimFail, ClaimRead, TypeOK
  <2>3. \/ claim'[k].pc = "idle"
        \/ \E c \in Cards : claim'[k].cards = {c} /\ claim'[k].profit = unclaimed[c]
    <3>1. CASE ClaimFail(k)
      BY <3>1 DEF ClaimFail, NoClaim, TypeOK
    <3>2. ASSUME NEW u \in Users, NEW c \in Cards, ClaimRead(k, u, c)
          PROVE  claim'[k].cards = {c} /\ claim'[k].profit = unclaimed[c]
      <4> DEFINE result == [pc |-> "read", user |-> u, cards |-> {c}, profit |-> unclaimed[c]]
      <4>1. claim' = [claim EXCEPT ![k] = result]
        BY <3>2 DEF ClaimRead
      <4>2. result.cards = {c} /\ result.profit = unclaimed[c]
        OBVIOUS
      <4> HIDE DEF result
      <4>3. claim'[k] = result
        BY <4>1 DEF TypeOK
      <4> QED  BY <4>1, <4>2, <4>3
    <3> QED  BY <1>3, <3>1, <3>2
  <2>4. ASSUME NEW j \in Claims PROVE Overdrawn(j)' \in Nat /\ Overdrawn(j)' <= Overdrawn(j)
    <3>1. Overdrawn(j) \in Nat /\ \A c \in Cards : unclaimed[c] \in Nat
      BY OverdrawnType DEF TypeOK
    <3>2. CASE j # k
      <4>1. claim'[j] = claim[j]
        BY <2>2, <3>2
      <4>2. TheOne(claim'[j].cards) = TheOne(claim[j].cards)
        BY <4>1
      <4>3. Overdrawn(j)' = Overdrawn(j)
        BY <2>1, <4>1, <4>2 DEF Overdrawn
      <4> QED  BY <3>1, <4>3
    <3>3. CASE j = k
      <4>1. Overdrawn(j)' = 0
        <5>1. CASE claim'[k].pc # "read"
          BY <3>3, <5>1 DEF Overdrawn
        <5>2. CASE claim'[k].pc = "read"
          <6>1. PICK c \in Cards : claim'[k].cards = {c} /\ claim'[k].profit = unclaimed'[c]
            BY <2>1, <2>3, <5>2
          <6>2. TheOne(claim'[k].cards) = c
            BY <6>1, TheOneIs
          <6> QED  BY <2>1, <3>1, <3>3, <6>1, <6>2 DEF Overdrawn
        <5> QED  BY <5>1, <5>2
      <4> QED  BY <3>1, <4>1
    <3> QED  BY <3>2, <3>3
  <2>5. Paid' <= SumFunctionOnSet(PayableBefore', Claims)
    BY <2>1, <2>4, PayableGrows
  <2>6. \A j \in Claims : claim'[j].pc = "read" =>
            \E c \in Cards : claim'[j].cards = {c}
    BY <2>2, <2>3 DEF PaidBeforeReads
  <2> QED  BY <2>5, <2>6 DEF PaidBeforeReads
<1>4. ASSUME NEW a \in Admins, FinishCommit(a) PROVE PaidBeforeReads'
  BY <1>1, <1>4 DEF FinishCommit
<1> QED
  BY <1>1, <1>2, <1>3, <1>4, CommitPays
  DEF Next, CardStep, CreateVipCard, UpdateVipCard, DeleteVipCard, JobStep, JobRead, JobStart,
      JobEnd, ClaimStep, FinishStep, FinishRead, FinishOwners, FinishFail, Buy, Tick, vars,
      accounts

LEMMA PaidInvariant == Spec => []PaidBeforeReads
<1>1. Init => PaidBeforeReads
  <2> SUFFICES ASSUME Init PROVE PaidBeforeReads
    OBVIOUS
  <2>1. \A k \in Claims : PayableBefore[k] = ClaimedWorth
    <3>1. \A k \in Claims : Overdrawn(k) = 0
      BY DEF Overdrawn, Init, NoClaim
    <3>2. ClaimedWorth \in Nat
      <4>1. \A c \in Cards : claimed[c] \in Nat
        BY DEF Init
      <4> QED  BY <4>1, SumNat, ActorsAssumption DEF ClaimedWorth
    <3> QED  BY <3>1, <3>2 DEF PayableBefore
  <2>2. SumFunctionOnSet(PayableBefore, Claims) \in Nat
    <3>1. \A c \in Cards : claimed[c] \in Nat
      BY DEF Init
    <3>2. ClaimedWorth \in Nat
      BY <3>1, SumNat, ActorsAssumption DEF ClaimedWorth
    <3> QED  BY <2>1, <3>2, SumNat, ActorsAssumption
  <2>3. Paid = 0
    <3>1. \A u \in Users : vipPaid[u] = 0
      BY DEF Init
    <3>2. SumFunctionOnSet(vipPaid, Users) = Cardinality(Users) * 0
      BY <3>1, SumOfConstant, ActorsAssumption
    <3>3. Cardinality(Users) * 0 = 0
      BY FS_CardinalityType, ActorsAssumption
    <3> QED  BY <3>2, <3>3 DEF Paid
  <2> QED  BY <2>2, <2>3 DEF Init, PaidBeforeReads, NoClaim
<1> QED  BY <1>1, PaidStep, TypeCorrect, PTL DEF Spec

\* What each client accounts for is no more than what was claimed: nobody overdraws by
\* a negative amount.
LEMMA PaidFromInvariant == TypeOK /\ PaidBeforeReads => PaidWithinClaimed
<1> SUFFICES ASSUME TypeOK, PaidBeforeReads
             PROVE  Paid <= Cardinality(Claims) * ClaimedWorth
  BY DEF PaidWithinClaimed, Paid
<1> DEFINE payable == PayableBefore
           most == [k \in Claims |-> ClaimedWorth]
<1>1. ClaimedWorth \in Nat /\ Paid \in Nat
  BY TotalTypes
<1>2. \A k \in Claims : payable[k] \in Int /\ most[k] \in Int /\ payable[k] <= most[k]
  <2> SUFFICES ASSUME NEW k \in Claims
               PROVE  payable[k] \in Int /\ most[k] \in Int /\ payable[k] <= most[k]
    OBVIOUS
  <2>1. Overdrawn(k) \in Nat
    BY OverdrawnType
  <2> QED  BY <1>1, <2>1 DEF PayableBefore
<1>3. \A k \in Claims : most[k] = ClaimedWorth
  OBVIOUS
<1>4. Paid <= SumFunctionOnSet(payable, Claims)
  BY DEF PaidBeforeReads
<1> HIDE DEF payable, most
<1>5. /\ SumFunctionOnSet(payable, Claims) <= SumFunctionOnSet(most, Claims)
      /\ SumFunctionOnSet(payable, Claims) \in Int
      /\ SumFunctionOnSet(most, Claims) \in Int
  BY <1>2, SumMonotone, SumType, ActorsAssumption
<1>6. SumFunctionOnSet(most, Claims) = Cardinality(Claims) * ClaimedWorth
  BY <1>1, <1>3, SumOfConstant, ActorsAssumption
<1> QED  BY <1>1, <1>4, <1>5, <1>6

\* VIPs are paid no more than the rows marked as claimed are worth when claims do not
\* overlap, and at most that much by each otherwise, although the job books rows, and
\* the card may change hands, between the reading and the marking
\* (claimProfitForVipUser, updateVipCard).
THEOREM PaidRight == Spec => []PaidWithinClaimed
BY PaidFromInvariant, PaidInvariant, TypeCorrect, PTL
=============================================================================
