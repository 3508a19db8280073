--------------------------- MODULE ProfitAccrualProofs ---------------------------
(***************************************************************************)
(* What ProfitAccrual and Portfolio guarantee for every set of users,      *)
(* projects, runs and claims, and all dates: the types, the accounts that  *)
(* match the log, the bound on what an owner is ever credited, the ledger  *)
(* they implement, what owners are shown of it, and what holds in addition *)
(* when runs, or claims, do not overlap.                                   *)
(***************************************************************************)
EXTENDS Portfolio, Sums, FiniteSetTheorems, TLAPS

-----------------------------------------------------------------------------
(* Arithmetic of periods *)

\* The floor of the number of periods is an integer.
LEMMA PeriodAtInt ==
    ASSUME NEW p \in Projects, NEW d \in Int
    PROVE  PeriodAt(p, d) \in Int
BY DatesAssumption DEF PeriodAt

\* It does not decrease as days pass.
LEMMA PeriodAtMonotone ==
    ASSUME NEW p \in Projects, NEW d \in Int, NEW e \in Int, d <= e
    PROVE  PeriodAt(p, d) <= PeriodAt(p, e)
<1>1. ASSUME NEW a \in Int, NEW b \in Nat \ {0}, NEW c \in Int, a <= c
      PROVE  a \div b <= c \div b
  BY <1>1
<1> QED
  BY <1>1, DatesAssumption DEF PeriodAt

\* The last complete period has ended.
LEMMA PeriodHasEnded ==
    ASSUME NEW p \in Projects, NEW d \in Int
    PROVE  EndOfPeriod(p, PeriodAt(p, d)) <= d
<1>1. ASSUME NEW a \in Int, NEW b \in Nat \ {0} PROVE (a \div b) * b <= a
  BY <1>1
<1>2. PeriodAt(p, d) * ProfitPeriod[p] <= d - TakeProfitAt[p]
  <2>1. d - TakeProfitAt[p] \in Int /\ ProfitPeriod[p] \in Nat \ {0}
    BY DatesAssumption
  <2> QED
    BY <1>1, <2>1 DEF PeriodAt
<1>3. PeriodAt(p, d) * ProfitPeriod[p] \in Int
  BY PeriodAtInt, DatesAssumption
<1> QED
  BY <1>2, <1>3, DatesAssumption DEF EndOfPeriod

\* A product grows with its second factor.
LEMMA ProductMonotone ==
    ASSUME NEW a \in Nat, NEW b \in Nat, NEW c \in Nat, b <= c
    PROVE  a * b <= a * c
OBVIOUS

-----------------------------------------------------------------------------
(* Type correctness *)

\* One step of JobCommit keeps the types: the only step with sums in tables.
LEMMA JobCommitType ==
    ASSUME TypeOK, NEW j \in Jobs, JobCommit(j)
    PROVE  TypeOK'
<1>1. job[j] \in Job
  BY DEF TypeOK
<1>2. \A p \in Projects, u \in Users :
        /\ job[j].invested[p][u] \in Nat
        /\ balance[p][u] \in Int
        /\ credits[p][u].periods \in SUBSET Nat
        /\ credits[p][u].total \in Nat
  BY <1>1 DEF TypeOK, Job, Credits
<1>2b. \A p \in Projects : job[j].index[p] \in Nat /\ index[p] \in Nat
  BY <1>1 DEF TypeOK, Job
<1>3. balance' \in [Projects -> [Users -> Int]]
  BY <1>2 DEF JobCommit
<1>4. credits' \in [Projects -> [Users -> Credits]]
  <2>1. \A p \in Projects, u \in Users :
          [periods |-> credits[p][u].periods \cup {job[j].index[p]},
           total |-> credits[p][u].total + job[j].invested[p][u]] \in Credits
    BY <1>2, <1>2b DEF Credits
  <2>2. \A p \in Projects, u \in Users : credits[p][u] \in Credits
    BY DEF TypeOK
  <2> QED
    BY <2>1, <2>2 DEF JobCommit
<1>5. index' \in [Projects -> Nat]
  BY <1>2b DEF JobCommit, IndexSaved
<1>6. IdleJob \in Job
  BY DEF IdleJob, Job, NoAmounts
<1>7. job' \in [Jobs -> Job]
  BY <1>6 DEF JobCommit, TypeOK
<1> QED
  BY <1>3, <1>4, <1>5, <1>7 DEF JobCommit, TypeOK, wallets

\* Every variable keeps its type, whatever the constants.
THEOREM TypeCorrect == Spec => []TypeOK
<1>1. Init => TypeOK
  <2> SUFFICES ASSUME Init PROVE TypeOK
    OBVIOUS
  <2>1. IdleJob \in Job
    BY DEF IdleJob, Job, NoAmounts
  <2>2. [periods |-> {}, total |-> 0] \in Credits
    BY DEF Credits
  <2> QED
    BY <2>1, <2>2 DEF Init, TypeOK, NoAmounts
<1>2. TypeOK /\ [Next]_vars => TypeOK'
  <2> SUFFICES ASSUME TypeOK, [Next]_vars PROVE TypeOK'
    OBVIOUS
  <2>0. IdleJob \in Job
    BY DEF IdleJob, Job, NoAmounts
  <2>1. ASSUME NEW j \in Jobs, JobQuery(j) PROVE TypeOK'
    <3> DEFINE running == {p \in Projects : TakesProfit(p)}
               record == [pc |-> "queried",
                  projects |-> running,
                  index |-> [p \in Projects |-> IF p \in running THEN index[p] ELSE 0],
                  invested |-> [p \in Projects |->
                      IF p \in running THEN invested[p] ELSE [u \in Users |-> 0]]]
    <3>1. record \in Job
      BY DEF TypeOK, Job
    <3>2. job' = [job EXCEPT ![j] = record]
      BY <2>1 DEF JobQuery
    <3> HIDE DEF record
    <3>3. job' \in [Jobs -> Job]
      BY <3>1, <3>2 DEF TypeOK
    <3> QED
      BY <2>1, <3>3 DEF JobQuery, TypeOK, accounts, wallets
  <2>2. ASSUME NEW j \in Jobs, JobCompute(j) PROVE TypeOK'
    <3> DEFINE due == {p \in job[j].projects :
                         ~VoteSellStarted(p) /\ InNewPeriod(p, job[j].index[p])}
               record == [pc |-> "computed",
                  projects |-> due,
                  index |-> [p \in Projects |-> IF p \in due THEN PeriodAt(p, day) ELSE 0],
                  invested |-> [p \in Projects |->
                      IF p \in due THEN job[j].invested[p] ELSE [u \in Users |-> 0]]]
    <3>1. job[j] \in Job
      BY DEF TypeOK
    <3>2. \A p \in due : PeriodAt(p, day) \in Nat
      BY <3>1, PeriodAtInt DEF InNewPeriod, TypeOK, Job
    <3>3. record \in Job
      BY <3>1, <3>2 DEF Job
    <3>4. job' = [job EXCEPT ![j] = IF due = {} THEN IdleJob ELSE record]
      BY <2>2 DEF JobCompute
    <3> HIDE DEF record, due
    <3>5. job' \in [Jobs -> Job]
      BY <3>3, <3>4, <2>0 DEF TypeOK
    <3> QED
      BY <2>2, <3>5 DEF JobCompute, TypeOK, accounts, wallets
  <2>3. ASSUME NEW j \in Jobs, JobCommit(j) PROVE TypeOK'
    BY <2>3, JobCommitType
  <2>4. ASSUME NEW j \in Jobs, JobConflict(j) \/ JobCrash(j) PROVE TypeOK'
    <3>1. job' \in [Jobs -> Job]
      BY <2>4, <2>0 DEF JobConflict, JobCrash, TypeOK
    <3> QED
      BY <2>4, <3>1 DEF JobConflict, JobCrash, TypeOK, accounts, wallets
  <2>5. ASSUME NEW c \in Claims, NEW p \in Projects, NEW u \in Users,
               ClaimStep(c, p, u)
        PROVE TypeOK'
    <3>1. CASE ClaimRead(c, p, u)
      BY <3>1 DEF ClaimRead, TypeOK, accounts, wallets
    <3>2. CASE ClaimCommit(c, p, u)
      BY <3>2 DEF ClaimCommit, MoveToWallet, TypeOK
    <3>3. CASE ClaimFail(c, p, u)
      BY <3>3 DEF ClaimFail, TypeOK, accounts, wallets
    <3> QED
      BY <2>5, <3>1, <3>2, <3>3 DEF ClaimStep
  <2>6. ASSUME NEW p \in Projects, NEW u \in Users, UpdateProjectNftOwner(p, u)
        PROVE TypeOK'
    <3>1. invested[p][u] + NftPrice[p] \in Nat
      BY PriceAssumption DEF TypeOK
    <3>2. invested' \in [Projects -> [Users -> Nat]]
      BY <2>6, <3>1 DEF UpdateProjectNftOwner, TypeOK
    <3> QED
      BY <2>6, <3>2 DEF UpdateProjectNftOwner, TypeOK, accounts, wallets
  <2>7. ASSUME NEW p \in Projects, FinishProject(p) PROVE TypeOK'
    BY <2>7 DEF FinishProject, TypeOK, accounts, wallets
  <2>8. CASE Tick
    BY <2>8 DEF Tick, TypeOK, accounts, wallets
  <2>9. CASE UNCHANGED vars
    BY <2>9 DEF vars, TypeOK, accounts, wallets
  <2> QED
    BY <2>1, <2>2, <2>3, <2>4, <2>5, <2>6, <2>7, <2>8, <2>9 DEF Next, JobStep
<1> QED
  BY <1>1, <1>2, PTL DEF Spec
-----------------------------------------------------------------------------
(* The accounts and the log *)

\* Whatever runs and claims do to each other, the log explains the balances.
THEOREM LogExplainsAccounts == Spec => [](AccountsMatchLog /\ WalletMatchesLog)
<1>1. Init => AccountsMatchLog /\ WalletMatchesLog
  BY DEF Init, AccountsMatchLog, WalletMatchesLog, NoAmounts
<1>2. TypeOK /\ AccountsMatchLog /\ WalletMatchesLog /\ [Next]_vars
        => (AccountsMatchLog /\ WalletMatchesLog)'
  <2> SUFFICES ASSUME TypeOK, AccountsMatchLog, WalletMatchesLog, [Next]_vars
               PROVE  (AccountsMatchLog /\ WalletMatchesLog)'
    OBVIOUS
  <2>1. CASE UNCHANGED <<accounts, wallets>>
    BY <2>1 DEF accounts, wallets, AccountsMatchLog, WalletMatchesLog
  <2>2. ASSUME NEW j \in Jobs, JobCommit(j)
        PROVE  (AccountsMatchLog /\ WalletMatchesLog)'
    <3>1. ASSUME NEW p \in Projects, NEW u \in Users
          PROVE  /\ balance'[p][u] + claimed'[p][u] = credits'[p][u].total
                 /\ claimed'[p][u] = debits'[p][u]
      <4>1. /\ balance[p][u] \in Int
            /\ claimed[p][u] \in Nat
            /\ credits[p][u].total \in Nat
            /\ job[j].invested[p][u] \in Nat
        BY DEF TypeOK, Job, Credits
      <4>2. /\ balance[p][u] + claimed[p][u] = credits[p][u].total
            /\ claimed[p][u] = debits[p][u]
        BY DEF AccountsMatchLog
      <4>3. CASE Credited(j, p, u)
        BY <2>2, <4>1, <4>2, <4>3 DEF JobCommit
      <4>4. CASE ~Credited(j, p, u)
        BY <2>2, <4>1, <4>2, <4>4 DEF JobCommit
      <4> QED
        BY <4>3, <4>4
    <3> QED
      BY <2>2, <3>1 DEF JobCommit, wallets, AccountsMatchLog, WalletMatchesLog
  <2>3. ASSUME NEW c \in Claims, NEW p \in Projects, NEW u \in Users,
               ClaimCommit(c, p, u)
        PROVE  (AccountsMatchLog /\ WalletMatchesLog)'
    <3>1. claiming[c][p][u] \in Nat
      BY DEF TypeOK
    <3>2. AccountsMatchLog'
      BY <2>3, <3>1 DEF ClaimCommit, MoveToWallet, AccountsMatchLog, TypeOK, Credits
    <3>3. WalletMatchesLog'
      BY <2>3, <3>1 DEF ClaimCommit, MoveToWallet, WalletMatchesLog, TypeOK
    <3> QED
      BY <3>2, <3>3
  <2> QED
    BY <2>1, <2>2, <2>3
    DEF Next, JobStep, JobQuery, JobCompute, JobConflict, JobCrash, ClaimStep,
        ClaimRead, ClaimFail, UpdateProjectNftOwner, FinishProject, Tick, vars
<1> QED
  BY <1>1, <1>2, TypeCorrect, PTL DEF Spec
-----------------------------------------------------------------------------
(* The bound on credits *)

\* A complete period stays complete as days pass.
LEMMA CompleteStable ==
    ASSUME TypeOK, NEW p \in Projects, NEW k, Complete(p, k), day' \in Nat, day <= day'
    PROVE  Complete(p, k)'
<1>1. PeriodAt(p, day) <= PeriodAt(p, day')
  BY PeriodAtMonotone DEF TypeOK
<1>2. PeriodAt(p, day) \in Int /\ PeriodAt(p, day') \in Int
  BY PeriodAtInt DEF TypeOK
<1>3. k \in Nat \ {0} /\ k <= PeriodAt(p, day')
  BY <1>1, <1>2 DEF Complete
<1>4. TakeProfitAt[p] < day'
  BY DatesAssumption DEF Complete, TypeOK
<1> QED
  BY <1>3, <1>4 DEF Complete, PeriodAt, EndOfPeriod

\* What a run computes from the clock is complete.
LEMMA ComputedComplete ==
    ASSUME TypeOK, NEW p \in Projects, NEW saved \in Nat, TakeProfitAt[p] < day,
           ~VoteSellStarted(p), InNewPeriod(p, saved)
    PROVE  Complete(p, PeriodAt(p, day))
<1>1. PeriodAt(p, day) \in Int
  BY PeriodAtInt DEF TypeOK
<1>2. PeriodAt(p, day) \in Nat \ {0}
  BY <1>1 DEF InNewPeriod
<1>3. EndOfPeriod(p, PeriodAt(p, day)) <= day
  BY PeriodHasEnded DEF TypeOK
<1>4. EndOfPeriod(p, PeriodAt(p, day)) \in Int
  BY <1>1, DatesAssumption DEF EndOfPeriod
<1>5. day < VoteSellAt[p]
  BY DatesAssumption DEF VoteSellStarted, TypeOK
<1> QED
  BY <1>1, <1>2, <1>3, <1>4, <1>5, DatesAssumption DEF Complete, TypeOK

\* One more row, of at most the investment, keeps the total within its bound.
LEMMA OneMoreCredit ==
    ASSUME NEW S, IsFiniteSet(S), NEW k, k \notin S, NEW a \in Nat, NEW t \in Nat,
           NEW x \in Nat, t <= a * Cardinality(S), x <= a
    PROVE  t + x <= a * Cardinality(S \cup {k})
<1>1. Cardinality(S) \in Nat
  BY FS_CardinalityType
<1>2. Cardinality(S \cup {k}) = Cardinality(S) + 1
  BY FS_AddElement
<1>3. a * (Cardinality(S) + 1) = a * Cardinality(S) + a
  BY <1>1
<1>4. a * Cardinality(S) \in Nat
  BY <1>1
<1> QED
  BY <1>2, <1>3, <1>4

\* The inductive invariant holds initially and is kept by every step.
LEMMA CreditsInvInit == Init => CreditsInv
<1> SUFFICES ASSUME Init PROVE CreditsInv
  OBVIOUS
<1>1. RunsAfterStart /\ PreparedComplete /\ SnapshotNotAhead /\ LoggedComplete
  BY DEF Init, IdleJob, NoAmounts, RunsAfterStart, PreparedComplete, SnapshotNotAhead,
         LoggedComplete
<1>2. ASSUME NEW p \in Projects, NEW u \in Users
      PROVE  /\ IsFiniteSet(credits[p][u].periods)
             /\ credits[p][u].total <= invested[p][u] * Cardinality(credits[p][u].periods)
  <2>1. /\ credits[p][u].periods = {}
        /\ credits[p][u].total = 0
        /\ invested[p][u] = 0
    BY DEF Init, NoAmounts
  <2> QED
    BY <2>1, FS_EmptySet
<1> QED
  BY <1>1, <1>2 DEF CreditsInv, TotalBounded

\* The query and the computation of a run write no balance: the strengthening is
\* kept because what the run takes along is complete and not ahead.
LEMMA CreditsInvJob ==
    ASSUME TypeOK, CreditsInv, NEW j \in Jobs, JobQuery(j) \/ JobCompute(j)
    PROVE  CreditsInv'
<1>0. UNCHANGED <<day, invested, credits>>
  BY DEF JobQuery, JobCompute, accounts
<1>1. LoggedComplete' /\ TotalBounded'
  BY <1>0 DEF CreditsInv, LoggedComplete, TotalBounded, Complete, PeriodAt, EndOfPeriod
<1>2. ASSUME NEW i \in Jobs
      PROVE  /\ \A p \in job'[i].projects : TakeProfitAt[p] < day
             /\ job'[i].pc = "computed" =>
                  \A p \in job'[i].projects : Complete(p, job'[i].index[p])
             /\ \A p \in Projects, u \in Users : job'[i].invested[p][u] <= invested[p][u]
  <2>1. CASE i # j
    <3>1. job'[i] = job[i]
      BY <2>1 DEF JobQuery, JobCompute, TypeOK
    <3> QED
      BY <3>1 DEF CreditsInv, RunsAfterStart, PreparedComplete, SnapshotNotAhead
  <2>2. CASE i = j /\ JobQuery(j)
    <3>1. /\ job'[j].pc = "queried"
          /\ job'[j].projects = {p \in Projects : TakesProfit(p)}
          /\ \A p \in Projects, u \in Users :
                job'[j].invested[p][u] = IF TakesProfit(p) THEN invested[p][u] ELSE 0
      BY <2>2 DEF JobQuery, TypeOK
    <3>2. ASSUME NEW p \in Projects, NEW u \in Users
          PROVE  job'[j].invested[p][u] <= invested[p][u]
      <4>1. invested[p][u] \in Nat
        BY DEF TypeOK
      <4> QED
        BY <3>1, <4>1
    <3>3. \A p \in job'[j].projects : TakeProfitAt[p] < day
      BY <3>1 DEF TakesProfit
    <3> QED
      BY <2>2, <3>1, <3>2, <3>3
  <2>3. CASE i = j /\ JobCompute(j)
    <3> DEFINE due == {p \in job[j].projects :
                         ~VoteSellStarted(p) /\ InNewPeriod(p, job[j].index[p])}
    <3>1. CASE due = {}
      <4>1. job'[j] = IdleJob
        BY <2>3, <3>1 DEF JobCompute, TypeOK
      <4> QED
        BY <2>3, <4>1 DEF IdleJob, NoAmounts, TypeOK
    <3>2. CASE due # {}
      <4>1. /\ job'[j].projects = due
            /\ \A p \in Projects : p \in due => job'[j].index[p] = PeriodAt(p, day)
            /\ \A p \in Projects, u \in Users :
                  job'[j].invested[p][u] = IF p \in due THEN job[j].invested[p][u] ELSE 0
        BY <2>3, <3>2 DEF JobCompute, TypeOK
      <4>2. job[j].projects \subseteq Projects /\ job[j].index \in [Projects -> Nat]
        BY DEF TypeOK, Job
      <4>3. \A p \in due : TakeProfitAt[p] < day /\ Complete(p, PeriodAt(p, day))
        BY <4>2, ComputedComplete DEF CreditsInv, RunsAfterStart
      <4>4. ASSUME NEW p \in Projects, NEW u \in Users
            PROVE  job'[j].invested[p][u] <= invested[p][u]
        <5>1. invested[p][u] \in Nat /\ job[j].invested[p][u] <= invested[p][u]
          BY DEF CreditsInv, SnapshotNotAhead, TypeOK
        <5> QED
          BY <4>1, <5>1
      <4> QED
        BY <2>3, <4>1, <4>2, <4>3, <4>4
    <3> QED
      BY <3>1, <3>2
  <2> QED
    BY <2>1, <2>2, <2>3
<1>3. RunsAfterStart' /\ PreparedComplete' /\ SnapshotNotAhead'
  BY <1>0, <1>2
  DEF RunsAfterStart, PreparedComplete, SnapshotNotAhead, Complete, PeriodAt, EndOfPeriod
<1> QED
  BY <1>1, <1>3 DEF CreditsInv

\* The commit writes the rows: each period it logs is complete, and each new row
\* adds at most the investment the run has read.
LEMMA CreditsInvCommit ==
    ASSUME TypeOK, CreditsInv, NEW j \in Jobs, JobCommit(j)
    PROVE  CreditsInv'
<1>0. UNCHANGED <<day, invested>> /\ job' = [job EXCEPT ![j] = IdleJob]
  BY DEF JobCommit
<1>1. RunsAfterStart' /\ PreparedComplete' /\ SnapshotNotAhead'
  <2>1. ASSUME NEW i \in Jobs PROVE job'[i] = job[i] \/ job'[i] = IdleJob
    BY <1>0 DEF TypeOK
  <2>2. \A p \in Projects, u \in Users : IdleJob.invested[p][u] <= invested[p][u]
    BY DEF IdleJob, NoAmounts, TypeOK
  <2>3. RunsAfterStart'
    BY <1>0, <2>1 DEF CreditsInv, RunsAfterStart, IdleJob
  <2>4. PreparedComplete'
    BY <1>0, <2>1
    DEF CreditsInv, PreparedComplete, IdleJob, Complete, PeriodAt, EndOfPeriod
  <2>5. SnapshotNotAhead'
    BY <1>0, <2>1, <2>2 DEF CreditsInv, SnapshotNotAhead
  <2> QED
    BY <2>3, <2>4, <2>5
<1>2. ASSUME NEW p \in Projects, NEW u \in Users
      PROVE  /\ \A k \in credits'[p][u].periods : Complete(p, k)
             /\ IsFiniteSet(credits'[p][u].periods)
             /\ credits'[p][u].total <= invested[p][u] * Cardinality(credits'[p][u].periods)
  <2>1. /\ \A k \in credits[p][u].periods : Complete(p, k)
        /\ IsFiniteSet(credits[p][u].periods)
        /\ credits[p][u].total <= invested[p][u] * Cardinality(credits[p][u].periods)
    BY DEF CreditsInv, LoggedComplete, TotalBounded
  <2>2. CASE ~Credited(j, p, u)
    BY <2>1, <2>2 DEF JobCommit
  <2>3. CASE Credited(j, p, u)
    <3> DEFINE k == job[j].index[p]
               x == job[j].invested[p][u]
    <3>1. /\ credits'[p][u].periods = credits[p][u].periods \cup {k}
          /\ credits'[p][u].total = credits[p][u].total + x
      BY <2>3 DEF JobCommit
    <3>2. k \notin credits[p][u].periods
      BY <2>3 DEF JobCommit, Duplicate
    <3>3. Complete(p, k)
      BY <2>3 DEF JobCommit, CreditsInv, PreparedComplete, Credited
    <3>4. /\ invested[p][u] \in Nat
          /\ credits[p][u].total \in Nat
          /\ x \in Nat
          /\ x <= invested[p][u]
      BY DEF CreditsInv, SnapshotNotAhead, TypeOK, Job, Credits
    <3> HIDE DEF k, x
    <3>5. credits[p][u].total + x <= invested[p][u] * Cardinality(credits[p][u].periods \cup {k})
      BY <2>1, <3>2, <3>4, OneMoreCredit
    <3>6. IsFiniteSet(credits[p][u].periods \cup {k})
      BY <2>1, FS_AddElement
    <3> QED
      BY <2>1, <3>1, <3>3, <3>5, <3>6
  <2> QED
    BY <2>2, <2>3
<1>3. LoggedComplete' /\ TotalBounded'
  BY <1>0, <1>2 DEF LoggedComplete, TotalBounded, Complete, PeriodAt, EndOfPeriod
<1> QED
  BY <1>1, <1>3 DEF CreditsInv

\* A purchase only raises an investment, which the bounds leave room for.
LEMMA CreditsInvBuy ==
    ASSUME TypeOK, CreditsInv, NEW p \in Projects, NEW u \in Users,
           UpdateProjectNftOwner(p, u)
    PROVE  CreditsInv'
<1>0. UNCHANGED <<day, credits, job>>
  BY DEF UpdateProjectNftOwner, accounts
<1>1. RunsAfterStart' /\ PreparedComplete' /\ LoggedComplete'
  BY <1>0
  DEF CreditsInv, RunsAfterStart, PreparedComplete, LoggedComplete, Complete, PeriodAt,
      EndOfPeriod
<1>2. ASSUME NEW q \in Projects, NEW v \in Users
      PROVE  invested[q][v] \in Nat /\ invested'[q][v] \in Nat /\ invested[q][v] <= invested'[q][v]
  <2>1. invested[q][v] \in Nat /\ NftPrice[p] \in Nat
    BY PriceAssumption DEF TypeOK
  <2>2. invested'[q][v] = IF q = p /\ v = u THEN invested[q][v] + NftPrice[p] ELSE invested[q][v]
    BY DEF UpdateProjectNftOwner, TypeOK
  <2> QED
    BY <2>1, <2>2
<1>3. ASSUME NEW i \in Jobs, NEW q \in Projects, NEW v \in Users
      PROVE  job[i].invested[q][v] <= invested'[q][v]
  <2>1. job[i].invested[q][v] \in Nat /\ job[i].invested[q][v] <= invested[q][v]
    BY DEF CreditsInv, SnapshotNotAhead, TypeOK, Job
  <2> QED
    BY <1>2, <2>1
<1>4. ASSUME NEW q \in Projects, NEW v \in Users
      PROVE  /\ IsFiniteSet(credits[q][v].periods)
             /\ credits[q][v].total <= invested'[q][v] * Cardinality(credits[q][v].periods)
  <2> DEFINE n == Cardinality(credits[q][v].periods)
  <2>1. IsFiniteSet(credits[q][v].periods) /\ credits[q][v].total <= invested[q][v] * n
    BY DEF CreditsInv, TotalBounded
  <2>2. n \in Nat
    BY <2>1, FS_CardinalityType
  <2>3. credits[q][v].total \in Nat
    BY DEF TypeOK, Credits
  <2> HIDE DEF n
  <2>4. n * invested[q][v] <= n * invested'[q][v]
    BY <1>2, <2>2, ProductMonotone
  <2>5. credits[q][v].total <= invested'[q][v] * n
    BY <1>2, <2>1, <2>2, <2>3, <2>4
  <2> QED
    BY <2>1, <2>5 DEF n
<1> QED
  BY <1>0, <1>1, <1>3, <1>4 DEF CreditsInv, SnapshotNotAhead, TotalBounded

\* A day passing completes more periods and unsettles none.
LEMMA CreditsInvTick ==
    ASSUME TypeOK, CreditsInv, Tick
    PROVE  CreditsInv'
<1>1. day' \in Nat /\ day <= day' /\ UNCHANGED <<invested, credits, job>>
  BY DEF Tick, TypeOK, accounts
<1>2. \A j \in Jobs : job[j].projects \subseteq Projects
  BY DEF TypeOK, Job
<1>3. RunsAfterStart'
  BY <1>1, <1>2, DatesAssumption DEF CreditsInv, RunsAfterStart, TypeOK
<1>4. ASSUME NEW p \in Projects, NEW k, Complete(p, k) PROVE Complete(p, k)'
  BY <1>1, <1>4, CompleteStable
<1>5. PreparedComplete'
  <2> SUFFICES ASSUME NEW j \in Jobs, job[j].pc = "computed", NEW p \in job[j].projects
               PROVE  Complete(p, job[j].index[p])'
    BY <1>1 DEF PreparedComplete
  <2>1. p \in Projects
    BY <1>2
  <2>2. Complete(p, job[j].index[p])
    BY DEF CreditsInv, PreparedComplete
  <2>3. Complete(p, job[j].index[p])'
    BY <1>1, <2>1, <2>2, <1>4 DEF Complete, PeriodAt, EndOfPeriod
  <2> QED
    BY <2>3
<1>6. LoggedComplete'
  <2> SUFFICES ASSUME NEW p \in Projects, NEW u \in Users, NEW k \in credits[p][u].periods
               PROVE  Complete(p, k)'
    BY <1>1 DEF LoggedComplete
  <2> QED
    BY <1>4 DEF CreditsInv, LoggedComplete
<1>7. SnapshotNotAhead' /\ TotalBounded'
  BY <1>1 DEF CreditsInv, SnapshotNotAhead, TotalBounded
<1> QED
  BY <1>3, <1>5, <1>6, <1>7 DEF CreditsInv

\* A run that ends without writing forgets what it read.
LEMMA CreditsInvDrop ==
    ASSUME TypeOK, CreditsInv, NEW j \in Jobs, JobConflict(j) \/ JobCrash(j)
    PROVE  CreditsInv'
<1>0. UNCHANGED <<day, invested, credits>> /\ job' = [job EXCEPT ![j] = IdleJob]
  BY DEF JobConflict, JobCrash, accounts
<1>1. ASSUME NEW i \in Jobs PROVE job'[i] = job[i] \/ job'[i] = IdleJob
  BY <1>0 DEF TypeOK
<1>2. \A p \in Projects, u \in Users : IdleJob.invested[p][u] <= invested[p][u]
  BY DEF IdleJob, NoAmounts, TypeOK
<1>3. RunsAfterStart'
  BY <1>0, <1>1 DEF CreditsInv, RunsAfterStart, IdleJob
<1>4. PreparedComplete'
  BY <1>0, <1>1 DEF CreditsInv, PreparedComplete, IdleJob, Complete, PeriodAt, EndOfPeriod
<1>5. SnapshotNotAhead'
  BY <1>0, <1>1, <1>2 DEF CreditsInv, SnapshotNotAhead
<1>6. LoggedComplete' /\ TotalBounded'
  BY <1>0 DEF CreditsInv, LoggedComplete, TotalBounded, Complete, PeriodAt, EndOfPeriod
<1> QED
  BY <1>3, <1>4, <1>5, <1>6 DEF CreditsInv

\* Steps that touch neither the clock, the investments, the credits nor the runs.
LEMMA CreditsInvFrame ==
    ASSUME CreditsInv, UNCHANGED <<day, invested, credits, job>>
    PROVE  CreditsInv'
BY DEF CreditsInv, RunsAfterStart, PreparedComplete, SnapshotNotAhead, LoggedComplete,
       TotalBounded, Complete, PeriodAt, EndOfPeriod

\* The strengthening is an invariant of the specification.
THEOREM CreditsInductive == Spec => []CreditsInv
<1>1. TypeOK /\ CreditsInv /\ [Next]_vars => CreditsInv'
  <2> SUFFICES ASSUME TypeOK, CreditsInv, [Next]_vars PROVE CreditsInv'
    OBVIOUS
  <2>1. ASSUME NEW j \in Jobs, JobStep(j) PROVE CreditsInv'
    BY <2>1, CreditsInvJob, CreditsInvCommit, CreditsInvDrop DEF JobStep
  <2>2. ASSUME NEW c \in Claims, NEW p \in Projects, NEW u \in Users, ClaimStep(c, p, u)
        PROVE  CreditsInv'
    BY <2>2, CreditsInvFrame DEF ClaimStep, ClaimRead, ClaimCommit, ClaimFail, accounts
  <2>3. ASSUME NEW p \in Projects, NEW u \in Users, UpdateProjectNftOwner(p, u)
        PROVE  CreditsInv'
    BY <2>3, CreditsInvBuy
  <2>4. ASSUME NEW p \in Projects, FinishProject(p) PROVE CreditsInv'
    BY <2>4, CreditsInvFrame DEF FinishProject, accounts
  <2>5. CASE Tick
    BY <2>5, CreditsInvTick
  <2>6. CASE UNCHANGED vars
    BY <2>6, CreditsInvFrame DEF vars, accounts
  <2> QED
    BY <2>1, <2>2, <2>3, <2>4, <2>5, <2>6 DEF Next
<1> QED
  BY <1>1, CreditsInvInit, TypeCorrect, PTL DEF Spec

\* No owner is ever credited more than 10% of the investment for each period
\* that is over, with any number of runs of the job in flight.
THEOREM NoDoubleCredit == Spec => []CreditsBounded
<1>1. TypeOK /\ CreditsInv => CreditsBounded
  <2> SUFFICES ASSUME TypeOK, CreditsInv, NEW p \in Projects, NEW u \in Users
               PROVE  credits[p][u].total <=
                        invested[p][u] * (IF TakeProfitAt[p] < day THEN PeriodAt(p, day) ELSE 0)
    BY DEF CreditsBounded
  <2> DEFINE S == credits[p][u].periods
             n == IF TakeProfitAt[p] < day THEN PeriodAt(p, day) ELSE 0
  <2>1. /\ IsFiniteSet(S)
        /\ credits[p][u].total <= invested[p][u] * Cardinality(S)
        /\ \A k \in S : k \in Nat \ {0} /\ TakeProfitAt[p] < day /\ k <= PeriodAt(p, day)
    BY DEF CreditsInv, TotalBounded, LoggedComplete, Complete
  <2>2. invested[p][u] \in Nat /\ credits[p][u].total \in Nat
    BY DEF TypeOK, Credits
  <2>3. n \in Int /\ S \subseteq 1 .. n
    BY <2>1, PeriodAtInt DEF TypeOK
  <2>4. n \in Nat
    <3>1. CASE TakeProfitAt[p] < day
      <4>1. day - TakeProfitAt[p] \in Nat /\ ProfitPeriod[p] \in Nat \ {0}
        BY <3>1, DatesAssumption DEF TypeOK
      <4>2. \A a \in Nat, b \in Nat \ {0} : a \div b \in Nat
        OBVIOUS
      <4> QED
        BY <3>1, <4>1, <4>2 DEF PeriodAt
    <3> QED
      BY <3>1
  <2> HIDE DEF S, n
  <2>5. Cardinality(S) \in Nat /\ Cardinality(S) <= n
    <3>1. IsFiniteSet(1 .. n) /\ Cardinality(1 .. n) = n
      BY <2>4, FS_Interval
    <3> QED
      BY <2>1, <2>3, <3>1, FS_Subset, FS_CardinalityType
  <2>6. invested[p][u] * Cardinality(S) <= invested[p][u] * n
    BY <2>2, <2>4, <2>5, ProductMonotone
  <2>7. invested[p][u] * Cardinality(S) \in Nat /\ invested[p][u] * n \in Nat
    BY <2>2, <2>4, <2>5
  <2> QED
    BY <2>1, <2>2, <2>6, <2>7 DEF n
<1> QED
  BY <1>1, TypeCorrect, CreditsInductive, PTL

\* No period that ends after the start of the vote to sell is ever credited.
THEOREM NoProfitAfterVote == Spec => []VoteStopsProfit
<1>1. CreditsInv => VoteStopsProfit
  BY DEF CreditsInv, LoggedComplete, Complete, VoteStopsProfit
<1> QED
  BY <1>1, CreditsInductive, PTL
-----------------------------------------------------------------------------
(* The refinement of the ledger *)

\* The tables of the ledger, as they are read off the rows.
LEMMA BookTables ==
    ASSUME TypeOK, NEW a \in Accounts
    PROVE  /\ a[1] \in Projects /\ a[2] \in Users
           /\ balance[a[1]][a[2]] \in Int
           /\ credits[a[1]][a[2]].total \in Nat
           /\ debits[a[1]][a[2]] \in Nat
BY DEF TypeOK, Accounts, Credits

\* The batch of a run is a credit of the ledger.
LEMMA CommitCredits ==
    ASSUME TypeOK, NEW j \in Jobs, JobCommit(j)
    PROVE  Book!Credit
<1>1. ASSUME NEW a \in Accounts
      PROVE  /\ credits'[a[1]][a[2]].total >= credits[a[1]][a[2]].total
             /\ balance'[a[1]][a[2]] = balance[a[1]][a[2]]
                  + (credits'[a[1]][a[2]].total - credits[a[1]][a[2]].total)
  <2> DEFINE p == a[1]
             u == a[2]
  <2>1. p \in Projects /\ u \in Users
    BY BookTables
  <2>2. balance[p][u] \in Int /\ credits[p][u].total \in Nat
    BY BookTables
  <2>3. job[j].invested[p][u] \in Nat
    BY <2>1 DEF TypeOK, Job
  <2> HIDE DEF p, u
  <2>4. CASE Credited(j, p, u)
    <3>1. /\ balance'[p][u] = balance[p][u] + job[j].invested[p][u]
          /\ credits'[p][u].total = credits[p][u].total + job[j].invested[p][u]
      BY <2>1, <2>4 DEF JobCommit
    <3> QED
      BY <2>2, <2>3, <3>1 DEF p, u
  <2>5. CASE ~Credited(j, p, u)
    <3>1. balance'[p][u] = balance[p][u] + 0 /\ credits'[p][u] = credits[p][u]
      BY <2>1, <2>5 DEF JobCommit
    <3> QED
      BY <2>2, <3>1 DEF p, u
  <2> QED
    BY <2>4, <2>5
<1>2. debits' = debits /\ wallet' = wallet
  BY DEF JobCommit, wallets
<1> QED
  BY <1>1, <1>2 DEF Book!Credit

\* The batch of a claim is a payment of its account.
LEMMA ClaimPays ==
    ASSUME TypeOK, NEW c \in Claims, NEW p \in Projects, NEW u \in Users,
           ClaimCommit(c, p, u)
    PROVE  \E a \in Accounts : Book!Pay(a)
<1> DEFINE n == claiming[c][p][u]
           b == <<p, u>>
<1>1. n \in Nat /\ n > 0
  BY DEF TypeOK, ClaimCommit
<1>2. b \in Accounts /\ b[1] = p /\ b[2] = u
  BY DEF Accounts
<1>3. /\ debits' = [debits EXCEPT ![p][u] = @ + n]
      /\ balance' = [balance EXCEPT ![p][u] = @ - n]
      /\ wallet' = [wallet EXCEPT ![u] = @ + n]
      /\ credits' = credits
  BY DEF ClaimCommit, MoveToWallet
<1> HIDE DEF n, b
<1>4. \A a \in Accounts :
        /\ debits'[a[1]][a[2]] = debits[a[1]][a[2]] + (IF a = b THEN n ELSE 0)
        /\ balance'[a[1]][a[2]] = balance[a[1]][a[2]] - (IF a = b THEN n ELSE 0)
  <2> SUFFICES ASSUME NEW q \in Projects, NEW v \in Users
               PROVE  /\ debits'[q][v] = debits[q][v] + (IF q = p /\ v = u THEN n ELSE 0)
                      /\ balance'[q][v] = balance[q][v] - (IF q = p /\ v = u THEN n ELSE 0)
    BY DEF Accounts, b
  <2>1. debits[q][v] \in Nat /\ balance[q][v] \in Int
    BY DEF TypeOK
  <2>2. CASE q = p /\ v = u
    BY <1>1, <1>3, <2>1, <2>2 DEF TypeOK
  <2>3. CASE ~(q = p /\ v = u)
    <3>1. debits'[q][v] = debits[q][v] /\ balance'[q][v] = balance[q][v]
      BY <1>3, <2>3 DEF TypeOK
    <3> QED
      BY <2>1, <2>3, <3>1
  <2> QED
    BY <2>2, <2>3
<1>5. debits'[b[1]][b[2]] - debits[b[1]][b[2]] = n
  BY <1>1, <1>2, <1>4, BookTables
<1>6. Book!Pay(b)
  <2>0. \A a \in Accounts : debits[a[1]][a[2]] \in Int /\ balance[a[1]][a[2]] \in Int
    BY BookTables
  <2>1. [a \in Accounts |-> debits'[a[1]][a[2]]]
          = [[a \in Accounts |-> debits[a[1]][a[2]]] EXCEPT ![b] = @ + n]
    <3> DEFINE f == [a \in Accounts |-> debits[a[1]][a[2]]]
               g == [a \in Accounts |-> debits'[a[1]][a[2]]]
    <3>1. \A a \in Accounts : f[a] \in Int /\ g[a] = IF a = b THEN f[b] + n ELSE f[a]
      BY <1>1, <1>2, <1>4, <2>0
    <3>2. DOMAIN f = Accounts /\ DOMAIN g = Accounts
      OBVIOUS
    <3>3. f = [a \in Accounts |-> f[a]] /\ g = [a \in Accounts |-> g[a]]
      OBVIOUS
    <3> HIDE DEF f, g
    <3>4. g = [f EXCEPT ![b] = @ + n]
      BY <1>2, <3>1, <3>2, <3>3
    <3> QED
      BY <3>4 DEF f, g
  <2>2. [a \in Accounts |-> balance'[a[1]][a[2]]]
          = [[a \in Accounts |-> balance[a[1]][a[2]]] EXCEPT ![b] = @ - n]
    <3> DEFINE f == [a \in Accounts |-> balance[a[1]][a[2]]]
               g == [a \in Accounts |-> balance'[a[1]][a[2]]]
    <3>1. \A a \in Accounts : f[a] \in Int /\ g[a] = IF a = b THEN f[b] - n ELSE f[a]
      BY <1>1, <1>2, <1>4, <2>0
    <3>2. DOMAIN f = Accounts /\ DOMAIN g = Accounts
      OBVIOUS
    <3>3. f = [a \in Accounts |-> f[a]] /\ g = [a \in Accounts |-> g[a]]
      OBVIOUS
    <3> HIDE DEF f, g
    <3>4. g = [f EXCEPT ![b] = @ - n]
      BY <1>2, <3>1, <3>2, <3>3
    <3> QED
      BY <3>4 DEF f, g
  <2> QED
    BY <1>1, <1>2, <1>3, <1>5, <2>1, <2>2 DEF Book!Pay
<1> QED
  BY <1>2, <1>6

\* Every step of runs, claims, purchases and admins is a step of the ledger, or
\* none: no money appears, disappears or changes hands outside the two batches.
THEOREM LedgerImplemented == Spec => ImplementsLedger
<1>1. Init => Book!Init
  BY DEF Init, NoAmounts, Book!Init, Accounts
<1>2. TypeOK /\ [Next]_vars => [Book!Next]_(Book!vars)
  <2> SUFFICES ASSUME TypeOK, [Next]_vars PROVE Book!Next \/ UNCHANGED Book!vars
    OBVIOUS
  <2>1. CASE UNCHANGED <<accounts, wallets>>
    BY <2>1 DEF accounts, wallets, Book!vars
  <2>2. ASSUME NEW j \in Jobs, JobCommit(j) PROVE Book!Next
    BY <2>2, CommitCredits DEF Book!Next
  <2>3. ASSUME NEW c \in Claims, NEW p \in Projects, NEW u \in Users,
               ClaimCommit(c, p, u)
        PROVE  Book!Next
    BY <2>3, ClaimPays DEF Book!Next
  <2> QED
    BY <2>1, <2>2, <2>3
    DEF Next, JobStep, JobQuery, JobCompute, JobConflict, JobCrash, ClaimStep,
        ClaimRead, ClaimFail, UpdateProjectNftOwner, FinishProject, Tick, vars
<1> QED
  BY <1>1, <1>2, TypeCorrect, PTL DEF Spec, ImplementsLedger, Book!Spec
-----------------------------------------------------------------------------
(* What holds when runs, or claims, do not overlap *)

\* A run alone finds the index as it read it, and moves it forward.
RunIndexFresh ==
    \A j \in Jobs : \A p \in job[j].projects :
        /\ job[j].pc = "queried" => job[j].index[p] = index[p]
        /\ job[j].pc = "computed" => job[j].index[p] > index[p]

LEMMA RunIndexStep ==
    ASSUME \A i, j \in Jobs : i = j, TypeOK, RunIndexFresh, IndexCoversLog, [Next]_vars
    PROVE  RunIndexFresh' /\ IndexCoversLog'
<1>0. \A j \in Jobs : job[j] \in Job
  BY DEF TypeOK
<1>1. ASSUME NEW j \in Jobs, JobQuery(j) PROVE RunIndexFresh' /\ IndexCoversLog'
  <2>1. /\ job'[j].pc = "queried"
        /\ \A p \in job'[j].projects : job'[j].index[p] = index[p]
    BY <1>0, <1>1 DEF JobQuery, TypeOK
  <2>2. index' = index /\ credits' = credits
    BY <1>1 DEF JobQuery, accounts
  <2> QED
    BY <2>1, <2>2 DEF RunIndexFresh, IndexCoversLog
<1>2. ASSUME NEW j \in Jobs, JobCompute(j) PROVE RunIndexFresh' /\ IndexCoversLog'
  <2> DEFINE due == {p \in job[j].projects :
                       ~VoteSellStarted(p) /\ InNewPeriod(p, job[j].index[p])}
  <2>1. \A p \in due : PeriodAt(p, day) > index[p]
    BY <1>0, <1>2, PeriodAtInt DEF JobCompute, RunIndexFresh, InNewPeriod, TypeOK, Job
  <2>2. CASE due = {}
    <3>1. job'[j].projects = {}
      BY <1>2, <2>2 DEF JobCompute, TypeOK, IdleJob
    <3> QED
      BY <1>2, <3>1 DEF JobCompute, accounts, RunIndexFresh, IndexCoversLog
  <2>3. CASE due # {}
    <3>1. job'[j] = [pc |-> "computed", projects |-> due,
                     index |-> [p \in Projects |-> IF p \in due THEN PeriodAt(p, day) ELSE 0],
                     invested |-> [p \in Projects |->
                         IF p \in due THEN job[j].invested[p] ELSE [u \in Users |-> 0]]]
      BY <1>2, <2>3 DEF JobCompute, TypeOK
    <3>2. due \subseteq Projects
      BY <1>0 DEF Job
    <3>3. index' = index /\ credits' = credits
      BY <1>2 DEF JobCompute, accounts
    <3> HIDE DEF due
    <3>4. \A p \in job'[j].projects :
            job'[j].pc = "computed" /\ job'[j].index[p] > index[p]
      BY <2>1, <3>1, <3>2
    <3> QED
      BY <3>3, <3>4 DEF RunIndexFresh, IndexCoversLog
  <2> QED
    BY <2>2, <2>3
<1>3. ASSUME NEW j \in Jobs, JobCommit(j) PROVE RunIndexFresh' /\ IndexCoversLog'
  <2>1. job'[j].projects = {}
    BY <1>3 DEF JobCommit, TypeOK, IdleJob
  <2>2. ASSUME NEW p \in Projects, NEW u \in Users, NEW k \in credits'[p][u].periods
        PROVE  k <= index'[p]
    <3>0. /\ index[p] \in Nat /\ job[j].index[p] \in Nat
          /\ credits[p][u].periods \subseteq Nat
      BY <1>0 DEF TypeOK, Job, Credits
    <3>1. index'[p] = IndexSaved(j, p)
      BY <1>3 DEF JobCommit
    <3>2. CASE p \in job[j].projects
      <4>1. index'[p] = job[j].index[p] /\ job[j].index[p] > index[p]
        BY <1>3, <3>1, <3>2 DEF IndexSaved, JobCommit, RunIndexFresh
      <4>2. k \in credits[p][u].periods \/ k = job[j].index[p]
        BY <1>3, <2>2 DEF JobCommit
      <4> QED
        BY <3>0, <4>1, <4>2 DEF IndexCoversLog
    <3>3. CASE p \notin job[j].projects
      <4>1. index'[p] = index[p] /\ credits'[p][u] = credits[p][u]
        BY <1>3, <3>1, <3>3 DEF IndexSaved, JobCommit, Credited
      <4> QED
        BY <2>2, <4>1 DEF IndexCoversLog
    <3> QED
      BY <3>2, <3>3
  <2> QED
    BY <2>1, <2>2 DEF RunIndexFresh, IndexCoversLog
<1>4. ASSUME NEW j \in Jobs, JobConflict(j) \/ JobCrash(j)
      PROVE  RunIndexFresh' /\ IndexCoversLog'
  <2>1. job'[j].projects = {} /\ credits' = credits /\ index' = index
    BY <1>4 DEF JobConflict, JobCrash, TypeOK, IdleJob, accounts
  <2> QED
    BY <2>1 DEF RunIndexFresh, IndexCoversLog
<1>5. CASE UNCHANGED <<index, credits, job>>
  BY <1>5 DEF RunIndexFresh, IndexCoversLog
<1> QED
  BY <1>1, <1>2, <1>3, <1>4, <1>5
  DEF Next, JobStep, ClaimStep, ClaimRead, ClaimCommit, ClaimFail, MoveToWallet,
      UpdateProjectNftOwner, FinishProject, Tick, vars, accounts

\* Runs that do not overlap never handle a period twice: the index that is saved
\* is ahead of the change log, however runs crash and are repeated.
THEOREM OneRunCovers ==
    ASSUME \A i, j \in Jobs : i = j
    PROVE  Spec => []IndexCoversLog
<1>1. Init => RunIndexFresh /\ IndexCoversLog
  BY DEF Init, IdleJob, RunIndexFresh, IndexCoversLog
<1>2. TypeOK /\ RunIndexFresh /\ IndexCoversLog /\ [Next]_vars
        => (RunIndexFresh /\ IndexCoversLog)'
  BY RunIndexStep
<1> QED
  BY <1>1, <1>2, TypeCorrect, PTL DEF Spec

\* Who was credited is an owner, also to a run alone, whenever it read the owners.
OwnersSeen ==
    \A p \in Projects, u \in Users :
        credits[p][u].periods # {} =>
            /\ invested[p][u] > 0
            /\ \A j \in Jobs : p \in job[j].projects => job[j].invested[p][u] > 0

LEMMA OwnersAlikeStep ==
    ASSUME \A i, j \in Jobs : i = j, TypeOK, SnapshotNotAhead, RunIndexFresh,
           IndexCoversLog, OwnersSeen, OwnersPaidAlike, [Next]_vars
    PROVE  OwnersSeen' /\ OwnersPaidAlike'
<1>0. \A j \in Jobs : job[j] \in Job
  BY DEF TypeOK
<1>1. ASSUME NEW j \in Jobs, JobQuery(j) PROVE OwnersSeen' /\ OwnersPaidAlike'
  <2>1. /\ \A p \in job'[j].projects : p \in Projects /\ job'[j].invested[p] = invested[p]
        /\ credits' = credits /\ invested' = invested
    BY <1>0, <1>1 DEF JobQuery, accounts, TypeOK
  <2> QED
    BY <2>1 DEF OwnersSeen, OwnersPaidAlike, Handled
<1>2. ASSUME NEW j \in Jobs, JobCompute(j) PROVE OwnersSeen' /\ OwnersPaidAlike'
  <2> DEFINE due == {p \in job[j].projects :
                       ~VoteSellStarted(p) /\ InNewPeriod(p, job[j].index[p])}
  <2>1. credits' = credits /\ invested' = invested /\ due \subseteq job[j].projects
    BY <1>2 DEF JobCompute, accounts
  <2>2. \A p \in job'[j].projects :
          p \in job[j].projects /\ job'[j].invested[p] = job[j].invested[p]
    <3>1. CASE due = {}
      BY <1>2, <3>1 DEF JobCompute, TypeOK, IdleJob
    <3>2. CASE due # {}
      <4>1. job'[j] = [pc |-> "computed", projects |-> due,
                       index |-> [p \in Projects |-> IF p \in due THEN PeriodAt(p, day) ELSE 0],
                       invested |-> [p \in Projects |->
                           IF p \in due THEN job[j].invested[p] ELSE [u \in Users |-> 0]]]
        BY <1>2, <3>2 DEF JobCompute, TypeOK
      <4>2. due \subseteq Projects
        BY <1>0 DEF Job
      <4> HIDE DEF due
      <4> QED
        BY <2>1, <4>1, <4>2
    <3> QED
      BY <3>1, <3>2
  <2> HIDE DEF due
  <2> QED
    BY <2>1, <2>2 DEF OwnersSeen, OwnersPaidAlike, Handled
<1>3. ASSUME NEW j \in Jobs, JobCommit(j) PROVE OwnersSeen' /\ OwnersPaidAlike'
  <2>1. job'[j].projects = {} /\ invested' = invested
    BY <1>3 DEF JobCommit, TypeOK, IdleJob
  <2>2. ASSUME NEW p \in Projects, NEW u \in Users
        PROVE  credits'[p][u].periods = IF Credited(j, p, u)
                                        THEN credits[p][u].periods \cup {job[j].index[p]}
                                        ELSE credits[p][u].periods
    BY <1>3 DEF JobCommit
  <2>3. ASSUME NEW p \in Projects, NEW u \in Users, Credited(j, p, u)
        PROVE  invested[p][u] > 0
    <3>1. job[j].invested[p][u] > 0 /\ job[j].invested[p][u] <= invested[p][u]
      BY <2>3 DEF Credited, SnapshotNotAhead
    <3>2. job[j].invested[p][u] \in Nat /\ invested[p][u] \in Nat
      BY <1>0 DEF Job, TypeOK
    <3> QED
      BY <3>1, <3>2
  <2>4. OwnersSeen'
    BY <2>1, <2>2, <2>3 DEF OwnersSeen
  <2>5. ASSUME NEW p \in Projects, NEW u \in Users, NEW v \in Users,
               NEW k \in credits'[p][u].periods, NEW l \in credits'[p][v].periods, k < l
        PROVE  l \in credits'[p][u].periods
    <3> DEFINE new == job[j].index[p]
    <3>1. /\ credits[p][u].periods \subseteq Nat /\ credits[p][v].periods \subseteq Nat
          /\ index[p] \in Nat /\ new \in Nat
      BY <1>0 DEF TypeOK, Credits, Job
    <3>2. l \in credits[p][v].periods \/ (l = new /\ p \in job[j].projects)
      BY <2>2, <2>5 DEF Credited
    <3>3. k \in credits[p][u].periods \/ (k = new /\ p \in job[j].projects)
      BY <2>2, <2>5 DEF Credited
    <3>4. p \in job[j].projects => new > index[p]
      BY <1>3 DEF JobCommit, RunIndexFresh
    <3>5. (\A m \in credits[p][v].periods : m <= index[p])
          /\ (\A m \in credits[p][u].periods : m <= index[p])
      BY DEF IndexCoversLog
    <3>6. k \in credits[p][u].periods
      <4> SUFFICES ASSUME k = new, p \in job[j].projects PROVE FALSE
        BY <3>3
      <4>1. l <= new
        BY <3>1, <3>2, <3>4, <3>5
      <4> QED
        BY <2>5, <3>1, <3>2, <4>1
    <3>7. CASE l \in credits[p][v].periods
      <4>1. l \in credits[p][u].periods
        BY <2>5, <3>6, <3>7 DEF OwnersPaidAlike, Handled
      <4> QED
        BY <2>2, <4>1
    <3>8. CASE l = new /\ p \in job[j].projects
      <4>1. Credited(j, p, u)
        BY <3>6, <3>8 DEF OwnersSeen, Credited
      <4> QED
        BY <2>2, <3>8, <4>1
    <3> QED
      BY <3>2, <3>7, <3>8
  <2>6. OwnersPaidAlike'
    BY <2>5 DEF OwnersPaidAlike, Handled
  <2> QED
    BY <2>4, <2>6
<1>4. ASSUME NEW j \in Jobs, JobConflict(j) \/ JobCrash(j)
      PROVE  OwnersSeen' /\ OwnersPaidAlike'
  <2>1. job'[j].projects = {} /\ credits' = credits /\ invested' = invested
    BY <1>4 DEF JobConflict, JobCrash, TypeOK, IdleJob, accounts
  <2> QED
    BY <2>1 DEF OwnersSeen, OwnersPaidAlike, Handled
<1>5. ASSUME NEW q \in Projects, NEW v \in Users, UpdateProjectNftOwner(q, v)
      PROVE  OwnersSeen' /\ OwnersPaidAlike'
  <2>1. credits' = credits /\ job' = job
    BY <1>5 DEF UpdateProjectNftOwner, accounts
  <2>2. \A p \in Projects, u \in Users : invested[p][u] > 0 => invested'[p][u] > 0
    <3>1. invested' = [invested EXCEPT ![q][v] = @ + NftPrice[q]]
      BY <1>5 DEF UpdateProjectNftOwner
    <3>2. NftPrice[q] \in Nat /\ \A p \in Projects, u \in Users : invested[p][u] \in Nat
      BY PriceAssumption DEF TypeOK
    <3> QED
      BY <3>1, <3>2 DEF TypeOK
  <2> QED
    BY <2>1, <2>2 DEF OwnersSeen, OwnersPaidAlike, Handled
<1>6. CASE UNCHANGED <<invested, credits, job>>
  BY <1>6 DEF OwnersSeen, OwnersPaidAlike, Handled
<1> QED
  BY <1>1, <1>2, <1>3, <1>4, <1>5, <1>6
  DEF Next, JobStep, ClaimStep, ClaimRead, ClaimCommit, ClaimFail, MoveToWallet,
      FinishProject, Tick, vars, accounts

\* Runs that do not overlap leave no owner out: whoever was credited once is credited
\* for every later period that anybody is credited for, wherever purchases, failures
\* and the ends of periods fall between the queries and the batch of a run.
THEOREM OneRunPaysAlike ==
    ASSUME \A i, j \in Jobs : i = j
    PROVE  Spec => []OwnersPaidAlike
<1> DEFINE Inv == RunIndexFresh /\ IndexCoversLog /\ OwnersSeen /\ OwnersPaidAlike
<1>1. Init => Inv
  BY DEF Init, IdleJob, RunIndexFresh, IndexCoversLog, OwnersSeen, OwnersPaidAlike, Handled
<1>2. TypeOK /\ CreditsInv /\ Inv /\ [Next]_vars => Inv'
  BY RunIndexStep, OwnersAlikeStep DEF CreditsInv
<1> QED
  BY <1>1, <1>2, TypeCorrect, CreditsInductive, PTL DEF Spec

\* A claim alone finds at least the balance that it read.
ClaimCovered ==
    \A p \in Projects, u \in Users :
        /\ balance[p][u] >= 0
        /\ \A c \in Claims : claiming[c][p][u] <= balance[p][u]

LEMMA ClaimCoveredStep ==
    ASSUME \A c, d \in Claims : c = d, TypeOK, ClaimCovered, [Next]_vars
    PROVE  ClaimCovered'
<1>0. \A p \in Projects, u \in Users :
        balance[p][u] \in Int /\ \A c \in Claims : claiming[c][p][u] \in Nat
  BY DEF TypeOK
<1>1. ASSUME NEW j \in Jobs, JobCommit(j) PROVE ClaimCovered'
  <2>1. ASSUME NEW p \in Projects, NEW u \in Users
        PROVE  balance'[p][u] \in Int /\ balance'[p][u] >= balance[p][u]
    <3>1. job[j].invested[p][u] \in Nat
      BY DEF TypeOK, Job
    <3> QED
      BY <1>0, <1>1, <3>1 DEF JobCommit
  <2>2. claiming' = claiming
    BY <1>1 DEF JobCommit
  <2> QED
    BY <1>0, <2>1, <2>2 DEF ClaimCovered
<1>2. ASSUME NEW c \in Claims, NEW p \in Projects, NEW u \in Users, ClaimStep(c, p, u)
      PROVE  ClaimCovered'
  <2>1. CASE ClaimRead(c, p, u)
    BY <1>0, <2>1 DEF ClaimRead, accounts, TypeOK, ClaimCovered
  <2>2. CASE ClaimCommit(c, p, u)
    <3>1. /\ balance' = [balance EXCEPT ![p][u] = @ - claiming[c][p][u]]
          /\ claiming' = [claiming EXCEPT ![c][p][u] = 0]
      BY <2>2 DEF ClaimCommit, MoveToWallet
    <3> QED
      BY <1>0, <3>1 DEF TypeOK, ClaimCovered
  <2>3. CASE ClaimFail(c, p, u)
    BY <1>0, <2>3 DEF ClaimFail, accounts, TypeOK, ClaimCovered
  <2> QED
    BY <1>2, <2>1, <2>2, <2>3 DEF ClaimStep
<1>3. CASE UNCHANGED <<balance, claiming>>
  BY <1>3 DEF ClaimCovered
<1> QED
  BY <1>1, <1>2, <1>3
  DEF Next, JobStep, JobQuery, JobCompute, JobConflict, JobCrash,
      UpdateProjectNftOwner, FinishProject, Tick, vars, accounts

\* Claims that do not overlap never take more than was credited.
THEOREM OneClaimCovered ==
    ASSUME \A c, d \in Claims : c = d
    PROVE  Spec => []BalanceNotNegative
<1>1. Init => ClaimCovered
  BY DEF Init, NoAmounts, ClaimCovered
<1>2. TypeOK /\ ClaimCovered /\ [Next]_vars => ClaimCovered'
  BY ClaimCoveredStep
<1>3. ClaimCovered => BalanceNotNegative
  BY DEF ClaimCovered, BalanceNotNegative
<1> QED
  BY <1>1, <1>2, <1>3, TypeCorrect, PTL DEF Spec
-----------------------------------------------------------------------------
(* What owners are shown (Portfolio) *)

\* An investment does not shrink, and what an owner earned does not either.
LEMMA NothingShrinks ==
    ASSUME TypeOK, [Next]_vars, NEW p \in Projects, NEW u \in Users
    PROVE  invested'[p][u] >= invested[p][u] /\ Earned(p, u)' >= Earned(p, u)
<1>1. /\ invested[p][u] \in Nat /\ balance[p][u] \in Int /\ claimed[p][u] \in Nat
  BY DEF TypeOK
<1>2. CASE UNCHANGED <<invested, balance, claimed>>
  BY <1>1, <1>2 DEF Earned, ProfitBalance
<1>3. ASSUME NEW j \in Jobs, JobCommit(j)
      PROVE  invested'[p][u] >= invested[p][u] /\ Earned(p, u)' >= Earned(p, u)
  <2>1. job[j].invested[p][u] \in Nat
    BY DEF TypeOK, Job
  <2>2. balance'[p][u] >= balance[p][u] /\ balance'[p][u] \in Int
    BY <1>1, <1>3, <2>1 DEF JobCommit
  <2>3. invested' = invested /\ claimed' = claimed
    BY <1>3 DEF JobCommit
  <2> QED
    BY <1>1, <2>2, <2>3 DEF Earned, ProfitBalance
<1>4. ASSUME NEW c \in Claims, NEW q \in Projects, NEW v \in Users, ClaimCommit(c, q, v)
      PROVE  invested'[p][u] >= invested[p][u] /\ Earned(p, u)' >= Earned(p, u)
  <2> DEFINE n == claiming[c][q][v]
  <2>1. n \in Nat
    BY DEF TypeOK
  <2>2. /\ invested' = invested
        /\ balance' = [balance EXCEPT ![q][v] = @ - n]
        /\ claimed' = [claimed EXCEPT ![q][v] = @ + n]
    BY <1>4 DEF ClaimCommit, MoveToWallet
  <2> HIDE DEF n
  <2>3. CASE q = p /\ v = u
    <3>1. balance'[p][u] = balance[p][u] - n /\ claimed'[p][u] = claimed[p][u] + n
      BY <2>2, <2>3 DEF TypeOK
    <3> QED
      BY <1>1, <2>1, <2>2, <3>1 DEF Earned, ProfitBalance
  <2>4. CASE ~(q = p /\ v = u)
    <3>1. balance'[p][u] = balance[p][u] /\ claimed'[p][u] = claimed[p][u]
      BY <2>2, <2>4 DEF TypeOK
    <3> QED
      BY <1>1, <2>2, <3>1 DEF Earned, ProfitBalance
  <2> QED
    BY <2>3, <2>4
<1>5. ASSUME NEW q \in Projects, NEW v \in Users, UpdateProjectNftOwner(q, v)
      PROVE  invested'[p][u] >= invested[p][u] /\ Earned(p, u)' >= Earned(p, u)
  <2>1. /\ balance' = balance /\ claimed' = claimed
        /\ invested' = [invested EXCEPT ![q][v] = @ + NftPrice[q]]
    BY <1>5 DEF UpdateProjectNftOwner, accounts
  <2>2. NftPrice[q] \in Nat /\ invested[q][v] \in Nat
    BY PriceAssumption DEF TypeOK
  <2>3. invested'[p][u] >= invested[p][u]
    BY <1>1, <2>1, <2>2 DEF TypeOK
  <2> QED
    BY <1>1, <2>1, <2>3 DEF Earned, ProfitBalance
<1> QED
  BY <1>2, <1>3, <1>4, <1>5
  DEF Next, JobStep, JobQuery, JobCompute, JobConflict, JobCrash, ClaimStep, ClaimRead, ClaimFail,
      FinishProject, Tick, vars, accounts

\* The rate that an owner is shown never falls unless he buys more, whatever runs and
\* claims do between two queries (getProfitRate, computeProfit, claimProjectProfit).
THEOREM RateStays == Spec => RateNeverFalls
<1>1. TypeOK /\ TypeOK' /\ [Next]_vars =>
        [\A p \in Projects, u \in Users :
            HasProfitRate(p, u) /\ LowerRate(ProfitRate(p, u)', ProfitRate(p, u))
                => invested'[p][u] > invested[p][u]]_vars
  <2> SUFFICES ASSUME TypeOK, TypeOK', [Next]_vars, NEW p \in Projects, NEW u \in Users,
                      HasProfitRate(p, u), LowerRate(ProfitRate(p, u)', ProfitRate(p, u))
               PROVE  invested'[p][u] > invested[p][u]
    OBVIOUS
  <2> DEFINE d == invested[p][u]
             e == invested'[p][u]
             a == balance[p][u] + claimed[p][u]
             b == balance'[p][u] + claimed'[p][u]
  <2>1. d \in Nat /\ e \in Nat /\ a \in Int /\ b \in Int
    BY DEF TypeOK
  <2>2. d > 0
    BY DEF HasProfitRate, Investors
  <2>3. e >= d /\ b >= a
    BY NothingShrinks DEF Earned, ProfitBalance
  <2>4. (10 * b) * d < (10 * a) * e
    BY DEF LowerRate, ProfitRate, Earned, ProfitBalance
  <2> HIDE DEF a, b, d, e
  <2>5. ASSUME e = d PROVE FALSE
    <3>1. (10 * a) * d <= (10 * b) * d
      BY <2>1, <2>3
    <3> QED
      BY <2>1, <2>4, <2>5, <3>1
  <2> QED
    BY <2>1, <2>3, <2>5 DEF d, e
<1> QED
  BY <1>1, TypeCorrect, PTL DEF Spec, RateNeverFalls

\* What the dashboard shows is the sum of what the log credited.
LEMMA DashboardSums ==
    ASSUME TypeOK, AccountsMatchLog
    PROVE  DashboardMatchesLog
<1> SUFFICES ASSUME NEW u \in Users, NEW held \in [Contracts -> 0 .. 1], NEW referrals \in 0 .. 1,
                    NEW d \in Dashboard(u, TRUE, held, referrals)
             PROVE  LET all == SumFunctionOnSet(
                                [c \in Contracts |-> PriceOf(c) * held[c]], Contracts)
                    IN  /\ d.assets - d.invested = referrals * RewardReferral
                             + SumFunctionOnSet([p \in Projects |-> credits[p][u].total], Projects)
                        /\ d.invested <= all
                        /\ Cardinality({c \in Contracts : held[c] > 0}) <= 1 => d.invested = all
  BY DEF DashboardMatchesLog
<1> DEFINE earned == [p \in Projects |-> Earned(p, u)]
           logged == [p \in Projects |-> credits[p][u].total]
           cost == [c \in Contracts |-> PriceOf(c) * held[c]]
           some == {c \in Contracts : held[c] > 0}
           reward == referrals * RewardReferral
<1>1. IsFiniteSet(Projects) /\ IsFiniteSet(Contracts) /\ IsFiniteSet(some)
  BY IdAssumption, FS_AddElement, FS_Subset DEF Contracts
<1>2. SumFunctionOnSet(earned, Projects) = SumFunctionOnSet(logged, Projects)
      /\ SumFunctionOnSet(logged, Projects) \in Int
  <2>1. \A p \in Projects : earned[p] \in Int /\ earned[p] = logged[p] /\ logged[p] \in Int
    BY DEF TypeOK, Credits, AccountsMatchLog, Earned, ProfitBalance
  <2> HIDE DEF earned, logged
  <2> QED
    BY <1>1, <2>1, SumEqual, SumType
<1>3. \A c \in Contracts :
        /\ cost[c] \in Nat
        /\ c \notin some => cost[c] = 0
        /\ cost[c] = PriceOf(c) * held[c]
  <2> SUFFICES ASSUME NEW c \in Contracts
               PROVE  PriceOf(c) * held[c] \in Nat /\ (c \notin some => PriceOf(c) * held[c] = 0)
    OBVIOUS
  <2>1. PriceOf(c) \in Nat
    BY PriceAssumption DEF PriceOf
  <2>2. held[c] = 0 \/ held[c] = 1
    OBVIOUS
  <2> QED
    BY <2>1, <2>2
<1>4. reward \in Int
  BY RewardAssumption
<1>5. PICK total \in TotalInvested(held) :
        /\ d.assets = total + reward + SumFunctionOnSet(earned, Projects)
        /\ d.invested = total
  BY DEF Dashboard, ProfitOfProjects
<1>6. \/ some = {} /\ total = 0
      \/ \E c \in some : total = cost[c]
  BY <1>3 DEF TotalInvested
<1> HIDE DEF earned, logged, cost, reward
<1> DEFINE all == SumFunctionOnSet(cost, Contracts)
<1>7. all \in Nat /\ \A c \in Contracts : cost[c] <= all
  BY <1>1, <1>3, SumNat
<1>8. total \in Int /\ total <= all
  BY <1>3, <1>6, <1>7
<1>9. ASSUME Cardinality(some) <= 1 PROVE total = all
  <2>1. all = SumFunctionOnSet(cost, some)
    <3>1. some \in SUBSET Contracts /\ (\A c \in Contracts : cost[c] \in Int)
          /\ (\A c \in Contracts \ some : cost[c] = 0)
      BY <1>3
    <3> HIDE DEF some
    <3> QED
      BY <1>1, <3>1, SumOfSubset
  <2>2. CASE some = {}
    BY <1>6, <2>1, <2>2, SumEmpty
  <2>3. CASE some # {}
    <3>1. PICK c \in some : total = cost[c]
      BY <1>6, <2>3
    <3>2. some = {c}
      <4> HIDE DEF some
      <4>1. Cardinality(some \ {c}) = Cardinality(some) - 1 /\ IsFiniteSet(some \ {c})
        BY <1>1, FS_RemoveElement
      <4>2. Cardinality(some) \in Nat /\ Cardinality(some \ {c}) \in Nat
        BY <1>1, <4>1, FS_CardinalityType
      <4>3. Cardinality(some \ {c}) = 0
        BY <1>9, <4>1, <4>2
      <4>4. some \ {c} = {}
        BY <4>1, <4>3, FS_EmptySet
      <4> QED
        BY <4>4
    <3>3. SumFunctionOnSet(cost, {c}) = cost[c] + SumFunctionOnSet(cost, {c} \ {c})
      <4>1. IsFiniteSet({c}) /\ \A x \in {c} : cost[x] \in Int
        BY <1>1, <1>3, <3>2
      <4> QED
        BY <4>1, SumTake
    <3>4. SumFunctionOnSet(cost, {c} \ {c}) = 0 /\ cost[c] \in Int
      <4>1. {c} \ {c} = {}
        OBVIOUS
      <4>2. cost[c] \in Int
        BY <1>3
      <4> HIDE DEF some
      <4> QED
        BY <4>1, <4>2, SumEmpty
    <3> HIDE DEF some, all
    <3>5. all = SumFunctionOnSet(cost, {c})
      BY <2>1, <3>2
    <3> QED
      BY <3>1, <3>3, <3>4, <3>5
  <2> QED
    BY <2>2, <2>3
<1>10. d.assets - d.invested = reward + SumFunctionOnSet(logged, Projects)
  BY <1>2, <1>4, <1>5, <1>8
<1>11. d.invested <= all /\ (Cardinality(some) <= 1 => d.invested = all)
  BY <1>5, <1>8, <1>9
<1> QED
  BY <1>10, <1>11 DEF logged, cost, reward

\* Beyond what is invested, the dashboard shows what the log credited and the
\* referrals, between any two steps of credits and claims; what is invested is shown
\* never too high, and right with NFTs of one contract (getDashboard).
THEOREM DashboardShowsLog == Spec => []DashboardMatchesLog
<1>1. TypeOK /\ AccountsMatchLog => DashboardMatchesLog
  BY DashboardSums
<1> QED
  BY <1>1, TypeCorrect, LogExplainsAccounts, PTL

-----------------------------------------------------------------------------
(* Lists that are paired by place *)

\* A list of the elements of a finite set has each of them at one place.
LEMMA ListsFill ==
    ASSUME NEW S, IsFiniteSet(S), NEW l \in SetToSeqs(S)
    PROVE  /\ Cardinality(S) \in Nat /\ DOMAIN l = 1 .. Cardinality(S)
           /\ \A i \in DOMAIN l : l[i] \in S
           /\ \A i, j \in DOMAIN l : l[i] = l[j] => i = j
           /\ \A x \in S : \E i \in DOMAIN l : l[i] = x
<1> DEFINE D == 1 .. Cardinality(S)
<1>1. Cardinality(S) \in Nat
  BY FS_CardinalityType
<1>2. /\ l \in [D -> S]
      /\ \A i, j \in D : l[i] = l[j] => i = j
  BY DEF SetToSeqs
<1>3. l \in Injection(D, S)
  BY <1>2 DEF Injection, IsInjective
<1>4. Cardinality(D) = Cardinality(S)
  BY <1>1, FS_Interval
<1>5. l \in Surjection(D, S)
  BY <1>3, <1>4, FS_Injection
<1>6. \A x \in S : \E i \in D : l[i] = x
  BY <1>5 DEF Surjection
<1> QED
  BY <1>1, <1>2, <1>6

InOrder(list, key) == \A i, j \in DOMAIN list : i < j => key[list[i]] <= key[list[j]]

\* Two lists in the same order agree as far as the shorter reaches, if nothing that is
\* missing in it comes before anything that it has: of the places where they do not
\* agree there would be a first one.
LEMMA PrefixOfList ==
    ASSUME NEW N, IsFiniteSet(N), NEW B \in SUBSET N, NEW key,
           \A x \in N : key[x] \in Nat,
           \A x, y \in N : key[x] = key[y] => x = y,
           \A x \in N, y \in B : key[x] < key[y] => x \in B,
           NEW l \in SetToSeqs(N), InOrder(l, key),
           NEW r \in SetToSeqs(B), InOrder(r, key)
    PROVE  \A i \in DOMAIN l :
              IF l[i] \in B THEN i \in DOMAIN r /\ r[i] = l[i] ELSE i \notin DOMAIN r
<1>1. /\ IsFiniteSet(B) /\ Cardinality(B) <= Cardinality(N)
  BY FS_Subset
<1>2. /\ Cardinality(N) \in Nat /\ DOMAIN l = 1 .. Cardinality(N)
      /\ \A i \in DOMAIN l : l[i] \in N
      /\ \A i, j \in DOMAIN l : l[i] = l[j] => i = j
      /\ \A x \in N : \E i \in DOMAIN l : l[i] = x
  BY ListsFill
<1>3. /\ Cardinality(B) \in Nat /\ DOMAIN r = 1 .. Cardinality(B)
      /\ \A i \in DOMAIN r : r[i] \in B
      /\ \A i, j \in DOMAIN r : r[i] = r[j] => i = j
      /\ \A x \in B : \E i \in DOMAIN r : r[i] = x
  BY <1>1, ListsFill
<1>4. DOMAIN r \subseteq DOMAIN l /\ DOMAIN l \subseteq Nat
  BY <1>1, <1>2, <1>3
<1> DEFINE Bad == {i \in DOMAIN r : r[i] # l[i]}
<1>5. ASSUME Bad # {} PROVE FALSE
  <2>1. PICK i \in Bad : \A j \in Bad : i <= j
    <3> DEFINE upTo == {1 .. i : i \in Bad}
    <3>1. IsFiniteSet(DOMAIN r) /\ upTo \in SUBSET SUBSET DOMAIN r /\ upTo # {}
      <4>1. IsFiniteSet(1 .. Cardinality(B))
        BY <1>3, FS_Interval
      <4>2. ASSUME NEW i \in Bad PROVE 1 .. i \subseteq DOMAIN r
        BY <1>3
      <4> HIDE DEF Bad
      <4>3. upTo # {} /\ upTo \in SUBSET SUBSET DOMAIN r
        BY <1>5, <4>2
      <4> HIDE DEF upTo
      <4> QED
        BY <1>3, <4>1, <4>3
    <3>2. PICK T \in upTo : \A U \in upTo : U \subseteq T => U = T
      <4> HIDE DEF upTo
      <4> QED
        BY <3>1, MinimalSubset
    <3>3. PICK i \in Bad : T = 1 .. i
      BY <3>2
    <3>4. ASSUME NEW j \in Bad, j < i PROVE FALSE
      <4>1. i \in Nat /\ j \in Nat
        BY <1>4
      <4>2. 1 .. j \subseteq 1 .. i /\ i \in 1 .. i /\ i \notin 1 .. j
        BY <1>3, <3>4, <4>1
      <4> QED
        BY <3>2, <3>3, <4>2
    <3> QED
      BY <1>4, <3>4
  <2>2. /\ i \in DOMAIN r /\ i \in DOMAIN l /\ i \in Nat /\ r[i] # l[i]
        /\ \A j \in DOMAIN r : j < i => r[j] = l[j]
    BY <1>4, <2>1
  <2>3. r[i] \in B /\ r[i] \in N /\ l[i] \in N
    BY <1>2, <1>3, <2>2
  <2>4. PICK m \in DOMAIN l : l[m] = r[i]
    BY <1>2, <2>3
  <2>5. m > i
    <3>1. m # i
      BY <2>2, <2>4
    <3>2. ASSUME m < i PROVE FALSE
      <4>1. m \in DOMAIN r
        BY <1>2, <1>3, <2>2, <3>2
      <4> QED
        BY <1>3, <2>2, <2>4, <3>2, <4>1
    <3> QED
      BY <1>4, <2>2, <3>1, <3>2
  <2>6. key[l[i]] < key[r[i]]
    <3>1. key[l[i]] <= key[r[i]] /\ key[l[i]] # key[r[i]]
      BY <2>2, <2>3, <2>4, <2>5 DEF InOrder
    <3> QED
      BY <2>3, <3>1
  <2>7. PICK n \in DOMAIN r : r[n] = l[i]
    BY <1>3, <2>3, <2>6
  <2>8. n > i
    <3>1. n # i
      BY <2>2, <2>7
    <3>2. ASSUME n < i PROVE FALSE
      BY <1>2, <1>4, <2>2, <2>7, <3>2
    <3> QED
      BY <1>4, <2>2, <3>1, <3>2
  <2>9. key[r[i]] <= key[l[i]]
    BY <2>2, <2>7, <2>8 DEF InOrder
  <2> QED
    BY <2>3, <2>6, <2>9
<1>6. \A i \in DOMAIN r : r[i] = l[i]
  BY <1>5
<1> SUFFICES ASSUME NEW i \in DOMAIN l
             PROVE  IF l[i] \in B THEN i \in DOMAIN r /\ r[i] = l[i] ELSE i \notin DOMAIN r
  OBVIOUS
<1>7. CASE l[i] \in B
  <2>1. PICK n \in DOMAIN r : r[n] = l[i]
    BY <1>3, <1>7
  <2>2. n = i
    BY <1>2, <1>4, <1>6, <2>1
  <2> QED
    BY <1>7, <2>1, <2>2
<1>8. CASE l[i] \notin B
  BY <1>3, <1>6, <1>8
<1> QED
  BY <1>7, <1>8

\* An owner is shown his own balance, or none where he has none, as long as nobody else
\* has one of his projects and none without a balance comes before one that has: then
\* the two lists that investedProjects reads are paired by place.
THEOREM OwnBalance == Spec => []OwnBalanceShown
<1>1. OwnBalanceShown
  <2> SUFFICES ASSUME NEW u \in Users,
                      \A p \in NftBought(u), v \in Users : HasBalanceRow(p, v) => v = u,
                      \A p, q \in NftBought(u) :
                          Id[p] < Id[q] /\ HasBalanceRow(q, u) => HasBalanceRow(p, u),
                      NEW l \in Lists(NftRows(u)), NEW r \in Lists(BalanceRows(NftBought(u))),
                      NEW i \in DOMAIN Paired(l, r)
               PROVE  LET p == Paired(l, r)[i].project IN
                      Paired(l, r)[i].profitBalance =
                          (IF HasBalanceRow(p, u) THEN {ProfitBalance(p, u)} ELSE {})
    BY DEF OwnBalanceShown, InvestedProjects
  <2> DEFINE N == NftRows(u)
             B == BalanceRows(NftBought(u))
             key == [row \in N |-> Id[row.project]]
  <2>1. /\ IsFiniteSet(NftBought(u)) /\ NftBought(u) \subseteq Projects
        /\ \A p \in Projects : Id[p] \in Nat
        /\ \A p, q \in Projects : Id[p] = Id[q] => p = q
    BY IdAssumption, FS_Subset DEF NftBought, Injection, IsInjective
  <2>2. \A row \in N : row.project \in NftBought(u) /\ row = [project |-> row.project, user |-> u]
    BY DEF NftRows
  <2>3. IsFiniteSet(N)
    <3> DEFINE f == [row \in N |-> row.project]
    <3>1. f \in [N -> NftBought(u)] /\ \A a, b \in N : f[a] = f[b] => a = b
      BY <2>2
    <3>2. f \in Injection(N, NftBought(u))
      BY <3>1 DEF Injection, IsInjective
    <3> QED
      BY <2>1, <3>2, FS_Injection
  <2>4. \A row : row \in B <=> row \in N /\ HasBalanceRow(row.project, u)
    <3>1. ASSUME NEW row \in B PROVE row \in N /\ HasBalanceRow(row.project, u)
      <4>1. /\ row = [project |-> row.project, user |-> row.user]
            /\ row.project \in NftBought(u) /\ row.user \in Users
            /\ HasBalanceRow(row.project, row.user)
        BY DEF BalanceRows
      <4>2. row.user = u
        BY <4>1
      <4> QED
        BY <4>1, <4>2 DEF NftRows
    <3>2. ASSUME NEW row \in N, HasBalanceRow(row.project, u) PROVE row \in B
      BY <2>2, <3>2 DEF BalanceRows
    <3> QED
      BY <3>1, <3>2
  <2>5. l \in SetToSeqs(N) /\ r \in SetToSeqs(B)
    BY DEF Lists
  <2>6. /\ \A j \in DOMAIN l : l[j] \in N
        /\ \A j \in DOMAIN r : r[j] \in B /\ r[j] \in N
    BY <2>4, <2>5 DEF SetToSeqs
  <2>7. InOrder(l, key) /\ InOrder(r, key)
    BY <2>6 DEF Lists, Ascending, InOrder
  <2>8. /\ \A x \in N : key[x] \in Nat
        /\ \A x, y \in N : key[x] = key[y] => x = y
        /\ \A x \in N, y \in B : key[x] < key[y] => x \in B
        /\ B \in SUBSET N
    BY <2>1, <2>2, <2>4
  <2> HIDE DEF N, B, key
  <2>9. \A j \in DOMAIN l : IF l[j] \in B THEN j \in DOMAIN r /\ r[j] = l[j] ELSE j \notin DOMAIN r
    BY <2>3, <2>5, <2>7, <2>8, PrefixOfList
  <2>10. /\ i \in DOMAIN l
         /\ Paired(l, r)[i] =
              [project |-> l[i].project,
               profitBalance |-> IF i \in DOMAIN r
                                 THEN {ProfitBalance(r[i].project, r[i].user)} ELSE {}]
    BY DEF Paired
  <2>11. l[i] \in N /\ l[i].user = u
    BY <2>2, <2>6, <2>10
  <2>12. CASE HasBalanceRow(l[i].project, u)
    <3>1. i \in DOMAIN r /\ r[i] = l[i]
      BY <2>4, <2>9, <2>10, <2>11, <2>12
    <3> QED
      BY <2>10, <2>11, <2>12, <3>1
  <2>13. CASE ~HasBalanceRow(l[i].project, u)
    <3>1. i \notin DOMAIN r
      BY <2>4, <2>9, <2>10, <2>13
    <3> QED
      BY <2>10, <2>13, <3>1
  <2> QED
    BY <2>12, <2>13
<1> QED
  BY <1>1, PTL

=============================================================================
