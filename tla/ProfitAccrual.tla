----------------------------- MODULE ProfitAccrual -----------------------------
(***************************************************************************)
(* The profit of a project's owners: the job that credits it once per      *)
(* period (InvestJob.computeProfit, started by the midnight cron and by a  *)
(* public GraphQL query, so that several runs may be in flight) and the    *)
(* claim that moves it into the wallet (InvestService.claimProjectProfit). *)
(*                                                                         *)
(* A step ends where the code awaits a query: what a handler read before   *)
(* the await is kept in its process record and may be stale when the next  *)
(* step uses it.  A $transaction([...]) batch commits or rolls back as one *)
(* step.  Money is counted in tenths of the currency unit, so that the     *)
(* profit of one period, 10% of currency_amount, is exactly currency_amount*)
(* counted in tenths.                                                      *)
(***************************************************************************)
EXTENDS Integers, FiniteSets

CONSTANTS
    Users,          \* rows of the user table
    WalletOwners,   \* the users that have a wallet row
    Projects,       \* rows of the project table
    Jobs,           \* runs of computeProfit that may be in flight together
    Claims,         \* claims of one (project, user) that may be in flight together
    NftPrice,       \* project.nft_price
    TakeProfitAt,   \* project.take_profit_at, a day
    ProfitPeriod,   \* project.profit_period, in days
    VoteSellAt,     \* project.start_time_vote_sell, a day (Never when null)
    MaxDay,         \* bound: the clock stops there
    MaxInvested     \* bound on currency_amount of one owner

ASSUME UsersAssumption == WalletOwners \subseteq Users
ASSUME PriceAssumption == NftPrice \in [Projects -> Nat \ {0}]
ASSUME DatesAssumption ==
    /\ TakeProfitAt \in [Projects -> Nat]
    /\ ProfitPeriod \in [Projects -> Nat \ {0}]
    /\ VoteSellAt \in [Projects -> Nat]
ASSUME BoundsAssumption == MaxDay \in Nat /\ MaxInvested \in Nat

VARIABLES
    day,            \* the server's clock
    ended,          \* project.ended
    index,          \* project.profit_period_index
    invested,       \* project_nft_owner.currency_amount, 0 without a row
    balance,        \* project_profit_balance.balance, 0 without a row
    claimed,        \* project_profit_balance.balance_claimed
    credits,        \* change log rows with a period_index: their keys and total
    debits,         \* change log rows without one: minus their total
    wallet,         \* wallet.balance, of the money that profit brought in
    claimLog,       \* total of the CLAIM_PROFIT rows of transaction_log
    job,            \* the runs of computeProfit
    claiming        \* the balance each claim in flight has read, 0 for none

accounts == <<balance, claimed, credits, debits>>
wallets == <<wallet, claimLog>>
vars == <<day, ended, index, invested, accounts, wallets, job, claiming>>

-----------------------------------------------------------------------------
(* Type definitions *)

NoAmounts == [p \in Projects |-> [u \in Users |-> 0]]

Job == [pc : {"idle", "queried", "computed"},
        projects : SUBSET Projects,                \* result[0], then projectById
        index : [Projects -> Nat],                 \* their profit_period_index
        invested : [Projects -> [Users -> Nat]]]   \* result[1]

IdleJob == [pc |-> "idle", projects |-> {},
            index |-> [p \in Projects |-> 0], invested |-> NoAmounts]

Credits == [periods : SUBSET Nat, total : Nat]

TypeOK ==
    /\ day \in Nat
    /\ ended \in [Projects -> BOOLEAN]
    /\ index \in [Projects -> Nat]
    /\ invested \in [Projects -> [Users -> Nat]]
    /\ balance \in [Projects -> [Users -> Int]]
    /\ claimed \in [Projects -> [Users -> Nat]]
    /\ credits \in [Projects -> [Users -> Credits]]
    /\ debits \in [Projects -> [Users -> Nat]]
    /\ wallet \in [Users -> Nat]
    /\ claimLog \in [Users -> Nat]
    /\ job \in [Jobs -> Job]
    /\ claiming \in [Claims -> [Projects -> [Users -> Nat]]]

-----------------------------------------------------------------------------
(* Helper formulae *)

\* Math.floor(profitDays / item.profit_period); the index is an integer, so
\* that profitPeriod - index < 1 exactly when the floor has not passed it.
PeriodAt(p, d) == (d - TakeProfitAt[p]) \div ProfitPeriod[p]

\* The day on which period k of project p is complete (endPeriodDate).
EndOfPeriod(p, k) == TakeProfitAt[p] + k * ProfitPeriod[p]

\* take_profit_at < now: the project is among those the job queries.
TakesProfit(p) == ~ended[p] /\ TakeProfitAt[p] < day

\* Mutant: the start of the vote is not looked at.
VoteSellIgnored(p) == FALSE

VoteSellStarted(p) == VoteSellAt[p] <= day

\* The project of a run that reached a period its saved index has not.
InNewPeriod(p, saved) == PeriodAt(p, day) - saved >= 1

\* Mutant: the profit of an owner who has not claimed the last one is left out.
CreditedWhenClaimed(j, p, u) ==
    /\ p \in job[j].projects
    /\ job[j].invested[p][u] > 0
    /\ balance[p][u] = 0

\* The owners a run credits: `if (profitAmount <= 0) continue`.
Credited(j, p, u) == p \in job[j].projects /\ job[j].invested[p][u] > 0

\* Mutant: the table has no unique key.
NoUniqueKey(j) == FALSE

\* The change log is unique in (project_id, user_id, period_index).
Duplicate(j) ==
    \E p \in Projects, u \in Users :
        Credited(j, p, u) /\ job[j].index[p] \in credits[p][u].periods

-----------------------------------------------------------------------------
Init ==
    /\ day = 0
    /\ ended = [p \in Projects |-> FALSE]
    /\ index = [p \in Projects |-> 0]
    /\ invested = NoAmounts
    /\ balance = NoAmounts
    /\ claimed = NoAmounts
    /\ credits = [p \in Projects |-> [u \in Users |-> [periods |-> {}, total |-> 0]]]
    /\ debits = NoAmounts
    /\ wallet = [u \in Users |-> 0]
    /\ claimLog = [u \in Users |-> 0]
    /\ job = [j \in Jobs |-> IdleJob]
    /\ claiming = [c \in Claims |-> NoAmounts]

-----------------------------------------------------------------------------
(* The job *)

\* The first $transaction: running projects and the owners of all projects.
JobQuery(j) ==
    /\ job[j].pc = "idle"
    /\ \E p \in Projects : TakesProfit(p)
    /\ LET running == {p \in Projects : TakesProfit(p)} IN
       job' = [job EXCEPT ![j] =
                 [pc |-> "queried",
                  projects |-> running,
                  index |-> [p \in Projects |-> IF p \in running THEN index[p] ELSE 0],
                  invested |-> [p \in Projects |->
                      IF p \in running THEN invested[p] ELSE [u \in Users |-> 0]]]]
    /\ UNCHANGED <<day, ended, index, invested, accounts, wallets, claiming>>

\* What the run prepares, once the rows are there: the clock is read now.
JobCompute(j) ==
    /\ job[j].pc = "queried"
    /\ LET due == {p \in job[j].projects :
                     ~VoteSellStarted(p) /\ InNewPeriod(p, job[j].index[p])}
       IN job' = [job EXCEPT ![j] =
                    IF due = {} THEN IdleJob
                    ELSE [pc |-> "computed",
                          projects |-> due,
                          index |-> [p \in Projects |->
                              IF p \in due THEN PeriodAt(p, day) ELSE 0],
                          invested |-> [p \in Projects |->
                              IF p \in due THEN job[j].invested[p] ELSE [u \in Users |-> 0]]]]
    /\ UNCHANGED <<day, ended, index, invested, accounts, wallets, claiming>>

\* Mutant: the run does not save the index.
IndexNotSaved(j, p) == index[p]

\* profit_period_index after the batch of run j: an absolute value.
IndexSaved(j, p) == IF p \in job[j].projects THEN job[j].index[p] ELSE index[p]

\* The second $transaction: balances, change log, and the index of the projects.
JobCommit(j) ==
    /\ job[j].pc = "computed"
    /\ ~Duplicate(j)
    /\ balance' = [p \in Projects |-> [u \in Users |->
                     balance[p][u] + IF Credited(j, p, u) THEN job[j].invested[p][u] ELSE 0]]
    /\ credits' = [p \in Projects |-> [u \in Users |->
                     IF Credited(j, p, u)
                     THEN [periods |-> credits[p][u].periods \cup {job[j].index[p]},
                           total |-> credits[p][u].total + job[j].invested[p][u]]
                     ELSE credits[p][u]]]
    /\ index' = [p \in Projects |-> IndexSaved(j, p)]
    /\ job' = [job EXCEPT ![j] = IdleJob]
    /\ UNCHANGED <<day, ended, invested, claimed, debits, wallets, claiming>>

\* One row of the batch violates the unique key: all of it is rolled back.
JobConflict(j) ==
    /\ job[j].pc = "computed"
    /\ Duplicate(j)
    /\ job' = [job EXCEPT ![j] = IdleJob]
    /\ UNCHANGED <<day, ended, index, invested, accounts, wallets, claiming>>

\* The server restarts, or the database refuses the batch for another reason.
JobCrash(j) ==
    /\ job[j].pc # "idle"
    /\ job' = [job EXCEPT ![j] = IdleJob]
    /\ UNCHANGED <<day, ended, index, invested, accounts, wallets, claiming>>

-----------------------------------------------------------------------------
(* The claim *)

\* Reads the balance, and that the wallet exists.
ClaimRead(c, p, u) ==
    /\ claiming[c][p][u] = 0
    /\ balance[p][u] > 0
    /\ u \in WalletOwners
    /\ claiming' = [claiming EXCEPT ![c][p][u] = balance[p][u]]
    /\ UNCHANGED <<day, ended, index, invested, accounts, wallets, job>>

\* Mutant: the claim is missing in the change log.
MoveUnlogged(p, u, amount) ==
    /\ debits' = debits
    /\ balance' = [balance EXCEPT ![p][u] = @ - amount]
    /\ claimed' = [claimed EXCEPT ![p][u] = @ + amount]
    /\ wallet' = [wallet EXCEPT ![u] = @ + amount]
    /\ claimLog' = [claimLog EXCEPT ![u] = @ + amount]

\* Mutant: the wallet and its log get what the balance is by now.
MoveCurrentBalance(p, u, amount) ==
    /\ debits' = [debits EXCEPT ![p][u] = @ + amount]
    /\ balance' = [balance EXCEPT ![p][u] = @ - amount]
    /\ claimed' = [claimed EXCEPT ![p][u] = @ + amount]
    /\ wallet' = [wallet EXCEPT ![u] = @ + balance[p][u]]
    /\ claimLog' = [claimLog EXCEPT ![u] = @ + balance[p][u]]

\* The batch of a claim: relative updates by the balance that was read.
MoveToWallet(p, u, amount) ==
    /\ debits' = [debits EXCEPT ![p][u] = @ + amount]
    /\ balance' = [balance EXCEPT ![p][u] = @ - amount]
    /\ claimed' = [claimed EXCEPT ![p][u] = @ + amount]
    /\ wallet' = [wallet EXCEPT ![u] = @ + amount]
    /\ claimLog' = [claimLog EXCEPT ![u] = @ + amount]

\* Mutant: the batch is sent once more.
ClaimCommitRepeats(c, p, u) ==
    /\ claiming[c][p][u] > 0
    /\ MoveToWallet(p, u, claiming[c][p][u])
    /\ UNCHANGED <<day, ended, index, invested, credits, job, claiming>>

ClaimCommit(c, p, u) ==
    /\ claiming[c][p][u] > 0
    /\ MoveToWallet(p, u, claiming[c][p][u])
    /\ claiming' = [claiming EXCEPT ![c][p][u] = 0]
    /\ UNCHANGED <<day, ended, index, invested, credits, job>>

\* The request is answered with an error before its batch, or the batch fails.
ClaimFail(c, p, u) ==
    /\ claiming[c][p][u] > 0
    /\ claiming' = [claiming EXCEPT ![c][p][u] = 0]
    /\ UNCHANGED <<day, ended, index, invested, accounts, wallets, job>>

-----------------------------------------------------------------------------
(* What else happens to the rows *)

\* InvestService.updateProjectNftOwner, for one NFT bought.
UpdateProjectNftOwner(p, u) ==
    /\ invested[p][u] + NftPrice[p] <= MaxInvested
    /\ invested' = [invested EXCEPT ![p][u] = @ + NftPrice[p]]
    /\ UNCHANGED <<day, ended, index, accounts, wallets, job, claiming>>

\* The admin's finishProject, as far as the project row goes.
FinishProject(p) ==
    /\ ~ended[p]
    /\ ended' = [ended EXCEPT ![p] = TRUE]
    /\ UNCHANGED <<day, index, invested, accounts, wallets, job, claiming>>

Tick ==
    /\ day < MaxDay
    /\ day' = day + 1
    /\ UNCHANGED <<ended, index, invested, accounts, wallets, job, claiming>>

-----------------------------------------------------------------------------
JobStep(j) ==
    JobQuery(j) \/ JobCompute(j) \/ JobCommit(j) \/ JobConflict(j) \/ JobCrash(j)

ClaimStep(c, p, u) == ClaimRead(c, p, u) \/ ClaimCommit(c, p, u) \/ ClaimFail(c, p, u)

Next ==
    \/ \E j \in Jobs : JobStep(j)
    \/ \E c \in Claims, p \in Projects, u \in Users : ClaimStep(c, p, u)
    \/ \E p \in Projects, u \in Users : UpdateProjectNftOwner(p, u)
    \/ \E p \in Projects : FinishProject(p)
    \/ Tick

Spec == Init /\ [][Next]_vars

-----------------------------------------------------------------------------
(* The abstract ledger *)

Accounts == Projects \X Users

Book == INSTANCE Ledger WITH
    Owners <- Users,
    OwnerOf <- [a \in Accounts |-> a[2]],
    due <- [a \in Accounts |-> balance[a[1]][a[2]]],
    credited <- [a \in Accounts |-> credits[a[1]][a[2]].total],
    debited <- [a \in Accounts |-> debits[a[1]][a[2]]]

-----------------------------------------------------------------------------
(* Properties that hold however runs and claims overlap *)

\* The two batches of computeProfit and claimProjectProfit keep a ledger: each
\* changes balances, wallets and the change log by the same amounts, a claim
\* pays out of one balance into the wallet of its owner, and no other step of a
\* run, a claim, a purchase or the end of a project moves money, however they
\* overlap, repeat and fail.
ImplementsLedger == Book!Spec

\* The change log explains the balances: what an owner was ever credited is
\* what can still be claimed plus what was claimed, and the claims in the log
\* are those of the balance row.  (The two batches of computeProfit and
\* claimProjectProfit, each between others' steps.)
AccountsMatchLog ==
    \A p \in Projects, u \in Users :
        /\ balance[p][u] + claimed[p][u] = credits[p][u].total
        /\ claimed[p][u] = debits[p][u]

\* The wallet was increased by exactly what the CLAIM_PROFIT rows say.
WalletMatchesLog == \A u \in Users : wallet[u] = claimLog[u]

\* Nobody is credited more than 10% of the investment for each period that is
\* over, with runs of computeProfit that overlap, repeat, work on stale
\* indices or crash: the unique key of the change log is what guarantees it.
CreditsBounded ==
    \A p \in Projects, u \in Users :
        credits[p][u].total <=
            invested[p][u] * (IF TakeProfitAt[p] < day THEN PeriodAt(p, day) ELSE 0)

\* "not allow take profit": a period that ends after the vote to sell started
\* is never credited, not even by a run that was under way at that time.
VoteStopsProfit ==
    \A p \in Projects, u \in Users :
        \A k \in credits[p][u].periods : EndOfPeriod(p, k) < VoteSellAt[p]

-----------------------------------------------------------------------------
(* Why the last two hold: an inductive strengthening *)

\* Period k of project p was complete before the vote to sell it started.
Complete(p, k) ==
    /\ k \in Nat \ {0}
    /\ TakeProfitAt[p] < day
    /\ k <= PeriodAt(p, day)
    /\ EndOfPeriod(p, k) < VoteSellAt[p]

\* A run looks only at projects whose profit has begun...
RunsAfterStart ==
    \A j \in Jobs : \A p \in job[j].projects : TakeProfitAt[p] < day

\* ... what it prepares is for complete periods ...
PreparedComplete ==
    \A j \in Jobs : job[j].pc = "computed" =>
        \A p \in job[j].projects : Complete(p, job[j].index[p])

\* ... and for investments that have not shrunk since it read them, ...
SnapshotNotAhead ==
    \A j \in Jobs, p \in Projects, u \in Users : job[j].invested[p][u] <= invested[p][u]

\* ... so that complete periods are all the log ever holds, ...
LoggedComplete ==
    \A p \in Projects, u \in Users :
        \A k \in credits[p][u].periods : Complete(p, k)

\* ... each with at most 10% of what is invested now.
TotalBounded ==
    \A p \in Projects, u \in Users :
        /\ IsFiniteSet(credits[p][u].periods)
        /\ credits[p][u].total <= invested[p][u] * Cardinality(credits[p][u].periods)

CreditsInv ==
    RunsAfterStart /\ PreparedComplete /\ SnapshotNotAhead /\ LoggedComplete /\ TotalBounded

-----------------------------------------------------------------------------
(* Properties that hold as long as runs, or claims, do not overlap *)

\* "save profit period index to save later to prevent duplicate handle": every
\* period in the change log is covered by the index saved in the project, so
\* that no run handles it again.
IndexCoversLog ==
    \A p \in Projects, u \in Users :
        \A k \in credits[p][u].periods : k <= index[p]

\* "Not enough balance to claim": nobody claims more than was credited.
BalanceNotNegative == \A p \in Projects, u \in Users : balance[p][u] >= 0

\* The periods of project p that some owner was credited for.
Handled(p) == UNION {credits[p][u].periods : u \in Users}

\* Of the owners of a project none is left out: who was credited for a period was
\* credited for every later period that any owner was credited for, although a
\* purchase, a failed run or the end of the period may come between the queries and
\* the batch of computeProfit.  The periods nobody is paid, when midnights are
\* missed, are the same for all.  (Of two runs that overlap the one that read the
\* owners before a purchase may commit last, for a later period, and leave the
\* buyer out of it for good.)
OwnersPaidAlike ==
    \A p \in Projects, u \in Users :
        \A k \in credits[p][u].periods :
            \A l \in Handled(p) : k < l => l \in credits[p][u].periods
=============================================================================
