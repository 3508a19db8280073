-------------------------------- MODULE Portfolio --------------------------------
(***************************************************************************)
(* What an owner is shown of his projects: the queries of InvestService    *)
(* and UserService that put together rows that the job and the claims of   *)
(* ProfitAccrual change.  Each is an operator on its state; a query that   *)
(* leaves an order open has a set of answers.  Money is counted in tenths. *)
(***************************************************************************)
EXTENDS ProfitAccrual, Sequences, SequencesExt, Functions

CONSTANTS
    Id,             \* project.id
    Unlisted,       \* a contract that no project has
    RewardReferral  \* rewardReferral, of the environment, in tenths

ASSUME IdAssumption == IsFiniteSet(Projects) /\ Id \in Injection(Projects, Nat)
ASSUME RewardAssumption == RewardReferral \in Nat /\ Unlisted \notin Projects

-----------------------------------------------------------------------------
(* The rows *)

\* JobCommit creates the balance of an owner with the first row of its log.
HasBalanceRow(p, u) == credits[p][u].periods # {}

\* getNftBought: the row of the owner, none before a purchase.
GetNftBought(p, u) == IF invested[p][u] > 0 THEN {invested[p][u]} ELSE {}

\* The projects of the rows of nftBought.
NftBought(u) == {p \in Projects : GetNftBought(p, u) # {}}

\* getInvestor
Investors(p) == {u \in Users : invested[p][u] > 0}

\* getProfitBalance
ProfitBalance(p, u) == [balance |-> balance[p][u], claimed |-> claimed[p][u]]

\* What the owner earned so far, in his pocket or not.
\* Mutant: what was claimed is forgotten.
EarnedUnclaimed(p, u) == ProfitBalance(p, u).balance

Earned(p, u) == ProfitBalance(p, u).balance + ProfitBalance(p, u).claimed

-----------------------------------------------------------------------------
(* getProfitRate *)

\* The rate is a fraction: nft_price * total_nft is currency_amount, so that
\* nothing is added for the sale.
HasProfitRate(p, u) == u \in Investors(p) /\ HasBalanceRow(p, u)

ProfitRate(p, u) == [num |-> 10 * Earned(p, u), den |-> invested[p][u]]

LowerRate(r, s) == r.num * s.den < s.num * r.den

-----------------------------------------------------------------------------
(* investedProjects *)

\* Mutant: the rows come in the opposite order.
Descending(rows) ==
    \A i, j \in DOMAIN rows : i < j => Id[rows[i].project] >= Id[rows[j].project]

\* orderBy: { project_id: 'asc' } leaves the rows of one project in any order.
Ascending(rows) ==
    \A i, j \in DOMAIN rows : i < j => Id[rows[i].project] <= Id[rows[j].project]

\* The answers of a query for these rows.
Lists(rows) == {list \in SetToSeqs(rows) : Ascending(list)}

NftRows(u) == {[project |-> p, user |-> u] : p \in NftBought(u)}

\* profitBalance: the rows of everybody who has one of these projects.
BalanceRows(projects) ==
    {row \in [project : projects, user : Users] : HasBalanceRow(row.project, row.user)}

\* The balance shown with a project is the one at the same place of the other list.
Paired(bought, rows) ==
    [i \in DOMAIN bought |->
        [project |-> bought[i].project,
         profitBalance |-> IF i \in DOMAIN rows
                           THEN {ProfitBalance(rows[i].project, rows[i].user)} ELSE {}]]

InvestedProjects(u) ==
    {Paired(bought, rows) : bought \in Lists(NftRows(u)), rows \in Lists(BalanceRows(NftBought(u)))}

-----------------------------------------------------------------------------
(* getDashboard *)

Contracts == Projects \cup {Unlisted}

\* p?.nft_price ?? 0, in tenths
PriceOf(c) == IF c \in Projects THEN 10 * NftPrice[c] ELSE 0

\* Each contract replaces the total of the one before; any may be the last.
TotalInvested(held) ==
    LET some == {c \in Contracts : held[c] > 0}
    IN IF some = {} THEN {0} ELSE {PriceOf(c) * held[c] : c \in some}

\* Mutant: what was claimed is not part of the assets.
ProfitNotClaimed(u) ==
    SumFunctionOnSet([p \in Projects |-> ProfitBalance(p, u).balance], Projects)

ProfitOfProjects(u) == SumFunctionOnSet([p \in Projects |-> Earned(p, u)], Projects)

\* A user with the NFTs held and so many users referred.  The profit of a VIP
\* card is added up and then overwritten: it is no part of the assets.
Dashboard(u, linked, held, referrals) ==
    IF ~linked THEN {[assets |-> 0, invested |-> 0]}
    ELSE {[assets |-> total + referrals * RewardReferral + ProfitOfProjects(u),
           invested |-> total] : total \in TotalInvested(held)}

-----------------------------------------------------------------------------
(* Properties *)

\* The rate of an owner (getProfitRate) never falls unless he buys more, whatever
\* the job credits and his claims move between the queries.
RateNeverFalls ==
    [][\A p \in Projects, u \in Users :
         HasProfitRate(p, u) /\ LowerRate(ProfitRate(p, u)', ProfitRate(p, u))
             => invested'[p][u] > invested[p][u]]_vars

\* Projects and balances are read as two lists and paired by place: an owner is
\* shown his own balance as long as nobody else has one of these projects, and
\* no project without a balance comes before one that has.
OwnBalanceShown ==
    \A u \in Users :
        /\ \A p \in NftBought(u), v \in Users : HasBalanceRow(p, v) => v = u
        /\ \A p, q \in NftBought(u) :
               Id[p] < Id[q] /\ HasBalanceRow(q, u) => HasBalanceRow(p, u)
        => \A answer \in InvestedProjects(u) : \A i \in DOMAIN answer :
               LET p == answer[i].project IN
               answer[i].profitBalance =
                   (IF HasBalanceRow(p, u) THEN {ProfitBalance(p, u)} ELSE {})

\* Beyond what is invested, the dashboard of a linked user shows exactly what the
\* change log ever credited and the referrals, at any moment between credits and
\* claims; what is invested is shown right with NFTs of one contract, and never
\* too high.
DashboardMatchesLog ==
    \A u \in Users, held \in [Contracts -> 0 .. 1], referrals \in 0 .. 1 :
        \A d \in Dashboard(u, TRUE, held, referrals) :
            LET all == SumFunctionOnSet([c \in Contracts |-> PriceOf(c) * held[c]], Contracts) IN
            /\ d.assets - d.invested = referrals * RewardReferral
                 + SumFunctionOnSet([p \in Projects |-> credits[p][u].total], Projects)
            /\ d.invested <= all
            /\ Cardinality({c \in Contracts : held[c] > 0}) <= 1 => d.invested = all
=============================================================================
