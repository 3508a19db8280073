--------------------------------- MODULE Payouts ---------------------------------
(***************************************************************************)
(* The money users get without trading: the quarterly profit of VIP cards, *)
(* which a nightly job books (UserJob.computeProfit) and the holder claims *)
(* (claimProfitForVipUser), and the price of their share when an admin     *)
(* ends a project (finishProject).  The admin also creates, changes and    *)
(* deletes cards, and may give one to another user.  All of them read, and *)
(* write some awaits later.                                                *)
(*                                                                         *)
(* Rows of vip_user_claim_profit_change_log are kept as sums per card: the *)
(* handlers never tell two rows of a card apart but by is_claim.           *)
(***************************************************************************)
EXTENDS Integers, FiniteSets, Functions

CONSTANTS
    Users,
    WalletHolders,  \* those with a wallet row: admins are registered without one
    Cards,          \* vip_card rows that may be created
    Nobody,         \* the holder of a card that does not exist
    Profits,        \* card_value * PROFIT_RATE / 4
    Runs,           \* runs of the job that may overlap
    Claims,         \* requests to claim that may overlap
    Admins,         \* admins who may end the project
    NftPrice,
    FirstQuarter,   \* quarters since 1970 when the system starts
    MaxQuarter,     \* bound: the clock stops there
    MaxNft          \* bound on total_nft of one owner

ASSUME ActorsAssumption ==
    /\ IsFiniteSet(Users) /\ WalletHolders \subseteq Users /\ Nobody \notin Users
    /\ IsFiniteSet(Cards) /\ IsFiniteSet(Claims)
    /\ IsFiniteSet(Runs) /\ IsFiniteSet(Admins)
ASSUME AmountsAssumption == Profits \subseteq Nat \ {0} /\ NftPrice \in Nat \ {0}
ASSUME BoundsAssumption == FirstQuarter \in Nat /\ MaxQuarter \in Nat /\ MaxNft \in Nat

VARIABLES
    quarter,        \* the server's clock, in quarters since 1970
    card,           \* vip_card
    holder,         \* vip_card.user_id
    vipRole,        \* the users with role VIP_USER
    quarters,       \* sum of number_quarter of the change log of each card
    unclaimed,      \* sum of amount of its rows that are not is_claim
    claimed,        \* and of those that are
    wallet,         \* wallet.balance
    vipPaid,        \* sum of the VIP_USER_CLAIM_PROFIT rows of transaction_log
    repaid,         \* sum of its BURN_NFT rows
    totalNft,       \* project_nft_owner.total_nft
    ended,          \* project.ended
    job,            \* the runs of the job
    claim,          \* the requests to claim
    finish          \* the requests to end the project

vipCards == <<card, holder, vipRole>>
changeLog == <<quarters, unclaimed, claimed>>
accounts == <<wallet, vipPaid, repaid>>
project == <<totalNft, ended>>
vars == <<quarter, vipCards, changeLog, accounts, project, job, claim, finish>>

-----------------------------------------------------------------------------
(* Type definitions *)

\* "timed" cards have a valid_from, "open" ones do not.
Card == [state : {"none", "open", "timed", "deleted"}, profit : Profits \cup {0}]

NoCard == [state |-> "none", profit |-> 0]

\* What the run read of each card and uses: its row, and how many quarters it has.
Run == [pc : {"idle", "read", "booking"}, cards : [Cards -> Card],
        quarters : [Cards -> Nat], todo : SUBSET Cards, now : Nat]

IdleRun == [pc |-> "idle", cards |-> [c \in Cards |-> NoCard],
            quarters |-> [c \in Cards |-> 0], todo |-> {}, now |-> 0]

Claim == [pc : {"idle", "read"}, user : Users \cup {Nobody}, cards : SUBSET Cards,
          profit : Nat]

NoClaim == [pc |-> "idle", user |-> Nobody, cards |-> {}, profit |-> 0]

NoFinish == [pc |-> "idle", owned |-> [u \in Users |-> 0]]

TypeOK ==
    /\ quarter \in Nat
    /\ card \in [Cards -> Card]
    /\ holder \in [Cards -> Users \cup {Nobody}]
    /\ vipRole \in SUBSET Users
    /\ quarters \in [Cards -> Nat]
    /\ unclaimed \in [Cards -> Nat]
    /\ claimed \in [Cards -> Nat]
    /\ wallet \in [WalletHolders -> Nat]
    /\ vipPaid \in [Users -> Nat]
    /\ repaid \in [Users -> Nat]
    /\ totalNft \in [Users -> Nat]
    /\ ended \in BOOLEAN
    /\ job \in [Runs -> Run]
    /\ claim \in [Claims -> Claim]
    /\ finish \in [Admins -> [pc : {"idle", "open", "owners"}, owned : [Users -> Nat]]]

-----------------------------------------------------------------------------
(* Helper formulae *)

Live(c) == card[c].state \in {"open", "timed"}

\* getVipCard, hasVipCard
HasVipCard(u) == \E c \in Cards : holder[c] = u

\* [Cards with a valid_from are passed over; for the others it counts as 1970.]
TakesPart(row) == row.state = "open"

\* Mutant: the quarters booked before are not subtracted.
DueIgnoringLog(r, c) == r.now

\* numberQuarterWillClaim
Due(r, c) == r.now - r.quarters[c]

\* The cards a run makes a row for.
ToBook(r) == {c \in Cards : TakesPart(r.cards[c]) /\ Due(r, c) >= 1}

\* The run with the rows it still makes, over when there are none.
Booking(r, rows) == IF rows = {} THEN IdleRun ELSE [r EXCEPT !.todo = rows]

-----------------------------------------------------------------------------
Init ==
    /\ quarter = FirstQuarter
    /\ card = [c \in Cards |-> NoCard]
    /\ holder = [c \in Cards |-> Nobody]
    /\ vipRole = {}
    /\ quarters = [c \in Cards |-> 0]
    /\ unclaimed = [c \in Cards |-> 0]
    /\ claimed = [c \in Cards |-> 0]
    /\ wallet = [u \in WalletHolders |-> 0]
    /\ vipPaid = [u \in Users |-> 0]
    /\ repaid = [u \in Users |-> 0]
    /\ totalNft = [u \in Users |-> 0]
    /\ ended = FALSE
    /\ job = [r \in Runs |-> IdleRun]
    /\ claim = [k \in Claims |-> NoClaim]
    /\ finish = [a \in Admins |-> NoFinish]

-----------------------------------------------------------------------------
(* Cards.  A user has one at a time (user_id is unique); one with rows in   *)
(* the change log cannot be deleted, as they refer to it.                   *)

CreateVipCard(c, u, state, profit) ==
    /\ card[c].state = "none"
    /\ ~HasVipCard(u)
    /\ card' = [card EXCEPT ![c] = [state |-> state, profit |-> profit]]
    /\ holder' = [holder EXCEPT ![c] = u]
    /\ vipRole' = vipRole \cup {u}
    /\ UNCHANGED <<quarter, changeLog, accounts, project, job, claim, finish>>

\* The card may be given to a user without one.  Nobody's role changes.
UpdateVipCard(c, u, state, profit) ==
    /\ Live(c)
    /\ holder[c] = u \/ ~HasVipCard(u)
    /\ card' = [card EXCEPT ![c] = [state |-> state, profit |-> profit]]
    /\ holder' = [holder EXCEPT ![c] = u]
    /\ UNCHANGED <<quarter, vipRole, changeLog, accounts, project, job, claim, finish>>

\* Mutant: the rows of the change log do not keep the card.
DeleteBookedCard(c) ==
    /\ Live(c)
    /\ card' = [card EXCEPT ![c] = [state |-> "deleted", profit |-> 0]]
    /\ holder' = [holder EXCEPT ![c] = Nobody]
    /\ UNCHANGED <<quarter, vipRole, changeLog, accounts, project, job, claim, finish>>

DeleteVipCard(c) ==
    /\ Live(c)
    /\ quarters[c] = 0
    /\ card' = [card EXCEPT ![c] = [state |-> "deleted", profit |-> 0]]
    /\ holder' = [holder EXCEPT ![c] = Nobody]
    /\ UNCHANGED <<quarter, vipRole, changeLog, accounts, project, job, claim, finish>>

-----------------------------------------------------------------------------
(* The nightly job *)

\* Reads the cards with their change log.
JobRead(r) ==
    /\ job[r].pc = "idle"
    /\ job' = [job EXCEPT ![r] = [IdleRun EXCEPT !.pc = "read", !.cards = card,
                                                 !.quarters = quarters]]
    /\ UNCHANGED <<quarter, vipCards, changeLog, accounts, project, claim, finish>>

\* Reads the clock and starts the loop.
JobStart(r) ==
    /\ job[r].pc = "read"
    /\ LET started == [job[r] EXCEPT !.pc = "booking", !.now = quarter] IN
       job' = [job EXCEPT ![r] = Booking(started, ToBook(started))]
    /\ UNCHANGED <<quarter, vipCards, changeLog, accounts, project, claim, finish>>

\* Creates the row of one card.
JobBook(r, c) ==
    /\ job[r].pc = "booking"
    /\ c \in job[r].todo
    /\ Live(c)
    /\ quarters' = [quarters EXCEPT ![c] = @ + Due(job[r], c)]
    /\ unclaimed' = [unclaimed EXCEPT ![c] = @ + Due(job[r], c) * job[r].cards[c].profit]
    /\ job' = [job EXCEPT ![r] = Booking(@, @.todo \ {c})]
    /\ UNCHANGED <<quarter, vipCards, claimed, accounts, project, claim, finish>>

\* A row cannot be created (the card is gone, the database or the server fails):
\* the cards after it get none.
JobEnd(r) ==
    /\ job[r].pc # "idle"
    /\ job' = [job EXCEPT ![r] = IdleRun]
    /\ UNCHANGED <<quarter, vipCards, changeLog, accounts, project, claim, finish>>

-----------------------------------------------------------------------------
(* Claims *)

\* getProfitVipUser, for user u
ClaimRead(k, u, c) ==
    /\ claim[k].pc = "idle"
    /\ holder[c] = u
    /\ unclaimed[c] > 0
    /\ claim' = [claim EXCEPT ![k] = [pc |-> "read", user |-> u, cards |-> {c},
                                     profit |-> unclaimed[c]]]
    /\ UNCHANGED <<quarter, vipCards, changeLog, accounts, project, job, finish>>

\* What the claim read goes to the wallet of its user, with a row in the log.
PayClaim(k) ==
    /\ claim[k].user \in WalletHolders
    /\ vipPaid' = [vipPaid EXCEPT ![claim[k].user] = @ + claim[k].profit]
    /\ wallet' = [wallet EXCEPT ![claim[k].user] = @ + claim[k].profit]

\* Mutant: the wallet is paid and the rows are left as they are.
ClaimUnmarked(k) ==
    /\ claim[k].pc = "read"
    /\ PayClaim(k)
    /\ claim' = [claim EXCEPT ![k] = NoClaim]
    /\ UNCHANGED <<quarter, vipCards, changeLog, repaid, project, job, finish>>

\* Pays what was read, and marks all rows of the card that are not claimed, whoever
\* holds it now.
ClaimCommit(k) ==
    /\ claim[k].pc = "read"
    /\ PayClaim(k)
    /\ \E c \in claim[k].cards :
        /\ claimed' = [claimed EXCEPT ![c] = @ + unclaimed[c]]
        /\ unclaimed' = [unclaimed EXCEPT ![c] = 0]
    /\ claim' = [claim EXCEPT ![k] = NoClaim]
    /\ UNCHANGED <<quarter, vipCards, quarters, repaid, project, job, finish>>

\* There is no wallet, or the database fails: the transaction is rolled back.
ClaimFail(k) ==
    /\ claim[k].pc = "read"
    /\ claim' = [claim EXCEPT ![k] = NoClaim]
    /\ UNCHANGED <<quarter, vipCards, changeLog, accounts, project, job, finish>>

-----------------------------------------------------------------------------
(* The end of the project *)

\* Finds the project, and that it did not end.
FinishRead(a) ==
    /\ finish[a].pc = "idle"
    /\ ~ended
    /\ finish' = [finish EXCEPT ![a].pc = "open"]
    /\ UNCHANGED <<quarter, vipCards, changeLog, accounts, project, job, claim>>

FinishOwners(a) ==
    /\ finish[a].pc = "open"
    /\ finish' = [finish EXCEPT ![a] = [pc |-> "owners", owned |-> totalNft]]
    /\ UNCHANGED <<quarter, vipCards, changeLog, accounts, project, job, claim>>

\* Mutant: an owner without a wallet is passed over, and the log written all the same.
RepaySome(owned) ==
    /\ wallet' = [u \in WalletHolders |-> wallet[u] + NftPrice * owned[u]]
    /\ repaid' = [u \in Users |-> repaid[u] + NftPrice * owned[u]]

\* The batch: every owner's wallet and a row of the log for each; one owner
\* without a wallet undoes it.
Repay(owned) ==
    /\ \A u \in Users : owned[u] > 0 => u \in WalletHolders
    /\ wallet' = [u \in WalletHolders |-> wallet[u] + NftPrice * owned[u]]
    /\ repaid' = [u \in Users |-> repaid[u] + NftPrice * owned[u]]

\* Mutant: the project is not marked.
FinishUnmarked(a) ==
    /\ finish[a].pc = "owners"
    /\ Repay(finish[a].owned)
    /\ finish' = [finish EXCEPT ![a] = NoFinish]
    /\ UNCHANGED <<quarter, vipCards, changeLog, vipPaid, project, job, claim>>

FinishCommit(a) ==
    /\ finish[a].pc = "owners"
    /\ Repay(finish[a].owned)
    /\ ended' = TRUE
    /\ finish' = [finish EXCEPT ![a] = NoFinish]
    /\ UNCHANGED <<quarter, vipCards, changeLog, vipPaid, totalNft, job, claim>>

FinishFail(a) ==
    /\ finish[a].pc # "idle"
    /\ finish' = [finish EXCEPT ![a] = NoFinish]
    /\ UNCHANGED <<quarter, vipCards, changeLog, accounts, project, job, claim>>

-----------------------------------------------------------------------------
\* updateProjectNftOwner: the end of the project does not stop it.
Buy(u) ==
    /\ totalNft[u] < MaxNft
    /\ totalNft' = [totalNft EXCEPT ![u] = @ + 1]
    /\ UNCHANGED <<quarter, vipCards, changeLog, accounts, ended, job, claim, finish>>

Tick ==
    /\ quarter < MaxQuarter
    /\ quarter' = quarter + 1
    /\ UNCHANGED <<vipCards, changeLog, accounts, project, job, claim, finish>>

CardStep(c) ==
    \/ \E u \in Users, state \in {"open", "timed"}, profit \in Profits :
        CreateVipCard(c, u, state, profit) \/ UpdateVipCard(c, u, state, profit)
    \/ DeleteVipCard(c)

JobStep(r) == JobRead(r) \/ JobStart(r) \/ (\E c \in Cards : JobBook(r, c)) \/ JobEnd(r)

ClaimStep(k) ==
    (\E u \in Users, c \in Cards : ClaimRead(k, u, c)) \/ ClaimCommit(k) \/ ClaimFail(k)

FinishStep(a) == FinishRead(a) \/ FinishOwners(a) \/ FinishCommit(a) \/ FinishFail(a)

Next ==
    \/ \E c \in Cards : CardStep(c)
    \/ \E r \in Runs : JobStep(r)
    \/ \E k \in Claims : ClaimStep(k)
    \/ \E a \in Admins : FinishStep(a)
    \/ \E u \in Users : Buy(u)
    \/ Tick

Spec == Init /\ [][Next]_vars

-----------------------------------------------------------------------------
(* Properties *)

\* Every wallet holds what the log says was paid into it, and who has no wallet
\* is not paid, whatever is rolled back on the way.
WalletsMatchLog ==
    \A u \in Users :
        IF u \in WalletHolders THEN wallet[u] = vipPaid[u] + repaid[u]
                               ELSE vipPaid[u] = 0 /\ repaid[u] = 0

\* No card has more quarters booked than passed, for each run that may overlap:
\* a single job never books a quarter twice, however often it fails and starts
\* over, cards change meanwhile, or the clock moves while it runs.
BookedWithinQuarters == \A c \in Cards : quarters[c] <= Cardinality(Runs) * quarter

\* What the rows marked as claimed are worth.
ClaimedWorth == SumFunctionOnSet(claimed, Cards)

\* When no two claims overlap, VIPs are never paid more than the rows marked as
\* claimed are worth, and otherwise at most once by each, although rows are booked and
\* the card is given to another holder between the reading and the marking.
PaidWithinClaimed == SumFunctionOnSet(vipPaid, Users) <= Cardinality(Claims) * ClaimedWorth

\* The job's list is stale when it books, and an admin may delete a card on it, or one
\* it has just booked: no row stays behind of a card without a holder, so that what is
\* booked can be claimed by somebody, however often the card changes hands.
BookedProfitHasHolder ==
    \A c \in Cards : quarters[c] > 0 \/ unclaimed[c] > 0 => holder[c] \in Users

\* Nobody is repaid by a project that goes on, and each admin who ends it repays
\* an owner at most for the NFTs that owner has.
RepaidAtTheEnd ==
    \A u \in Users :
        /\ repaid[u] > 0 => ended
        /\ repaid[u] <= Cardinality(Admins) * NftPrice * totalNft[u]

\* Why types hold: a run has on its list only cards that it owes something, by what
\* it read.
DueCards == \A r \in Runs : job[r].todo \subseteq ToBook(job[r])
=============================================================================
