# TLA+ specifications of lc_be

lc_be is the back end of Lucis City: a NestJS application in which users buy NFTs of real-estate
projects, earn a periodic profit on them, follow and rate projects, vote to sell them, invite other
users and withdraw what they earned to the blockchain.  It consists of

* the user-facing application (`apps/lc-be`), GraphQL over a Postgres database accessed by Prisma,
  with cron jobs in the same process;
* the admin application (`apps/admin`), which works on the same database;
* shared libraries (`libs/helper`, `libs/subscription`, `libs/pubsub`).

Nearly every operation has the same shape: **read with one query, decide in JavaScript, write with a
batch some awaits later**.  There are no row locks and no serialisable transactions, requests of one
user are not kept apart, cron jobs can overlap with themselves (on several servers, or started by a
public query), and processes can stop between any two awaits.  What keeps the data right are unique
keys, relative updates (`increment`), the atomicity of a `$transaction`, and retries that find out
what was already done.  These specifications say exactly how far that carries.

## 1. Inventory

State is in Postgres tables unless stated otherwise.

| Component | State | Operations | Meets | What is hard | What makes it correct |
|---|---|---|---|---|---|
| Profit accrual (`invest.job.ts`) | `project.profit_period_index`, `project_profit_balance`, its change log | `computeProfit`, by cron and by a public query | claims, purchases, `finishProject` | overlapping runs with stale snapshots, rolled back batches, the arithmetic of periods | it keeps a ledger: nobody is credited twice for a period, nor after the vote to sell; the log explains the balances; no owner is left out |
| Profit claims, ownership (`invest.service.ts`) | the same, `wallet`, `transaction_log`, `project_nft_owner` | `claimProjectProfit`, `updateProjectNftOwner` | accrual, wallet, scanner | a claim pays what it read three awaits ago | what leaves a balance arrives in the wallet |
| Withdrawals (`transaction.service.ts`, `erc20.service.ts`) | `wallet`, one-time passwords in the cache, the pool wallet on the chain, `blockchain_transaction` | `getOneTimePassword`, `withdrawBalance` | every credit of a wallet, the watcher | absolute writes of stale balances; a debit outside its transaction; lost answers of the node | what a wallet holds was credited, or let in by a check that does not look at the sign; no row without a transfer; one password, one withdrawal |
| Referral rewards (`user.service.ts`) | `referral_log.is_claim`, `wallet` | `claimReferral` | withdrawals, credits | a check outside the transaction, a wallet created on the way | marked exactly when paid; paid once |
| Transaction watcher (`tasks.service.ts`) | `blockchain_transaction.status` | cron `listenerTransactionBlockchain`, `sendTransaction` | the chain, subscribers | reorganisations, errors of the node, a list and a marking in two statements, early returns | SUCCEED is true; rows change only by runs that have them in hand |
| NFT event scanner (`tasks.service.ts`) | `nft`, `project.total_nft_sold`, ownership; in memory `startBlock`, `lockProcess`, cached contract list | cron `listenerEventNft` | the chain, ownership, notifications | six statements per event, retries, restarts, a lock in memory | a purchase is counted at most once and gets saved |
| Ratings, followers, votes to sell (`invest.service.ts`) | `project_voter`, `project_profile`, `project_follower`, `project_nft_owner.is_sell_voted`, `project_sell_vote_history` | `voteProject`, `toggleFollowProject`, `voteSellProject` | each other's counters | counters next to rows, written from stale reads | counters agree with rows; a choice stands |
| VIP card profit (`user.job.ts`, `user.service.ts`) | `vip_user_claim_profit_change_log`, `wallet` | nightly `computeProfit`, `getProfitVipUser`, `claimProfitForVipUser` | admin's cards | overlapping runs, rows booked between the sum and the marking | a quarter is booked once by a job; a claim pays no more than it marks; what is booked has a holder |
| VIP cards, end of a project (admin) | `vip_card`, `user.role`, `project.ended` | `createVipCard`, `updateVipCard`, `deleteVipCard`, `finishProject` | job, claims, wallets | a card given away or deleted while runs and claims have read it; one owner without a wallet; two admins | who is repaid is repaid for what he owns, and only at the end |
| Registration, social logins, referrals (`auth.service.ts`) | `user`, `referral_log`, verification tokens | `register`, `loginGoogle`, `loginFacebook`, `verifyEmail`, `addReferral` | referral rewards, notifications | the same person twice at a time; three transactions per user | one user per identity; the referral names the inviter |
| Linked blockchain wallets (`user.service.ts`) | `user.wallet_address` | `updateWalletAddress` | scanner, withdrawals | two checks before the write | one user per address; a link stays |
| KYC (`image.service.ts`, `s3.service.ts`, admin `user.service.ts`) | `user_kyc_verification`, images in S3 | `uploadKycImages`, `getKycImages`, `updatePendingKyc`, `revertKycToPending` | each other | three parallel uploads, stale decisions | what a user is shown has its images and decides whether he may upload; few verifications per user |
| Passwords and sessions (`auth.service.ts`, `user.service.ts`) | `user.password`, `user.status`; tokens, of which nothing is kept | `register`, `login`, `forgotPassword`, `resetPassword`, `verifyEmail`, `changePassword` | e-mail | rows written by id after an await of bcrypt | requests that do not overlap take effect in their order |
| E-mail (`email.service.ts`, templates) | mails on their way | the handlers of the four events | passwords | event, template, page and token are matched by hand | a link that was mailed works until it expires |
| Notifications and subscriptions (`notification.service.ts`, `user.service.ts`, `app.module.ts`) | `notification`; connections and pubsub in memory | `createAndPushNoti`, `seenNotification`, `markAllNotisSeen`, subscribing | scanner, referrals | counts published an await or two after they were taken | a client is shown its own notifications, and the count settles |
| Profile and avatar (`user.service.ts`, `image.service.ts`) | `user_profile`, avatars in S3 | `updateAccountInfo`, `uploadAvatar` | the registrations and logins that create the row | a display name composed of names read before | the display name is of the names; the avatar is stored, or the picture of the login |
| Error reports (`sentry.service.ts`, `errors.interceptor.ts`) | the state of the SDK and timers, in memory | `error` and its like, called for every error of a request | all requests | initialised lazily by a timer, retried by others | initialised once; every report is made |
| Dashboard and portfolio queries (`invest.service.ts`, `user.service.ts`) | none | `getDashboard`, `investedProjects`, `getProfitRate`, ... | accrual, claims | arithmetic on lists paired by position, read while jobs and claims move money | what is shown adds up to the log and is the owner's |
| Projects, contracts, pool wallets (admin) | rows that are created once | `uploadProject`, `setProjectContract`, `setPoolWallet` | scanner | a contract is listed by a type that its creation does not set | a known contract is scanned, whatever is added |
| Admin accounts (admin `auth.service.ts`) | `user` | `register`, `login` | registration | the same table, another process | one user per identity |
| Catalogue, contact requests | none, or one row | `getProjects`, `hotProjects`, ..., `contactUs` | nothing | little | not modelled, but for `isVoted` and `isFollowingProject` |
| Guards, resolvers, clients, logging, ABIs | none, or unused (`MutexService`, `MemoryCache` are imported nowhere) | | | | not modelled |

The shared state through which the modelled components meet is small: the **wallet row** (written
absolutely by withdrawals and rewards, relatively by everything else), **`project_nft_owner`**
(written by the scanner, read by accrual, votes to sell and `finishProject`), the **user row**
(created by Accounts, read by the scanner through `wallet_address`) and **`referral_log`** (created
by Accounts, paid by WalletLedger).  In memory, the requests of one **server process** share the
connections of subscribers, the error reports and each other's fate in a restart.

## 2. The modules

The most important behaviour first.

| | Module | Models | Companions |
|---|---|---|---|
| 1 | `ProfitAccrual` | accrual composed with claims, purchases and the end of a project | `MC…`, `…Proofs` |
| | `Ledger` | the abstract specification that `ProfitAccrual` implements | |
| | `Portfolio` | what owners are shown, as operators on the state of `ProfitAccrual`, which it extends | `MCProfitAccrual`, `ProfitAccrualProofs` |
| 2 | `WalletLedger` | withdrawals and rewards composed with relative credits | `MC…`, `…Proofs` |
| | `WalletHistory` | the same with a history variable that remembers overlaps, and the properties about totals | `MCWalletLedger`, `WalletLedgerProofs` |
| 3 | `TxWatcher` | the transaction watcher and the chain | `MC…`, `TasksProofs` |
| 4 | `NftScanner` | the event scanner, the chain, contracts, the cache, ownership | `MC…`, `TasksProofs` |
| 5 | `Community` | ratings, followers, votes to sell | `MC…`, `…Proofs` |
| 6 | `Payouts` | VIP cards, their job and claims, the end of a project | `MC…`, `…Proofs` |
| 7 | `Accounts` | registration, logins, referrals, linking | `MC…`, `UserProofs` |
| 8 | `Kyc` | uploads and decisions | `MC…`, `UserProofs` |
| 9 | `Notifications`, `Sessions`, `Profile`, `ErrorReports` | four components whose requests one server handles | checked and proved about through `Server` |
| | `Server` | their composition: requests of each kind, the interceptor that reports errors, restarts | `MC…`, `…Proofs` |
| | `Sums` | no code: what `SumFunctionOnSet` of the community modules adds up, for the proofs about totals | |

*The abstract specification.*  `Ledger` says what accounts promise whatever runs behind them: a step
credits accounts together with the rows that say so, or pays one account into the wallet of its
owner together with the row that debits it, or moves no money.  `ProfitAccrual!Book` maps the rows
to it (an account is a project and a user; what it can still pay is the `balance` column; its
credits and debits are the totals of the rows of the change log with and without a `period_index`),
and `ImplementsLedger` is checked by TLC and proved.  Withdrawals do *not* implement it: section 5.

## 3. How the modules correspond to the code

Conventions common to all modules:

* A step ends where the code awaits.  What a handler read is kept in the record of its process
  (`job[j]`, `wd[w]`, `claim[k]`, ...) and may be stale when its next step uses it.
* `$transaction([...])` is one step: it commits as a whole or not at all.
* A unique key is a guard on the committing step; its violation is the failing step of the same
  handler (`JobConflict`, `VoteFail`, `Fail`, ...).
* An await may fail, or the server stop, at any place: there is always a step that gives up.
* One row that the code keeps in several columns, or several rows that no handler tells apart, are
  kept as one record or as a sum; the comments at `VARIABLES` name the column.
* Definitions whose comment starts with "Mutant:" are not used.  They state a plausible mistake in
  the definition that follows, against which the properties were validated.

**ProfitAccrual.**  `computeProfit` is four steps: the query of projects and owners (`JobQuery`), what
is computed from the snapshot and the clock (`JobCompute`), and the batch that commits
(`JobCommit`), violates the unique key of the change log (`JobConflict`) or is lost (`JobCrash`).
The key `(project_id, user_id, period_index)` is what protects against two runs: the saved index is
written as an absolute value computed from the snapshot.  `claimProjectProfit` is a read
(`ClaimRead`) and a batch of relative updates by the value read (`ClaimCommit`).  The change log is
kept as the set of its period indices with their total, and the total of the rows without one.

**Portfolio.**  `getProfitRate`, `investedProjects` and the part of `getDashboard` about projects read
what the job and the claims change.  A query that leaves an order open, as `findMany` without
`orderBy` does, or with an order in which rows are equal, has a *set* of answers (`InvestedProjects`,
`Dashboard`): `Lists(rows)` are the sequences of these rows in the order of `Id`, the ids of the
projects, and `Paired` puts two of them together by place.
`OwnBalanceShown`, `DashboardMatchesLog` and `RateNeverFalls` state under which circumstances the answers are right.

**WalletLedger.**  `withdrawBalance` is one step per await, from the password in the cache to the
`WITHDRAW_BALANCE` row; the debit is written through `prismaService` and not through the client of
the surrounding transaction, so that it commits at once and is not rolled back, which is why the
failing steps (`WithdrawFail`, `WithdrawRefused`, `WithdrawAnswerLost`) leave it.  An amount is an
integer of either sign, as nothing in the handler looks at it: a negative one passes both
comparisons, its debit adds to the wallet, and the transfer is refused by the library, which encodes
no negative `uint256` (`Transferable`).  `claimReferral`
holds the lock of the `referral_log` row it updated (`RefLock` until `RefCommit` or `RefFail`) and
writes the wallet absolutely.  `Credit` stands for the batches of the three handlers that increment
a wallet, which are modelled in full in `ProfitAccrual` and `Payouts`.  The comparison of the pool
with the amount is the one in the code, of base units with tokens.

**WalletHistory** adds to every step of `WalletLedger` whether two requests, or a request and a credit,
overlapped by then.  It restricts no step; `Balanced` and `UsedOnce` speak of the behaviours in which
`overlapped` is still false, `Total(u, pcs)` adds up the withdrawals of a user in given states.

**TxWatcher.**  `listenerTransactionBlockchain` is: list open rows, mark open rows as PROCESSING in
a statement of its own, then for each row of the list ask the node (`Receipt`, `NodeUnavailable`,
`NodeError`) and record (`Record`, `RecordThrows`).  The environment mines, confirms and reorganises.

**NftScanner.**  `listenerEventNft`, one step per awaited statement.  `ScanFail` is the catch block,
`ScanNoProject` the update of a project that does not exist, `Restart` the loss of what is in
memory.  Admins add contracts (`SetProjectContract`, whose row has no type) and projects
(`UploadProject`, which names a row or creates one) while a list of contracts is cached; the type by
which contracts are listed is set in no code but in the database (`SetContractType`).

**Community.**  Each of the three handlers is a read, a batch and a failure.  Ratings are in tenths;
`Mean` contains the rounding of the column `vote`.

**Payouts.**  Who has a wallet row is fixed here and in `ProfitAccrual` (registration creates it with
the user, for admins only a referral reward does, which is in `WalletLedger`).  The nightly job reads
cards with their log (`JobRead`), reads the clock and decides what to book (`JobStart`), and creates a
row per card and await (`JobBook`) until none is left (`Booking`) or one fails (`JobEnd`).
`claimProfitForVipUser` sums the rows of the card its user has (`ClaimRead`), then pays the sum and
marks all rows of that card that are not claimed by then (`ClaimCommit`), whoever holds it now: an
admin may have given it to another user (`UpdateVipCard`, which changes nobody's role).
`finishProject` reads the project, then the owners, then repays all of them in one batch.

**Accounts.**  `register`, `loginGoogle` and `loginFacebook` share `FindNobody`, `FindInviter`,
`CreateUser`, `Refer`, `Notify` and `Answer`; they differ in how they recognise a user (`Known`).  A
referral code is modelled as the number of the user who owns it, since codes are unique and never
change.  `RegisterAdmin` is the registration of the admin application, which writes the same table.

**Kyc.**  `uploadKycImages` checks, sends three images in parallel and creates the row when all are
stored; `updatePendingKyc` finds rows and sets them by id an await later.  `getKycImages` shows the
row that was created last (`ShownRow`).

**Notifications.**  A request changes rows and counts the unseen ones in one batch (`Batch`), pushes
(`PushNotification`) and publishes the count (`PublishUnseenNotisCount`) in later steps.  The broker
is in memory and hands a message at once to the clients that are connected.

**Sessions.**  A request reads the row, awaits bcrypt and writes; the steps that write
(`VerifyCommit`, `ResetCommit`, `ChangeCommit`) use what was read.  A token is the request that
asked for it.  `Earlier` names one request that ended before the others begin, in any way, so that
tokens and passwords of before are there from the start.  Mails are sent after the answer and may
be lost (`SendMail`); which template, page and payload an event leads to is `Content`.

**Profile.**  The row is there when the requests begin, as one of those that create it leaves it
(`NewProfile`): empty by `register`, with the names and the picture of the social network by
`loginGoogle` and `loginFacebook`, which join the names in different orders.  `updateAccountInfo`
composes the display name of the input and the names it read (`OrOld`) and writes those fields the input has (`Written`); `uploadAvatar` stores, then refers.

**ErrorReports.**  `ensureInitialized` has three outcomes (`Outcome`), or starts the SDK
(`InitSdk`); calls made meanwhile are retried (`Retry`).

**Server.**  Each request is of one of the kinds; one that fails or is refused throws an `AppError`,
which the global interceptor reports (`InterceptError`; `Throws` tells refused passwords from others).
`Restart` is one step that all four components take: rows and images stay, what is in memory does not.

`PROJECT.json` lists for each definition the lines it stands for.

## 4. Runs

| Run | Module, configuration | Instance | Shows |
|---|---|---|---|
| `profit_races` | `MCProfitAccrual`, `ProfitRaces.cfg` | 2 projects, 1 owner, 2 runs, 2 claims | however runs and claims overlap and fail: they implement the ledger; the log explains balances; at most one credit per period; none after the vote to sell |
| `profit_one_at_a_time` | `MCProfitAccrual`, `ProfitOneAtATime.cfg` | 2 projects, 2 users (one without wallet), 1 run, 1 claim | without overlap the saved index covers the log, no balance becomes negative, and no owner is left out of a period another is credited for; what owners are shown is their own, adds up to the log and does not fall |
| `wallet_races` | `MCWalletLedger`, `WalletRaces.cfg` | 2 withdrawals of amounts of either sign, 3 reward requests about 2 invitees, credits, at most 3 in flight, no wallet at first | no wallet holds more than was credited or let in by a negative amount; marked iff rewarded; no `WITHDRAW_BALANCE` row without a transfer; wallet and history agree to the token, and passwords and rewards are used once, until requests have overlapped |
| `wallet_two_withdrawals` | `MCWalletLedger`, `WalletTwoWithdrawals.cfg` | 2 withdrawals in flight | **violated**: "Balance not enough!" does not hold for two withdrawals that read the same balance |
| `tx_races` | `MCTxWatcher`, `TxRaces.cfg` | 2 transactions, 2 runs, 1 crash, 1 reorganisation | SUCCEED is true for rows and subscribers; a row left PROCESSING that no run has in hand stays so, and a settled row is not reopened, but by a late answer |
| `scan_recovery` | `MCNftScanner`, `ScanRecovery.cfg` | 2 events, 2 contracts (one without row, type and project at first), 1 failure, 1 restart, fairness | a purchase is counted at most once in each table, and is saved |
| `scan_lost` | `MCNftScanner`, `ScanLost.cfg` | 2 events, 1 failure | **violated**: a scan that fails after `createMany` never counts the purchase as sold |
| `community` | `MCCommunity`, `CommunityRaces.cfg` | 2 users, 3 ratings, 2 followers, 2 votes to sell, 2 in flight | votes are counted once; the rating stays between the votes; followers are counted right for one request per user; a choice stands |
| `payouts` | `MCPayouts`, `Payouts.cfg` | 1 card, 2 runs, 2 claims, 1 admin, 2 users (one without wallet) | wallets match the log; quarters booked and paid at most once per overlapping run or claim; what is booked stays with a card that somebody holds, while it is changed, given away and deleted; repaid only at the end |
| `accounts` | `MCAccounts`, `AccountsRaces.cfg` | one person by e-mail, Google and Facebook, another by Facebook; an admin registers; 2 users link | one user per identity; the referral, the inviter and the notification agree; a link stays |
| `kyc` | `MCKyc`, `KycRaces.cfg` | 1 user with 2 clients, 2 admins, 4 rows | what the user is shown has its images and decides whether he may upload; at most one live verification per client beyond those that admins revived |
| `server_requests` | `MCServer`, `ServerRequests.cfg` | 2 requests of any kind after an earlier one, 2 users, 1 subscriber, 1 restart, fairness | the count settles; requests take effect in their order; mailed links work; the display name and avatar agree with the row; the SDK is started once and every error is reported |

The two violations are disagreements between the code and what it says of itself; `PROJECT.json`
quotes both under "findings".

Distinct states found by TLC: `profit_races` 884,328, `profit_one_at_a_time` 44,700, `wallet_races`
1,683,889, `tx_races` 229,010, `scan_recovery` 768,164, `community` 561,600, `payouts` 1,412,752,
`accounts` 2,110,060, `kyc` 64,395, `server_requests` 575,325.

**Deadlock.**  It is checked wherever a job may always tick or a request be repeated.  `MCWalletLedger`,
`MCAccounts` and `MCServer` (requests are made once) and `MCProfitAccrual` (the clock is bounded,
projects end) really may stop in the model, and only there it is not.

### Bounds, and why they are enough

* *Processes.*  Two runs, claims, clients or requests of one user are what a race needs: each has at
  most one read and one write, and the properties speak of single balances, rows or pairs of rows.
  `wallet_races` has three requests in flight, since a withdrawal, a reward and a credit all write one
  wallet.  `MaxInFlight` in `Community` is 2 over three independent handlers.
* *Clock.*  `MaxDay` lets a project of daily periods pass its vote to sell with a run in flight and a
  project of two-day periods complete two.  `MaxQuarter` lets a quarter end while a job runs.  The
  code counts quarters from 1970, about 219 by now; `FirstQuarter = 1` keeps what matters, that a
  new card starts with quarters due.
* *Amounts.*  Profit is counted in tenths of the currency unit, so that 10% is exact.  `Unit` is 2
  instead of 10^18: enough for the comparison of base units with tokens to differ.  `Required` is 2
  confirmations instead of 10: one that is not enough and one that is.  `Window` is 2 or 4 blocks
  instead of 4000: less, or more, than the height of the chain.  In `scan_recovery` the chain grows by
  no more than `Window` blocks while a server is down or failing, as otherwise blocks are passed
  over: `PurchaseSaved` is about outages shorter than the window, 4000 blocks in the code.  The
  amounts of `wallet_races` include a negative one.
* *Requests of a server.*  Two requests of any kinds overlap, and a third, `Earlier`, left its token,
  password or refusal behind; `FirstPassword` only says which of the two passwords, between which
  nothing distinguishes, the user has at the start.
* *Environment.*  `MaxFailures`, `MaxRestarts`, `MaxCrashes`, `MaxReorg`, `MaxCredit`, `MaxOtp`,
  `MaxInvested`, `MaxNft`, `MaxRows`, `MaxRevived`, `MaxNotes` and `MaxBlock` bound counters; each is at least
  one, so that what it counts happens, also before, between and after the steps of a handler.
* *Symmetry* is declared over interchangeable requests, runs, clients or transactions, and only in
  runs whose properties are invariants or action properties.

### Fairness

* `ProfitAccrual`: none.  A cron that runs once per midnight, and misses the midnights at which the
  server is down, justifies no promise that a period is paid; `OwnersPaidAlike` says instead that a
  period is paid to all owners of before or to none.
* `NftScanner!FairSpec`: the cron ticks for ever and the awaited calls are answered (weak fairness of
  `ScanStep`), but for a bounded number of failures and restarts.
* `Server!Spec`: the timers of the error reports fire (weak fairness of `ReportStep`), which node
  guarantees as long as the process runs.  Requests, mails and clients are not fair.

## 5. What the models say about the code that is worth knowing

The two violated runs:

* `transaction.service.ts:75` writes `balance - amount` computed from a read four awaits before.  Two
  withdrawals that overlap both pass "Balance not enough!" and are both sent.
* `tasks.service.ts:264` counts a purchase as sold in a statement of its own after the tokens were
  saved (254); a failure between the two is never made good, since the retry finds the saved tokens
  and skips the event (251).

Others, met while modelling, that the properties are stated around and that no run demonstrates:

* *Profit.*  Two overlapping runs may move `profit_period_index` backwards (the unique key then rolls
  back later batches of that period); two claims of one balance may make it negative; a run that finds
  several periods over credits one of them and skips the rest.  Of two overlapping runs the one with
  the older list of owners (`invest.job.ts:34`) may commit last and leave a buyer out of its period.
* *Wallet.*  A relative credit between the read and the absolute write of a withdrawal or a reward is
  lost; a withdrawal of a negative amount passes both checks (`transaction.service.ts:56` and `66`)
  and its debit, at line 75, raises the wallet, as `WalletBacked` accounts for; two requests about one
  referral may both be paid; the pool is compared in base units with an
  amount in tokens, so that a withdrawal may be refused after its debit.
* *Watcher.*  A run returns at the first transaction that is not settled (`tasks.service.ts:85`) and
  leaves the rows after it PROCESSING, which no later run lists; `StatusSettles` says that nothing
  else takes them up.  Errors without an HTTP status of 500 to 504 are recorded as FAILED.
* *Community.*  Two toggles of one user may count twice in the same direction; the rating loses votes
  made between read and write, although it stays between the extremes.
* *Payouts.*  The job passes over cards that have a `valid_from` (`user.job.ts:32`).  Overlapping runs
  book a quarter twice; overlapping claims are both paid; rows booked between the sum and the marking
  are marked and not paid.  One owner without a wallet keeps a project from ending, and NFTs bought
  after its end are not repaid.
* *Accounts.*  A user may have an inviter and no `referral_log` row.  Two clients of one user that link
  at the same time leave the address of the later one.
* *Kyc.*  A decision overwrites another made meanwhile, and `revertKycToPending` takes up a failed
  verification beside a live one.
* *Portfolio.*  `investedProjects` pairs profit balances with projects by position and without a
  filter by user: `OwnBalanceShown` names the circumstances in which a user is shown his own.
  `getDashboard` assigns what is invested in its loop where it should add, so that only the contract
  that comes last counts, and overwrites the profit of a VIP card; `DashboardMatchesLog` says what is
  right nevertheless.  The role `VIP_USER` outlives a deleted card and does not move with one that is
  given away; the dashboard of such a user fails once a wallet is linked (`user.service.ts:467`).
* *Passwords and mails.*  `changePassword` emits the event of `forgotPassword`
  (`user.service.ts:205`), so that who has changed his password is sent the "reset" template, without
  a token; `MailedLinksWork` is about mails that are meant to have one.  That the new password differs
  from the old one is checked by comparing hashes with different salts (`auth.service.ts:415`), which
  never are equal.  A token works again and again until it expires.
* *Notifications.*  `seenNotification` does not look at the owner of the notification.  Counts of
  requests that overlap may be published out of order, until the next one.
* *Projects.*  `setProjectContract` creates contracts without the type by which they are listed (admin
  `blockchain.service.ts:21`): their events are not scanned until somebody sets it by hand.

## 6. Proofs

`tlapm` proves these for every value of the constants that satisfies the named assumptions of the
modules (and, for three, the assumption in the theorem).  Every invariant and action property of the
passing runs is stated by one of them.

| Theorem | States | Argument |
|---|---|---|
| **`ProfitAccrualProofs`** | | |
| `TypeCorrect` | `[]TypeOK` | inductive as it stands; the sums of `JobCommit` are naturals because a run's snapshot is (`JobCommitType`) |
| `LogExplainsAccounts` | `[](AccountsMatchLog /\ WalletMatchesLog)` | inductive with the types: every batch changes both sides alike |
| `CreditsInductive` | `[]CreditsInv` | see below |
| `NoDoubleCredit` | `[]CreditsBounded` | from `CreditsInv`: the periods logged are a subset of `1..PeriodAt`, and each added at most what is invested now |
| `NoProfitAfterVote` | `[]VoteStopsProfit` | the part of `Complete` about the vote |
| `LedgerImplemented` | `ImplementsLedger` | `JobCommit` is `Book!Credit`, `ClaimCommit` is `Book!Pay`, everything else stutters |
| `OneRunCovers` | `[]IndexCoversLog`, if runs do not overlap | `RunIndexFresh`: a run alone finds the index as it read it, and moves it forward |
| `OneRunPaysAlike` | `[]OwnersPaidAlike`, if runs do not overlap | `OwnersSeen`: a run alone has on its list, with what they invested, all owners who were ever credited; with `RunIndexFresh`, a period it credits is later than all in the log |
| `OneClaimCovered` | `[]BalanceNotNegative`, if claims do not overlap | `ClaimCovered`: a claim alone finds at least the balance it read, as runs only add to it |
| `RateStays` | `RateNeverFalls` | `NothingShrinks`: no step takes from balance and claimed together, and investments only grow |
| `DashboardShowsLog` | `[]DashboardMatchesLog` | from `AccountsMatchLog`, project by project under the sum (`DashboardSums`) |
| `OwnBalance` | `[]OwnBalanceShown` | see below |
| **`WalletLedgerProofs`** | | |
| `WalletNeverAheadOfLog` | `[](TypeOK /\ WalletBacked)` | see below |
| `ClaimMarksReward` | `[]ClaimedIffRewarded` | both sides change in `RefCommit` only |
| `LogFollowsChain` | `[]LogMatchesChain` | inductive with the types: every step of a withdrawal moves its amount between the summands |
| `BalanceShown` | `[]Balanced`, of `HSpec` | `HistoryInv`, see below |
| `NothingUsedTwice` | `[]UsedOnce`, of `HSpec` | `HistoryInv` |
| **`TasksProofs`** | | |
| `TxTypeCorrect` | `[]TxTypeOK` | inductive as it stands |
| `SucceedIsTrue` | `[]SucceedTruthful` | `AnswersTrue`: an answer that is about to be recorded is still true, as a confirmed transaction is out of reach of a reorganisation |
| `RowsSettle` | `StatusSettles` | `OneInHand`; only `Record` writes a row that is not open, and no step takes up one that is not |
| `LockReleased` | `[](TypeOK /\ LockHeld)` | inductive together: every branch that ends a scan, the catch block and a restart among them, releases the lock |
| `CountedOnce` | `[]CountedAtMostOnce` | `CountInv`, see below |
| **`CommunityProofs`** | | |
| `TypeCorrect` | `[]TypeOK` | inductive as it stands; a mean of ratings is a rating (`NewVoteType`) |
| `RatingsInductive` | `[]RatingInv` | see below |
| `RatingBetweenVotes` | `[]VoteBetweenVotes` | from `RatingInv` |
| `VotersCounted` | `[]VotesCounted` | `VotersInv`: the voters are a finite set, to which a recorded vote adds one who was not in it |
| `FollowersCounted` | `[]FollowsCounted` | `FollowersInv`: what the only request of a user has read still holds, so that the direction it counts in is right |
| `ChoicesStand` | `SellChoiceStands` | the key of the history row, with `SaleInv`: who has one is marked |
| **`PayoutsProofs`** | | |
| `TypeCorrect` | `[](TypeOK /\ DueCards)` | a run lists only cards that it owes quarters by what it read, so that what it books is a natural number |
| `WalletsTrue` | `[]WalletsMatchLog` | inductive with the types: a claim and a repayment change wallet and log alike |
| `RepaidRight` | `[]RepaidAtTheEnd` | `RepaidByOthers`: an admin who is ending the project repaid nobody yet, and will repay no more than what is owned now |
| `BookedRight` | `[]BookedWithinQuarters` | `RoomForRuns`, see below |
| `PaidRight` | `[]PaidWithinClaimed` | `PaidBeforeReads`, see below |
| `NothingBookedIsLost` | `[]BookedProfitHasHolder` | `RowsHaveCards`: only a card that has no rows is deleted, a row is created only of a card that is there, and one that is given away has a holder as before |
| **`UserProofs`** | | |
| `Inductive` | `[](TypeOK /\ RequestsInv /\ RowsInv)` | see below |
| `IdentitiesUnique` | `[]OneUserPerIdentity` | a new identity, or a link, is free in all rows in the very step that writes it (`IdentityStep`): the unique keys, not the queries before |
| `ReferralsTrue` | `[]ReferralsAgree` | from `RowsInv` |
| `LinkedWalletStays` | `LinkedStays` | `CheckedFree`: while a user links from one client, that he had no address when it was checked stays true |
| `KycTypeCorrect` | `[]KycTypeOK` | inductive as it stands |
| `ImagesComplete` | `[]RowsComplete` | an upload creates its row only when nothing is left to store |
| `ShownDecides` | `[]ShownKycDecides` | from `RowsComplete` |
| `LiveRowsBounded` | `[]FewLiveRows` | `RoomForUploads`: clients about to create a row count as well, so that creating one moves from one to the other |
| **`ServerProofs`** | | |
| `TypeCorrect` | `[]TypeOK` | each part by itself (`ServerStep`) |
| `SdkInitializedOnce` | `[]InitializedOnce` | `ReportsInv`: as long as the state is "virgin" or "skipped", nobody has initialised; who does takes it out of there |
| `ProfileShown` | `[]ProfileAgrees` | `AvatarStored`: only what was stored is referred to, but for the picture of a login; `DisplayFresh`: the names a request alone has read are there when it writes |
| `PasswordsOrdered` | `[]PasswordsInOrder` | `SessionsIInv`, see below |
| `LinksWork` | `[]MailedLinksWork` | `SessionsIInv` |
| `CountsSettle` | `[]CountSettles` | `NotesIInv`, see below |

*`CreditsInv`.*  `CreditsBounded` is not inductive: it does not say that the period a run is about to
commit is over, nor that the investment the run has read is not more than the present one.
`RunsAfterStart` and `PreparedComplete` say the former of the runs, `SnapshotNotAhead` the latter;
`LoggedComplete` says of every period of the log that it was complete before the vote to sell;
`TotalBounded` counts the periods logged, which is where the unique key (`~Duplicate`) is used: a
committed row adds a *new* period to a finite set, so that its cardinality grows by one.  The bound
then follows from the cardinality of an interval.  The proof needs that investments only grow
(`UpdateProjectNftOwner`), that the clock does, and `DatesAssumption`; it uses nothing of how many
runs or claims there are.

*`LedgerInv`.*  `WalletBacked` is not inductive because withdrawals and rewards write absolute values.
`ReadsBacked` says that a balance that was read was backed by credits and by what negative
withdrawals had added, which stays true since both only grow; `Covered` that a withdrawal goes on
only with a balance that covers its amount, so that the value it writes is a natural number: no
more than what it read, or, if the amount is negative, more by exactly what `Raised` grows by.

*`RatingInv`.*  The rating is computed from one that was read before others voted, so that its being
between the votes now says nothing of the next one.  `RatingInv` says it of every rating that a
request has read; rows of voters are never changed, so that it stays true however long the request
takes.  The mean of such a rating and a new vote lies between the two, also when it is rounded
(`NewVoteBetween`).

*`RequestsInv` and `RowsInv`.*  A registration is several transactions.  What a request remembers of
the user it created and of the inviter it found must still be true when it writes the referral and
the notification (`RequestsInv`); it is, because the inviter of a user never changes.  `RowsInv` says
of the rows that an inviter is older than whom he invites, since he was found before the user was
created, and that a referral and its notification are written in this order.

*`OwnBalanceShown`.*  It is a fact about two lists and needs no invariant.  Both are ordered by the id
of a project, and under the conditions of the property the second has exactly the projects of a
prefix of the first.  `PrefixOfList` says this of any two sequences that list a finite set and a part
of it closed below, ordered by an injective key: the places below `i` are filled by the elements
with smaller keys, of which there are as many in both.

*`HistoryInv`.*  `Balanced` compares a balance that was written absolutely with sums of rows, and holds
only of behaviours without overlap.  `ReadsFresh` says that until then at most one request is in
flight, and that what it has read is still in the table when it writes; every step then changes both
sides by the same amount.  `PasswordsUsed` holds with overlaps, too: passwords are numbered as they
are issued, belong to one user, and are gone from the cache when a withdrawal has passed; `UsesFresh`
adds that the request in flight holds one that lets nobody else pass.

*`CountInv`.*  A purchase goes through four tables one statement after the other, and a scan that fails
between two of them leaves the later ones behind.  `CountedAtMostOnce` says that each table adds up to
no more than the one before; it is not inductive, since it does not say that there is room for the
event in hand.  `SoldLater`, `BoughtLater` and `OwnedLater` say so for each table not yet written
to, `EventInHand` that the event is one of those saved.  They begin to hold when `ScanSave` adds an
event that was not in `nft`; a failure or restart only forgets the event in hand.

*`RoomForRuns` and `PaidBeforeReads`.*  Both turn "once for each of those that overlap" into a sum
over the runs, or the claims, of what each may still do: `RoomLeftBy(c)[r]` is how many quarters of
card `c` the log may hold without what run `r` has yet to book, `PayableBefore[k]` how much all
VIPs may have been paid without what claim `k` has read and others have claimed since.
A booking moves one quarter from the room of one run into the log; a claim that pays twice what was
claimed once uses up the part of the sum that was its own.

*`SessionsIInv`.*  `PasswordsInOrder` needs of every login in progress that the password it has read
was not replaced by a request answered before it began (`NothingReplaced`), for which the history
`before` must stay among what was answered (`BeforeAnswered`).  `MailedLinksWork` needs that a mail is
of an operation that ended and has its template (`MailsFit`), and that who presents a token got it
from such a mail and is refused for no other reason than its age (`TokensRight`).

*`NotesIInv`.*  A count is right from the batch that took it until the next batch of the same user.
`CountsFresh` says so of the only request of a user in progress, `CountsShown` of what clients were
shown since; `RowsShownToOwner` keeps rows with their users through pushes, reconnections and restarts.

*`ServerStep`.*  A step of the server is, for each of the four parts, a step of that part or none, so
that each invariant is proved of one part only and is not affected by the others.

*Sums.*  The totals are folds of the community modules, and the induction theorems of the library take
an operator as parameter.  `Sums` does without: the subsets of a finite set for which a fact about
sums fails would have a minimal one (`MinimalSubset`, from the well-foundedness of strict inclusion),
and taking one element out of it contradicts minimality.  `SumTake`, `SumChange`, `SumMonotone` and
their like follow in this way from the definition of the fold.

*Assumptions.*  The proofs use the named assumptions of the modules only: sets over which something is
counted or added up are finite; each request, client and event has its user; projects have
different ids; prices and quantities are positive, amounts withdrawn are any integers.  Of the
bounds of section 4 only one is restricted beyond its type: a reorganisation replaces fewer blocks than there are `Required`
confirmations (`TxAssumption`), which is what waiting for confirmations means.

*Only model-checked.*  `PurchaseSaved` and `ReportsArrive` are liveness under fairness, which is out of the reach of the prover: TLC checks them on the instances of section 4.  So it
is with the two violated properties, whose counterexamples are behaviours of an instance.

## 7. Not modelled

* What users are shown of VIP cards: `getVipUser` lists ten of them, and `getDashboard` reads the rows
  of a card and then overwrites their sum; `getAccountInfo`, which reads five columns of the profile.
* The catalogue (`getProjects`, `hotProjects`, ...): queries that filter and order what others wrote;
  `contactUs` and `setPoolWallet`, which create rows that no modelled code reads; the login of admins.
* Guards and the access control list decide without state who may call what.  A resolver forwards a
  request to a service method, and appears as a disjunct of `Next`.
* `ethers`, S3, bcrypt and Prisma themselves: the modules model what they may answer.
* `MutexService` and `MemoryCache`, which nothing imports; e-mail templates that nothing sends; ABIs,
  logging, wording.
