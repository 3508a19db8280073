------------------------------- MODULE NftScanner -------------------------------
(***************************************************************************)
(* The purchases of NFTs on the blockchain and the cron job that records   *)
(* them (TasksService.listenerEventNft): it reads the MintNFT events from  *)
(* startBlock on and writes, for each event whose tokens are new, the nft  *)
(* rows, the project's total_nft_sold, a BUY_NFT row, the owner's share    *)
(* (InvestService.updateProjectNftOwner) and a notification -- each in a   *)
(* statement of its own.  startBlock, the lock and the cached list of      *)
(* contracts live in memory; the next tick of a failed scan starts from    *)
(* the same block, a restarted server Window blocks back.                  *)
(*                                                                         *)
(* The tokens of an event are new or known together: createMany inserts    *)
(* them in one statement, and no token is minted twice.                    *)
(***************************************************************************)
EXTENDS Integers, FiniteSets, Functions

CONSTANTS
    Events,         \* MintNFT events
    ContractOf,     \* the contract that emits the event
    BuyerOf,        \* owner: the user whose wallet address it is
    Quantity,       \* quantity: how many tokens it mints
    Users,
    Contracts,
    KnownContracts, \* at the start, those with a row of type NFT
    WithProject,    \* and those some project has as contract_address, all with a row
    Window,         \* blocks scanned after a restart: 4000 in the code
    MaxBlock,       \* bound on the height of the chain
    MaxFailures,    \* bound on the scans that fail
    MaxRestarts     \* bound on the restarts of the server

ASSUME EventsAssumption ==
    /\ ContractOf \in [Events -> Contracts]
    /\ BuyerOf \in [Events -> Users]
    /\ Quantity \in [Events -> Nat \ {0}]
    /\ KnownContracts \subseteq Contracts
    /\ WithProject \subseteq KnownContracts
    /\ IsFiniteSet(Events) /\ IsFiniteSet(Users) /\ IsFiniteSet(Contracts)
ASSUME ScanAssumption ==
    Window \in Nat /\ MaxBlock \in Nat /\ MaxFailures \in Nat /\ MaxRestarts \in Nat

VARIABLES
    head,           \* the number of the latest block
    minted,         \* the block of each event, 0 while it has not happened
    contractType,   \* contract.type, "no row" or "none" (null) without
    projects,       \* the contracts some project has as contract_address
    linked,         \* the users whose wallet_address is set
    nft,            \* the events whose tokens are in the nft table
    sold,           \* project.total_nft_sold, per contract_address
    bought,         \* tokens the BUY_NFT rows of a user speak of
    owned,          \* project_nft_owner.total_nft
    startBlock, lockProcess,
    contractsList,  \* the cached list, {} when it is not there
    scan,           \* the scan in progress
    failures, restarts

blocks == <<head, minted>>
settings == <<contractType, projects, linked>>
tables == <<nft, sold, bought, owned>>
memory == <<startBlock, lockProcess, contractsList, scan>>
counts == <<failures, restarts>>
vars == <<blocks, settings, tables, memory, counts>>

-----------------------------------------------------------------------------
(* Type definitions *)

Scan == [pc : {"idle", "head", "contracts", "filter", "event", "price", "count", "log",
               "own", "notify"},
         blockNumber : Nat,
         contracts : SUBSET Contracts,  \* listNftInstance, the part not scanned yet
         contract : SUBSET Contracts,   \* the one being scanned
         events : SUBSET Events,        \* listEvents, the part not handled yet
         event : SUBSET Events,         \* the one being handled
         user : SUBSET Users]           \* the user found for it

IdleScan == [pc |-> "idle", blockNumber |-> 0, contracts |-> {}, contract |-> {},
             events |-> {}, event |-> {}, user |-> {}]

TypeOK ==
    /\ head \in Nat
    /\ minted \in [Events -> 0 .. head]
    /\ contractType \in [Contracts -> {"no row", "none", "NFT"}]
    /\ projects \in SUBSET Contracts
    /\ linked \in SUBSET Users
    /\ nft \in SUBSET Events
    /\ sold \in [Contracts -> Nat]
    /\ bought \in [Users -> Nat]
    /\ owned \in [Contracts -> [Users -> Nat]]
    /\ startBlock \in Int
    /\ lockProcess \in BOOLEAN
    /\ contractsList \in SUBSET Contracts
    /\ scan \in Scan
    /\ failures \in 0 .. MaxFailures
    /\ restarts \in 0 .. MaxRestarts

-----------------------------------------------------------------------------
Init ==
    /\ head = 1
    /\ minted = [e \in Events |-> 0]
    /\ contractType = [c \in Contracts |-> IF c \in KnownContracts THEN "NFT" ELSE "no row"]
    /\ projects = WithProject
    /\ linked = {}
    /\ nft = {}
    /\ sold = [c \in Contracts |-> 0]
    /\ bought = [u \in Users |-> 0]
    /\ owned = [c \in Contracts |-> [u \in Users |-> 0]]
    /\ startBlock = 0
    /\ lockProcess = FALSE
    /\ contractsList = {}
    /\ scan = IdleScan
    /\ failures = 0
    /\ restarts = 0

-----------------------------------------------------------------------------
(* What happens outside the job *)

\* A block with the events of some purchases.
Mine ==
    /\ head < MaxBlock
    /\ head' = head + 1
    /\ \E batch \in SUBSET {e \in Events : minted[e] = 0} :
        minted' = [e \in Events |-> IF e \in batch THEN head + 1 ELSE minted[e]]
    /\ UNCHANGED <<settings, tables, memory, counts>>

\* The row that is created does not say of which type the contract is.
WithContract(c) == [contractType EXCEPT ![c] = "none"]

\* The admin's setProjectContract; an address that has a row is refused.
SetProjectContract(c) ==
    /\ contractType[c] = "no row"
    /\ contractType' = WithContract(c)
    /\ UNCHANGED <<blocks, projects, linked, tables, memory, counts>>

\* uploadProject, with a new project for a contract: its input names a row that is
\* there, or the row to create with it.
UploadProject(c, type) ==
    /\ c \notin projects
    /\ projects' = projects \cup {c}
    /\ contractType' = [contractType EXCEPT ![c] = IF @ = "no row" THEN type ELSE @]
    /\ UNCHANGED <<blocks, linked, tables, memory, counts>>

\* No code sets the type of a row that is there: it is set in the database.
SetContractType(c) ==
    /\ contractType[c] = "none"
    /\ contractType' = [contractType EXCEPT ![c] = "NFT"]
    /\ UNCHANGED <<blocks, projects, linked, tables, memory, counts>>

\* updateWalletAddress
LinkWallet(u) ==
    /\ u \notin linked
    /\ linked' = linked \cup {u}
    /\ UNCHANGED <<blocks, contractType, projects, tables, memory, counts>>

CacheExpires ==
    /\ contractsList # {}
    /\ contractsList' = {}
    /\ UNCHANGED <<blocks, settings, tables, startBlock, lockProcess, scan, counts>>

-----------------------------------------------------------------------------
(* The scan *)

ScanTick ==
    /\ ~lockProcess
    /\ lockProcess' = TRUE
    /\ scan' = [IdleScan EXCEPT !.pc = "head"]
    /\ UNCHANGED <<blocks, settings, tables, startBlock, contractsList, counts>>

\* Reads the height of the chain; returns when there is no new block.
ScanHead ==
    /\ scan.pc = "head"
    /\ startBlock' = IF startBlock = 0 THEN head - Window ELSE startBlock
    /\ LET nothingNew == startBlock # 0 /\ startBlock = head IN
       /\ lockProcess' = ~nothingNew
       /\ scan' = IF nothingNew THEN IdleScan
                  ELSE [IdleScan EXCEPT !.pc = "contracts", !.blockNumber = head]
    /\ UNCHANGED <<blocks, settings, tables, contractsList, counts>>

NftContracts == {c \in Contracts : contractType[c] = "NFT"}

\* The cached list, if there is one, is not compared with the table.
ScanContracts ==
    /\ scan.pc = "contracts"
    /\ LET found == IF contractsList # {} THEN contractsList ELSE NftContracts IN
       /\ contractsList' = found
       /\ scan' = [scan EXCEPT !.pc = "filter", !.contracts = found]
    /\ UNCHANGED <<blocks, settings, tables, startBlock, lockProcess, counts>>

\* filterEvents of the contract up to 'latest', which may be past blockNumber by now.
FilterEvents(c, fromBlock) ==
    {e \in Events : ContractOf[e] = c /\ minted[e] # 0 /\ minted[e] >= fromBlock}

ScanFilter ==
    /\ scan.pc = "filter"
    /\ \E c \in scan.contracts :
        scan' = [scan EXCEPT !.pc = "event", !.contracts = @ \ {c}, !.contract = {c},
                             !.events = FilterEvents(c, startBlock)]
    /\ UNCHANGED <<blocks, settings, tables, startBlock, lockProcess, contractsList, counts>>

\* The next event of the list, in the order of the blocks.
NextEvent(e) ==
    /\ scan.pc = "event"
    /\ e \in scan.events
    /\ \A f \in scan.events : minted[e] <= minted[f]

\* if (data.length === 0) continue
ScanKnown(e) ==
    /\ NextEvent(e)
    /\ e \in nft
    /\ scan' = [scan EXCEPT !.events = @ \ {e}]
    /\ UNCHANGED <<blocks, settings, tables, startBlock, lockProcess, contractsList, counts>>

\* Mutant: known tokens are handled like new ones.
ScanSaveAgain(e) ==
    /\ NextEvent(e)
    /\ nft' = nft \cup {e}
    /\ scan' = [scan EXCEPT !.pc = "price", !.events = @ \ {e}, !.event = {e}]
    /\ UNCHANGED <<blocks, settings, sold, bought, owned, startBlock, lockProcess,
                   contractsList, counts>>

\* createMany
ScanSave(e) ==
    /\ NextEvent(e)
    /\ e \notin nft
    /\ nft' = nft \cup {e}
    /\ scan' = [scan EXCEPT !.pc = "price", !.events = @ \ {e}, !.event = {e}]
    /\ UNCHANGED <<blocks, settings, sold, bought, owned, startBlock, lockProcess,
                   contractsList, counts>>

\* Asks the node for the floor price and looks up the user.
ScanPrice ==
    /\ scan.pc = "price"
    /\ scan' = [scan EXCEPT !.pc = "count",
                            !.user = {BuyerOf[e] : e \in scan.event} \cap linked]
    /\ UNCHANGED <<blocks, settings, tables, startBlock, lockProcess, contractsList, counts>>

\* total_nft_sold; the update throws when no project has the contract.
ScanCount ==
    /\ scan.pc = "count"
    /\ \E e \in scan.event :
        /\ ContractOf[e] \in projects
        /\ sold' = [sold EXCEPT ![ContractOf[e]] = @ + Quantity[e]]
        /\ scan' = IF scan.user = {} THEN [scan EXCEPT !.pc = "event", !.event = {}]
                                     ELSE [scan EXCEPT !.pc = "log"]
    /\ UNCHANGED <<blocks, settings, nft, bought, owned, startBlock, lockProcess,
                   contractsList, counts>>

ScanLog ==
    /\ scan.pc = "log"
    /\ \E e \in scan.event, u \in scan.user : bought' = [bought EXCEPT ![u] = @ + Quantity[e]]
    /\ scan' = [scan EXCEPT !.pc = "own"]
    /\ UNCHANGED <<blocks, settings, nft, sold, owned, startBlock, lockProcess,
                   contractsList, counts>>

\* updateProjectNftOwner
ScanOwn ==
    /\ scan.pc = "own"
    /\ \E e \in scan.event, u \in scan.user :
        owned' = [owned EXCEPT ![ContractOf[e]][u] = @ + Quantity[e]]
    /\ scan' = [scan EXCEPT !.pc = "notify"]
    /\ UNCHANGED <<blocks, settings, nft, sold, bought, startBlock, lockProcess,
                   contractsList, counts>>

\* createAndPushNoti, and on to the next event.
ScanNotify ==
    /\ scan.pc = "notify"
    /\ scan' = [scan EXCEPT !.pc = "event", !.event = {}, !.user = {}]
    /\ UNCHANGED <<blocks, settings, tables, startBlock, lockProcess, contractsList, counts>>

ScanNextContract ==
    /\ scan.pc = "event"
    /\ scan.events = {}
    /\ scan' = [scan EXCEPT !.pc = "filter", !.contract = {}]
    /\ UNCHANGED <<blocks, settings, tables, startBlock, lockProcess, contractsList, counts>>

\* Mutant: the next scan starts from what is the latest block by now.
ScanDoneLatest ==
    /\ scan.pc = "filter"
    /\ scan.contracts = {}
    /\ startBlock' = head
    /\ lockProcess' = FALSE
    /\ scan' = IdleScan
    /\ UNCHANGED <<blocks, settings, tables, contractsList, counts>>

ScanDone ==
    /\ scan.pc = "filter"
    /\ scan.contracts = {}
    /\ startBlock' = scan.blockNumber
    /\ lockProcess' = FALSE
    /\ scan' = IdleScan
    /\ UNCHANGED <<blocks, settings, tables, contractsList, counts>>

\* An awaited call throws: the error is swallowed, the lock released.
ScanFail ==
    /\ scan.pc # "idle"
    /\ failures < MaxFailures
    /\ failures' = failures + 1
    /\ lockProcess' = FALSE
    /\ scan' = IdleScan
    /\ UNCHANGED <<blocks, settings, tables, startBlock, contractsList, restarts>>

\* Without a project, total_nft_sold cannot be updated: the scan fails.
ScanNoProject ==
    /\ scan.pc = "count"
    /\ \E e \in scan.event : ContractOf[e] \notin projects
    /\ lockProcess' = FALSE
    /\ scan' = IdleScan
    /\ UNCHANGED <<blocks, settings, tables, startBlock, contractsList, counts>>

Restart ==
    /\ restarts < MaxRestarts
    /\ restarts' = restarts + 1
    /\ startBlock' = 0
    /\ lockProcess' = FALSE
    /\ contractsList' = {}
    /\ scan' = IdleScan
    /\ UNCHANGED <<blocks, settings, tables, failures>>

-----------------------------------------------------------------------------
ScanStep ==
    \/ ScanTick \/ ScanHead \/ ScanContracts \/ ScanFilter
    \/ \E e \in Events : ScanKnown(e) \/ ScanSave(e)
    \/ ScanPrice \/ ScanCount \/ ScanLog \/ ScanOwn \/ ScanNotify
    \/ ScanNextContract \/ ScanDone \/ ScanNoProject

Next ==
    \/ Mine
    \/ \E c \in Contracts :
        \/ SetProjectContract(c) \/ SetContractType(c)
        \/ \E type \in {"none", "NFT"} : UploadProject(c, type)
    \/ \E u \in Users : LinkWallet(u)
    \/ CacheExpires
    \/ ScanStep
    \/ ScanFail
    \/ Restart

Spec == Init /\ [][Next]_vars

\* The cron ticks for ever and the calls of a scan are answered.
FairSpec == Spec /\ WF_vars(ScanStep)

-----------------------------------------------------------------------------
(* Properties *)

Tokens(S) == SumFunctionOnSet(Quantity, S)

SavedOf(c) == {e \in nft : ContractOf[e] = c}
SavedFor(u) == {e \in nft : BuyerOf[e] = u}

OwnedOf(c) == SumFunctionOnSet(owned[c], Users)
OwnedBy(u) == SumFunctionOnSet([c \in Contracts |-> owned[c][u]], Contracts)

\* A purchase is counted at most once, in each of the tables it goes to,
\* whatever scans fail and however often a restarted server reads the same
\* blocks again; and in the order of the code: what an owner has is in the
\* BUY_NFT rows and was counted as sold, and that is in the nft table.
CountedAtMostOnce ==
    /\ \A c \in Contracts : OwnedOf(c) <= sold[c] /\ sold[c] <= Tokens(SavedOf(c))
    /\ \A u \in Users : OwnedBy(u) <= bought[u] /\ bought[u] <= Tokens(SavedFor(u))

\* Every purchase under a contract known from the start gets into the nft table.
PurchaseSaved ==
    \A e \in {f \in Events : ContractOf[f] \in WithProject} :
        minted[e] # 0 ~> e \in nft

\* "find and update total sold project": when no scan is in progress, what is in
\* the nft table has been counted.
SavedIsCounted ==
    scan.pc = "idle" =>
        \A c \in WithProject : sold[c] = Tokens(SavedOf(c))
=============================================================================
