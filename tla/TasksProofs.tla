------------------------------ MODULE TasksProofs ------------------------------
(***************************************************************************)
(* The two jobs of TasksService that follow the blockchain.  NftScanner,   *)
(* for any number of purchases, contracts, failures and restarts: types,   *)
(* the lock in memory, which is held exactly while a scan is under way,    *)
(* so that no failure leaves it behind, and that a purchase is counted at  *)
(* most once.  TxWatcher, for any number of transactions and of runs of    *)
(* the job that overlap, and any number of confirmations asked for:        *)
(* types, that SUCCEED is only said of what was executed and is            *)
(* confirmed, and how rows settle.                                         *)
(***************************************************************************)
EXTENDS TxWatcher, NftScanner, Sums

-----------------------------------------------------------------------------
(* NftScanner: types and the lock *)

\* lockProcess says whether a scan is in progress.
LockHeld == lockProcess <=> scan.pc # "idle"

LEMMA IdleType == IdleScan \in Scan /\ IdleScan.pc = "idle"
BY DEF IdleScan, Scan

\* What happens outside the job leaves the job alone.
LEMMA OutsideStep ==
    ASSUME TypeOK, LockHeld
    PROVE  \/ Mine
           \/ \E c \in Contracts :
               \/ SetProjectContract(c) \/ SetContractType(c)
               \/ \E type \in {"none", "NFT"} : UploadProject(c, type)
           \/ \E u \in Users : LinkWallet(u)
           \/ CacheExpires
           => (TypeOK /\ LockHeld)'
<1>1. ASSUME Mine PROVE (TypeOK /\ LockHeld)'
  <2>0. head' = head + 1
    BY <1>1, Zenon DEF Mine
  <2>1. head' \in Nat /\ head' = head + 1
    <3>1. head \in Nat
      BY DEF TypeOK
    <3> QED
      BY <2>0, <3>1
  <2>2. \A e \in Events : minted[e] \in 0 .. head' /\ head + 1 \in 0 .. head'
    <3>1. \A e \in Events : minted[e] \in 0 .. head
      BY DEF TypeOK
    <3>2. head \in Nat
      BY DEF TypeOK
    <3> QED
      BY <2>1, <3>1, <3>2
  <2>3. minted' \in [Events -> 0 .. head']
    BY <1>1, <2>1, <2>2 DEF Mine
  <2> QED
    BY <1>1, <2>1, <2>3 DEF Mine, settings, tables, memory, counts, TypeOK, LockHeld
<1>2. ASSUME NEW c \in Contracts, SetProjectContract(c) \/ SetContractType(c)
      PROVE  (TypeOK /\ LockHeld)'
  <2>1. contractType' \in [Contracts -> {"no row", "none", "NFT"}]
    BY <1>2 DEF SetProjectContract, WithContract, SetContractType, TypeOK
  <2> QED
    BY <1>2, <2>1
    DEF SetProjectContract, SetContractType, blocks, tables, memory, counts, TypeOK, LockHeld
<1>3. ASSUME NEW c \in Contracts, NEW type \in {"none", "NFT"}, UploadProject(c, type)
      PROVE  (TypeOK /\ LockHeld)'
  <2>1. contractType' \in [Contracts -> {"no row", "none", "NFT"}]
    BY <1>3 DEF UploadProject, TypeOK
  <2> QED
    BY <1>3, <2>1 DEF UploadProject, blocks, tables, memory, counts, TypeOK, LockHeld
<1>4. ASSUME NEW u \in Users, LinkWallet(u) PROVE (TypeOK /\ LockHeld)'
  BY <1>4 DEF LinkWallet, blocks, tables, memory, counts, TypeOK, LockHeld
<1>5. ASSUME CacheExpires PROVE (TypeOK /\ LockHeld)'
  BY <1>5 DEF CacheExpires, blocks, settings, tables, counts, TypeOK, LockHeld
<1> QED
  BY <1>1, <1>2, <1>3, <1>4, <1>5

\* The steps of a scan that write no table of counts.
LEMMA ReadingStep ==
    ASSUME TypeOK, LockHeld
    PROVE  \/ ScanTick \/ ScanHead \/ ScanContracts \/ ScanFilter
           \/ \E e \in Events : ScanKnown(e) \/ ScanSave(e)
           \/ ScanPrice \/ ScanNotify \/ ScanNextContract \/ ScanDone \/ ScanNoProject
           \/ ScanFail \/ Restart
           => (TypeOK /\ LockHeld)'
<1> USE IdleType
<1>0. scan \in Scan /\ head \in Nat /\ startBlock \in Int
  BY DEF TypeOK
<1>1. ASSUME ScanTick PROVE (TypeOK /\ LockHeld)'
  <2>1. scan' \in Scan /\ scan'.pc = "head"
    BY <1>1 DEF ScanTick, IdleScan, Scan
  <2> QED
    BY <1>1, <2>1 DEF ScanTick, blocks, settings, tables, counts, TypeOK, LockHeld
<1>2. ASSUME ScanHead PROVE (TypeOK /\ LockHeld)'
  <2>1. [IdleScan EXCEPT !.pc = "contracts", !.blockNumber = head] \in Scan
    BY <1>0 DEF IdleScan, Scan
  <2>2. scan' \in Scan /\ (lockProcess' <=> scan'.pc # "idle") /\ lockProcess' \in BOOLEAN
    BY <1>2, <2>1 DEF ScanHead, IdleScan
  <2>3. startBlock' \in Int
    BY <1>0, <1>2, ScanAssumption DEF ScanHead
  <2> QED
    BY <1>2, <2>2, <2>3 DEF ScanHead, blocks, settings, tables, counts, TypeOK, LockHeld
<1>3. ASSUME ScanContracts PROVE (TypeOK /\ LockHeld)'
  <2>1. contractsList' \in SUBSET Contracts
    BY <1>3 DEF ScanContracts, NftContracts, TypeOK
  <2>2. scan' \in Scan /\ scan'.pc = "filter"
    BY <1>0, <1>3, <2>1 DEF ScanContracts, Scan
  <2> QED
    BY <1>3, <2>1, <2>2
    DEF ScanContracts, blocks, settings, tables, counts, TypeOK, LockHeld
<1>4. ASSUME ScanFilter PROVE (TypeOK /\ LockHeld)'
  <2>1. scan' \in Scan /\ scan'.pc = "event"
    <3>1. \A c : FilterEvents(c, startBlock) \subseteq Events
      BY DEF FilterEvents
    <3>2. PICK c \in scan.contracts :
            scan' = [scan EXCEPT !.pc = "event", !.contracts = @ \ {c}, !.contract = {c},
                                 !.events = FilterEvents(c, startBlock)]
      BY <1>4 DEF ScanFilter
    <3> DEFINE found == FilterEvents(c, startBlock)
    <3>3. found \subseteq Events /\ c \in Contracts
      BY <1>0, <3>1 DEF Scan
    <3> HIDE DEF found
    <3> QED
      BY <1>0, <3>2, <3>3 DEF Scan, found
  <2> QED
    BY <1>4, <2>1 DEF ScanFilter, blocks, settings, tables, counts, TypeOK, LockHeld
<1>5. ASSUME NEW e \in Events, ScanKnown(e) PROVE (TypeOK /\ LockHeld)'
  <2>1. scan' \in Scan /\ scan'.pc = "event"
    BY <1>0, <1>5 DEF ScanKnown, NextEvent, Scan
  <2> QED
    BY <1>5, <2>1
    DEF ScanKnown, NextEvent, blocks, settings, tables, counts, TypeOK, LockHeld
<1>6. ASSUME NEW e \in Events, ScanSave(e) PROVE (TypeOK /\ LockHeld)'
  <2>1. scan' \in Scan /\ scan'.pc = "price"
    BY <1>0, <1>6 DEF ScanSave, NextEvent, Scan
  <2> QED
    BY <1>6, <2>1 DEF ScanSave, NextEvent, blocks, settings, counts, TypeOK, LockHeld
<1>7. ASSUME ScanPrice PROVE (TypeOK /\ LockHeld)'
  <2>1. scan' \in Scan /\ scan'.pc = "count"
    BY <1>0, <1>7 DEF ScanPrice, Scan, TypeOK
  <2> QED
    BY <1>7, <2>1 DEF ScanPrice, blocks, settings, tables, counts, TypeOK, LockHeld
<1>8. ASSUME ScanNotify \/ ScanNextContract PROVE (TypeOK /\ LockHeld)'
  <2>1. scan' \in Scan /\ scan.pc # "idle" /\ scan'.pc # "idle"
    BY <1>0, <1>8 DEF ScanNotify, ScanNextContract, Scan
  <2> QED
    BY <1>8, <2>1
    DEF ScanNotify, ScanNextContract, blocks, settings, tables, counts, TypeOK, LockHeld
<1>9. ASSUME ScanDone PROVE (TypeOK /\ LockHeld)'
  <2>1. startBlock' \in Int
    BY <1>0, <1>9 DEF ScanDone, Scan
  <2> QED
    BY <1>9, <2>1 DEF ScanDone, blocks, settings, tables, counts, TypeOK, LockHeld
<1>10. ASSUME ScanNoProject PROVE (TypeOK /\ LockHeld)'
  BY <1>10 DEF ScanNoProject, blocks, settings, tables, counts, TypeOK, LockHeld
<1>11. ASSUME ScanFail PROVE (TypeOK /\ LockHeld)'
  <2>1. failures' \in 0 .. MaxFailures
    <3>1. failures \in 0 .. MaxFailures /\ failures < MaxFailures /\ failures' = failures + 1
      BY <1>11, Zenon DEF ScanFail, TypeOK
    <3> QED
      BY <3>1, ScanAssumption
  <2> QED
    BY <1>11, <2>1 DEF ScanFail, blocks, settings, tables, TypeOK, LockHeld
<1>12. ASSUME Restart PROVE (TypeOK /\ LockHeld)'
  <2>1. restarts' \in 0 .. MaxRestarts
    <3>1. restarts \in 0 .. MaxRestarts /\ restarts < MaxRestarts /\ restarts' = restarts + 1
      BY <1>12, Zenon DEF Restart, TypeOK
    <3> QED
      BY <3>1, ScanAssumption
  <2> QED
    <3>1. startBlock' = 0 /\ contractsList' = {} /\ lockProcess' = FALSE /\ scan' = IdleScan
      BY <1>12 DEF Restart
    <3>2. startBlock' \in Int /\ contractsList' \in SUBSET Contracts
      BY <3>1
    <3>3. UNCHANGED <<blocks, settings, tables, failures>>
      BY <1>12 DEF Restart
    <3> QED
      BY <2>1, <3>1, <3>2, <3>3, Zenon DEF blocks, settings, tables, TypeOK, LockHeld
<1> QED
  BY <1>1, <1>2, <1>3, <1>4, <1>5, <1>6, <1>7, <1>8, <1>9, <1>10, <1>11, <1>12

\* The three steps that count a purchase.
LEMMA CountingStep ==
    ASSUME TypeOK, LockHeld
    PROVE  ScanCount \/ ScanLog \/ ScanOwn => (TypeOK /\ LockHeld)'
<1>0. scan \in Scan /\ scan.event \subseteq Events /\ scan.user \subseteq Users
  BY DEF TypeOK, Scan
<1>1. \A e \in Events : ContractOf[e] \in Contracts /\ Quantity[e] \in Nat
  BY EventsAssumption
<1>2. ASSUME ScanCount PROVE (TypeOK /\ LockHeld)'
  <2>1. sold' \in [Contracts -> Nat]
    <3>1. PICK e \in Events : sold' = [sold EXCEPT ![ContractOf[e]] = @ + Quantity[e]]
      BY <1>0, <1>2 DEF ScanCount
    <3>2. sold \in [Contracts -> Nat]
      BY DEF TypeOK
    <3> QED
      BY <1>1, <3>1, <3>2
  <2>2. scan' \in Scan /\ scan.pc # "idle" /\ scan'.pc # "idle"
    BY <1>0, <1>2 DEF ScanCount, Scan
  <2> QED
    BY <1>2, <2>1, <2>2 DEF ScanCount, blocks, settings, counts, TypeOK, LockHeld
<1>3. ASSUME ScanLog PROVE (TypeOK /\ LockHeld)'
  <2>1. bought' \in [Users -> Nat]
    <3>1. PICK e \in Events : \E u \in Users : bought' = [bought EXCEPT ![u] = @ + Quantity[e]]
      BY <1>0, <1>3 DEF ScanLog
    <3>2. bought \in [Users -> Nat]
      BY DEF TypeOK
    <3> QED
      BY <1>1, <3>1, <3>2
  <2>2. scan' \in Scan /\ scan'.pc = "own"
    BY <1>0, <1>3 DEF ScanLog, Scan
  <2> QED
    BY <1>3, <2>1, <2>2 DEF ScanLog, blocks, settings, counts, TypeOK, LockHeld
<1>4. ASSUME ScanOwn PROVE (TypeOK /\ LockHeld)'
  <2>1. owned' \in [Contracts -> [Users -> Nat]]
    <3>1. PICK e \in Events : \E u \in Users : owned' = [owned EXCEPT ![ContractOf[e]][u] = @ + Quantity[e]]
      BY <1>0, <1>4 DEF ScanOwn
    <3>2. owned \in [Contracts -> [Users -> Nat]]
      BY DEF TypeOK
    <3> QED
      BY <1>1, <3>1, <3>2
  <2>2. scan' \in Scan /\ scan'.pc = "notify"
    BY <1>0, <1>4 DEF ScanOwn, Scan
  <2> QED
    BY <1>4, <2>1, <2>2 DEF ScanOwn, blocks, settings, counts, TypeOK, LockHeld
<1> QED
  BY <1>2, <1>3, <1>4

\* Types, and a lock that no failure of a scan, no early return and no restart leaves
\* behind (the finally block of listenerEventNft).
THEOREM LockReleased == Spec => [](TypeOK /\ LockHeld)
<1>1. Init => TypeOK /\ LockHeld
  <2> SUFFICES ASSUME Init PROVE TypeOK /\ LockHeld
    OBVIOUS
  <2>1. head = 1 /\ minted = [e \in Events |-> 0]
    BY DEF Init
  <2>2. minted \in [Events -> 0 .. head]
    BY <2>1
  <2>3. failures \in 0 .. MaxFailures /\ restarts \in 0 .. MaxRestarts
    <3>1. failures = 0 /\ restarts = 0
      BY DEF Init
    <3> QED
      BY <3>1, ScanAssumption
  <2>4. contractType \in [Contracts -> {"no row", "none", "NFT"}]
    BY DEF Init
  <2>5. /\ projects \in SUBSET Contracts /\ linked \in SUBSET Users
        /\ nft \in SUBSET Events /\ contractsList \in SUBSET Contracts
    BY EventsAssumption DEF Init
  <2>6. /\ sold \in [Contracts -> Nat] /\ bought \in [Users -> Nat]
        /\ owned \in [Contracts -> [Users -> Nat]]
    BY DEF Init
  <2>7. head \in Nat /\ startBlock \in Int
    <3>1. head = 1 /\ startBlock = 0
      BY DEF Init
    <3> QED
      BY <3>1
  <2>8. scan \in Scan /\ scan.pc = "idle" /\ lockProcess = FALSE
    BY IdleType DEF Init
  <2> QED
    BY <2>2, <2>3, <2>4, <2>5, <2>6, <2>7, <2>8, Zenon DEF TypeOK, LockHeld
<1>2. TypeOK /\ LockHeld /\ [Next]_vars => (TypeOK /\ LockHeld)'
  <2>1. CASE UNCHANGED vars
    BY <2>1 DEF vars, blocks, settings, tables, memory, counts, TypeOK, LockHeld
  <2> QED
    BY <2>1, OutsideStep, ReadingStep, CountingStep DEF Next, ScanStep
<1> QED
  BY <1>1, <1>2, PTL DEF Spec
-----------------------------------------------------------------------------
(* NftScanner: a purchase is counted at most once *)

Handling == {"price", "count", "log", "own", "notify"}

\* The event in hand has its tokens in the nft table, and the user found is its buyer.
EventInHand ==
    scan.pc \in Handling =>
        \E e \in nft :
            /\ scan.event = {e}
            /\ scan.pc = "count" => scan.user \subseteq {BuyerOf[e]}
            /\ scan.pc \in {"log", "own", "notify"} => scan.user = {BuyerOf[e]}

\* What the scan has not yet counted of the event in hand is missing in sold, ...
SoldLater ==
    scan.pc \in {"price", "count"} =>
        \A e \in scan.event :
            sold[ContractOf[e]] + Quantity[e] <= Tokens(SavedOf(ContractOf[e]))

\* ... in the BUY_NFT rows ...
BoughtLater ==
    scan.pc \in {"price", "count", "log"} =>
        \A e \in scan.event :
            bought[BuyerOf[e]] + Quantity[e] <= Tokens(SavedFor(BuyerOf[e]))

\* ... and in what the buyer owns.
OwnedLater ==
    \A e \in scan.event :
        /\ scan.pc \in {"log", "own"} =>
               OwnedOf(ContractOf[e]) + Quantity[e] <= sold[ContractOf[e]]
        /\ scan.pc = "own" => OwnedBy(BuyerOf[e]) + Quantity[e] <= bought[BuyerOf[e]]

CountInv == EventInHand /\ SoldLater /\ BoughtLater /\ OwnedLater /\ CountedAtMostOnce

\* The totals are natural numbers.
LEMMA TotalsType ==
    ASSUME TypeOK
    PROVE  /\ \A c \in Contracts : OwnedOf(c) \in Int /\ Tokens(SavedOf(c)) \in Int
           /\ \A u \in Users : OwnedBy(u) \in Int /\ Tokens(SavedFor(u)) \in Int
<1>0. owned \in [Contracts -> [Users -> Nat]]
  BY DEF TypeOK
<1>1. \A c, u : IsFiniteSet(SavedOf(c)) /\ IsFiniteSet(SavedFor(u))
  <2>1. \A c, u : SavedOf(c) \subseteq Events /\ SavedFor(u) \subseteq Events
    BY DEF SavedOf, SavedFor, TypeOK
  <2> QED
    BY <2>1, EventsAssumption, FS_Subset
<1>2. \A c, u : \A e \in SavedOf(c) \cup SavedFor(u) : Quantity[e] \in Int
  <2>1. \A c, u : SavedOf(c) \subseteq Events /\ SavedFor(u) \subseteq Events
    BY DEF SavedOf, SavedFor, TypeOK
  <2>2. \A e \in Events : Quantity[e] \in Int
    BY EventsAssumption
  <2> QED
    BY <2>1, <2>2
<1>3. \A c, u : Tokens(SavedOf(c)) \in Int /\ Tokens(SavedFor(u)) \in Int
  BY <1>1, <1>2, SumType DEF Tokens
<1>4. ASSUME NEW c \in Contracts PROVE OwnedOf(c) \in Int
  <2>1. \A u \in Users : owned[c][u] \in Int
    BY <1>0
  <2> QED
    BY <2>1, EventsAssumption, SumType DEF OwnedOf
<1>5. ASSUME NEW u \in Users PROVE OwnedBy(u) \in Int
  <2> DEFINE row == [c \in Contracts |-> owned[c][u]]
  <2>1. \A c \in Contracts : row[c] \in Int
    BY <1>0
  <2> HIDE DEF row
  <2>2. SumFunctionOnSet(row, Contracts) \in Int
    BY <2>1, EventsAssumption, SumType
  <2> QED
    BY <2>2 DEF OwnedBy, row
<1> QED
  BY <1>3, <1>4, <1>5

\* A step that writes no table and has no event in hand afterwards.
LEMMA QuietStep ==
    ASSUME CountInv, UNCHANGED tables, scan'.pc \notin Handling
    PROVE  CountInv'
<1>1. /\ \A c : (OwnedOf(c))' = OwnedOf(c) /\ (Tokens(SavedOf(c)))' = Tokens(SavedOf(c))
      /\ \A u : (OwnedBy(u))' = OwnedBy(u) /\ (Tokens(SavedFor(u)))' = Tokens(SavedFor(u))
      /\ sold' = sold /\ bought' = bought
  BY DEF tables, OwnedOf, OwnedBy, Tokens, SavedOf, SavedFor
<1>2. CountedAtMostOnce'
  BY <1>1 DEF CountInv, CountedAtMostOnce
<1>3. EventInHand' /\ SoldLater' /\ BoughtLater' /\ OwnedLater'
  BY DEF EventInHand, SoldLater, BoughtLater, OwnedLater, Handling
<1> QED
  BY <1>2, <1>3 DEF CountInv

\* createMany: room for the tokens of the event in all the tables that follow.
LEMMA SaveStep ==
    ASSUME TypeOK, CountInv, NEW e \in Events, ScanSave(e)
    PROVE  CountInv'
<1>1. /\ e \notin nft /\ nft' = nft \cup {e}
      /\ sold' = sold /\ bought' = bought /\ owned' = owned
  BY DEF ScanSave
<1>2. scan'.pc = "price" /\ scan'.event = {e}
  BY DEF ScanSave, TypeOK, Scan
<1>3. ContractOf[e] \in Contracts /\ BuyerOf[e] \in Users /\ Quantity[e] \in Nat
  BY EventsAssumption
<1>4. /\ \A c : (OwnedOf(c))' = OwnedOf(c)
      /\ \A u : (OwnedBy(u))' = OwnedBy(u)
  BY <1>1 DEF OwnedOf, OwnedBy
<1>5. ASSUME NEW S \in SUBSET nft
      PROVE  Tokens(S \cup {e}) = Quantity[e] + Tokens(S)
  <2>1. IsFiniteSet(S) /\ e \notin S /\ S \subseteq Events
    BY <1>1, EventsAssumption, FS_Subset DEF TypeOK
  <2>2. \A x \in S \cup {e} : Quantity[x] \in Int
    BY <2>1, EventsAssumption
  <2> QED
    BY <2>1, <2>2, SumAdd DEF Tokens
<1>6. \A c \in Contracts : (Tokens(SavedOf(c)))' =
                               Tokens(SavedOf(c)) + (IF c = ContractOf[e] THEN Quantity[e] ELSE 0)
  <2> SUFFICES ASSUME NEW c \in Contracts
               PROVE  (Tokens(SavedOf(c)))' =
                          Tokens(SavedOf(c)) + (IF c = ContractOf[e] THEN Quantity[e] ELSE 0)
    OBVIOUS
  <2>1. (SavedOf(c))' = IF c = ContractOf[e] THEN SavedOf(c) \cup {e} ELSE SavedOf(c)
    BY <1>1 DEF SavedOf
  <2>2. (Tokens(SavedOf(c)))' = Tokens((SavedOf(c))')
    BY DEF Tokens
  <2>3. SavedOf(c) \subseteq nft
    BY DEF SavedOf
  <2>4. Tokens(SavedOf(c)) \in Int
    BY TotalsType
  <2> QED
    BY <1>3, <1>5, <2>1, <2>2, <2>3, <2>4
<1>7. \A u \in Users : (Tokens(SavedFor(u)))' =
                           Tokens(SavedFor(u)) + (IF u = BuyerOf[e] THEN Quantity[e] ELSE 0)
  <2> SUFFICES ASSUME NEW u \in Users
               PROVE  (Tokens(SavedFor(u)))' =
                          Tokens(SavedFor(u)) + (IF u = BuyerOf[e] THEN Quantity[e] ELSE 0)
    OBVIOUS
  <2>1. (SavedFor(u))' = IF u = BuyerOf[e] THEN SavedFor(u) \cup {e} ELSE SavedFor(u)
    BY <1>1 DEF SavedFor
  <2>2. (Tokens(SavedFor(u)))' = Tokens((SavedFor(u))')
    BY DEF Tokens
  <2>3. SavedFor(u) \subseteq nft
    BY DEF SavedFor
  <2>4. Tokens(SavedFor(u)) \in Int
    BY TotalsType
  <2> QED
    BY <1>3, <1>5, <2>1, <2>2, <2>3, <2>4
<1>8. /\ \A c \in Contracts : sold[c] \in Int /\ Tokens(SavedOf(c)) \in Int
      /\ \A u \in Users : bought[u] \in Int /\ Tokens(SavedFor(u)) \in Int
  <2>1. sold \in [Contracts -> Nat] /\ bought \in [Users -> Nat]
    BY DEF TypeOK
  <2> QED
    BY <2>1, TotalsType
<1>9. /\ \A c \in Contracts : OwnedOf(c) <= sold[c] /\ sold[c] <= Tokens(SavedOf(c))
      /\ \A u \in Users : OwnedBy(u) <= bought[u] /\ bought[u] <= Tokens(SavedFor(u))
  BY DEF CountInv, CountedAtMostOnce
<1>10. /\ sold[ContractOf[e]] + Quantity[e] <= (Tokens(SavedOf(ContractOf[e])))'
       /\ bought[BuyerOf[e]] + Quantity[e] <= (Tokens(SavedFor(BuyerOf[e])))'
  <2>1. /\ (Tokens(SavedOf(ContractOf[e])))' = Tokens(SavedOf(ContractOf[e])) + Quantity[e]
        /\ (Tokens(SavedFor(BuyerOf[e])))' = Tokens(SavedFor(BuyerOf[e])) + Quantity[e]
    BY <1>3, <1>6, <1>7
  <2> QED
    BY <1>3, <1>8, <1>9, <2>1
<1>11. CountedAtMostOnce'
  <2>1. \A c \in Contracts : sold[c] <= (Tokens(SavedOf(c)))'
    BY <1>3, <1>6, <1>8, <1>9
  <2>2. \A u \in Users : bought[u] <= (Tokens(SavedFor(u)))'
    BY <1>3, <1>7, <1>8, <1>9
  <2> QED
    BY <1>1, <1>4, <1>9, <2>1, <2>2 DEF CountedAtMostOnce
<1>12. EventInHand' /\ SoldLater' /\ BoughtLater' /\ OwnedLater'
  BY <1>1, <1>2, <1>10 DEF EventInHand, SoldLater, BoughtLater, OwnedLater
<1> QED
  BY <1>11, <1>12 DEF CountInv

\* The user is looked up.
LEMMA PriceStep ==
    ASSUME TypeOK, CountInv, ScanPrice
    PROVE  CountInv'
<1>1. /\ \A c : (OwnedOf(c))' = OwnedOf(c) /\ (Tokens(SavedOf(c)))' = Tokens(SavedOf(c))
      /\ \A u : (OwnedBy(u))' = OwnedBy(u) /\ (Tokens(SavedFor(u)))' = Tokens(SavedFor(u))
      /\ nft' = nft /\ sold' = sold /\ bought' = bought
  BY DEF ScanPrice, tables, OwnedOf, OwnedBy, Tokens, SavedOf, SavedFor
<1>2. /\ scan.pc = "price" /\ scan'.pc = "count" /\ scan'.event = scan.event
      /\ scan'.user \subseteq {BuyerOf[e] : e \in scan.event}
  BY DEF ScanPrice, TypeOK, Scan
<1>3. CountedAtMostOnce'
  BY <1>1 DEF CountInv, CountedAtMostOnce
<1>4. EventInHand'
  BY <1>1, <1>2 DEF CountInv, EventInHand, Handling
<1>5. SoldLater' /\ BoughtLater' /\ OwnedLater'
  BY <1>1, <1>2 DEF CountInv, SoldLater, BoughtLater, OwnedLater
<1> QED
  BY <1>3, <1>4, <1>5 DEF CountInv

\* total_nft_sold: what the owner gets is counted as sold before.
LEMMA CountStep ==
    ASSUME TypeOK, CountInv, ScanCount
    PROVE  CountInv'
<1>1. PICK e \in nft : scan.event = {e} /\ scan.user \subseteq {BuyerOf[e]}
  BY DEF CountInv, EventInHand, ScanCount, Handling
<1>2. /\ ContractOf[e] \in Contracts /\ BuyerOf[e] \in Users /\ Quantity[e] \in Nat
      /\ sold \in [Contracts -> Nat]
  BY EventsAssumption DEF TypeOK
<1>3. /\ scan.pc = "count"
      /\ sold' = [sold EXCEPT ![ContractOf[e]] = @ + Quantity[e]]
      /\ nft' = nft /\ bought' = bought /\ owned' = owned
  BY <1>1 DEF ScanCount
<1>4. /\ \A c : (OwnedOf(c))' = OwnedOf(c) /\ (Tokens(SavedOf(c)))' = Tokens(SavedOf(c))
      /\ \A u : (OwnedBy(u))' = OwnedBy(u) /\ (Tokens(SavedFor(u)))' = Tokens(SavedFor(u))
  BY <1>3 DEF OwnedOf, OwnedBy, Tokens, SavedOf, SavedFor
<1>5. \/ scan'.pc = "event" /\ scan'.event = {}
      \/ scan'.pc = "log" /\ scan'.event = {e} /\ scan'.user = {BuyerOf[e]}
  <2>1. scan \in Scan
    BY DEF TypeOK
  <2>2. scan' = IF scan.user = {} THEN [scan EXCEPT !.pc = "event", !.event = {}]
                                  ELSE [scan EXCEPT !.pc = "log"]
    BY DEF ScanCount
  <2>3. CASE scan.user = {}
    BY <2>1, <2>2, <2>3 DEF Scan
  <2>4. CASE scan.user = {BuyerOf[e]}
    BY <1>1, <2>1, <2>2, <2>4 DEF Scan
  <2> QED
    BY <1>1, <2>3, <2>4
<1>6. /\ sold'[ContractOf[e]] = sold[ContractOf[e]] + Quantity[e]
      /\ \A c \in Contracts \ {ContractOf[e]} : sold'[c] = sold[c]
  BY <1>2, <1>3
<1>7. /\ \A c \in Contracts : OwnedOf(c) <= sold[c] /\ sold[c] <= Tokens(SavedOf(c))
      /\ \A u \in Users : OwnedBy(u) <= bought[u] /\ bought[u] <= Tokens(SavedFor(u))
      /\ sold[ContractOf[e]] + Quantity[e] <= Tokens(SavedOf(ContractOf[e]))
      /\ bought[BuyerOf[e]] + Quantity[e] <= Tokens(SavedFor(BuyerOf[e]))
  BY <1>1, <1>3 DEF CountInv, CountedAtMostOnce, SoldLater, BoughtLater
<1>8. \A c \in Contracts : OwnedOf(c) \in Int /\ Tokens(SavedOf(c)) \in Int
  BY TotalsType
<1>9. /\ OwnedOf(ContractOf[e]) + Quantity[e] <= sold'[ContractOf[e]]
      /\ OwnedOf(ContractOf[e]) <= sold'[ContractOf[e]]
      /\ sold'[ContractOf[e]] <= Tokens(SavedOf(ContractOf[e]))
  BY <1>2, <1>6, <1>7, <1>8
<1>10. \A c \in Contracts : OwnedOf(c) <= sold'[c] /\ sold'[c] <= Tokens(SavedOf(c))
  BY <1>6, <1>7, <1>9
<1>11. CountedAtMostOnce'
  BY <1>3, <1>4, <1>7, <1>10 DEF CountedAtMostOnce
<1>12. EventInHand' /\ SoldLater' /\ BoughtLater' /\ OwnedLater'
  <2>1. EventInHand'
    BY <1>3, <1>5 DEF EventInHand, Handling
  <2>2. SoldLater'
    BY <1>5 DEF SoldLater
  <2>3. BoughtLater'
    BY <1>3, <1>4, <1>5, <1>7 DEF BoughtLater
  <2>4. OwnedLater'
    BY <1>4, <1>5, <1>9 DEF OwnedLater
  <2> QED
    BY <2>1, <2>2, <2>3, <2>4
<1> QED
  BY <1>11, <1>12 DEF CountInv

\* The BUY_NFT row: written before the share of the owner.
LEMMA LogStep ==
    ASSUME TypeOK, CountInv, ScanLog
    PROVE  CountInv'
<1>1. PICK e \in nft : scan.event = {e} /\ scan.user = {BuyerOf[e]}
  BY DEF CountInv, EventInHand, ScanLog, Handling
<1>2. /\ ContractOf[e] \in Contracts /\ BuyerOf[e] \in Users /\ Quantity[e] \in Nat
      /\ bought \in [Users -> Nat]
  BY EventsAssumption DEF TypeOK
<1>3. /\ scan.pc = "log"
      /\ bought' = [bought EXCEPT ![BuyerOf[e]] = @ + Quantity[e]]
      /\ nft' = nft /\ sold' = sold /\ owned' = owned
  BY <1>1 DEF ScanLog
<1>4. /\ \A c : (OwnedOf(c))' = OwnedOf(c) /\ (Tokens(SavedOf(c)))' = Tokens(SavedOf(c))
      /\ \A u : (OwnedBy(u))' = OwnedBy(u) /\ (Tokens(SavedFor(u)))' = Tokens(SavedFor(u))
  BY <1>3 DEF OwnedOf, OwnedBy, Tokens, SavedOf, SavedFor
<1>5. scan'.pc = "own" /\ scan'.event = {e} /\ scan'.user = {BuyerOf[e]}
  BY <1>1 DEF ScanLog, TypeOK, Scan
<1>6. /\ bought'[BuyerOf[e]] = bought[BuyerOf[e]] + Quantity[e]
      /\ \A u \in Users \ {BuyerOf[e]} : bought'[u] = bought[u]
  BY <1>2, <1>3
<1>7. /\ \A c \in Contracts : OwnedOf(c) <= sold[c] /\ sold[c] <= Tokens(SavedOf(c))
      /\ \A u \in Users : OwnedBy(u) <= bought[u] /\ bought[u] <= Tokens(SavedFor(u))
      /\ bought[BuyerOf[e]] + Quantity[e] <= Tokens(SavedFor(BuyerOf[e]))
      /\ OwnedOf(ContractOf[e]) + Quantity[e] <= sold[ContractOf[e]]
  BY <1>1, <1>3 DEF CountInv, CountedAtMostOnce, BoughtLater, OwnedLater
<1>8. \A u \in Users : OwnedBy(u) \in Int /\ Tokens(SavedFor(u)) \in Int
  BY TotalsType
<1>9. /\ OwnedBy(BuyerOf[e]) + Quantity[e] <= bought'[BuyerOf[e]]
      /\ OwnedBy(BuyerOf[e]) <= bought'[BuyerOf[e]]
      /\ bought'[BuyerOf[e]] <= Tokens(SavedFor(BuyerOf[e]))
  BY <1>2, <1>6, <1>7, <1>8
<1>10. \A u \in Users : OwnedBy(u) <= bought'[u] /\ bought'[u] <= Tokens(SavedFor(u))
  BY <1>6, <1>7, <1>9
<1>11. CountedAtMostOnce'
  BY <1>3, <1>4, <1>7, <1>10 DEF CountedAtMostOnce
<1>12. EventInHand' /\ SoldLater' /\ BoughtLater' /\ OwnedLater'
  <2>1. EventInHand'
    BY <1>3, <1>5 DEF EventInHand, Handling
  <2>2. SoldLater' /\ BoughtLater'
    BY <1>5 DEF SoldLater, BoughtLater
  <2>3. OwnedLater'
    BY <1>3, <1>4, <1>5, <1>7, <1>9 DEF OwnedLater
  <2> QED
    BY <2>1, <2>2, <2>3
<1> QED
  BY <1>11, <1>12 DEF CountInv

\* updateProjectNftOwner: one entry of the two totals of the owners grows.
LEMMA OwnStep ==
    ASSUME TypeOK, CountInv, ScanOwn
    PROVE  CountInv'
<1>1. PICK e \in nft : scan.event = {e} /\ scan.user = {BuyerOf[e]}
  BY DEF CountInv, EventInHand, ScanOwn, Handling
<1> DEFINE k == ContractOf[e]
           b == BuyerOf[e]
<1>2. /\ k \in Contracts /\ b \in Users /\ Quantity[e] \in Nat
      /\ owned \in [Contracts -> [Users -> Nat]]
  BY EventsAssumption DEF TypeOK
<1>3. /\ scan.pc = "own"
      /\ owned' = [owned EXCEPT ![k][b] = @ + Quantity[e]]
      /\ nft' = nft /\ sold' = sold /\ bought' = bought
  BY <1>1 DEF ScanOwn
<1>4. /\ \A c : (Tokens(SavedOf(c)))' = Tokens(SavedOf(c))
      /\ \A u : (Tokens(SavedFor(u)))' = Tokens(SavedFor(u))
  BY <1>3 DEF Tokens, SavedOf, SavedFor
<1>5. scan'.pc = "notify" /\ scan'.event = {e} /\ scan'.user = {b}
  BY <1>1 DEF ScanOwn, TypeOK, Scan
<1> HIDE DEF k, b
<1>6. /\ owned' \in [Contracts -> [Users -> Nat]]
      /\ owned'[k][b] = owned[k][b] + Quantity[e]
      /\ \A c \in Contracts, u \in Users : c # k \/ u # b => owned'[c][u] = owned[c][u]
  BY <1>2, <1>3
<1>7. /\ (OwnedOf(k))' = OwnedOf(k) + Quantity[e]
      /\ \A c \in Contracts \ {k} : (OwnedOf(c))' = OwnedOf(c)
  <2> DEFINE old == owned[k]
             new == owned'[k]
  <2>1. /\ \A u \in Users : old[u] \in Int
        /\ new[b] = old[b] + Quantity[e]
        /\ \A u \in Users \ {b} : new[u] = old[u]
    BY <1>2, <1>6
  <2>2. \A c \in Contracts \ {k} : owned'[c] = owned[c]
    BY <1>2, <1>3
  <2>3. (OwnedOf(k))' = SumFunctionOnSet(new, Users) /\ OwnedOf(k) = SumFunctionOnSet(old, Users)
    BY DEF OwnedOf, k
  <2> HIDE DEF old, new
  <2>4. new[b] \in Int /\ new[b] - old[b] = Quantity[e] /\ b \in Users
    BY <1>2, <2>1
  <2>5. SumFunctionOnSet(new, Users) = SumFunctionOnSet(old, Users) + (new[b] - old[b])
    BY <2>1, <2>4, EventsAssumption, SumChange
  <2> QED
    BY <2>2, <2>3, <2>4, <2>5 DEF OwnedOf
<1>8. /\ (OwnedBy(b))' = OwnedBy(b) + Quantity[e]
      /\ \A u \in Users \ {b} : (OwnedBy(u))' = OwnedBy(u)
  <2> DEFINE old == [c \in Contracts |-> owned[c][b]]
             new == [c \in Contracts |-> owned'[c][b]]
  <2>1. /\ \A c \in Contracts : old[c] \in Int
        /\ new[k] = old[k] + Quantity[e]
        /\ \A c \in Contracts \ {k} : new[c] = old[c]
    BY <1>2, <1>6
  <2>2. ASSUME NEW u \in Users \ {b}
        PROVE  [c \in Contracts |-> owned'[c][u]] = [c \in Contracts |-> owned[c][u]]
    BY <1>6
  <2>3. (OwnedBy(b))' = SumFunctionOnSet(new, Contracts)
    BY DEF OwnedBy, b
  <2>4. OwnedBy(b) = SumFunctionOnSet(old, Contracts)
    BY DEF OwnedBy
  <2> HIDE DEF old, new
  <2>5. new[k] \in Int /\ new[k] - old[k] = Quantity[e] /\ k \in Contracts
    BY <1>2, <2>1
  <2>6. SumFunctionOnSet(new, Contracts) = SumFunctionOnSet(old, Contracts) + (new[k] - old[k])
    BY <2>1, <2>5, EventsAssumption, SumChange
  <2> QED
    BY <2>2, <2>3, <2>4, <2>5, <2>6 DEF OwnedBy
<1>9. /\ \A c \in Contracts : OwnedOf(c) <= sold[c] /\ sold[c] <= Tokens(SavedOf(c))
      /\ \A u \in Users : OwnedBy(u) <= bought[u] /\ bought[u] <= Tokens(SavedFor(u))
      /\ OwnedOf(k) + Quantity[e] <= sold[k]
      /\ OwnedBy(b) + Quantity[e] <= bought[b]
  BY <1>1, <1>3 DEF CountInv, CountedAtMostOnce, OwnedLater, k, b
<1>10. \A c \in Contracts : (OwnedOf(c))' <= sold[c]
  BY <1>7, <1>9
<1>11. \A u \in Users : (OwnedBy(u))' <= bought[u]
  BY <1>8, <1>9
<1>12. CountedAtMostOnce'
  BY <1>3, <1>4, <1>9, <1>10, <1>11 DEF CountedAtMostOnce
<1>13. EventInHand' /\ SoldLater' /\ BoughtLater' /\ OwnedLater'
  BY <1>3, <1>5 DEF EventInHand, SoldLater, BoughtLater, OwnedLater, Handling, b
<1> QED
  BY <1>12, <1>13 DEF CountInv

\* The purchases are counted at most once by the tables, whatever scans fail and however
\* often the same blocks are read again: what has been bought is in the nft table before
\* it is counted (listenerEventNft), and the tokens in that table are never handled again.
THEOREM CountedOnce == Spec => []CountedAtMostOnce
<1>1. Init => CountInv
  <2> SUFFICES ASSUME Init PROVE CountInv
    OBVIOUS
  <2>1. scan.pc = "idle" /\ scan.event = {}
    BY DEF Init, IdleScan
  <2>2. /\ \A c \in Contracts : OwnedOf(c) = 0
        /\ \A u \in Users : OwnedBy(u) = 0
    <3>1. ASSUME NEW c \in Contracts PROVE OwnedOf(c) = 0
      <4> DEFINE row == owned[c]
      <4>1. \A u \in Users : row[u] = 0
        BY DEF Init
      <4> HIDE DEF row
      <4>2. SumFunctionOnSet(row, Users) = Cardinality(Users) * 0
        BY <4>1, SumOfConstant, EventsAssumption
      <4>3. Cardinality(Users) \in Nat
        BY EventsAssumption, FS_CardinalityType
      <4>4. SumFunctionOnSet(row, Users) = 0
        BY <4>2, <4>3
      <4> QED
        BY <4>4 DEF OwnedOf, row
    <3>2. ASSUME NEW u \in Users PROVE OwnedBy(u) = 0
      <4> DEFINE row == [c \in Contracts |-> owned[c][u]]
      <4>1. \A c \in Contracts : row[c] = 0
        BY DEF Init
      <4> HIDE DEF row
      <4>2. SumFunctionOnSet(row, Contracts) = Cardinality(Contracts) * 0
        BY <4>1, SumOfConstant, EventsAssumption
      <4>3. Cardinality(Contracts) \in Nat
        BY EventsAssumption, FS_CardinalityType
      <4>4. SumFunctionOnSet(row, Contracts) = 0
        BY <4>2, <4>3
      <4> QED
        BY <4>4 DEF OwnedBy, row
    <3> QED
      BY <3>1, <3>2
  <2>3. \A c, u : SavedOf(c) = {} /\ SavedFor(u) = {}
    BY DEF Init, SavedOf, SavedFor
  <2>4. \A c, u : Tokens(SavedOf(c)) = 0 /\ Tokens(SavedFor(u)) = 0
    BY <2>3, SumEmpty DEF Tokens
  <2>5. /\ \A c \in Contracts : sold[c] = 0
        /\ \A u \in Users : bought[u] = 0
    BY DEF Init
  <2>6. CountedAtMostOnce
    BY <2>2, <2>4, <2>5 DEF CountedAtMostOnce
  <2> QED
    BY <2>1, <2>6 DEF CountInv, EventInHand, SoldLater, BoughtLater, OwnedLater, Handling
<1>2. TypeOK /\ CountInv /\ [Next]_vars => CountInv'
  <2> SUFFICES ASSUME TypeOK, CountInv, [Next]_vars PROVE CountInv'
    OBVIOUS
  <2>1. ASSUME UNCHANGED tables, scan' = scan PROVE CountInv'
    <3>1. /\ \A c : (OwnedOf(c))' = OwnedOf(c) /\ (Tokens(SavedOf(c)))' = Tokens(SavedOf(c))
          /\ \A u : (OwnedBy(u))' = OwnedBy(u) /\ (Tokens(SavedFor(u)))' = Tokens(SavedFor(u))
          /\ nft' = nft /\ sold' = sold /\ bought' = bought
      BY <2>1 DEF tables, OwnedOf, OwnedBy, Tokens, SavedOf, SavedFor
    <3> QED
      BY <2>1, <3>1
      DEF CountInv, CountedAtMostOnce, EventInHand, SoldLater, BoughtLater, OwnedLater
  <2>2. IdleScan.pc = "idle" /\ "idle" \notin Handling
    BY DEF IdleScan, Handling
  <2>3. CASE UNCHANGED vars
    BY <2>1, <2>3 DEF vars, tables, memory
  <2>4. CASE \/ Mine
             \/ \E c \in Contracts :
                 \/ SetProjectContract(c) \/ SetContractType(c)
                 \/ \E type \in {"none", "NFT"} : UploadProject(c, type)
             \/ \E u \in Users : LinkWallet(u)
             \/ CacheExpires
    BY <2>1, <2>4
    DEF Mine, SetProjectContract, SetContractType, UploadProject, LinkWallet, CacheExpires,
        memory
  <2>5. CASE \/ ScanTick \/ ScanHead \/ ScanContracts \/ ScanFilter
             \/ \E e \in Events : ScanKnown(e)
             \/ ScanNotify \/ ScanNextContract \/ ScanDone \/ ScanNoProject
             \/ ScanFail \/ Restart
    <3>1. UNCHANGED tables
      BY <2>5
      DEF ScanTick, ScanHead, ScanContracts, ScanFilter, ScanKnown, ScanNotify,
          ScanNextContract, ScanDone, ScanNoProject, ScanFail, Restart
    <3>2. scan'.pc \in {"idle", "head", "contracts", "filter", "event"}
      <4>0. scan \in Scan
        BY DEF TypeOK
      <4>1. CASE ScanTick \/ ScanHead \/ ScanDone \/ ScanNoProject \/ ScanFail \/ Restart
        BY <4>1, <2>2
        DEF ScanTick, ScanHead, ScanDone, ScanNoProject, ScanFail, Restart, IdleScan
      <4>2. CASE ScanContracts
        BY <4>0, <4>2 DEF ScanContracts, Scan
      <4>3. CASE ScanFilter
        BY <4>0, <4>3 DEF ScanFilter, Scan
      <4>4. CASE \E e \in Events : ScanKnown(e)
        BY <4>0, <4>4 DEF ScanKnown, NextEvent, Scan
      <4>5. CASE ScanNotify \/ ScanNextContract
        BY <4>0, <4>5 DEF ScanNotify, ScanNextContract, Scan
      <4> QED
        BY <2>5, <4>1, <4>2, <4>3, <4>4, <4>5
    <3> QED
      BY <3>1, <3>2, QuietStep DEF Handling
  <2> QED
    BY <2>3, <2>4, <2>5, SaveStep, PriceStep, CountStep, LogStep, OwnStep DEF Next, ScanStep
<1>3. CountInv => CountedAtMostOnce
  BY DEF CountInv
<1> QED
  BY <1>1, <1>2, <1>3, LockReleased, PTL DEF Spec

-----------------------------------------------------------------------------
(* TxWatcher *)

USE TxAssumption

\* What a run keeps of an answer has the type of a run's record.
LEMMA AnswerType ==
    ASSUME TxTypeOK, NEW r \in Runs, NEW t \in Txs, NEW result \in Recorded,
           NEW goesOn \in BOOLEAN, NEW caught \in BOOLEAN,
           Answer(r, t, result, goesOn, caught)
    PROVE  run' \in [Runs -> Run]
<1>1. [pc |-> "record", list |-> run[r].list \ {t}, tx |-> {t}, result |-> result,
       goesOn |-> goesOn, caught |-> caught] \in Run
  BY DEF TxTypeOK, Run
<1> QED  BY <1>1 DEF Answer, TxTypeOK

\* Everything keeps its type, in any interleaving of runs, answers and losses
\* (TasksService.listenerTransactionBlockchain).
THEOREM TxTypeCorrect == TxSpec => []TxTypeOK
<1>1. TxInit => TxTypeOK
  BY DEF TxInit, TxTypeOK, IdleRun, Run, Recorded, Status, Open, Final, NoRow
<1>2. TxTypeOK /\ [TxNext]_txVars => TxTypeOK'
  <2> SUFFICES ASSUME TxTypeOK, [TxNext]_txVars PROVE TxTypeOK'
    OBVIOUS
  <2>1. ASSUME NEW t \in Txs, AddTransaction(t) PROVE TxTypeOK'
    BY <2>1 DEF AddTransaction, TxTypeOK, Status, Open
  <2>2. ASSUME NEW t \in Txs, MineTransaction(t) PROVE TxTypeOK'
    BY <2>2 DEF MineTransaction, TxTypeOK
  <2>3. ASSUME NEW t \in Txs, Confirm(t) PROVE TxTypeOK'
    BY <2>3 DEF Confirm, TxTypeOK
  <2>4. ASSUME NEW t \in Txs, Reorganise(t) PROVE TxTypeOK'
    BY <2>4 DEF Reorganise, TxTypeOK
  <2>5. ASSUME NEW r \in Runs, ListOpen(r) PROVE TxTypeOK'
    <3>1. [IdleRun EXCEPT !.pc = "listed", !.list = OpenRows] \in Run
      BY DEF IdleRun, Run, OpenRows, Recorded, Status, Open, Final, NoRow
    <3> QED  BY <2>5, <3>1 DEF ListOpen, TxTypeOK
  <2>6. ASSUME NEW r \in Runs, MarkProcessing(r) PROVE TxTypeOK'
    <3>1. IdleRun \in Run /\ [run[r] EXCEPT !.pc = "loop"] \in Run
      BY DEF TxTypeOK, IdleRun, Run, Recorded, Status, Open, Final, NoRow
    <3>2. status' \in [Txs -> Status]
      BY <2>6 DEF MarkProcessing, TxTypeOK, Status
    <3> QED  BY <2>6, <3>1, <3>2 DEF MarkProcessing, TxTypeOK
  <2>7. ASSUME NEW r \in Runs, NEW t \in Txs,
               Receipt(r, t) \/ NodeUnavailable(r, t) \/ NodeError(r, t)
        PROVE  TxTypeOK'
    <3>1. UNCHANGED <<status, chain, conf, published, crashes>>
      BY <2>7 DEF Receipt, NodeUnavailable, NodeError
    <3>2. {"PENDING", "FAILED", "SUCCEED", "CONFIRMING"} \subseteq Recorded
      BY DEF Recorded, Status, Open, Final, NoRow
    <3>3. \E result \in Recorded, goesOn, caught \in BOOLEAN :
             Answer(r, t, result, goesOn, caught)
      <4>1. CASE NodeUnavailable(r, t)  BY <4>1, <3>2 DEF NodeUnavailable
      <4>2. CASE NodeError(r, t)  BY <4>2, <3>2 DEF NodeError
      <4>3. CASE Receipt(r, t)
        <5>1. chain[t] \in {"pending", "executed", "reverted"}
          BY DEF TxTypeOK
        <5> QED  BY <4>3, <5>1, <3>2 DEF Receipt
      <4> QED  BY <2>7, <4>1, <4>2, <4>3
    <3>4. run' \in [Runs -> Run]
      BY <3>3, AnswerType
    <3> QED  BY <3>1, <3>4 DEF TxTypeOK
  <2>8. ASSUME NEW r \in Runs, Record(r) PROVE TxTypeOK'
    <3>1. run[r] \in Run /\ run[r].result \in Status /\ run[r].tx \subseteq Txs
      BY DEF TxTypeOK, Run, Recorded
    <3>2. status' \in [Txs -> Status] /\ published' \in [Txs -> Status]
      BY <2>8, <3>1 DEF Record, TxTypeOK
    <3>3. IdleRun \in Run /\ [IdleRun EXCEPT !.pc = "loop", !.list = run[r].list] \in Run
      BY <3>1 DEF IdleRun, Run, Recorded, Status, Open, Final, NoRow
    <3> QED  BY <2>8, <3>2, <3>3 DEF Record, TxTypeOK
  <2>9. ASSUME NEW r \in Runs, RecordThrows(r) PROVE TxTypeOK'
    <3>1. [run[r] EXCEPT !.result = "FAILED", !.goesOn = TRUE, !.caught = TRUE] \in Run
      BY DEF TxTypeOK, Run, Recorded, Status, Open, Final, NoRow
    <3> QED  BY <2>9, <3>1 DEF RecordThrows, TxTypeOK
  <2>10. ASSUME NEW r \in Runs, Crash(r) PROVE TxTypeOK'
    <3>1. IdleRun \in Run
      BY DEF IdleRun, Run, Recorded, Status, Open, Final, NoRow
    <3> QED  BY <2>10, <3>1 DEF Crash, TxTypeOK
  <2>11. CASE UNCHANGED txVars  BY <2>11 DEF txVars, TxTypeOK
  <2> QED  BY <2>1, <2>2, <2>3, <2>4, <2>5, <2>6, <2>7, <2>8, <2>9, <2>10, <2>11
           DEF TxNext, RunStep
<1> QED  BY <1>1, <1>2, PTL DEF TxSpec

-----------------------------------------------------------------------------
\* What a run does to its record while no row changes: it keeps its answers true
\* if the answer it begins to record, if any, is true.
LEMMA RunKeepsTruth ==
    ASSUME TxTypeOK, SucceedTruthful, AnswersTrue, NEW r \in Runs, NEW new,
           run' = [run EXCEPT ![r] = new], UNCHANGED <<chain, conf>>,
           new.pc = "record" /\ new.result = "SUCCEED" =>
               \A t \in new.tx : chain[t] = "executed" /\ conf[t] >= Required
    PROVE  AnswersTrue'
BY DEF AnswersTrue, TxTypeOK

\* SUCCEED is the truth: a row, or what subscribers were told, says it only of a
\* transaction that was executed and has the confirmations, however many runs
\* record answers of different age.
THEOREM SucceedIsTrue == TxSpec => []SucceedTruthful
<1> DEFINE Inv == SucceedTruthful /\ AnswersTrue
<1>1. TxInit => Inv
  BY DEF TxInit, SucceedTruthful, AnswersTrue, IdleRun, NoRow
<1>2. Inv /\ TxTypeOK /\ [TxNext]_txVars => Inv'
  <2> SUFFICES ASSUME SucceedTruthful, AnswersTrue, TxTypeOK, [TxNext]_txVars
               PROVE  SucceedTruthful' /\ AnswersTrue'
    OBVIOUS
  <2>1. ASSUME NEW t \in Txs, AddTransaction(t) PROVE Inv'
    BY <2>1 DEF AddTransaction, TxTypeOK, SucceedTruthful, AnswersTrue
  <2>2. ASSUME NEW t \in Txs, MineTransaction(t) PROVE Inv'
    <3>1. \A s \in Txs : chain[s] = "executed" => chain'[s] = chain[s] /\ conf'[s] = conf[s]
      BY <2>2 DEF MineTransaction, TxTypeOK
    <3> QED  BY <2>2, <3>1 DEF MineTransaction, TxTypeOK, SucceedTruthful, AnswersTrue, Run
  <2>3. ASSUME NEW t \in Txs, Confirm(t) PROVE Inv'
    <3>1. \A s \in Txs : /\ chain'[s] = chain[s]
                        /\ conf'[s] >= conf[s] /\ conf'[s] \in Nat /\ conf[s] \in Nat
      BY <2>3 DEF Confirm, TxTypeOK
    <3> QED  BY <2>3, <3>1 DEF Confirm, TxTypeOK, SucceedTruthful, AnswersTrue, Run
  <2>4. ASSUME NEW t \in Txs, Reorganise(t) PROVE Inv'
    <3>1. \A s \in Txs : conf[s] >= Required => chain'[s] = chain[s] /\ conf'[s] = conf[s]
      BY <2>4 DEF Reorganise, TxTypeOK
    <3> QED  BY <2>4, <3>1 DEF Reorganise, TxTypeOK, SucceedTruthful, AnswersTrue, Run
  <2>5. ASSUME NEW r \in Runs, ListOpen(r) PROVE Inv'
    <3>1. AnswersTrue'
      BY <2>5, RunKeepsTruth DEF ListOpen, IdleRun
    <3> QED  BY <2>5, <3>1 DEF ListOpen, SucceedTruthful
  <2>6. ASSUME NEW r \in Runs, MarkProcessing(r) PROVE Inv'
    <3>1. AnswersTrue'
      BY <2>6, RunKeepsTruth DEF MarkProcessing, IdleRun, TxTypeOK, Run
    <3> QED  BY <2>6, <3>1 DEF MarkProcessing, SucceedTruthful, TxTypeOK
  <2>7. ASSUME NEW r \in Runs, NEW t \in Txs, NodeUnavailable(r, t) \/ NodeError(r, t)
        PROVE  Inv'
    <3>1. AnswersTrue'
      BY <2>7, RunKeepsTruth DEF NodeUnavailable, NodeError, Answer
    <3> QED  BY <2>7, <3>1 DEF NodeUnavailable, NodeError, SucceedTruthful
  <2>8. ASSUME NEW r \in Runs, NEW t \in Txs, Receipt(r, t) PROVE Inv'
    <3> DEFINE True(result) == result = "SUCCEED" => chain[t] = "executed" /\ conf[t] >= Required
    <3>1. PICK result \in Recorded, goesOn \in BOOLEAN, caught \in BOOLEAN :
             Answer(r, t, result, goesOn, caught) /\ True(result)
      <4>1. chain[t] \in {"pending", "executed", "reverted"}
        BY DEF TxTypeOK
      <4>2. {"PENDING", "FAILED", "SUCCEED", "CONFIRMING"} \subseteq Recorded
        BY DEF Recorded, Status, Open, Final, NoRow
      <4>3. CASE chain[t] = "executed" /\ Confirmed(t)
        <5>1. True("SUCCEED")
          BY <4>3 DEF Confirmed
        <5>2. Answer(r, t, "SUCCEED", TRUE, FALSE)
          BY <2>8, <4>3 DEF Receipt
        <5> HIDE DEF True
        <5> QED  BY <5>1, <5>2, <4>2
      <4>4. CASE ~(chain[t] = "executed" /\ Confirmed(t))
        <5>1. Answer(r, t, "PENDING", FALSE, FALSE) \/ Answer(r, t, "FAILED", FALSE, FALSE)
              \/ Answer(r, t, "CONFIRMING", FALSE, FALSE)
          BY <2>8, <4>1, <4>4 DEF Receipt
        <5>2. True("PENDING") /\ True("FAILED") /\ True("CONFIRMING")
          OBVIOUS
        <5> HIDE DEF True
        <5> QED  BY <5>1, <5>2, <4>2
      <4> QED  BY <4>3, <4>4
    <3>2. AnswersTrue'
      BY <2>8, <3>1, RunKeepsTruth DEF Receipt, Answer
    <3> QED  BY <2>8, <3>2 DEF Receipt, SucceedTruthful
  <2>9. ASSUME NEW r \in Runs, Record(r) PROVE Inv'
    <3>1. AnswersTrue'
      <4> DEFINE new == IF run[r].goesOn /\ run[r].list # {}
                        THEN [IdleRun EXCEPT !.pc = "loop", !.list = run[r].list] ELSE IdleRun
      <4>1. new.pc # "record"
        BY DEF IdleRun
      <4>2. run' = [run EXCEPT ![r] = new] /\ UNCHANGED <<chain, conf>>
        BY <2>9 DEF Record
      <4> HIDE DEF new
      <4> QED  BY <4>1, <4>2, RunKeepsTruth
    <3>2. SucceedTruthful'
      <4>1. PICK t \in run[r].tx :
               /\ status' = [status EXCEPT ![t] = run[r].result]
               /\ published' = IF run[r].result = "PENDING" THEN published
                               ELSE [published EXCEPT ![t] = run[r].result]
        BY <2>9 DEF Record
      <4>2. run[r].result = "SUCCEED" => chain[t] = "executed" /\ conf[t] >= Required
        BY <2>9 DEF Record, AnswersTrue
      <4>3. t \in Txs
        BY DEF TxTypeOK, Run
      <4> QED  BY <2>9, <4>1, <4>2, <4>3 DEF Record, SucceedTruthful, TxTypeOK
    <3> QED  BY <3>1, <3>2
  <2>10. ASSUME NEW r \in Runs, RecordThrows(r) PROVE Inv'
    <3>1. AnswersTrue'
      <4>1. [run[r] EXCEPT !.result = "FAILED", !.goesOn = TRUE, !.caught = TRUE].result = "FAILED"
        BY DEF TxTypeOK, Run
      <4> QED  BY <2>10, <4>1, RunKeepsTruth DEF RecordThrows
    <3> QED  BY <2>10, <3>1 DEF RecordThrows, SucceedTruthful
  <2>11. ASSUME NEW r \in Runs, Crash(r) PROVE Inv'
    <3>1. AnswersTrue'
      BY <2>11, RunKeepsTruth DEF Crash, IdleRun
    <3> QED  BY <2>11, <3>1 DEF Crash, SucceedTruthful
  <2>12. CASE UNCHANGED txVars
    BY <2>12 DEF txVars, SucceedTruthful, AnswersTrue
  <2> QED  BY <2>1, <2>2, <2>3, <2>4, <2>5, <2>6, <2>7, <2>8, <2>9, <2>10, <2>11, <2>12
           DEF TxNext, RunStep
<1>3. Inv => SucceedTruthful
  OBVIOUS
<1> QED  BY <1>1, <1>2, <1>3, TxTypeCorrect, PTL DEF TxSpec
-----------------------------------------------------------------------------
\* A run that records has one transaction in hand.
OneInHand == \A r \in Runs : run[r].pc = "record" => \E t \in Txs : run[r].tx = {t}

\* Only the steps of runs change them.
LEMMA RunSteps ==
    ASSUME [TxNext]_txVars
    PROVE  UNCHANGED run \/ \E r \in Runs : RunStep(r)
BY DEF TxNext, AddTransaction, MineTransaction, Confirm, Reorganise, txVars

\* An answer of the node puts the transaction in the run's hand, off its list.
LEMMA AnswerInHand ==
    ASSUME TxTypeOK, NEW r \in Runs, NEW t \in Txs,
           Receipt(r, t) \/ NodeUnavailable(r, t) \/ NodeError(r, t)
    PROVE  /\ t \in run[r].list
           /\ run'[r].tx = {t} /\ run'[r].list = run[r].list \ {t}
           /\ \A q \in Runs \ {r} : run'[q] = run[q]
<1>1. ASSUME NEW result, NEW goesOn, NEW caught, Answer(r, t, result, goesOn, caught)
      PROVE  /\ run'[r].tx = {t} /\ run'[r].list = run[r].list \ {t}
             /\ \A q \in Runs \ {r} : run'[q] = run[q]
  BY <1>1 DEF Answer, TxTypeOK
<1>2. chain[t] \in {"pending", "executed", "reverted"}
  BY DEF TxTypeOK
<1>3. CASE Receipt(r, t)
  <2>1. t \in run[r].list
    BY <1>3 DEF Receipt
  <2>2. \/ Answer(r, t, "PENDING", FALSE, FALSE)
        \/ Answer(r, t, "FAILED", FALSE, FALSE)
        \/ Answer(r, t, "SUCCEED", TRUE, FALSE)
        \/ Answer(r, t, "CONFIRMING", FALSE, FALSE)
    BY <1>2, <1>3 DEF Receipt
  <2> QED  BY <1>1, <2>1, <2>2
<1>4. CASE NodeUnavailable(r, t)
  BY <1>1, <1>4 DEF NodeUnavailable
<1>5. CASE NodeError(r, t)
  BY <1>1, <1>5 DEF NodeError
<1> QED  BY <1>3, <1>4, <1>5

\* It has, through answers, errors and restarts.
LEMMA OneInHandStep ==
    ASSUME TxTypeOK, OneInHand, [TxNext]_txVars
    PROVE  OneInHand'
<1>0. \A r \in Runs : run[r] \in Run
  BY DEF TxTypeOK
<1>1. ASSUME NEW r \in Runs, NEW t \in Txs,
             Receipt(r, t) \/ NodeUnavailable(r, t) \/ NodeError(r, t)
      PROVE  OneInHand'
  <2>1. run'[r].tx = {t} /\ \A q \in Runs \ {r} : run'[q] = run[q]
    BY <1>1, AnswerInHand
  <2> QED  BY <2>1 DEF OneInHand
<1>2. ASSUME NEW r \in Runs,
             ListOpen(r) \/ MarkProcessing(r) \/ Record(r) \/ Crash(r)
      PROVE  OneInHand'
  <2>1. ASSUME NEW new, new.pc # "record", run' = [run EXCEPT ![r] = new]
        PROVE  OneInHand'
    BY <2>1 DEF OneInHand, TxTypeOK
  <2>2. CASE ListOpen(r)
    BY <2>1, <2>2 DEF ListOpen, IdleRun
  <2>3. CASE MarkProcessing(r)
    <3>1. [run[r] EXCEPT !.pc = "loop"].pc = "loop"
      BY DEF TxTypeOK, Run
    <3> QED  BY <2>1, <2>3, <3>1 DEF MarkProcessing, IdleRun
  <2>4. CASE Record(r)
    <3> DEFINE more == [IdleRun EXCEPT !.pc = "loop", !.list = run[r].list]
    <3>1. more.pc = "loop"
      BY DEF IdleRun
    <3>2. \/ run' = [run EXCEPT ![r] = more]
          \/ run' = [run EXCEPT ![r] = IdleRun]
      BY <2>4 DEF Record
    <3> HIDE DEF more
    <3> QED  BY <2>1, <3>1, <3>2 DEF IdleRun
  <2>5. CASE Crash(r)
    BY <2>1, <2>5 DEF Crash, IdleRun
  <2> QED  BY <1>2, <2>2, <2>3, <2>4, <2>5
<1>3. ASSUME NEW r \in Runs, RecordThrows(r) PROVE OneInHand'
  <2>1. run'[r].tx = run[r].tx /\ \A q \in Runs \ {r} : run'[q] = run[q]
    BY <1>0, <1>3 DEF RecordThrows, TxTypeOK, Run
  <2> QED  BY <1>3, <2>1 DEF OneInHand, RecordThrows
<1>4. CASE UNCHANGED run
  BY <1>4 DEF OneInHand
<1>5. ASSUME NEW r \in Runs, RunStep(r) PROVE OneInHand'
  BY <1>1, <1>2, <1>3, <1>5 DEF RunStep
<1> QED  BY <1>4, <1>5, RunSteps

\* What a step that is not the recording of an answer does to the rows: new rows,
\* and open ones that are marked.
LEMMA RowsMarked ==
    ASSUME TxTypeOK, [TxNext]_txVars, \A r \in Runs : ~Record(r), NEW t \in Txs,
           status[t] \in Final \cup {"PROCESSING"}
    PROVE  status'[t] = status[t]
<1>1. ASSUME NEW s \in Txs, AddTransaction(s) PROVE status'[t] = status[t]
  BY <1>1 DEF AddTransaction, TxTypeOK, Final, NoRow
<1>2. ASSUME NEW r \in Runs, MarkProcessing(r) PROVE status'[t] = status[t]
  BY <1>2 DEF MarkProcessing, OpenRows, Open, Final
<1> QED  BY <1>1, <1>2
         DEF TxNext, RunStep, MineTransaction, Confirm, Reorganise, ListOpen, Receipt, NodeUnavailable,
             NodeError, RecordThrows, Crash, txVars

\* Nobody takes up a row that is PROCESSING and that no run has in hand.
LEMMA StrandedStep ==
    ASSUME TxTypeOK, [TxNext]_txVars, NEW t \in Txs, Stranded(t)
    PROVE  Stranded(t)'
<1>0. status[t] = "PROCESSING" /\ \A r \in Runs : t \notin run[r].list \cup run[r].tx
  BY DEF Stranded, Attended
<1>1. ASSUME NEW r \in Runs, NEW new, run' = [run EXCEPT ![r] = new],
             t \notin new.list \cup new.tx
      PROVE  ~Attended(t)'
  BY <1>0, <1>1 DEF Attended, TxTypeOK
<1>2. ASSUME NEW r \in Runs, Record(r) PROVE Stranded(t)'
  <2>1. status'[t] = status[t]
    BY <1>0, <1>2 DEF Record, TxTypeOK
  <2>2. ~Attended(t)'
    BY <1>0, <1>1, <1>2 DEF Record, IdleRun
  <2> QED  BY <1>0, <2>1, <2>2 DEF Stranded
<1>3. ASSUME \A r \in Runs : ~Record(r) PROVE Stranded(t)'
  <2>1. status'[t] = status[t]
    BY <1>0, <1>3, RowsMarked
  <2>2. ASSUME NEW r \in Runs, ListOpen(r) PROVE ~Attended(t)'
    BY <1>0, <1>1, <2>2 DEF ListOpen, IdleRun, OpenRows, Open
  <2>3. ASSUME NEW r \in Runs, MarkProcessing(r) PROVE ~Attended(t)'
    <3>1. [run[r] EXCEPT !.pc = "loop"].list = run[r].list
          /\ [run[r] EXCEPT !.pc = "loop"].tx = run[r].tx
      BY DEF TxTypeOK, Run
    <3> QED  BY <1>0, <1>1, <2>3, <3>1 DEF MarkProcessing, IdleRun
  <2>4. ASSUME NEW r \in Runs, NEW s \in Txs,
               Receipt(r, s) \/ NodeUnavailable(r, s) \/ NodeError(r, s)
        PROVE  ~Attended(t)'
    BY <1>0, <2>4, AnswerInHand DEF Attended
  <2>5. ASSUME NEW r \in Runs, RecordThrows(r) \/ Crash(r) PROVE ~Attended(t)'
    <3>1. CASE Crash(r)  BY <1>1, <3>1 DEF Crash, IdleRun
    <3>2. CASE RecordThrows(r)
      <4> DEFINE new == [run[r] EXCEPT !.result = "FAILED", !.goesOn = TRUE, !.caught = TRUE]
      <4>1. new.list = run[r].list /\ new.tx = run[r].tx
        BY DEF TxTypeOK, Run
      <4>2. run' = [run EXCEPT ![r] = new]
        BY <3>2 DEF RecordThrows
      <4> HIDE DEF new
      <4> QED  BY <1>0, <1>1, <4>1, <4>2
    <3> QED  BY <2>5, <3>1, <3>2
  <2>6. ASSUME UNCHANGED run PROVE ~Attended(t)'
    BY <1>0, <2>6 DEF Attended
  <2>7. ASSUME NEW r \in Runs, RunStep(r) PROVE ~Attended(t)'
    BY <1>3, <2>2, <2>3, <2>4, <2>5, <2>7 DEF RunStep
  <2> QED  BY <1>0, <2>1, <2>6, <2>7, RunSteps DEF Stranded
<1> QED  BY <1>2, <1>3

\* Rows change by runs that have them in hand only: one left PROCESSING stays so, and
\* a settled one is changed, if at all, by a late answer, never reopened by a marking
\* (the two statements of listenerTransactionBlockchain and its early returns).
THEOREM RowsSettle == TxSpec => StatusSettles
<1>1. TxInit => OneInHand
  BY DEF TxInit, OneInHand, IdleRun
<1>2. TxTypeOK /\ OneInHand /\ [TxNext]_txVars => OneInHand'
  BY OneInHandStep
<1>3. TxTypeOK /\ OneInHand /\ [TxNext]_txVars =>
        [\A t \in Txs :
            /\ Stranded(t) => Stranded(t)'
            /\ status[t] \in Final /\ status'[t] # status[t] =>
                   status'[t] # "PROCESSING" /\ \E r \in Runs : run[r].tx = {t}]_txVars
  <2> SUFFICES ASSUME TxTypeOK, OneInHand, [TxNext]_txVars, NEW t \in Txs,
                      status[t] \in Final, status'[t] # status[t]
               PROVE  status'[t] # "PROCESSING" /\ \E r \in Runs : run[r].tx = {t}
    BY StrandedStep
  <2>1. PICK r \in Runs : Record(r)
    BY RowsMarked
  <2>2. PICK s \in Txs : run[r].tx = {s}
    BY <2>1 DEF Record, OneInHand
  <2>3. status' = [status EXCEPT ![s] = run[r].result]
    BY <2>1, <2>2 DEF Record
  <2>4. s = t /\ status'[t] = run[r].result
    BY <2>3 DEF TxTypeOK
  <2>5. run[r].result # "PROCESSING"
    BY DEF TxTypeOK, Run, Recorded
  <2> QED  BY <2>2, <2>4, <2>5
<1> QED
  BY <1>1, <1>2, <1>3, TxTypeCorrect, PTL DEF TxSpec, StatusSettles
=============================================================================
