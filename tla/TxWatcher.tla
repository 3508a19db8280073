-------------------------------- MODULE TxWatcher --------------------------------
(***************************************************************************)
(* The rows of blockchain_transaction and the cron job that follows them   *)
(* on the blockchain (TasksService.listenerTransactionBlockchain).  A run  *)
(* lists the open rows, marks the open rows as PROCESSING in a statement   *)
(* of its own, then asks the node about each of its list and records the   *)
(* answer.  Nothing keeps two runs, of one server or of two, apart.        *)
(*                                                                         *)
(* In the code `return` ends the run at the first transaction that is not  *)
(* confirmed, reverted, or that the node could not answer about: the rows  *)
(* after it stay PROCESSING, which no later run lists.                     *)
(***************************************************************************)
EXTENDS Integers, FiniteSets

CONSTANTS
    Txs,            \* transaction hashes
    Runs,           \* runs of the job that may be in progress together
    Required,       \* confirmations asked for: 10 in the code
    MaxReorg,       \* bound: a reorganisation drops at most so many blocks
    MaxCrashes      \* bound on the runs lost to a restart or the database

ASSUME TxAssumption ==
    /\ Required \in Nat \ {0}
    /\ MaxReorg \in Nat /\ MaxReorg < Required
    /\ MaxCrashes \in Nat

VARIABLES
    status,         \* blockchain_transaction.status, NoRow before addTransaction
    chain,          \* what the blockchain did with the transaction
    conf,           \* its confirmations
    published,      \* the last status sent to subscribers of blockchainWatcher
    run,            \* the runs of the job
    crashes         \* how many were lost

txVars == <<status, chain, conf, published, run, crashes>>

-----------------------------------------------------------------------------
(* Type definitions *)

NoRow == "NO_ROW"
Open == {"PENDING", "CONFIRMING"}
Final == {"SUCCEED", "FAILED"}
Status == Open \cup Final \cup {NoRow, "PROCESSING"}

\* The statuses a run records after an answer; with PENDING nothing is published.
Recorded == Status \ {NoRow, "PROCESSING"}

Run == [pc : {"idle", "listed", "loop", "record"},
        list : SUBSET Txs,              \* txList, the part not handled yet
        tx : SUBSET Txs,                \* the tx being handled, if any
        result : Recorded,              \* what will be recorded of it
        goesOn : BOOLEAN,               \* whether the loop goes on after it
        caught : BOOLEAN]               \* whether an error led to this result

IdleRun == [pc |-> "idle", list |-> {}, tx |-> {}, result |-> "PENDING",
            goesOn |-> FALSE, caught |-> FALSE]

TxTypeOK ==
    /\ status \in [Txs -> Status]
    /\ chain \in [Txs -> {"pending", "executed", "reverted"}]
    /\ conf \in [Txs -> 0 .. Required]
    /\ published \in [Txs -> Status]
    /\ run \in [Runs -> Run]
    /\ crashes \in 0 .. MaxCrashes

\* Mutant: so are those that are being processed.
UnsettledRows == {t \in Txs : status[t] \in Open \cup {"PROCESSING"}}

\* where: OR: [PENDING, CONFIRMING]
OpenRows == {t \in Txs : status[t] \in Open}

-----------------------------------------------------------------------------
TxInit ==
    /\ status = [t \in Txs |-> NoRow]
    /\ chain = [t \in Txs |-> "pending"]
    /\ conf = [t \in Txs |-> 0]
    /\ published = [t \in Txs |-> NoRow]
    /\ run = [r \in Runs |-> IdleRun]
    /\ crashes = 0

-----------------------------------------------------------------------------
(* The blockchain, and the rows that appear *)

\* sendTransaction, or the row a withdrawal creates with its log; tx_hash is unique.
AddTransaction(t) ==
    /\ status[t] = NoRow
    /\ status' = [status EXCEPT ![t] = "PENDING"]
    /\ UNCHANGED <<chain, conf, published, run, crashes>>

MineTransaction(t) ==
    /\ chain[t] = "pending"
    /\ \E outcome \in {"executed", "reverted"} : chain' = [chain EXCEPT ![t] = outcome]
    /\ conf' = [conf EXCEPT ![t] = 1]
    /\ UNCHANGED <<status, published, run, crashes>>

Confirm(t) ==
    /\ conf[t] \in 1 .. Required - 1
    /\ conf' = [conf EXCEPT ![t] = @ + 1]
    /\ UNCHANGED <<status, chain, published, run, crashes>>

\* The blocks since the transaction was mined are replaced by others.
Reorganise(t) ==
    /\ conf[t] \in 1 .. MaxReorg
    /\ chain' = [chain EXCEPT ![t] = "pending"]
    /\ conf' = [conf EXCEPT ![t] = 0]
    /\ UNCHANGED <<status, published, run, crashes>>

-----------------------------------------------------------------------------
(* A run of the job *)

ListOpen(r) ==
    /\ run[r].pc = "idle"
    /\ run' = [run EXCEPT ![r] = [IdleRun EXCEPT !.pc = "listed", !.list = OpenRows]]
    /\ UNCHANGED <<status, chain, conf, published, crashes>>

\* Marks the rows that are open by now, whether the run listed them or not.
MarkProcessing(r) ==
    /\ run[r].pc = "listed"
    /\ status' = [t \in Txs |-> IF t \in OpenRows THEN "PROCESSING" ELSE status[t]]
    /\ run' = [run EXCEPT ![r] = IF @.list = {} THEN IdleRun ELSE [@ EXCEPT !.pc = "loop"]]
    /\ UNCHANGED <<chain, conf, published, crashes>>

\* Leaves the loop at tx t with this result to record.
Answer(r, t, result, goesOn, caught) ==
    run' = [run EXCEPT ![r] = [pc |-> "record", list |-> @.list \ {t}, tx |-> {t},
                               result |-> result, goesOn |-> goesOn, caught |-> caught]]

\* Mutant: one confirmation less will do.
NearlyConfirmed(t) == conf[t] >= Required - 1

\* txDetail.confirmations < 10 is not enough.
Confirmed(t) == conf[t] >= Required

\* The node answers with the receipt, or that there is none.
Receipt(r, t) ==
    /\ run[r].pc = "loop"
    /\ t \in run[r].list
    /\ CASE chain[t] = "pending" -> Answer(r, t, "PENDING", FALSE, FALSE)
         [] chain[t] = "reverted" -> Answer(r, t, "FAILED", FALSE, FALSE)
         [] chain[t] = "executed" ->
              IF Confirmed(t) THEN Answer(r, t, "SUCCEED", TRUE, FALSE)
                              ELSE Answer(r, t, "CONFIRMING", FALSE, FALSE)
    /\ UNCHANGED <<status, chain, conf, published, crashes>>

\* The node answers with an HTTP status of 500 to 504: try again later.
NodeUnavailable(r, t) ==
    /\ run[r].pc = "loop"
    /\ t \in run[r].list
    /\ Answer(r, t, "PENDING", FALSE, TRUE)
    /\ UNCHANGED <<status, chain, conf, published, crashes>>

\* Any other error, a timeout for one: the transaction is taken as failed.
NodeError(r, t) ==
    /\ run[r].pc = "loop"
    /\ t \in run[r].list
    /\ Answer(r, t, "FAILED", TRUE, TRUE)
    /\ UNCHANGED <<status, chain, conf, published, crashes>>

\* Updates the row, publishes it unless it is PENDING again, and goes on or not.
Record(r) ==
    /\ run[r].pc = "record"
    /\ \E t \in run[r].tx :
        /\ status' = [status EXCEPT ![t] = run[r].result]
        /\ published' = IF run[r].result = "PENDING" THEN published
                        ELSE [published EXCEPT ![t] = run[r].result]
    /\ run' = [run EXCEPT ![r] = IF run[r].goesOn /\ run[r].list # {}
                                 THEN [IdleRun EXCEPT !.pc = "loop", !.list = run[r].list]
                                 ELSE IdleRun]
    /\ UNCHANGED <<chain, conf, crashes>>

\* The update throws: inside the try, the transaction is taken as failed.
RecordThrows(r) ==
    /\ run[r].pc = "record"
    /\ ~run[r].caught
    /\ run' = [run EXCEPT ![r] = [@ EXCEPT !.result = "FAILED", !.goesOn = TRUE, !.caught = TRUE]]
    /\ UNCHANGED <<status, chain, conf, published, crashes>>

\* The server restarts, or a statement of the run fails for good.
Crash(r) ==
    /\ run[r].pc # "idle"
    /\ crashes < MaxCrashes
    /\ crashes' = crashes + 1
    /\ run' = [run EXCEPT ![r] = IdleRun]
    /\ UNCHANGED <<status, chain, conf, published>>

-----------------------------------------------------------------------------
RunStep(r) ==
    \/ ListOpen(r)
    \/ MarkProcessing(r)
    \/ \E t \in Txs : Receipt(r, t) \/ NodeUnavailable(r, t) \/ NodeError(r, t)
    \/ Record(r)
    \/ RecordThrows(r)
    \/ Crash(r)

TxNext ==
    \/ \E t \in Txs : AddTransaction(t) \/ MineTransaction(t) \/ Confirm(t) \/ Reorganise(t)
    \/ \E r \in Runs : RunStep(r)

TxSpec == TxInit /\ [][TxNext]_txVars

-----------------------------------------------------------------------------
(* Properties *)

\* A row, and what subscribers were told, says SUCCEED only of a transaction
\* that was executed and has the confirmations, whatever runs did to each
\* other's rows with receipts they had read earlier.
SucceedTruthful ==
    \A t \in Txs :
        "SUCCEED" \in {status[t], published[t]} => chain[t] = "executed" /\ conf[t] >= Required

\* Why it holds: what the node said of a confirmed transaction stays true, as a
\* reorganisation does not reach that far, so that an answer may be recorded late.
AnswersTrue ==
    \A r \in Runs : run[r].pc = "record" /\ run[r].result = "SUCCEED" =>
        \A t \in run[r].tx : chain[t] = "executed" /\ conf[t] >= Required

\* Some run has the transaction on its list.
Attended(t) == \E r \in Runs : t \in run[r].list \cup run[r].tx

\* PROCESSING, and in no run's hands.
Stranded(t) == status[t] = "PROCESSING" /\ ~Attended(t)

\* A row changes only by runs that have it in hand: one left PROCESSING by a run
\* that returned, that was lost, or that marked it without having listed it, stays
\* so; and a settled one is not reopened, but for an answer that a run which
\* listed it before it was settled records late.
StatusSettles ==
    [][\A t \in Txs :
        /\ Stranded(t) => Stranded(t)'
        /\ status[t] \in Final /\ status'[t] # status[t] =>
               status'[t] # "PROCESSING" /\ \E r \in Runs : run[r].tx = {t}]_txVars
=============================================================================
