------------------------------ MODULE WalletHistory ------------------------------
(***************************************************************************)
(* WalletLedger with a history variable that remembers whether requests    *)
(* ever overlapped, for what holds as long as none did, and the properties *)
(* that add up what the withdrawals of a user took.                        *)
(***************************************************************************)
EXTENDS WalletLedger

VARIABLE overlapped   \* a request was handled while another one was

hvars == <<vars, overlapped>>

InFlight == Cardinality(WithdrawalsInFlight) + Cardinality(ClaimsInFlight)

\* A relative credit is one batch: it overlaps what is in flight around it.
CreditMeanwhile == InFlight > 0 /\ credited' # credited /\ rc' = rc

HInit == Init /\ overlapped = FALSE

HNext == Next /\ overlapped' = (overlapped \/ InFlight' > 1 \/ CreditMeanwhile)

HSpec == HInit /\ [][HNext]_hvars

-----------------------------------------------------------------------------
(* Properties *)

AmountIn(w, u, pcs) == IF WUser[w] = u /\ wd[w].pc \in pcs THEN wd[w].amount ELSE 0

\* The total of the withdrawals of user u that are in one of the given states.
Total(u, pcs) ==
    SumFunctionOnSet([w \in Withdrawals |-> AmountIn(w, u, pcs)], Withdrawals)

\* What was sent is what the WITHDRAW_BALANCE rows say, plus what was sent by
\* requests that did not come to write theirs: no row without a transfer.
LogMatchesChain ==
    \A u \in Users : sent[u] = withdrawn[u] + Total(u, {"sent", "unlogged"})

\* As long as requests do not overlap, the balance a user is shown is what the rows
\* of the transaction history add up to, less the amounts, of either sign, that
\* withdrawals took without coming to write their row; one that failed before the
\* debit changed nothing.
Balanced ==
    ~overlapped =>
        \A u \in Users :
            GetBalance(u) + Total(u, {"debited", "sent", "lost", "unlogged"}) = HistoryTotal(u)

\* A password lets one withdrawal pass, and the reward of a referral is paid once
\* ("Referral claimed!"), as long as requests do not overlap.
UsedOnce ==
    ~overlapped =>
        /\ \A i \in Invitees : rewards[i] <= 1
        /\ \A v, w \in Withdrawals :
               /\ wd[v].pc \notin {"idle", "otp", "failed"}
               /\ wd[w].pc \notin {"idle", "otp", "failed"}
               /\ wd[v].otp = wd[w].otp
               => v = w
=============================================================================
