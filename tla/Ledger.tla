----------------------------------- MODULE Ledger -----------------------------------
(***************************************************************************)
(* What a ledger promises: an account is credited, or pays into the wallet *)
(* of its owner, in one step together with the row of the log that says    *)
(* so; money enters by credits only and nothing else changes an amount.    *)
(***************************************************************************)
EXTENDS Integers

CONSTANTS
    Accounts,
    Owners,
    OwnerOf         \* the owner of each account

VARIABLES
    due,            \* what an account can still pay
    credited,       \* total of its rows that credit
    debited,        \* total of its rows that debit
    wallet          \* what its owner received

vars == <<due, credited, debited, wallet>>

Init ==
    /\ due = [a \in Accounts |-> 0]
    /\ credited = [a \in Accounts |-> 0]
    /\ debited = [a \in Accounts |-> 0]
    /\ wallet = [u \in Owners |-> 0]

\* Any number of accounts, each by what its new rows say.
Credit ==
    /\ \A a \in Accounts : credited'[a] >= credited[a]
    /\ due' = [a \in Accounts |-> due[a] + (credited'[a] - credited[a])]
    /\ UNCHANGED <<debited, wallet>>

Pay(a) ==
    LET amount == debited'[a] - debited[a] IN
    /\ amount > 0
    /\ debited' = [debited EXCEPT ![a] = @ + amount]
    /\ due' = [due EXCEPT ![a] = @ - amount]
    /\ wallet' = [wallet EXCEPT ![OwnerOf[a]] = @ + amount]
    /\ UNCHANGED credited

Next == Credit \/ \E a \in Accounts : Pay(a)

Spec == Init /\ [][Next]_vars
=============================================================================
