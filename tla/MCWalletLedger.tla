----------------------------- MODULE MCWalletLedger -----------------------------
(***************************************************************************)
(* Instances of WalletHistory for TLC.  All requests concern the wallet of *)
(* u1: the users' wallets do not meet.                                     *)
(***************************************************************************)
EXTENDS WalletHistory, TLC

CONSTANTS u1, i1, i2, r3

AllByU1 == [w \in Withdrawals |-> u1]
R3AboutI2 == [r \in RefClaims |-> IF r = r3 THEN i2 ELSE i1]
OneBackTwoOff == {-1, 2}

AllInvitedByU1 == [i \in Invitees |-> u1]

Symmetry == Permutations(Withdrawals) \cup Permutations(RefClaims \ {r3})
=============================================================================
