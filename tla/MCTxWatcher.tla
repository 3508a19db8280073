------------------------------ MODULE MCTxWatcher ------------------------------
(***************************************************************************)
(* Instances of TxWatcher for TLC.  Two confirmations stand for the ten of *)
(* the code: one that is not enough, one that is.                          *)
(***************************************************************************)
EXTENDS TxWatcher, TLC

Symmetry == Permutations(Txs) \cup Permutations(Runs)
=============================================================================
