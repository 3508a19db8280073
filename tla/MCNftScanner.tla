------------------------------ MODULE MCNftScanner ------------------------------
(***************************************************************************)
(* Instances of NftScanner for TLC.                                        *)
(***************************************************************************)
EXTENDS NftScanner

CONSTANTS e2, u1, c1, c2

\* e2 buys two tokens of c2, the others one of c1.
C2ForE2 == [e \in Events |-> IF e = e2 THEN c2 ELSE c1]
TwoForE2 == [e \in Events |-> IF e = e2 THEN 2 ELSE 1]
BoughtByU1 == [e \in Events |-> u1]
=============================================================================
