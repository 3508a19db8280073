---------------------------- MODULE MCProfitAccrual ----------------------------
(***************************************************************************)
(* Instances of Portfolio for TLC.  Periods last one day, or two for p2,   *)
(* and the vote to sell p1 starts within the clock's bound: runs of the    *)
(* job straddle the ends of periods and the start of the vote.             *)
(***************************************************************************)
EXTENDS Portfolio, TLC

CONSTANTS p1, p2

PriceOne == [p \in Projects |-> 1]
FromDayZero == [p \in Projects |-> 0]
TwoDaysForP2 == [p \in Projects |-> IF p = p2 THEN 2 ELSE 1]
VoteSellP1OnDay3 == [p \in Projects |-> IF p = p1 THEN 3 ELSE MaxDay + 1]

P1First == [p \in Projects |-> IF p = p1 THEN 1 ELSE 2]

Symmetry == Permutations(Jobs) \cup Permutations(Claims)
=============================================================================
