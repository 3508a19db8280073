-------------------------------- MODULE MCPayouts --------------------------------
(***************************************************************************)
(* An instance of Payouts for TLC: u1 and u2 may hold the card in turn,    *)
(* and u2 has no wallet, so that u2's claims fail and the project cannot   *)
(* end once u2 owns a part of it.                                          *)
(***************************************************************************)
EXTENDS Payouts, TLC

CONSTANTS u1, u2

\* Runs that overlap are interchangeable, and so are claims; the
\* properties checked with it are invariants.
Symmetry == Permutations(Runs) \cup Permutations(Claims)
=============================================================================
