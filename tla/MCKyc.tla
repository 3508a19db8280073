---------------------------------- MODULE MCKyc ----------------------------------
(***************************************************************************)
(* An instance of Kyc for TLC: one user with two clients, two admins.  The *)
(* rows of two users only meet in the requests of admins, which treat each *)
(* as if it were alone.                                                    *)
(***************************************************************************)
EXTENDS Kyc, TLC

CONSTANTS u1

ByU1 == [c \in Clients |-> u1]

\* Clients of one user are interchangeable, and so are admins; the properties
\* checked with it are invariants.
Symmetry == Permutations(Admins) \cup Permutations(Clients)
=============================================================================
