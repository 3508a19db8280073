------------------------------- MODULE MCCommunity -------------------------------
(***************************************************************************)
(* An instance of Community for TLC: the two requests of u1 to rate and to *)
(* vote about the sale race each other and those of u2.                    *)
(***************************************************************************)
EXTENDS Community

CONSTANTS u1, u2, v3, t2, s3

ByU1ButV3 == [v \in Votes |-> IF v = v3 THEN u2 ELSE u1]
ByU1ButT2 == [t \in Toggles |-> IF t = t2 THEN u2 ELSE u1]
ByU1ButS3 == [s \in SellVotes |-> IF s = s3 THEN u2 ELSE u1]
=============================================================================
