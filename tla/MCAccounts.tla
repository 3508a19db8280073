------------------------------- MODULE MCAccounts --------------------------------
(***************************************************************************)
(* An instance of Accounts for TLC: one person registers with an e-mail    *)
(* and logs in by Google and by Facebook with the same one, another person *)
(* has a Facebook login without an e-mail.  The first two users link.      *)
(***************************************************************************)
EXTENDS Accounts

CONSTANTS mail, google, facebook1, facebook2, register, byGoogle, byFacebook, other, l1

People ==
    [s \in Sessions |->
        CASE s = register -> [email |-> mail, google |-> NoOne, facebook |-> NoOne]
          [] s = byGoogle -> [email |-> mail, google |-> google, facebook |-> NoOne]
          [] s = byFacebook -> [email |-> mail, google |-> NoOne, facebook |-> facebook1]
          [] s = other -> [email |-> NoOne, google |-> NoOne, facebook |-> facebook2]]

FirstTwo == [l \in Links |-> IF l = l1 THEN 1 ELSE 2]
=============================================================================
