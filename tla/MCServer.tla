--------------------------------- MODULE MCServer ---------------------------------
(***************************************************************************)
(* An instance of Server for TLC: the password that the user has at the    *)
(* start, if any, is given, as it is as good as any; who registered before *)
(* without one has a profile with all that a login with Facebook may       *)
(* bring, and others an empty one; reports are switched off only where the *)
(* user is yet to register.                                                *)
(***************************************************************************)
EXTENDS Server, TLC

CONSTANT FirstPassword

FromFacebook(p) ==
    /\ None \notin {p.given, p.family, p.avatar}
    /\ p.display = <<p.given, p.family>>

MCInit ==
    /\ Init
    /\ password.of \in {FirstPassword, None}
    /\ IF registered /\ password.of = None THEN FromFacebook(profile)
                                          ELSE profile = P!EmptyProfile
    /\ enable \/ ~registered

MCSpec == MCInit /\ [][Next]_vars /\ \A e \in Requests : WF_vars(ReportStep(e))
=============================================================================
