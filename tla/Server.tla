---------------------------------- MODULE Server ----------------------------------
(***************************************************************************)
(* One server process: requests of three kinds, about notifications, the   *)
(* password and the profile, share its memory.  AppErrorsInterceptor       *)
(* reports every error a request ends with, and a restart loses the        *)
(* connections of subscribers, the requests and mails on their way and the *)
(* timers of the reports together, while the rows stay.                    *)
(***************************************************************************)
EXTENDS Integers, FiniteSets, Sequences

CONSTANTS
    Users,          \* users who are notified
    Anonymous,
    Clients,        \* clients that subscribe to notifications
    Passwords,
    GivenNames,
    FamilyNames,
    Picture,
    None,
    Absent,
    Requests,       \* the requests of a run, each of any kind
    Earlier,        \* one that ended before the others began
    MaxNotes,       \* bound on the notifications created
    MaxRestarts     \* bound on the restarts

ASSUME ServerAssumption ==
    /\ Anonymous \notin Users
    /\ Earlier \in Requests
    /\ None \notin Passwords \cup GivenNames \cup FamilyNames \cup Requests
    /\ Absent \notin GivenNames \cup FamilyNames \cup {None}
ASSUME ServerBounds == MaxNotes \in Nat /\ MaxRestarts \in Nat

VARIABLES
    notes, conn, note, disturbed,
    registered, active, password, expired, mail, session,
    profile, bucket, edit, mixed,
    enable, state, inits, call,
    restarts        \* how often the server restarted

N == INSTANCE Notifications
S == INSTANCE Sessions
P == INSTANCE Profile
E == INSTANCE ErrorReports WITH Calls <- Requests

noteVars == <<notes, conn, note, disturbed>>
passwordVars == <<registered, active, password, expired, mail, session>>
profileVars == <<profile, bucket, edit, mixed>>
reportVars == <<enable, state, inits, call>>
vars == <<noteVars, passwordVars, profileVars, reportVars, restarts>>

TypeOK ==
    /\ N!NotificationsTypeOK
    /\ S!SessionsTypeOK
    /\ P!ProfileTypeOK
    /\ E!ReportsTypeOK
    /\ restarts \in 0 .. MaxRestarts

Init ==
    /\ N!NotificationsInit
    /\ S!SessionsInit
    /\ P!ProfileInit
    /\ E!ReportsInit
    /\ restarts = 0

-----------------------------------------------------------------------------
(* A request that is not of another kind does a step. *)

AboutNotifications(r) ==
    /\ session[r].pc = "idle" /\ edit[r].pc = "idle"
    /\ UNCHANGED <<passwordVars, profileVars, restarts>>

AboutPassword(r) ==
    /\ note[r].pc = "idle" /\ edit[r].pc = "idle"
    /\ UNCHANGED <<noteVars, profileVars, restarts>>

AboutProfile(r) ==
    /\ note[r].pc = "idle" /\ session[r].pc = "idle"
    /\ UNCHANGED <<noteVars, passwordVars, restarts>>

NoteStep(r) ==
    /\ AboutNotifications(r)
    /\ UNCHANGED reportVars
    /\ \/ \E u \in Users : Len(notes) < MaxNotes /\ N!CreateNoti(r, u)
       \/ \E u \in Users : \E n \in DOMAIN notes : N!SeenNotification(r, u, n)
       \/ \E u \in Users : N!MarkAllNotisSeen(r, u)
       \/ N!PushNotification(r)
       \/ N!PublishUnseenNotisCount(r)

PasswordMethod(r) ==
    \/ \E p \in Passwords : S!Register(r, p) \/ S!LoginRead(r, p)
    \/ S!LoginCompare(r)
    \/ S!ForgotPassword(r)
    \/ \E t \in Requests : S!VerifyRead(r, t)
    \/ S!VerifyCommit(r)
    \/ \E t \in Requests, p \in Passwords : S!ResetRead(r, t, p)
    \/ S!ResetCommit(r)
    \/ \E p \in Passwords, old \in Passwords \cup {None} : S!ChangeRead(r, p, old)
    \/ S!ChangeCommit(r)
    \/ S!ChangeRefused(r)

\* The method throws: the request is refused.
Throws(r) == session'[r].pc = "refused"

PasswordStep(r) ==
    /\ AboutPassword(r)
    /\ PasswordMethod(r)
    /\ ~Throws(r)
    /\ UNCHANGED reportVars

ProfileStep(r) ==
    /\ AboutProfile(r)
    /\ UNCHANGED reportVars
    /\ \/ \E given \in GivenNames \cup {None, Absent}, family \in FamilyNames \cup {None, Absent} :
            P!UpdateRead(r, given, family)
       \/ P!UpdateCommit(r)
       \/ P!UpdateSwallowed(r)
       \/ P!UploadAvatar(r)
       \/ P!PutAvatar(r)
       \/ P!AvatarCommit(r)

\* The interceptor: a request ends with an error, be it that it is refused, which is
\* reported.
InterceptError(r) ==
    /\ \/ AboutNotifications(r) /\ N!NoteFail(r)
       \/ AboutProfile(r) /\ P!EditFail(r)
       \/ AboutPassword(r) /\ S!SessionFail(r)
       \/ AboutPassword(r) /\ PasswordMethod(r) /\ Throws(r)
    /\ E!Report(r)

SubscribeStep(c) ==
    /\ (\E u \in Users : N!Connect(c, u)) \/ N!Disconnect(c)
    /\ UNCHANGED <<passwordVars, profileVars, reportVars, restarts>>

MailStep(r) ==
    /\ S!SendMail(r) \/ S!Expire(r)
    /\ UNCHANGED <<noteVars, profileVars, reportVars, restarts>>

ReportStep(e) ==
    /\ E!Initialized(e) \/ E!Retry(e)
    /\ UNCHANGED <<noteVars, passwordVars, profileVars, restarts>>

Restart ==
    /\ restarts < MaxRestarts
    /\ restarts' = restarts + 1
    /\ N!RestartNotifications
    /\ S!RestartSessions
    /\ P!RestartProfile
    /\ E!RestartReports

Next ==
    \/ \E r \in Requests : NoteStep(r) \/ PasswordStep(r) \/ ProfileStep(r)
    \/ \E r \in Requests : InterceptError(r) \/ MailStep(r)
    \/ \E c \in Clients : SubscribeStep(c)
    \/ \E e \in Requests : ReportStep(e)
    \/ Restart

\* Timers fire; nothing else is assumed of the requests and the network.
Spec == Init /\ [][Next]_vars /\ \A e \in Requests : WF_vars(ReportStep(e))

-----------------------------------------------------------------------------
(* Properties *)

\* A client is shown notifications of its own user only, and the count of the
\* ones that he has not seen, as soon as what changed it was published, unless
\* requests for him overlapped, failed, or marked another user's row.
CountSettles ==
    \A c \in Clients : LET u == conn[c].user IN
        /\ \A n \in conn[c].notes : notes[n].user = u
        /\ conn[c].count # N!NoCount /\ u \notin disturbed /\ ~N!Busy(u)
               => conn[c].count = N!CountUnseen(notes, u)

\* See Sessions.
PasswordsInOrder == S!PasswordsInOrder
MailedLinksWork == S!MailedLinksWork

\* See Profile.
ProfileAgrees == P!ProfileAgrees

\* See ErrorReports.
InitializedOnce == E!InitializedOnce
ReportsArrive == E!ReportsArrive
=============================================================================
