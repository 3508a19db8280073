-------------------------------- MODULE ServerProofs ------------------------------
(***************************************************************************)
(* For any users, clients and requests of one server, and any number of    *)
(* restarts: types, and what each of the four parts that share the server  *)
(* promises.  A step of the server is a step of some of the parts, or      *)
(* leaves them alone; each part has an inductive invariant of its own.     *)
(***************************************************************************)
EXTENDS Server, FiniteSetTheorems, TLAPS

-----------------------------------------------------------------------------
(* The steps of the parts *)

ReportMove ==
    \/ \E e \in Requests : E!Report(e) \/ E!Initialized(e) \/ E!Retry(e)
    \/ E!RestartReports

ProfileMove ==
    \/ \E r \in Requests, given \in GivenNames \cup {None, Absent},
          family \in FamilyNames \cup {None, Absent} : P!UpdateRead(r, given, family)
    \/ \E r \in Requests :
        \/ P!UpdateCommit(r) \/ P!UpdateSwallowed(r)
        \/ P!UploadAvatar(r) \/ P!PutAvatar(r) \/ P!AvatarCommit(r)
        \/ P!EditFail(r)
    \/ P!RestartProfile

PasswordMove ==
    \/ \E r \in Requests :
        PasswordMethod(r) \/ S!SessionFail(r) \/ S!SendMail(r) \/ S!Expire(r)
    \/ S!RestartSessions

NoteMove ==
    \/ \E r \in Requests, u \in Users :
        \/ N!CreateNoti(r, u) \/ N!MarkAllNotisSeen(r, u)
        \/ \E n \in DOMAIN notes : N!SeenNotification(r, u, n)
    \/ \E r \in Requests :
        N!PushNotification(r) \/ N!PublishUnseenNotisCount(r) \/ N!NoteFail(r)
    \/ \E c \in Clients : N!Disconnect(c) \/ \E u \in Users : N!Connect(c, u)
    \/ N!RestartNotifications

\* A step of the server is one of each part, or leaves it alone.
LEMMA ServerStep ==
    ASSUME [Next]_vars
    PROVE  /\ ReportMove \/ UNCHANGED reportVars
           /\ ProfileMove \/ UNCHANGED profileVars
           /\ PasswordMove \/ UNCHANGED passwordVars
           /\ NoteMove \/ UNCHANGED noteVars
<1>1. ASSUME NEW r \in Requests, NoteStep(r)
      PROVE  /\ UNCHANGED <<reportVars, profileVars, passwordVars>>
             /\ NoteMove
  BY <1>1 DEF NoteStep, AboutNotifications, NoteMove
<1>2. ASSUME NEW r \in Requests, PasswordStep(r)
      PROVE  /\ UNCHANGED <<reportVars, profileVars, noteVars>>
             /\ PasswordMove
  BY <1>2 DEF PasswordStep, AboutPassword, PasswordMove
<1>3. ASSUME NEW r \in Requests, ProfileStep(r)
      PROVE  /\ UNCHANGED <<reportVars, passwordVars, noteVars>>
             /\ ProfileMove
  BY <1>3 DEF ProfileStep, AboutProfile, ProfileMove
<1>4. ASSUME NEW r \in Requests, InterceptError(r)
      PROVE  /\ ReportMove
             /\ \/ NoteMove /\ UNCHANGED <<profileVars, passwordVars>>
                \/ ProfileMove /\ UNCHANGED <<noteVars, passwordVars>>
                \/ PasswordMove /\ UNCHANGED <<noteVars, profileVars>>
  BY <1>4
  DEF InterceptError, AboutNotifications, AboutProfile, AboutPassword, ReportMove, NoteMove,
      ProfileMove, PasswordMove
<1>5. ASSUME NEW c \in Clients, SubscribeStep(c)
      PROVE  /\ UNCHANGED <<reportVars, profileVars, passwordVars>>
             /\ NoteMove
  BY <1>5 DEF SubscribeStep, NoteMove
<1>6. ASSUME NEW r \in Requests, MailStep(r)
      PROVE  /\ UNCHANGED <<reportVars, profileVars, noteVars>>
             /\ PasswordMove
  BY <1>6 DEF MailStep, PasswordMove
<1>7. ASSUME NEW e \in Requests, ReportStep(e)
      PROVE  /\ UNCHANGED <<profileVars, passwordVars, noteVars>>
             /\ ReportMove
  BY <1>7 DEF ReportStep, ReportMove
<1>8. ASSUME Restart PROVE ReportMove /\ ProfileMove /\ PasswordMove /\ NoteMove
  BY <1>8 DEF Restart, ReportMove, ProfileMove, PasswordMove, NoteMove
<1>9. CASE UNCHANGED vars
  BY <1>9 DEF vars
<1> QED
  BY <1>1, <1>2, <1>3, <1>4, <1>5, <1>6, <1>7, <1>8, <1>9 DEF Next

-----------------------------------------------------------------------------
(* ErrorReports *)

\* The SDK is initialised by the call that takes the state out of virgin.
ReportsInv ==
    /\ InitializedOnce
    /\ state \in {"virgin", "skipped"} => inits = 0

LEMMA ReportsStart == Init => E!ReportsTypeOK /\ ReportsInv
BY DEF Init, E!ReportsInit, E!ReportsTypeOK, E!CallStatus, ReportsInv, InitializedOnce,
       E!InitializedOnce

LEMMA ReportsStep ==
    ASSUME E!ReportsTypeOK, ReportsInv, ReportMove \/ UNCHANGED reportVars
    PROVE  (E!ReportsTypeOK /\ ReportsInv)'
<1>0. /\ state \in {"virgin", "initializing", "initialized", "skipped"}
      /\ inits \in Nat /\ inits <= 1
      /\ call \in [Requests -> E!CallStatus]
      /\ (\E e \in Requests : call[e] = "waiting") => state \in {"initializing", "initialized"}
  BY DEF E!ReportsTypeOK, ReportsInv, InitializedOnce, E!InitializedOnce
<1>1. ASSUME NEW e \in Requests, E!EnsureInitialized(e) PROVE (E!ReportsTypeOK /\ ReportsInv)'
  <2>1. CASE state # "virgin"
    <3>1. /\ call' = [call EXCEPT ![e] = E!Outcome(state)]
          /\ UNCHANGED <<enable, state, inits>>
      BY <1>1, <2>1 DEF E!EnsureInitialized
    <3>2. /\ E!Outcome(state) \in E!CallStatus
          /\ E!Outcome(state) = "waiting" => state = "initializing"
      BY <1>0, <2>1 DEF E!Outcome, E!CallStatus
    <3> QED
      BY <1>0, <3>1, <3>2 DEF E!ReportsTypeOK, ReportsInv, InitializedOnce, E!InitializedOnce
  <2>2. CASE state = "virgin" /\ enable
    <3>1. /\ inits' = inits + 1 /\ state' = "initializing" /\ enable' = enable
          /\ call' = [call EXCEPT ![e] = "initializing"]
      BY <1>1, <2>2 DEF E!EnsureInitialized, E!InitSdk
    <3>2. inits = 0
      BY <2>2 DEF ReportsInv
    <3> QED
      BY <1>0, <3>1, <3>2
      DEF E!ReportsTypeOK, E!CallStatus, ReportsInv, InitializedOnce, E!InitializedOnce
  <2>3. CASE state = "virgin" /\ ~enable
    <3>1. /\ inits' = inits /\ state' = "skipped" /\ enable' = enable
          /\ call' = [call EXCEPT ![e] = "dropped"]
      BY <1>1, <2>3 DEF E!EnsureInitialized
    <3>2. inits = 0 /\ \A f \in Requests : call[f] # "waiting"
      BY <1>0, <2>3 DEF ReportsInv
    <3> QED
      BY <1>0, <3>1, <3>2
      DEF E!ReportsTypeOK, E!CallStatus, ReportsInv, InitializedOnce, E!InitializedOnce
  <2> QED
    BY <2>1, <2>2, <2>3
<1>2. ASSUME NEW e \in Requests, E!Initialized(e) PROVE (E!ReportsTypeOK /\ ReportsInv)'
  BY <1>0, <1>2
  DEF E!Initialized, E!ReportsTypeOK, E!CallStatus, ReportsInv, InitializedOnce, E!InitializedOnce
<1>3. ASSUME E!RestartReports PROVE (E!ReportsTypeOK /\ ReportsInv)'
  BY <1>0, <1>3
  DEF E!RestartReports, E!ReportsTypeOK, E!CallStatus, ReportsInv, InitializedOnce,
      E!InitializedOnce
<1>4. CASE UNCHANGED reportVars
  BY <1>4 DEF reportVars, E!ReportsTypeOK, ReportsInv, InitializedOnce, E!InitializedOnce
<1> QED
  BY <1>1, <1>2, <1>3, <1>4 DEF ReportMove, E!Report, E!Retry

\* Errors that come together do not initialise the SDK twice, and none waits for an
\* SDK that nobody initialises, whatever requests fail together or are cut off by a
\* restart (AppErrorsInterceptor, Sentry.ensureInitialized).
THEOREM SdkInitializedOnce == Spec => []InitializedOnce
<1>1. E!ReportsTypeOK /\ ReportsInv /\ [Next]_vars => (E!ReportsTypeOK /\ ReportsInv)'
  BY ServerStep, ReportsStep
<1>2. ReportsInv => InitializedOnce
  BY DEF ReportsInv
<1> QED
  BY <1>1, <1>2, ReportsStart, PTL DEF Spec

-----------------------------------------------------------------------------
(* Profile *)

\* An image is stored before the row refers to it.
AvatarStored ==
    /\ profile.avatar \in bucket \cup {Picture, None}
    /\ \A r \in Requests : edit[r].pc = "put" => r \in bucket

\* As long as updates have not overlapped there is one at most that has read, and
\* the names that it read are still there when it writes.
DisplayFresh ==
    ~mixed =>
        /\ \A q, r \in Requests : edit[q].pc = "read" /\ edit[r].pc = "read" => q = r
        /\ \A r \in Requests : edit[r].pc = "read" =>
            /\ None \notin {edit[r].given, edit[r].family}
            /\ edit[r].display = P!DisplayName(P!OrOld(edit[r].family, profile.family),
                                               P!OrOld(edit[r].given, profile.given))
        /\ profile.display \in {P!DisplayName(profile.family, profile.given),
                                P!DisplayName(profile.given, profile.family)}

ProfileInv == AvatarStored /\ DisplayFresh

LEMMA DisplayNameType ==
    ASSUME NEW first \in P!Name, NEW second \in P!Name
    PROVE  P!DisplayName(first, second) \in Seq(P!Names)
<1>1. ASSUME NEW n \in P!Name PROVE (IF n = None THEN << >> ELSE <<n>>) \in Seq(P!Names)
  BY <1>1 DEF P!Name
<1> QED
  BY <1>1 DEF P!DisplayName

LEMMA IdleEditType == P!IdleEdit \in P!Edit /\ P!IdleEdit.pc = "idle"
BY DEF P!IdleEdit, P!Edit

LEMMA ProfileStart == Init => P!ProfileTypeOK /\ ProfileInv
<1> SUFFICES ASSUME Init PROVE P!ProfileTypeOK /\ ProfileInv
  OBVIOUS
<1>1. /\ P!NewProfile /\ bucket = {} /\ mixed = FALSE
      /\ edit = [r \in Requests |-> P!IdleEdit]
  BY DEF Init, P!ProfileInit
<1>2. /\ profile \in P!UserProfile
      /\ profile.avatar \in {Picture, None}
      /\ profile.display \in {P!DisplayName(profile.family, profile.given),
                              P!DisplayName(profile.given, profile.family)}
  <2>1. CASE profile = P!EmptyProfile
    <3>1. P!EmptyProfile \in P!UserProfile /\ P!EmptyProfile.avatar = None
      BY DEF P!EmptyProfile, P!UserProfile, P!Name
    <3>2. P!EmptyProfile.display = P!DisplayName(P!EmptyProfile.family, P!EmptyProfile.given)
      BY DEF P!EmptyProfile, P!DisplayName
    <3> QED
      BY <2>1, <3>1, <3>2
  <2>2. ASSUME NEW given \in GivenNames \cup {None}, NEW family \in FamilyNames \cup {None},
               NEW display \in {P!DisplayName(family, given), P!DisplayName(given, family)},
               NEW avatar \in {Picture, None},
               profile = [given |-> given, family |-> family, display |-> display,
                          avatar |-> avatar]
        PROVE  /\ profile \in P!UserProfile
               /\ profile.avatar \in {Picture, None}
               /\ profile.display \in {P!DisplayName(profile.family, profile.given),
                                       P!DisplayName(profile.given, profile.family)}
    <3>1. given \in P!Name /\ family \in P!Name
      BY DEF P!Name, P!Names
    <3>2. display \in Seq(P!Names)
      BY <3>1, DisplayNameType
    <3> QED
      BY <2>2, <3>1, <3>2 DEF P!UserProfile
  <2> QED
    BY <1>1, <2>1, <2>2 DEF P!NewProfile
<1> QED
  BY <1>1, <1>2, IdleEditType DEF P!ProfileTypeOK, ProfileInv, AvatarStored, DisplayFresh

\* The call of a request returns or goes on: the others stay as they are.
LEMMA EditMoved ==
    ASSUME P!ProfileTypeOK, NEW r \in Requests,
           NEW pc \in {"idle", "read", "putting", "put", "done", "failed"},
           P!EditGoto(r, pc) \/ P!EditEnd(r, pc)
    PROVE  /\ edit' \in [Requests -> P!Edit]
           /\ edit'[r].pc = pc
           /\ \A q \in Requests \ {r} : edit'[q] = edit[q]
<1>1. edit \in [Requests -> P!Edit] /\ edit[r] \in P!Edit
  BY DEF P!ProfileTypeOK
<1>2. /\ [edit[r] EXCEPT !.pc = pc] \in P!Edit
      /\ [edit[r] EXCEPT !.pc = pc].pc = pc
  BY <1>1 DEF P!Edit
<1>3. /\ [P!IdleEdit EXCEPT !.pc = pc] \in P!Edit
      /\ [P!IdleEdit EXCEPT !.pc = pc].pc = pc
  BY IdleEditType DEF P!Edit
<1>4. CASE P!EditGoto(r, pc)
  <2>1. edit' = [edit EXCEPT ![r] = [edit[r] EXCEPT !.pc = pc]]
    BY <1>4 DEF P!EditGoto
  <2> QED
    BY <1>1, <1>2, <2>1
<1>5. CASE P!EditEnd(r, pc)
  BY <1>1, <1>3, <1>5 DEF P!EditEnd
<1> QED
  BY <1>4, <1>5

\* Where a request ends, or begins to store, the row and what the others hold of it
\* stay, and images are not taken away.
LEMMA ProfileKept ==
    ASSUME P!ProfileTypeOK, ProfileInv, NEW r \in Requests,
           NEW pc \in {"done", "failed", "putting", "put"},
           P!EditGoto(r, pc) \/ P!EditEnd(r, pc),
           pc = "put" => r \in bucket',
           UNCHANGED <<profile, mixed>>,
           bucket' \in SUBSET Requests, bucket \subseteq bucket'
    PROVE  (P!ProfileTypeOK /\ ProfileInv)'
<1>1. /\ edit' \in [Requests -> P!Edit]
      /\ edit'[r].pc = pc
      /\ \A q \in Requests \ {r} : edit'[q] = edit[q]
  BY EditMoved
<1>2. P!ProfileTypeOK'
  BY <1>1 DEF P!ProfileTypeOK
<1>3. AvatarStored'
  BY <1>1 DEF ProfileInv, AvatarStored
<1>4. DisplayFresh'
  <2> SUFFICES ASSUME ~mixed PROVE DisplayFresh'
    BY DEF DisplayFresh
  <2>1. \A q \in Requests : edit'[q].pc = "read" => edit'[q] = edit[q]
    BY <1>1
  <2> QED
    BY <2>1 DEF ProfileInv, DisplayFresh
<1> QED
  BY <1>2, <1>3, <1>4 DEF ProfileInv

LEMMA ProfileStepKeeps ==
    ASSUME P!ProfileTypeOK, ProfileInv, ProfileMove \/ UNCHANGED profileVars
    PROVE  (P!ProfileTypeOK /\ ProfileInv)'
<1>0. /\ profile \in P!UserProfile /\ bucket \in SUBSET Requests
      /\ edit \in [Requests -> P!Edit] /\ mixed \in BOOLEAN
  BY DEF P!ProfileTypeOK
<1>1. ASSUME NEW r \in Requests, NEW given \in GivenNames \cup {None, Absent},
             NEW family \in FamilyNames \cup {None, Absent}, P!UpdateRead(r, given, family)
      PROVE  (P!ProfileTypeOK /\ ProfileInv)'
  <2> DEFINE name == P!DisplayName(P!OrOld(family, profile.family), P!OrOld(given, profile.given))
             new == [pc |-> "read", given |-> given, family |-> family, display |-> name]
  <2>1. /\ edit' = [edit EXCEPT ![r] = new]
        /\ mixed' = (mixed \/ None \in {given, family} \/ \E q \in Requests : edit[q].pc = "read")
        /\ profile' = profile /\ bucket' = bucket
    BY <1>1 DEF P!UpdateRead
  <2>2. name \in Seq(P!Names)
    <3>1. profile.family \in P!Name /\ profile.given \in P!Name
      BY <1>0 DEF P!UserProfile
    <3>2. P!OrOld(family, profile.family) \in P!Name /\ P!OrOld(given, profile.given) \in P!Name
      BY <3>1 DEF P!OrOld, P!Name, P!Names
    <3> QED
      BY <3>2, DisplayNameType
  <2>3. new \in P!Edit
    <3> HIDE DEF name
    <3> QED
      BY <2>2 DEF P!Edit, P!Name, P!Names
  <2>4. /\ new.pc = "read" /\ new.given = given /\ new.family = family /\ new.display = name
    OBVIOUS
  <2> HIDE DEF new, name
  <2>5. edit' \in [Requests -> P!Edit] /\ edit'[r] = new
        /\ \A q \in Requests \ {r} : edit'[q] = edit[q]
    BY <1>0, <2>1, <2>3
  <2>6. mixed' \in BOOLEAN
    BY <2>1
  <2>7. P!ProfileTypeOK'
    BY <1>0, <2>1, <2>5, <2>6 DEF P!ProfileTypeOK
  <2>8. AvatarStored'
    BY <2>1, <2>4, <2>5 DEF ProfileInv, AvatarStored
  <2>9. DisplayFresh'
    <3> SUFFICES ASSUME ~mixed' PROVE DisplayFresh'
      BY DEF DisplayFresh
    <3>1. ~mixed /\ None \notin {given, family} /\ \A q \in Requests : edit[q].pc # "read"
      BY <2>1
    <3>2. \A q \in Requests : edit'[q].pc = "read" => q = r
      BY <2>5, <3>1
    <3>3. profile.display \in {P!DisplayName(profile.family, profile.given),
                               P!DisplayName(profile.given, profile.family)}
      BY <3>1 DEF ProfileInv, DisplayFresh
    <3> QED
      BY <2>1, <2>4, <2>5, <3>1, <3>2, <3>3 DEF DisplayFresh, name
  <2> QED
    BY <2>7, <2>8, <2>9 DEF ProfileInv
<1>2. ASSUME NEW r \in Requests, P!UpdateCommit(r) PROVE (P!ProfileTypeOK /\ ProfileInv)'
  <2>1. /\ edit[r].pc = "read"
        /\ profile' = [profile EXCEPT !.given = P!Written(edit[r].given, profile.given),
                                      !.family = P!Written(edit[r].family, profile.family),
                                      !.display = edit[r].display]
        /\ P!EditEnd(r, "done") /\ bucket' = bucket /\ mixed' = mixed
    BY <1>2 DEF P!UpdateCommit
  <2>2. /\ edit' \in [Requests -> P!Edit]
        /\ edit'[r].pc = "done"
        /\ \A q \in Requests \ {r} : edit'[q] = edit[q]
    BY <2>1, EditMoved
  <2>3. /\ P!Written(edit[r].given, profile.given) \in P!Name
        /\ P!Written(edit[r].family, profile.family) \in P!Name
        /\ edit[r].display \in Seq(P!Names)
    <3>1. edit[r] \in P!Edit
      BY <1>0
    <3> QED
      BY <1>0, <3>1 DEF P!Edit, P!UserProfile, P!Written
  <2>4. /\ profile' \in P!UserProfile
        /\ profile'.given = P!Written(edit[r].given, profile.given)
        /\ profile'.family = P!Written(edit[r].family, profile.family)
        /\ profile'.display = edit[r].display
        /\ profile'.avatar = profile.avatar
    BY <1>0, <2>1, <2>3 DEF P!UserProfile
  <2>5. P!ProfileTypeOK'
    BY <1>0, <2>1, <2>2, <2>4 DEF P!ProfileTypeOK
  <2>6. AvatarStored'
    BY <2>1, <2>2, <2>4 DEF ProfileInv, AvatarStored
  <2>7. DisplayFresh'
    <3> SUFFICES ASSUME ~mixed PROVE DisplayFresh'
      BY <2>1 DEF DisplayFresh
    <3>1. \A q \in Requests : edit'[q].pc # "read"
      BY <2>1, <2>2 DEF ProfileInv, DisplayFresh
    <3>2. /\ None \notin {edit[r].given, edit[r].family}
          /\ edit[r].display = P!DisplayName(P!OrOld(edit[r].family, profile.family),
                                             P!OrOld(edit[r].given, profile.given))
      BY <2>1 DEF ProfileInv, DisplayFresh
    <3>3. /\ P!Written(edit[r].given, profile.given) = P!OrOld(edit[r].given, profile.given)
          /\ P!Written(edit[r].family, profile.family) = P!OrOld(edit[r].family, profile.family)
      BY <3>2 DEF P!Written, P!OrOld
    <3> QED
      BY <2>4, <3>1, <3>2, <3>3 DEF DisplayFresh
  <2> QED
    BY <2>5, <2>6, <2>7 DEF ProfileInv
<1>3. ASSUME NEW r \in Requests, P!AvatarCommit(r) PROVE (P!ProfileTypeOK /\ ProfileInv)'
  <2>1. /\ edit[r].pc = "put" /\ profile' = [profile EXCEPT !.avatar = r]
        /\ P!EditEnd(r, "done") /\ bucket' = bucket /\ mixed' = mixed
    BY <1>3 DEF P!AvatarCommit
  <2>2. /\ edit' \in [Requests -> P!Edit]
        /\ edit'[r].pc = "done"
        /\ \A q \in Requests \ {r} : edit'[q] = edit[q]
    BY <2>1, EditMoved
  <2>3. /\ profile' \in P!UserProfile
        /\ profile'.given = profile.given /\ profile'.family = profile.family
        /\ profile'.display = profile.display /\ profile'.avatar = r
    BY <1>0, <2>1 DEF P!UserProfile
  <2>4. P!ProfileTypeOK'
    BY <1>0, <2>1, <2>2, <2>3 DEF P!ProfileTypeOK
  <2>5. AvatarStored'
    BY <2>1, <2>2, <2>3 DEF ProfileInv, AvatarStored
  <2>6. DisplayFresh'
    <3> SUFFICES ASSUME ~mixed PROVE DisplayFresh'
      BY <2>1 DEF DisplayFresh
    <3>1. \A q \in Requests : edit'[q].pc = "read" => edit'[q] = edit[q]
      BY <2>2
    <3> QED
      BY <2>3, <3>1 DEF ProfileInv, DisplayFresh
  <2> QED
    BY <2>4, <2>5, <2>6 DEF ProfileInv
<1>4. ASSUME NEW r \in Requests,
             P!UpdateSwallowed(r) \/ P!UploadAvatar(r) \/ P!PutAvatar(r) \/ P!EditFail(r)
      PROVE  (P!ProfileTypeOK /\ ProfileInv)'
  <2>1. CASE P!UpdateSwallowed(r)
    BY <1>0, <2>1, ProfileKept DEF P!UpdateSwallowed
  <2>2. CASE P!UploadAvatar(r)
    BY <1>0, <2>2, ProfileKept DEF P!UploadAvatar
  <2>3. CASE P!PutAvatar(r)
    BY <1>0, <2>3, ProfileKept DEF P!PutAvatar
  <2>4. CASE P!EditFail(r)
    BY <1>0, <2>4, ProfileKept DEF P!EditFail
  <2> QED
    BY <1>4, <2>1, <2>2, <2>3, <2>4
<1>5. ASSUME P!RestartProfile PROVE (P!ProfileTypeOK /\ ProfileInv)'
  <2>1. /\ [P!IdleEdit EXCEPT !.pc = "failed"] \in P!Edit
        /\ [P!IdleEdit EXCEPT !.pc = "failed"].pc = "failed"
    BY IdleEditType DEF P!Edit
  <2>2. /\ edit' \in [Requests -> P!Edit]
        /\ \A r \in Requests : edit'[r].pc \notin {"read", "put"}
        /\ UNCHANGED <<profile, bucket, mixed>>
    BY <1>0, <1>5, <2>1 DEF P!RestartProfile
  <2>3. P!ProfileTypeOK'
    BY <1>0, <2>2 DEF P!ProfileTypeOK
  <2> QED
    BY <2>2, <2>3 DEF ProfileInv, AvatarStored, DisplayFresh
<1>6. CASE UNCHANGED profileVars
  BY <1>6 DEF profileVars, P!ProfileTypeOK, ProfileInv, AvatarStored, DisplayFresh
<1> QED
  BY <1>1, <1>2, <1>3, <1>4, <1>5, <1>6 DEF ProfileMove

\* The avatar of the row is the picture the user came with or an image in the bucket,
\* whatever failed on the way, and the display name is made of the names of the row as
\* long as updates do not overlap, whichever way the profile was created (register,
\* loginGoogle, loginFacebook, updateAccountInfo, uploadAvatar).
THEOREM ProfileShown == Spec => []ProfileAgrees
<1>1. P!ProfileTypeOK /\ ProfileInv /\ [Next]_vars => (P!ProfileTypeOK /\ ProfileInv)'
  BY ServerStep, ProfileStepKeeps
<1>2. ProfileInv => ProfileAgrees
  BY DEF ProfileInv, AvatarStored, DisplayFresh, ProfileAgrees, P!ProfileAgrees
<1> QED
  BY <1>1, <1>2, ProfileStart, PTL DEF Spec

-----------------------------------------------------------------------------
(* Sessions *)

\* What was answered before a request began stays answered.
BeforeAnswered == \A r \in Requests : session[r].before \subseteq S!Answered

\* A login has read a password that nothing answered before it had replaced, and is
\* let in with that password only.
LoginRight(s) ==
    s.op = "login" /\ s.pc \in {"read", "done"} =>
        /\ ~S!Replaced(s.hash, s.before)
        /\ s.pc = "done" => s.hash.of = s.pass

NothingReplaced ==
    /\ ~S!Replaced(password, S!Answered)
    /\ \A r \in Requests : LoginRight(session[r])

\* A mail is that of an operation that ended, and its link has the token that the
\* operation makes.
MailFits(m, s) ==
    /\ m.pc # "none" => s.pc = "done"
    /\ m.template # "none" => m.pc # "none"
    /\ m.template = "verify" => s.op = "register"
    /\ m.template = "reset" => s.op \in {"forgot", "change"}
    /\ m.template = "reset" /\ m.linked => s.op = "forgot"

MailsFit == \A t \in Requests : MailFits(mail[t], session[t])

\* A token that is used is one that an operation that ended has made, and is refused
\* only where the mail was for the other page or the token has expired.
TokenRight(s) ==
    s.token # None =>
        /\ s.op \in {"verify", "reset"}
        /\ session[s.token].pc = "done"
        /\ /\ s.pc = "refused"
           /\ mail[s.token].template = (IF s.op = "verify" THEN "verify" ELSE "reset")
           => s.token \in expired

TokensRight == \A r \in Requests : TokenRight(session[r])

SessionsInv == BeforeAnswered /\ NothingReplaced /\ MailsFit /\ TokensRight

SessionsIInv == S!SessionsTypeOK /\ SessionsInv

LEMMA IdleSessionType == S!IdleSession \in S!Session
BY DEF S!IdleSession, S!Session, S!Operation, S!Hash, S!NoHash

LEMMA NoMailType == S!NoMail \in S!Mail /\ MailFits(S!NoMail, S!IdleSession)
BY DEF S!NoMail, S!Mail, MailFits

LEMMA SessionsStart == Init => SessionsIInv
<1> SUFFICES ASSUME Init PROVE SessionsIInv
  OBVIOUS
<1>1. PICK op \in {"none", "register", "forgot"}, p \in Passwords \cup {None} :
          /\ op = "register" => p # None
          /\ op = "none" => p = None
          /\ registered = (op # "none")
          /\ password = [of |-> p, by |-> IF op = "register" THEN Earlier ELSE None]
          /\ session = [r \in Requests |->
                IF r # Earlier THEN S!IdleSession
                ELSE [S!IdleSession EXCEPT !.op = op,
                        !.pc = IF op = "none" THEN "failed" ELSE "done"]]
          /\ mail = [r \in Requests |->
                IF r # Earlier THEN S!NoMail
                ELSE CASE op = "register" -> S!MailOf("user.verify", TRUE, "delivered")
                       [] op = "forgot" -> S!MailOf("user.forgot", TRUE, "delivered")
                       [] OTHER -> S!NoMail]
  BY DEF Init, S!SessionsInit
<1> DEFINE s0 == [S!IdleSession EXCEPT !.op = op, !.pc = IF op = "none" THEN "failed" ELSE "done"]
           m0 == mail[Earlier]
<1>2. /\ s0 \in S!Session /\ s0.before = {} /\ s0.token = None /\ s0.op = op
      /\ s0.pc = (IF op = "none" THEN "failed" ELSE "done")
  BY DEF S!IdleSession, S!Session, S!Operation, S!Hash, S!NoHash
<1>3. /\ S!MailOf("user.verify", TRUE, "delivered")
            = [pc |-> "delivered", template |-> "verify", linked |-> TRUE]
      /\ S!MailOf("user.forgot", TRUE, "delivered")
            = [pc |-> "delivered", template |-> "reset", linked |-> TRUE]
  BY DEF S!MailOf, S!Content, S!verify_email_template, S!resetPasswordTemplate
<1>4. m0 \in S!Mail /\ MailFits(m0, s0)
  <2>1. m0 = CASE op = "register" -> S!MailOf("user.verify", TRUE, "delivered")
               [] op = "forgot" -> S!MailOf("user.forgot", TRUE, "delivered")
               [] OTHER -> S!NoMail
    BY <1>1, ServerAssumption
  <2> HIDE DEF m0, s0
  <2>2. CASE op = "none"
    BY <2>1, <2>2, NoMailType DEF S!NoMail, MailFits
  <2>3. CASE op = "register"
    <3>1. m0 = [pc |-> "delivered", template |-> "verify", linked |-> TRUE]
      BY <1>3, <2>1, <2>3
    <3> QED
      BY <1>2, <2>3, <3>1 DEF S!Mail, MailFits
  <2>4. CASE op = "forgot"
    <3>1. m0 = [pc |-> "delivered", template |-> "reset", linked |-> TRUE]
      BY <1>3, <2>1, <2>4
    <3> QED
      BY <1>2, <2>4, <3>1 DEF S!Mail, MailFits
  <2> QED
    BY <2>2, <2>3, <2>4
<1>5. /\ session[Earlier] = s0
      /\ \A r \in Requests \ {Earlier} : session[r] = S!IdleSession /\ mail[r] = S!NoMail
  BY <1>1, ServerAssumption
<1>6. /\ S!IdleSession.before = {} /\ S!IdleSession.token = None
      /\ S!IdleSession.op = "none" /\ S!IdleSession.pc = "idle"
  BY DEF S!IdleSession
<1>7. session \in [Requests -> S!Session] /\ mail \in [Requests -> S!Mail]
  <2>1. \A r \in Requests : session[r] \in S!Session /\ mail[r] \in S!Mail
    BY <1>2, <1>4, <1>5, IdleSessionType, NoMailType
  <2>2. session = [r \in Requests |-> session[r]] /\ mail = [r \in Requests |-> mail[r]]
    BY <1>1
  <2> QED
    BY <2>1, <2>2
<1>8. S!SessionsTypeOK
  <2>1. active = FALSE /\ expired = {} /\ registered \in BOOLEAN
    BY <1>1 DEF Init, S!SessionsInit
  <2>2. password \in S!Hash
    BY <1>1, ServerAssumption DEF S!Hash
  <2> QED
    BY <1>7, <2>1, <2>2 DEF S!SessionsTypeOK
<1> HIDE DEF s0, m0
<1>9. \A r \in Requests :
        session[r].before = {} /\ session[r].token = None /\ session[r].op # "login"
  BY <1>2, <1>5, <1>6
<1>10. \A r \in Requests : MailFits(mail[r], session[r])
  BY <1>4, <1>5, NoMailType DEF m0
<1>11. ~S!Replaced(password, S!Answered)
  <2>1. ASSUME NEW w \in S!Answered, S!Writes(w) PROVE password.by # None
    BY <1>1, <1>2, <1>5, <1>6, <2>1, ServerAssumption DEF S!Answered, S!Writes
  <2>2. \A w \in S!Answered : session[w].before = {}
    BY <1>9 DEF S!Answered
  <2> QED
    BY <2>1, <2>2 DEF S!Replaced
<1> QED
  BY <1>8, <1>9, <1>10, <1>11
  DEF SessionsIInv, SessionsInv, BeforeAnswered, NothingReplaced, LoginRight, MailsFit, TokensRight,
      TokenRight

-----------------------------------------------------------------------------
(* What a step of a request does: it ends no request a second time, *)

RequestMoves(r) ==
    /\ session[r].pc \in {"idle", "read"}
    /\ session' = [session EXCEPT ![r] = session'[r]]
    /\ session'[r] \in S!Session
    /\ session'[r].before \subseteq S!Answered
    /\ LoginRight(session'[r])
    /\ TokenRight(session'[r])
    /\ expired' = expired /\ active' \in BOOLEAN /\ registered' \in BOOLEAN

\* leaves the password or writes one of its own,
PasswordMoves(r) ==
    \/ /\ password' = password
       /\ session'[r].pc = "done" => session'[r].op \notin {"register", "reset", "change"}
    \/ password' \in S!Hash /\ password'.by = r

\* and mails when it ends, if at all.
MailMoves(r) ==
    \/ mail' = mail
    \/ /\ mail' = [mail EXCEPT ![r] = mail'[r]]
       /\ mail'[r] \in S!Mail
       /\ session'[r].pc = "done"
       /\ MailFits(mail'[r], session'[r])

LEMMA RequestKeeps ==
    ASSUME SessionsIInv, NEW r \in Requests, RequestMoves(r), PasswordMoves(r), MailMoves(r)
    PROVE  SessionsIInv'
<1>1. /\ session \in [Requests -> S!Session] /\ mail \in [Requests -> S!Mail]
      /\ password \in S!Hash /\ expired \in SUBSET Requests
  BY DEF SessionsIInv, S!SessionsTypeOK
<1>2. /\ session[r].pc # "done"
      /\ \A q \in Requests \ {r} : session'[q] = session[q]
  BY <1>1 DEF RequestMoves
<1>3. S!SessionsTypeOK'
  <2>1. session' \in [Requests -> S!Session]
    BY <1>1 DEF RequestMoves
  <2>2. mail' \in [Requests -> S!Mail]
    BY <1>1 DEF MailMoves
  <2>3. password' \in S!Hash
    BY <1>1 DEF PasswordMoves
  <2> QED
    BY <1>1, <2>1, <2>2, <2>3 DEF S!SessionsTypeOK, RequestMoves
<1>4. /\ S!Answered \subseteq S!Answered' /\ S!Answered' \subseteq S!Answered \cup {r}
      /\ r \notin S!Answered /\ S!Answered \subseteq Requests
      /\ \A w \in S!Answered : session'[w] = session[w]
  BY <1>2 DEF S!Answered
<1>5. BeforeAnswered'
  BY <1>2, <1>4 DEF BeforeAnswered, SessionsIInv, SessionsInv, RequestMoves
<1>6. ~S!Replaced(password, S!Answered)'
  <2>1. \A w \in Requests : r \notin session[w].before /\ r \notin session'[w].before
    BY <1>2, <1>4 DEF BeforeAnswered, SessionsIInv, SessionsInv, RequestMoves
  <2>2. CASE password' = password
             /\ (session'[r].pc = "done" => session'[r].op \notin {"register", "reset", "change"})
    <3>1. ~S!Replaced(password, S!Answered)
      BY DEF SessionsIInv, SessionsInv, NothingReplaced
    <3> QED
      BY <1>4, <2>2, <3>1 DEF S!Replaced, S!Writes
  <2>3. CASE password'.by = r
    BY <1>4, <2>1, <2>3, ServerAssumption DEF S!Replaced
  <2> QED
    BY <2>2, <2>3 DEF PasswordMoves
<1>7. ASSUME NEW q \in Requests PROVE LoginRight(session[q])'
  <2>1. LoginRight(session'[q]) /\ session'[q].before \subseteq S!Answered
    BY <1>2, <1>4
    DEF RequestMoves, SessionsIInv, SessionsInv, NothingReplaced, BeforeAnswered
  <2> QED
    BY <1>4, <2>1 DEF LoginRight, S!Replaced, S!Writes
<1>8. MailsFit'
  <2>1. mail[r].pc = "none" /\ mail[r].template = "none"
    BY <1>2 DEF SessionsIInv, SessionsInv, MailsFit, MailFits
  <2>2. ASSUME NEW q \in Requests PROVE MailFits(mail'[q], session'[q])
    <3>1. CASE q # r
      <4>1. mail'[q] = mail[q]
        BY <1>1, <3>1 DEF MailMoves
      <4> QED
        BY <1>2, <3>1, <4>1 DEF SessionsIInv, SessionsInv, MailsFit
    <3>2. CASE q = r /\ mail' = mail
      BY <2>1, <3>2 DEF MailFits
    <3>3. CASE q = r /\ mail' # mail
      BY <3>3 DEF MailMoves
    <3> QED
      BY <3>1, <3>2, <3>3
  <2> QED
    BY <2>2 DEF MailsFit, MailFits
<1>9. TokensRight'
  <2>1. ASSUME NEW q \in Requests PROVE TokenRight(session'[q])
    BY <1>2 DEF RequestMoves, SessionsIInv, SessionsInv, TokensRight
  <2>2. ASSUME NEW q \in Requests, session'[q].token # None
        PROVE  /\ session'[q].token \in Requests \ {r}
               /\ session[session'[q].token].pc = "done"
    <3>1. session'[q] \in S!Session
      BY <1>3 DEF S!SessionsTypeOK
    <3>2. session'[q].token \in Requests
      BY <2>2, <3>1 DEF S!Session
    <3> QED
      BY <1>2, <2>1, <2>2, <3>2 DEF TokenRight
  <2>3. \A t \in Requests \ {r} : mail'[t] = mail[t] /\ session'[t] = session[t]
    BY <1>1, <1>2 DEF MailMoves
  <2> QED
    BY <2>1, <2>2, <2>3 DEF TokensRight, TokenRight, RequestMoves
<1> QED
  BY <1>3, <1>5, <1>6, <1>7, <1>8, <1>9 DEF SessionsIInv, SessionsInv, NothingReplaced

\* A request begins with the row that it read, and ends with what it asked for.
LEMMA SessionBegins ==
    ASSUME SessionsIInv, NEW r \in Requests, NEW s \in S!Session, S!Begin(r, s)
    PROVE  /\ session[r].pc = "idle"
           /\ session' = [session EXCEPT ![r] = session'[r]]
           /\ session'[r] \in S!Session
           /\ session'[r].before = S!Answered
           /\ session'[r].op = s.op /\ session'[r].pc = s.pc /\ session'[r].pass = s.pass
           /\ session'[r].token = s.token /\ session'[r].hash = s.hash
<1>1. session \in [Requests -> S!Session] /\ S!Answered \in SUBSET Requests
  BY DEF SessionsIInv, S!SessionsTypeOK, S!Answered
<1>2. /\ [s EXCEPT !.before = S!Answered] \in S!Session
      /\ [s EXCEPT !.before = S!Answered].before = S!Answered
      /\ [s EXCEPT !.before = S!Answered].op = s.op
      /\ [s EXCEPT !.before = S!Answered].pc = s.pc
      /\ [s EXCEPT !.before = S!Answered].pass = s.pass
      /\ [s EXCEPT !.before = S!Answered].token = s.token
      /\ [s EXCEPT !.before = S!Answered].hash = s.hash
  BY <1>1 DEF S!Session
<1>3. /\ session[r].pc = "idle"
      /\ session' = [session EXCEPT ![r] = [s EXCEPT !.before = S!Answered]]
  BY DEF S!Begin
<1> QED
  BY <1>1, <1>2, <1>3

LEMMA SessionEnds ==
    ASSUME SessionsIInv, NEW r \in Requests, NEW pc \in {"done", "refused", "failed"},
           S!SessionEnd(r, pc)
    PROVE  /\ session' = [session EXCEPT ![r] = session'[r]]
           /\ session'[r] \in S!Session
           /\ session'[r].before = session[r].before
           /\ session'[r].op = session[r].op
           /\ session'[r].token = session[r].token
           /\ session'[r].pc = pc
           /\ session[r].op = "login" =>
                session'[r].hash = session[r].hash /\ session'[r].pass = session[r].pass
<1>1. session \in [Requests -> S!Session]
  BY DEF SessionsIInv, S!SessionsTypeOK
<1>2. session[r] \in S!Session
  BY <1>1
<1>3. S!NoHash \in S!Hash
  BY DEF S!NoHash, S!Hash
<1> DEFINE s == session[r]
           a == [s EXCEPT !.pc = pc]
           b == [s EXCEPT !.pc = pc, !.pass = None, !.old = None, !.hash = S!NoHash]
<1>4. session' = [session EXCEPT ![r] = IF s.op = "login" THEN a ELSE b]
  BY DEF S!SessionEnd
<1>5. /\ a \in S!Session /\ a.before = s.before /\ a.op = s.op /\ a.token = s.token /\ a.pc = pc
      /\ a.hash = s.hash /\ a.pass = s.pass
  BY <1>2 DEF S!Session
<1>6. /\ b \in S!Session /\ b.before = s.before /\ b.op = s.op /\ b.token = s.token /\ b.pc = pc
  BY <1>2, <1>3 DEF S!Session
<1>7. session'[r] = IF s.op = "login" THEN a ELSE b
  BY <1>1, <1>4
<1> HIDE DEF a, b
<1> QED
  BY <1>4, <1>5, <1>6, <1>7

\* A token that somebody holds was made by an operation that ended: of the id of the
\* user where the mail was for the page of a forgotten password, of his address where it
\* was for the page of a registration.
LEMMA HeldTokens ==
    ASSUME SessionsIInv, NEW t \in Requests, S!Held(t)
    PROVE  /\ session[t].pc = "done"
           /\ mail[t].template = "verify" => ~S!HasId(t)
           /\ mail[t].template = "reset" => S!HasId(t)
<1>1. MailFits(mail[t], session[t])
  BY DEF SessionsIInv, SessionsInv, MailsFit
<1> QED
  BY <1>1 DEF MailFits, S!Held, S!HasId

\* What begins ends nothing, or writes a password of its own.
LEMMA BeginKeeps ==
    ASSUME SessionsIInv, NEW r \in Requests, NEW p \in Passwords \cup {None},
           \/ S!Register(r, p) \/ S!LoginRead(r, p) \/ S!ForgotPassword(r)
           \/ \E t \in Requests : S!VerifyRead(r, t) \/ S!ResetRead(r, t, p)
           \/ \E old \in Passwords \cup {None} : S!ChangeRead(r, p, old)
    PROVE  SessionsIInv'
<1>1. /\ password \in S!Hash /\ active \in BOOLEAN /\ registered \in BOOLEAN
      /\ ~S!Replaced(password, S!Answered)
  BY DEF SessionsIInv, SessionsInv, S!SessionsTypeOK, NothingReplaced
<1>2. /\ S!IdleSession \in S!Session
      /\ S!IdleSession.op = "none" /\ S!IdleSession.token = None
  BY IdleSessionType DEF S!IdleSession
<1>3. CASE S!Register(r, p)
  <2> DEFINE s == [S!IdleSession EXCEPT !.op = "register", !.pc = "done"]
  <2>1. s \in S!Session /\ s.op = "register" /\ s.pc = "done" /\ s.token = None
    BY <1>2 DEF S!Session, S!Operation
  <2>2. /\ S!Begin(r, s) /\ registered' = TRUE /\ password' = [of |-> p, by |-> r]
        /\ S!Emit(r, "user.verify", TRUE) /\ UNCHANGED <<active, expired>>
    BY <1>3 DEF S!Register
  <2> HIDE DEF s
  <2>3. RequestMoves(r)
    BY <1>1, <2>1, <2>2, SessionBegins DEF RequestMoves, LoginRight, TokenRight
  <2>4. PasswordMoves(r)
    BY <2>2 DEF PasswordMoves, S!Hash
  <2>5. MailMoves(r)
    <3> DEFINE m == [pc |-> "sending", template |-> "verify", linked |-> TRUE]
    <3>1. mail' = [mail EXCEPT ![r] = m] /\ mail \in [Requests -> S!Mail]
      BY <2>2 DEF S!Emit, S!MailOf, S!Content, S!verify_email_template, SessionsIInv,
                  S!SessionsTypeOK
    <3>2. m \in S!Mail /\ MailFits(m, session'[r])
      BY <2>1, <2>2, SessionBegins DEF S!Mail, MailFits
    <3>3. session'[r].pc = "done"
      BY <2>1, <2>2, SessionBegins
    <3> HIDE DEF m
    <3> QED
      BY <3>1, <3>2, <3>3 DEF MailMoves
  <2> QED
    BY <2>3, <2>4, <2>5, RequestKeeps
<1>4. CASE S!LoginRead(r, p)
  <2> DEFINE s == [S!IdleSession EXCEPT !.op = "login", !.pass = p, !.hash = password,
                      !.pc = IF S!HasPassWord THEN "read" ELSE "refused"]
  <2>1. /\ s \in S!Session /\ s.op = "login" /\ s.pc \in {"read", "refused"} /\ s.token = None
        /\ s.hash = password
    BY <1>1, <1>2 DEF S!Session, S!Operation
  <2>2. S!Begin(r, s) /\ UNCHANGED <<registered, active, password, expired, mail>>
    BY <1>4 DEF S!LoginRead
  <2> HIDE DEF s
  <2>3. RequestMoves(r)
    BY <1>1, <2>1, <2>2, SessionBegins DEF RequestMoves, LoginRight, TokenRight
  <2> QED
    BY <2>1, <2>2, <2>3, SessionBegins, RequestKeeps DEF PasswordMoves, MailMoves
<1>5. CASE S!ForgotPassword(r)
  <2> DEFINE s == [S!IdleSession EXCEPT !.op = "forgot", !.pc = "done"]
  <2>1. s \in S!Session /\ s.op = "forgot" /\ s.pc = "done" /\ s.token = None
    BY <1>2 DEF S!Session, S!Operation
  <2>2. /\ S!Begin(r, s) /\ S!Emit(r, "user.forgot", TRUE)
        /\ UNCHANGED <<registered, active, password, expired>>
    BY <1>5 DEF S!ForgotPassword
  <2> HIDE DEF s
  <2>3. RequestMoves(r) /\ PasswordMoves(r)
    BY <1>1, <2>1, <2>2, SessionBegins DEF RequestMoves, LoginRight, TokenRight, PasswordMoves
  <2>4. MailMoves(r)
    <3> DEFINE m == [pc |-> "sending", template |-> "reset", linked |-> TRUE]
    <3>1. mail' = [mail EXCEPT ![r] = m] /\ mail \in [Requests -> S!Mail]
      BY <2>2 DEF S!Emit, S!MailOf, S!Content, S!resetPasswordTemplate, SessionsIInv,
                  S!SessionsTypeOK
    <3>2. m \in S!Mail /\ MailFits(m, session'[r])
      BY <2>1, <2>2, SessionBegins DEF S!Mail, MailFits
    <3>3. session'[r].pc = "done"
      BY <2>1, <2>2, SessionBegins
    <3> HIDE DEF m
    <3> QED
      BY <3>1, <3>2, <3>3 DEF MailMoves
  <2> QED
    BY <2>3, <2>4, RequestKeeps
<1>6. ASSUME NEW t \in Requests, S!VerifyRead(r, t) PROVE SessionsIInv'
  <2> DEFINE s == [S!IdleSession EXCEPT !.op = "verify", !.token = t, !.hash = password,
                      !.pc = IF S!Verifies(t) /\ ~S!HasId(t) THEN "read" ELSE "refused"]
  <2>1. /\ s \in S!Session /\ s.op = "verify" /\ s.pc \in {"read", "refused"} /\ s.token = t
        /\ s.pc = "refused" => ~S!Verifies(t) \/ S!HasId(t)
    BY <1>1, <1>2 DEF S!Session, S!Operation
  <2>2. /\ S!Begin(r, s) /\ S!Held(t)
        /\ UNCHANGED <<registered, active, password, expired, mail>>
    BY <1>6 DEF S!VerifyRead
  <2> HIDE DEF s
  <2>3. TokenRight(s)
    BY <2>1, <2>2, HeldTokens DEF TokenRight, S!Verifies
  <2>4. RequestMoves(r)
    BY <1>1, <2>1, <2>2, <2>3, SessionBegins DEF RequestMoves, LoginRight, TokenRight
  <2> QED
    BY <2>1, <2>2, <2>4, SessionBegins, RequestKeeps DEF PasswordMoves, MailMoves
<1>7. ASSUME NEW t \in Requests, S!ResetRead(r, t, p) PROVE SessionsIInv'
  <2> DEFINE s == [S!IdleSession EXCEPT !.op = "reset", !.token = t, !.pass = p, !.hash = password,
                      !.pc = IF S!Verifies(t) /\ S!HasId(t) THEN "read" ELSE "refused"]
  <2>1. /\ s \in S!Session /\ s.op = "reset" /\ s.pc \in {"read", "refused"} /\ s.token = t
        /\ s.pc = "refused" => ~S!Verifies(t) \/ ~S!HasId(t)
    BY <1>1, <1>2 DEF S!Session, S!Operation
  <2>2. /\ S!Begin(r, s) /\ S!Held(t)
        /\ UNCHANGED <<registered, active, password, expired, mail>>
    BY <1>7 DEF S!ResetRead
  <2> HIDE DEF s
  <2>3. TokenRight(s)
    BY <2>1, <2>2, HeldTokens DEF TokenRight, S!Verifies
  <2>4. RequestMoves(r)
    BY <1>1, <2>1, <2>2, <2>3, SessionBegins DEF RequestMoves, LoginRight, TokenRight
  <2> QED
    BY <2>1, <2>2, <2>4, SessionBegins, RequestKeeps DEF PasswordMoves, MailMoves
<1>8. ASSUME NEW old \in Passwords \cup {None}, S!ChangeRead(r, p, old) PROVE SessionsIInv'
  <2> DEFINE s == [S!IdleSession EXCEPT !.op = "change", !.pass = p, !.old = old,
                      !.hash = password, !.pc = IF old = p THEN "refused" ELSE "read"]
  <2>1. s \in S!Session /\ s.op = "change" /\ s.pc \in {"read", "refused"} /\ s.token = None
    BY <1>1, <1>2 DEF S!Session, S!Operation
  <2>2. S!Begin(r, s) /\ UNCHANGED <<registered, active, password, expired, mail>>
    BY <1>8 DEF S!ChangeRead
  <2> HIDE DEF s
  <2>3. RequestMoves(r)
    BY <1>1, <2>1, <2>2, SessionBegins DEF RequestMoves, LoginRight, TokenRight
  <2> QED
    BY <2>1, <2>2, <2>3, SessionBegins, RequestKeeps DEF PasswordMoves, MailMoves
<1> QED
  BY <1>3, <1>4, <1>5, <1>6, <1>7, <1>8

\* What ends has written a password of its own, or none.
LEMMA EndKeeps ==
    ASSUME SessionsIInv, NEW r \in Requests,
           \/ S!LoginCompare(r) \/ S!VerifyCommit(r) \/ S!ResetCommit(r)
           \/ S!ChangeCommit(r) \/ S!ChangeRefused(r) \/ S!SessionFail(r)
    PROVE  SessionsIInv'
<1>1. /\ session[r] \in S!Session /\ active \in BOOLEAN /\ registered \in BOOLEAN
      /\ session[r].before \subseteq S!Answered
      /\ LoginRight(session[r]) /\ TokenRight(session[r])
      /\ mail \in [Requests -> S!Mail]
  BY DEF SessionsIInv, SessionsInv, S!SessionsTypeOK, NothingReplaced, BeforeAnswered, TokensRight
<1>2. ASSUME NEW pc \in {"done", "refused", "failed"}, S!SessionEnd(r, pc),
             session[r].pc \in {"idle", "read"},
             expired' = expired, active' \in BOOLEAN, registered' \in BOOLEAN,
             session[r].op = "login" =>
                session[r].pc = "read" \/ pc = "failed",
             session[r].op = "login" /\ pc = "done" => session[r].pass = session[r].hash.of,
             pc = "refused" => session[r].op \in {"login", "change"}
      PROVE  RequestMoves(r)
  <2>1. LoginRight(session'[r])
    BY <1>1, <1>2, SessionEnds DEF LoginRight
  <2>2. TokenRight(session'[r])
    BY <1>1, <1>2, SessionEnds DEF TokenRight
  <2> QED
    BY <1>1, <1>2, <2>1, <2>2, SessionEnds DEF RequestMoves
<1>3. CASE S!LoginCompare(r)
  <2>1. PICK pc \in {"done", "refused"} :
          /\ S!SessionEnd(r, pc)
          /\ session[r].op = "login" /\ session[r].pc = "read"
          /\ pc = "done" => session[r].pass = session[r].hash.of
          /\ UNCHANGED <<registered, active, password, expired, mail>>
    BY <1>3 DEF S!LoginCompare
  <2>2. RequestMoves(r)
    BY <1>1, <1>2, <2>1
  <2> QED
    BY <2>1, <2>2, SessionEnds, RequestKeeps DEF PasswordMoves, MailMoves
<1>4. CASE S!VerifyCommit(r)
  <2>1. /\ S!SessionEnd(r, "done") /\ session[r].op = "verify" /\ session[r].pc = "read"
        /\ active' = TRUE /\ UNCHANGED <<registered, password, expired, mail>>
    BY <1>4 DEF S!VerifyCommit
  <2>2. RequestMoves(r)
    BY <1>1, <1>2, <2>1
  <2> QED
    BY <2>1, <2>2, SessionEnds, RequestKeeps DEF PasswordMoves, MailMoves
<1>5. CASE S!ResetCommit(r)
  <2>1. /\ S!SessionEnd(r, "done") /\ session[r].op = "reset" /\ session[r].pc = "read"
        /\ password' = [of |-> session[r].pass, by |-> r]
        /\ UNCHANGED <<registered, active, expired, mail>>
    BY <1>5 DEF S!ResetCommit
  <2>2. RequestMoves(r)
    BY <1>1, <1>2, <2>1
  <2>3. PasswordMoves(r)
    BY <1>1, <2>1 DEF PasswordMoves, S!Hash, S!Session
  <2> QED
    BY <2>1, <2>2, <2>3, RequestKeeps DEF MailMoves
<1>6. CASE S!ChangeCommit(r)
  <2>1. /\ S!SessionEnd(r, "done") /\ session[r].op = "change" /\ session[r].pc = "read"
        /\ password' = [of |-> session[r].pass, by |-> r]
        /\ S!Emit(r, "user.forgot", FALSE)
        /\ UNCHANGED <<registered, active, expired>>
    BY <1>6 DEF S!ChangeCommit
  <2>2. RequestMoves(r)
    BY <1>1, <1>2, <2>1
  <2>3. PasswordMoves(r)
    BY <1>1, <2>1 DEF PasswordMoves, S!Hash, S!Session
  <2>4. MailMoves(r)
    <3> DEFINE m == [pc |-> "sending", template |-> "reset", linked |-> FALSE]
    <3>1. mail' = [mail EXCEPT ![r] = m]
      BY <2>1 DEF S!Emit, S!MailOf, S!Content, S!resetPasswordTemplate
    <3>2. m \in S!Mail /\ MailFits(m, session'[r])
      BY <2>1, SessionEnds DEF S!Mail, MailFits
    <3>3. session'[r].pc = "done"
      BY <2>1, SessionEnds
    <3> HIDE DEF m
    <3> QED
      BY <1>1, <3>1, <3>2, <3>3 DEF MailMoves
  <2> QED
    BY <2>2, <2>3, <2>4, RequestKeeps
<1>7. CASE S!ChangeRefused(r)
  <2>1. /\ S!SessionEnd(r, "refused") /\ session[r].op = "change" /\ session[r].pc = "read"
        /\ UNCHANGED <<registered, active, password, expired, mail>>
    BY <1>7 DEF S!ChangeRefused
  <2>2. RequestMoves(r)
    BY <1>1, <1>2, <2>1
  <2> QED
    BY <2>1, <2>2, SessionEnds, RequestKeeps DEF PasswordMoves, MailMoves
<1>8. CASE S!SessionFail(r)
  <2>1. /\ S!SessionEnd(r, "failed") /\ session[r].pc \in {"idle", "read"}
        /\ UNCHANGED <<registered, active, password, expired, mail>>
    BY <1>8 DEF S!SessionFail
  <2>2. RequestMoves(r)
    BY <1>1, <1>2, <2>1
  <2> QED
    BY <2>1, <2>2, SessionEnds, RequestKeeps DEF PasswordMoves, MailMoves
<1> QED
  BY <1>3, <1>4, <1>5, <1>6, <1>7, <1>8

\* A mail arrives or is lost, a token expires.
LEMMA MailKeeps ==
    ASSUME SessionsIInv, NEW r \in Requests, S!SendMail(r) \/ S!Expire(r)
    PROVE  SessionsIInv'
<1>1. /\ session' = session /\ password' = password /\ expired \subseteq expired'
      /\ expired' \in SUBSET Requests
      /\ active' = active /\ registered' = registered
  BY DEF S!SendMail, S!Expire, SessionsIInv, S!SessionsTypeOK
<1>2. mail \in [Requests -> S!Mail]
  BY DEF SessionsIInv, S!SessionsTypeOK
<1>3. /\ mail' \in [Requests -> S!Mail]
      /\ \A t \in Requests :
          /\ mail'[t].template = mail[t].template
          /\ mail'[t].linked = mail[t].linked
          /\ mail'[t].pc = "none" <=> mail[t].pc = "none"
  <2>1. CASE S!SendMail(r)
    <3>1. PICK pc \in {"delivered", "lost"} : mail' = [mail EXCEPT ![r].pc = pc]
      BY <2>1 DEF S!SendMail
    <3>2. mail[r].pc = "sending" /\ mail[r] \in S!Mail
      BY <1>2, <2>1 DEF S!SendMail
    <3>3. [mail[r] EXCEPT !.pc = pc] \in S!Mail
      BY <3>2 DEF S!Mail
    <3>4. mail' = [mail EXCEPT ![r] = [mail[r] EXCEPT !.pc = pc]]
      BY <3>1
    <3> QED
      BY <1>2, <3>2, <3>3, <3>4 DEF S!Mail
  <2>2. CASE S!Expire(r)
    BY <1>2, <2>2 DEF S!Expire
  <2> QED
    BY <2>1, <2>2
<1>4. S!SessionsTypeOK'
  BY <1>1, <1>3 DEF SessionsIInv, S!SessionsTypeOK
<1>5. BeforeAnswered' /\ NothingReplaced'
  BY <1>1
  DEF SessionsIInv, SessionsInv, BeforeAnswered, NothingReplaced, LoginRight, S!Replaced, S!Writes,
      S!Answered
<1>6. MailsFit'
  BY <1>1, <1>3 DEF SessionsIInv, SessionsInv, MailsFit, MailFits
<1>7. TokensRight'
  <2>1. ASSUME NEW q \in Requests PROVE TokenRight(session[q])
    BY DEF SessionsIInv, SessionsInv, TokensRight
  <2>2. \A q \in Requests : session[q].token \in Requests \cup {None}
    BY DEF SessionsIInv, S!SessionsTypeOK, S!Session
  <2> QED
    BY <1>1, <1>3, <2>1, <2>2 DEF TokensRight, TokenRight
<1> QED
  BY <1>4, <1>5, <1>6, <1>7 DEF SessionsIInv, SessionsInv

\* A request that was cut off ends without an answer, and its mail is lost.
LEMMA SessionsRestart == SessionsIInv /\ S!RestartSessions => SessionsIInv'
<1> SUFFICES ASSUME SessionsIInv, S!RestartSessions PROVE SessionsIInv'
  OBVIOUS
<1>1. /\ UNCHANGED <<registered, active, password, expired>>
      /\ session \in [Requests -> S!Session] /\ mail \in [Requests -> S!Mail]
  BY DEF S!RestartSessions, SessionsIInv, S!SessionsTypeOK
<1>2. ASSUME NEW q \in Requests
      PROVE  /\ session'[q] \in S!Session
             /\ session[q].pc # "read" => session'[q] = session[q]
             /\ session[q].pc = "read" =>
                  /\ session'[q].pc = "failed" /\ session'[q].token = None
                  /\ session'[q].before = {}
  <2> DEFINE s == [S!IdleSession EXCEPT !.op = session[q].op, !.pc = "failed"]
  <2>1. session'[q] = IF session[q].pc = "read" THEN s ELSE session[q]
    BY DEF S!RestartSessions
  <2>2. session[q] \in S!Session /\ session[q].op \in S!Operation
    BY <1>1 DEF S!Session
  <2>3. s \in S!Session
    BY <2>2, IdleSessionType DEF S!Session
  <2>4. s.pc = "failed" /\ s.token = None /\ s.before = {}
    BY DEF S!IdleSession
  <2> HIDE DEF s
  <2> QED
    BY <2>1, <2>2, <2>3, <2>4
<1>3. ASSUME NEW q \in Requests
      PROVE  /\ mail'[q] \in S!Mail
             /\ mail'[q].template = mail[q].template
             /\ mail'[q].linked = mail[q].linked
             /\ mail'[q].pc = "none" <=> mail[q].pc = "none"
  <2>1. mail'[q] = IF mail[q].pc = "sending" THEN [mail[q] EXCEPT !.pc = "lost"] ELSE mail[q]
    BY DEF S!RestartSessions
  <2> QED
    BY <1>1, <2>1 DEF S!Mail
<1>4. S!SessionsTypeOK'
  <2>1. session' \in [Requests -> S!Session] /\ mail' \in [Requests -> S!Mail]
    BY <1>2, <1>3 DEF S!RestartSessions
  <2> QED
    BY <1>1, <2>1 DEF SessionsIInv, S!SessionsTypeOK
<1>5. /\ S!Answered' = S!Answered
      /\ S!Answered \subseteq Requests
      /\ \A w \in S!Answered : session'[w] = session[w]
  BY <1>2 DEF S!Answered
<1>6. BeforeAnswered'
  BY <1>2, <1>5 DEF SessionsIInv, SessionsInv, BeforeAnswered
<1>7. NothingReplaced'
  <2>1. ~S!Replaced(password, S!Answered)'
    BY <1>1, <1>5 DEF SessionsIInv, SessionsInv, NothingReplaced, S!Replaced, S!Writes
  <2>2. ASSUME NEW q \in Requests PROVE LoginRight(session[q])'
    <3>1. LoginRight(session'[q]) /\ session'[q].before \subseteq S!Answered
      BY <1>2, <1>5, <1>6 DEF SessionsIInv, SessionsInv, NothingReplaced, LoginRight, BeforeAnswered
    <3> QED
      BY <1>5, <3>1 DEF LoginRight, S!Replaced, S!Writes
  <2> QED
    BY <2>1, <2>2 DEF NothingReplaced
<1>8. MailsFit'
  <2>1. ASSUME NEW q \in Requests PROVE MailFits(mail'[q], session'[q])
    <3>1. MailFits(mail[q], session[q])
      BY DEF SessionsIInv, SessionsInv, MailsFit
    <3> QED
      BY <1>2, <1>3, <3>1 DEF MailFits
  <2> QED
    BY <2>1 DEF MailsFit, MailFits
<1>9. TokensRight'
  <2>1. ASSUME NEW q \in Requests PROVE TokenRight(session'[q])
    BY <1>2 DEF SessionsIInv, SessionsInv, TokensRight, TokenRight
  <2>2. \A q \in Requests : session'[q].token \in Requests \cup {None}
    BY <1>2 DEF S!Session
  <2> QED
    BY <1>1, <1>2, <1>3, <2>1, <2>2 DEF TokensRight, TokenRight
<1> QED
  BY <1>4, <1>6, <1>7, <1>8, <1>9 DEF SessionsIInv, SessionsInv

LEMMA SessionsStepKeeps ==
    ASSUME SessionsIInv, PasswordMove \/ UNCHANGED passwordVars
    PROVE  SessionsIInv'
<1>1. CASE UNCHANGED passwordVars
  <2>1. /\ S!SessionsTypeOK' = S!SessionsTypeOK
        /\ SessionsInv' = SessionsInv
    BY <1>1
    DEF passwordVars, S!SessionsTypeOK, SessionsInv, BeforeAnswered, NothingReplaced, LoginRight,
        MailsFit, MailFits, TokensRight, TokenRight, S!Replaced, S!Writes, S!Answered
  <2> QED
    BY <2>1 DEF SessionsIInv
<1>2. ASSUME NEW r \in Requests, S!ForgotPassword(r) \/ \E t \in Requests : S!VerifyRead(r, t)
      PROVE  SessionsIInv'
  <2>1. None \in Passwords \cup {None}
    OBVIOUS
  <2> QED
    BY <1>2, <2>1, BeginKeeps
<1> QED
  BY <1>1, <1>2, BeginKeeps, EndKeeps, MailKeeps, SessionsRestart DEF PasswordMove, PasswordMethod

LEMMA SessionsAlways == Spec => []SessionsIInv
<1>1. SessionsIInv /\ [Next]_vars => SessionsIInv'
  BY ServerStep, SessionsStepKeeps
<1> QED
  BY <1>1, SessionsStart, PTL DEF Spec

\* The password is that of the last request answered, and a login is let in with one
\* that nothing answered before it had replaced, although every one reads the row,
\* awaits bcrypt and writes by the user's id while others do the same (login,
\* resetPassword, changePassword).
THEOREM PasswordsOrdered == Spec => []PasswordsInOrder
<1>1. SessionsIInv => PasswordsInOrder
  BY DEF SessionsIInv, SessionsInv, NothingReplaced, LoginRight, PasswordsInOrder,
         S!PasswordsInOrder, S!Answered
<1> QED
  BY <1>1, SessionsAlways, PTL

\* The page that a mailed link opens accepts its token until it expires: template, page
\* and payload fit, for every mail that any request led to (EmailService, verifyEmail,
\* resetPassword).
THEOREM LinksWork == Spec => []MailedLinksWork
<1>1. SessionsIInv => MailedLinksWork
  BY ServerAssumption
  DEF SessionsIInv, SessionsInv, TokensRight, TokenRight, MailedLinksWork, S!MailedLinksWork
<1> QED
  BY <1>1, SessionsAlways, PTL

-----------------------------------------------------------------------------
(* Notifications *)

InProgress(r) == note[r].pc \in {"push", "publish"}

\* Who is shown a row is its user; so it is with the row that will be pushed.
RowsShownToOwner ==
    /\ \A c \in Clients : \A n \in conn[c].notes :
        n \in DOMAIN notes /\ notes[n].user = conn[c].user
    /\ \A r \in Requests : note[r].pc = "push" =>
        note[r].row \in DOMAIN notes /\ notes[note[r].row].user = note[r].user

\* The request of a user, one at a time unless they overlapped, will publish the
\* count as it is,
CountsFresh ==
    \A r \in Requests : InProgress(r) =>
        /\ note[r].user \in Users
        /\ note[r].user \notin disturbed =>
            /\ note[r].count = N!CountUnseen(notes, note[r].user)
            /\ \A q \in Requests : InProgress(q) /\ note[q].user = note[r].user => q = r

\* and the one that is shown is right when no request is under way.
CountsShown ==
    \A c \in Clients : conn[c].count # N!NoCount =>
        /\ conn[c].user \in Users
        /\ conn[c].user \notin disturbed /\ ~N!Busy(conn[c].user) =>
            conn[c].count = N!CountUnseen(notes, conn[c].user)

NotesIInv == N!NotificationsTypeOK /\ RowsShownToOwner /\ CountsFresh /\ CountsShown

Row == [user : Users, seen : BOOLEAN]

LEMMA CountUnseenType ==
    ASSUME NEW rows \in Seq(Row), NEW u
    PROVE  N!CountUnseen(rows, u) \in Nat
<1> DEFINE unseen == {n \in DOMAIN rows : rows[n].user = u /\ ~rows[n].seen}
<1>1. IsFiniteSet(1 .. Len(rows))
  BY FS_Interval
<1>2. unseen \subseteq 1 .. Len(rows)
  OBVIOUS
<1>3. IsFiniteSet(unseen)
  BY <1>1, <1>2, FS_Subset
<1>4. Cardinality(unseen) \in Nat
  BY <1>3, FS_CardinalityType
<1>5. N!Cardinality(unseen) = Cardinality(unseen)
  BY DEF N!Cardinality, Cardinality
<1> QED
  BY <1>4, <1>5 DEF N!CountUnseen

LEMMA IdleNoteType ==
    /\ N!IdleNote \in N!Note
    /\ \A pc \in {"done", "failed"} :
        /\ [N!IdleNote EXCEPT !.pc = pc] \in N!Note
        /\ [N!IdleNote EXCEPT !.pc = pc].pc = pc
BY DEF N!IdleNote, N!Note

LEMMA OfflineFields ==
    N!Offline.user = Anonymous /\ N!Offline.count = N!NoCount /\ N!Offline.notes = {}
BY DEF N!Offline

LEMMA ConnectionType == N!Connection \cup {N!Offline} = N!Connection
<1>1. N!Offline \in N!Connection
  <2>1. N!NoCount \in Int
    BY DEF N!NoCount
  <2> QED
    BY <2>1 DEF N!Connection, N!Offline
<1> QED
  BY <1>1

LEMMA NotesStart == Init => NotesIInv
<1> SUFFICES ASSUME Init PROVE NotesIInv
  OBVIOUS
<1>1. /\ notes = << >> /\ disturbed = {}
      /\ conn = [c \in Clients |-> N!Offline] /\ note = [r \in Requests |-> N!IdleNote]
  BY DEF Init, N!NotificationsInit
<1>2. N!IdleNote.pc = "idle"
  BY DEF N!IdleNote
<1>3. N!NotificationsTypeOK
  BY <1>1, IdleNoteType DEF N!NotificationsTypeOK
<1> QED
  BY <1>1, <1>2, <1>3, OfflineFields
  DEF NotesIInv, RowsShownToOwner, CountsFresh, CountsShown, InProgress

\* A batch leaves the rows to their users, and what it changes for others is marked.
BatchOf(r, u, pc, rows, row) ==
    /\ N!Batch(r, u, pc, rows, row)
    /\ pc = "push" => row \in DOMAIN rows /\ rows[row].user = u
    /\ disturbed' \in SUBSET Users /\ disturbed \subseteq disturbed'
    /\ N!Busy(u) => u \in disturbed'
    /\ DOMAIN notes \subseteq DOMAIN rows
    /\ \A n \in DOMAIN notes : rows[n].user = notes[n].user
    /\ \A v \in Users \ {u} :
        v \notin disturbed' => N!CountUnseen(rows, v) = N!CountUnseen(notes, v)

LEMMA BatchKeeps ==
    ASSUME NotesIInv, NEW r \in Requests, NEW u \in Users, NEW pc \in {"push", "publish"},
           NEW rows \in Seq(Row), NEW row \in Nat, BatchOf(r, u, pc, rows, row)
    PROVE  NotesIInv'
<1> DEFINE m == [pc |-> pc, user |-> u, row |-> row, count |-> N!CountUnseen(rows, u)]
<1>1. /\ notes \in Seq(Row) /\ conn \in [Clients -> N!Connection \cup {N!Offline}]
      /\ note \in [Requests -> N!Note] /\ disturbed \in SUBSET Users
  BY DEF NotesIInv, N!NotificationsTypeOK, Row
<1>2. /\ note[r].pc = "idle" /\ notes' = rows /\ conn' = conn
      /\ note' = [note EXCEPT ![r] = m]
  BY DEF BatchOf, N!Batch
<1>3. /\ m \in N!Note /\ m.pc = pc /\ m.user = u /\ m.row = row
      /\ m.count = N!CountUnseen(rows, u)
  BY CountUnseenType DEF N!Note
<1> HIDE DEF m
<1>4. /\ note' \in [Requests -> N!Note] /\ note'[r] = m
      /\ \A q \in Requests \ {r} : note'[q] = note[q]
  BY <1>1, <1>2, <1>3
<1>5. N!NotificationsTypeOK'
  BY <1>1, <1>2, <1>4 DEF N!NotificationsTypeOK, BatchOf, Row
<1>6. RowsShownToOwner'
  BY <1>2, <1>3, <1>4 DEF NotesIInv, RowsShownToOwner, BatchOf
<1>7. CountsFresh'
  <2> SUFFICES ASSUME NEW q \in Requests, InProgress(q)'
               PROVE  /\ note'[q].user \in Users
                      /\ note'[q].user \notin disturbed' =>
                          /\ note'[q].count = N!CountUnseen(rows, note'[q].user)
                          /\ \A s \in Requests :
                              InProgress(s)' /\ note'[s].user = note'[q].user => s = q
    BY <1>2 DEF CountsFresh, N!CountUnseen
  <2>1. \A s \in Requests \ {r} : InProgress(s)' <=> InProgress(s)
    BY <1>4 DEF InProgress
  <2>2. u \notin disturbed' => \A s \in Requests \ {r} : ~(InProgress(s)' /\ note'[s].user = u)
    BY <1>4, <2>1 DEF BatchOf, N!Busy, InProgress
  <2>3. CASE q = r
    BY <1>3, <1>4, <2>2, <2>3
  <2>4. CASE q # r
    <3>1. /\ note[q].user \in Users
          /\ note[q].user \notin disturbed =>
              /\ note[q].count = N!CountUnseen(notes, note[q].user)
              /\ \A s \in Requests : InProgress(s) /\ note[s].user = note[q].user => s = q
      BY <2>1, <2>4 DEF NotesIInv, CountsFresh
    <3>2. note[q].user = u => u \in disturbed'
      BY <1>4, <2>2, <2>4
    <3>3. note[q].user \notin disturbed' => note[q].user \notin disturbed
      BY DEF BatchOf
    <3>4. note[q].user \notin disturbed' =>
            N!CountUnseen(rows, note[q].user) = N!CountUnseen(notes, note[q].user)
      BY <3>1, <3>2 DEF BatchOf
    <3> QED
      BY <1>3, <1>4, <2>1, <2>4, <3>1, <3>2, <3>3, <3>4
  <2> QED
    BY <2>3, <2>4
<1>8. CountsShown'
  <2> SUFFICES ASSUME NEW c \in Clients, conn[c].count # N!NoCount
               PROVE  /\ conn[c].user \in Users
                      /\ conn[c].user \notin disturbed' /\ ~N!Busy(conn[c].user)' =>
                          conn[c].count = N!CountUnseen(rows, conn[c].user)
    BY <1>2 DEF CountsShown, N!CountUnseen, N!Busy
  <2>1. /\ conn[c].user \in Users
        /\ conn[c].user \notin disturbed /\ ~N!Busy(conn[c].user) =>
            conn[c].count = N!CountUnseen(notes, conn[c].user)
    BY DEF NotesIInv, CountsShown
  <2>2. CASE conn[c].user = u
    <3>1. N!Busy(conn[c].user)'
      BY <1>2, <1>3, <1>4, <2>2 DEF N!Busy
    <3> QED
      BY <2>1, <3>1
  <2>3. CASE conn[c].user # u
    <3>1. N!Busy(conn[c].user) => N!Busy(conn[c].user)'
      <4>1. \A s \in Requests : note[s].pc \in {"push", "publish"} => note'[s] = note[s]
        BY <1>2, <1>4
      <4> QED
        BY <1>2, <4>1 DEF N!Busy
    <3>2. conn[c].user \notin disturbed' =>
            /\ conn[c].user \notin disturbed
            /\ N!CountUnseen(rows, conn[c].user) = N!CountUnseen(notes, conn[c].user)
      BY <2>1, <2>3 DEF BatchOf
    <3> QED
      BY <2>1, <3>1, <3>2
  <2> QED
    BY <2>2, <2>3
<1> QED
  BY <1>5, <1>6, <1>7, <1>8 DEF NotesIInv

\* The three batches: a row is created, one is seen, all of a user are seen.
LEMMA RequestsBatch ==
    ASSUME NotesIInv, NEW r \in Requests, NEW u \in Users,
           \/ N!CreateNoti(r, u) \/ N!MarkAllNotisSeen(r, u)
           \/ \E n \in DOMAIN notes : N!SeenNotification(r, u, n)
    PROVE  NotesIInv'
<1>1. notes \in Seq(Row) /\ disturbed \in SUBSET Users
  BY DEF NotesIInv, N!NotificationsTypeOK, Row
<1>2. /\ DOMAIN notes = 1 .. Len(notes) /\ Len(notes) \in Nat
      /\ \A n \in DOMAIN notes : notes[n] \in Row
  BY <1>1
<1>3. CASE N!CreateNoti(r, u)
  <2> DEFINE new == [user |-> u, seen |-> FALSE]
             rows == Append(notes, new)
  <2>1. /\ N!Batch(r, u, "push", rows, Len(notes) + 1)
        /\ disturbed' = disturbed \cup {v \in {u} : N!Busy(v)}
    BY <1>3 DEF N!CreateNoti
  <2>2. new \in Row /\ new.user = u
    BY DEF Row
  <2> HIDE DEF new
  <2>3. /\ rows \in Seq(Row) /\ DOMAIN rows = 1 .. Len(notes) + 1
        /\ rows[Len(notes) + 1] = new
        /\ \A n \in DOMAIN notes : rows[n] = notes[n]
    BY <1>1, <2>2
  <2> HIDE DEF rows
  <2>4. DOMAIN notes \subseteq DOMAIN rows /\ DOMAIN rows = DOMAIN notes \cup {Len(notes) + 1}
    BY <1>2, <2>3
  <2>5. ASSUME NEW v \in Users \ {u} PROVE N!CountUnseen(rows, v) = N!CountUnseen(notes, v)
    <3>1. {n \in DOMAIN rows : rows[n].user = v /\ ~rows[n].seen}
            = {n \in DOMAIN notes : notes[n].user = v /\ ~notes[n].seen}
      BY <2>2, <2>3, <2>4
    <3> QED
      BY <3>1 DEF N!CountUnseen
  <2>6. BatchOf(r, u, "push", rows, Len(notes) + 1)
    BY <1>1, <2>1, <2>2, <2>3, <2>4, <2>5 DEF BatchOf
  <2> QED
    BY <1>2, <2>3, <2>6, BatchKeeps
<1>4. ASSUME NEW n \in DOMAIN notes, N!SeenNotification(r, u, n) PROVE NotesIInv'
  <2> DEFINE rows == [notes EXCEPT ![n].seen = TRUE]
  <2>1. /\ N!Batch(r, u, "publish", rows, n)
        /\ disturbed' = disturbed \cup {v \in {u} : N!Busy(v)} \cup ({notes[n].user} \ {u})
    BY <1>4 DEF N!SeenNotification
  <2>2. /\ [notes[n] EXCEPT !.seen = TRUE] \in Row
        /\ [notes[n] EXCEPT !.seen = TRUE].user = notes[n].user
        /\ notes[n].user \in Users
    BY <1>2 DEF Row
  <2>3. rows = [notes EXCEPT ![n] = [notes[n] EXCEPT !.seen = TRUE]]
    OBVIOUS
  <2> DEFINE seen == [notes[n] EXCEPT !.seen = TRUE]
  <2> HIDE DEF rows, seen
  <2>4. /\ DOMAIN rows = DOMAIN notes
        /\ rows[n] = seen
        /\ \A k \in DOMAIN notes \ {n} : rows[k] = notes[k]
    BY <2>3 DEF seen
  <2>5. seen \in Row /\ seen.user = notes[n].user /\ notes[n].user \in Users
    BY <2>2 DEF seen
  <2>6. rows \in Seq(Row)
    <3>1. \A k \in 1 .. Len(notes) : rows[k] \in Row
      BY <1>2, <2>4, <2>5
    <3>2. rows = [k \in 1 .. Len(notes) |-> rows[k]]
      BY <1>2, <2>3
    <3> QED
      BY <1>2, <3>1, <3>2
  <2>7. ASSUME NEW v \in Users \ {u}, v \notin disturbed'
        PROVE  N!CountUnseen(rows, v) = N!CountUnseen(notes, v)
    <3>1. notes[n].user # v
      BY <2>1, <2>7
    <3>2. {k \in DOMAIN rows : rows[k].user = v /\ ~rows[k].seen}
            = {k \in DOMAIN notes : notes[k].user = v /\ ~notes[k].seen}
      BY <2>4, <2>5, <3>1
    <3> QED
      BY <3>2 DEF N!CountUnseen
  <2>8. /\ disturbed' \in SUBSET Users /\ disturbed \subseteq disturbed'
        /\ N!Busy(u) => u \in disturbed'
    BY <1>1, <2>1, <2>5
  <2>9. BatchOf(r, u, "publish", rows, n)
    BY <2>1, <2>4, <2>5, <2>7, <2>8 DEF BatchOf
  <2> QED
    BY <1>2, <2>6, <2>9, BatchKeeps
<1>5. CASE N!MarkAllNotisSeen(r, u)
  <2> DEFINE rows == [n \in DOMAIN notes |->
                        [notes[n] EXCEPT !.seen = @ \/ notes[n].user = u]]
  <2>1. /\ N!Batch(r, u, "publish", rows, 0)
        /\ disturbed' = disturbed \cup {v \in {u} : N!Busy(v)}
    BY <1>5 DEF N!MarkAllNotisSeen
  <2>2. ASSUME NEW n \in DOMAIN notes
        PROVE  /\ rows[n] \in Row /\ rows[n].user = notes[n].user
               /\ notes[n].user # u => (rows[n].seen <=> notes[n].seen)
    BY <1>2 DEF Row
  <2>3. DOMAIN rows = DOMAIN notes
    OBVIOUS
  <2>4. rows \in Seq(Row)
    <3>1. rows = [n \in 1 .. Len(notes) |-> rows[n]]
      BY <1>2
    <3> HIDE DEF rows
    <3> QED
      BY <1>2, <2>2, <3>1
  <2> HIDE DEF rows
  <2>5. ASSUME NEW v \in Users \ {u} PROVE N!CountUnseen(rows, v) = N!CountUnseen(notes, v)
    <3>1. {k \in DOMAIN rows : rows[k].user = v /\ ~rows[k].seen}
            = {k \in DOMAIN notes : notes[k].user = v /\ ~notes[k].seen}
      BY <2>2, <2>3
    <3> QED
      BY <3>1 DEF N!CountUnseen
  <2>6. BatchOf(r, u, "publish", rows, 0)
    BY <1>1, <2>1, <2>2, <2>3, <2>5 DEF BatchOf
  <2> QED
    BY <2>4, <2>6, BatchKeeps
<1> QED
  BY <1>3, <1>4, <1>5

\* The requests that go on, or fewer, keep what they counted.
LEMMA FreshKept ==
    ASSUME NotesIInv, notes' = notes, disturbed \subseteq disturbed',
           \A q \in Requests : InProgress(q)' =>
                /\ InProgress(q)
                /\ note'[q].user = note[q].user /\ note'[q].count = note[q].count
    PROVE  CountsFresh'
<1> SUFFICES ASSUME NEW q \in Requests, InProgress(q)'
             PROVE  /\ note'[q].user \in Users
                    /\ note'[q].user \notin disturbed' =>
                        /\ note'[q].count = N!CountUnseen(notes', note'[q].user)
                        /\ \A s \in Requests :
                            InProgress(s)' /\ note'[s].user = note'[q].user => s = q
  BY DEF CountsFresh
<1>1. /\ note[q].user \in Users
      /\ note[q].user \notin disturbed =>
          /\ note[q].count = N!CountUnseen(notes, note[q].user)
          /\ \A s \in Requests : InProgress(s) /\ note[s].user = note[q].user => s = q
  BY DEF NotesIInv, CountsFresh
<1>2. note'[q].user = note[q].user /\ note'[q].count = note[q].count
  OBVIOUS
<1>3. \A s \in Requests : InProgress(s)' => InProgress(s) /\ note'[s].user = note[s].user
  OBVIOUS
<1> QED
  BY <1>1, <1>2, <1>3

\* What is published leaves the rows as they are.
LEMMA PublishKeeps ==
    ASSUME NotesIInv, NEW r \in Requests,
           N!PushNotification(r) \/ N!PublishUnseenNotisCount(r) \/ N!NoteFail(r)
    PROVE  NotesIInv'
<1>1. /\ notes \in Seq(Row) /\ conn \in [Clients -> N!Connection]
      /\ note \in [Requests -> N!Note] /\ disturbed \in SUBSET Users
  BY ConnectionType DEF NotesIInv, N!NotificationsTypeOK, Row
<1>2. notes' = notes
  BY DEF N!PushNotification, N!PublishUnseenNotisCount, N!NoteFail
<1>3. /\ note[r] \in N!Note /\ InProgress(r)
      /\ note[r].user \in Users
  BY <1>1
  DEF N!PushNotification, N!PublishUnseenNotisCount, N!NoteFail, InProgress, NotesIInv, CountsFresh
<1>4. CASE N!PushNotification(r)
  <2> DEFINE u == note[r].user
             sent(c) == [conn[c] EXCEPT !.notes = @ \cup {note[r].row}]
             next == [note[r] EXCEPT !.pc = "publish"]
  <2>1. /\ conn' = [c \in Clients |-> IF conn[c].user = u THEN sent(c) ELSE conn[c]]
        /\ note' = [note EXCEPT ![r] = next]
        /\ disturbed' = disturbed /\ note[r].pc = "push"
    BY <1>4 DEF N!PushNotification, N!Receives
  <2>2. /\ next \in N!Note /\ next.pc = "publish" /\ next.user = u
        /\ next.count = note[r].count
    BY <1>3 DEF N!Note
  <2>3. ASSUME NEW c \in Clients
        PROVE  /\ sent(c) \in N!Connection /\ sent(c).user = conn[c].user
               /\ sent(c).count = conn[c].count
               /\ sent(c).notes = conn[c].notes \cup {note[r].row}
    BY <1>1, <1>3 DEF N!Connection, N!Note
  <2> HIDE DEF next, sent
  <2>4. ASSUME NEW c \in Clients
        PROVE  /\ conn'[c] \in N!Connection /\ conn'[c].user = conn[c].user
               /\ conn'[c].count = conn[c].count
               /\ \/ conn'[c].notes = conn[c].notes
                  \/ conn[c].user = u /\ conn'[c].notes = conn[c].notes \cup {note[r].row}
    BY <1>1, <2>1, <2>3
  <2>5. ASSUME NEW q \in Requests
        PROVE  /\ note'[q] \in N!Note
               /\ note'[q].user = note[q].user /\ note'[q].count = note[q].count
               /\ InProgress(q)' <=> InProgress(q)
               /\ note'[q].pc = "push" => q # r
               /\ q # r => note'[q] = note[q]
    BY <1>1, <2>1, <2>2 DEF InProgress
  <2>6. N!NotificationsTypeOK'
    <3>1. conn' \in [Clients -> N!Connection]
      BY <2>1, <2>4
    <3>2. note' \in [Requests -> N!Note]
      BY <1>1, <2>1, <2>2
    <3> QED
      BY <1>1, <1>2, <2>1, <3>1, <3>2 DEF N!NotificationsTypeOK, Row
  <2>7. RowsShownToOwner'
    <3>1. note[r].row \in DOMAIN notes /\ notes[note[r].row].user = u
      BY <2>1 DEF NotesIInv, RowsShownToOwner
    <3> QED
      BY <1>2, <2>4, <2>5, <3>1 DEF NotesIInv, RowsShownToOwner
  <2>8. CountsFresh'
    BY <1>2, <2>1, <2>5, FreshKept
  <2>9. CountsShown'
    <3>1. \A v \in Users : N!Busy(v)' <=> N!Busy(v)
      BY <2>5 DEF N!Busy, InProgress
    <3> QED
      BY <1>2, <2>1, <2>4, <3>1 DEF NotesIInv, CountsShown, N!CountUnseen, N!Busy
  <2> QED
    BY <2>6, <2>7, <2>8, <2>9 DEF NotesIInv
<1>5. CASE N!PublishUnseenNotisCount(r)
  <2> DEFINE u == note[r].user
             sent(c) == [conn[c] EXCEPT !.count = note[r].count]
             next == [N!IdleNote EXCEPT !.pc = "done"]
  <2>1. /\ conn' = [c \in Clients |-> IF conn[c].user = u THEN sent(c) ELSE conn[c]]
        /\ note' = [note EXCEPT ![r] = next]
        /\ disturbed' = disturbed
    BY <1>5 DEF N!PublishUnseenNotisCount, N!Receives, N!NoteEnd
  <2>2. next \in N!Note /\ next.pc = "done"
    BY IdleNoteType
  <2>3. ASSUME NEW c \in Clients
        PROVE  /\ sent(c) \in N!Connection /\ sent(c).user = conn[c].user
               /\ sent(c).count = note[r].count /\ sent(c).notes = conn[c].notes
    <3>1. note[r].count \in Int
      BY <1>3 DEF N!Note
    <3> QED
      BY <1>1, <3>1 DEF N!Connection
  <2> HIDE DEF next, sent
  <2>4. ASSUME NEW c \in Clients
        PROVE  /\ conn'[c] \in N!Connection /\ conn'[c].user = conn[c].user
               /\ conn'[c].notes = conn[c].notes
               /\ conn'[c].count = IF conn[c].user = u THEN note[r].count ELSE conn[c].count
    BY <1>1, <2>1, <2>3
  <2>5. ASSUME NEW q \in Requests
        PROVE  /\ note'[q] \in N!Note
               /\ InProgress(q)' <=> InProgress(q) /\ q # r
               /\ note'[q].pc = "push" => note[q].pc = "push"
               /\ q # r => note'[q] = note[q]
               /\ ~(note'[r].pc \in {"push", "publish"})
    BY <1>1, <2>1, <2>2 DEF InProgress
  <2>6. N!NotificationsTypeOK'
    <3>1. conn' \in [Clients -> N!Connection]
      BY <2>1, <2>4
    <3>2. note' \in [Requests -> N!Note]
      BY <1>1, <2>1, <2>2
    <3> QED
      BY <1>1, <1>2, <2>1, <3>1, <3>2 DEF N!NotificationsTypeOK, Row
  <2>7. RowsShownToOwner'
    BY <1>2, <2>4, <2>5 DEF NotesIInv, RowsShownToOwner
  <2>8. CountsFresh'
    BY <1>2, <2>1, <2>5, FreshKept
  <2>9. CountsShown'
    <3>1. \A v \in Users \ {u} : N!Busy(v)' <=> N!Busy(v)
      BY <2>5 DEF N!Busy, InProgress
    <3>2. u \notin disturbed => note[r].count = N!CountUnseen(notes, u)
      BY <1>3 DEF NotesIInv, CountsFresh
    <3> SUFFICES ASSUME NEW c \in Clients, conn'[c].count # N!NoCount
                 PROVE  /\ conn[c].user \in Users
                        /\ conn[c].user \notin disturbed /\ ~N!Busy(conn[c].user)' =>
                            conn'[c].count = N!CountUnseen(notes, conn[c].user)
      BY <1>2, <2>1, <2>4 DEF CountsShown, N!CountUnseen, N!Busy
    <3>3. CASE conn[c].user = u
      BY <1>3, <2>4, <3>2, <3>3
    <3>4. CASE conn[c].user # u
      <4>1. conn[c].count # N!NoCount
        BY <2>4, <3>4
      <4>2. /\ conn[c].user \in Users
            /\ conn[c].user \notin disturbed /\ ~N!Busy(conn[c].user) =>
                conn[c].count = N!CountUnseen(notes, conn[c].user)
        BY <4>1 DEF NotesIInv, CountsShown
      <4> QED
        BY <2>4, <3>1, <3>4, <4>2
    <3> QED
      BY <3>3, <3>4
  <2> QED
    BY <2>6, <2>7, <2>8, <2>9 DEF NotesIInv
<1>6. CASE N!NoteFail(r)
  <2> DEFINE u == note[r].user
             next == [N!IdleNote EXCEPT !.pc = "failed"]
  <2>1. /\ note' = [note EXCEPT ![r] = next]
        /\ disturbed' = disturbed \cup {u} /\ conn' = conn
    BY <1>6 DEF N!NoteFail, N!NoteEnd
  <2>2. next \in N!Note /\ next.pc = "failed"
    BY IdleNoteType
  <2> HIDE DEF next
  <2>5. ASSUME NEW q \in Requests
        PROVE  /\ note'[q] \in N!Note
               /\ InProgress(q)' <=> InProgress(q) /\ q # r
               /\ note'[q].pc = "push" => note[q].pc = "push"
               /\ q # r => note'[q] = note[q]
               /\ ~(note'[r].pc \in {"push", "publish"})
    BY <1>1, <2>1, <2>2 DEF InProgress
  <2>6. N!NotificationsTypeOK'
    <3>1. note' \in [Requests -> N!Note]
      BY <1>1, <2>1, <2>2
    <3> QED
      BY <1>1, <1>2, <1>3, <2>1, <3>1 DEF N!NotificationsTypeOK, Row
  <2>7. RowsShownToOwner'
    BY <1>2, <2>1, <2>5 DEF NotesIInv, RowsShownToOwner
  <2>8. CountsFresh'
    BY <1>2, <2>1, <2>5, FreshKept
  <2>9. CountsShown'
    <3>1. \A v \in Users \ {u} : N!Busy(v)' <=> N!Busy(v)
      BY <2>5 DEF N!Busy, InProgress
    <3> QED
      BY <1>2, <2>1, <3>1 DEF NotesIInv, CountsShown, N!CountUnseen, N!Busy
  <2> QED
    BY <2>6, <2>7, <2>8, <2>9 DEF NotesIInv
<1> QED
  BY <1>4, <1>5, <1>6

\* Clients come and go; a restart takes the connections of all.
LEMMA ConnectionsKeep ==
    ASSUME NotesIInv,
           \/ \E c \in Clients : N!Disconnect(c) \/ \E u \in Users : N!Connect(c, u)
           \/ N!RestartNotifications
    PROVE  NotesIInv'
<1>1. /\ notes \in Seq(Row) /\ conn \in [Clients -> N!Connection]
      /\ note \in [Requests -> N!Note] /\ disturbed \in SUBSET Users
  BY ConnectionType DEF NotesIInv, N!NotificationsTypeOK, Row
<1>2. notes' = notes
  BY DEF N!Disconnect, N!Connect, N!RestartNotifications
<1>3. N!Offline \in N!Connection
  BY ConnectionType
<1>4. ASSUME NEW c \in Clients, NEW x \in N!Connection,
             conn' = [conn EXCEPT ![c] = x], x.notes = {}, x.count = N!NoCount,
             UNCHANGED <<note, disturbed>>
      PROVE  NotesIInv'
  <2>1. conn' \in [Clients -> N!Connection]
        /\ conn'[c] = x /\ \A d \in Clients \ {c} : conn'[d] = conn[d]
    BY <1>1, <1>4
  <2>2. N!NotificationsTypeOK'
    BY <1>1, <1>2, <1>4, <2>1 DEF N!NotificationsTypeOK, Row
  <2>3. RowsShownToOwner'
    BY <1>2, <1>4, <2>1 DEF NotesIInv, RowsShownToOwner
  <2>4. CountsFresh'
    BY <1>2, <1>4, FreshKept DEF InProgress
  <2>5. CountsShown'
    BY <1>2, <1>4, <2>1 DEF NotesIInv, CountsShown, N!CountUnseen, N!Busy
  <2> QED
    BY <2>2, <2>3, <2>4, <2>5 DEF NotesIInv
<1>5. ASSUME NEW c \in Clients, N!Disconnect(c) PROVE NotesIInv'
  BY <1>3, <1>4, <1>5, OfflineFields DEF N!Disconnect
<1>6. ASSUME NEW c \in Clients, NEW u \in Users, N!Connect(c, u) PROVE NotesIInv'
  <2> DEFINE x == [conn[c] EXCEPT !.user = u]
  <2>1. conn[c] = N!Offline /\ conn' = [conn EXCEPT ![c] = x] /\ UNCHANGED <<note, disturbed>>
    BY <1>6 DEF N!Connect
  <2>2. x \in N!Connection /\ x.notes = conn[c].notes /\ x.count = conn[c].count
    BY <1>1 DEF N!Connection
  <2> HIDE DEF x
  <2> QED
    BY <1>4, <2>1, <2>2, OfflineFields
<1>7. CASE N!RestartNotifications
  <2> DEFINE next == [N!IdleNote EXCEPT !.pc = "failed"]
  <2>1. /\ conn' = [c \in Clients |-> N!Offline]
        /\ note' = [r \in Requests |-> IF note[r].pc \in {"push", "publish"} THEN next ELSE note[r]]
        /\ disturbed' \in SUBSET Users
    BY <1>1, <1>7 DEF N!RestartNotifications
  <2>2. next \in N!Note /\ next.pc = "failed"
    BY IdleNoteType
  <2> HIDE DEF next
  <2>3. N!NotificationsTypeOK'
    BY <1>1, <1>2, <1>3, <2>1, <2>2 DEF N!NotificationsTypeOK, Row
  <2>4. \A r \in Requests : note'[r].pc \notin {"push", "publish"}
    BY <2>1, <2>2
  <2>5. RowsShownToOwner' /\ CountsFresh' /\ CountsShown'
    BY <2>1, <2>4, OfflineFields DEF RowsShownToOwner, CountsFresh, CountsShown, InProgress
  <2> QED
    BY <2>3, <2>5 DEF NotesIInv
<1> QED
  BY <1>5, <1>6, <1>7

LEMMA NotesStepKeeps ==
    ASSUME NotesIInv, NoteMove \/ UNCHANGED noteVars
    PROVE  NotesIInv'
<1>1. CASE UNCHANGED noteVars
  <2>1. N!NotificationsTypeOK' /\ RowsShownToOwner'
    BY <1>1 DEF NotesIInv, noteVars, N!NotificationsTypeOK, RowsShownToOwner
  <2>2. CountsFresh' /\ CountsShown'
    BY <1>1
    DEF NotesIInv, noteVars, CountsFresh, CountsShown, InProgress, N!CountUnseen, N!Busy
  <2> QED
    BY <2>1, <2>2 DEF NotesIInv
<1> QED
  BY <1>1, RequestsBatch, PublishKeeps, ConnectionsKeep DEF NoteMove

LEMMA NotesAlways == Spec => []NotesIInv
<1>1. NotesIInv /\ [Next]_vars => NotesIInv'
  BY ServerStep, NotesStepKeeps
<1> QED
  BY <1>1, NotesStart, PTL DEF Spec

\* A client is shown notifications of its own user only, and the count of those that he
\* has not seen as soon as what changed it was published, although every request counts
\* in its own batch and publishes an await later (createAndPushNoti, seenNotification,
\* markAllNotisSeen).
THEOREM CountsSettle == Spec => []CountSettles
<1>1. NotesIInv => CountSettles
  BY DEF NotesIInv, RowsShownToOwner, CountsShown, CountSettles
<1> QED
  BY <1>1, NotesAlways, PTL

-----------------------------------------------------------------------------

\* The types of all four parts, under every interleaving of their requests and any
\* number of restarts.
THEOREM TypeCorrect == Spec => []TypeOK
<1>1. Init => restarts \in 0 .. MaxRestarts
  BY ServerBounds DEF Init
<1>2. restarts \in 0 .. MaxRestarts /\ [Next]_vars => (restarts \in 0 .. MaxRestarts)'
  <2> SUFFICES ASSUME restarts \in 0 .. MaxRestarts, [Next]_vars
               PROVE  restarts' \in 0 .. MaxRestarts
    OBVIOUS
  <2>1. CASE Restart
    BY <2>1, ServerBounds DEF Restart
  <2>2. CASE ~Restart
    BY <2>2
    DEF Next, vars, NoteStep, PasswordStep, ProfileStep, InterceptError, MailStep, SubscribeStep,
        ReportStep, AboutNotifications, AboutPassword, AboutProfile
  <2> QED
    BY <2>1, <2>2
<1>3. E!ReportsTypeOK /\ ReportsInv /\ [Next]_vars => (E!ReportsTypeOK /\ ReportsInv)'
  BY ServerStep, ReportsStep
<1>4. P!ProfileTypeOK /\ ProfileInv /\ [Next]_vars => (P!ProfileTypeOK /\ ProfileInv)'
  BY ServerStep, ProfileStepKeeps
<1>5. SessionsIInv => S!SessionsTypeOK
  BY DEF SessionsIInv
<1>6. NotesIInv => N!NotificationsTypeOK
  BY DEF NotesIInv
<1>7. /\ N!NotificationsTypeOK /\ S!SessionsTypeOK /\ P!ProfileTypeOK /\ E!ReportsTypeOK
      /\ restarts \in 0 .. MaxRestarts
      => TypeOK
  BY DEF TypeOK
<1> QED
  BY <1>1, <1>2, <1>3, <1>4, <1>5, <1>6, <1>7, ReportsStart, ProfileStart, SessionsAlways,
     NotesAlways, PTL
  DEF Spec
=============================================================================
