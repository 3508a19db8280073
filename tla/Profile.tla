---------------------------------- MODULE Profile ----------------------------------
(***************************************************************************)
(* The profile of a user, which his registration or his first login with a *)
(* social network creates (AuthService): his names, of which the display   *)
(* name is made (UserService.updateAccountInfo reads the old names,        *)
(* composes, and writes), and the avatar, which is stored in S3 before the *)
(* row refers to it (ImageService.uploadAvatar, S3Service.upload).         *)
(***************************************************************************)
EXTENDS Sequences

CONSTANTS
    Requests,       \* requests that concern the profile
    GivenNames,
    FamilyNames,
    Picture,        \* the URL of the user's picture at a social network
    None,           \* null
    Absent          \* a field that the input does not have

VARIABLES
    profile,        \* user_profile
    bucket,         \* avatars in S3, by the request that stored them
    edit,           \* the requests
    mixed           \* history: two updates overlapped, or a name was set to null

-----------------------------------------------------------------------------
(* Type definitions *)

Names == GivenNames \cup FamilyNames

Name == Names \cup {None}

UserProfile == [given : Name, family : Name, display : Seq(Names),
                avatar : Requests \cup {Picture, None}]

EmptyProfile == [given |-> None, family |-> None, display |-> << >>, avatar |-> None]

\* A request: the fields of its input, and the display name it composed.
Edit == [pc : {"idle", "read", "putting", "put", "done", "failed"},
         given : Name \cup {Absent}, family : Name \cup {Absent}, display : Seq(Names)]

IdleEdit == [pc |-> "idle", given |-> Absent, family |-> Absent, display |-> << >>]

ProfileTypeOK ==
    /\ profile \in UserProfile
    /\ bucket \in SUBSET Requests
    /\ edit \in [Requests -> Edit]
    /\ mixed \in BOOLEAN

-----------------------------------------------------------------------------
(* Helper formulae *)

\* The names that are there, one after the other.
DisplayName(first, second) ==
    LET present(n) == IF n = None THEN << >> ELSE <<n>> IN present(first) \o present(second)

\* Mutant: a name that the input does not have is left out.
OrNothing(input, old) == IF input \in {None, Absent} THEN None ELSE input

\* input ?? old
OrOld(input, old) == IF input \in {None, Absent} THEN old ELSE input

\* What an update leaves in a column: undefined is no change, null is null.
Written(input, old) == IF input = Absent THEN old ELSE input

EditGoto(r, pc) == edit' = [edit EXCEPT ![r].pc = pc]

\* The call returns: its local variables are gone.
EditEnd(r, pc) == edit' = [edit EXCEPT ![r] = [IdleEdit EXCEPT !.pc = pc]]

-----------------------------------------------------------------------------
\* register leaves the profile empty; a social network gives the names and the picture
\* it knows, which loginGoogle joins with the family name first and loginFacebook with
\* the given name first.
NewProfile ==
    \/ profile = EmptyProfile
    \/ \E given \in GivenNames \cup {None}, family \in FamilyNames \cup {None} :
       \E display \in {DisplayName(family, given), DisplayName(given, family)},
          avatar \in {Picture, None} :
          profile = [given |-> given, family |-> family, display |-> display, avatar |-> avatar]

ProfileInit ==
    /\ NewProfile
    /\ bucket = {}
    /\ edit = [r \in Requests |-> IdleEdit]
    /\ mixed = FALSE

-----------------------------------------------------------------------------
(* updateAccountInfo *)

UpdateRead(r, given, family) ==
    /\ edit[r].pc = "idle"
    /\ edit' = [edit EXCEPT ![r] =
                  [pc |-> "read", given |-> given, family |-> family,
                   display |-> DisplayName(OrOld(family, profile.family),
                                           OrOld(given, profile.given))]]
    /\ mixed' = (mixed \/ None \in {given, family} \/ \E q \in Requests : edit[q].pc = "read")
    /\ UNCHANGED <<profile, bucket>>

UpdateCommit(r) ==
    /\ edit[r].pc = "read"
    /\ profile' = [profile EXCEPT !.given = Written(edit[r].given, @),
                                  !.family = Written(edit[r].family, @),
                                  !.display = edit[r].display]
    /\ EditEnd(r, "done")
    /\ UNCHANGED <<bucket, mixed>>

\* An error other than a user name that is taken is swallowed: the request is
\* answered, with null, and nothing is written.
UpdateSwallowed(r) ==
    /\ edit[r].pc = "read"
    /\ EditEnd(r, "done")
    /\ UNCHANGED <<profile, bucket, mixed>>

-----------------------------------------------------------------------------
(* uploadAvatar *)

UploadAvatar(r) ==
    /\ edit[r].pc = "idle"
    /\ EditGoto(r, "putting")
    /\ UNCHANGED <<profile, bucket, mixed>>

PutAvatar(r) ==
    /\ edit[r].pc = "putting"
    /\ bucket' = bucket \cup {r}
    /\ EditGoto(r, "put")
    /\ UNCHANGED <<profile, mixed>>

AvatarCommit(r) ==
    /\ edit[r].pc = "put"
    /\ profile' = [profile EXCEPT !.avatar = r]
    /\ EditEnd(r, "done")
    /\ UNCHANGED <<bucket, mixed>>

-----------------------------------------------------------------------------
\* A user name is taken, S3 refuses (or stores, and its answer is lost), or the
\* update of the avatar fails.
EditFail(r) ==
    /\ edit[r].pc \in {"read", "putting", "put"}
    /\ \/ bucket' = bucket
       \/ edit[r].pc = "putting" /\ bucket' = bucket \cup {r}
    /\ EditEnd(r, "failed")
    /\ UNCHANGED <<profile, mixed>>

RestartProfile ==
    /\ edit' = [r \in Requests |->
                  IF edit[r].pc \in {"read", "putting", "put"}
                  THEN [IdleEdit EXCEPT !.pc = "failed"] ELSE edit[r]]
    /\ UNCHANGED <<profile, bucket, mixed>>

-----------------------------------------------------------------------------
\* The avatar of the row, which logins and the lists of investors show, is the picture
\* the user came with or an image in the bucket, whatever failed on the way; and the
\* display name is made of the names in the row, in the order of updates or of the
\* login that created it, as long as updates do not overlap and no name is set to null.
ProfileAgrees ==
    /\ profile.avatar \in bucket \cup {Picture, None}
    /\ ~mixed => profile.display \in {DisplayName(profile.family, profile.given),
                                     DisplayName(profile.given, profile.family)}
=============================================================================
