----------------------------------- MODULE Kyc -----------------------------------
(***************************************************************************)
(* The verification of users: a user uploads three images, which go to S3  *)
(* in parallel before the row is created (ImageService.uploadKycImages,    *)
(* S3Service.uploadMultiple), admins decide about pending rows of several  *)
(* users at a time (updatePendingKyc) or take a decision back              *)
(* (revertKycToPending), and the user uploads again after a failure.       *)
(***************************************************************************)
EXTENDS Integers, FiniteSets, Sequences

CONSTANTS
    Users,
    Clients,        \* clients that upload, one request at a time
    UploaderOf,     \* the user of each
    Admins,         \* admins that decide, one request at a time
    MaxRows,        \* bound on the rows created
    MaxRevived      \* bound on the failed verifications of a user taken up again

\* The names the three images must have.
Labels == {"front_id", "back_id", "holding_id"}

ASSUME ActorsAssumption ==
    /\ IsFiniteSet(Clients) /\ UploaderOf \in [Clients -> Users]
ASSUME BoundsAssumption == MaxRows \in Nat /\ MaxRevived \in Nat

VARIABLES
    kyc,            \* user_kyc_verification, in the order of creation
    stored,         \* the images of each row that are in the bucket
    revived,        \* how often a failed row of each user was made live again
    upload,         \* the requests to upload
    decision        \* the requests to decide

kycVars == <<kyc, stored, revived, upload, decision>>

-----------------------------------------------------------------------------
(* Type definitions *)

KycStatus == {"PENDING", "SUCCESS", "FAILED"}

KycRow == [user : Users, status : KycStatus]

Rows == 1 .. Len(kyc)

\* The images of the request, by name, that S3 stored and said so.
Upload == [pc : {"idle", "uploading"}, put : SUBSET Labels]

NoUpload == [pc |-> "idle", put |-> {}]

Decision == [pc : {"idle", "read"}, rows : SUBSET (1 .. MaxRows), status : KycStatus]

NoDecision == [pc |-> "idle", rows |-> {}, status |-> "PENDING"]

KycTypeOK ==
    /\ kyc \in Seq(KycRow)
    /\ Len(kyc) <= MaxRows
    /\ stored \in [Rows -> SUBSET Labels]
    /\ revived \in [Users -> 0 .. MaxRevived]
    /\ upload \in [Clients -> Upload]
    /\ decision \in [Admins -> Decision]

-----------------------------------------------------------------------------
(* Helper formulae *)

RowsOf(u) == {i \in Rows : kyc[i].user = u}

\* getKycs: what admins are shown of these users; getPendingKycs asks for "PENDING".
GetKycs(us, status) == {i \in Rows : kyc[i].user \in us /\ kyc[i].status = status}

\* Verifications in progress or done.
LiveRowsOf(u) == {i \in RowsOf(u) : kyc[i].status # "FAILED"}

\* Mutant: only a pending verification bars another.
MayUploadUnlessPending(u) == \A i \in RowsOf(u) : kyc[i].status # "PENDING"

MayUpload(u) == LiveRowsOf(u) = {}

\* Mutant: the newest row, whatever its status.
NewestRow(u) == {i \in RowsOf(u) : \A j \in RowsOf(u) : j <= i}

\* getKycImages: the row that is shown to the user, none without one.
ShownRow(u) ==
    LET rows == IF LiveRowsOf(u) # {} THEN LiveRowsOf(u) ELSE RowsOf(u)
    IN {i \in rows : \A j \in rows : j <= i}

\* The failed rows of u that setting these to a status makes live.
RevivedBy(u, rows, status) ==
    {i \in rows \cap RowsOf(u) : kyc[i].status = "FAILED" /\ status # "FAILED"}

CountRevived(rows, status) ==
    revived' = [u \in Users |-> revived[u] + Cardinality(RevivedBy(u, rows, status))]

WithStatus(rows, status) ==
    [i \in Rows |-> IF i \in rows THEN [kyc[i] EXCEPT !.status = status] ELSE kyc[i]]

MayRevive(rows, status) ==
    \A u \in Users : revived[u] + Cardinality(RevivedBy(u, rows, status)) <= MaxRevived

-----------------------------------------------------------------------------
KycInit ==
    /\ kyc = << >>
    /\ stored = << >>
    /\ revived = [u \in Users |-> 0]
    /\ upload = [c \in Clients |-> NoUpload]
    /\ decision = [a \in Admins |-> NoDecision]

-----------------------------------------------------------------------------
(* Uploading *)

\* No verification of the user is in progress or done.  The images, named as the
\* client likes, are sent to S3 together.
UploadCheck(c) ==
    /\ upload[c].pc = "idle"
    /\ MayUpload(UploaderOf[c])
    /\ upload' = [upload EXCEPT ![c].pc = "uploading"]
    /\ UNCHANGED <<kyc, stored, revived, decision>>

PutImage(c, l) ==
    /\ upload[c].pc = "uploading"
    /\ l \notin upload[c].put
    /\ upload' = [upload EXCEPT ![c].put = @ \cup {l}]
    /\ UNCHANGED <<kyc, stored, revived, decision>>

\* Mutant: the first answer is enough, as with Promise.any.
AnyUploaded(c) == upload[c].put # {}

\* Promise.all is fulfilled, and find sees an image of each name.
AllUploaded(c) == upload[c].put = Labels

CreateRow(c) ==
    /\ upload[c].pc = "uploading"
    /\ AllUploaded(c)
    /\ Len(kyc) < MaxRows
    /\ kyc' = Append(kyc, [user |-> UploaderOf[c], status |-> "PENDING"])
    /\ stored' = Append(stored, upload[c].put)
    /\ upload' = [upload EXCEPT ![c] = NoUpload]
    /\ UNCHANGED <<revived, decision>>

\* An image is refused or misses its name, an answer of S3 is lost, the database
\* fails.  Images that were stored stay in the bucket, and no row refers to them.
UploadFail(c) ==
    /\ upload[c].pc = "uploading"
    /\ upload' = [upload EXCEPT ![c] = NoUpload]
    /\ UNCHANGED <<kyc, stored, revived, decision>>

-----------------------------------------------------------------------------
(* Deciding *)

\* The pending rows of the users asked about; at least one.
DecideRead(a, us, status) ==
    /\ decision[a].pc = "idle"
    /\ LET rows == GetKycs(us, "PENDING") IN
       /\ rows # {}
       /\ decision' = [decision EXCEPT ![a] = [pc |-> "read", rows |-> rows, status |-> status]]
    /\ UNCHANGED <<kyc, stored, revived, upload>>

\* Sets the rows that were read, by id: what became of them meanwhile is overwritten.
DecideCommit(a) ==
    /\ decision[a].pc = "read"
    /\ MayRevive(decision[a].rows, decision[a].status)
    /\ kyc' = WithStatus(decision[a].rows, decision[a].status)
    /\ CountRevived(decision[a].rows, decision[a].status)
    /\ decision' = [decision EXCEPT ![a] = NoDecision]
    /\ UNCHANGED <<stored, upload>>

DecideFail(a) ==
    /\ decision[a].pc = "read"
    /\ decision' = [decision EXCEPT ![a] = NoDecision]
    /\ UNCHANGED <<kyc, stored, revived, upload>>

\* Any row, whatever its status and whatever verifications the user has besides.
RevertKycToPending(i) ==
    /\ MayRevive({i}, "PENDING")
    /\ kyc' = WithStatus({i}, "PENDING")
    /\ CountRevived({i}, "PENDING")
    /\ UNCHANGED <<stored, upload, decision>>

-----------------------------------------------------------------------------
UploadStep(c) ==
    \/ UploadCheck(c) \/ CreateRow(c) \/ UploadFail(c)
    \/ \E l \in Labels : PutImage(c, l)

DecideStep(a) ==
    \/ \E us \in SUBSET Users, status \in KycStatus : DecideRead(a, us, status)
    \/ DecideCommit(a) \/ DecideFail(a)

KycNext ==
    \/ \E c \in Clients : UploadStep(c)
    \/ \E a \in Admins : DecideStep(a)
    \/ \E i \in Rows : RevertKycToPending(i)

KycSpec == KycInit /\ [][KycNext]_kycVars

-----------------------------------------------------------------------------
(* Properties *)

\* What a user is shown of his verification (getKycImages) is complete, although
\* images are stored and acknowledged in any order and some uploads fail half way;
\* and it tells him whether he may upload (uploadKycImages): a failed one, or none,
\* exactly when he may, whatever admins decided about older and newer rows.
ShownKycDecides ==
    \A u \in Users :
        /\ \A i \in ShownRow(u) : stored[i] = Labels
        /\ MayUpload(u) <=> \A i \in ShownRow(u) : kyc[i].status = "FAILED"

\* A user who uploads from one client has at most one verification in progress or
\* done, but for the failed ones that an admin made live again; another client that
\* passed the check at the same time adds at most one.
FewLiveRows ==
    \A u \in Users :
        Cardinality(LiveRowsOf(u))
            <= Cardinality({c \in Clients : UploaderOf[c] = u}) + revived[u]

\* Why it holds: a client in the course of an upload passed the check when no
\* verification was live, and counts for the row it may create.
Uploading(u) == {c \in Clients : UploaderOf[c] = u /\ upload[c].pc = "uploading"}

RoomForUploads ==
    \A u \in Users :
        Cardinality(LiveRowsOf(u)) + Cardinality(Uploading(u))
            <= Cardinality({c \in Clients : UploaderOf[c] = u}) + revived[u]

\* Images that were acknowledged are what a row is created of.
RowsComplete == \A i \in Rows : stored[i] = Labels
=============================================================================
