--------------------------- MODULE Services_proofs ---------------------------
(***************************************************************************)
(* Proofs about what the services have in common: their answers (Answers)  *)
(* and, through the instance Life, their start and shutdown (Lifecycle).   *)
(*                                                                         *)
(* Answers, for any number of attempts.  The forty RPCs come               *)
(* down to what the proofs need of them (WellFormed), the errors to the    *)
(* statuses they become (StatusFacts).  The invariant says of each attempt *)
(* what it knows of itself (AttemptOK) and what it says of the target      *)
(* (Promised); an action changes one attempt and moves the target only     *)
(* where the RPC takes it (Keeps), so the other attempts stay right.       *)
(*                                                                         *)
(* Lifecycle, for any number of requests and signals.  The configuration   *)
(* that was loaded has passed every loader (LoadInv); requests run only    *)
(* while the process serves, or past the deadline (RequestInv).            *)
(***************************************************************************)
EXTENDS Answers, Process, Integers, Sequences, TLAPS

-----------------------------------------------------------------------------
(* The RPCs *)

(* What the proofs use of an RPC: every one of the forty is like this. *)
Effects == {"read", "create", "delete", "put", "append"}

PlainFlaws == UsersValidation \cup {"bucket name is required", "owner_id is required",
                                    "subject_id is required", "relation is required"}

WellFormed(o) ==
  /\ o.effect \in Effects
  /\ o.total => o.effect = "read"
  /\ o.effect = "create" => o.present # "none" /\ o.missing = "none" /\ o.refuses = {}
                            /\ o.svc # "quota" /\ o.args \subseteq PlainFlaws
  /\ o.effect # "create" => o.present = "none"
  /\ o.effect = "delete" => o.refuses \subseteq {"ErrBucketNotEmpty"} /\ o.args \subseteq PlainFlaws
  /\ o.effect = "delete" /\ o.svc = "quota" => o.refuses = {} /\ o.missing = "none"
  /\ o.late # "none" => o.effect = "append"
  /\ o.after \subseteq CommitLost
  /\ o.undone # {} => o.effect = "put" /\ o.svc # "quota"
  /\ o.event => o.effect = "delete" /\ o.svc = "metadata"

(* ... service by service. *)
LEMMA StorageRpcs ==
  \A o \in {StoreObject, RetrieveObject, DeleteObject, InitiateMultipartUpload, UploadPart,
            CompleteMultipartUpload, AbortMultipartUpload, StorageHealthCheck} : WellFormed(o)
<1>1. WellFormed(StoreObject)
  BY DEF StoreObject, Plain, WellFormed, Effects
<1>2. WellFormed(RetrieveObject)
  BY DEF RetrieveObject, Plain, WellFormed, Effects
<1>3. WellFormed(DeleteObject)
  BY DEF DeleteObject, Plain, WellFormed, Effects, CommitLost
<1>4. WellFormed(InitiateMultipartUpload)
  BY DEF InitiateMultipartUpload, Plain, WellFormed, Effects
<1>5. WellFormed(UploadPart)
  BY DEF UploadPart, Plain, WellFormed, Effects
<1>6. WellFormed(CompleteMultipartUpload)
  BY DEF CompleteMultipartUpload, Plain, WellFormed, Effects
<1>7. WellFormed(AbortMultipartUpload)
  BY DEF AbortMultipartUpload, Plain, WellFormed, Effects, CommitLost
<1>8. WellFormed(StorageHealthCheck)
  BY DEF StorageHealthCheck, Plain, WellFormed, Effects
<1> QED BY <1>1, <1>2, <1>3, <1>4, <1>5, <1>6, <1>7, <1>8

LEMMA MetadataRpcs ==
  \A o \in {CreateBucket, DeleteBucket, GetBucket, HeadBucket, ListBuckets,
            CreateObjectVersion, GetObjectMeta, DeleteObjectMeta,
            ListObjects, MetadataHealthCheck} : WellFormed(o)
<1>1. WellFormed(CreateBucket)
  BY DEF CreateBucket, Plain, WellFormed, Effects, CreateBucketArgs, PlainFlaws, CommitLost
<1>2. WellFormed(DeleteBucket)
  BY DEF DeleteBucket, Plain, WellFormed, Effects, CommitLost
<1>3. WellFormed(GetBucket)
  BY DEF GetBucket, Plain, WellFormed, Effects
<1>4. WellFormed(HeadBucket)
  BY DEF HeadBucket, Plain, WellFormed, Effects
<1>5. WellFormed(ListBuckets)
  BY DEF ListBuckets, Plain, WellFormed, Effects
<1>6. WellFormed(CreateObjectVersion)
  BY DEF CreateObjectVersion, Plain, WellFormed, Effects, CommitLost
<1>7. WellFormed(GetObjectMeta)
  BY DEF GetObjectMeta, Plain, WellFormed, Effects
<1>8. WellFormed(DeleteObjectMeta)
  BY DEF DeleteObjectMeta, Plain, WellFormed, Effects, CommitLost
<1>9. WellFormed(ListObjects)
  BY DEF ListObjects, Plain, WellFormed, Effects
<1>10. WellFormed(MetadataHealthCheck)
  BY DEF MetadataHealthCheck, Plain, WellFormed, Effects
<1> QED BY <1>1, <1>2, <1>3, <1>4, <1>5, <1>6, <1>7, <1>8, <1>9, <1>10

LEMMA UsersRpcs ==
  \A o \in {Create, Get, Update, UpdatePassword, Delete, ValidateCredentials} : WellFormed(o)
<1>1. WellFormed(Create)
  BY DEF Create, Plain, WellFormed, Effects, UserInfoArgs, ValidatePassword, PlainFlaws, UsersValidation, CommitLost
<1>2. WellFormed(Get)
  BY DEF Get, Plain, WellFormed, Effects
<1>3. WellFormed(Update)
  BY DEF Update, Plain, WellFormed, Effects, CommitLost
<1>4. WellFormed(UpdatePassword)
  BY DEF UpdatePassword, Plain, WellFormed, Effects, CommitLost
<1>5. WellFormed(Delete)
  BY DEF Delete, Plain, WellFormed, Effects, CommitLost
<1>6. WellFormed(ValidateCredentials)
  BY DEF ValidateCredentials, Plain, WellFormed, Effects
<1> QED BY <1>1, <1>2, <1>3, <1>4, <1>5, <1>6

LEMMA AuthRpcs ==
  \A o \in {Login, GetAccessToken, GetRefreshToken, ValidateToken} : WellFormed(o)
<1>1. WellFormed(Login)
  BY DEF Login, Plain, WellFormed, Effects
<1>2. WellFormed(GetAccessToken)
  BY DEF GetAccessToken, Plain, WellFormed, Effects
<1>3. WellFormed(GetRefreshToken)
  BY DEF GetRefreshToken, Plain, WellFormed, Effects
<1>4. WellFormed(ValidateToken)
  BY DEF ValidateToken, Plain, WellFormed, Effects
<1> QED BY <1>1, <1>2, <1>3, <1>4

LEMMA QuotaRpcs ==
  \A o \in {CheckQuota, UpdateUsage, GetUsage, SetQuota, GetQuota, DeleteSubject,
            QuotaHealthCheck} : WellFormed(o)
<1>1. WellFormed(CheckQuota)
  BY DEF CheckQuota, Plain, WellFormed, Effects
<1>2. WellFormed(UpdateUsage)
  BY DEF UpdateUsage, Plain, WellFormed, Effects
<1>3. WellFormed(GetUsage)
  BY DEF GetUsage, Plain, WellFormed, Effects
<1>4. WellFormed(SetQuota)
  BY DEF SetQuota, Plain, WellFormed, Effects, CommitLost
<1>5. WellFormed(GetQuota)
  BY DEF GetQuota, Plain, WellFormed, Effects
<1>6. WellFormed(DeleteSubject)
  BY DEF DeleteSubject, Plain, WellFormed, Effects, PlainFlaws, CommitLost
<1>7. WellFormed(QuotaHealthCheck)
  BY DEF QuotaHealthCheck, Plain, WellFormed, Effects
<1> QED BY <1>1, <1>2, <1>3, <1>4, <1>5, <1>6, <1>7

LEMMA AuthzRpcs ==
  \A o \in {Check, WriteTuple, DeleteTuple, Read, AuthzHealthCheck} : WellFormed(o)
<1>1. WellFormed(Check)
  BY DEF Check, Plain, WellFormed, Effects
<1>2. WellFormed(WriteTuple)
  BY DEF WriteTuple, Plain, WellFormed, Effects, CommitLost
<1>3. WellFormed(DeleteTuple)
  BY DEF DeleteTuple, Plain, WellFormed, Effects, PlainFlaws, CommitLost
<1>4. WellFormed(Read)
  BY DEF Read, Plain, WellFormed, Effects
<1>5. WellFormed(AuthzHealthCheck)
  BY DEF AuthzHealthCheck, Plain, WellFormed, Effects
<1> QED BY <1>1, <1>2, <1>3, <1>4, <1>5

(* So whatever RPC the client calls is well formed. *)
LEMMA RpcsAreWellFormed == ASSUME NEW r \in DOMAIN Rpcs PROVE WellFormed(Rpcs[r])
<1>1. Rpcs[r] \in
        {StoreObject, RetrieveObject, DeleteObject, InitiateMultipartUpload, UploadPart,
         CompleteMultipartUpload, AbortMultipartUpload, StorageHealthCheck}
        \cup {CreateBucket, DeleteBucket, GetBucket, HeadBucket, ListBuckets, CreateObjectVersion,
              GetObjectMeta, DeleteObjectMeta, ListObjects, MetadataHealthCheck}
        \cup {Create, Get, Update, UpdatePassword, Delete, ValidateCredentials}
        \cup {Login, GetAccessToken, GetRefreshToken, ValidateToken}
        \cup {CheckQuota, UpdateUsage, GetUsage, SetQuota, GetQuota, DeleteSubject, QuotaHealthCheck}
        \cup {Check, WriteTuple, DeleteTuple, Read, AuthzHealthCheck}
  BY DEF Rpcs
<1> QED BY <1>1, StorageRpcs, MetadataRpcs, UsersRpcs, AuthRpcs, QuotaRpcs, AuthzRpcs
-----------------------------------------------------------------------------
(* Errors and statuses *)

(* Which errors are in the table, and the codes they carry. *)
LEMMA TableOfErrors ==
  /\ DOMAIN CommonErrors = DOMAIN StorageErrors \cup DOMAIN MetadataErrors
                             \cup DOMAIN UsersErrors \cup DOMAIN AuthErrors
  /\ \A err \in DOMAIN CommonErrors :
       CommonErrors[err] \in {"NotFound", "InvalidArgument", "ResourceExhausted", "AlreadyExists",
                              "FailedPrecondition", "Internal", "Unauthenticated"}
  /\ CommonErrors["ErrBucketNotEmpty"] = "FailedPrecondition"
  /\ CommonErrors["ErrInternal"] = "Internal"
<1> DEFINE Codes == {"NotFound", "InvalidArgument", "ResourceExhausted", "AlreadyExists",
                     "FailedPrecondition", "Internal", "Unauthenticated"}
<1>1. \A err \in DOMAIN StorageErrors : StorageErrors[err] \in Codes
  BY DEF StorageErrors
<1>2. \A err \in DOMAIN MetadataErrors : MetadataErrors[err] \in Codes
  BY DEF MetadataErrors
<1>3. \A err \in DOMAIN UsersErrors : UsersErrors[err] \in Codes
  BY DEF UsersErrors
<1>4. \A err \in DOMAIN AuthErrors : AuthErrors[err] \in Codes
  BY DEF AuthErrors
<1>5. /\ DOMAIN MetadataErrors \cap DOMAIN StorageErrors = {}
      /\ DOMAIN MetadataErrors \cap DOMAIN UsersErrors = {}
  BY DEF StorageErrors, MetadataErrors, UsersErrors
<1>6. /\ "ErrBucketNotEmpty" \in DOMAIN MetadataErrors
      /\ "ErrInternal" \in DOMAIN MetadataErrors
      /\ MetadataErrors["ErrBucketNotEmpty"] = "FailedPrecondition"
      /\ MetadataErrors["ErrInternal"] = "Internal"
  BY DEF MetadataErrors
<1> HIDE DEF Codes
<1>7. DOMAIN CommonErrors = DOMAIN StorageErrors \cup DOMAIN MetadataErrors
                              \cup DOMAIN UsersErrors \cup DOMAIN AuthErrors
  BY DEF CommonErrors
<1>8. \A err \in DOMAIN CommonErrors :
        \/ err \in DOMAIN StorageErrors /\ CommonErrors[err] = StorageErrors[err]
        \/ err \in DOMAIN MetadataErrors /\ CommonErrors[err] = MetadataErrors[err]
        \/ err \in DOMAIN UsersErrors /\ CommonErrors[err] = UsersErrors[err]
        \/ err \in DOMAIN AuthErrors /\ CommonErrors[err] = AuthErrors[err]
  BY DEF CommonErrors
<1>9. \A err \in DOMAIN CommonErrors : CommonErrors[err] \in Codes
  BY <1>1, <1>2, <1>3, <1>4, <1>8
<1>10. \A err \in DOMAIN MetadataErrors : CommonErrors[err] = MetadataErrors[err]
  <2> SUFFICES ASSUME NEW err \in DOMAIN MetadataErrors
               PROVE CommonErrors[err] = MetadataErrors[err]
    OBVIOUS
  <2>1. /\ err \in DOMAIN CommonErrors
        /\ err \notin DOMAIN StorageErrors
        /\ err \notin DOMAIN UsersErrors
    BY <1>5, <1>7
  <2> QED BY <2>1 DEF CommonErrors
<1> QED BY <1>6, <1>7, <1>9, <1>10 DEF Codes

(* The statuses of errors that no check and no refusal gives its meaning. *)
Vague == {"INTERNAL", "UNKNOWN", "DEADLINE_EXCEEDED"}

(* What the Go services make of an error. *)
LEMMA HandleErrorFacts ==
  /\ \A err : HandleError(err) \in (Definite \cup Unsettled) \ {"UNAVAILABLE"}
  /\ \A err \in PlainFlaws \cup {"ErrBucketNotEmpty", "raw", "deadline exceeded", "canceled"} :
       HandleError(err) \notin {"NOT_FOUND", "ALREADY_EXISTS"}
  /\ \A err \in CommitLost \cup {"ErrInternal"} :
       HandleError(err) \in {"INTERNAL", "DEADLINE_EXCEEDED"}
<1> DEFINE Codes == {"NotFound", "InvalidArgument", "ResourceExhausted", "AlreadyExists",
                     "FailedPrecondition", "Internal", "Unauthenticated"}
<1>1. \A code \in Codes : ToGRPCCode(code) \in (Definite \cup Unsettled) \ {"UNAVAILABLE"}
  BY DEF ToGRPCCode, Definite, Unsettled
<1>2. /\ ToGRPCCode("FailedPrecondition") = "FAILED_PRECONDITION"
      /\ ToGRPCCode("Internal") = "INTERNAL"
  BY DEF ToGRPCCode
<1>3. \A err \in DOMAIN CommonErrors : CommonErrors[err] \in Codes
  BY TableOfErrors
<1> HIDE DEF Codes
<1> DEFINE Others == ValidationErrors \cup StreamErrors
                       \cup {"unexpected EOF", "deadline exceeded", "canceled"}
<1>4. DOMAIN CommonErrors \cap Others = {}
  BY TableOfErrors DEF StorageErrors, MetadataErrors, UsersErrors, AuthErrors, ValidationErrors,
                       UsersValidation, StreamErrors
<1>5. \A err \in DOMAIN CommonErrors : HandleError(err) = ToGRPCCode(CommonErrors[err])
  <2> SUFFICES ASSUME NEW err \in DOMAIN CommonErrors
               PROVE HandleError(err) = ToGRPCCode(CommonErrors[err])
    OBVIOUS
  <2>1. /\ err \notin ValidationErrors
        /\ err \notin StreamErrors
        /\ err # "unexpected EOF"
        /\ err # "deadline exceeded"
        /\ err # "canceled"
    BY <1>4
  <2> QED BY <2>1 DEF HandleError
<1>6. \A err : HandleError(err) \in (Definite \cup Unsettled) \ {"UNAVAILABLE"}
  <2> SUFFICES ASSUME NEW err PROVE HandleError(err) \in (Definite \cup Unsettled) \ {"UNAVAILABLE"}
    OBVIOUS
  <2>1. CASE err \in DOMAIN CommonErrors
    BY <2>1, <1>5, <1>1, <1>3
  <2>2. CASE err \notin DOMAIN CommonErrors
    <3>1. HandleError(err) \in {"INVALID_ARGUMENT", "DEADLINE_EXCEEDED", "CANCELLED", "INTERNAL"}
      BY <2>2, Zenon DEF HandleError
    <3> QED BY <3>1 DEF Definite, Unsettled
  <2> QED BY <2>1, <2>2
<1>7. {"raw", "deadline exceeded", "canceled"} \cap DOMAIN CommonErrors = {}
  BY TableOfErrors DEF StorageErrors, MetadataErrors, UsersErrors, AuthErrors
<1>8. {"ErrBucketNotEmpty", "ErrInternal"} \subseteq DOMAIN CommonErrors
  BY TableOfErrors DEF MetadataErrors
<1>9. PlainFlaws \cap DOMAIN CommonErrors = {}
  BY TableOfErrors DEF PlainFlaws, UsersValidation, StorageErrors, MetadataErrors, UsersErrors, AuthErrors
<1>10. \A err \in {"raw", "deadline exceeded", "canceled"} :
        err \notin ValidationErrors \cup StreamErrors \cup {"unexpected EOF"}
  BY DEF ValidationErrors, UsersValidation, StreamErrors
<1>11. /\ HandleError("raw") = "INTERNAL"
      /\ HandleError("deadline exceeded") = "DEADLINE_EXCEEDED"
      /\ HandleError("canceled") = "CANCELLED"
  BY <1>7, <1>10 DEF HandleError
<1>12. /\ HandleError("ErrBucketNotEmpty") = "FAILED_PRECONDITION"
       /\ HandleError("ErrInternal") = "INTERNAL"
  BY <1>8, <1>2, <1>5, TableOfErrors
<1>13. \A err \in PlainFlaws : HandleError(err) \notin {"NOT_FOUND", "ALREADY_EXISTS"}
  <2> SUFFICES ASSUME NEW err \in PlainFlaws
               PROVE HandleError(err) \in {"INVALID_ARGUMENT", "DEADLINE_EXCEEDED", "CANCELLED", "INTERNAL"}
    OBVIOUS
  <2>1. err \notin DOMAIN CommonErrors
    BY <1>9
  <2> QED BY <2>1, Zenon DEF HandleError
<1> QED BY <1>6, <1>11, <1>12, <1>13 DEF CommitLost

(* ... and what every service makes of them. *)
LEMMA StatusFacts ==
  /\ \A err : Status(err) \in (Definite \cup Unsettled) \ {"UNAVAILABLE"}
  /\ \A err \in PlainFlaws \cup {"ErrBucketNotEmpty", "raw", "deadline exceeded", "canceled"} :
       Status(err) \notin {"NOT_FOUND", "ALREADY_EXISTS"}
  /\ \A err \in CommitLost \cup {"ErrInternal"} : Status(err) \in Vague
  /\ op.svc = "metadata" =>
       \A err \in CommitLost \cup {"ErrInternal"} : Status(err) \in {"INTERNAL", "DEADLINE_EXCEEDED"}
<1>1. CASE op.svc = "quota"
  <2>1. \A err : Status(err) = QuotaStatus(err)
    BY <1>1 DEF Status
  <2>2. \A err : QuotaStatus(err) \in {"INVALID_ARGUMENT", "NOT_FOUND", "DENIED", "INTERNAL"}
    BY Zenon DEF QuotaStatus
  <2>3. \A err : err # "no quota set" => QuotaStatus(err) \in {"INVALID_ARGUMENT", "DENIED", "INTERNAL"}
    BY Zenon DEF QuotaStatus
  <2>4. "no quota set" \notin PlainFlaws \cup {"ErrBucketNotEmpty", "raw", "deadline exceeded", "canceled"}
    BY DEF PlainFlaws, UsersValidation
  <2>5. \A err \in CommitLost \cup {"ErrInternal"} : QuotaStatus(err) = "INTERNAL"
    BY DEF QuotaStatus, CommitLost
  <2>6. \A err \in PlainFlaws \cup {"ErrBucketNotEmpty", "raw", "deadline exceeded", "canceled"} :
          QuotaStatus(err) \notin {"NOT_FOUND", "ALREADY_EXISTS"}
    BY <2>3, <2>4
  <2> QED BY <1>1, <2>1, <2>2, <2>5, <2>6 DEF Definite, Unsettled, Vague
<1>2. CASE op.svc = "authz"
  <2>1. \A err : Status(err) = AuthzStatus(err)
    BY <1>2 DEF Status
  <2>2. \A err : AuthzStatus(err) \in {"INVALID_ARGUMENT", "UNKNOWN"}
    BY DEF AuthzStatus
  <2>3. \A err \in CommitLost \cup {"ErrInternal"} : AuthzStatus(err) = "UNKNOWN"
    BY DEF AuthzStatus, CommitLost
  <2> QED BY <1>2, <2>1, <2>2, <2>3 DEF Definite, Unsettled, Vague
<1>3. CASE op.svc \notin {"quota", "authz"}
  <2>1. \A err : Status(err) = HandleError(err)
    BY <1>3 DEF Status
  <2> QED BY <2>1, HandleErrorFacts DEF Vague
<1> QED BY <1>1, <1>2, <1>3
-----------------------------------------------------------------------------
(* The invariant *)

Stages == {"idle", "arrived", "store", "applied", "over"}

Statuses == Definite \cup Unsettled \cup {"none", "OK"}

Attempt == [stage : Stages, status : Statuses, applied : {"no", "yes", "left", "lost"}, sent : BOOLEAN]

Target == [there : BOOLEAN, made : Int]

TypeOK ==
  /\ rpc \in DOMAIN Rpcs
  /\ flaw \in Flaws(op)
  /\ live \in Target /\ kept \in Target /\ snap \in SUBSET Target /\ back \in BOOLEAN
  /\ att \in [Try -> Attempt]
  /\ cur \in 0..MaxTries

(* Only quota answers before it has stored, and only a blob is taken back. *)
TargetOK(o, t, s) ==
  /\ o.svc # "quota" => s = t
  /\ o.effect # "append" => t.made >= 0 /\ s.made >= 0

(* Only the usage of quota is flushed. *)
SnapOK(o, n) ==
  /\ n # {} => o.svc = "quota" /\ o.effect \in {"append", "delete"}
  /\ o.effect = "delete" => \A t \in n : t.made >= 0

(* What an attempt a knows of itself: while it runs it has no answer, or   *)
(* the client has given up; before the store nothing is done; what got     *)
(* past a check does not have its flaw; its answer says what was done.     *)
AttemptOK(a, o, f) ==
  /\ a.stage # "over" => a.status \in {"none", "DEADLINE_EXCEEDED"}
  /\ a.stage \in {"idle", "arrived", "store"} => a.applied = "no" /\ ~a.sent
  /\ a.stage \in {"store", "applied"} => f \notin o.args
  /\ a.stage = "applied" =>
       f # "malformed id" /\ (o.effect \notin {"read", "delete"} => a.applied \in {"yes", "lost"})
  /\ a.status = "OK" /\ o.effect # "read" =>
       f = "none" /\ (o.effect # "delete" => a.applied \in {"yes", "lost"})
  /\ a.status \in Definite => a.applied \in {"no", "left"}
  /\ o.event /\ a.stage = "over" /\ a.applied = "yes" /\ ~a.sent =>
       a.status \in {"INTERNAL", "UNAVAILABLE", "DEADLINE_EXCEEDED"}

(* A deleted target is gone, unless w: a flush wrote it back. *)
Gone(t, s, w) == (~t.there /\ ~s.there) \/ w

(* What an attempt says of the target t, and of the stored one s: one      *)
(* whose blob was taken back says nothing.                                 *)
Promised(a, o, t, s, w) ==
  /\ o.effect = "create" /\ (a.stage = "applied" \/ a.status \in {"OK", "ALREADY_EXISTS"}) => t.there
  /\ o.effect = "delete" /\ a.stage = "applied" => ~t.there
  /\ o.effect = "delete" /\ a.status \in {"OK", "NOT_FOUND"} => Gone(t, s, w)
  /\ o.effect = "put" /\ a.applied = "yes" /\ a.stage = "applied" => t.made > 0
  /\ o.effect = "put" /\ a.applied = "yes" /\ a.status = "OK" => t.made > 0 /\ s.made > 0

Inv ==
  /\ TypeOK
  /\ TargetOK(op, live, kept) /\ SnapOK(op, snap)
  /\ \A i \in Try : i > cur => att[i].stage = "idle"
  /\ \A i \in Try : AttemptOK(att[i], op, flaw) /\ Promised(att[i], op, live, kept, back)

-----------------------------------------------------------------------------
(* Steps of one attempt *)

(* The target only moves where the RPC takes it. *)
Keeps(o, t, s, w, t2, s2, w2) ==
  /\ o.effect = "create" /\ t.there => t2.there
  /\ o.effect = "delete" /\ ~t.there => ~t2.there
  /\ o.effect = "delete" /\ Gone(t, s, w) => Gone(t2, s2, w2)
  /\ o.effect = "put" /\ t.made > 0 => t2.made > 0 /\ (s.made > 0 => s2.made > 0)

(* So what other attempts have said of it stays true. *)
LEMMA PromisesAreKept ==
  ASSUME NEW a, NEW o, NEW t, NEW s, NEW w, NEW t2, NEW s2, NEW w2,
         Promised(a, o, t, s, w), Keeps(o, t, s, w, t2, s2, w2)
  PROVE  Promised(a, o, t2, s2, w2)
<1>1. o.effect = "create" /\ (a.stage = "applied" \/ a.status \in {"OK", "ALREADY_EXISTS"}) => t2.there
  BY Zenon DEF Promised, Keeps
<1>2. /\ o.effect = "delete" /\ a.stage = "applied" => ~t2.there
      /\ o.effect = "delete" /\ a.status \in {"OK", "NOT_FOUND"} => Gone(t2, s2, w2)
  BY Zenon DEF Promised, Keeps
<1>3. /\ o.effect = "put" /\ a.applied = "yes" /\ a.stage = "applied" => t2.made > 0
      /\ o.effect = "put" /\ a.applied = "yes" /\ a.status = "OK" => t2.made > 0 /\ s2.made > 0
  BY Zenon DEF Promised, Keeps
<1> QED BY <1>1, <1>2, <1>3 DEF Promised

(* A target that stays where it is keeps its promises. *)
LEMMA StandingStill == ASSUME NEW o, NEW t, NEW s, NEW w PROVE Keeps(o, t, s, w, t, s, w)
BY DEF Keeps

(* An action on one attempt leaves the others right. *)
LEMMA OneAttemptMoves ==
  ASSUME Inv, NEW i \in Try, NEW b \in Attempt, att' = [att EXCEPT ![i] = b],
         rpc' = rpc, flaw' = flaw, cur' \in cur..MaxTries, i <= cur', live' \in Target, kept' \in Target,
         snap' = snap, back' \in BOOLEAN,
         TargetOK(op, live', kept'), Keeps(op, live, kept, back, live', kept', back'),
         AttemptOK(b, op, flaw), Promised(b, op, live', kept', back')
  PROVE  Inv'
<1>1. op' = op
  BY DEF op
<1>2. TypeOK'
  <2>1. rpc' \in DOMAIN Rpcs /\ flaw' \in Flaws(op')
    BY <1>1 DEF Inv, TypeOK
  <2>2. att' \in [Try -> Attempt]
    BY DEF Inv, TypeOK
  <2>3. cur' \in 0..MaxTries
    BY DEF Inv, TypeOK
  <2>4. snap' \in SUBSET Target
    BY Zenon DEF Inv, TypeOK
  <2> QED BY <2>1, <2>2, <2>3, <2>4, Zenon DEF TypeOK
<1>3. TargetOK(op', live', kept') /\ SnapOK(op', snap')
  BY <1>1 DEF Inv
<1>4. ASSUME NEW j \in Try
      PROVE  AttemptOK(att'[j], op', flaw') /\ Promised(att'[j], op', live', kept', back')
  <2>1. CASE j = i
    <3>1. att'[j] = b
      BY <2>1 DEF Inv, TypeOK
    <3> QED BY <3>1, <1>1
  <2>2. CASE j # i
    <3>1. att'[j] = att[j]
      BY <2>2 DEF Inv, TypeOK
    <3>2. AttemptOK(att[j], op, flaw) /\ Promised(att[j], op, live, kept, back)
      BY DEF Inv
    <3>3. Promised(att[j], op, live', kept', back')
      BY <3>2, PromisesAreKept, Zenon
    <3> QED BY <3>1, <3>2, <3>3, <1>1
  <2> QED BY <2>1, <2>2
<1>5. ASSUME NEW j \in Try, j > cur' PROVE att'[j].stage = "idle"
  <2>1. j # i /\ j > cur
    BY <1>5, TriesAssumption DEF Inv, TypeOK, Try
  <2>2. att'[j] = att[j]
    BY <2>1 DEF Inv, TypeOK
  <2> QED BY <2>1, <2>2 DEF Inv
<1> QED BY <1>2, <1>3, <1>4, <1>5 DEF Inv

(* ... when nothing else changes. *)
LEMMA OnlyTheAttemptMoves ==
  ASSUME Inv, NEW i \in Try, NEW b \in Attempt, att' = [att EXCEPT ![i] = b],
         rpc' = rpc, flaw' = flaw, cur' \in cur..MaxTries, i <= cur', live' = live, kept' = kept,
         snap' = snap, back' = back,
         AttemptOK(b, op, flaw), Promised(b, op, live, kept, back)
  PROVE  Inv'
<1>1. /\ live' \in Target /\ kept' \in Target /\ TargetOK(op, live', kept')
      /\ back' \in BOOLEAN
  BY DEF Inv, TypeOK
<1>2. Keeps(op, live, kept, back, live', kept', back') /\ Promised(b, op, live', kept', back')
  BY StandingStill
<1> QED BY <1>1, <1>2, OneAttemptMoves, Zenon

(* What an answer changes. *)
LEMMA AnsweredFacts ==
  ASSUME NEW a \in Attempt, NEW status \in Statuses
  PROVE  /\ Answered(a, status) \in Attempt
         /\ Answered(a, status).stage = "over"
         /\ Answered(a, status).status = IF a.status = "none" THEN status ELSE a.status
         /\ Answered(a, status).applied = a.applied
         /\ Answered(a, status).sent = a.sent
BY DEF Answered, Attempt, Stages

(* Any change of a running attempt that leaves it answered: b may differ   *)
(* from a in what is recorded as done or sent.                             *)
LEMMA AnswersHold ==
  ASSUME NEW a \in Attempt, NEW b \in Attempt, NEW o, NEW f, NEW t, NEW s, NEW w, NEW status,
         a.stage # "over", AttemptOK(a, o, f),
         b.stage = "over", b.status = IF a.status = "none" THEN status ELSE a.status,
         status = "OK" /\ o.effect # "read" => f = "none" /\ (o.effect # "delete" => b.applied \in {"yes", "lost"}),
         status \in Definite => b.applied \in {"no", "left"},
         o.event /\ b.applied = "yes" /\ ~b.sent =>
           status \in {"INTERNAL", "UNAVAILABLE", "DEADLINE_EXCEEDED"},
         o.effect = "create" /\ status \in {"OK", "ALREADY_EXISTS"} => t.there,
         o.effect = "delete" /\ status \in {"OK", "NOT_FOUND"} => Gone(t, s, w),
         o.effect = "put" /\ b.applied = "yes" /\ status = "OK" => t.made > 0 /\ s.made > 0
  PROVE  AttemptOK(b, o, f) /\ Promised(b, o, t, s, w)
<1>1. b.status \in {status, "DEADLINE_EXCEEDED"}
  BY DEF AttemptOK
<1>2. "DEADLINE_EXCEEDED" \notin Definite \cup {"OK", "NOT_FOUND", "ALREADY_EXISTS"}
  BY DEF Definite
<1>3. AttemptOK(b, o, f)
  BY <1>1, <1>2 DEF AttemptOK
<1>4. Promised(b, o, t, s, w)
  BY <1>1, <1>2 DEF Promised
<1> QED BY <1>3, <1>4

-----------------------------------------------------------------------------
(* Every action keeps the invariant. *)

(* The RPC of the invariant. *)
LEMMA OpIsWellFormed == ASSUME Inv PROVE WellFormed(op)
BY RpcsAreWellFormed DEF Inv, TypeOK, op

(* An attempt of the invariant. *)
LEMMA AttemptFacts ==
  ASSUME Inv, NEW i \in Try
  PROVE  att[i] \in Attempt /\ AttemptOK(att[i], op, flaw) /\ Promised(att[i], op, live, kept, back)
BY DEF Inv, TypeOK

(* An attempt that acts has been made. *)
LEMMA AttemptIsMade ==
  ASSUME Inv, NEW i \in Try, att[i].stage # "idle", cur' = cur
  PROVE  cur' \in cur..MaxTries /\ i <= cur'
BY TriesAssumption DEF Inv, TypeOK, Try

(* No error is answered with OK, and only a crash with UNAVAILABLE. *)
LEMMA StatusesAreTyped ==
  ASSUME NEW err
  PROVE  Status(err) \in Statuses /\ Status(err) \notin {"none", "OK", "UNAVAILABLE"}
BY StatusFacts DEF Statuses, Definite, Unsettled

(* An attempt that has done nothing yet is answered with an error. *)
LEMMA Refused ==
  ASSUME Inv, NEW i \in Try, NEW status \in Statuses, Answer(i, status),
         UNCHANGED <<rpc, flaw, target, cur>>,
         att[i].stage \in {"arrived", "store"},
         status = "OK" => op.effect = "read",
         op.effect = "create" /\ status = "ALREADY_EXISTS" => live.there,
         op.effect = "delete" /\ status = "NOT_FOUND" => Gone(live, kept, back)
  PROVE  Inv'
<1> DEFINE b == Answered(att[i], status)
<1>1. att[i] \in Attempt /\ AttemptOK(att[i], op, flaw)
  BY AttemptFacts
<1>2. /\ b \in Attempt /\ b.stage = "over"
      /\ b.status = IF att[i].status = "none" THEN status ELSE att[i].status
      /\ b.applied = att[i].applied
  BY <1>1, AnsweredFacts
<1>3. att' = [att EXCEPT ![i] = b]
  BY DEF Answer
<1> HIDE DEF b
<1>4. att[i].stage # "over" /\ b.applied = "no"
  BY <1>1, <1>2 DEF AttemptOK
<1>5. AttemptOK(b, op, flaw) /\ Promised(b, op, live, kept, back)
  BY <1>1, <1>2, <1>4, AnswersHold
<1>6. cur' \in cur..MaxTries /\ i <= cur'
  BY AttemptIsMade
<1>7. /\ rpc' = rpc /\ flaw' = flaw /\ live' = live /\ kept' = kept
      /\ snap' = snap /\ back' = back
  BY DEF target, flushed
<1> QED BY <1>2, <1>3, <1>5, <1>6, <1>7, OnlyTheAttemptMoves

(* Before the store. *)
LEMMA CallStep == ASSUME Inv, Call PROVE Inv'
<1> DEFINE i == cur + 1
           b == [att[i] EXCEPT !.stage = "arrived"]
<1>1. i \in Try /\ cur' = i
  BY TriesAssumption DEF Inv, TypeOK, Call, Try
<1>2. att[i] \in Attempt /\ AttemptOK(att[i], op, flaw) /\ Promised(att[i], op, live, kept, back)
  BY <1>1, AttemptFacts
<1>3. att[i].stage = "idle"
  BY <1>1 DEF Inv, TypeOK
<1>4. att' = [att EXCEPT ![i] = b]
  BY <1>1 DEF Call
<1>5. /\ b \in Attempt /\ b.stage = "arrived"
      /\ b.status = att[i].status /\ b.applied = att[i].applied /\ b.sent = att[i].sent
  BY <1>2 DEF Attempt, Stages
<1> HIDE DEF b
<1>6. AttemptOK(b, op, flaw)
  BY <1>2, <1>3, <1>5 DEF AttemptOK
<1>7. Promised(b, op, live, kept, back)
  BY <1>2, <1>5 DEF Promised
<1>8. /\ rpc' = rpc /\ flaw' = flaw /\ live' = live /\ kept' = kept
      /\ snap' = snap /\ back' = back
  BY DEF Call, target, flushed
<1>9. cur' \in cur..MaxTries /\ i <= cur'
  BY <1>1, TriesAssumption DEF Inv, TypeOK, Try
<1> HIDE DEF i
<1> QED BY <1>1, <1>4, <1>5, <1>6, <1>7, <1>8, <1>9, OnlyTheAttemptMoves

LEMMA GiveUpStep == ASSUME Inv, NEW i \in Try, GiveUp(i) PROVE Inv'
<1> DEFINE b == [att[i] EXCEPT !.status = "DEADLINE_EXCEEDED"]
<1>1. att[i] \in Attempt /\ AttemptOK(att[i], op, flaw) /\ Promised(att[i], op, live, kept, back)
  BY AttemptFacts
<1>2. att' = [att EXCEPT ![i] = b]
  BY DEF GiveUp
<1>3. /\ b \in Attempt /\ b.stage = att[i].stage /\ b.status = "DEADLINE_EXCEEDED"
      /\ b.applied = att[i].applied /\ b.sent = att[i].sent
  BY <1>1 DEF Attempt, Statuses, Unsettled
<1> HIDE DEF b
<1>4. att[i].stage # "over" /\ att[i].status = "none"
  BY DEF GiveUp
<1>5. AttemptOK(b, op, flaw)
  BY <1>1, <1>3, <1>4 DEF AttemptOK, Definite
<1>6. Promised(b, op, live, kept, back)
  BY <1>1, <1>3, <1>4 DEF Promised
<1>7. /\ rpc' = rpc /\ flaw' = flaw /\ live' = live /\ kept' = kept
      /\ snap' = snap /\ back' = back /\ cur' = cur
  BY DEF GiveUp, target, flushed
<1>8. cur' \in cur..MaxTries /\ i <= cur'
  BY <1>7, AttemptIsMade DEF GiveUp
<1> QED BY <1>2, <1>3, <1>5, <1>6, <1>7, <1>8, OnlyTheAttemptMoves

LEMMA LimitStep == ASSUME Inv, NEW i \in Try, Limit(i) PROVE Inv'
<1>1. "RESOURCE_EXHAUSTED" \in Statuses
  BY DEF Statuses, Unsettled
<1>2. /\ Answer(i, "RESOURCE_EXHAUSTED") /\ att[i].stage = "arrived"
      /\ UNCHANGED <<rpc, flaw, target, cur>>
  BY DEF Limit
<1> QED BY <1>1, <1>2, Refused

LEMMA ValidateStep == ASSUME Inv, NEW i \in Try, Validate(i) PROVE Inv'
<1>1. att[i].stage = "arrived" /\ UNCHANGED <<rpc, flaw, target, cur>>
  BY DEF Validate
<1>2. CASE flaw \in op.args
  <2>1. Answer(i, Status(flaw))
    BY <1>2 DEF Validate
  <2>2. op.effect \in {"create", "delete"} => op.args \subseteq PlainFlaws
    BY OpIsWellFormed DEF WellFormed
  <2>3. op.effect \in {"create", "delete"} => Status(flaw) \notin {"NOT_FOUND", "ALREADY_EXISTS"}
    BY <1>2, <2>2, StatusFacts
  <2>4. Status(flaw) \in Statuses /\ Status(flaw) # "OK"
    BY StatusesAreTyped
  <2> DEFINE status == Status(flaw)
  <2>5. Answer(i, status) /\ status \in Statuses /\ status # "OK"
        /\ (op.effect \in {"create", "delete"} => status \notin {"NOT_FOUND", "ALREADY_EXISTS"})
    BY <2>1, <2>3, <2>4
  <2> HIDE DEF status
  <2> QED BY <1>1, <2>5, Refused
<1>3. CASE flaw \notin op.args
  <2> DEFINE b == [att[i] EXCEPT !.stage = "store"]
  <2>1. att[i] \in Attempt /\ AttemptOK(att[i], op, flaw) /\ Promised(att[i], op, live, kept, back)
    BY AttemptFacts
  <2>2. att' = [att EXCEPT ![i] = b]
    BY <1>3 DEF Validate
  <2>3. /\ b \in Attempt /\ b.stage = "store"
        /\ b.status = att[i].status /\ b.applied = att[i].applied /\ b.sent = att[i].sent
    BY <2>1 DEF Attempt, Stages
  <2> HIDE DEF b
  <2>4. AttemptOK(b, op, flaw)
    BY <1>1, <1>3, <2>1, <2>3 DEF AttemptOK
  <2>5. Promised(b, op, live, kept, back)
    BY <2>1, <2>3 DEF Promised
  <2>6. cur' \in cur..MaxTries /\ i <= cur'
    BY <1>1, AttemptIsMade
  <2>7. /\ rpc' = rpc /\ flaw' = flaw /\ live' = live /\ kept' = kept
        /\ snap' = snap /\ back' = back
    BY <1>1 DEF target, flushed
  <2> QED BY <2>2, <2>3, <2>4, <2>5, <2>6, <2>7, OnlyTheAttemptMoves
<1> QED BY <1>2, <1>3

LEMMA RefuseStep == ASSUME Inv, NEW i \in Try, Refuse(i) PROVE Inv'
<1>1. att[i].stage = "store" /\ UNCHANGED <<rpc, flaw, target, cur>>
  BY DEF Refuse
<1>2. SUFFICES ASSUME NEW err \in Refusals, Answer(i, Status(err)) PROVE Inv'
  BY Zenon DEF Refuse
<1>3. err # "none" /\ (err \in op.refuses \/ err = IF live.there THEN op.present ELSE op.missing)
  BY DEF Refusals
<1>4. op.effect = "create" /\ Status(err) = "ALREADY_EXISTS" => live.there
  BY <1>3, OpIsWellFormed DEF WellFormed
<1>5. ASSUME op.effect = "delete", Status(err) = "NOT_FOUND"
      PROVE  Gone(live, kept, back)
  <2>1. /\ op.refuses \subseteq {"ErrBucketNotEmpty"} /\ op.present = "none"
        /\ op.svc = "quota" => op.refuses = {} /\ op.missing = "none"
    BY <1>5, OpIsWellFormed DEF WellFormed
  <2>2. err # "ErrBucketNotEmpty"
    BY <1>5, StatusFacts
  <2>3. ~live.there /\ op.svc # "quota"
    BY <1>3, <2>1, <2>2
  <2>4. kept = live
    BY <2>3 DEF Inv, TargetOK
  <2> QED BY <2>3, <2>4 DEF Gone
<1>6. Status(err) \in Statuses /\ Status(err) # "OK"
  BY StatusesAreTyped
<1> DEFINE status == Status(err)
<1>7. /\ Answer(i, status) /\ status \in Statuses /\ status # "OK"
      /\ op.effect = "create" /\ status = "ALREADY_EXISTS" => live.there
      /\ op.effect = "delete" /\ status = "NOT_FOUND" => Gone(live, kept, back)
  BY <1>2, <1>4, <1>5, <1>6
<1> HIDE DEF status
<1> QED BY <1>1, <1>7, Refused

LEMMA StoreFailStep == ASSUME Inv, NEW i \in Try, StoreFail(i) PROVE Inv'
<1>1. att[i].stage = "store" /\ UNCHANGED <<rpc, flaw, target, cur>>
  BY DEF StoreFail
<1>2. SUFFICES ASSUME NEW err \in {"raw", "deadline exceeded", "canceled"},
                      Answer(i, IF op.total THEN "OK" ELSE Status(err))
               PROVE  Inv'
  BY Zenon DEF StoreFail
<1> DEFINE status == IF op.total THEN "OK" ELSE Status(err)
<1>3. status \in Statuses /\ status \notin {"NOT_FOUND", "ALREADY_EXISTS"}
  BY StatusFacts, StatusesAreTyped DEF Statuses
<1>4. status = "OK" => op.effect = "read"
  BY StatusesAreTyped, OpIsWellFormed DEF WellFormed
<1>5. Answer(i, status)
  BY <1>2
<1> HIDE DEF status
<1> QED BY <1>1, <1>3, <1>4, <1>5, Refused

(* What is done to a target. *)
LEMMA AppliedFacts ==
  ASSUME Inv, NEW t \in Target
  PROVE  /\ Applied(t) \in Target
         /\ op.effect = "create" => Applied(t).there /\ Applied(t).made = t.made
         /\ op.effect = "delete" => ~Applied(t).there /\ Applied(t).made = t.made
         /\ op.effect = "read" => Applied(t) = t
         /\ op.effect \in {"put", "append"} =>
              Applied(t).there = t.there /\ Applied(t).made = t.made + 1
<1>1. op.effect \in {"read", "create", "delete", "put", "append"}
  BY OpIsWellFormed DEF WellFormed, Effects
<1>2. CASE op.effect = "create"
  BY <1>2 DEF Applied, Target
<1>3. CASE op.effect = "delete"
  BY <1>3 DEF Applied, Target
<1>4. CASE op.effect = "read"
  BY <1>4 DEF Applied, Target
<1>5. CASE op.effect \in {"put", "append"}
  <2>1. Applied(t) = [t EXCEPT !.made = @ + 1]
    BY <1>5 DEF Applied
  <2> QED BY <2>1, <1>5 DEF Target
<1> QED BY <1>1, <1>2, <1>3, <1>4, <1>5

(* In the store. *)
LEMMA ApplyStep == ASSUME Inv, NEW i \in Try, Apply(i) PROVE Inv'
<1> DEFINE done == IF live' # live THEN "yes" ELSE att[i].applied
           b == [att[i] EXCEPT !.stage = "applied", !.applied = done]
           move == Applied(live)
<1>1. att[i] \in Attempt /\ AttemptOK(att[i], op, flaw) /\ Promised(att[i], op, live, kept, back)
  BY AttemptFacts
<1>2. /\ att[i].stage = "store" /\ flaw # "malformed id"
      /\ IF live.there THEN op.present = "none" ELSE op.missing = "none"
      /\ live' = move /\ kept' = (IF InMemory THEN kept ELSE live')
      /\ rpc' = rpc /\ flaw' = flaw /\ cur' = cur /\ snap' = snap /\ back' = back
  BY DEF Apply, flushed
<1>3. att' = [att EXCEPT ![i] = b]
  BY DEF Apply
<1>4. done \in {"no", "yes", "left", "lost"} /\ (live' # live => done = "yes")
  BY <1>1 DEF Attempt
<1> HIDE DEF done
<1>5. /\ b \in Attempt /\ b.stage = "applied"
      /\ b.status = att[i].status /\ b.applied = done /\ b.sent = att[i].sent
  BY <1>1, <1>4 DEF Attempt, Stages
<1> HIDE DEF b
<1>6. live \in Target /\ kept \in Target /\ TargetOK(op, live, kept)
  BY DEF Inv, TypeOK
<1>7. /\ move \in Target
      /\ op.effect = "create" => move.there /\ move.made = live.made
      /\ op.effect = "delete" => ~move.there /\ move.made = live.made
      /\ op.effect = "read" => move = live
      /\ op.effect \in {"put", "append"} => move.there = live.there /\ move.made = live.made + 1
  BY <1>6, AppliedFacts
<1> HIDE DEF move
<1>8. /\ op.effect \in {"read", "create", "delete", "put", "append"}
      /\ op.effect = "create" => op.present # "none" /\ op.svc # "quota"
  BY OpIsWellFormed DEF WellFormed, Effects
<1>9. live' \in Target /\ kept' \in Target /\ back' \in BOOLEAN
  BY <1>2, <1>6, <1>7 DEF Inv, TypeOK
<1>10. op.effect \notin {"read", "delete"} => live' # live
  <2>1. CASE op.effect = "create"
    BY <2>1, <1>2, <1>7, <1>8
  <2>2. CASE op.effect \in {"put", "append"}
    <3>1. live.made \in Int /\ live'.made = live.made + 1
      BY <2>2, <1>2, <1>6, <1>7 DEF Target
    <3>2. live'.made # live.made
      BY <3>1
    <3> QED BY <3>2
  <2> QED BY <1>8, <2>1, <2>2
<1>11. AttemptOK(b, op, flaw)
  <2>1. b.status \in {"none", "DEADLINE_EXCEEDED"} /\ flaw \notin op.args
    BY <1>1, <1>2, <1>5 DEF AttemptOK
  <2> QED BY <2>1, <1>2, <1>4, <1>5, <1>10 DEF AttemptOK, Definite
<1>12. TargetOK(op, live', kept')
  <2>1. op.svc # "quota" => kept' = live'
    BY <1>2 DEF InMemory
  <2>2. ASSUME op.effect # "append" PROVE live'.made >= 0 /\ kept'.made >= 0
    <3>1. live.made \in Int /\ kept.made \in Int /\ live.made >= 0 /\ kept.made >= 0
      BY <2>2, <1>6 DEF TargetOK, Target
    <3>2. move.made = live.made \/ move.made = live.made + 1
      BY <2>2, <1>7, <1>8
    <3>3. move.made >= 0
      BY <3>1, <3>2
    <3> QED BY <3>1, <3>3, <1>2
  <2> QED BY <2>1, <2>2 DEF TargetOK
<1>13. op.effect = "put" => live'.made > 0
  <2>1. op.effect = "put" => live.made \in Int /\ live.made >= 0 /\ live'.made = live.made + 1
    BY <1>2, <1>6, <1>7 DEF TargetOK, Target
  <2> QED BY <2>1
<1>14. Keeps(op, live, kept, back, live', kept', back')
  BY <1>2, <1>7, <1>13 DEF Keeps, Gone
<1>15. Promised(b, op, live', kept', back')
  <2>1. b.status \notin {"OK", "ALREADY_EXISTS", "NOT_FOUND"}
    BY <1>1, <1>2, <1>5 DEF AttemptOK
  <2> QED BY <2>1, <1>2, <1>7, <1>13 DEF Promised
<1>16. cur' \in cur..MaxTries /\ i <= cur'
  BY <1>2, AttemptIsMade
<1> QED BY <1>2, <1>3, <1>5, <1>9, <1>11, <1>12, <1>14, <1>15, <1>16, OneAttemptMoves

(* The answer of an attempt that has acted: the target stays and what is   *)
(* stored may catch up with it.                                            *)
LEMMA AnsweredAfter ==
  ASSUME Inv, NEW i \in Try, NEW status \in Statuses, NEW b \in Attempt,
         att' = [att EXCEPT ![i] = b], att[i].stage = "applied",
         b.stage = "over", b.status = IF att[i].status = "none" THEN status ELSE att[i].status,
         b.applied = att[i].applied \/ b.applied \in {"no", "left"},
         rpc' = rpc, flaw' = flaw, cur' = cur, live' = live, kept' \in {kept, live}, snap' = snap,
         back' = back \/ (back' \in BOOLEAN /\ op.effect = "delete" /\ kept' = live),
         status = "OK" /\ op.effect # "read" => flaw = "none" /\ b.applied = att[i].applied,
         status \in Definite => b.applied \in {"no", "left"},
         op.event /\ b.applied = "yes" /\ ~b.sent =>
           status \in {"INTERNAL", "UNAVAILABLE", "DEADLINE_EXCEEDED"},
         op.effect \in {"create", "delete"} => status \notin {"NOT_FOUND", "ALREADY_EXISTS"},
         status = "OK" /\ op.effect \in {"delete", "put"} => kept' = live
  PROVE  Inv'
<1>1. att[i] \in Attempt /\ AttemptOK(att[i], op, flaw) /\ Promised(att[i], op, live, kept, back)
  BY AttemptFacts
<1>2. live \in Target /\ kept \in Target /\ TargetOK(op, live, kept)
  BY DEF Inv, TypeOK
<1>3. op.effect \in {"read", "create", "delete", "put", "append"}
  BY OpIsWellFormed DEF WellFormed, Effects
<1>4. live' \in Target /\ kept' \in Target /\ TargetOK(op, live', kept')
  BY <1>2 DEF TargetOK
<1>5. Keeps(op, live, kept, back, live', kept', back') /\ back' \in BOOLEAN
  <2>1. back' \in BOOLEAN
    BY DEF Inv, TypeOK
  <2>2. op.effect = "delete" => ~live.there
    BY <1>1 DEF Promised
  <2> QED BY <2>1, <2>2 DEF Keeps, Gone
<1>6. AttemptOK(b, op, flaw) /\ Promised(b, op, live', kept', back')
  <2>1. status = "OK" /\ op.effect # "read" =>
          flaw = "none" /\ (op.effect # "delete" => b.applied \in {"yes", "lost"})
    BY <1>1, <1>3 DEF AttemptOK
  <2>2. op.effect = "create" /\ status \in {"OK", "ALREADY_EXISTS"} => live'.there
    BY <1>1 DEF Promised
  <2>3. op.effect = "delete" /\ status \in {"OK", "NOT_FOUND"} => Gone(live', kept', back')
    BY <1>1 DEF Promised, Gone
  <2>4. op.effect = "put" /\ b.applied = "yes" /\ status = "OK" => live'.made > 0 /\ kept'.made > 0
    BY <1>1 DEF Promised
  <2>5. att[i] \in Attempt /\ AttemptOK(att[i], op, flaw) /\ att[i].stage # "over"
    BY <1>1
  <2> QED BY <2>1, <2>2, <2>3, <2>4, <2>5, AnswersHold, ZenonT(60)
<1>7. cur' \in cur..MaxTries /\ i <= cur'
  BY AttemptIsMade
<1> QED BY <1>4, <1>5, <1>6, <1>7, OneAttemptMoves

(* After the store. *)
LEMMA AfterFailStep == ASSUME Inv, NEW i \in Try, AfterFail(i) PROVE Inv'
<1>1. /\ att[i].stage = "applied" /\ kept' \in {kept, live}
      /\ rpc' = rpc /\ flaw' = flaw /\ live' = live /\ cur' = cur
      /\ snap' = snap /\ back' = back
  BY DEF AfterFail, flushed
<1>2. SUFFICES ASSUME NEW err \in op.after, Answer(i, Status(err)) PROVE Inv'
  BY Zenon DEF AfterFail
<1> DEFINE status == Status(err)
           b == Answered(att[i], status)
<1>3. err \in CommitLost /\ (op.event => op.effect = "delete" /\ op.svc = "metadata")
  BY OpIsWellFormed DEF WellFormed
<1>4. /\ status \in Statuses /\ status \in Vague
      /\ op.event => status \in {"INTERNAL", "DEADLINE_EXCEEDED"}
  BY <1>3, StatusFacts, StatusesAreTyped
<1>5. att' = [att EXCEPT ![i] = b]
  BY <1>2 DEF Answer
<1> HIDE DEF status
<1>6. /\ b \in Attempt /\ b.stage = "over" /\ b.applied = att[i].applied
      /\ b.status = IF att[i].status = "none" THEN status ELSE att[i].status
  BY <1>4, AttemptFacts, AnsweredFacts
<1> HIDE DEF b
<1>7. status \notin Definite \cup {"OK", "NOT_FOUND", "ALREADY_EXISTS"}
  BY <1>4 DEF Vague, Definite
<1> QED BY <1>1, <1>4, <1>5, <1>6, <1>7, AnsweredAfter

LEMMA SendStep == ASSUME Inv, NEW i \in Try, Send(i) PROVE Inv'
<1> DEFINE b == [att[i] EXCEPT !.sent = TRUE]
<1>1. att[i] \in Attempt /\ AttemptOK(att[i], op, flaw) /\ Promised(att[i], op, live, kept, back)
  BY AttemptFacts
<1>2. att' = [att EXCEPT ![i] = b]
  BY DEF Send
<1>3. /\ b \in Attempt /\ b.stage = att[i].stage /\ b.status = att[i].status
      /\ b.applied = att[i].applied /\ b.sent
  BY <1>1 DEF Attempt
<1> HIDE DEF b
<1>4. /\ att[i].stage = "applied"
      /\ rpc' = rpc /\ flaw' = flaw /\ live' = live /\ kept' = kept
      /\ snap' = snap /\ back' = back /\ cur' = cur
  BY DEF Send, target, flushed
<1>5. AttemptOK(b, op, flaw)
  BY <1>1, <1>3, <1>4 DEF AttemptOK
<1>6. Promised(b, op, live, kept, back)
  BY <1>1, <1>3 DEF Promised
<1>7. cur' \in cur..MaxTries /\ i <= cur'
  BY <1>4, AttemptIsMade
<1> QED BY <1>2, <1>3, <1>4, <1>5, <1>6, <1>7, OnlyTheAttemptMoves

LEMMA SendFailStep == ASSUME Inv, NEW i \in Try, SendFail(i) PROVE Inv'
<1> DEFINE status == Status("ErrInternal")
           a == Answered(att[i], status)
<1>1. /\ att[i].stage = "applied" /\ op.event
      /\ rpc' = rpc /\ flaw' = flaw /\ live' = live /\ kept' = kept
      /\ snap' = snap /\ back' = back /\ cur' = cur
  BY DEF SendFail, target, flushed
<1>2. SUFFICES ASSUME NEW got \in BOOLEAN, att' = [att EXCEPT ![i] = [a EXCEPT !.sent = got]]
               PROVE  Inv'
  BY Zenon DEF SendFail
<1>3. op.svc = "metadata"
  BY <1>1, OpIsWellFormed DEF WellFormed
<1>4. status \in Statuses /\ status \in {"INTERNAL", "DEADLINE_EXCEEDED"}
  BY <1>3, StatusFacts, StatusesAreTyped
<1> HIDE DEF status
<1>5. /\ a \in Attempt /\ a.stage = "over" /\ a.applied = att[i].applied
      /\ a.status = IF att[i].status = "none" THEN status ELSE att[i].status
  BY <1>4, AttemptFacts, AnsweredFacts
<1> HIDE DEF a
<1> DEFINE b == [a EXCEPT !.sent = got]
<1>6. /\ b \in Attempt /\ b.stage = "over" /\ b.applied = att[i].applied
      /\ b.status = IF att[i].status = "none" THEN status ELSE att[i].status
  BY <1>5 DEF Attempt
<1>7. att' = [att EXCEPT ![i] = b]
  BY <1>2
<1> HIDE DEF b
<1>8. status \notin Definite \cup {"OK", "NOT_FOUND", "ALREADY_EXISTS"}
  BY <1>4 DEF Definite
<1> QED BY <1>1, <1>4, <1>6, <1>7, <1>8, AnsweredAfter

LEMMA FinishStep == ASSUME Inv, NEW i \in Try, Finish(i) PROVE Inv'
<1> DEFINE b == Answered(att[i], "OK")
<1>1. /\ att[i].stage = "applied" /\ flaw # "late" /\ (op.event => att[i].sent)
      /\ kept' = (IF op.effect \in {"put", "delete"} THEN live ELSE kept)
      /\ back' = (back /\ op.effect # "delete")
      /\ rpc' = rpc /\ flaw' = flaw /\ live' = live /\ snap' = snap /\ cur' = cur
  BY DEF Finish
<1>2. att[i] \in Attempt /\ AttemptOK(att[i], op, flaw)
  BY AttemptFacts
<1>3. att' = [att EXCEPT ![i] = b]
  BY DEF Finish, Answer
<1>4. "OK" \in Statuses /\ "OK" \notin Definite
  BY DEF Statuses, Definite
<1>5. /\ b \in Attempt /\ b.stage = "over" /\ b.applied = att[i].applied /\ b.sent = att[i].sent
      /\ b.status = IF att[i].status = "none" THEN "OK" ELSE att[i].status
  BY <1>2, <1>4, AnsweredFacts
<1> HIDE DEF b
<1>6. flaw = "none"
  <2>1. flaw \notin op.args /\ flaw # "malformed id"
    BY <1>1, <1>2 DEF AttemptOK
  <2>2. flaw \in Flaws(op)
    BY DEF Inv, TypeOK
  <2> QED BY <1>1, <2>1, <2>2 DEF Flaws
<1>7. back' = back \/ (back' \in BOOLEAN /\ op.effect = "delete" /\ kept' = live)
  BY <1>1 DEF Inv, TypeOK
<1> QED BY <1>1, <1>3, <1>4, <1>5, <1>6, <1>7, AnsweredAfter

(* A flaw that is found late is the size of a blob. *)
LEMMA LateFlaws ==
  ASSUME Inv, NEW i \in Try, att[i].stage = "applied", flaw = "late"
  PROVE  op.effect = "append" /\ ~op.event
<1>1. flaw \notin op.args
  BY AttemptFacts DEF AttemptOK
<1>2. flaw \in Flaws(op)
  BY DEF Inv, TypeOK
<1>3. op.late # "none"
  BY <1>1, <1>2 DEF Flaws
<1> QED BY <1>3, OpIsWellFormed DEF WellFormed

LEMMA UndoStep == ASSUME Inv, NEW i \in Try, Undo(i) PROVE Inv'
<1> DEFINE status == Status(op.late)
           a == Answered(att[i], status)
           b == [a EXCEPT !.applied = "no"]
<1>1. /\ att[i].stage = "applied" /\ flaw = "late"
      /\ live' = [live EXCEPT !.made = @ - 1] /\ kept' = live'
      /\ rpc' = rpc /\ flaw' = flaw /\ cur' = cur /\ snap' = snap /\ back' = back
  BY DEF Undo, flushed
<1>2. op.effect = "append" /\ ~op.event
  BY <1>1, LateFlaws
<1>3. att' = [att EXCEPT ![i] = b]
  BY DEF Undo
<1>4. status \in Statuses /\ status # "OK"
  BY StatusesAreTyped
<1>5. att[i] \in Attempt /\ AttemptOK(att[i], op, flaw)
  BY AttemptFacts
<1> HIDE DEF status
<1>6. /\ a \in Attempt /\ a.stage = "over"
      /\ a.status = IF att[i].status = "none" THEN status ELSE att[i].status
  BY <1>4, <1>5, AnsweredFacts
<1> HIDE DEF a
<1>7. /\ b \in Attempt /\ b.stage = "over" /\ b.applied = "no"
      /\ b.status = IF att[i].status = "none" THEN status ELSE att[i].status
  BY <1>6 DEF Attempt
<1> HIDE DEF b
<1>8. live' \in Target /\ kept' \in Target /\ back' \in BOOLEAN
  BY <1>1 DEF Inv, TypeOK, Target
<1>9. TargetOK(op, live', kept') /\ Keeps(op, live, kept, back, live', kept', back')
  BY <1>1, <1>2 DEF TargetOK, Keeps
<1>10. AttemptOK(b, op, flaw) /\ Promised(b, op, live', kept', back')
  <2>1. /\ op.effect # "create" /\ op.effect # "delete" /\ op.effect # "put"
        /\ b.applied \in {"no", "left"} /\ b.applied # "yes" /\ att[i].stage # "over"
    BY <1>1, <1>2, <1>7
  <2> QED BY <1>4, <1>5, <1>7, <2>1, AnswersHold
<1>11. cur' \in cur..MaxTries /\ i <= cur'
  BY <1>1, AttemptIsMade
<1> QED BY <1>1, <1>3, <1>7, <1>8, <1>9, <1>10, <1>11, OneAttemptMoves

LEMMA UndoFailStep == ASSUME Inv, NEW i \in Try, UndoFail(i) PROVE Inv'
<1> DEFINE status == Status(op.late)
           a == Answered(att[i], status)
           b == [a EXCEPT !.applied = "left"]
<1>1. /\ att[i].stage = "applied" /\ flaw = "late"
      /\ rpc' = rpc /\ flaw' = flaw /\ live' = live /\ kept' = kept
      /\ snap' = snap /\ back' = back /\ cur' = cur
  BY DEF UndoFail, target, flushed
<1>2. op.effect = "append" /\ ~op.event
  BY <1>1, LateFlaws
<1>3. att' = [att EXCEPT ![i] = b]
  BY DEF UndoFail
<1>4. status \in Statuses /\ status # "OK"
  BY StatusesAreTyped
<1> HIDE DEF status
<1>5. /\ a \in Attempt /\ a.stage = "over"
      /\ a.status = IF att[i].status = "none" THEN status ELSE att[i].status
  BY <1>4, AttemptFacts, AnsweredFacts
<1> HIDE DEF a
<1>6. /\ b \in Attempt /\ b.stage = "over" /\ b.applied = "left"
      /\ b.status = IF att[i].status = "none" THEN status ELSE att[i].status
  BY <1>5 DEF Attempt
<1> HIDE DEF b
<1> QED BY <1>1, <1>2, <1>3, <1>4, <1>6, AnsweredAfter

(* What can go wrong and is taken back. *)
LEMMA UndoneFacts ==
  ASSUME Inv, NEW err \in op.undone
  PROVE  op.effect = "put" /\ op.svc # "quota" /\ ~op.event
<1>1. WellFormed(op)
  BY OpIsWellFormed
<1> QED BY <1>1 DEF WellFormed

(* Every attempt that had been carried out has lost the blob. *)
LEMMA TakeBackStep == ASSUME Inv, NEW i \in Try, TakeBack(i) PROVE Inv'
<1>1. /\ att[i].stage = "applied"
      /\ live' = [live EXCEPT !.made = 0] /\ kept' = live'
      /\ rpc' = rpc /\ flaw' = flaw /\ cur' = cur /\ snap' = snap /\ back' = back
  BY DEF TakeBack, flushed
<1>2. SUFFICES ASSUME NEW err \in op.undone,
                      att' = [j \in Try |->
                                IF j = i THEN [Answered(att[i], Status(err)) EXCEPT !.applied = "no"]
                                ELSE IF att[j].applied = "yes" THEN [att[j] EXCEPT !.applied = "lost"]
                                ELSE att[j]]
               PROVE  Inv'
  BY Zenon DEF TakeBack
<1>3. op.effect = "put" /\ op.svc # "quota" /\ ~op.event
  BY UndoneFacts
<1>4. op' = op
  BY <1>1 DEF op
<1>5. live' \in Target /\ live'.made = 0
  BY <1>1 DEF Inv, TypeOK, Target
<1>6. /\ att'[i] \in Attempt /\ att'[i].stage = "over"
      /\ AttemptOK(att'[i], op, flaw) /\ Promised(att'[i], op, live', kept', back')
  <2> DEFINE status == Status(err)
             a == Answered(att[i], status)
             b == [a EXCEPT !.applied = "no"]
  <2>1. status \in Statuses /\ status # "OK"
    BY StatusesAreTyped
  <2>2. att[i] \in Attempt /\ AttemptOK(att[i], op, flaw)
    BY AttemptFacts
  <2>3. att'[i] = b
    BY <1>2
  <2> HIDE DEF status
  <2>4. /\ a \in Attempt /\ a.stage = "over"
        /\ a.status = IF att[i].status = "none" THEN status ELSE att[i].status
    BY <2>1, <2>2, AnsweredFacts
  <2> HIDE DEF a
  <2>5. /\ b \in Attempt /\ b.stage = "over" /\ b.applied = "no"
        /\ b.status = IF att[i].status = "none" THEN status ELSE att[i].status
    BY <2>4 DEF Attempt
  <2> HIDE DEF b
  <2>6. AttemptOK(b, op, flaw) /\ Promised(b, op, live', kept', back')
    BY <1>1, <1>3, <2>1, <2>2, <2>5, AnswersHold
  <2> QED BY <2>3, <2>5, <2>6
<1>7. ASSUME NEW j \in Try, j # i
      PROVE  /\ att'[j] \in Attempt /\ att'[j].stage = att[j].stage
             /\ AttemptOK(att'[j], op, flaw) /\ Promised(att'[j], op, live', kept', back')
  <2> DEFINE b == IF att[j].applied = "yes" THEN [att[j] EXCEPT !.applied = "lost"] ELSE att[j]
  <2>1. att[j] \in Attempt /\ AttemptOK(att[j], op, flaw)
    BY AttemptFacts
  <2>2. att'[j] = b
    BY <1>2, <1>7
  <2>3. /\ b \in Attempt /\ b.stage = att[j].stage /\ b.status = att[j].status /\ b.sent = att[j].sent
        /\ b.applied # "yes"
        /\ b.applied = att[j].applied \/ (att[j].applied = "yes" /\ b.applied = "lost")
    <3>1. CASE att[j].applied = "yes"
      <4>1. b = [att[j] EXCEPT !.applied = "lost"]
        BY <3>1
      <4> HIDE DEF b
      <4> QED BY <2>1, <3>1, <4>1 DEF Attempt
    <3>2. CASE att[j].applied # "yes"
      BY <2>1, <3>2
    <3> QED BY <3>1, <3>2
  <2> HIDE DEF b
  <2>4. AttemptOK(b, op, flaw)
    BY <1>3, <2>1, <2>3 DEF AttemptOK
  <2>5. Promised(b, op, live', kept', back')
    BY <1>3, <2>3 DEF Promised
  <2> QED BY <2>2, <2>3, <2>4, <2>5
<1>8. TypeOK'
  <2>1. att' \in [Try -> Attempt]
    <3>1. \A j \in Try : att'[j] \in Attempt
      BY <1>6, <1>7
    <3> QED BY <1>2, <3>1
  <2> QED BY <1>1, <1>4, <1>5, <2>1 DEF Inv, TypeOK
<1>9. TargetOK(op', live', kept') /\ SnapOK(op', snap')
  BY <1>1, <1>4, <1>5 DEF Inv, TargetOK
<1>10. ASSUME NEW j \in Try, j > cur' PROVE att'[j].stage = "idle"
  <2>1. att[j].stage = "idle"
    BY <1>1, <1>10 DEF Inv
  <2>2. j # i
    BY <1>1, <2>1
  <2> QED BY <1>7, <2>1, <2>2
<1>11. ASSUME NEW j \in Try
       PROVE  AttemptOK(att'[j], op', flaw') /\ Promised(att'[j], op', live', kept', back')
  BY <1>1, <1>4, <1>6, <1>7
<1> QED BY <1>8, <1>9, <1>10, <1>11 DEF Inv

LEMMA TakeBackFailStep == ASSUME Inv, NEW i \in Try, TakeBackFail(i) PROVE Inv'
<1>1. /\ att[i].stage = "applied"
      /\ rpc' = rpc /\ flaw' = flaw /\ live' = live /\ kept' = kept
      /\ snap' = snap /\ back' = back /\ cur' = cur
  BY DEF TakeBackFail, target, flushed
<1>2. SUFFICES ASSUME NEW err \in op.undone,
                      att' = [att EXCEPT ![i] = [Answered(@, Status(err)) EXCEPT !.applied = "left"]]
               PROVE  Inv'
  BY Zenon DEF TakeBackFail
<1>3. op.effect = "put" /\ ~op.event
  BY UndoneFacts
<1> DEFINE status == Status(err)
           a == Answered(att[i], status)
           b == [a EXCEPT !.applied = "left"]
<1>4. att' = [att EXCEPT ![i] = b]
  BY <1>2
<1>5. status \in Statuses /\ status # "OK"
  BY StatusesAreTyped
<1> HIDE DEF status
<1>6. /\ a \in Attempt /\ a.stage = "over"
      /\ a.status = IF att[i].status = "none" THEN status ELSE att[i].status
  BY <1>5, AttemptFacts, AnsweredFacts
<1> HIDE DEF a
<1>7. /\ b \in Attempt /\ b.stage = "over" /\ b.applied = "left"
      /\ b.status = IF att[i].status = "none" THEN status ELSE att[i].status
  BY <1>6 DEF Attempt
<1> HIDE DEF b
<1> QED BY <1>1, <1>3, <1>4, <1>5, <1>7, AnsweredAfter

(* The attempts and what they find stand still, what is stored may move. *)
LEMMA FlushMoves ==
  ASSUME Inv, rpc' = rpc, flaw' = flaw, live' = live, att' = att, cur' = cur,
         kept' \in Target, snap' \in SUBSET Target, back' \in BOOLEAN,
         TargetOK(op, live', kept'), SnapOK(op, snap'),
         Keeps(op, live, kept, back, live', kept', back')
  PROVE  Inv'
<1>1. op' = op
  BY DEF op
<1>2. TypeOK'
  BY <1>1 DEF Inv, TypeOK
<1>3. ASSUME NEW j \in Try
      PROVE  AttemptOK(att'[j], op', flaw') /\ Promised(att'[j], op', live', kept', back')
  <2>1. AttemptOK(att[j], op, flaw) /\ Promised(att[j], op, live, kept, back)
    BY AttemptFacts
  <2>2. Promised(att[j], op, live', kept', back')
    BY <2>1, PromisesAreKept, Zenon
  <2> QED BY <1>1, <2>1, <2>2
<1>4. \A j \in Try : j > cur' => att'[j].stage = "idle"
  BY DEF Inv
<1> QED BY <1>1, <1>2, <1>3, <1>4 DEF Inv

LEMMA FlushStep == ASSUME Inv, Flush PROVE Inv'
<1>1. /\ live \in Target /\ kept \in Target /\ snap \in SUBSET Target /\ back \in BOOLEAN
      /\ TargetOK(op, live, kept) /\ SnapOK(op, snap)
  BY DEF Inv, TypeOK
<1>2. CASE Collect
  <2>1. /\ op.svc = "quota" /\ op.effect \in {"append", "delete"} /\ snap' = {live}
        /\ rpc' = rpc /\ flaw' = flaw /\ live' = live /\ kept' = kept /\ back' = back
        /\ att' = att /\ cur' = cur
    BY <1>2 DEF Collect, InMemory
  <2>2. SnapOK(op, snap') /\ snap' \in SUBSET Target
    BY <1>1, <2>1 DEF SnapOK, TargetOK
  <2>3. Keeps(op, live, kept, back, live', kept', back')
    BY <2>1, StandingStill
  <2> QED BY <1>1, <2>1, <2>2, <2>3, FlushMoves
<1>3. CASE WriteUsage
  <2>1. PICK t \in snap : kept' = t
    BY <1>3 DEF WriteUsage
  <2>2. /\ snap' = {} /\ back' = (back \/ (op.effect = "delete" /\ ~live.there))
        /\ rpc' = rpc /\ flaw' = flaw /\ live' = live /\ att' = att /\ cur' = cur
    BY <1>3 DEF WriteUsage
  <2>3. /\ op.svc = "quota" /\ op.effect \in {"append", "delete"}
        /\ op.effect = "delete" => t.made >= 0
    BY <1>1, <2>1 DEF SnapOK
  <2>4. TargetOK(op, live', kept')
    BY <1>1, <2>1, <2>2, <2>3 DEF TargetOK
  <2>5. Keeps(op, live, kept, back, live', kept', back')
    BY <2>1, <2>2, <2>3 DEF Keeps, Gone
  <2>6. SnapOK(op, snap') /\ snap' \in SUBSET Target /\ back' \in BOOLEAN /\ kept' \in Target
    BY <1>1, <2>1, <2>2 DEF SnapOK
  <2> QED BY <2>2, <2>4, <2>5, <2>6, FlushMoves
<1>4. CASE WriteFail
  <2>1. /\ snap' = {} /\ rpc' = rpc /\ flaw' = flaw /\ live' = live /\ kept' = kept
        /\ back' = back /\ att' = att /\ cur' = cur
    BY <1>4 DEF WriteFail
  <2>2. SnapOK(op, snap') /\ snap' \in SUBSET Target
    BY <2>1 DEF SnapOK
  <2>3. Keeps(op, live, kept, back, live', kept', back')
    BY <2>1, StandingStill
  <2> QED BY <1>1, <2>1, <2>2, <2>3, FlushMoves
<1> QED BY <1>2, <1>3, <1>4 DEF Flush

(* A restart ends every attempt and shows what is stored. *)
LEMMA CrashStep == ASSUME Inv, Crash PROVE Inv'
<1>1. /\ att' = [i \in Try |-> IF i \in Running THEN Answered(att[i], "UNAVAILABLE") ELSE att[i]]
      /\ live' = kept /\ rpc' = rpc /\ flaw' = flaw /\ kept' = kept
      /\ snap' = {} /\ back' = back /\ cur' = cur
  BY DEF Crash
<1>2. op' = op
  BY <1>1 DEF op
<1>3. "UNAVAILABLE" \in Statuses /\ "UNAVAILABLE" \notin Definite
  BY DEF Statuses, Unsettled, Definite
<1>4. ASSUME NEW j \in Try
      PROVE  /\ att'[j] \in Attempt
             /\ AttemptOK(att'[j], op, flaw)
             /\ Promised(att'[j], op, kept, kept, back)
  <2>1. att[j] \in Attempt /\ AttemptOK(att[j], op, flaw) /\ Promised(att[j], op, live, kept, back)
    BY AttemptFacts
  <2>2. CASE j \in Running
    <3> DEFINE b == Answered(att[j], "UNAVAILABLE")
    <3>1. att'[j] = b
      BY <1>1, <2>2
    <3>2. /\ b \in Attempt /\ b.stage = "over"
          /\ b.status = IF att[j].status = "none" THEN "UNAVAILABLE" ELSE att[j].status
      BY <1>3, <2>1, AnsweredFacts
    <3> HIDE DEF b
    <3>3. att[j].stage # "over"
      BY <2>2 DEF Running
    <3>4. AttemptOK(b, op, flaw) /\ Promised(b, op, kept, kept, back)
      BY <1>3, <2>1, <3>2, <3>3, AnswersHold
    <3> QED BY <3>1, <3>2, <3>4
  <2>3. CASE j \notin Running
    <3>1. att'[j] = att[j]
      BY <1>1, <2>3
    <3>2. att[j].stage # "applied"
      BY <2>3 DEF Running
    <3>3. op.effect = "create" => kept = live
      BY OpIsWellFormed DEF WellFormed, Inv, TargetOK
    <3>4. Promised(att[j], op, kept, kept, back)
      BY <2>1, <3>2, <3>3 DEF Promised, Gone
    <3> QED BY <2>1, <3>1, <3>4
  <2> QED BY <2>2, <2>3
<1>5. TypeOK'
  <2>1. att' \in [Try -> Attempt]
    BY <1>1, <1>4
  <2> QED BY <1>1, <1>2, <2>1 DEF Inv, TypeOK
<1>6. TargetOK(op', live', kept') /\ SnapOK(op', snap')
  BY <1>1, <1>2 DEF Inv, TargetOK, SnapOK
<1>7. ASSUME NEW j \in Try, j > cur' PROVE att'[j].stage = "idle"
  <2>1. att[j].stage = "idle"
    BY <1>1, <1>7 DEF Inv
  <2>2. j \notin Running
    BY <2>1 DEF Running
  <2> QED BY <1>1, <2>1, <2>2
<1> QED BY <1>1, <1>2, <1>4, <1>5, <1>6, <1>7 DEF Inv

-----------------------------------------------------------------------------
(* The theorems *)

(* At first nothing was attempted. *)
LEMMA InitInv == ASSUME Init PROVE Inv
<1> DEFINE first == [stage |-> "idle", status |-> "none", applied |-> "no", sent |-> FALSE]
<1>1. /\ live \in Target /\ kept = live /\ live.made = 0
      /\ rpc \in DOMAIN Rpcs /\ flaw \in Flaws(op) /\ cur = 0
      /\ att = [i \in Try |-> first] /\ snap = {} /\ back = FALSE
  BY DEF Init, Target
<1>2. /\ first \in Attempt /\ first.stage = "idle" /\ first.status = "none"
      /\ first.applied = "no" /\ ~first.sent
  BY DEF Attempt, Stages, Statuses
<1> HIDE DEF first
<1>3. TypeOK
  <2>1. att \in [Try -> Attempt] /\ cur \in 0..MaxTries
    BY <1>1, <1>2, TriesAssumption
  <2>2. snap \in SUBSET Target /\ back \in BOOLEAN
    BY <1>1
  <2> QED BY <1>1, <2>1, <2>2, Zenon DEF TypeOK
<1>4. TargetOK(op, live, kept) /\ SnapOK(op, snap)
  BY <1>1 DEF TargetOK, SnapOK
<1>5. ASSUME NEW i \in Try
      PROVE  /\ att[i].stage = "idle"
             /\ AttemptOK(att[i], op, flaw)
             /\ Promised(att[i], op, live, kept, back)
  <2>1. att[i] = first
    BY <1>1
  <2>2. AttemptOK(first, op, flaw)
    BY <1>2 DEF AttemptOK, Definite
  <2>3. Promised(first, op, live, kept, back)
    BY <1>2 DEF Promised
  <2> QED BY <1>2, <2>1, <2>2, <2>3
<1> QED BY <1>3, <1>4, <1>5 DEF Inv

(* Action by action. *)
LEMMA NextInv == ASSUME Inv, [Next]_vars PROVE Inv'
<1>1. CASE Call
  BY <1>1, CallStep
<1>2. CASE Flush
  BY <1>2, FlushStep
<1>3. CASE Crash
  BY <1>3, CrashStep
<1>4. CASE Done \/ UNCHANGED vars
  <2>1. /\ rpc' = rpc /\ flaw' = flaw /\ live' = live /\ kept' = kept
        /\ snap' = snap /\ back' = back /\ att' = att /\ cur' = cur
    BY <1>4 DEF Done, vars, target, flushed
  <2>2. op' = op
    BY <2>1 DEF op
  <2> QED BY <2>1, <2>2 DEF Inv, TypeOK
<1>5. ASSUME NEW i \in Try,
             \/ GiveUp(i) \/ Limit(i) \/ Validate(i) \/ Refuse(i) \/ StoreFail(i) \/ Apply(i)
             \/ AfterFail(i) \/ TakeBack(i) \/ TakeBackFail(i) \/ Send(i) \/ SendFail(i)
             \/ Finish(i) \/ Undo(i) \/ UndoFail(i)
      PROVE  Inv'
  BY <1>5, GiveUpStep, LimitStep, ValidateStep, RefuseStep, StoreFailStep, ApplyStep, AfterFailStep,
     TakeBackStep, TakeBackFailStep, SendStep, SendFailStep, FinishStep, UndoStep, UndoFailStep
<1> QED BY <1>1, <1>2, <1>3, <1>4, <1>5 DEF Next

(* Everything the theorems below follow from holds in every state.         *)
THEOREM Invariance == Spec => []Inv
<1>1. Init => Inv
  BY InitInv
<1>2. Inv /\ [Next]_vars => Inv'
  BY NextInv
<1> QED BY <1>1, <1>2, PTL DEF Spec

(* Every variable keeps its type, for any number of attempts.              *)
THEOREM TypeCorrect == Spec => []TypeOK
<1>1. Inv => TypeOK
  BY DEF Inv
<1> QED BY <1>1, Invariance, PTL

(* An answer is true of the attempt it answers, for each of the RPCs: OK   *)
(* is not given to a request with a flaw or to one that was not carried    *)
(* out, and a definite error leaves nothing behind that could be removed,  *)
(* also when it comes after the effect, as ErrDiskFull of a Complete does  *)
(* (handleError, QuotaError to Status and the order of the handlers).      *)
THEOREM AnswersAreTrue == Spec => []AnswerIsTrue
<1>1. Inv => AnswerIsTrue
  <2> SUFFICES ASSUME Inv, NEW i \in Try
               PROVE  /\ att[i].status = "OK" /\ op.effect # "read" =>
                           flaw = "none" /\ (op.effect # "delete" => att[i].applied \in {"yes", "lost"})
                      /\ att[i].status \in Definite => att[i].applied \in {"no", "left"}
    BY Zenon DEF AnswerIsTrue
  <2>1. AttemptOK(att[i], op, flaw)
    BY AttemptFacts
  <2> QED BY <2>1, Zenon DEF AttemptOK
<1> QED BY <1>1, Invariance, PTL

(* A client that repeats a request until it is settled has what it asked   *)
(* for, however many attempts overlap and however often the service        *)
(* restarts: the errors ErrBucketAlreadyExists, ErrEmailAlreadyExists and  *)
(* the NotFound of a deletion are as good as OK.  The exceptions are a     *)
(* Complete whose blob an older attempt took back, its marker unwritten    *)
(* (multipart.go:204-210), and a subject whose usage a flush wrote back    *)
(* after it was deleted (flush_to_storage against delete_subject).         *)
THEOREM RetriesConverge == Spec => []RetryConverges
<1>1. Inv => RetryConverges
  <2> SUFFICES ASSUME Inv, cur > 0 PROVE RetryConverges
    BY DEF RetryConverges
  <2>1. cur \in Try
    BY TriesAssumption DEF Inv, TypeOK, Try
  <2>2. Promised(att[cur], op, live, kept, back) /\ AttemptOK(att[cur], op, flaw)
    BY <2>1, AttemptFacts
  <2> QED BY <2>2 DEF Promised, AttemptOK, Gone, RetryConverges
<1> QED BY <1>1, Invariance, PTL

(* DeleteBucket and DeleteObjectMeta that commit and then fail to publish  *)
(* their event never answer OK: the loss is seen by the caller of the      *)
(* attempt that deleted.                                                   *)
THEOREM LossIsReported == Spec => []EventLossIsReported
<1>1. Inv => EventLossIsReported
  <2> SUFFICES ASSUME Inv, op.event, Running = {}, NEW i \in Try, ~att[i].sent, att[i].applied = "yes"
               PROVE  att[i].status \in {"INTERNAL", "UNAVAILABLE", "DEADLINE_EXCEEDED"}
    BY Zenon DEF EventLossIsReported
  <2>1. AttemptOK(att[i], op, flaw)
    BY AttemptFacts
  <2>2. att[i].stage \in {"idle", "over"}
    BY DEF Running
  <2> QED BY <2>1, <2>2 DEF AttemptOK
<1> QED BY <1>1, Invariance, PTL

-----------------------------------------------------------------------------
(* Start and shutdown, for any number of requests and signals *)

CONSTANT MaxSignals

Life == INSTANCE Lifecycle

(* The n-th loader of a service accepts an environment. *)
Passed(s, e, n) ==
  Life!Loading[s][n] # "env" => Life!Loaders(s, e)[Life!Loading[s][n]]

LEMMA ServiceNames ==
  Life!Service = {"auth", "metadata", "users", "storage", "gateway", "quota", "authz"}
  BY DEF Life!Service, Life!Startup

(* A configuration that every loader of its service has returned, whatever *)
(* its environment is.                                                     *)
LEMMA LoadedIsChecked ==
  ASSUME NEW s \in Life!Service, NEW e,
         \A n \in 1..Len(Life!Loading[s]) : Passed(s, e, n)
  PROVE  Life!Disabled(s, e) \subseteq MayLack[s]
<1> USE ServiceNames
<1>1. CASE s = "auth"
  <2>1. Life!Loading[s] = Life!AuthConfig /\ Len(Life!AuthConfig) = 10 /\ Life!AuthConfig[3] = "grpc"
    BY <1>1 DEF Life!Loading, Life!AuthConfig
  <2>2. Passed(s, e, 3)
    BY <2>1
  <2>3. Life!Loaders(s, e)["grpc"] = Life!AuthGRPC(e)
    BY <1>1 DEF Life!Loaders
  <2>4. ~Life!AnyPort(e)
    BY <2>1, <2>2, <2>3 DEF Passed, Life!AuthGRPC, Life!NotEmpty, Life!Listen, Life!AnyPort
  <2> QED
    BY <1>1, <2>4 DEF Life!Disabled, MayLack
<1>2. CASE s \in {"users", "metadata"}
  <2>1. Life!Disabled(s, e) \subseteq {"limiter", "port"}
    BY <1>2 DEF Life!Disabled
  <2> QED
    BY <1>2, <2>1 DEF MayLack
<1>3. CASE s = "storage"
  <2>1. Life!Loading[s] = Life!StorageConfig /\ Len(Life!StorageConfig) = 7
          /\ Life!StorageConfig[4] = "storage"
    BY <1>3 DEF Life!Loading, Life!StorageConfig
  <2>2. Passed(s, e, 4)
    BY <2>1
  <2>3. Life!Loaders(s, e)["storage"] = Life!StorageStorage(e)
    BY <1>3 DEF Life!Loaders
  <2>4. ~Life!BadChunk(e)
    BY <2>1, <2>2, <2>3 DEF Passed, Life!StorageStorage, Life!InRange, Life!Positive, Life!BadChunk
  <2> QED
    BY <1>3, <2>4 DEF Life!Disabled, MayLack
<1>4. CASE s = "gateway"
  <2>1. /\ Life!Loading[s] = Life!GatewayConfig /\ Len(Life!GatewayConfig) = 7
        /\ Life!GatewayConfig[3] = "metadata" /\ Life!GatewayConfig[4] = "storage"
    BY <1>4 DEF Life!Loading, Life!GatewayConfig
  <2>2. Passed(s, e, 3) /\ Passed(s, e, 4)
    BY <2>1
  <2>3. /\ Life!Loaders(s, e)["metadata"] = Life!GatewayMetadata(e)
        /\ Life!Loaders(s, e)["storage"] = Life!GatewayStorage(e)
    BY <1>4 DEF Life!Loaders
  <2>4. ~Life!BadChunk(e)
    BY <2>1, <2>2, <2>3 DEF Passed, Life!GatewayStorage, Life!InRange, Life!Positive, Life!BadChunk
  <2>5. ~Life!MetadataUnreachable(e)
    BY <2>1, <2>2, <2>3 DEF Passed, Life!GatewayMetadata, Life!Positive, Life!MetadataUnreachable
  <2> QED
    BY <1>4, <2>4, <2>5 DEF Life!Disabled, MayLack
<1>5. CASE s = "quota"
  BY <1>5 DEF Life!Disabled, MayLack
<1>6. CASE s = "authz"
  BY <1>6 DEF Life!Disabled, MayLack
<1> QED
  BY <1>1, <1>2, <1>3, <1>4, <1>5, <1>6

LEMMA LoadingLength ==
  ASSUME NEW s \in Life!Service
  PROVE  Len(Life!Loading[s]) \in Nat \ {0}
  BY ServiceNames DEF Life!Loading, Life!AuthConfig, Life!UsersConfig, Life!MetadataConfig,
     Life!StorageConfig, Life!GatewayConfig, Life!AuthzConfig, Life!QuotaConfig

(* While the configuration is loaded, the loaders before the next one have *)
(* returned their part.                                                    *)
LoadInv ==
  /\ svc \in Life!Service
  /\ life = "load" =>
       /\ pc \in 1..Len(Life!Loading[svc])
       /\ \A n \in 1..(pc - 1) : Passed(svc, env, n)
  /\ disabled \subseteq MayLack[svc]

LEMMA LoadInit == Life!Init => LoadInv
<1> SUFFICES ASSUME Life!Init PROVE LoadInv
  OBVIOUS
<1>1. svc \in Life!Service /\ pc = 1 /\ disabled = {}
  BY DEF Life!Init
<1>2. 1 \in 1..Len(Life!Loading[svc])
  BY <1>1, LoadingLength
<1> QED
  BY <1>1, <1>2 DEF LoadInv

(* Nothing else touches what the loaders have seen. *)
LEMMA LoadSame ==
  ASSUME LoadInv, UNCHANGED <<svc, disabled>>, 
         life' # "load" \/ UNCHANGED <<life, env, pc>>
  PROVE  LoadInv'
  BY DEF LoadInv, Passed

LEMMA LoadStepKeeps == LoadInv /\ Life!LoadStep => LoadInv'
<1> SUFFICES ASSUME LoadInv, Life!LoadStep PROVE LoadInv'
  OBVIOUS
<1>1. /\ life = "load" /\ svc' = svc /\ svc \in Life!Service /\ pc \in 1..Len(Life!Loading[svc])
      /\ Len(Life!Loading[svc]) \in Nat
      /\ Passed(svc, env, pc)
      /\ \A n \in 1..(pc - 1) : Passed(svc, env, n)
  BY LoadingLength DEF Life!LoadStep, LoadInv, Passed
<1>2. \A n \in 1..pc : Passed(svc, env, n)
  <2>1. ASSUME NEW n \in 1..pc PROVE n = pc \/ n \in 1..(pc - 1)
    BY <1>1
  <2> QED
    BY <1>1, <2>1
<1>3. CASE pc < Len(Life!Loading[svc])
  <2>1. pc' = pc + 1 /\ env' = env /\ disabled' = disabled
    BY <1>3 DEF Life!LoadStep, Life!config
  <2>2. pc + 1 \in 1..Len(Life!Loading[svc]) /\ (pc + 1) - 1 = pc
    BY <1>1, <1>3
  <2> QED
    BY <1>1, <1>2, <2>1, <2>2 DEF LoadInv, Passed
<1>4. CASE ~(pc < Len(Life!Loading[svc]))
  <2>1. life' = "init" /\ disabled' = Life!Disabled(svc, env)
    BY <1>4 DEF Life!LoadStep
  <2>2. pc = Len(Life!Loading[svc])
    BY <1>1, <1>4
  <2>3. disabled' \subseteq MayLack[svc]
    BY <1>1, <1>2, <2>1, <2>2, LoadedIsChecked
  <2> QED
    BY <1>1, <2>1, <2>3 DEF LoadInv
<1> QED
  BY <1>3, <1>4

LEMMA LoadNext == LoadInv /\ [Life!Next]_Life!vars => LoadInv'
<1> SUFFICES ASSUME LoadInv, [Life!Next]_Life!vars PROVE LoadInv'
  OBVIOUS
<1> USE DEF Life!config, Life!closer
<1>1. CASE Life!LoadStep
  BY <1>1, LoadStepKeeps
<1>2. CASE Life!LoadFail
  BY <1>2, LoadSame DEF Life!LoadFail, Life!Exit
<1>3. CASE Life!InitStep
  BY <1>3, LoadSame DEF Life!InitStep
<1>4. CASE Life!InitFail
  BY <1>4, LoadSame DEF Life!InitFail, Life!Exit
<1>5. CASE Life!Notify \/ Life!WaitForSignal
  BY <1>5, LoadSame DEF Life!Notify, Life!WaitForSignal
<1>6. CASE Life!Serve
  BY <1>6, LoadSame DEF Life!Serve, Life!RunFails, Life!Exit
<1>7. CASE Life!ListenFail
  BY <1>7, LoadSame DEF Life!ListenFail, Life!RunFails, Life!Exit
<1>8. CASE Life!Signal
  BY <1>8, LoadSame DEF Life!Signal, Life!Exit
<1>9. CASE \E n \in Life!Closable : Life!CloseFunc(n)
  BY <1>9, LoadSame DEF Life!CloseFunc
<1>10. CASE Life!StopAccepting \/ Life!Drained \/ Life!Overdue
  BY <1>10, LoadSame DEF Life!StopAccepting, Life!Drained, Life!Overdue
<1>11. CASE Life!CloseAllReturns \/ Life!ShutdownReturns
  BY <1>11, LoadSame DEF Life!CloseAllReturns, Life!ShutdownReturns
<1>12. ASSUME NEW r \in Rpc,
              Life!RpcStart(r) \/ Life!RpcEnd(r) \/ Life!RpcPanics(r) \/ Life!RpcBreaks(r)
       PROVE  LoadInv'
  BY <1>12, LoadSame DEF Life!RpcStart, Life!RpcEnd, Life!RpcPanics, Life!RpcBreaks, Life!Exit
<1>13. CASE Life!ServeReturns \/ Life!CloseResources \/ Life!GatewayExit
  BY <1>13, LoadSame DEF Life!ServeReturns, Life!CloseResources, Life!GatewayExit, Life!Exit
<1>14. CASE Life!Ended \/ UNCHANGED Life!vars
  BY <1>14, LoadSame DEF Life!Ended, Life!vars
<1> QED
  BY <1>1, <1>2, <1>3, <1>4, <1>5, <1>6, <1>7, <1>8, <1>9, <1>10, <1>11, <1>12, <1>13, <1>14
     DEF Life!Next

(* A service that serves has been through all of its loaders: it lacks     *)
(* only what they let through, in whatever order signals, failures and     *)
(* requests come, and with any number of them.                             *)
THEOREM ServingIsChecked == Life!Spec => []StartedIsChecked
<1>1. LoadInv => StartedIsChecked
  BY DEF LoadInv, StartedIsChecked
<1> QED
  BY <1>1, LoadInit, LoadNext, PTL DEF Life!Spec

(* Requests run only while the process serves, or in a gateway whose       *)
(* shutdown has run out of time; so a server that has stopped in time has  *)
(* none, and the gateway closes its clients only then.                     *)
RequestInv ==
  /\ life \in {"load", "init", "serving", "leaving", "exited"}
  /\ requests \in [Rpc -> {"idle", "running", "broken", "cut"}]
  /\ life \in {"load", "init"} => \A r \in Rpc : requests[r] = "idle"
  /\ how = "killed" => life = "exited"
  /\ life = "exited" => Life!Running = {}
  /\ svc = "gateway" /\ life \in {"load", "init", "serving"} => closing = {} /\ closed = {}
  /\ server = "stopped" \/ life = "leaving" => Life!Running = {} \/ deadline = "passed"
  /\ life # "exited" => \A r \in Rpc : requests[r] = "cut" => deadline = "passed"
  /\ RequestsFinish

LEMMA RequestInit == Life!Init => RequestInv
  BY DEF Life!Init, RequestInv, Life!Running, RequestsFinish

(* Steps that leave the requests and the fate of the process alone. *)
LEMMA RequestSame ==
  ASSUME RequestInv, UNCHANGED <<requests, how, svc>>,
         UNCHANGED deadline \/ deadline' = "passed", disabled \subseteq disabled',
         UNCHANGED life \/ (life = "load" /\ life' = "init") \/ (life = "init" /\ life' = "serving"),
         svc = "gateway" /\ life # "leaving" /\ life # "exited" => UNCHANGED <<closing, closed>>,
         server' # "stopped" \/ UNCHANGED server \/ Life!Running = {} \/ deadline' = "passed"
  PROVE  RequestInv'
  BY DEF RequestInv, Life!Running, RequestsFinish

(* The process ends by itself: no request runs, or there is a reason. *)
LEMMA RequestExit ==
  ASSUME RequestInv, NEW why, Life!Exit(why), life # "exited", UNCHANGED <<svc, deadline, disabled>>,
         Life!Running = {} \/ deadline = "passed" \/ why = "killed" \/ "limiter" \in disabled
  PROVE  RequestInv'
  BY DEF RequestInv, Life!Exit, Life!Running, RequestsFinish

LEMMA RequestNext == RequestInv /\ [Life!Next]_Life!vars => RequestInv'
<1> SUFFICES ASSUME RequestInv, [Life!Next]_Life!vars PROVE RequestInv'
  OBVIOUS
<1> USE DEF Life!config, Life!closer
<1>0. life \in {"load", "init"} => Life!Running = {}
  BY DEF RequestInv, Life!Running
<1>1. CASE Life!LoadStep
  <2>1. disabled' = disabled \/ (life' = "init" /\ life = "load")
    BY <1>1 DEF Life!LoadStep
  <2>2. UNCHANGED <<requests, how, svc, deadline, closing, closed, server>>
    BY <1>1 DEF Life!LoadStep
  <2>3. life = "load" /\ life' \in {"load", "init"}
    BY <1>1 DEF Life!LoadStep
  <2> QED
    BY <2>1, <2>2, <2>3 DEF RequestInv, Life!Running, RequestsFinish
<1>2. CASE Life!LoadFail
  BY <1>0, <1>2, RequestExit DEF Life!LoadFail
<1>3. CASE Life!InitStep
  BY <1>3, RequestSame DEF Life!InitStep
<1>4. CASE Life!InitFail
  <2>1. CASE svc = "gateway" /\ funcs # {}
    BY <1>0, <1>4, <2>1 DEF Life!InitFail, RequestInv, Life!Running, RequestsFinish
  <2>2. CASE ~(svc = "gateway" /\ funcs # {})
    BY <1>0, <1>4, <2>2, RequestExit DEF Life!InitFail
  <2> QED
    BY <2>1, <2>2
<1>5. CASE Life!Notify \/ Life!WaitForSignal
  BY <1>5, RequestSame DEF Life!Notify, Life!WaitForSignal
<1>6. CASE Life!Serve
  <2>1. CASE server = "stopped"
    BY <1>0, <1>6, <2>1, RequestExit DEF Life!Serve, Life!RunFails
  <2>2. CASE server # "stopped"
    BY <1>6, <2>2, RequestSame DEF Life!Serve
  <2> QED
    BY <2>1, <2>2
<1>7. CASE Life!ListenFail
  <2>1. CASE svc = "gateway"
    BY <1>0, <1>7, <2>1 DEF Life!ListenFail, RequestInv, Life!Running, RequestsFinish
  <2>2. CASE svc # "gateway"
    BY <1>0, <1>7, <2>2, RequestExit DEF Life!ListenFail, Life!RunFails
  <2> QED
    BY <2>1, <2>2
<1>8. CASE Life!Signal
  <2>1. CASE Life!Exit("killed")
    BY <1>8, <2>1, RequestExit DEF Life!Signal
  <2>2. CASE ~Life!Exit("killed")
    BY <1>8, <2>2, RequestSame DEF Life!Signal
  <2> QED
    BY <2>1, <2>2
<1>9. ASSUME NEW n \in Life!Closable, Life!CloseFunc(n) PROVE RequestInv'
  <2>1. svc = "gateway" /\ life # "leaving" /\ life # "exited" => closing = {}
    BY DEF RequestInv
  <2> QED
    BY <1>9, <2>1, RequestSame DEF Life!CloseFunc
<1>10. CASE Life!StopAccepting
  BY <1>10, RequestSame DEF Life!StopAccepting, RequestInv, Life!StopRequested
<1>11. CASE Life!Drained
  <2>1. svc = "gateway" /\ life # "leaving" /\ life # "exited" => closing = {}
    BY DEF RequestInv
  <2> QED
    BY <1>11, <2>1, RequestSame DEF Life!Drained
<1>12. CASE Life!Overdue
  <2>1. CASE svc = "gateway"
    <3>1. life # "leaving" /\ life # "exited" => closing = {}
      BY <2>1 DEF RequestInv
    <3> QED
      BY <1>12, <2>1, <3>1, RequestSame DEF Life!Overdue
  <2>2. CASE svc # "gateway"
    BY <1>12, <2>2 DEF Life!Overdue, RequestInv, Life!Running, RequestsFinish
  <2> QED
    BY <2>1, <2>2
<1>13. CASE Life!CloseAllReturns \/ Life!ShutdownReturns
  BY <1>13, RequestSame DEF Life!CloseAllReturns, Life!ShutdownReturns
<1>14. ASSUME NEW r \in Rpc, Life!RpcStart(r) PROVE RequestInv'
  BY <1>14 DEF Life!RpcStart, RequestInv, Life!Running, RequestsFinish
<1>15. ASSUME NEW r \in Rpc, Life!RpcEnd(r) PROVE RequestInv'
  BY <1>15 DEF Life!RpcEnd, RequestInv, Life!Running, RequestsFinish
<1>16. ASSUME NEW r \in Rpc, Life!RpcPanics(r) PROVE RequestInv'
  BY <1>16, RequestExit DEF Life!RpcPanics
<1>17. ASSUME NEW r \in Rpc, Life!RpcBreaks(r) PROVE RequestInv'
  BY <1>17 DEF Life!RpcBreaks, RequestInv, Life!Running, RequestsFinish
<1>18. CASE Life!ServeReturns
  BY <1>18, RequestExit DEF Life!ServeReturns, RequestInv
<1>19. CASE Life!CloseResources
  BY <1>19 DEF Life!CloseResources, RequestInv, Life!Running, RequestsFinish
<1>20. CASE Life!GatewayExit
  <2>1. Life!Running = {} \/ deadline = "passed"
    BY <1>20 DEF Life!GatewayExit, RequestInv
  <2> QED
    BY <1>20, <2>1, RequestExit DEF Life!GatewayExit
<1>21. CASE Life!Ended \/ UNCHANGED Life!vars
  BY <1>21, RequestSame DEF Life!Ended, Life!vars
<1> QED
  BY <1>1, <1>2, <1>3, <1>4, <1>5, <1>6, <1>7, <1>8, <1>9, <1>10, <1>11, <1>12, <1>13, <1>14,
     <1>15, <1>16, <1>17, <1>18, <1>19, <1>20, <1>21 DEF Life!Next

(* A request that a service accepted is not cut off by a process that ends *)
(* by itself before the deadline of its shutdown, and the gateway does not *)
(* take its clients away from a request, wherever the signals come.        *)
THEOREM AcceptedRequestsFinish == Life!Spec => []RequestsFinish
<1>1. RequestInv => RequestsFinish
  BY DEF RequestInv
<1> QED
  BY <1>1, RequestInit, RequestNext, PTL DEF Life!Spec
==============================================================================
