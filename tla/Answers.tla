------------------------------ MODULE Answers ------------------------------
(***************************************************************************)
(* The RPCs of the services as a client sees them: one request that is     *)
(* sent until an answer settles it, while attempts that were given up go   *)
(* on in the service.  What a handler checks, in which order it acts and   *)
(* fails, and which status an error becomes on its way out.                *)
(*                                                                         *)
(*   services/*/internal/handler, service, repository                      *)
(*   services/quota/src/transport, services/authz/entrypoints/server       *)
(*   shared/pkg/go-kit/middleware, sys                                     *)
(*                                                                         *)
(* The target of the request (a bucket, an object, a user, a blob, an      *)
(* upload, a subject, a tuple) is there or not, and made counts what the   *)
(* attempts added.  Other clients leave the target alone: what they may do *)
(* is in the modules of the components.  quota answers from its memory,    *)
(* which a task in the background writes to Redis.                         *)
(***************************************************************************)
EXTENDS Naturals

CONSTANT MaxTries  \* bound: attempts of the client

ASSUME TriesAssumption == MaxTries \in Nat \ {0}

Try == 1..MaxTries

-----------------------------------------------------------------------------
(* Errors and the statuses they become *)

(* The common errors of the services with the code they carry. *)
StorageErrors ==
  [ErrBlobNotFound |-> "NotFound", ErrUploadNotFound |-> "NotFound",
   ErrInvalidBlobSize |-> "InvalidArgument", ErrInvalidParts |-> "InvalidArgument",
   ErrInvalidPartNumber |-> "InvalidArgument", ErrChecksumMismatch |-> "InvalidArgument",
   ErrDiskFull |-> "ResourceExhausted"]

MetadataErrors ==
  [ErrBucketNotFound |-> "NotFound", ErrObjectNotFound |-> "NotFound",
   ErrBucketAlreadyExists |-> "AlreadyExists", ErrBucketNotEmpty |-> "FailedPrecondition",
   ErrInternal |-> "Internal"]

UsersErrors == [ErrUserNotFound |-> "NotFound", ErrEmailAlreadyExists |-> "AlreadyExists"]

UsersValidation ==
  {"ErrInvalidInput", "ErrNameRequired", "ErrEmailRequired", "ErrPasswordRequired",
   "ErrInvalidEmailFormat", "ErrPasswordMismatch", "ErrPasswordTooShort"}

AuthErrors ==
  [ErrInvalidRefreshToken |-> "Unauthenticated", ErrInvalidEmailOrPassword |-> "Unauthenticated",
   ErrTooManyAttempts |-> "ResourceExhausted", ErrInvalidToken |-> "Unauthenticated",
   ErrNoHeader |-> "Unauthenticated"]

CommonErrors ==
  [err \in UNION {DOMAIN StorageErrors, DOMAIN MetadataErrors, DOMAIN UsersErrors, DOMAIN AuthErrors} |->
     CASE err \in DOMAIN StorageErrors  -> StorageErrors[err]
       [] err \in DOMAIN MetadataErrors -> MetadataErrors[err]
       [] err \in DOMAIN UsersErrors    -> UsersErrors[err]
       [] OTHER                         -> AuthErrors[err]]

(* The codes a handler gives itself, with status.Error. *)
StreamErrors == {"header expected", "chunk expected", "upload_id expected", "part_number expected"}

ToGRPCCode(code) ==
  [OK |-> "OK", Canceled |-> "CANCELLED", InvalidArgument |-> "INVALID_ARGUMENT",
   DeadlineExceeded |-> "DEADLINE_EXCEEDED", NotFound |-> "NOT_FOUND",
   AlreadyExists |-> "ALREADY_EXISTS", ResourceExhausted |-> "RESOURCE_EXHAUSTED",
   FailedPrecondition |-> "FAILED_PRECONDITION", Internal |-> "INTERNAL",
   Unauthenticated |-> "UNAUTHENTICATED", Unknown |-> "UNKNOWN"][code]

(* What sets a validation error apart: every other message of a check. *)
ValidationErrors ==
  UsersValidation \cup {"bucket name is required", "owner_id is required", "bucket_name is required",
                        "key is required", "blob_id is required", "empty credentials"}

(* Mutant of HandleError: an error nobody classified says that nothing was *)
(* found.                                                                  *)
HandleErrorHidesRaw(err) ==
  CASE err \in DOMAIN CommonErrors -> ToGRPCCode(CommonErrors[err])
    [] err \in ValidationErrors    -> "INVALID_ARGUMENT"
    [] err \in StreamErrors        -> "INVALID_ARGUMENT"
    [] err = "unexpected EOF"      -> "INVALID_ARGUMENT"
    [] err = "deadline exceeded"   -> "DEADLINE_EXCEEDED"
    [] err = "canceled"            -> "CANCELLED"
    [] OTHER                       -> "NOT_FOUND"

HandleError(err) ==
  CASE err \in DOMAIN CommonErrors -> ToGRPCCode(CommonErrors[err])
    [] err \in ValidationErrors    -> "INVALID_ARGUMENT"
    [] err \in StreamErrors        -> "INVALID_ARGUMENT"
    [] err = "unexpected EOF"      -> "INVALID_ARGUMENT"
    [] err = "deadline exceeded"   -> "DEADLINE_EXCEEDED"
    [] err = "canceled"            -> "CANCELLED"
    [] OTHER                       -> "INTERNAL"

(* QuotaError to Status; DENIED is an answer with allowed = false. *)
QuotaStatus(err) ==
  CASE err = "subject_id is required" -> "INVALID_ARGUMENT"
    [] err = "no quota set"           -> "NOT_FOUND"
    [] err = "denied"                 -> "DENIED"
    [] OTHER                          -> "INTERNAL"

(* context.abort, and what grpc makes of an exception. *)
AuthzStatus(err) ==
  IF err \in {"action is required", "relation is required", "level is required"}
    THEN "INVALID_ARGUMENT" ELSE "UNKNOWN"

-----------------------------------------------------------------------------
(* The RPCs.  limited: behind the rate limiter, as the unary RPCs of the   *)
(* Go services are; args: what a check of the request finds; ids: has an   *)
(* identifier that only PostgreSQL refuses when it is no UUID; missing and *)
(* present: the answer when the target is not there, or is; refuses: other *)
(* reasons not to do it; effect: what it does; after: what can go wrong    *)
(* once it is done; undone: the same, when the handler takes it back; late: *)
(* a flaw that is found then; total: failures are an answer, not an error. *)

Plain == [svc |-> "metadata", limited |-> TRUE, args |-> {}, ids |-> FALSE, missing |-> "none",
          present |-> "none", refuses |-> {}, effect |-> "read", after |-> {}, undone |-> {},
          late |-> "none", event |-> FALSE, total |-> FALSE]

(* The connection is lost, or PG_TIMEOUT passes, after the commit. *)
CommitLost == {"raw", "deadline exceeded"}

(* storage *)

RecvFirstMessage == {"unexpected EOF"}
ReadStoreObjectStream == RecvFirstMessage \cup {"header expected", "chunk expected"}
ReadUploadPartStream ==
  RecvFirstMessage \cup
    {"header expected", "upload_id expected", "part_number expected", "chunk expected"}
EnsureDirReady == {"ErrDiskFull"}
ValidateCompletedParts == {"ErrInvalidParts", "ErrInvalidPartNumber", "ErrChecksumMismatch"}

StoreObject ==
  [Plain EXCEPT !.svc = "storage", !.limited = FALSE,
     !.args = ReadStoreObjectStream \cup {"ErrInvalidBlobSize"},
     !.refuses = EnsureDirReady, !.effect = "append", !.late = "ErrInvalidBlobSize"]
RetrieveObject ==
  [Plain EXCEPT !.svc = "storage", !.limited = FALSE, !.missing = "ErrBlobNotFound"]
DeleteObject ==
  [Plain EXCEPT !.svc = "storage", !.effect = "delete", !.after = {"raw"}]
InitiateMultipartUpload ==
  [Plain EXCEPT !.svc = "storage", !.args = {"ErrInvalidParts"}, !.refuses = EnsureDirReady,
     !.effect = "append"]
UploadPart ==
  [Plain EXCEPT !.svc = "storage", !.limited = FALSE,
     !.args = ReadUploadPartStream \cup {"ErrInvalidPartNumber"},
     !.missing = "ErrUploadNotFound", !.refuses = EnsureDirReady, !.effect = "put"]
(* A Complete that finds the marker of another one is not told apart from  *)
(* one that assembles the blob again; the marker is part of the effect.    *)
WriteCompletedMultipartMeta == {"raw"} \cup EnsureDirReady
CompleteMultipartUpload ==
  [Plain EXCEPT !.svc = "storage", !.args = ValidateCompletedParts, !.missing = "ErrUploadNotFound",
     !.refuses = {"ErrInvalidParts", "ErrChecksumMismatch", "ErrUploadNotFound"} \cup EnsureDirReady,
     !.effect = "put", !.undone = WriteCompletedMultipartMeta]
AbortMultipartUpload ==
  [Plain EXCEPT !.svc = "storage", !.effect = "delete", !.after = {"raw"}]
StorageHealthCheck == [Plain EXCEPT !.svc = "storage", !.total = TRUE]

(* metadata *)

CreateBucketArgs == {"bucket name is required", "owner_id is required"}
CreateObjectVersionArgs == {"bucket_name is required", "key is required", "blob_id is required"}

CreateBucket ==
  [Plain EXCEPT !.args = CreateBucketArgs, !.ids = TRUE, !.present = "ErrBucketAlreadyExists",
     !.effect = "create", !.after = CommitLost]
DeleteBucket ==
  [Plain EXCEPT !.missing = "ErrBucketNotFound", !.refuses = {"ErrBucketNotEmpty"},
     !.effect = "delete", !.after = CommitLost, !.event = TRUE]
GetBucket   == [Plain EXCEPT !.missing = "ErrBucketNotFound"]
HeadBucket  == Plain
ListBuckets == [Plain EXCEPT !.ids = TRUE]
CreateObjectVersion ==
  [Plain EXCEPT !.args = CreateObjectVersionArgs, !.ids = TRUE, !.refuses = {"ErrBucketNotFound"},
     !.effect = "append", !.after = CommitLost]
GetObjectMeta == [Plain EXCEPT !.ids = TRUE, !.missing = "ErrObjectNotFound"]
DeleteObjectMeta ==
  [Plain EXCEPT !.missing = "ErrObjectNotFound", !.effect = "delete", !.after = CommitLost,
     !.event = TRUE]
ListObjects == Plain
MetadataHealthCheck == [Plain EXCEPT !.total = TRUE]

(* users *)

UserInfoArgs == {"ErrNameRequired", "ErrEmailRequired", "ErrInvalidEmailFormat"}
ValidatePassword == {"ErrPasswordRequired", "ErrPasswordTooShort", "ErrPasswordMismatch"}

Create ==
  [Plain EXCEPT !.svc = "users", !.args = UserInfoArgs \cup ValidatePassword,
     !.present = "ErrEmailAlreadyExists", !.effect = "create", !.after = CommitLost]
Get == [Plain EXCEPT !.svc = "users", !.ids = TRUE, !.missing = "ErrUserNotFound"]
UpdateArgs == UserInfoArgs \cup {"ErrInvalidInput"}
Update ==
  [Plain EXCEPT !.svc = "users", !.args = UpdateArgs, !.ids = TRUE,
     !.missing = "ErrUserNotFound", !.refuses = {"ErrEmailAlreadyExists"}, !.effect = "put",
     !.after = CommitLost]
UpdatePassword ==
  [Plain EXCEPT !.svc = "users", !.args = ValidatePassword, !.ids = TRUE,
     !.missing = "ErrUserNotFound", !.effect = "append", !.after = CommitLost]
Delete ==
  [Plain EXCEPT !.svc = "users", !.ids = TRUE, !.missing = "ErrUserNotFound", !.effect = "delete",
     !.after = CommitLost]
ValidateCredentials == [Plain EXCEPT !.svc = "users", !.total = TRUE]

(* auth.  The counter of attempts is in Accounts. *)

Login ==
  [Plain EXCEPT !.svc = "auth", !.args = {"empty credentials"}, !.missing = "ErrInvalidEmailOrPassword",
     !.refuses = {"ErrTooManyAttempts"}]
GetAccessToken  == [Plain EXCEPT !.svc = "auth", !.args = {"ErrInvalidRefreshToken"}]
GetRefreshToken == [Plain EXCEPT !.svc = "auth", !.args = {"ErrInvalidRefreshToken"}]
ValidateToken   == [Plain EXCEPT !.svc = "auth", !.args = {"ErrNoHeader", "ErrInvalidToken"}]

(* quota *)

CheckQuota  ==
  [Plain EXCEPT !.svc = "quota", !.limited = FALSE, !.args = {"subject_id is required"},
     !.refuses = {"denied"}, !.effect = "append"]
UpdateUsage ==
  [Plain EXCEPT !.svc = "quota", !.limited = FALSE, !.args = {"subject_id is required"},
     !.effect = "append"]
GetUsage    == [Plain EXCEPT !.svc = "quota", !.limited = FALSE]
SetQuota    ==
  [Plain EXCEPT !.svc = "quota", !.limited = FALSE, !.args = {"subject_id is required"}, !.effect = "put",
     !.after = {"raw"}]
GetQuota    == [Plain EXCEPT !.svc = "quota", !.limited = FALSE, !.missing = "no quota set"]
DeleteSubject ==
  [Plain EXCEPT !.svc = "quota", !.limited = FALSE, !.args = {"subject_id is required"},
     !.effect = "delete", !.after = {"raw"}]
QuotaHealthCheck == [Plain EXCEPT !.svc = "quota", !.limited = FALSE, !.total = TRUE]

(* authz *)

Check == [Plain EXCEPT !.svc = "authz", !.limited = FALSE, !.args = {"action is required"}]
WriteTuple ==
  [Plain EXCEPT !.svc = "authz", !.limited = FALSE, !.args = {"relation is required", "level is required"},
     !.effect = "put", !.after = {"raw"}]
DeleteTuple ==
  [Plain EXCEPT !.svc = "authz", !.limited = FALSE, !.args = {"relation is required"},
     !.effect = "delete", !.after = {"raw"}]
Read == [Plain EXCEPT !.svc = "authz", !.limited = FALSE]
AuthzHealthCheck == [Plain EXCEPT !.svc = "authz", !.limited = FALSE, !.total = TRUE]

Rpcs ==
  [StoreObject |-> StoreObject, RetrieveObject |-> RetrieveObject, DeleteObject |-> DeleteObject,
   InitiateMultipartUpload |-> InitiateMultipartUpload, UploadPart |-> UploadPart,
   CompleteMultipartUpload |-> CompleteMultipartUpload, AbortMultipartUpload |-> AbortMultipartUpload,
   StorageHealthCheck |-> StorageHealthCheck,
   CreateBucket |-> CreateBucket, DeleteBucket |-> DeleteBucket, GetBucket |-> GetBucket,
   HeadBucket |-> HeadBucket, ListBuckets |-> ListBuckets, CreateObjectVersion |-> CreateObjectVersion,
   GetObjectMeta |-> GetObjectMeta, DeleteObjectMeta |-> DeleteObjectMeta, ListObjects |-> ListObjects,
   MetadataHealthCheck |-> MetadataHealthCheck,
   Create |-> Create, Get |-> Get, Update |-> Update, UpdatePassword |-> UpdatePassword,
   Delete |-> Delete, ValidateCredentials |-> ValidateCredentials,
   Login |-> Login, GetAccessToken |-> GetAccessToken, GetRefreshToken |-> GetRefreshToken,
   ValidateToken |-> ValidateToken,
   CheckQuota |-> CheckQuota, UpdateUsage |-> UpdateUsage, GetUsage |-> GetUsage, SetQuota |-> SetQuota,
   GetQuota |-> GetQuota, DeleteSubject |-> DeleteSubject, QuotaHealthCheck |-> QuotaHealthCheck,
   Check |-> Check, WriteTuple |-> WriteTuple, DeleteTuple |-> DeleteTuple, Read |-> Read,
   AuthzHealthCheck |-> AuthzHealthCheck]

Flaws(op) == op.args \cup (IF op.ids THEN {"malformed id"} ELSE {})
                     \cup (IF op.late # "none" THEN {"late"} ELSE {}) \cup {"none"}

-----------------------------------------------------------------------------
VARIABLES
  rpc,   \* the RPC
  flaw,  \* what is wrong with the request
  live,  \* the target as requests find it
  kept,  \* the target as a restart finds it
  snap,  \* what the flush of quota has read and not written yet, if anything
  back,  \* history: a flush wrote a deleted subject back, and it was not deleted since
  att,   \* the attempts
  cur    \* the last attempt

flushed == <<snap, back>>
target == <<live, kept, flushed>>
vars == <<rpc, flaw, target, att, cur>>

op == Rpcs[rpc]

(* quota answers from memory; the others from what is stored. *)
InMemory == op.svc = "quota"

Status(err) ==
  CASE op.svc = "quota" -> QuotaStatus(err)
    [] op.svc = "authz" -> AuthzStatus(err)
    [] OTHER            -> HandleError(err)

Init ==
  /\ rpc \in DOMAIN Rpcs
  /\ flaw \in Flaws(op)
  /\ live \in [there : BOOLEAN, made : {0}] /\ kept = live
  /\ snap = {} /\ back = FALSE
  /\ att = [i \in Try |-> [stage |-> "idle", status |-> "none", applied |-> "no", sent |-> FALSE]]
  /\ cur = 0

(* The service has answered.  A client that gave up does not hear of it. *)
Answered(a, status) ==
  [a EXCEPT !.stage = "over", !.status = IF @ = "none" THEN status ELSE @]

Answer(i, status) == att' = [att EXCEPT ![i] = Answered(@, status)]

(* Statuses after which a client knows no more than before. *)
Unsettled == {"INTERNAL", "UNKNOWN", "UNAVAILABLE", "DEADLINE_EXCEEDED", "CANCELLED", "RESOURCE_EXHAUSTED"}

(* The first attempt, and another one when the last settled nothing. *)
Call ==
  /\ cur < MaxTries /\ (cur > 0 => att[cur].status \in Unsettled)
  /\ cur' = cur + 1
  /\ att' = [att EXCEPT ![cur'].stage = "arrived"]
  /\ UNCHANGED <<rpc, flaw, target>>

(* The client waits no longer; the attempt goes on. *)
GiveUp(i) ==
  /\ att[i].stage \notin {"idle", "over"} /\ att[i].status = "none"
  /\ att' = [att EXCEPT ![i].status = "DEADLINE_EXCEEDED"]
  /\ UNCHANGED <<rpc, flaw, target, cur>>

Limit(i) ==
  /\ att[i].stage = "arrived" /\ op.limited
  /\ Answer(i, "RESOURCE_EXHAUSTED")
  /\ UNCHANGED <<rpc, flaw, target, cur>>

Validate(i) ==
  /\ att[i].stage = "arrived"
  /\ IF flaw \in op.args THEN Answer(i, Status(flaw))
     ELSE att' = [att EXCEPT ![i].stage = "store"]
  /\ UNCHANGED <<rpc, flaw, target, cur>>

(* The store refuses. *)
Refusals ==
  (op.refuses \cup {IF live.there THEN op.present ELSE op.missing}) \ {"none"}

Refuse(i) ==
  /\ att[i].stage = "store" /\ flaw # "malformed id"
  /\ \E err \in Refusals : Answer(i, Status(err))
  /\ UNCHANGED <<rpc, flaw, target, cur>>

(* The store, or the service behind it, fails before anything is done.     *)
StoreFail(i) ==
  /\ att[i].stage = "store"
  /\ \E err \in {"raw", "deadline exceeded", "canceled"} :
       /\ err = "canceled" => att[i].status # "none"
       /\ Answer(i, IF op.total THEN "OK" ELSE Status(err))
  /\ UNCHANGED <<rpc, flaw, target, cur>>

(* It is done, in one transaction, one rename or one write to the cache. *)
Applied(t) ==
  CASE op.effect = "create" -> [t EXCEPT !.there = TRUE]
    [] op.effect = "delete" -> [t EXCEPT !.there = FALSE]
    [] op.effect = "read"   -> t
    [] OTHER                -> [t EXCEPT !.made = @ + 1]

Apply(i) ==
  /\ att[i].stage = "store" /\ flaw # "malformed id"
  /\ IF live.there THEN op.present = "none" ELSE op.missing = "none"
  /\ live' = Applied(live)
  /\ kept' = IF InMemory THEN kept ELSE live'
  /\ att' = [att EXCEPT ![i].stage = "applied",
                        ![i].applied = IF live' # live THEN "yes" ELSE @]
  /\ UNCHANGED <<rpc, flaw, flushed, cur>>

(* The handler fails after that.  quota may have stored it or not. *)
AfterFail(i) ==
  /\ att[i].stage = "applied" /\ flaw # "late"
  /\ \E err \in op.after : Answer(i, Status(err))
  /\ kept' \in {kept, live}
  /\ UNCHANGED <<rpc, flaw, live, flushed, cur>>

(* The marker of a completed upload cannot be written: the blob is deleted *)
(* again, there is one for all attempts.  Those that were carried out      *)
(* before have lost it.                                                    *)
TakeBack(i) ==
  /\ att[i].stage = "applied" /\ flaw # "late"
  /\ \E err \in op.undone :
       att' = [j \in Try |->
                 IF j = i THEN [Answered(att[i], Status(err)) EXCEPT !.applied = "no"]
                 ELSE IF att[j].applied = "yes" THEN [att[j] EXCEPT !.applied = "lost"] ELSE att[j]]
  /\ live' = [live EXCEPT !.made = 0] /\ kept' = live'
  /\ UNCHANGED <<rpc, flaw, flushed, cur>>

(* ... or cannot be: the error is the same. *)
TakeBackFail(i) ==
  /\ att[i].stage = "applied" /\ flaw # "late"
  /\ \E err \in op.undone :
       att' = [att EXCEPT ![i] = [Answered(@, Status(err)) EXCEPT !.applied = "left"]]
  /\ UNCHANGED <<rpc, flaw, target, cur>>

(* The event of a deletion, before it is answered. *)
Send(i) ==
  /\ att[i].stage = "applied" /\ op.event /\ ~att[i].sent
  /\ att' = [att EXCEPT ![i].sent = TRUE]
  /\ UNCHANGED <<rpc, flaw, target, cur>>

(* Mutant of SendFail: the error is logged and the call goes on. *)
SendFailLogged(i) ==
  /\ att[i].stage = "applied" /\ op.event /\ ~att[i].sent
  /\ Answer(i, "OK")
  /\ UNCHANGED <<rpc, flaw, target, cur>>

(* Kafka refuses it, or has it and the acknowledgement is lost. *)
SendFail(i) ==
  /\ att[i].stage = "applied" /\ op.event /\ ~att[i].sent
  /\ \E got \in BOOLEAN :
       att' = [att EXCEPT ![i] = [Answered(@, Status("ErrInternal")) EXCEPT !.sent = got]]
  /\ UNCHANGED <<rpc, flaw, target, cur>>

(* SetQuota and DeleteSubject are in Redis when they are answered. *)
Finish(i) ==
  /\ att[i].stage = "applied" /\ flaw # "late" /\ (op.event => att[i].sent)
  /\ Answer(i, "OK")
  /\ kept' = IF op.effect \in {"put", "delete"} THEN live ELSE kept
  /\ back' = (back /\ op.effect # "delete")
  /\ UNCHANGED <<rpc, flaw, live, snap, cur>>

(* The usage is stored in the background: what is marked is read in one    *)
(* step and written in another.  Others may have marked a subject that is  *)
(* there; a deleted one has no mark.                                       *)
Collect ==
  /\ InMemory /\ snap = {}
  /\ \/ op.effect = "append" /\ kept # live
     \/ op.effect = "delete" /\ live.there
  /\ snap' = {live}
  /\ UNCHANGED <<rpc, flaw, live, kept, back, att, cur>>

(* The subject may have been deleted meanwhile. *)
WriteUsage ==
  \E t \in snap :
    /\ kept' = t /\ snap' = {}
    /\ back' = (back \/ (op.effect = "delete" /\ ~live.there))
    /\ UNCHANGED <<rpc, flaw, live, att, cur>>

(* The marks are set again. *)
WriteFail ==
  /\ snap # {} /\ snap' = {}
  /\ UNCHANGED <<rpc, flaw, live, kept, back, att, cur>>

Flush == Collect \/ WriteUsage \/ WriteFail

(* Mutant of Undo: the blob stays. *)
UndoSkipped(i) ==
  /\ att[i].stage = "applied" /\ flaw = "late"
  /\ Answer(i, Status(op.late))
  /\ UNCHANGED <<rpc, flaw, target, cur>>

(* The size is not the announced one: the blob is deleted again. *)
Undo(i) ==
  /\ att[i].stage = "applied" /\ flaw = "late"
  /\ live' = [live EXCEPT !.made = @ - 1] /\ kept' = live'
  /\ att' = [att EXCEPT ![i] = [Answered(@, Status(op.late)) EXCEPT !.applied = "no"]]
  /\ UNCHANGED <<rpc, flaw, flushed, cur>>

(* ... or cannot be: the error is logged, the answer is the same. *)
UndoFail(i) ==
  /\ att[i].stage = "applied" /\ flaw = "late"
  /\ att' = [att EXCEPT ![i] = [Answered(@, Status(op.late)) EXCEPT !.applied = "left"]]
  /\ UNCHANGED <<rpc, flaw, target, cur>>

(* The process ends and is started again. *)
Running == {i \in Try : att[i].stage \notin {"idle", "over"}}

Crash ==
  /\ Running # {}
  /\ att' = [i \in Try |-> IF i \in Running THEN Answered(att[i], "UNAVAILABLE") ELSE att[i]]
  /\ live' = kept /\ snap' = {}
  /\ UNCHANGED <<rpc, flaw, kept, back, cur>>

(* Nothing is left to do. *)
Done ==
  /\ Running = {} /\ cur > 0 /\ (cur = MaxTries \/ att[cur].status \notin Unsettled)
  /\ UNCHANGED vars

Next ==
  \/ Call \/ Flush \/ Crash \/ Done
  \/ \E i \in Try :
       \/ GiveUp(i) \/ Limit(i) \/ Validate(i) \/ Refuse(i) \/ StoreFail(i) \/ Apply(i)
       \/ AfterFail(i) \/ TakeBack(i) \/ TakeBackFail(i) \/ Send(i) \/ SendFail(i)
       \/ Finish(i) \/ Undo(i) \/ UndoFail(i)

Spec == Init /\ [][Next]_vars

-----------------------------------------------------------------------------
(* Properties *)

(* Statuses that say the request was not carried out. *)
Definite == {"INVALID_ARGUMENT", "NOT_FOUND", "ALREADY_EXISTS", "FAILED_PRECONDITION",
             "RESOURCE_EXHAUSTED", "UNAUTHENTICATED", "DENIED"}

(* An answer is true of the attempt it answers: OK is given only to a      *)
(* request without a flaw that was carried out (or had nothing left to     *)
(* delete), and an error that says why it was not carried out is given     *)
(* only when nothing of it remains, unless removing it failed as well:     *)
(* also when the disk is full after the blob was published.                *)
AnswerIsTrue ==
  \A i \in Try :
    /\ att[i].status = "OK" /\ op.effect # "read" =>
         /\ flaw = "none"
         /\ op.effect # "delete" => att[i].applied \in {"yes", "lost"}
    /\ att[i].status \in Definite => att[i].applied \in {"no", "left"}

(* A client that repeats a request until it is settled has what it asked   *)
(* for, whatever earlier attempts did or still do and whether or not the   *)
(* service was restarted: OK and ALREADY_EXISTS of a creation, OK and      *)
(* NOT_FOUND of a deletion, OK of an assignment.  There are two exceptions *)
(* and no others.  A Complete that was given up may still fail to write    *)
(* its marker and delete the blob behind the attempt that was answered OK  *)
(* (multipart.go:204-210).  And a flush of quota that has read the usage   *)
(* of a subject may write it after DeleteSubject's DEL, so that a restart  *)
(* brings the subject back.                                                *)
RetryConverges ==
  cur > 0 =>
    /\ op.effect = "create" /\ att[cur].status \in {"OK", "ALREADY_EXISTS"} => live.there
    /\ op.effect = "delete" /\ att[cur].status \in {"OK", "NOT_FOUND"} => ~live.there \/ back
    /\ op.effect = "put" /\ att[cur].status = "OK" => live.made > 0 \/ att[cur].applied = "lost"

(* A bucket or an object that is deleted without its event, so that nobody *)
(* collects its data, leaves a trace: the attempt that deleted it was not  *)
(* answered with OK.  A retry of it is answered NOT_FOUND and sends none.  *)
EventLossIsReported ==
  (op.event /\ Running = {} /\ \A i \in Try : ~att[i].sent) =>
    \A i \in Try : att[i].applied = "yes" =>
      att[i].status \in {"INTERNAL", "UNAVAILABLE", "DEADLINE_EXCEEDED"}
=============================================================================
