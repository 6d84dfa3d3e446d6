# A verification of opens3-rebac

OpenS3-ReBAC is an S3-compatible object store made of small services.  This
directory holds TLA+ models of the parts that carry its state, the TLC
configurations that check them on small instances, and TLAPS proofs of the
safety properties for instances of every size.

## 1. Inventory

| Part | State | Operations | What is hard |
|---|---|---|---|
| **gateway** (Go, `services/gateway`) | none | `PUT` and `GET /objects/{bucket}/{key}` | one HTTP request is a sequence of calls to storage and metadata, any of which may fail, time out or finish late; bodies are streams that can break |
| **storage** (Go, `services/storage`) | files: blobs, multipart sessions, completion markers | StoreObject, RetrieveObject, DeleteObject, Initiate/UploadPart/Complete/Abort multipart | no locks: goroutines share a file system; crashes between file operations; lost answers |
| **metadata** (Go, `services/metadata`) | PostgreSQL: buckets, objects, versions; Kafka events | CreateBucket, DeleteBucket, CreateObjectVersion, DeleteObjectMeta, GetObjectMeta, lists | READ COMMITTED transactions that interleave, row locks, cascades, commit and event are not atomic |
| **quota** (Rust, `services/quota`) | three concurrent maps in memory, hashes in Redis | CheckQuota (check and reserve), UpdateUsage, SetQuota, GetQuota, DeleteSubject, periodic flush, load at start | atomic only per map entry; flush against updates; failed flushes; restart |
| **auth** (Go, `services/auth`) | Redis: a counter of failed logins per email; tokens are held by clients only | Login, GetAccessToken, GetRefreshToken, ValidateToken | counter read, incremented and given its expiry in separate commands, any of which may fail |
| **users** (Go, `services/users`) | PostgreSQL: users, log of password changes | Create, Get, Update, UpdatePassword, Delete, ValidateCredentials | the one transaction of two statements, against deletions and other changes |
| **authz** (Python, `services/authz`) | Neo4j tuples, Redis decisions, Kafka events; a second process consumes them | Check, WriteTuple, DeleteTuple, Read, invalidation | a decision computed before a change and cached after its invalidation; hints that do not match; lost events |
| **service processes** (`*/app`, `*/config`, `shared/pkg/*/closer`) | registered shutdown functions, the server, signals | load configuration, start, serve, drain, close | signals at any moment, functions that hang, values nobody checks |
| **transport** (`*/handler`, `*/transport`, `go-kit/middleware`, `go-kit/sys`) | – | validation, errors to statuses, the rate limiter | what a client that repeats a request makes of the answers |
| **telemetry** (`go-kit`, `py_kit`, `rust-kit`, `gateway/observability`) | spans, counters, log lines | interceptors of servers and clients | ends of streams noticed twice or never, callers that leave |

Two of the services meet in the gateway.  A PUT asks metadata for the bucket, streams
the body into a new blob in storage, and registers the blob as a version in metadata; a
GET asks metadata for the current version and streams its blob.  The gateway is a first
slice: it does not call quota, auth or authz yet, and it has no deletion and no
multipart uploads, which clients of the services' own APIs use.  DeleteObjectMeta and
DeleteBucket publish events that tell consumers which blobs may be collected; the
repository has no such consumer.  A Login in auth asks users for the credentials.  The
server of authz and its cache invalidator meet in Kafka and Redis.  Everything else is
shared state within one part: the files of an upload, the rows of a bucket, the maps of
the quota service.

What makes each part correct:

* **storage** – a published blob is exactly what a client listed; what was
  reported stays; every crash point leaves something a retry can use, unless a client has
  replaced it.
* **metadata** – the history of a key is a gapless sequence; a registered version
  is visible; a deletion event never names a blob that can still be read;
  concurrent requests do not block each other for ever.
* **quota** – no interleaving exceeds a limit; reservations are neither lost nor
  counted twice; what is counted reaches Redis.
* **gateway** – a version in the catalogue always has its whole blob; an answer means
  what it says, whatever happens behind it later; every request is answered.
* **auth, users** – overlapping logins pass the throttle only by their own number, a
  lock ends, and no password changes without its log row.
* **authz** – the graph query decides as levels and memberships say, and a cached
  decision that contradicts it is known, of a named kind, and bounded by the TTL.
* **processes** – a service that serves has been checked, apart from a known list; what
  it accepted it finishes; a shutdown ends.
* **reads** – pages and byte ranges are exact while data change; admissions are bounded.
* **transport** – an answer is true, and a client that repeats itself gets where it wants, apart
  from two named races.
* **telemetry** – one request is one trace, and one more in quota; counters balance, spans end
  once.

## 2. Modules

| Module | Models |
|---|---|
| `MultipartUpload` | one multipart upload in the storage service |
| `MultipartUpload_proofs` | its theorems |
| `MCMultipartUpload` | its instances for TLC |
| `PublishedBlob` | what the storage service promises of the blob of an upload |
| `Catalog` | the metadata service on PostgreSQL, for one bucket name |
| `VersionLog` | what the metadata service promises: an abstract log per key |
| `Catalog_proofs` | theorems about `Catalog` |
| `MCCatalog` | its instances for TLC |
| `Quota` | the quota service and its Redis |
| `Quota_proofs` | theorems about `Quota` |
| `MCQuota` | its instances for TLC |
| `Gateway` | PUT and GET: the gateway, `StoreObject` and `RetrieveObject` of storage, over `VersionLog` |
| `Gateway_proofs` | its theorems |
| `MCGateway` | its instance for TLC |
| `Authz`, `Authz_proofs`, `MCAuthz` | the permission graph, the decision cache, tuple events and their consumer |
| `Accounts`, `Accounts_proofs`, `MCAccounts` | auth with its attempt counter and tokens, users with accounts and the password log |
| `Config` | every configuration loader, and what the values it lets through do later |
| `Process` | the state of a service process and what it owes to its clients |
| `Lifecycle`, `MCLifecycle` | one process of any of the seven services, over `Process` and `Config` |
| `Reads`, `Reads_proofs`, `MCReads` | ListObjects page by page, RetrieveObject by byte range, the token bucket |
| `Answers`, `MCAnswers` | the forty RPCs as a client sees them, and which error becomes which status |
| `Services_proofs` | theorems about `Answers` and `Lifecycle` |
| `Telemetry`, `MCTelemetry` | spans, counters and log lines of one request through its services |

The definitions whose names end in a deviation (`CompleteRenameUnmarked`,
`DropCountUnchecked`, ...) are *mutants*: forms of the definition after them with
a plausible mistake.  They are not part of any specification; `PROJECT.json`
names, for every property, the mutant that breaks it.

### MultipartUpload

A request (`Request`) is a goroutine; `pc` says which file operation comes next.
The state is what the upload has on disk: the session directory with its
manifest, part files and temporary files, the blob, and the completion marker.
A step is one file operation that another request can observe: `mkdir`, create,
write, rename, unlink.  So `os.WriteFile` is two steps (an empty manifest can be
seen), `writeAtomically` is two (temporary file, rename), and `os.RemoveAll` is one
per entry followed by the removal of the directory, which fails when an entry has
appeared.

`replaced` is a history variable: the contents that an UploadPart put another one in the
place of, while there was no marker and a published or assembled blob had been copied from
them (`InUse`).

| Code | Actions |
|---|---|
| `InitiateMultipartUpload`, `CreateMultipartSession` | `InitiateStart`, `InitiateMkdir`, `InitiateCreate`, `InitiateWrite`, `InitiateFail` |
| `UploadPart`, `StorePart`, `writeAtomically` | `UploadStart`, `UploadCheck`, `UploadTemp`, `UploadRename`, `UploadFail` |
| `CompleteMultipartUpload`, `AssembleParts` | `CompleteStart` ... `CompleteMarkFail`, then the removal of the session |
| `AbortMultipartUpload`, `CleanupMultipart` | `AbortStart`, `RemoveEntry`, `RemoveListed`, `RemoveDir`, `RemoveFail` |
| `DeleteObject`, `DeleteBlob` | `DeleteStart`, `DeleteBlobFile`, `DeleteMarker`, `DeleteFail` |
| death of the process | `Crash` |

The checks that several operations share are operators of their own:
`MultipartSessionExists`, `ReadMultipartSessionMeta`, `NoCompletedMeta`, `BlobExists`.

`PublishedBlob` is the promise to readers: they find nothing or a whole content that some
Complete asked for, it appears in one step, and while nobody has asked for a deletion and no
fault has cost the blob its marker it does not disappear once it was reported.
`ImplementsPublishedBlob` maps `asked` to the contents the accepted Completes stand for and
`intact` to `Undisturbed`; sessions, part files, markers and retries are what the promise
hides.

Content is abstract and MD5 is taken to be injective.  A part that is open while
it is replaced is read from its old inode, so copying a part is one step.  The
data that `file.Sync` puts on disk is taken to survive a crash of the process;
power failures, which the code does not guard directories against, are not
modelled.

### Catalog and VersionLog

A request is a transaction; a step is one statement or the part of one that runs
without waiting for a row lock.  The tables hold committed rows only; what an
open transaction has written is in its local variables and appears with
`CreateCommit` or `DropCommit`.  What is assumed of PostgreSQL (external, modelled
from how the statements use it):

* READ COMMITTED: each statement sees what was committed when it began; after
  waiting for a row it goes on with the newest version of that row, while
  subselects keep the statement's snapshot.  This is why DELETE ... RETURNING
  (SELECT blob_id ...) can return no blob (`DeleteRow`).
* `ON CONFLICT DO UPDATE` waits for an uncommitted insert of the same key, updates
  the committed row, or inserts.  The row is locked until the end of the
  transaction.
* The foreign key of a new object takes KEY SHARE on the bucket row, which conflicts
  with DELETE; an update that leaves the foreign key unchanged takes none.
* `ON DELETE CASCADE` runs with a snapshot of its own.

`GetObjectMeta` for the current version is the operator `GetMeta`, used by
`AckedVisible`.  `VersionLog` has one history per key, appended to by a
registration and emptied by a deletion, while the bucket is open; the refinement
`ImplementsLog` maps the committed rows to it.

### Quota

A step is one operation on one DashMap (which holds the lock of the entry's
shard) or one Redis command.  `usage`, `limits`, `dirty` are the three maps.
CheckQuota takes the limit, then reserves, then marks, for the user and then for
the bucket; the flush task collects the marked keys, unmarks them one by one,
reads the entries, and writes them one by one.  A start takes what `LoadAllUsage` and
`LoadAllLimits` bring, which may leave out any entry.  CheckQuota and UpdateUsage contain
no await point, so only a crash can end them early.  `held` are the reservations
clients have been granted and may give back; this is the compensation the
service's README describes, and the only use of UpdateUsage that is modelled.
Amounts are positive and small: overflow of `i64` is not modelled; the theorem
`UsageIsBounded` says how far every number of the service stays from it.

### Gateway

This module composes three services.  An HTTP request (`Request`) has up to three
threads of control that go on without each other: the gateway's handler (`pc`), the
`StoreObject` call in storage (`up`), and the `CreateObjectVersion` call in metadata
(`reg`).  When the handler gives up, on a deadline, a broken body or a client that left,
the others may still finish.  The metadata service is the instance `Meta` of `VersionLog`,
the promise that `Catalog` implements (`CatalogImplementsLog`): every action of `Gateway` that
touches `open` or `log` is one of `Meta` by definition.  `row` adds the size and the etag
that GET uses.

| Code | Actions |
|---|---|
| routes and methods that are no PUT or GET of an object | `ServeHTTP` |
| `PutObject`, `objectService.Put`, `HeadBucket` | `PutStart`, `PutHead`, `PutHeadFail` |
| `storage.client.Store` | `PutSend`, `PutBodyError`, `PutClose`, `PutStoreFail`, `PutRecv` |
| `CreateVersion` with `METADATA_RPC_TIMEOUT` | `PutRecv` (the call), `PutDone`, `PutTimeout` |
| `StoreObject` in storage | `StoreRecv`, `StoreStaged`, `StorePublish`, `StoreCheck`, `StoreFail` |
| metadata | `MetaCommit`, `MetaRefuse`, `CreateBucket`, `DeleteBucket`, `DeleteObjectMeta` |
| `GetObject`, `objectService.Get`, `storage.client.Retrieve` | `GetStart`, `GetMeta`, `GetOpen`, `GetFail` |
| `copyVerifiedObject`, `verifyStreamEnd` | `GetSend`, `GetEnd`, `GetBreak` |

A body is a sequence of pieces and its MD5 is the body itself.  HTTP answers are told
apart by what they promise: 200; the 400 of an unreadable body; 400 and 404, which refuse;
499 and 5xx, which leave the outcome open; and a GET response that is cut off.  Two branches
of the code cannot be reached through the gateway and are in the model all the same: the
size check of `StoreObject` never fails, because net/http delivers exactly `Content-Length`
bytes or an error, and a blob is never missing for a GET, which is a consequence of
`CatalogBacked`.  Blobs are not deleted: nothing in the repository calls `DeleteObject` for
a blob that a version names.

### Authz

A worker serves one Check after another, a writer one WriteTuple or DeleteTuple after
another, and the cache invalidator is a process of its own; each call of Neo4j, Redis or
Kafka is a step.  `Reaches` and `Decision` are the graph query: a chain of memberships
that ends in a sufficient level.  Redis counts down the time an entry has left.

| Code | Actions |
|---|---|
| `WriteTuple`, `DeleteTuple`, `_mutate_tuple` | `WriteTuple`, `DeleteTuple`, `SendTupleEvent`, `SendFail`, `WriterDone` |
| `Check` | `Check`, `CacheGet`, `GraphCheck`, `CacheSet`, `SendDecisionEvent`, `CheckFail`, `WorkerDone` |
| `invalidation_consumer` | `Poll`, `Scan`, `DeleteKeys`, `ConsumerFail`, `ConsumerRestart` |
| expiry in Redis | `Tick` |

A SCAN and the DELs after it are two steps, once per hint of the event.  `cause` is a history
variable: it records which of the cases below a cached decision belongs to.

### Accounts

Every Redis command of a Login and its call of users are steps; UpdatePassword is the
transaction of two statements, whose row lock other changes of the user wait for.  A
token is its claims; a signature cannot be forged, and the clock may pass its expiry at
any time.

| Code | Actions |
|---|---|
| `Login` | `LoginStart`, `GetLoginAttempts`, `ValidateCredentials`, `ValidateFail`, `IncrementLoginAttempts`, `Expire`, `ResetLoginAttempts`, `ResetFail`, `GenerateRefreshToken`, `LoginFail` |
| `GetAccessToken`, `GetRefreshToken` | the same names |
| users | `Create`, `Update`, `Delete`, `UpdatePassword`, `LogPassword`, `Commit`, `Rollback` |
| expiry in Redis, of a token | `Tick`, `TokenExpires` |

### Config and Lifecycle

`Config` has one predicate per loader of each service: which kinds of values (unset,
empty, junk, negative, zero, tiny, huge, good) it lets through.  A second group of
definitions says what such a value does later: `LimiterIsNil`, `NoAttemptAllowed`,
`WindowIsZero`, `CacheUnreachable`, `TokensExpired`, `AnyPort`, `BadChunk`,
`MetadataUnreachable`, `FlushPanics`.

`Lifecycle` is one process.  `svc` says which service; `Startup` is its list of steps, in
the order of its `initDeps`, with the shutdown functions they register.  The variables are
those of `Process`, with the safety properties, so that `Services_proofs` can state them of
the instance `Life` of `Lifecycle`.

| Code | Actions |
|---|---|
| `config.Load`, `initDeps` | `LoadStep`, `LoadFail`, `InitStep`, `InitFail` |
| `closer.Configure`, `handle_signals`, `wait_for_signal` | `Notify`, `WaitForSignal`, `Signal` |
| `Run`, `main` | `Serve`, `ListenFail`, `ServeReturns`, `CloseResources`, `GatewayExit` |
| `CloseAll`, `close_all`, `shutdown` | `CloseFunc`, `CloseAllReturns`, `ShutdownReturns` |
| GracefulStop, `stop(grace)`, `Shutdown` | `StopAccepting`, `Drained`, `Overdue` |
| requests | `RpcStart`, `RpcEnd`, `RpcPanics`, `RpcBreaks` |

### Reads

Keys are numbers and `Like` the keys that the LIKE pattern of a prefix matches (which, with
`_` or `%` in the prefix, is not the set of keys that begin with it).  A page is one
statement, whose ORDER BY is `InOrder`.  `NormalizeRange` and `RetrieveBlobRange` compute
with integers up to `MaxInt`, so that `offset + length` can pass it.  The limiter is a
bucket with a ticker; `recent` counts the admissions of the last period.

| Code | Actions |
|---|---|
| `ListObjects`, `List` | `ListStart`, `List`, `ListFail` |
| `RetrieveObject` | `RetrieveStart`, `SendChunk`, `RetrieveEnd` |
| the interceptor and `TokenBucketLimiter` | `Allow`, `Refuse`, `Tick` |
| other clients | `Change` |

### Answers

An RPC is a record: the flaws its handler refuses, the errors for a target that is
missing or present, its effect, what may fail after the effect, which of these failures
make the handler take the effect back, whether it sends an event.  `ToGRPCCode` and
`HandleError` turn errors into statuses; `QuotaStatus` and `AuthzStatus` are those of the
other two languages.  A client sends a request, may give up and send it again while the
first attempt goes on, and stops at an answer that settles it.

CompleteMultipartUpload takes the blob back when the marker cannot be written; an earlier
attempt whose blob that was is `lost`.  quota keeps its state in memory (`live`) and in Redis
(`kept`); the flush reads it in one step (`snap`) and writes it in another, and `back`
records that it wrote a subject after its deletion.

| Code | Actions |
|---|---|
| interceptors and handlers | `Limit`, `Validate`, `Refuse` |
| services and repositories | `Apply`, `StoreFail`, `AfterFail`, `TakeBack`, `TakeBackFail`, `Send`, `SendFail`, `Finish`, `Undo`, `UndoFail` |
| quota's flush, death of a service | `Collect`, `WriteUsage`, `WriteFail`, `Crash` |
| client | `Call`, `GiveUp`, `Done` |

### Telemetry

A request is a journey: the service that its caller reached, then the calls it makes.  A
hop goes through the interceptors of its service (`UnaryChain`, `StreamChain`, `HttpChain`,
`AuthzChain`, `QuotaChain`) and back.  A stream of the gateway's storage client has a
goroutine (`Watch`) that waits for the end of its context while `RecvMsg` and `SendMsg`
look for the end of the stream.  Exporters are on or off.

quota has no tracing interceptor.  Its handlers and layers are `#[instrument]`ed and the spans
are exported when OTLP is on and its filter lets the level info pass (`RustInitTracer`); they
begin a trace of their own, because nobody extracts what the caller sent.  The nested
spans of one request are one span here.  A `LOG_LEVEL` that is no level silences quota
altogether, where the other services fall back to info (`EnvFilter`, `ParseLevel`).

| Code | Actions |
|---|---|
| server interceptors of the kits | `RateLimiterInterceptor`, `MetricsInterceptor`, `StreamMetricsInterceptor`, `MetricsServerInterceptor`, `MetricsLayer`, `DropFuture`, `ErrorCodesInterceptor`, `UnaryServerInterceptor`, `TracingServerInterceptor`, `NewHTTPHandler` |
| client interceptors | `UnaryClientInterceptor`, `StreamClientInterceptor`, `RecvMsg`, `SendMsg`, `Finish`, `Watch` |
| handlers | `StartSpan`, `Serve`, `Conclude`, `NextCall`, `RecvFirst`, `StopEarly`, `Abort`, `StreamContextDone` |
| callers | `Request`, `Respond`, `CallerLeaves` |

## 3. Runs

| Run | Checks | Distinct states | Result |
|---|---|---|---|
| `MultipartRetry` | `AssemblyIntegrity`, `AckedSurvives`, `LateRetryServed`, `PublishedIsRecoverable`, `ImplementsPublishedBlob` | 2 406 798 | hold |
| `Catalog` | `VersionHistory`, `AckedVisible`, `EventsAreSafe`, `CountedIsSafe`, `NoWaitCycle`, `EveryRequestEnds`, `ImplementsLog` | 166 895 | hold |
| `CatalogBucketViolation` | `NonEmptyBucketKept` | – | violated |
| `QuotaUsage` | `Conservation` | 431 006 | hold |
| `QuotaAdmin` | `NoOvercommit`, `DivergenceIsTracked`, `EventuallyPersisted` | 197 131 | hold |
| `Gateway` | `CatalogBacked`, `RefusedIsNotRegistered`, `CompleteMeansVerified`, `ReadYourWrites`, `EveryRequestAnswered` | 192 914 | hold |
| `Authz` | `DecisionIsEntitlement`, `StaleIsExplained`, `StaleExpires` | 324 336 | hold |
| `Accounts` | `AttemptsBounded`, `CounterExpires`, `PasswordChangesLogged`, `LockoutEnds` | 114 862 | hold |
| `Lifecycle` | `StartedIsChecked`, `RequestsFinish`, `ShutdownEnds` | 78 878 | hold |
| `Reads` | `ListingExact`, `RangeExact`, `AdmissionsBounded` | 609 910 | hold |
| `Answers` | `AnswerIsTrue`, `RetryConverges`, `EventLossIsReported` | 84 825 | hold |
| `Telemetry` | `OneTrace`, `BooksBalance`, `SpansEnd` | 157 616 | hold |

### What the violated one shows

`metadata.proto` says that DeleteBucket refuses a bucket that is not empty.  *DeleteBucket
can delete an object* that was committed, and reported, after the count; `PROJECT.json`
quotes the line.  What was reported before the count is safe (`CountedIsSafe`).

### What the models do that documents deny

The properties are worded around these behaviours; each is a behaviour of its module.

* Two overlapping Completes with different lists both succeed and the later rename
  replaces a blob that was reported (`services/storage/README.md:3`: immutable).  With one
  list, or Completes one after the other, `AckedSurvives` holds.
* A retry that overlaps the first Complete can get NOT_FOUND
  (`services/storage/README.md:100`): no marker yet when it looks, no session any more when
  it reads.  One that starts after the answer is served (`LateRetryServed`).
* When Complete has renamed the blob and a client replaces one of its parts before the marker
  is written, and the process dies in between, the repeated Complete gets ErrChecksumMismatch
  (`multipart.go:175`) although the blob is published (`services/storage/README.md:100`),
  until somebody uploads the part again.  `PublishedIsRecoverable` says that this is the
  only way.
* A Complete whose marker cannot be written deletes the blob (`multipart.go:204-210`).  When it
  is an earlier attempt that its client has given up, this is the blob for which the retry
  was answered OK (`RetryConverges` names the case).
* A flush of quota that has read a usage before DeleteSubject writes it after the DEL, and a
  restart brings the subject back; the service's README says so itself
  (`services/quota/README.md:109`).
* GetQuota can bring back a limit that DeleteSubject removed (`quota.proto:56`); two
  SetQuota can leave cache and Redis with different limits
  (`services/quota/README.md:95`); an entry that is unreadable at the start is skipped
  (`services/quota/README.md:94`).
* ListObjects of a bucket that does not exist answers OK and an empty page
  (`metadata.proto:69`: NOT_FOUND).

### What `Gateway` shows

Storage before metadata, and a registration that a leaving client cannot cancel, are
enough for the catalogue to name only whole blobs with their size and checksum
(`CatalogBacked`).  A refusal is final, and an unreadable body never becomes a blob,
because the stream is cancelled and not closed (`RefusedIsNotRegistered`); after a 499 or
5xx both may still appear, which is what the handler's comment warns of.  Keeping the last
byte back until storage has confirmed the end is what makes a complete response mean a
verified one (`CompleteMeansVerified`).  A GET never goes back behind a PUT that was
answered before it began (`ReadYourWrites`).

### What the other runs show

* `Authz`.  The graph query agrees with a definition by chains and ranks.  A cached
  decision that contradicts the graph is about to be deleted, or it is one of four kinds: a
  membership changed (the hints name the tuple's own subject and object, not those of the
  decisions that depend on it), it was stored late by a Check that had read the graph
  before the change, its event was lost, or its object's id is not its own glob pattern.  The TTL
  ends each of them, with the consumer down too (`StaleExpires`).
* `Accounts`.  Logins that overlap all read the counter before any raises it, so the limit
  is exceeded by the logins in flight and by no more.  The code does not look at the
  result of EXPIRE: if that is lost, the email is locked out for good, and this is the only
  way (`CounterExpires`, `LockoutEnds`).  Refresh tokens are not rotated: an old one stays
  valid until it expires.
* `Lifecycle`.  Loaders let through a limiter whose interval rounds to zero (the limiter is
  nil and the first unary RPC panics), an empty port, and any number in auth and quota;
  nothing else.  The closers run their functions concurrently, so pools are closed while
  requests drain, and main does not wait for CloseAll: a service may exit before its other
  functions have run.  A signal that comes before Serve stops no Go service gracefully: its
  server refuses to serve and the process fails, or storage's ends normally.  Accepted
  requests are still drained, up to the deadline (`RequestsFinish`).
* `Reads`.  Pages are exact under changes.  A last page that is full carries a token, and
  the page after it is empty.
* `Answers`.  Statuses that say that nothing was done are true: RESOURCE_EXHAUSTED from a
  Complete may come after its blob was published, but the blob has been taken back by then,
  unless deleting it failed too.  A client that repeats itself ends where it wants to be with
  the two exceptions above, the Complete that takes back another's blob and the flush that
  brings a deleted subject back.  A malformed UUID becomes
  INTERNAL.  RPCs that append (StoreObject, InitiateMultipartUpload, CreateObjectVersion,
  UpdatePassword, CheckQuota, UpdateUsage) have no key by which a repeated attempt could be
  recognised: a client that repeats one may have it done more than once.  When
  Kafka refuses the event of a deletion, only the first answer says so: the retry is
  answered NOT_FOUND.
* `Telemetry`.  Traces, counters and spans are consistent within limits that the properties
  name: a gateway with tracing off breaks the trace; quota begins a trace of its own for
  every request, whatever its caller sent, and its lines name no span; requests that the
  limiter refuses are not counted, since it is outside the metrics; streams of storage
  have neither limiter nor server span; lines of `handleError` carry no span, and the
  field `trace_id` of the others is the id of the span; the trace id for the caller goes
  into outgoing metadata, where no caller sees it; a GET that was aborted counts as a 200,
  and only its span has the error; ValidateCredentials does not end its span when the user
  cannot be read.

### Bounds

* `MultipartRetry`: two requests at a time (any number one after another), two parts,
  two contents, one well-formed and one refused part list.  Two requests are what
  every race in the code needs: one between two steps of the other.  Two parts make
  copying and removing more than one step.  The proofs cover all other sizes.
* `Catalog`: two requests in progress, two keys, identifiers that can be generated twice
  each.  Behaviours are finite because identifiers run out; that is why the run does not
  check for deadlock: waiting for each other is what `NoWaitCycle` and `EveryRequestEnds`
  are about.  Two
  bucket ids let a bucket be dropped and created again while a request still works with
  the old one.  Safety is proved for every number of requests.
* `Quota*`: two RPCs in progress, `MaxGrants` CheckQuota calls in a behaviour, a user
  limited in bytes and a bucket limited in objects, so that a check can pass at the
  first and be denied at the second.  Administration is explored with one subject.
* `Gateway`: two requests (a PUT and a GET, two PUTs, two GETs), each with three threads of
  control, one key, the empty body and one of two pieces: a stream can break before, inside
  and after its content, and the last piece can be kept back.  Each request is used once.
* `Authz`: one worker, one writer and the consumer; a user in a group in a group, one object, so
  that a change can be two memberships away; a TTL of two ticks, one event in Kafka
  at a time besides the one in the consumer's hands.  No object has an id that is a glob
  pattern of something else (`Globbed`); with such an object the fourth kind appears.
* `Accounts`: two logins and one password change at a time, one user, a limit of two
  attempts equal to the largest count the code can read, so that the clamp is at the
  boundary.  One user id means that an email conflict is only one of the user with itself;
  the statuses of conflicts are in `Answers`.
* `Lifecycle`: every service, one variable that deviates at a time, two requests, two
  signals (the second is the one that kills some processes).  Texts with a default
  cannot be wrong and are left out.
* `Reads`: one client, three keys of which two match, pages of one and two keys and the
  default; three bytes in chunks of two, offsets and lengths at, before and past the
  end, and at `MaxInt`; a limiter of two tokens.
* `Answers`: three attempts, so that a late first one, a lost second one and a settled third
  one overlap; no other clients, whose effect is in the modules of the components.
* `Telemetry`: one request of each kind, since spans belong to one request and counts add.

Symmetry is used for sets of requests and identifiers that the specifications do not
tell apart, and in no run with a liveness property.

### Fairness

* `Catalog`: strong fairness of the steps of each request.  PostgreSQL queues the
  waiters for a row, so a request that can get its lock again and again does get it.
  Nothing is assumed about failures.
* `Quota`: weak fairness of code without await points and of the flush task, which a
  ticker restarts for ever; strong fairness of each Redis write, that is, Redis does
  not refuse all of them.  No fairness for RPCs to arrive.
* `Gateway`: weak fairness of the gateway's steps of each request, in which the deadline of
  the metadata calls is one that may end the wait, and of storage's steps: clients send and
  take their bytes, and storage, whose calls have no deadline, goes on.  Nothing is assumed
  of the metadata service after it was asked to commit: it may hang for ever.
* `Authz`: only the clock of Redis.  Nobody has to run the consumer.
* `Accounts`: the clock of Redis, and a login that is about to send EXPIRE sends it or fails.
* `Lifecycle`: the startup goes on, handlers run, deadlines pass.  A shutdown function may
  hang.  Requests end in the services that wait for them without a deadline; in authz and
  the gateway, which have one, they need not.
* `Telemetry`: goroutines and tasks run.  That a caller leaves is not assumed.

## 4. Proofs

TLC explores the instances of section 3; the theorems below hold for every value of
the constants: any number of requests, clients, workers and attempts, any parts, part
lists, keys, identifiers, bodies, subjects, resources, amounts, limits, entities, page
and chunk sizes.  `tlapm <module>.tla` checks them.

| Module | Theorem | Says | Run with the property |
|---|---|---|---|
| `MultipartUpload_proofs` | `TypeCorrect` | `Spec => []TypeOK` | – |
| | `AssemblyIsIntact` | `Spec => []AssemblyIntegrity` | `MultipartRetry` |
| | `AckedIsDurable` | `Spec => []AckedSurvives` | `MultipartRetry` |
| | `LateRetriesAreServed` | `Spec => []LateRetryServed` | `MultipartRetry` |
| | `PublishedStaysRecoverable` | `Spec => []PublishedIsRecoverable` | `MultipartRetry` |
| | `UploadPublishesOnce` | `Spec => ImplementsPublishedBlob` | `MultipartRetry` |
| | `PromiseHolds` | `Store!Spec => []Store!Promise` | – |
| `Catalog_proofs` | `TypeCorrect` | `Spec => []TypeOK` | – |
| | `HistoriesAreWellFormed` | `Spec => []VersionHistory` | `Catalog` |
| | `RegisteredIsVisible` | `Spec => []AckedVisible` | `Catalog` |
| | `EventsNameDeadBlobs` | `Spec => []EventsAreSafe` | `Catalog` |
| | `CountingProtects` | `Spec => []CountedIsSafe` | `Catalog` |
| | `CatalogImplementsLog` | `Spec => ImplementsLog` | `Catalog` |
| | `NoDeadlock` | `Spec => []NoWaitCycle` | `Catalog` |
| `Quota_proofs` | `TypeCorrect` | `Spec => []TypeOK` | – |
| | `NeverOvercommitted` | `Spec => []NoOvercommit` | `QuotaAdmin` |
| | `NoUpdateForgotten` | `Spec => []DivergenceIsTracked` | `QuotaAdmin` |
| | `UsageIsConserved` | `Spec => []Conservation` | `QuotaUsage` |
| | `UsageIsBounded` | `Spec => []SumsBounded(M)` | – |
| `Gateway_proofs` | `TypeCorrect` | `Spec => []TypeOK` | – |
| | `CatalogIsBacked` | `Spec => []CatalogBacked` | `Gateway` |
| | `RefusalIsFinal` | `Spec => []RefusedIsNotRegistered` | `Gateway` |
| | `CompleteIsVerified` | `Spec => []CompleteMeansVerified` | `Gateway` |
| | `ReadsYourWrites` | `Spec => []ReadYourWrites` | `Gateway` |
| | `BlobsAreRegisteredOnce` | `Spec => []RegisteredOnce` | – |
| | `RegisteredIsImmutable` | `Spec => [][Stable]_vars` | – |
| `Authz_proofs` | `TypeCorrect` | `Spec => []TypeOK` | – |
| | `DecisionsAreEntitlements` | `Spec => []DecisionIsEntitlement` | `Authz` |
| | `StalenessIsExplained` | `Spec => []StaleIsExplained` | `Authz` |
| `Accounts_proofs` | `TypeCorrect` | `Spec => []TypeOK` | – |
| | `OneChangeAtATime` | `Spec => []RowLocked` | – |
| | `AttemptsAreBounded` | `Spec => []AttemptsBounded` | `Accounts` |
| | `CountersExpire` | `Spec => []CounterExpires` | `Accounts` |
| | `ChangesAreLogged` | `Spec => []PasswordChangesLogged` | `Accounts` |
| `Reads_proofs` | `TypeCorrect` | `Spec => []TypeOK` | – |
| | `ListingsAreExact` | `Spec => []ListingExact` | `Reads` |
| | `RangesAreExact` | `Spec => []RangeExact` | `Reads` |
| | `AdmissionsAreBounded` | `Spec => []AdmissionsBounded` | `Reads` |
| `Services_proofs` | `TypeCorrect` | `Spec => []TypeOK` | – |
| | `AnswersAreTrue` | `Spec => []AnswerIsTrue` | `Answers` |
| | `RetriesConverge` | `Spec => []RetryConverges` | `Answers` |
| | `LossIsReported` | `Spec => []EventLossIsReported` | `Answers` |
| | `ServingIsChecked` | `Life!Spec => []StartedIsChecked` | `Lifecycle` |
| | `AcceptedRequestsFinish` | `Life!Spec => []RequestsFinish` | `Lifecycle` |

Where the table has no run, the formula is defined in the proof module: it belongs to
the invariant, and says more than a property of the model should repeat.

### Assumptions

Only the named ASSUMEs of the modules.  TLC evaluates them in every run.

* `None` is not one of the values it is told apart from; in `Gateway` it is not a row or an
  answer either.
* Users and buckets are different subjects of `Quota`, amounts are natural numbers and
  limits are integers; part lists are sequences over the parts, bodies sequences of pieces.
* The keys of `Reads`, the entities of `Authz`, the logins of `Accounts` and the requests of
  `Quota` are finite sets of any size, since the properties count them or the memberships
  between them.
* Page and chunk sizes, the limit of attempts, the windows and the TTL are positive, as
  the loaders and the code that divides by them demand.  A limiter has a capacity of at
  least one and an interval of at least one nanosecond (`Limit <= Period`); below that
  `NewTokenBucketLimiter` returns nil, which is in `Config` and `Lifecycle`.
* `UsageIsBounded` has a hypothesis of its own: M is a natural number that no amount of
  `Amounts` exceeds.  It bounds what clients ask for at a time and can be any such number.
* A blob is no longer than `MaxInt`, and the arguments of a range are integers of that width.

### The arguments

None of the invariants is inductive as it stands: each says something about a moment
that two requests reach in different orders, and needs to know what a request in the
middle of its steps has found and still relies on.

*MultipartUpload.*  `TypeInv` adds to the types what a request has at each label.
`IntegrityInv` follows the assembly: what Complete has copied so far is a prefix of
what its list names.  `DurableInv` says that,
until somebody deletes the object, a marker has its blob, a reported result has its
marker, a request that is removing the session has written the marker first, and a late
Complete can only be on the path that the marker serves.  `RecoverInv` says that, until
the session's removal begins, the manifest is there and both the published blob and what
Complete is assembling can be built again from the parts, with the numbers and checksums of
a list and in the number the session expects.  A crash at any point is therefore harmless
as long as no client has replaced a part that a blob without a marker was copied from:
`PublishedIsRecoverable` counts what is in `replaced` as if it were still there, and the
invariant follows the parts that Complete has verified, one by one, through replacements of
any of them.

*The published blob.*  `UploadPublishesOnce` goes through the steps by what a reader notices
of them: the start of a Complete is `Ask`, the rename is `Publish`, the answer is `Report`,
a deletion or a fault of the marker is `Disturb`, and the unlink of the blob, which comes
after one of these, is `Withdraw`.  All other steps stutter, among them crashes, aborts and
every step of the cleanup.  That a `Report` finds a blob and a `Publish` what was asked for
comes from `DurableInv` and `IntegrityInv`.  `PromiseHolds` is what a client gets from the
abstract module alone.

*Catalog.*  `HistoryInv` joins four things: identifiers in use are known and belong to
one request (`IdInv`); a request past the upsert holds the exclusive lock on its object
row, and that row exists or is its own insert (`LockInv`); a bucket is not being removed
while somebody shares its row (`BucketInv`); and the number a request has computed is
still the next one when it commits (`NumberInv`).  Only together are they preserved:
`NumberInv` rests on the lock, the lock's meaning on the object row being there, and that
on the cascade taking the same locks.  `EffectInv` adds one object per key (`KeyInv`),
one registration per blob (`BlobInv`), that what was removed never comes back
(`RemovedInv`), and that reported versions stay until their object goes (`AckInv`), and
gives `AckedVisible` and `EventsAreSafe`.  `CountInv` gives `CountedIsSafe`: no request can
turn a blob that was reported before the count into a version of the counted bucket,
because identifiers are not used twice.

*The refinement.*  `CatalogImplementsLog` maps a key to the blobs of its versions in the
order of their numbers.  The commit of a registration appends one blob, since the number
it commits is one more than the length of the log (`NumberInv`); the deletion of an object
row empties one log; the deletion of the bucket empties all of them at once, since the
cascade needs every row; every other statement leaves the map as it is.

*Waiting.*  `NoDeadlock`: whichever requests wait for each other, one among them waits only
for requests outside of the set.  `WaitsFor` is read off the guards of the statements that
lock; that it leaves no wait out is a lemma (`NothingElseBlocks`).  The statements have
stages: an upsert and the two deletions of rows may wait for a foreign key check, that one
for a cascade, the cascade for transactions that have their locks and only commit, and those
wait for nobody (`WaitsDown`). It is the order in which `CreateObjectVersion` and
`DeleteBucket` take object and bucket rows; `HeldInv` says which locks a request has at each
statement.

*Quota.*  `NoOvercommit` needs `CeilingInv`: every limit that is in force, stored in Redis
or read by a request once applied to the subject (a check may use a limit that has been
replaced meanwhile), and every entry, the copies in the hands of the flush task included,
is within such a limit.  The arithmetic is in four lemmas (`ReserveWithin`,
`ReleaseWithin`, `ApplyAmount`, `WithinMore`).  `DivergenceIsTracked` needs `TrackInv`:
what the flush task carries is the current usage, or the entry is marked for the next
round.  Without that part, the write of an old value could go unnoticed when usage has
returned to what Redis had.

`Conservation` is about sums over sets that grow and shrink.  A sum is the number of
elements of a set of units, a pair of a holder and a number below its amount each, so that
its lemmas are facts about cardinalities: one holder more, one less, one whose amount
changes.  Every step of a request balances what it adds to the usage with what it
reserves, holds or gives back (`Balanced`), and leaves the shares of the others alone.

`UsageIsBounded` cannot be shown by adding M at each reservation, since a check has two of
them, for two subjects, and the flush task and a restart carry old entries around.
`BoundInv` counts for each subject the checks that have had their turn at it (`Spent`): all
that were made less those still to come (`Due`).  The entry and all its copies are at most M
for each of these, and the number only grows (`SpentNext`).  With amounts of at most M
bytes, nothing wraps in 64 bits before 2^63 / M checks were made.

*Gateway.*  `FlowInv` says how far the handler, `StoreObject` and `CreateObjectVersion` of one
PUT can be from each other: storage goes past receiving only when the body was closed, and
a body that could not be read never was; a registration is asked for only after storage
has answered; an answer that refuses excludes a registration in progress.  `BlobInv` and
`LogInv` tie what storage and the catalogue hold to the request it came from, by
identifiers that nobody shares (`IdInv`).  `GetInv` is what a GET has found: a version that
some request registered and the stream of its blob; `FloorInv` that what was reported
before it began is not newer in the log.

What `VersionLog` leaves to its callers is that a blob is registered once.
`BlobsAreRegisteredOnce` proves it of the gateway, late commits included, with `GoneInv`:
a blob that was deleted belongs to a request that is through, and one whose registration
is in progress is nowhere in the log yet. `RegisteredIsImmutable` is an action property:
the file and the row of a registered version are not written again by any step.

*Authz.*  `DecisionIsEntitlement` compares the query over paths of any length with chains of
at most as many links as there are entities.  Its proof is an induction on the length of a
chain in one direction; in the other a shortest chain is taken, and cut where an entity
comes up twice.  The prover has no induction over a formula, so the property is a set of
numbers, and a set of numbers that has 0 and with each n also n + 1 is all of them, because
a least number outside it would have a predecessor (`Smallest`, `SetInduction`).
`StaleIsExplained` is inductive with the types and with `ScanInv`: the keys the consumer has
scanned are about the resource of the event it holds.

*Accounts.*  `RowLocked` is what makes a change and its log row one: the row a transaction has
updated exists and is locked against the others until it ends.  `AttemptsBounded` is
inductive: a login that has passed the check is counted among those in flight until the
increment moves it into the counter; whatever else changes the counter lowers it.

*Reads.*  `LimiterInv` is `AdmissionsBounded` for every number of intervals back at once: what
was admitted since, and what the bucket holds, come to no more than the capacity and one
token per interval.  For the last period alone the claim is not inductive, since a tick
moves it by one.  `ClientInv` says that a listing holds, up to its token, exactly what it
must; a page is an initial part of the rows in their order (`PageFacts`), and rows can be
put in order because every finite set of numbers can (an induction like the one above).
`RangeExact` is arithmetic on where the next chunk begins.

*Answers.*  The forty RPCs come down to ten facts about an RPC (`WellFormed`), and the
errors to the statuses they can become (`StatusFacts`).  `AttemptOK` is what an attempt
knows of itself, `Promised` what it says of the target; an action moves the target only
where the RPC takes it (`Keeps`), which keeps what other attempts have said.  Two kinds of
steps do not keep it, and are shown directly.  `TakeBack` removes what others have made, and
marks those attempts lost in the same step (`TakeBackStep`).  A flush may write what it read
before a deletion (`SnapOK` says what it can hold); what a deletion promises is therefore
that the target is in neither place, or was written back (`Gone`), and a restart keeps that.
Otherwise only quota can lose on a restart what was done, and it stores deletions and
assignments before it answers.

*Lifecycle.*  `LoadInv` follows the configuration through the loaders of its service: until
it is loaded, every loader passed so far has accepted the environment, and afterwards what
is disabled is what such an environment may disable (`LoadedIsChecked`, for any environment
and not only those with one deviation).  `RequestInv` says when requests can run at all:
while the process serves, or, in a gateway that has left Serve, when the deadline has
passed, so that a server that was drained has none to cut off and the clients of the gateway
go last.

### Model-checked only

Liveness (`EveryRequestEnds`, `EventuallyPersisted`, `EveryRequestAnswered`, `StaleExpires`,
`LockoutEnds`, `ShutdownEnds`, `SpansEnd`), which is out of the prover's reach, and the
safety of `Telemetry`, which has no constants: TLC explores all of it.  What the violated
run refutes is of course not a theorem.

## 5. Not modelled, and the plan

Left out, and why:

* The code generated from the protocol definitions (`shared/pkg/go/*/v1`, about half of the
  lines of Go) and the gateway's generated API documentation: messages and stubs
  without logic of their own.  The comments of the definitions are the source of several
  properties.
* The Kafka consumer group and the circuit breaker of go-kit, and nested transactions: no
  service uses them.
* Exporters of telemetry with their batches, and the gauges of the disk: they change
  nothing that the services read.
* The smoke programs and test kits, deployment, end-to-end tests.
* Overflow of `i64` in quota, from which `UsageIsBounded` keeps it for amounts far below
  2^63, and power failures in storage: see section 2.

What is left to do are the hazards that `PROJECT.json` lists without a property.
