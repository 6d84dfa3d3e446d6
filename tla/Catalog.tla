------------------------------- MODULE Catalog -------------------------------
(***************************************************************************)
(* The metadata service: concurrent requests on the buckets, objects and   *)
(* versions tables of PostgreSQL, for one bucket name.                     *)
(*                                                                         *)
(*   services/metadata/internal/service/{bucket,object}     transactions   *)
(*   services/metadata/internal/repository/{bucket,object}  statements     *)
(*                                                                         *)
(* A step is one statement, or the part of one that runs without waiting   *)
(* for a row lock.  Transactions are READ COMMITTED: a statement sees what *)
(* was committed when it began and what its own transaction wrote, row     *)
(* locks last until commit or rollback, and a statement that has waited    *)
(* for a row goes on with the newest committed state of that row.          *)
(*                                                                         *)
(* A version is identified by its blob id: every registration brings a     *)
(* blob of its own, as the gateway stores a new blob for each PUT.         *)
(***************************************************************************)
EXTENDS Integers, Sequences, FiniteSets

CONSTANTS Request,   \* the requests that may be in progress at a time
          Key,       \* object keys of the bucket
          BucketId, ObjectId, BlobId,   \* identifiers that may be generated
          None

ASSUME NoneAssumption == None \notin BucketId \cup ObjectId \cup BlobId

VARIABLES
  bucket,    \* committed: id of the bucket with the name, or None
  objects,   \* committed rows of objects
  versions,  \* committed rows of versions
  used,      \* identifiers generated so far
  pc,        \* where each request is
  key, blob, \* the key and the blob id a request is about
  bid, oid,  \* the bucket and the object it works on
  num,       \* the number of the version it has inserted
  seen,      \* DeleteObjectMeta: the blobs in its snapshot;
             \* DeleteBucket: history, the blobs reported before it counted
  locks,     \* the object rows each request has locked exclusively
  fresh,     \* the requests whose object row is their own uncommitted insert
  acked,     \* history: version rows CreateObjectVersion reported
  removed,   \* history: objects whose deletion was committed
  events     \* object-deleted events in Kafka

tables  == <<bucket, objects, versions>>
local   == <<key, blob, bid, oid, num, seen>>
history == <<acked, removed, events>>
vars    == <<tables, used, pc, local, locks, fresh, history>>

ObjectRow  == [id : ObjectId, bucket : BucketId, key : Key, cur : BlobId]
VersionRow == [obj : ObjectId, num : Nat \ {0}, blob : BlobId]
Deletion   == [obj : ObjectId, blob : BlobId, by : {"DeleteObjectMeta", "DeleteBucket"}]
Deleted    == [obj : ObjectId, blob : BlobId \cup {None}]

Creating == {"v_conflict", "v_fk", "v_lock", "v_insert", "v_commit"}
Label == Creating \cup {"idle", "o_delete", "o_send", "b_count", "b_delete",
                        "b_cascade", "b_commit", "b_send"}

(* The row locks of PostgreSQL: the exclusive lock on an object row, the   *)
(* KEY SHARE lock on the bucket row that the foreign key of a new object   *)
(* takes, and the exclusive lock of a DELETE on the bucket row.            *)
Free(r, o) == \A q \in Request \ {r} : o \notin locks[q]
KeyShared(b) == \E q \in fresh : bid[q] = b /\ pc[q] # "v_fk"
Dropping(b) == \E q \in Request : bid[q] = b /\ pc[q] \in {"b_cascade", "b_commit"}

Goto(r, label) == pc' = [pc EXCEPT ![r] = label]

(* The request is answered and its transaction over. *)
End(r) ==
  /\ pc' = [pc EXCEPT ![r] = "idle"]
  /\ key' = [key EXCEPT ![r] = None]
  /\ blob' = [blob EXCEPT ![r] = None]
  /\ bid' = [bid EXCEPT ![r] = None]
  /\ oid' = [oid EXCEPT ![r] = None]
  /\ num' = [num EXCEPT ![r] = 0]
  /\ seen' = [seen EXCEPT ![r] = {}]
  /\ locks' = [locks EXCEPT ![r] = {}]
  /\ fresh' = fresh \ {r}

Init ==
  /\ bucket = None
  /\ objects = {}
  /\ versions = {}
  /\ used = {}
  /\ pc = [r \in Request |-> "idle"]
  /\ key = [r \in Request |-> None]
  /\ blob = [r \in Request |-> None]
  /\ bid = [r \in Request |-> None]
  /\ oid = [r \in Request |-> None]
  /\ num = [r \in Request |-> 0]
  /\ seen = [r \in Request |-> {}]
  /\ locks = [r \in Request |-> {}]
  /\ fresh = {}
  /\ acked = {}
  /\ removed = {}
  /\ events = {}

-----------------------------------------------------------------------------
(* CreateBucket.  The unique name makes the INSERT wait for a transaction  *)
(* that is deleting the old row; a name that is taken changes nothing.     *)
CreateBucket(r) ==
  /\ pc[r] = "idle" /\ bucket = None
  /\ \E b \in BucketId \ used :
       /\ bucket' = b
       /\ used' = used \cup {b}
  /\ UNCHANGED <<objects, versions, pc, local, locks, fresh, history>>

-----------------------------------------------------------------------------
(* CreateObjectVersion *)

(* BEGIN, and the upsert's look at the bucket: it proposes a row with a    *)
(* new id.  Without a bucket there is nothing to insert: NOT_FOUND.        *)
CreateStart(r) ==
  /\ pc[r] = "idle" /\ bucket # None
  /\ \E k \in Key, b \in BlobId \ used, o \in ObjectId \ used :
       /\ key' = [key EXCEPT ![r] = k]
       /\ blob' = [blob EXCEPT ![r] = b]
       /\ oid' = [oid EXCEPT ![r] = o]
       /\ used' = used \cup {b, o}
  /\ bid' = [bid EXCEPT ![r] = bucket]
  /\ Goto(r, "v_conflict")
  /\ UNCHANGED <<tables, num, seen, locks, fresh, history>>

(* The upsert inserts its row, unless one for the key is committed or      *)
(* being inserted.                                                         *)
UpsertInsert(r) ==
  /\ pc[r] = "v_conflict"
  /\ ~\E o \in objects : o.bucket = bid[r] /\ o.key = key[r]
  /\ ~\E q \in fresh : bid[q] = bid[r] /\ key[q] = key[r]
  /\ locks' = [locks EXCEPT ![r] = {oid[r]}]
  /\ fresh' = fresh \cup {r}
  /\ Goto(r, "v_fk")
  /\ UNCHANGED <<tables, used, local, history>>

(* Mutant of UpsertUpdate: the bucket row is locked after the object row. *)
UpsertUpdateSharesBucket(r) ==
  /\ pc[r] = "v_conflict"
  /\ \E o \in objects :
       /\ o.bucket = bid[r] /\ o.key = key[r] /\ Free(r, o.id)
       /\ oid' = [oid EXCEPT ![r] = o.id]
       /\ locks' = [locks EXCEPT ![r] = {o.id}]
  /\ Goto(r, "v_fk")
  /\ UNCHANGED <<tables, used, key, blob, bid, num, seen, fresh, history>>

(* Mutant of UpsertUpdate: neither the upsert nor FOR UPDATE locks the row. *)
UpsertUpdateUnlocked(r) ==
  /\ pc[r] = "v_conflict"
  /\ \E o \in objects :
       /\ o.bucket = bid[r] /\ o.key = key[r]
       /\ oid' = [oid EXCEPT ![r] = o.id]
  /\ Goto(r, "v_insert")
  /\ UNCHANGED <<tables, used, key, blob, bid, num, seen, locks, fresh, history>>

(* ... or updates, and so locks, the committed row. *)
UpsertUpdate(r) ==
  /\ pc[r] = "v_conflict"
  /\ \E o \in objects :
       /\ o.bucket = bid[r] /\ o.key = key[r] /\ Free(r, o.id)
       /\ oid' = [oid EXCEPT ![r] = o.id]
       /\ locks' = [locks EXCEPT ![r] = {o.id}]
  /\ Goto(r, "v_lock")
  /\ UNCHANGED <<tables, used, key, blob, bid, num, seen, fresh, history>>

(* The foreign key of an inserted row locks the bucket row, or fails when  *)
(* it is gone; it waits for the end of a transaction that deletes it.      *)
UpsertForeignKey(r) ==
  /\ pc[r] = "v_fk" /\ ~Dropping(bid[r])
  /\ IF bucket = bid[r]
       THEN Goto(r, "v_lock") /\ UNCHANGED <<local, locks, fresh>>
       ELSE End(r)
  /\ UNCHANGED <<tables, used, history>>

(* SELECT ... FOR UPDATE *)
LockObject(r) ==
  /\ pc[r] = "v_lock" /\ Free(r, oid[r])
  /\ locks' = [locks EXCEPT ![r] = {oid[r]}]
  /\ Goto(r, "v_insert")
  /\ UNCHANGED <<tables, used, local, fresh, history>>

(* INSERT with COALESCE(MAX(version_number), 0) + 1 *)
MaxNumber(n, o) ==
  /\ n = 0 \/ \E v \in versions : v.obj = o /\ v.num = n
  /\ \A v \in versions : v.obj = o => v.num <= n

InsertVersion(r) ==
  /\ pc[r] = "v_insert"
  /\ \E n \in {0} \cup {v.num : v \in versions} :
       /\ MaxNumber(n, oid[r])
       /\ num' = [num EXCEPT ![r] = n + 1]
  /\ Goto(r, "v_commit")
  /\ UNCHANGED <<tables, used, key, blob, bid, oid, seen, locks, fresh, history>>

(* Mutant of CreateCommit: SetCurrentVersion forgotten on overwrite. *)
CreateCommitKeepsCurrent(r) ==
  LET row == [obj |-> oid[r], num |-> num[r], blob |-> blob[r]]
  IN /\ pc[r] = "v_commit"
     /\ objects' = IF r \notin fresh THEN objects ELSE objects \cup
                   {[id |-> oid[r], bucket |-> bid[r], key |-> key[r], cur |-> blob[r]]}
     /\ versions' = versions \cup {row}
     /\ acked' \in {acked, acked \cup {row}}
     /\ End(r)
     /\ UNCHANGED <<bucket, used, removed, events>>

(* SetCurrentVersion and COMMIT: the update touches a row nobody else can  *)
(* see or change.  The client may not learn of the commit.                 *)
CreateCommit(r) ==
  LET row == [obj |-> oid[r], num |-> num[r], blob |-> blob[r]]
  IN /\ pc[r] = "v_commit"
     /\ objects' = {o \in objects : o.id # oid[r]} \cup
                   {[id |-> oid[r], bucket |-> bid[r], key |-> key[r], cur |-> blob[r]]}
     /\ versions' = versions \cup {row}
     /\ acked' \in {acked, acked \cup {row}}
     /\ End(r)
     /\ UNCHANGED <<bucket, used, removed, events>>

(* GetObjectMeta: the version rows it returns for a key, one at most. *)
GetMeta(k) ==
  {v \in versions : \E o \in objects :
     o.bucket = bucket /\ o.key = k /\ v.blob = o.cur}

-----------------------------------------------------------------------------
(* DeleteObjectMeta: one DELETE, committed at once.  Its subselect for the *)
(* blob uses the statement's snapshot even when the row has been waited    *)
(* for and changed.                                                        *)

(* Mutant of DeleteStart: the event is sent before the row is deleted. *)
DeleteStartPublishes(r) ==
  /\ pc[r] = "idle"
  /\ \E o \in objects :
       /\ o.bucket = bucket
       /\ key' = [key EXCEPT ![r] = o.key]
       /\ oid' = [oid EXCEPT ![r] = o.id]
       /\ seen' = [seen EXCEPT ![r] = {v.blob : v \in {w \in versions : w.obj = o.id}}]
       /\ events' = events \cup {[obj |-> o.id, blob |-> o.cur]}
  /\ Goto(r, "o_delete")
  /\ UNCHANGED <<tables, used, blob, bid, num, locks, fresh, acked, removed>>

DeleteStart(r) ==
  /\ pc[r] = "idle"
  /\ \E o \in objects :
       /\ o.bucket = bucket
       /\ key' = [key EXCEPT ![r] = o.key]
       /\ oid' = [oid EXCEPT ![r] = o.id]
       /\ seen' = [seen EXCEPT ![r] = {v.blob : v \in {w \in versions : w.obj = o.id}}]
  /\ Goto(r, "o_delete")
  /\ UNCHANGED <<tables, used, blob, bid, num, locks, fresh, history>>

(* Mutant of DeleteRow: only the current version is deleted. *)
DeleteRowOnlyCurrent(r) ==
  /\ pc[r] = "o_delete" /\ Free(r, oid[r])
  /\ \E o \in objects :
       /\ o.id = oid[r]
       /\ versions' = {v \in versions : v.blob # o.cur}
       /\ blob' = [blob EXCEPT ![r] = IF o.cur \in seen[r] THEN o.cur ELSE None]
  /\ Goto(r, "o_send")
  /\ UNCHANGED <<bucket, objects, used, key, bid, oid, num, seen, locks, fresh, history>>

DeleteRow(r) ==
  /\ pc[r] = "o_delete" /\ Free(r, oid[r])
  /\ \E o \in objects :
       /\ o.id = oid[r]
       /\ objects' = objects \ {o}
       /\ versions' = {v \in versions : v.obj # o.id}
       /\ blob' = [blob EXCEPT ![r] = IF o.cur \in seen[r] THEN o.cur ELSE None]
       /\ removed' = removed \cup
                       {[obj |-> o.id, blob |-> o.cur, by |-> "DeleteObjectMeta"]}
  /\ Goto(r, "o_send")
  /\ UNCHANGED <<bucket, used, key, bid, oid, num, seen, locks, fresh, acked, events>>

(* Another request has deleted the row: NOT_FOUND. *)
DeleteGone(r) ==
  /\ pc[r] = "o_delete"
  /\ ~\E o \in objects : o.id = oid[r]
  /\ End(r)
  /\ UNCHANGED <<tables, used, history>>

DeleteSend(r) ==
  /\ pc[r] = "o_send"
  /\ events' = events \cup {[obj |-> oid[r], blob |-> blob[r]]}
  /\ End(r)
  /\ UNCHANGED <<tables, used, acked, removed>>

-----------------------------------------------------------------------------
(* DeleteBucket *)

(* BEGIN and Get *)
DropStart(r) ==
  /\ pc[r] = "idle" /\ bucket # None
  /\ bid' = [bid EXCEPT ![r] = bucket]
  /\ Goto(r, "b_count")
  /\ UNCHANGED <<tables, used, key, blob, oid, num, seen, locks, fresh, history>>

(* Mutant of DropCount: the count is not looked at. *)
DropCountUnchecked(r) ==
  /\ pc[r] = "b_count"
  /\ seen' = [seen EXCEPT ![r] = {v.blob : v \in acked}]
  /\ Goto(r, "b_delete")
  /\ UNCHANGED <<tables, used, key, blob, bid, oid, num, locks, fresh, history>>

(* CountObjects; a bucket with objects is refused. *)
DropCount(r) ==
  /\ pc[r] = "b_count"
  /\ IF \E o \in objects : o.bucket = bid[r]
       THEN End(r)
       ELSE /\ seen' = [seen EXCEPT ![r] = {v.blob : v \in acked}]
            /\ Goto(r, "b_delete")
            /\ UNCHANGED <<key, blob, bid, oid, num, locks, fresh>>
  /\ UNCHANGED <<tables, used, history>>

(* DELETE FROM buckets waits for all who hold the row.  A row that is gone *)
(* by then is NOT_FOUND.                                                   *)
DropDelete(r) ==
  /\ pc[r] = "b_delete" /\ ~KeyShared(bid[r]) /\ ~Dropping(bid[r])
  /\ IF bucket = bid[r]
       THEN Goto(r, "b_cascade") /\ UNCHANGED <<local, locks, fresh>>
       ELSE End(r)
  /\ UNCHANGED <<tables, used, history>>

(* ON DELETE CASCADE takes a snapshot of its own and locks every object.   *)
DropCascade(r) ==
  LET ids == {o.id : o \in {p \in objects : p.bucket = bid[r]}}
  IN /\ pc[r] = "b_cascade"
     /\ \A o \in ids : Free(r, o)
     /\ locks' = [locks EXCEPT ![r] = ids]
     /\ Goto(r, "b_commit")
     /\ UNCHANGED <<tables, used, local, fresh, history>>

DropCommit(r) ==
  LET gone == {o \in objects : o.id \in locks[r]}
  IN /\ pc[r] = "b_commit"
     /\ bucket' = None
     /\ objects' = objects \ gone
     /\ versions' = {v \in versions : v.obj \notin locks[r]}
     /\ removed' = removed \cup
                     {[obj |-> o.id, blob |-> o.cur, by |-> "DeleteBucket"] : o \in gone}
     /\ locks' = [locks EXCEPT ![r] = {}]
     /\ Goto(r, "b_send")
     /\ UNCHANGED <<used, local, fresh, acked, events>>

(* The bucket-deleted event; no property tells these apart. *)
DropSend(r) ==
  /\ pc[r] = "b_send"
  /\ End(r)
  /\ UNCHANGED <<tables, used, history>>

-----------------------------------------------------------------------------
(* The request ends early: a statement or the event failed, the client     *)
(* went away, or the process died.  An open transaction is rolled back;    *)
(* what was committed before the event was sent stays.                     *)
Fail(r) ==
  /\ pc[r] # "idle"
  /\ End(r)
  /\ UNCHANGED <<tables, used, history>>

Create(r) ==
  \/ UpsertInsert(r) \/ UpsertUpdate(r) \/ UpsertForeignKey(r)
  \/ LockObject(r) \/ InsertVersion(r) \/ CreateCommit(r)

Delete(r) == DeleteRow(r) \/ DeleteGone(r) \/ DeleteSend(r)

Drop(r) ==
  \/ DropCount(r) \/ DropDelete(r) \/ DropCascade(r) \/ DropCommit(r) \/ DropSend(r)

Start(r) == CreateBucket(r) \/ CreateStart(r) \/ DeleteStart(r) \/ DropStart(r)

Step(r) == Create(r) \/ Delete(r) \/ Drop(r)

Next == \E r \in Request : Start(r) \/ Step(r) \/ Fail(r)

Spec == Init /\ [][Next]_vars

(* A statement is executed, and PostgreSQL grants a row lock to the        *)
(* waiters in the order they came; nothing is assumed of failures.         *)
FairSpec == Spec /\ \A r \in Request : SF_vars(Step(r))

-----------------------------------------------------------------------------
(* Every variable has its type. *)
TypeOK ==
  /\ bucket \in BucketId \cup {None}
  /\ objects \subseteq ObjectRow
  /\ versions \subseteq VersionRow
  /\ used \subseteq BucketId \cup ObjectId \cup BlobId
  /\ pc \in [Request -> Label]
  /\ key \in [Request -> Key \cup {None}]
  /\ blob \in [Request -> BlobId \cup {None}]
  /\ bid \in [Request -> BucketId \cup {None}]
  /\ oid \in [Request -> ObjectId \cup {None}]
  /\ num \in [Request -> Nat]
  /\ seen \in [Request -> SUBSET BlobId]
  /\ locks \in [Request -> SUBSET ObjectId]
  /\ fresh \subseteq Request
  /\ acked \subseteq VersionRow
  /\ removed \subseteq Deletion
  /\ events \subseteq Deleted

(* Concurrent registrations on a key, its deletion and the deletion of the *)
(* bucket leave a well-formed history: no number is given twice, numbers   *)
(* have no gaps, the current version is the newest one, and no row         *)
(* outlives its object or its bucket.                                      *)
VersionHistory ==
  /\ \A o \in objects : o.bucket = bucket
  /\ \A v \in versions : \E o \in objects : o.id = v.obj
  /\ \A o \in objects : \E v \in versions :
       v.obj = o.id /\ v.blob = o.cur /\ MaxNumber(v.num, o.id)
  /\ \A v, w \in versions : v.obj = w.obj /\ v.num = w.num => v = w
  /\ \A v \in versions : \A n \in 1..v.num :
       \E w \in versions : w.obj = v.obj /\ w.num = n

(* Read your writes: after CreateObjectVersion has answered, GetObjectMeta *)
(* returns one version, this one or a newer one, until the object is       *)
(* deleted.                                                                *)
AckedVisible ==
  \A a \in acked :
    \/ \E d \in removed : d.obj = a.obj
    \/ \E o \in objects, v \in versions :
         /\ o.id = a.obj /\ v.obj = a.obj /\ v.num >= a.num
         /\ GetMeta(o.key) = {v}

(* A consumer of object-deleted may delete the blob it names: the object's *)
(* deletion is committed, the blob was its current one, and no version     *)
(* that can still be read refers to it.                                    *)
EventsAreSafe ==
  \A e \in events :
    /\ \E d \in removed : d.obj = e.obj /\ e.blob \in {d.blob, None}
    /\ ~\E v \in versions : v.blob = e.blob \/ v.obj = e.obj

(* DeleteBucket checks before it deletes: a version that was reported      *)
(* before the count is never among the rows its cascade removes.           *)
CountedIsSafe ==
  \A r \in Request : pc[r] = "b_commit" =>
    \A v \in versions : v.obj \in locks[r] => v.blob \notin seen[r]

(* Whom a request waits for, by what keeps its next statement from being   *)
(* executed: who is inserting the same key or has locked a row it needs,   *)
(* and who holds the bucket row in a mode that excludes its own.           *)
WaitsFor(r, q) ==
  \/ /\ pc[r] = "v_conflict"
     /\ \/ q \in fresh /\ bid[q] = bid[r] /\ key[q] = key[r]
        \/ \E o \in objects : o.bucket = bid[r] /\ o.key = key[r] /\ q # r /\ o.id \in locks[q]
  \/ pc[r] \in {"v_lock", "o_delete"} /\ q # r /\ oid[r] \in locks[q]
  \/ pc[r] \in {"v_fk", "b_delete"} /\ bid[q] = bid[r] /\ pc[q] \in {"b_cascade", "b_commit"}
  \/ pc[r] = "b_delete" /\ q \in fresh /\ bid[q] = bid[r] /\ pc[q] # "v_fk"
  \/ /\ pc[r] = "b_cascade" /\ q # r
     /\ \E o \in objects : o.bucket = bid[r] /\ o.id \in locks[q]

(* PostgreSQL never has to break a deadlock of this service: however the   *)
(* statements of registrations and deletions interleave, there are no      *)
(* requests that all wait for one another.                                 *)
NoWaitCycle ==
  \A S \in (SUBSET Request) \ {{}} : \E r \in S : \A q \in S : ~WaitsFor(r, q)

(* Every request is answered: those it waits for end, and nobody waits for *)
(* it in turn.                                                             *)
EveryRequestEnds == \A r \in Request : pc[r] # "idle" ~> pc[r] = "idle"

-----------------------------------------------------------------------------
(* The committed rows are a version log. *)
History(k) ==
  LET rows == {v \in versions : \E o \in objects :
                 o.id = v.obj /\ o.bucket = bucket /\ o.key = k}
  IN [n \in 1..Cardinality(rows) |-> (CHOOSE v \in rows : v.num = n).blob]

Log == INSTANCE VersionLog WITH open <- IF bucket = None THEN "no" ELSE "yes",
                                log <- [k \in Key |-> History(k)]

(* Transactions take effect one at a time: each commit appends a version   *)
(* to the history of its key, or ends histories, and no other step can be  *)
(* seen by a reader.                                                       *)
ImplementsLog == Log!Spec

-----------------------------------------------------------------------------
(* metadata.proto: DeleteBucket fails with "FAILED_PRECONDITION (бакет не  *)
(* пуст)".  It never removes an object.                                    *)
NonEmptyBucketKept == ~\E d \in removed : d.by = "DeleteBucket"
=============================================================================
