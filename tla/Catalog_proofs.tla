--------------------------- MODULE Catalog_proofs ---------------------------
(***************************************************************************)
(* Proofs about Catalog, for any number of concurrent requests, keys and   *)
(* identifiers.                                                            *)
(***************************************************************************)
EXTENDS Catalog, TLAPS, FiniteSetTheorems, SequenceTheorems

(* What a request carries while it is being served. *)
RequestInv ==
  \A r \in Request :
    /\ pc[r] \in Creating =>
         key[r] \in Key /\ blob[r] \in BlobId /\ bid[r] \in BucketId /\ oid[r] \in ObjectId
    /\ pc[r] \in {"o_delete", "o_send"} => oid[r] \in ObjectId
    /\ pc[r] \in {"b_count", "b_delete", "b_cascade", "b_commit"} => bid[r] \in BucketId
    /\ pc[r] = "v_commit" => num[r] \in Nat \ {0}

TypeInv == TypeOK /\ RequestInv

LEMMA TypeInit == Init => TypeInv
  BY DEF Init, TypeInv, TypeOK, RequestInv, Label, Creating

(* A request that ends leaves typed variables behind. *)
LEMMA TypeEnd ==
  ASSUME TypeInv, NEW r \in Request, End(r), 
         bucket' \in BucketId \cup {None}, objects' \subseteq ObjectRow,
         versions' \subseteq VersionRow, UNCHANGED used, acked' \subseteq VersionRow,
         removed' \subseteq Deletion, events' \subseteq Deleted
  PROVE  TypeInv'
  BY DEF End, TypeInv, TypeOK, RequestInv, Label, Creating

LEMMA TypeNext == TypeInv /\ [Next]_vars => TypeInv'
<1> SUFFICES ASSUME TypeInv, [Next]_vars PROVE TypeInv'
  OBVIOUS
<1> USE DEF TypeInv, tables, local, history
<1>1. ASSUME NEW r \in Request, Start(r) PROVE TypeInv'
  <2> USE DEF TypeOK, RequestInv, Label, Creating, Goto
  <2>1. CASE CreateBucket(r)
    BY <2>1 DEF CreateBucket
  <2>2. CASE CreateStart(r)
    BY <2>2 DEF CreateStart
  <2>3. CASE DeleteStart(r)
    BY <2>3 DEF DeleteStart, ObjectRow, VersionRow
  <2>4. CASE DropStart(r)
    BY <2>4 DEF DropStart
  <2> QED
    BY <1>1, <2>1, <2>2, <2>3, <2>4 DEF Start
<1>2. ASSUME NEW r \in Request, Create(r) PROVE TypeInv'
  <2>1. CASE UpsertInsert(r)
    BY <2>1 DEF UpsertInsert, TypeOK, RequestInv, Label, Creating, Goto
  <2>2. CASE UpsertUpdate(r)
    BY <2>2 DEF UpsertUpdate, ObjectRow, TypeOK, RequestInv, Label, Creating, Goto
  <2>3. CASE UpsertForeignKey(r)
    <3>1. CASE bucket = bid[r]
      BY <2>3, <3>1 DEF UpsertForeignKey, TypeOK, RequestInv, Label, Creating, Goto
    <3>2. CASE bucket # bid[r]
      BY <2>3, <3>2, TypeEnd DEF UpsertForeignKey, TypeOK
    <3> QED
      BY <3>1, <3>2
  <2>4. CASE LockObject(r)
    BY <2>4 DEF LockObject, TypeOK, RequestInv, Label, Creating, Goto
  <2>5. CASE InsertVersion(r)
    <3>1. PICK n \in {0} \cup {v.num : v \in versions} : num' = [num EXCEPT ![r] = n + 1]
      BY <2>5 DEF InsertVersion
    <3>2. n \in Nat
      BY DEF VersionRow, TypeOK
    <3> QED
      BY <2>5, <3>1, <3>2 DEF InsertVersion, TypeOK, RequestInv, Label, Creating, Goto
  <2>6. CASE CreateCommit(r)
    <3>1. [obj |-> oid[r], num |-> num[r], blob |-> blob[r]] \in VersionRow
      BY <2>6 DEF CreateCommit, RequestInv, Creating, VersionRow
    <3>2. [id |-> oid[r], bucket |-> bid[r], key |-> key[r], cur |-> blob[r]] \in ObjectRow
      BY <2>6 DEF CreateCommit, RequestInv, Creating, ObjectRow
    <3> QED
      BY <2>6, <3>1, <3>2, TypeEnd DEF CreateCommit, TypeOK
  <2> QED
    BY <1>2, <2>1, <2>2, <2>3, <2>4, <2>5, <2>6 DEF Create
<1>3. ASSUME NEW r \in Request, Delete(r) PROVE TypeInv'
  <2>1. CASE DeleteRow(r)
    <3>1. PICK o \in objects :
            /\ o.id = oid[r]
            /\ objects' = objects \ {o}
            /\ versions' = {v \in versions : v.obj # o.id}
            /\ blob' = [blob EXCEPT ![r] = IF o.cur \in seen[r] THEN o.cur ELSE None]
            /\ removed' = removed \cup
                 {[obj |-> o.id, blob |-> o.cur, by |-> "DeleteObjectMeta"]}
      BY <2>1 DEF DeleteRow
    <3>2. o \in ObjectRow
      BY DEF TypeOK
    <3>3. [obj |-> o.id, blob |-> o.cur, by |-> "DeleteObjectMeta"] \in Deletion
      BY <3>2 DEF ObjectRow, Deletion
    <3>4. blob' \in [Request -> BlobId \cup {None}]
      BY <3>1, <3>2 DEF ObjectRow, TypeOK
    <3>5. removed' \subseteq Deletion
      BY <3>1, <3>3 DEF TypeOK
    <3> QED
      BY <2>1, <3>1, <3>4, <3>5 DEF DeleteRow, TypeOK, RequestInv, Label, Creating, Goto
  <2>2. CASE DeleteGone(r)
    BY <2>2, TypeEnd DEF DeleteGone, TypeOK
  <2>3. CASE DeleteSend(r)
    <3>1. [obj |-> oid[r], blob |-> blob[r]] \in Deleted
      BY <2>3 DEF DeleteSend, TypeOK, RequestInv, Deleted
    <3> QED
      BY <2>3, <3>1, TypeEnd DEF DeleteSend, TypeOK
  <2> QED
    BY <1>3, <2>1, <2>2, <2>3 DEF Delete
<1>4. ASSUME NEW r \in Request, Drop(r) PROVE TypeInv'
  <2>1. CASE DropCount(r)
    <3>1. CASE \E o \in objects : o.bucket = bid[r]
      BY <2>1, <3>1, TypeEnd DEF DropCount, TypeOK
    <3>2. CASE ~\E o \in objects : o.bucket = bid[r]
      <4>1. {v.blob : v \in acked} \subseteq BlobId
        BY DEF VersionRow, TypeOK
      <4> QED
        BY <2>1, <3>2, <4>1 DEF DropCount, TypeOK, RequestInv, Label, Creating, Goto
    <3> QED
      BY <3>1, <3>2
  <2>2. CASE DropDelete(r)
    <3>1. CASE bucket = bid[r]
      BY <2>2, <3>1 DEF DropDelete, TypeOK, RequestInv, Label, Creating, Goto
    <3>2. CASE bucket # bid[r]
      BY <2>2, <3>2, TypeEnd DEF DropDelete, TypeOK
    <3> QED
      BY <3>1, <3>2
  <2>3. CASE DropCascade(r)
    <3>1. {o.id : o \in {p \in objects : p.bucket = bid[r]}} \subseteq ObjectId
      BY DEF TypeOK, ObjectRow
    <3> QED
      BY <2>3, <3>1 DEF DropCascade, TypeOK, RequestInv, Label, Creating, Goto
  <2>4. CASE DropCommit(r)
    <3> DEFINE gone == {o \in objects : o.id \in locks[r]}
    <3>1. {[obj |-> o.id, blob |-> o.cur, by |-> "DeleteBucket"] : o \in gone} \subseteq Deletion
      BY DEF TypeOK, ObjectRow, Deletion
    <3>2. removed' \subseteq Deletion
      BY <2>4, <3>1 DEF DropCommit, TypeOK
    <3> QED
      BY <2>4, <3>2 DEF DropCommit, TypeOK, RequestInv, Label, Creating, Goto
  <2>5. CASE DropSend(r)
    BY <2>5, TypeEnd DEF DropSend, TypeOK
  <2> QED
    BY <1>4, <2>1, <2>2, <2>3, <2>4, <2>5 DEF Drop
<1>5. ASSUME NEW r \in Request, Fail(r) PROVE TypeInv'
  BY <1>5, TypeEnd DEF Fail, TypeOK
<1>6. CASE UNCHANGED vars
  BY <1>6 DEF vars, TypeOK, RequestInv
<1> QED
  BY <1>1, <1>2, <1>3, <1>4, <1>5, <1>6 DEF Next, Step

(* TypeOK is invariant: every variable of the metadata service's tables,   *)
(* transactions and events keeps its type.                                 *)
THEOREM TypeCorrect == Spec => []TypeOK
<1>1. TypeInv => TypeOK
  BY DEF TypeInv
<1> QED
  BY TypeInit, TypeNext, <1>1, PTL DEF Spec

-----------------------------------------------------------------------------
(* The proof of VersionHistory.                                            *)

Proposing(r) == pc[r] = "v_conflict" \/ r \in fresh
Holding == {"v_lock", "v_insert", "v_commit"}
Removing == {"b_cascade", "b_commit"}

(* A proposed id belongs to one request alone. *)
IdInv ==
  /\ \A o \in objects : o.id \in used
  /\ \A r \in Request : locks[r] \subseteq used
  /\ \A r \in Request : pc[r] \in Creating => oid[r] \in used
  /\ \A r \in Request : Proposing(r) =>
       /\ \A o \in objects : o.id # oid[r]
       /\ \A q \in Request \ {r} : oid[r] \notin locks[q]
       /\ \A q \in Request \ {r} : Proposing(q) => oid[q] # oid[r]

(* A row is locked by one request at a time; who registers a version has   *)
(* locked its object, which exists unless it is the request's own insert.  *)
LockInv ==
  /\ \A r \in Request : \A q \in Request \ {r} : locks[r] \cap locks[q] = {}
  /\ \A r \in Request : pc[r] = "v_fk" => r \in fresh
  /\ \A r \in fresh : pc[r] \in Holding \cup {"v_fk"}
  /\ \A r \in Request : pc[r] \in Holding \cup {"v_fk"} => oid[r] \in locks[r]
  /\ \A r \in Request \ fresh : pc[r] \in Holding =>
       \E o \in objects : o.id = oid[r] /\ o.bucket = bid[r] /\ o.key = key[r]

(* An inserted object keeps its bucket from being deleted; a DeleteBucket  *)
(* that has the bucket row is alone with it, and its cascade misses no     *)
(* object.                                                                 *)
BucketInv ==
  /\ \A r \in fresh : pc[r] \in Holding => bucket = bid[r]
  /\ \A r \in Request : pc[r] \in Removing =>
       /\ bucket = bid[r]
       /\ \A q \in fresh : bid[q] = bid[r] => pc[q] = "v_fk"
       /\ \A q \in Request \ {r} : bid[q] = bid[r] => pc[q] \notin Removing
  /\ \A r \in Request : pc[r] = "b_commit" => \A o \in objects : o.id \in locks[r]

(* The number a request has computed stays the next one until it commits. *)
NumberInv ==
  /\ \A o, p \in objects : o.id = p.id => o = p
  /\ \A r \in Request : pc[r] = "v_commit" => MaxNumber(num[r] - 1, oid[r])

HistoryInv == IdInv /\ LockInv /\ BucketInv /\ NumberInv /\ VersionHistory

LEMMA HistoryInit == Init => HistoryInv
  BY DEF Init, HistoryInv, IdInv, LockInv, BucketInv, NumberInv, VersionHistory,
         Proposing, Holding, Removing, Creating

(* A request that ends without a commit disturbs nothing. *)
LEMMA HistoryEnd ==
  ASSUME TypeInv, HistoryInv, NEW r \in Request, End(r), UNCHANGED <<tables, used>>
  PROVE  HistoryInv'
<1> USE DEF HistoryInv, End, TypeInv, TypeOK, tables, Proposing, Holding, Removing, Creating
<1>1. IdInv'
  BY DEF IdInv
<1>2. LockInv'
  BY DEF LockInv
<1>3. BucketInv'
  BY DEF BucketInv
<1>4. NumberInv'
  BY DEF NumberInv, MaxNumber
<1>5. VersionHistory'
  BY DEF VersionHistory, MaxNumber
<1> QED
  BY <1>1, <1>2, <1>3, <1>4, <1>5

LEMMA HistoryNext == TypeInv /\ HistoryInv /\ [Next]_vars => HistoryInv'
<1> SUFFICES ASSUME TypeInv, HistoryInv, [Next]_vars PROVE HistoryInv'
  OBVIOUS
<1> USE DEF TypeInv, TypeOK, RequestInv, HistoryInv, tables, local, history, Goto,
            Creating, Proposing, Holding, Removing, MaxNumber
<1>1. ASSUME NEW r \in Request, Start(r) PROVE HistoryInv'
  <2>1. CASE CreateBucket(r)
    <3>1. objects = {}
      BY <2>1, NoneAssumption DEF CreateBucket, VersionHistory, ObjectRow
    <3>2. versions = {}
      BY <3>1 DEF VersionHistory
    <3>3. IdInv'
      BY <2>1 DEF CreateBucket, IdInv
    <3>4. LockInv'
      BY <2>1 DEF CreateBucket, LockInv
    <3>5. BucketInv'
      BY <2>1, NoneAssumption DEF CreateBucket, BucketInv, LockInv
    <3>6. NumberInv' /\ VersionHistory'
      BY <2>1, <3>1, <3>2 DEF CreateBucket, NumberInv, VersionHistory
    <3> QED
      BY <3>3, <3>4, <3>5, <3>6
  <2>2. CASE CreateStart(r)
    <3>1. IdInv'
      BY <2>2 DEF CreateStart, IdInv, LockInv
    <3>2. LockInv'
      BY <2>2 DEF CreateStart, LockInv, IdInv
    <3>3. BucketInv'
      BY <2>2 DEF CreateStart, BucketInv, LockInv
    <3>4. NumberInv'
      BY <2>2 DEF CreateStart, NumberInv, LockInv, IdInv
    <3>5. VersionHistory'
      BY <2>2 DEF CreateStart, VersionHistory
    <3> QED
      BY <3>1, <3>2, <3>3, <3>4, <3>5
  <2>3. CASE DeleteStart(r)
    <3>1. IdInv'
      BY <2>3 DEF DeleteStart, IdInv, LockInv
    <3>2. LockInv'
      BY <2>3 DEF DeleteStart, LockInv, IdInv
    <3>3. BucketInv'
      BY <2>3 DEF DeleteStart, BucketInv, LockInv
    <3>4. NumberInv'
      BY <2>3 DEF DeleteStart, NumberInv, LockInv, IdInv
    <3>5. VersionHistory'
      BY <2>3 DEF DeleteStart, VersionHistory
    <3> QED
      BY <3>1, <3>2, <3>3, <3>4, <3>5
  <2>4. CASE DropStart(r)
    <3>1. IdInv'
      BY <2>4 DEF DropStart, IdInv, LockInv
    <3>2. LockInv'
      BY <2>4 DEF DropStart, LockInv, IdInv
    <3>3. BucketInv'
      BY <2>4 DEF DropStart, BucketInv, LockInv
    <3>4. NumberInv'
      BY <2>4 DEF DropStart, NumberInv, LockInv, IdInv
    <3>5. VersionHistory'
      BY <2>4 DEF DropStart, VersionHistory
    <3> QED
      BY <3>1, <3>2, <3>3, <3>4, <3>5
  <2> QED
    BY <1>1, <2>1, <2>2, <2>3, <2>4 DEF Start
<1>2. ASSUME NEW r \in Request, Create(r) PROVE HistoryInv'
  <2>1. CASE UpsertInsert(r)
    <3>1. IdInv'
      BY <2>1 DEF UpsertInsert, IdInv, LockInv
    <3>2. LockInv'
      BY <2>1 DEF UpsertInsert, LockInv, IdInv
    <3>3. BucketInv'
      BY <2>1 DEF UpsertInsert, BucketInv, LockInv
    <3>4. NumberInv'
      BY <2>1 DEF UpsertInsert, NumberInv, LockInv, IdInv
    <3>5. VersionHistory'
      BY <2>1 DEF UpsertInsert, VersionHistory
    <3> QED
      BY <3>1, <3>2, <3>3, <3>4, <3>5
  <2>2. CASE UpsertUpdate(r)
    <3>1. IdInv'
      BY <2>2 DEF UpsertUpdate, IdInv, LockInv, Free
    <3>2. LockInv'
      BY <2>2 DEF UpsertUpdate, LockInv, IdInv, Free
    <3>3. BucketInv'
      BY <2>2 DEF UpsertUpdate, BucketInv, LockInv, Free
    <3>4. NumberInv'
      BY <2>2 DEF UpsertUpdate, NumberInv, LockInv, IdInv, Free
    <3>5. VersionHistory'
      BY <2>2 DEF UpsertUpdate, VersionHistory, Free
    <3> QED
      BY <3>1, <3>2, <3>3, <3>4, <3>5
  <2>3. CASE UpsertForeignKey(r)
    <3>1. CASE bucket # bid[r]
      BY <2>3, <3>1, HistoryEnd DEF UpsertForeignKey
    <3>2. CASE bucket = bid[r]
      <4>1. IdInv'
        BY <2>3, <3>2 DEF UpsertForeignKey, IdInv, LockInv, Dropping
      <4>2. LockInv'
        BY <2>3, <3>2 DEF UpsertForeignKey, LockInv, IdInv, Dropping
      <4>3. BucketInv'
        BY <2>3, <3>2 DEF UpsertForeignKey, BucketInv, LockInv, Dropping
      <4>4. NumberInv'
        BY <2>3, <3>2 DEF UpsertForeignKey, NumberInv, LockInv, IdInv, Dropping
      <4>5. VersionHistory'
        BY <2>3, <3>2 DEF UpsertForeignKey, VersionHistory, Dropping
      <4> QED
        BY <4>1, <4>2, <4>3, <4>4, <4>5
    <3> QED
      BY <3>1, <3>2
  <2>4. CASE LockObject(r)
    <3>1. IdInv'
      BY <2>4 DEF LockObject, IdInv, LockInv
    <3>2. LockInv'
      BY <2>4 DEF LockObject, LockInv, IdInv
    <3>3. BucketInv'
      BY <2>4 DEF LockObject, BucketInv, LockInv
    <3>4. NumberInv'
      BY <2>4 DEF LockObject, NumberInv, LockInv, IdInv
    <3>5. VersionHistory'
      BY <2>4 DEF LockObject, VersionHistory
    <3> QED
      BY <3>1, <3>2, <3>3, <3>4, <3>5
  <2>5. CASE InsertVersion(r)
    <3> PICK n \in {0} \cup {v.num : v \in versions} :
           MaxNumber(n, oid[r]) /\ num' = [num EXCEPT ![r] = n + 1]
      BY <2>5 DEF InsertVersion
    <3> n \in Nat
      BY DEF VersionRow
    <3>1. IdInv'
      BY <2>5 DEF InsertVersion, IdInv, LockInv
    <3>2. LockInv'
      BY <2>5 DEF InsertVersion, LockInv, IdInv
    <3>3. BucketInv'
      BY <2>5 DEF InsertVersion, BucketInv, LockInv
    <3>4. NumberInv'
      BY <2>5 DEF InsertVersion, NumberInv, LockInv, IdInv
    <3>5. VersionHistory'
      BY <2>5 DEF InsertVersion, VersionHistory
    <3> QED
      BY <3>1, <3>2, <3>3, <3>4, <3>5
  <2>6. CASE CreateCommit(r)
    <3> DEFINE row == [obj |-> oid[r], num |-> num[r], blob |-> blob[r]]
               new == [id |-> oid[r], bucket |-> bid[r], key |-> key[r], cur |-> blob[r]]
    <3>1. /\ objects' = {o \in objects : o.id # oid[r]} \cup {new}
          /\ versions' = versions \cup {row}
          /\ bucket' = bucket /\ used' = used /\ pc[r] = "v_commit"
      BY <2>6 DEF CreateCommit
    <3>2. bid[r] = bucket
      BY <3>1 DEF LockInv, BucketInv, VersionHistory
    <3>3. MaxNumber(num[r] - 1, oid[r]) /\ num[r] \in Nat \ {0}
      BY <3>1 DEF NumberInv
    <3>4. IdInv'
      BY <2>6, <3>1 DEF CreateCommit, End, IdInv, LockInv
    <3>5. LockInv'
      BY <2>6, <3>1 DEF CreateCommit, End, LockInv
    <3>6. BucketInv'
      BY <2>6, <3>1 DEF CreateCommit, End, BucketInv, LockInv
    <3>7. NumberInv'
      BY <2>6, <3>1 DEF CreateCommit, End, NumberInv, LockInv
    <3>8. VersionHistory'
      <4>1. /\ row \in versions' /\ row.obj = oid[r] /\ row.num = num[r] /\ row.blob = blob[r]
            /\ new \in objects' /\ new.id = oid[r] /\ new.bucket = bid[r] /\ new.cur = blob[r]
        BY <3>1
      <4>2. \A v \in versions : v.num \in Nat \ {0} /\ (v.obj = oid[r] => v.num < num[r])
        BY <3>3 DEF VersionRow
      <4> HIDE DEF row, new
      <4>3. \A o \in objects' : o.bucket = bucket'
        BY <3>1, <3>2, <4>1 DEF VersionHistory
      <4>4. \A v \in versions' : \E o \in objects' : o.id = v.obj
        BY <3>1, <4>1 DEF VersionHistory
      <4>5. \A o \in objects' : \E v \in versions' :
              v.obj = o.id /\ v.blob = o.cur /\ MaxNumber(v.num, o.id)'
        <5>1. \A n, o : n = num[r] /\ o = oid[r] => MaxNumber(n, o)'
          BY <3>1, <3>3, <4>1, <4>2
        <5>2. ASSUME NEW o \in objects, o.id # oid[r], NEW n, MaxNumber(n, o.id)
              PROVE  MaxNumber(n, o.id)'
          BY <3>1, <4>1, <5>2
        <5> HIDE DEF MaxNumber
        <5>3. ASSUME NEW o \in objects, o.id # oid[r]
              PROVE  \E v \in versions' :
                       v.obj = o.id /\ v.blob = o.cur /\ MaxNumber(v.num, o.id)'
          BY <3>1, <5>2, <5>3 DEF VersionHistory
        <5> QED
          BY <3>1, <4>1, <5>1, <5>3
      <4>6. \A v, w \in versions' : v.obj = w.obj /\ v.num = w.num => v = w
        BY <3>1, <4>1, <4>2 DEF VersionHistory
      <4>7. ASSUME NEW v \in versions', NEW n \in 1..v.num
            PROVE  \E w \in versions' : w.obj = v.obj /\ w.num = n
        <5>1. CASE v \in versions
          BY <3>1, <5>1 DEF VersionHistory
        <5>2. CASE v = row /\ n = num[r]
          BY <4>1, <5>2
        <5>3. CASE v = row /\ n # num[r]
          <6>1. n <= num[r] - 1 /\ num[r] - 1 # 0 /\ n \in Nat \ {0}
            BY <3>3, <4>1, <5>3
          <6>2. PICK w \in versions : w.obj = oid[r] /\ w.num = num[r] - 1
            BY <3>3, <6>1
          <6>3. n \in 1..w.num
            BY <3>3, <6>1, <6>2
          <6> QED
            BY <3>1, <4>1, <5>3, <6>2, <6>3 DEF VersionHistory
        <5> QED
          BY <3>1, <5>1, <5>2, <5>3
      <4> QED
        BY <4>3, <4>4, <4>5, <4>6, <4>7 DEF VersionHistory
    <3> QED
      BY <3>4, <3>5, <3>6, <3>7, <3>8
  <2> QED
    BY <1>2, <2>1, <2>2, <2>3, <2>4, <2>5, <2>6 DEF Create
<1>3. ASSUME NEW r \in Request, Delete(r) PROVE HistoryInv'
  <2>1. CASE DeleteRow(r)
    <3> PICK o \in objects :
           /\ o.id = oid[r]
           /\ objects' = objects \ {o}
           /\ versions' = {v \in versions : v.obj # o.id}
      BY <2>1 DEF DeleteRow
    <3>1. IdInv'
      BY <2>1 DEF DeleteRow, IdInv, LockInv, Free
    <3>2. LockInv'
      BY <2>1 DEF DeleteRow, LockInv, IdInv, Free
    <3>3. BucketInv'
      BY <2>1 DEF DeleteRow, BucketInv, LockInv, Free
    <3>4. NumberInv'
      BY <2>1 DEF DeleteRow, NumberInv, LockInv, IdInv, Free
    <3>5. VersionHistory'
      <4>1. \A p \in objects' : p \in objects /\ p.id # o.id
        BY DEF NumberInv
      <4>2. \A p \in objects' : \E v \in versions' :
              v.obj = p.id /\ v.blob = p.cur /\ MaxNumber(v.num, p.id)'
        BY <4>1 DEF VersionHistory
      <4>3. ASSUME NEW v \in versions', NEW n \in 1..v.num
            PROVE  \E w \in versions' : w.obj = v.obj /\ w.num = n
        <5>1. PICK w \in versions : w.obj = v.obj /\ w.num = n
          BY DEF VersionHistory
        <5> QED
          BY <5>1
      <4>4. /\ \A p \in objects' : p.bucket = bucket'
            /\ \A v \in versions' : \E p \in objects' : p.id = v.obj
            /\ \A v, w \in versions' : v.obj = w.obj /\ v.num = w.num => v = w
        BY <2>1, <4>1 DEF DeleteRow, VersionHistory
      <4> HIDE DEF MaxNumber
      <4> QED
        BY <4>2, <4>3, <4>4 DEF VersionHistory
    <3> QED
      BY <3>1, <3>2, <3>3, <3>4, <3>5
  <2>2. CASE DeleteGone(r)
    BY <2>2, HistoryEnd DEF DeleteGone
  <2>3. CASE DeleteSend(r)
    BY <2>3, HistoryEnd DEF DeleteSend
  <2> QED
    BY <1>3, <2>1, <2>2, <2>3 DEF Delete
<1>4. ASSUME NEW r \in Request, Drop(r) PROVE HistoryInv'
  <2>1. CASE DropCount(r)
    <3>1. CASE \E o \in objects : o.bucket = bid[r]
      BY <2>1, <3>1, HistoryEnd DEF DropCount
    <3>2. CASE ~\E o \in objects : o.bucket = bid[r]
      <4>1. IdInv'
        BY <2>1, <3>2 DEF DropCount, IdInv, LockInv
      <4>2. LockInv'
        BY <2>1, <3>2 DEF DropCount, LockInv, IdInv
      <4>3. BucketInv'
        BY <2>1, <3>2 DEF DropCount, BucketInv, LockInv
      <4>4. NumberInv'
        BY <2>1, <3>2 DEF DropCount, NumberInv, LockInv, IdInv
      <4>5. VersionHistory'
        BY <2>1, <3>2 DEF DropCount, VersionHistory
      <4> QED
        BY <4>1, <4>2, <4>3, <4>4, <4>5
    <3> QED
      BY <3>1, <3>2
  <2>2. CASE DropDelete(r)
    <3>1. CASE bucket # bid[r]
      BY <2>2, <3>1, HistoryEnd DEF DropDelete
    <3>2. CASE bucket = bid[r]
      <4>1. IdInv'
        BY <2>2, <3>2 DEF DropDelete, IdInv, LockInv, KeyShared, Dropping
      <4>2. LockInv'
        BY <2>2, <3>2 DEF DropDelete, LockInv, IdInv, KeyShared, Dropping
      <4>3. BucketInv'
        BY <2>2, <3>2 DEF DropDelete, BucketInv, LockInv, KeyShared, Dropping
      <4>4. NumberInv'
        BY <2>2, <3>2 DEF DropDelete, NumberInv, LockInv, IdInv, KeyShared, Dropping
      <4>5. VersionHistory'
        BY <2>2, <3>2 DEF DropDelete, VersionHistory, KeyShared, Dropping
      <4> QED
        BY <4>1, <4>2, <4>3, <4>4, <4>5
    <3> QED
      BY <3>1, <3>2
  <2>3. CASE DropCascade(r)
    <3>1. IdInv'
      BY <2>3 DEF DropCascade, IdInv, LockInv, Free
    <3>2. LockInv'
      BY <2>3 DEF DropCascade, LockInv, IdInv, Free
    <3>3. BucketInv'
      BY <2>3 DEF DropCascade, BucketInv, LockInv, VersionHistory, Free
    <3>4. NumberInv'
      BY <2>3 DEF DropCascade, NumberInv, LockInv, IdInv, Free
    <3>5. VersionHistory'
      BY <2>3 DEF DropCascade, VersionHistory, Free
    <3> QED
      BY <3>1, <3>2, <3>3, <3>4, <3>5
  <2>4. CASE DropCommit(r)
    <3>1. IdInv'
      BY <2>4 DEF DropCommit, IdInv, LockInv
    <3>2. LockInv'
      BY <2>4 DEF DropCommit, LockInv, IdInv
    <3>3. BucketInv'
      BY <2>4 DEF DropCommit, BucketInv, LockInv
    <3>4. NumberInv'
      BY <2>4 DEF DropCommit, NumberInv, LockInv
    <3>5. VersionHistory'
      <4>1. objects' = {}
        BY <2>4 DEF DropCommit, BucketInv
      <4>2. versions' = {}
        BY <2>4 DEF DropCommit, BucketInv, VersionHistory
      <4> QED
        BY <4>1, <4>2 DEF VersionHistory
    <3> QED
      BY <3>1, <3>2, <3>3, <3>4, <3>5
  <2>5. CASE DropSend(r)
    BY <2>5, HistoryEnd DEF DropSend
  <2> QED
    BY <1>4, <2>1, <2>2, <2>3, <2>4, <2>5 DEF Drop
<1>5. ASSUME NEW r \in Request, Fail(r) PROVE HistoryInv'
  BY <1>5, HistoryEnd DEF Fail
<1>6. CASE UNCHANGED vars
  BY <1>6 DEF vars, IdInv, LockInv, BucketInv, NumberInv, VersionHistory
<1> QED
  BY <1>1, <1>2, <1>3, <1>4, <1>5, <1>6 DEF Next, Step

(* VersionHistory is invariant: however registrations, deletions and       *)
(* bucket deletions interleave, version numbers are unique and without     *)
(* gaps, the current version is the newest, and no row is left dangling.   *)
THEOREM HistoriesAreWellFormed == Spec => []VersionHistory
<1>1. HistoryInv => VersionHistory
  BY DEF HistoryInv
<1> QED
  BY TypeInit, TypeNext, HistoryInit, HistoryNext, <1>1, PTL DEF Spec

-----------------------------------------------------------------------------
(* The proof of AckedVisible and EventsAreSafe.                            *)

(* One object per key: an uncommitted insert has its key for itself. *)
KeyInv ==
  /\ \A o, p \in objects : o.key = p.key => o = p
  /\ \A r \in fresh : \A o \in objects : o.bucket = bid[r] => o.key # key[r]
  /\ \A r, q \in fresh : q # r /\ bid[q] = bid[r] => key[q] # key[r]

(* A blob is registered once, and what was removed never comes back. *)
BlobInv ==
  /\ \A v, w \in versions : v.blob = w.blob => v = w
  /\ \A v \in versions : v.blob \in used
  /\ \A r \in Request : pc[r] \in Creating =>
       /\ blob[r] \in used
       /\ \A v \in versions : v.blob # blob[r]
       /\ \A q \in Request \ {r} : pc[q] \in Creating => blob[q] # blob[r]

RemovedInv ==
  \A d \in removed :
    /\ d.obj \in used /\ d.blob \in used
    /\ \A v \in versions : v.blob # d.blob
    /\ \A o \in objects : o.id # d.obj
    /\ \A r \in Request : pc[r] \in Creating => blob[r] # d.blob
    /\ \A r \in Request : Proposing(r) => oid[r] # d.obj

(* A reported version is there until its object is removed. *)
AckInv == \A a \in acked : a \in versions \/ \E d \in removed : d.obj = a.obj

(* An event is about a removed object, and so is one yet to be sent. *)
Announced(id, b) == \E d \in removed : d.obj = id /\ b \in {d.blob, None}

EventInv ==
  /\ \A e \in events : Announced(e.obj, e.blob)
  /\ \A r \in Request : pc[r] = "o_send" => Announced(oid[r], blob[r])

EffectInv == KeyInv /\ BlobInv /\ RemovedInv /\ AckInv /\ EventInv

LEMMA EffectInit == Init => EffectInv
  BY DEF Init, EffectInv, KeyInv, BlobInv, RemovedInv, AckInv, EventInv, Creating

LEMMA EffectEnd ==
  ASSUME TypeInv, EffectInv, NEW r \in Request, End(r), UNCHANGED <<tables, used, history>>
  PROVE  EffectInv'
<1> USE DEF EffectInv, End, TypeInv, TypeOK, tables, history, Proposing, Creating
<1>1. KeyInv'
  BY DEF KeyInv
<1>2. BlobInv'
  BY DEF BlobInv
<1>3. RemovedInv'
  BY DEF RemovedInv
<1>4. AckInv'
  BY DEF AckInv
<1>5. EventInv'
  BY DEF EventInv, Announced
<1> QED
  BY <1>1, <1>2, <1>3, <1>4, <1>5

LEMMA EffectNext == TypeInv /\ HistoryInv /\ EffectInv /\ [Next]_vars => EffectInv'
<1> SUFFICES ASSUME TypeInv, HistoryInv, EffectInv, [Next]_vars PROVE EffectInv'
  OBVIOUS
<1> USE DEF TypeInv, TypeOK, RequestInv, HistoryInv, EffectInv, tables, local, history, Goto,
            Creating, Proposing, Holding, Removing, Announced
<1>1. ASSUME NEW r \in Request, Start(r) PROVE EffectInv'
  <2>1. CASE CreateBucket(r)
    <3>1. objects = {}
      BY <2>1, NoneAssumption DEF CreateBucket, VersionHistory, ObjectRow
    <3>2. KeyInv'
      BY <2>1, <3>1 DEF CreateBucket, KeyInv
    <3>3. BlobInv' /\ RemovedInv' /\ AckInv' /\ EventInv'
      BY <2>1 DEF CreateBucket, BlobInv, RemovedInv, AckInv, EventInv
    <3> QED
      BY <3>2, <3>3
  <2>2. CASE CreateStart(r)
    <3>1. KeyInv'
      BY <2>2 DEF CreateStart, KeyInv, LockInv
    <3>2. BlobInv'
      BY <2>2 DEF CreateStart, BlobInv
    <3>3. RemovedInv'
      BY <2>2 DEF CreateStart, RemovedInv, IdInv
    <3>4. AckInv'
      BY <2>2 DEF CreateStart, AckInv
    <3>5. EventInv'
      BY <2>2 DEF CreateStart, EventInv
    <3> QED
      BY <3>1, <3>2, <3>3, <3>4, <3>5
  <2>3. CASE DeleteStart(r)
    <3>1. KeyInv'
      BY <2>3 DEF DeleteStart, KeyInv, LockInv
    <3>2. BlobInv'
      BY <2>3 DEF DeleteStart, BlobInv
    <3>3. RemovedInv'
      BY <2>3 DEF DeleteStart, RemovedInv, IdInv
    <3>4. AckInv'
      BY <2>3 DEF DeleteStart, AckInv
    <3>5. EventInv'
      BY <2>3 DEF DeleteStart, EventInv
    <3> QED
      BY <3>1, <3>2, <3>3, <3>4, <3>5
  <2>4. CASE DropStart(r)
    <3>1. KeyInv'
      BY <2>4 DEF DropStart, KeyInv, LockInv
    <3>2. BlobInv'
      BY <2>4 DEF DropStart, BlobInv
    <3>3. RemovedInv'
      BY <2>4 DEF DropStart, RemovedInv, IdInv
    <3>4. AckInv'
      BY <2>4 DEF DropStart, AckInv
    <3>5. EventInv'
      BY <2>4 DEF DropStart, EventInv
    <3> QED
      BY <3>1, <3>2, <3>3, <3>4, <3>5
  <2> QED
    BY <1>1, <2>1, <2>2, <2>3, <2>4 DEF Start
<1>2. ASSUME NEW r \in Request, Create(r) PROVE EffectInv'
  <2>1. CASE UpsertInsert(r)
    <3>1. KeyInv'
      BY <2>1 DEF UpsertInsert, KeyInv, LockInv
    <3>2. BlobInv'
      BY <2>1 DEF UpsertInsert, BlobInv
    <3>3. RemovedInv'
      BY <2>1 DEF UpsertInsert, RemovedInv, IdInv
    <3>4. AckInv'
      BY <2>1 DEF UpsertInsert, AckInv
    <3>5. EventInv'
      BY <2>1 DEF UpsertInsert, EventInv
    <3> QED
      BY <3>1, <3>2, <3>3, <3>4, <3>5
  <2>2. CASE UpsertUpdate(r)
    <3>1. KeyInv'
      BY <2>2 DEF UpsertUpdate, KeyInv, LockInv
    <3>2. BlobInv'
      BY <2>2 DEF UpsertUpdate, BlobInv
    <3>3. RemovedInv'
      BY <2>2 DEF UpsertUpdate, RemovedInv, IdInv
    <3>4. AckInv'
      BY <2>2 DEF UpsertUpdate, AckInv
    <3>5. EventInv'
      BY <2>2 DEF UpsertUpdate, EventInv
    <3> QED
      BY <3>1, <3>2, <3>3, <3>4, <3>5
  <2>3. CASE UpsertForeignKey(r)
    <3>1. CASE bucket # bid[r]
      BY <2>3, <3>1, EffectEnd DEF UpsertForeignKey
    <3>2. CASE bucket = bid[r]
      <4>1. KeyInv'
        BY <2>3, <3>2 DEF UpsertForeignKey, KeyInv, LockInv
      <4>2. BlobInv'
        BY <2>3, <3>2 DEF UpsertForeignKey, BlobInv
      <4>3. RemovedInv'
        BY <2>3, <3>2 DEF UpsertForeignKey, RemovedInv, IdInv
      <4>4. AckInv'
        BY <2>3, <3>2 DEF UpsertForeignKey, AckInv
      <4>5. EventInv'
        BY <2>3, <3>2 DEF UpsertForeignKey, EventInv
      <4> QED
        BY <4>1, <4>2, <4>3, <4>4, <4>5
    <3> QED
      BY <3>1, <3>2
  <2>4. CASE LockObject(r)
    <3>1. KeyInv'
      BY <2>4 DEF LockObject, KeyInv, LockInv
    <3>2. BlobInv'
      BY <2>4 DEF LockObject, BlobInv
    <3>3. RemovedInv'
      BY <2>4 DEF LockObject, RemovedInv, IdInv
    <3>4. AckInv'
      BY <2>4 DEF LockObject, AckInv
    <3>5. EventInv'
      BY <2>4 DEF LockObject, EventInv
    <3> QED
      BY <3>1, <3>2, <3>3, <3>4, <3>5
  <2>5. CASE InsertVersion(r)
    <3>1. KeyInv'
      BY <2>5 DEF InsertVersion, KeyInv, LockInv
    <3>2. BlobInv'
      BY <2>5 DEF InsertVersion, BlobInv
    <3>3. RemovedInv'
      BY <2>5 DEF InsertVersion, RemovedInv, IdInv
    <3>4. AckInv'
      BY <2>5 DEF InsertVersion, AckInv
    <3>5. EventInv'
      BY <2>5 DEF InsertVersion, EventInv
    <3> QED
      BY <3>1, <3>2, <3>3, <3>4, <3>5
  <2>6. CASE CreateCommit(r)
    <3> DEFINE row == [obj |-> oid[r], num |-> num[r], blob |-> blob[r]]
               new == [id |-> oid[r], bucket |-> bid[r], key |-> key[r], cur |-> blob[r]]
    <3>1. /\ objects' = {o \in objects : o.id # oid[r]} \cup {new}
          /\ versions' = versions \cup {row}
          /\ acked' \in {acked, acked \cup {row}}
          /\ End(r) /\ pc[r] = "v_commit"
          /\ UNCHANGED <<bucket, used, removed, events>>
      BY <2>6 DEF CreateCommit
    <3>2. /\ row.obj = oid[r] /\ row.num = num[r] /\ row.blob = blob[r]
          /\ new.id = oid[r] /\ new.bucket = bid[r] /\ new.key = key[r]
      OBVIOUS
    <3>3. bid[r] = bucket
      BY <3>1 DEF LockInv, BucketInv, VersionHistory
    <3> HIDE DEF row, new
    <3>4. KeyInv'
      <4>1. \A o \in objects : o.id # oid[r] => o.key # key[r]
        <5>1. CASE r \in fresh
          BY <5>1, <3>3 DEF KeyInv, VersionHistory
        <5>2. CASE r \notin fresh
          BY <5>2, <3>1, <3>3 DEF KeyInv, LockInv
        <5> QED
          BY <5>1, <5>2
      <4>2. \A q \in fresh \ {r} : bid[q] = bid[r] => key[q] # key[r]
        <5>1. CASE r \in fresh
          BY <5>1 DEF KeyInv
        <5>2. CASE r \notin fresh
          BY <5>2, <3>1, <3>3 DEF KeyInv, LockInv
        <5> QED
          BY <5>1, <5>2
      <4>3. \A o, p \in objects' : o.key = p.key => o = p
        BY <4>1, <3>1, <3>2 DEF KeyInv
      <4>4. /\ fresh' = fresh \ {r}
            /\ \A q \in fresh' : bid'[q] = bid[q] /\ key'[q] = key[q]
        BY <3>1 DEF End
      <4>5. \A q \in fresh' : \A o \in objects' : o.bucket = bid'[q] => o.key # key'[q]
        BY <4>2, <4>4, <3>1, <3>2 DEF KeyInv
      <4>6. \A p, q \in fresh' : q # p /\ bid'[q] = bid'[p] => key'[q] # key'[p]
        BY <4>4 DEF KeyInv
      <4> QED
        BY <4>3, <4>5, <4>6 DEF KeyInv
    <3>5. BlobInv'
      BY <3>1, <3>2 DEF End, BlobInv
    <3>6. RemovedInv'
      BY <3>1, <3>2 DEF End, RemovedInv, LockInv
    <3>7. AckInv'
      BY <3>1 DEF AckInv
    <3>8. EventInv'
      BY <3>1 DEF End, EventInv
    <3> QED
      BY <3>4, <3>5, <3>6, <3>7, <3>8
  <2> QED
    BY <1>2, <2>1, <2>2, <2>3, <2>4, <2>5, <2>6 DEF Create
<1>3. ASSUME NEW r \in Request, Delete(r) PROVE EffectInv'
  <2>1. CASE DeleteRow(r)
    <3>1. PICK o \in objects :
           /\ o.id = oid[r]
           /\ objects' = objects \ {o}
           /\ versions' = {v \in versions : v.obj # o.id}
           /\ blob' = [blob EXCEPT ![r] = IF o.cur \in seen[r] THEN o.cur ELSE None]
           /\ removed' = removed \cup
                {[obj |-> o.id, blob |-> o.cur, by |-> "DeleteObjectMeta"]}
      BY <2>1 DEF DeleteRow
    <3>2. /\ pc[r] = "o_delete" /\ pc' = [pc EXCEPT ![r] = "o_send"]
          /\ UNCHANGED <<bucket, used, key, bid, oid, fresh, acked, events>>
      BY <2>1 DEF DeleteRow
    <3>3. PICK d \in removed' : d.obj = o.id /\ d.blob = o.cur /\ removed' = removed \cup {d}
      BY <3>1
    <3>4. PICK v \in versions : v.obj = o.id /\ v.blob = o.cur
      BY DEF VersionHistory
    <3>5. KeyInv'
      BY <3>1, <3>2 DEF KeyInv
    <3>6. BlobInv'
      BY <3>1, <3>2 DEF BlobInv
    <3>7. RemovedInv'
      BY <3>1, <3>2, <3>3, <3>4 DEF RemovedInv, BlobInv, IdInv, NumberInv
    <3>8. AckInv'
      BY <3>1, <3>2, <3>3 DEF AckInv
    <3>9. EventInv'
      BY <3>1, <3>2, <3>3 DEF EventInv
    <3> QED
      BY <3>5, <3>6, <3>7, <3>8, <3>9
  <2>2. CASE DeleteGone(r)
    BY <2>2, EffectEnd DEF DeleteGone
  <2>3. CASE DeleteSend(r)
    <3>1. KeyInv' /\ AckInv'
      BY <2>3 DEF DeleteSend, End, KeyInv, AckInv, LockInv
    <3>2. BlobInv'
      BY <2>3 DEF DeleteSend, End, BlobInv
    <3>3. RemovedInv'
      BY <2>3 DEF DeleteSend, End, RemovedInv
    <3>4. EventInv'
      BY <2>3 DEF DeleteSend, End, EventInv
    <3> QED
      BY <3>1, <3>2, <3>3, <3>4
  <2> QED
    BY <1>3, <2>1, <2>2, <2>3 DEF Delete
<1>4. ASSUME NEW r \in Request, Drop(r) PROVE EffectInv'
  <2>1. CASE DropCount(r)
    <3>1. CASE \E o \in objects : o.bucket = bid[r]
      BY <2>1, <3>1, EffectEnd DEF DropCount
    <3>2. CASE ~\E o \in objects : o.bucket = bid[r]
      <4>1. KeyInv'
        BY <2>1, <3>2 DEF DropCount, KeyInv, LockInv
      <4>2. BlobInv'
        BY <2>1, <3>2 DEF DropCount, BlobInv
      <4>3. RemovedInv'
        BY <2>1, <3>2 DEF DropCount, RemovedInv, IdInv
      <4>4. AckInv'
        BY <2>1, <3>2 DEF DropCount, AckInv
      <4>5. EventInv'
        BY <2>1, <3>2 DEF DropCount, EventInv
      <4> QED
        BY <4>1, <4>2, <4>3, <4>4, <4>5
    <3> QED
      BY <3>1, <3>2
  <2>2. CASE DropDelete(r)
    <3>1. CASE bucket # bid[r]
      BY <2>2, <3>1, EffectEnd DEF DropDelete
    <3>2. CASE bucket = bid[r]
      <4>1. KeyInv'
        BY <2>2, <3>2 DEF DropDelete, KeyInv, LockInv
      <4>2. BlobInv'
        BY <2>2, <3>2 DEF DropDelete, BlobInv
      <4>3. RemovedInv'
        BY <2>2, <3>2 DEF DropDelete, RemovedInv, IdInv
      <4>4. AckInv'
        BY <2>2, <3>2 DEF DropDelete, AckInv
      <4>5. EventInv'
        BY <2>2, <3>2 DEF DropDelete, EventInv
      <4> QED
        BY <4>1, <4>2, <4>3, <4>4, <4>5
    <3> QED
      BY <3>1, <3>2
  <2>3. CASE DropCascade(r)
    <3>1. KeyInv'
      BY <2>3 DEF DropCascade, KeyInv, LockInv
    <3>2. BlobInv'
      BY <2>3 DEF DropCascade, BlobInv
    <3>3. RemovedInv'
      BY <2>3 DEF DropCascade, RemovedInv, IdInv
    <3>4. AckInv'
      BY <2>3 DEF DropCascade, AckInv
    <3>5. EventInv'
      BY <2>3 DEF DropCascade, EventInv
    <3> QED
      BY <3>1, <3>2, <3>3, <3>4, <3>5
  <2>4. CASE DropCommit(r)
    <3>1. objects' = {} /\ versions' = {}
      BY <2>4 DEF DropCommit, BucketInv, VersionHistory
    <3>2. /\ pc[r] = "b_commit" /\ pc' = [pc EXCEPT ![r] = "b_send"]
          /\ UNCHANGED <<used, local, fresh, acked, events>>
          /\ removed \subseteq removed'
      BY <2>4 DEF DropCommit
    <3>3. ASSUME NEW o \in objects PROVE \E d \in removed' : d.obj = o.id
      <4> DEFINE d == [obj |-> o.id, blob |-> o.cur, by |-> "DeleteBucket"]
      <4>1. o.id \in locks[r]
        BY <3>2 DEF BucketInv, VersionHistory
      <4>2. d \in removed'
        BY <2>4, <4>1 DEF DropCommit
      <4>3. d.obj = o.id
        OBVIOUS
      <4> QED
        BY <4>2, <4>3
    <3>4. \A d \in removed' : d \in removed \/ \E o \in objects : d.obj = o.id /\ d.blob = o.cur
      BY <2>4 DEF DropCommit
    <3>5. KeyInv' /\ BlobInv'
      BY <3>1, <3>2 DEF KeyInv, BlobInv
    <3>6. RemovedInv'
      BY <3>1, <3>2, <3>4 DEF RemovedInv, VersionHistory, BlobInv, IdInv
    <3>7. AckInv'
      BY <3>2, <3>3 DEF AckInv, VersionHistory
    <3>8. EventInv'
      BY <3>2 DEF EventInv
    <3> QED
      BY <3>5, <3>6, <3>7, <3>8
  <2>5. CASE DropSend(r)
    BY <2>5, EffectEnd DEF DropSend
  <2> QED
    BY <1>4, <2>1, <2>2, <2>3, <2>4, <2>5 DEF Drop
<1>5. ASSUME NEW r \in Request, Fail(r) PROVE EffectInv'
  BY <1>5, EffectEnd DEF Fail
<1>6. CASE UNCHANGED vars
  BY <1>6 DEF vars, KeyInv, BlobInv, RemovedInv, AckInv, EventInv
<1> QED
  BY <1>1, <1>2, <1>3, <1>4, <1>5, <1>6 DEF Next, Step

(* AckedVisible is invariant: after CreateObjectVersion has answered,      *)
(* GetObjectMeta finds that version or a newer one, and only one, until    *)
(* the object is deleted.                                                  *)
THEOREM RegisteredIsVisible == Spec => []AckedVisible
<1>1. TypeInv /\ HistoryInv /\ EffectInv => AckedVisible
  <2> SUFFICES ASSUME TypeInv, HistoryInv, EffectInv,
                      NEW a \in acked, ~\E d \in removed : d.obj = a.obj
               PROVE  \E o \in objects, v \in versions :
                        /\ o.id = a.obj /\ v.obj = a.obj /\ v.num >= a.num
                        /\ GetMeta(o.key) = {v}
    BY DEF AckedVisible
  <2>1. a \in versions
    BY DEF EffectInv, AckInv
  <2>2. PICK o \in objects : o.id = a.obj
    BY <2>1 DEF HistoryInv, VersionHistory
  <2>3. PICK v \in versions : v.obj = o.id /\ v.blob = o.cur /\ MaxNumber(v.num, o.id)
    BY DEF HistoryInv, VersionHistory
  <2>4. v.num >= a.num
    BY <2>1, <2>2, <2>3 DEF MaxNumber, TypeInv, TypeOK, VersionRow
  <2>5. ASSUME NEW w \in GetMeta(o.key) PROVE w = v
    BY <2>3 DEF GetMeta, EffectInv, KeyInv, BlobInv
  <2>6. v \in GetMeta(o.key)
    BY <2>3 DEF GetMeta, HistoryInv, VersionHistory
  <2> QED
    BY <2>2, <2>3, <2>4, <2>5, <2>6
<1> QED
  BY TypeInit, TypeNext, HistoryInit, HistoryNext, EffectInit, EffectNext, <1>1, PTL DEF Spec

(* EventsAreSafe is invariant: a consumer that deletes the blob named in   *)
(* an object-deleted event never deletes one that a version refers to.     *)
THEOREM EventsNameDeadBlobs == Spec => []EventsAreSafe
<1>1. TypeInv /\ HistoryInv /\ EffectInv => EventsAreSafe
  <2> SUFFICES ASSUME TypeInv, HistoryInv, EffectInv, NEW e \in events
               PROVE  /\ \E d \in removed : d.obj = e.obj /\ e.blob \in {d.blob, None}
                      /\ ~\E v \in versions : v.blob = e.blob \/ v.obj = e.obj
    BY DEF EventsAreSafe
  <2>1. PICK d \in removed : d.obj = e.obj /\ e.blob \in {d.blob, None}
    BY DEF EffectInv, EventInv, Announced
  <2>2. ASSUME NEW v \in versions PROVE v.blob # e.blob
    BY <2>1, NoneAssumption DEF EffectInv, RemovedInv, TypeInv, TypeOK, VersionRow
  <2>3. ASSUME NEW v \in versions PROVE v.obj # e.obj
    BY <2>1 DEF EffectInv, RemovedInv, HistoryInv, VersionHistory
  <2> QED
    BY <2>1, <2>2, <2>3
<1> QED
  BY TypeInit, TypeNext, HistoryInit, HistoryNext, EffectInit, EffectNext, <1>1, PTL DEF Spec

-----------------------------------------------------------------------------
(* The proof of CountedIsSafe.                                             *)

Counted == {"b_delete", "b_cascade", "b_commit"}

(* What was reported before DeleteBucket counted is not a version of the   *)
(* bucket it counted, and no request can make it one: ids are not reused.  *)
CountInv ==
  /\ bucket # None => bucket \in used
  /\ \A a \in acked : a.blob \in used
  /\ \A q \in Request : pc[q] \in Creating => \A a \in acked : a.blob # blob[q]
  /\ \A r \in Request : pc[r] \in Counted \cup {"b_count"} => bid[r] \in used
  /\ \A r \in Request : pc[r] \in Counted =>
       /\ seen[r] \subseteq used
       /\ \A q \in Request : pc[q] \in Creating => blob[q] \notin seen[r]
       /\ bucket = bid[r] => \A v \in versions : v.blob \notin seen[r]

(* Nothing has been reported or counted at first. *)
LEMMA CountInit == Init => CountInv
  BY DEF Init, CountInv, Counted, Creating

(* A request that ends without a commit disturbs nothing. *)
LEMMA CountEnd ==
  ASSUME TypeInv, CountInv, NEW r \in Request, End(r), UNCHANGED <<tables, used, acked>>
  PROVE  CountInv'
  BY DEF End, TypeInv, TypeOK, tables, CountInv, Counted, Creating

(* Every step keeps what was counted apart from what is registered. *)
LEMMA CountNext == TypeInv /\ HistoryInv /\ BlobInv /\ CountInv /\ [Next]_vars => CountInv'
<1> SUFFICES ASSUME TypeInv, HistoryInv, BlobInv, CountInv, [Next]_vars PROVE CountInv'
  OBVIOUS
<1> USE DEF TypeInv, TypeOK, tables, local, history, Goto, Creating, Counted
<1>1. ASSUME NEW r \in Request, Start(r) PROVE CountInv'
  <2>1. CASE CreateBucket(r)
    <3>1. bucket = None /\ bucket' \in BucketId /\ bucket' \notin used /\ bucket' \in used'
      BY <2>1 DEF CreateBucket
    <3>2. used \subseteq used' /\ UNCHANGED <<versions, pc, bid, blob, seen, acked>>
      BY <2>1 DEF CreateBucket
    <3> QED
      BY <3>1, <3>2 DEF CountInv
  <2>2. CASE CreateStart(r)
    <3>1. /\ pc'[r] = "v_conflict" /\ blob'[r] \in BlobId \ used /\ bid'[r] = bucket
          /\ blob'[r] \in used' /\ used \subseteq used'
          /\ \A q \in Request : q # r => /\ pc'[q] = pc[q] /\ bid'[q] = bid[q]
                                        /\ blob'[q] = blob[q]
          /\ UNCHANGED <<bucket, versions, seen, acked>>
      BY <2>2 DEF CreateStart
    <3> QED
      BY <3>1 DEF CountInv
  <2>3. CASE DeleteStart(r)
    BY <2>3 DEF DeleteStart, CountInv
  <2>4. CASE DropStart(r)
    BY <2>4 DEF DropStart, CountInv
  <2> QED
    BY <1>1, <2>1, <2>2, <2>3, <2>4 DEF Start
<1>2. ASSUME NEW r \in Request, Create(r) PROVE CountInv'
  <2>1. CASE UpsertInsert(r)
    BY <2>1 DEF UpsertInsert, CountInv
  <2>2. CASE UpsertUpdate(r)
    BY <2>2 DEF UpsertUpdate, CountInv
  <2>3. CASE UpsertForeignKey(r)
    <3>1. CASE bucket # bid[r]
      BY <2>3, <3>1, CountEnd DEF UpsertForeignKey
    <3>2. CASE bucket = bid[r]
      BY <2>3, <3>2 DEF UpsertForeignKey, CountInv
    <3> QED
      BY <3>1, <3>2
  <2>4. CASE LockObject(r)
    BY <2>4 DEF LockObject, CountInv
  <2>5. CASE InsertVersion(r)
    BY <2>5 DEF InsertVersion, CountInv
  <2>6. CASE CreateCommit(r)
    <3> DEFINE row == [obj |-> oid[r], num |-> num[r], blob |-> blob[r]]
    <3>1. /\ pc[r] = "v_commit" /\ pc'[r] = "idle"
          /\ \A q \in Request : q # r => /\ pc'[q] = pc[q] /\ bid'[q] = bid[q]
                                        /\ blob'[q] = blob[q] /\ seen'[q] = seen[q]
          /\ UNCHANGED <<bucket, used>>
      BY <2>6 DEF CreateCommit, End
    <3>2. versions' = versions \cup {row} /\ acked' \subseteq acked \cup {row}
      BY <2>6 DEF CreateCommit
    <3>3. row.blob = blob[r]
      OBVIOUS
    <3> HIDE DEF row
    <3>4. blob[r] \in used /\ \A q \in Request : q # r /\ pc[q] \in Creating => blob[q] # blob[r]
      BY <3>1 DEF BlobInv
    <3>5. \A q \in Request : pc[q] \in Counted => blob[r] \notin seen[q]
      BY <3>1 DEF CountInv
    <3> QED
      BY <3>1, <3>2, <3>3, <3>4, <3>5 DEF CountInv
  <2> QED
    BY <1>2, <2>1, <2>2, <2>3, <2>4, <2>5, <2>6 DEF Create
<1>3. ASSUME NEW r \in Request, Delete(r) PROVE CountInv'
  <2>1. CASE DeleteRow(r)
    BY <2>1 DEF DeleteRow, CountInv
  <2>2. CASE DeleteGone(r)
    BY <2>2, CountEnd DEF DeleteGone
  <2>3. CASE DeleteSend(r)
    BY <2>3, CountEnd DEF DeleteSend
  <2> QED
    BY <1>3, <2>1, <2>2, <2>3 DEF Delete
<1>4. ASSUME NEW r \in Request, Drop(r) PROVE CountInv'
  <2>1. CASE DropCount(r)
    <3>1. CASE \E o \in objects : o.bucket = bid[r]
      BY <2>1, <3>1, CountEnd DEF DropCount
    <3>2. CASE ~\E o \in objects : o.bucket = bid[r]
      <4>1. bucket = bid[r] => versions = {}
        BY <3>2 DEF HistoryInv, VersionHistory
      <4>2. /\ seen'[r] = {v.blob : v \in acked} /\ pc'[r] = "b_delete"
            /\ \A q \in Request : q # r => seen'[q] = seen[q] /\ pc'[q] = pc[q]
            /\ UNCHANGED <<bucket, versions, used, bid, blob, acked>>
        BY <2>1, <3>2 DEF DropCount
      <4>3. pc[r] = "b_count"
        BY <2>1 DEF DropCount
      <4> QED
        BY <4>1, <4>2, <4>3 DEF CountInv
    <3> QED
      BY <3>1, <3>2
  <2>2. CASE DropDelete(r)
    <3>1. CASE bucket # bid[r]
      BY <2>2, <3>1, CountEnd DEF DropDelete
    <3>2. CASE bucket = bid[r]
      BY <2>2, <3>2 DEF DropDelete, CountInv
    <3> QED
      BY <3>1, <3>2
  <2>3. CASE DropCascade(r)
    BY <2>3 DEF DropCascade, CountInv
  <2>4. CASE DropCommit(r)
    <3>1. /\ pc'[r] = "b_send" /\ \A q \in Request : q # r => pc'[q] = pc[q]
          /\ bucket' = None /\ UNCHANGED <<used, bid, blob, seen, acked>>
      BY <2>4 DEF DropCommit
    <3>2. None \notin used
      BY NoneAssumption
    <3> QED
      BY <3>1, <3>2 DEF CountInv
  <2>5. CASE DropSend(r)
    BY <2>5, CountEnd DEF DropSend
  <2> QED
    BY <1>4, <2>1, <2>2, <2>3, <2>4, <2>5 DEF Drop
<1>5. ASSUME NEW r \in Request, Fail(r) PROVE CountInv'
  BY <1>5, CountEnd DEF Fail
<1>6. CASE UNCHANGED vars
  BY <1>6 DEF vars, CountInv
<1> QED
  BY <1>1, <1>2, <1>3, <1>4, <1>5, <1>6 DEF Next, Step

(* DeleteBucket checks before it deletes: however its transaction is       *)
(* interleaved with others, the rows its cascade is about to remove do not *)
(* include a version reported to its client before CountObjects ran.       *)
THEOREM CountingProtects == Spec => []CountedIsSafe
<1>1. HistoryInv /\ CountInv => CountedIsSafe
  BY DEF HistoryInv, BucketInv, Removing, CountInv, Counted, CountedIsSafe
<1>2. EffectInv => BlobInv
  BY DEF EffectInv
<1> QED
  BY TypeInit, TypeNext, HistoryInit, HistoryNext, EffectInit, EffectNext, CountInit, CountNext,
     <1>1, <1>2, PTL DEF Spec

-----------------------------------------------------------------------------
(* The proof of NoWaitCycle.                                               *)

(* The locks a request has are those its last statement took. *)
HeldInv ==
  \A r \in Request :
    /\ pc[r] \notin Holding \cup {"v_fk", "b_commit"} => locks[r] = {}
    /\ pc[r] \in Holding \cup {"v_fk"} => locks[r] = {oid[r]}

LEMMA HeldInit == Init => HeldInv
  BY DEF Init, HeldInv, Holding

LEMMA HeldNext == TypeInv /\ LockInv /\ HeldInv /\ [Next]_vars => HeldInv'
<1> SUFFICES ASSUME TypeInv, LockInv, HeldInv, [Next]_vars PROVE HeldInv'
  OBVIOUS
<1> USE DEF HeldInv, Holding, Goto, local, tables, history, TypeInv, TypeOK
<1>1. ASSUME NEW r \in Request, Start(r) PROVE HeldInv'
  BY <1>1 DEF Start, CreateBucket, CreateStart, DeleteStart, DropStart
<1>2. ASSUME NEW r \in Request, End(r) PROVE HeldInv'
  BY <1>2 DEF End
<1>3. ASSUME NEW r \in Request, Create(r) PROVE HeldInv'
  <2>1. CASE UpsertInsert(r)
    BY <2>1 DEF UpsertInsert
  <2>2. CASE UpsertUpdate(r)
    <3>1. PICK o \in objects : oid' = [oid EXCEPT ![r] = o.id] /\ locks' = [locks EXCEPT ![r] = {o.id}]
      BY <2>2 DEF UpsertUpdate
    <3> QED
      BY <2>2, <3>1 DEF UpsertUpdate
  <2>3. CASE UpsertForeignKey(r)
    BY <1>2, <2>3 DEF UpsertForeignKey
  <2>4. CASE LockObject(r)
    BY <2>4 DEF LockObject
  <2>5. CASE InsertVersion(r)
    BY <2>5 DEF InsertVersion
  <2>6. CASE CreateCommit(r)
    BY <1>2, <2>6 DEF CreateCommit
  <2> QED
    BY <1>3, <2>1, <2>2, <2>3, <2>4, <2>5, <2>6 DEF Create
<1>4. ASSUME NEW r \in Request, Delete(r) PROVE HeldInv'
  <2>1. CASE DeleteRow(r)
    BY <2>1 DEF DeleteRow
  <2>2. CASE DeleteGone(r) \/ DeleteSend(r)
    BY <1>2, <2>2 DEF DeleteGone, DeleteSend
  <2> QED
    BY <1>4, <2>1, <2>2 DEF Delete
<1>5. ASSUME NEW r \in Request, Drop(r) PROVE HeldInv'
  <2>1. CASE DropCount(r)
    BY <1>2, <2>1 DEF DropCount
  <2>2. CASE DropDelete(r)
    BY <1>2, <2>2 DEF DropDelete
  <2>3. CASE DropCascade(r)
    BY <2>3 DEF DropCascade
  <2>4. CASE DropCommit(r)
    BY <2>4 DEF DropCommit
  <2>5. CASE DropSend(r)
    BY <1>2, <2>5 DEF DropSend
  <2> QED
    BY <1>5, <2>1, <2>2, <2>3, <2>4, <2>5 DEF Drop
<1>6. CASE UNCHANGED vars
  BY <1>6 DEF vars
<1> QED
  BY <1>1, <1>2, <1>3, <1>4, <1>5, <1>6 DEF Next, Step, Fail

(* The statements by what they may wait for: those of one stage wait only  *)
(* for requests at a lower one, and at stage 0 nothing is waited for.      *)
Stage(r) ==
  CASE pc[r] \in {"v_conflict", "o_delete", "b_delete"} -> 3
    [] pc[r] = "v_fk"      -> 2
    [] pc[r] = "b_cascade" -> 1
    [] OTHER               -> 0

LEMMA StageIs ==
  ASSUME NEW r \in Request
  PROVE  /\ Stage(r) \in 0..3
         /\ Stage(r) = 3 <=> pc[r] \in {"v_conflict", "o_delete", "b_delete"}
         /\ Stage(r) = 2 <=> pc[r] = "v_fk"
         /\ Stage(r) = 1 <=> pc[r] = "b_cascade"
  BY DEF Stage

(* Who has locked a row is past its upsert or its cascade; the row of an   *)
(* upsert that still needs the bucket is not committed.                    *)
LEMMA Holders ==
  ASSUME TypeInv, HistoryInv, HeldInv, NEW q \in Request, NEW id \in locks[q]
  PROVE  /\ pc[q] \in Holding \cup {"v_fk", "b_commit"}
         /\ pc[q] = "v_fk" => \A o \in objects : o.id # id
  BY DEF HeldInv, HistoryInv, IdInv, LockInv, Proposing, Holding

LEMMA WaitsDown ==
  ASSUME TypeInv, HistoryInv, HeldInv, NEW r \in Request, NEW q \in Request, WaitsFor(r, q)
  PROVE  Stage(q) < Stage(r)
<1> DEFINE Late == Holding \cup {"b_commit"}
<1>1. pc[q] \in Late => Stage(q) = 0
  BY DEF Stage, Holding
<1>2. pc[q] \in Late \cup {"v_fk"} => Stage(q) \in {0, 2}
  BY DEF Stage, Holding
<1>3. CASE pc[r] = "v_conflict"
  <2>1. pc[q] \in Late \cup {"v_fk"}
    BY <1>3, Holders DEF WaitsFor, HistoryInv, LockInv, Holding
  <2> QED
    BY <1>2, <1>3, <2>1, StageIs
<1>4. CASE pc[r] = "o_delete"
  <2>1. pc[q] \in Late \cup {"v_fk"}
    BY <1>4, Holders DEF WaitsFor
  <2> QED
    BY <1>2, <1>4, <2>1, StageIs
<1>5. CASE pc[r] = "v_lock"
  BY <1>5 DEF WaitsFor, HistoryInv, LockInv, Holding
<1>6. CASE pc[r] = "v_fk"
  <2>1. pc[q] \in {"b_cascade", "b_commit"}
    BY <1>6 DEF WaitsFor
  <2> QED
    BY <1>1, <1>6, <2>1, StageIs
<1>7. CASE pc[r] = "b_delete"
  <2>1. pc[q] \in Late \cup {"b_cascade"}
    BY <1>7 DEF WaitsFor, HistoryInv, LockInv, Holding
  <2> QED
    BY <1>1, <1>7, <2>1, StageIs
<1>8. CASE pc[r] = "b_cascade"
  <2>1. PICK o \in objects : o.id \in locks[q]
    BY <1>8 DEF WaitsFor
  <2>2. pc[q] \in Late
    BY <2>1, Holders
  <2> QED
    BY <1>1, <1>8, <2>2, StageIs
<1> QED
  BY <1>3, <1>4, <1>5, <1>6, <1>7, <1>8 DEF WaitsFor

(* WaitsFor leaves no wait out: a request that waits for nobody finds the  *)
(* guard of its next statement true.                                       *)
LEMMA NothingElseBlocks ==
  ASSUME TypeInv, HistoryInv, NEW r \in Request, \A q \in Request : ~WaitsFor(r, q)
  PROVE  /\ pc[r] = "v_conflict" =>
              \/ /\ ~\E o \in objects : o.bucket = bid[r] /\ o.key = key[r]
                 /\ ~\E q \in fresh : bid[q] = bid[r] /\ key[q] = key[r]
              \/ \E o \in objects : o.bucket = bid[r] /\ o.key = key[r] /\ Free(r, o.id)
         /\ pc[r] \in {"v_lock", "o_delete"} => Free(r, oid[r])
         /\ pc[r] = "v_fk" => ~Dropping(bid[r])
         /\ pc[r] = "b_delete" => ~KeyShared(bid[r]) /\ ~Dropping(bid[r])
         /\ pc[r] = "b_cascade" => \A o \in objects : o.bucket = bid[r] => Free(r, o.id)
  BY DEF WaitsFor, Free, Dropping, KeyShared, TypeInv, TypeOK

(* No requests of the metadata service ever wait for one another, however  *)
(* many there are: the statements take the row locks of an object and of   *)
(* the bucket in stages, and only look down.                               *)
THEOREM NoDeadlock == Spec => []NoWaitCycle
<1>1. TypeInv /\ HistoryInv /\ HeldInv => NoWaitCycle
  <2> SUFFICES ASSUME TypeInv, HistoryInv, HeldInv,
                      NEW S \in (SUBSET Request) \ {{}}
               PROVE  \E r \in S : \A q \in S : ~WaitsFor(r, q)
    BY DEF NoWaitCycle
  <2>1. ASSUME NEW r \in S, NEW q \in S, WaitsFor(r, q)
        PROVE  Stage(q) < Stage(r)
    BY <2>1, WaitsDown
  <2>2. \A r \in S : Stage(r) \in 0..3
    BY StageIs
  <2>3. \E r \in S : \A q \in S : Stage(q) >= Stage(r)
    <3>1. CASE \E r \in S : Stage(r) = 0
      <4>1. PICK r \in S : Stage(r) = 0
        BY <3>1
      <4>2. \A q \in S : Stage(q) >= Stage(r)
        BY <2>2, <4>1
      <4> QED
        BY <4>2
    <3>2. CASE (~\E r \in S : Stage(r) = 0) /\ \E r \in S : Stage(r) = 1
      BY <2>2, <3>2
    <3>3. CASE (~\E r \in S : Stage(r) \in {0, 1}) /\ \E r \in S : Stage(r) = 2
      BY <2>2, <3>3
    <3>4. CASE ~\E r \in S : Stage(r) \in {0, 1, 2}
      <4>1. \A q \in S : Stage(q) = 3
        BY <2>2, <3>4
      <4>2. PICK r \in S : TRUE
        OBVIOUS
      <4>3. \A q \in S : Stage(q) >= Stage(r)
        BY <4>1
      <4> QED
        BY <4>3
    <3> QED
      BY <3>1, <3>2, <3>3, <3>4
  <2>4. PICK r \in S : \A q \in S : Stage(q) >= Stage(r)
    BY <2>3
  <2>5. ASSUME NEW q \in S, WaitsFor(r, q) PROVE FALSE
    BY <2>1, <2>2, <2>4, <2>5
  <2> QED
    BY <2>5
<1>2. TypeInv /\ HistoryInv /\ HeldInv /\ [Next]_vars => HeldInv'
  BY HeldNext DEF HistoryInv
<1> QED
  BY <1>1, <1>2, TypeInit, TypeNext, HistoryInit, HistoryNext, HeldInit, PTL DEF Spec

-----------------------------------------------------------------------------
(* The proof that the committed rows implement VersionLog.                 *)

(* Version rows that are numbered from 1 to m, without gaps or doubles. *)
Numbered(R, m) ==
  /\ m \in Nat
  /\ \A v \in R : v.num \in 1..m
  /\ \A n \in 1..m : \E v \in R : v.num = n
  /\ \A v, w \in R : v.num = w.num => v = w

(* The history they spell; Catalog counts the rows to find its length. *)
RowOf(R, n) == CHOOSE v \in R : v.num = n

Spelled(R) == [n \in 1..Cardinality(R) |-> RowOf(R, n).blob]

(* The row of a number is the row with that number. *)
LEMMA RowOfNumber ==
  ASSUME NEW R, NEW m, Numbered(R, m)
  PROVE  /\ \A n \in 1..m : RowOf(R, n) \in R /\ RowOf(R, n).num = n
         /\ \A v \in R : RowOf(R, v.num) = v
<1>1. ASSUME NEW n \in 1..m PROVE RowOf(R, n) \in R /\ RowOf(R, n).num = n
  BY DEF Numbered, RowOf
<1>2. ASSUME NEW v \in R PROVE RowOf(R, v.num) = v
  BY <1>1 DEF Numbered
<1> QED
  BY <1>1, <1>2

(* There are as many rows as numbers. *)
LEMMA NumberedSize ==
  ASSUME NEW R, NEW m, Numbered(R, m)
  PROVE  Cardinality(R) = m
<1> DEFINE f == [n \in 1..m |-> RowOf(R, n)]
<1>1. f \in [1..m -> R] /\ \A a, b \in 1..m : f[a] = f[b] => a = b
  BY RowOfNumber
<1>2. \A v \in R : v.num \in 1..m /\ f[v.num] = v
  BY RowOfNumber DEF Numbered
<1> HIDE DEF f
<1>3. f \in Injection(1..m, R)
  BY <1>1 DEF Injection, IsInjective
<1>4. f \in Surjection(1..m, R)
  BY <1>1, <1>2 DEF Surjection
<1>5. ExistsBijection(1..m, R)
  BY <1>3, <1>4 DEF ExistsBijection, Bijection
<1>6. m \in Nat
  BY DEF Numbered
<1> QED
  BY <1>5, <1>6, FS_CountingElements

(* No rows, no history. *)
LEMMA SpelledEmpty == Spelled({}) = <<>>
<1>1. Cardinality({}) = 0
  BY FS_EmptySet
<1> QED
  BY <1>1 DEF Spelled

(* An object with a version has a history. *)
LEMMA SpelledNonempty ==
  ASSUME NEW R, NEW m, Numbered(R, m), R # {}
  PROVE  Spelled(R) # <<>>
<1>1. Cardinality(R) = m
  BY NumberedSize
<1>2. PICK v \in R : v.num \in 1..m
  BY DEF Numbered
<1>3. 1 \in 1..m /\ m \in Nat
  BY <1>2 DEF Numbered
<1>4. 1 \in DOMAIN Spelled(R)
  BY <1>1, <1>3 DEF Spelled
<1>5. 1 \notin DOMAIN <<>>
  OBVIOUS
<1> QED
  BY <1>4, <1>5

(* A row with the next number extends the history by its blob. *)
LEMMA SpelledAppend ==
  ASSUME NEW R, NEW m, Numbered(R, m), \A v \in R : v.blob \in BlobId,
         NEW row, row.num = m + 1, row.blob \in BlobId
  PROVE  /\ Numbered(R \cup {row}, m + 1)
         /\ Spelled(R \cup {row}) = Append(Spelled(R), row.blob)
<1> DEFINE Q == R \cup {row}
<1>1. m \in Nat
  BY DEF Numbered
<1>2. Numbered(Q, m + 1)
  <2>1. \A v \in Q : v.num \in 1..(m + 1)
    BY <1>1 DEF Numbered
  <2>2. ASSUME NEW n \in 1..(m + 1) PROVE \E v \in Q : v.num = n
    <3>1. CASE n = m + 1
      BY <3>1
    <3>2. CASE n # m + 1
      <4>1. n \in 1..m
        BY <1>1, <3>2
      <4> QED
        BY <4>1 DEF Numbered
    <3> QED
      BY <3>1, <3>2
  <2>3. \A v, w \in Q : v.num = w.num => v = w
    BY <1>1 DEF Numbered
  <2> QED
    BY <1>1, <2>1, <2>2, <2>3 DEF Numbered
<1>3. Cardinality(R) = m /\ Cardinality(Q) = m + 1
  BY <1>2, NumberedSize
<1>4. Spelled(R) \in Seq(BlobId) /\ Len(Spelled(R)) = m
  <2>1. \A n \in 1..m : RowOf(R, n).blob \in BlobId
    BY RowOfNumber
  <2>2. Spelled(R) \in [1..m -> BlobId]
    BY <1>3, <2>1 DEF Spelled
  <2> HIDE DEF Q
  <2> QED
    BY <1>1, <2>2
<1>5. Spelled(Q) \in Seq(BlobId) /\ Len(Spelled(Q)) = m + 1
  <2>1. \A n \in 1..(m + 1) : RowOf(Q, n).blob \in BlobId
    BY <1>2, RowOfNumber
  <2>2. Spelled(Q) \in [1..(m + 1) -> BlobId]
    BY <1>3, <2>1 DEF Spelled
  <2> HIDE DEF Q
  <2> QED
    BY <1>1, <2>2
<1>6. ASSUME NEW n \in 1..m PROVE RowOf(Q, n) = RowOf(R, n)
  <2>1. RowOf(R, n) \in R /\ RowOf(R, n).num = n
    BY RowOfNumber
  <2>2. RowOf(R, n) \in Q
    BY <2>1
  <2> QED
    BY <1>2, <2>1, <2>2, RowOfNumber
<1>7. RowOf(Q, m + 1) = row
  <2>1. row \in Q
    OBVIOUS
  <2> QED
    BY <1>2, <2>1, RowOfNumber
<1>8. \A n \in 1..(m + 1) : Spelled(Q)[n] = Append(Spelled(R), row.blob)[n]
  <2>1. ASSUME NEW n \in 1..m PROVE Spelled(Q)[n] = Spelled(R)[n]
    <3> HIDE DEF Q
    <3>1. n \in 1..(m + 1) /\ RowOf(Q, n) = RowOf(R, n)
      BY <1>1, <1>6, <2>1
    <3> QED
      BY <1>3, <2>1, <3>1 DEF Spelled
  <2>2. Spelled(Q)[m + 1] = row.blob
    BY <1>1, <1>3, <1>7 DEF Spelled
  <2> HIDE DEF Q
  <2> QED
    BY <1>1, <1>4, <2>1, <2>2, AppendProperties
<1> HIDE DEF Q
<1>9. Spelled(Q) = Append(Spelled(R), row.blob)
  BY <1>1, <1>4, <1>5, <1>8, AppendProperties, SeqEqual
<1> QED
  BY <1>2, <1>9 DEF Q

-----------------------------------------------------------------------------
(* Where the rows of a history are, for Catalog's History. *)
Rows(k) == {v \in versions : \E o \in objects :
              o.id = v.obj /\ o.bucket = bucket /\ o.key = k}

(* History, before and after a step. *)
LEMMA HistoryIsSpelled ==
  ASSUME NEW k
  PROVE  History(k) = Spelled(Rows(k)) /\ History(k)' = Spelled(Rows(k)')
  BY DEF History, Rows, Spelled, RowOf

(* The history of a key is that of its one object. *)
LEMMA RowsOfObject ==
  ASSUME HistoryInv, KeyInv, NEW o \in objects
  PROVE  Rows(o.key) = {v \in versions : v.obj = o.id}
  BY DEF HistoryInv, VersionHistory, KeyInv, Rows

(* A key without an object has no rows. *)
LEMMA RowsOfNone ==
  ASSUME NEW k, \A o \in objects : o.key # k
  PROVE  Rows(k) = {}
  BY DEF Rows

(* VersionHistory makes an object's rows spell a history. *)
LEMMA ObjectRows ==
  ASSUME TypeInv, HistoryInv, KeyInv, NEW o \in objects, NEW m \in Nat, MaxNumber(m, o.id)
  PROVE  /\ Numbered(Rows(o.key), m) /\ Rows(o.key) # {}
         /\ \A v \in Rows(o.key) : v.blob \in BlobId
<1> DEFINE R == {v \in versions : v.obj = o.id}
<1>1. Rows(o.key) = R
  BY RowsOfObject
<1>2. \A v \in R : v.num \in Nat \ {0} /\ v.blob \in BlobId
  BY DEF TypeInv, TypeOK, VersionRow
<1>3. \A v \in R : v.num \in 1..m
  BY <1>2 DEF MaxNumber
<1>4. R # {}
  BY DEF HistoryInv, VersionHistory
<1>5. PICK v \in R : v.num = m
  BY <1>3, <1>4 DEF MaxNumber
<1>6. \A n \in 1..m : \E w \in R : w.num = n
  BY <1>5 DEF HistoryInv, VersionHistory
<1>7. \A v1, w \in R : v1.num = w.num => v1 = w
  BY DEF HistoryInv, VersionHistory
<1> QED
  BY <1>1, <1>2, <1>3, <1>4, <1>6, <1>7 DEF Numbered

(* The numbers of an object's versions are 1..m for some m. *)
LEMMA SomeNumber ==
  ASSUME TypeInv, HistoryInv, NEW o \in objects
  PROVE  \E m \in Nat : MaxNumber(m, o.id)
  BY DEF HistoryInv, VersionHistory, TypeInv, TypeOK, VersionRow

-----------------------------------------------------------------------------
(* The abstract state. *)
Open == IF bucket = None THEN "no" ELSE "yes"
Histories == [k \in Key |-> History(k)]

(* At first there is no bucket and no history. *)
LEMMA LogInit == Init => Log!Init
<1> SUFFICES ASSUME Init PROVE Log!Init
  OBVIOUS
<1>1. \A k : Rows(k) = {}
  BY DEF Init, Rows
<1>2. \A k \in Key : History(k) = <<>>
  BY <1>1, HistoryIsSpelled, SpelledEmpty
<1> QED
  BY <1>2 DEF Init, Log!Init, Log!NoLog

(* A step that commits nothing leaves every history alone. *)
LEMMA SameRows ==
  ASSUME NEW k, UNCHANGED tables
  PROVE  History(k)' = History(k)
  BY DEF tables, History

(* ... and cannot be seen in the abstract state. *)
LEMMA Stutter ==
  ASSUME UNCHANGED tables
  PROVE  UNCHANGED <<Open, Histories>>
<1>1. Histories' = Histories
  BY SameRows DEF Histories
<1> QED
  BY <1>1 DEF tables, Open

(* CreateBucket opens an empty log. *)
LEMMA CreateBucketLogs ==
  ASSUME TypeInv, HistoryInv, NEW r \in Request, CreateBucket(r)
  PROVE  Log!CreateBucket
<1>1. bucket = None /\ bucket' \in BucketId /\ bucket' # None
  BY NoneAssumption DEF CreateBucket
<1>2. objects = {} /\ objects' = {}
  BY <1>1, NoneAssumption DEF CreateBucket, HistoryInv, VersionHistory, TypeInv, TypeOK, ObjectRow
<1>3. ASSUME NEW k PROVE History(k)' = History(k)
  <2>1. Rows(k) = {} /\ Rows(k)' = {}
    BY <1>2 DEF Rows
  <2> QED
    BY <2>1, HistoryIsSpelled
<1> QED
  BY <1>1, <1>3 DEF Log!CreateBucket

(* The commit of CreateObjectVersion appends its blob to the history of its key. *)
LEMMA CommitLogs ==
  ASSUME TypeInv, HistoryInv, KeyInv, BlobInv, NEW r \in Request, CreateCommit(r)
  PROVE  Log!CreateObjectVersion(key[r], blob[r])
<1> DEFINE row == [obj |-> oid[r], num |-> num[r], blob |-> blob[r]]
           new == [id |-> oid[r], bucket |-> bid[r], key |-> key[r], cur |-> blob[r]]
<1> PICK k \in Key, b \in BlobId, i \in ObjectId, m \in Nat :
       k = key[r] /\ b = blob[r] /\ i = oid[r] /\ num[r] = m + 1
  <2>1. key[r] \in Key /\ blob[r] \in BlobId /\ oid[r] \in ObjectId /\ num[r] \in Nat \ {0}
    BY DEF CreateCommit, TypeInv, RequestInv, Creating
  <2>2. num[r] - 1 \in Nat /\ num[r] = (num[r] - 1) + 1
    BY <2>1
  <2> QED
    BY <2>1, <2>2
<1>1. MaxNumber(m, i)
  <2>1. m = num[r] - 1
    OBVIOUS
  <2> QED
    BY <2>1 DEF CreateCommit, HistoryInv, NumberInv
<1>2. /\ objects' = {o \in objects : o.id # i} \cup {new}
      /\ versions' = versions \cup {row} /\ bucket' = bucket
  BY DEF CreateCommit
<1>3. bucket = bid[r] /\ bucket # None
  <2>1. CASE r \in fresh
    BY <2>1, NoneAssumption DEF CreateCommit, HistoryInv, BucketInv, Holding, TypeInv, RequestInv, Creating
  <2>2. CASE r \notin fresh
    BY <2>2, NoneAssumption DEF CreateCommit, HistoryInv, LockInv, VersionHistory, Holding,
       TypeInv, RequestInv, Creating
  <2> QED
    BY <2>1, <2>2
<1>4. \A o \in objects : o.id = i => o.key = k
  <2>1. CASE r \in fresh
    BY <2>1 DEF HistoryInv, IdInv, Proposing
  <2>2. CASE r \notin fresh
    BY <2>2 DEF CreateCommit, HistoryInv, LockInv, NumberInv, Holding
  <2> QED
    BY <2>1, <2>2
<1>5. \A o \in objects : o.key = k => o.id = i
  <2>1. CASE r \in fresh
    BY <2>1, <1>3 DEF KeyInv, HistoryInv, VersionHistory
  <2>2. CASE r \notin fresh
    BY <2>2 DEF CreateCommit, HistoryInv, LockInv, KeyInv, Holding
  <2> QED
    BY <2>1, <2>2
<1>6. \A v \in versions : v.obj = i => \E o \in objects : o.id = i
  BY DEF HistoryInv, VersionHistory
<1>7. /\ Rows(k) = {v \in versions : v.obj = i} /\ Numbered(Rows(k), m)
      /\ \A v \in Rows(k) : v.blob \in BlobId
  <2>1. CASE \E o \in objects : o.id = i
    BY <2>1, <1>1, <1>4, ObjectRows, RowsOfObject
  <2>2. CASE ~\E o \in objects : o.id = i
    <3>1. \A o \in objects : o.key # k
      BY <2>2, <1>5
    <3>2. Rows(k) = {} /\ {v \in versions : v.obj = i} = {}
      BY <2>2, <3>1, <1>6, RowsOfNone
    <3>3. m = 0
      BY <3>2, <1>1 DEF MaxNumber
    <3> QED
      BY <3>2, <3>3 DEF Numbered
  <2> QED
    BY <2>1, <2>2
<1>8. Rows(k)' = Rows(k) \cup {row}
  <2>1. new \in objects' /\ new.id = i /\ new.bucket = bucket' /\ new.key = k
    BY <1>2, <1>3
  <2>2. \A o \in objects' : o.key = k => o.id = i
    BY <1>2, <1>5
  <2> HIDE DEF new
  <2>3. Rows(k)' = {v \in versions' : v.obj = i}
    BY <2>1, <2>2 DEF Rows
  <2>4. row.obj = i
    OBVIOUS
  <2> HIDE DEF row
  <2> QED
    BY <2>3, <2>4, <1>2, <1>7
<1>9. ASSUME NEW j \in Key, j # k PROVE Rows(j)' = Rows(j)
  <2>1. ASSUME NEW v PROVE v \in Rows(j)' <=> v \in Rows(j)
    BY <1>2, <1>3, <1>4, <1>9 DEF Rows
  <2> QED
    BY <2>1
<1>10. History(k)' = Append(History(k), b)
  <2>1. row.num = m + 1 /\ row.blob = b
    OBVIOUS
  <2> HIDE DEF row
  <2>2. Spelled(Rows(k) \cup {row}) = Append(Spelled(Rows(k)), row.blob)
    <3> DEFINE R == Rows(k)
    <3>1. Numbered(R, m) /\ \A v \in R : v.blob \in BlobId
      BY <1>7
    <3>2. row.num = m + 1 /\ row.blob \in BlobId
      BY <2>1
    <3> HIDE DEF R
    <3>3. Spelled(R \cup {row}) = Append(Spelled(R), row.blob)
      BY ONLY <3>1, <3>2, SpelledAppend
    <3> QED
      BY <3>3 DEF R
  <2>3. History(k) = Spelled(Rows(k)) /\ History(k)' = Spelled(Rows(k)')
    BY HistoryIsSpelled
  <2> QED
    BY <2>1, <2>2, <2>3, <1>8
<1>11. Histories' = [Histories EXCEPT ![k] = Append(@, b)]
  <2>1. ASSUME NEW j \in Key, j # k PROVE History(j)' = History(j)
    BY <2>1, <1>9, HistoryIsSpelled
  <2> QED
    BY <2>1, <1>10 DEF Histories
<1> QED
  BY <1>2, <1>3, <1>11 DEF Log!CreateObjectVersion, Histories

(* The DELETE of DeleteObjectMeta ends the history of its key. *)
LEMMA DeleteLogs ==
  ASSUME TypeInv, HistoryInv, KeyInv, NEW r \in Request, DeleteRow(r)
  PROVE  \E k \in Key : Log!DeleteObjectMeta(k)
<1>1. PICK o \in objects :
        /\ o.id = oid[r]
        /\ objects' = objects \ {o}
        /\ versions' = {v \in versions : v.obj # o.id}
        /\ bucket' = bucket
  BY DEF DeleteRow
<1>2. PICK k \in Key : k = o.key
  BY DEF TypeInv, TypeOK, ObjectRow
<1>3. Rows(k)' = {}
  BY <1>1, <1>2 DEF Rows, KeyInv
<1>4. ASSUME NEW j \in Key, j # k PROVE Rows(j)' = Rows(j)
  BY <1>1, <1>2, <1>4 DEF Rows, HistoryInv, NumberInv
<1>5. History(k) # <<>>
  <2>1. PICK m \in Nat : MaxNumber(m, o.id)
    BY SomeNumber
  <2> QED
    BY <1>2, <2>1, ObjectRows, SpelledNonempty, HistoryIsSpelled
<1>6. Histories' = [Histories EXCEPT ![k] = <<>>]
  <2>1. History(k)' = <<>>
    BY <1>3, HistoryIsSpelled, SpelledEmpty
  <2>2. ASSUME NEW j \in Key, j # k PROVE History(j)' = History(j)
    BY <2>2, <1>4, HistoryIsSpelled
  <2> QED
    BY <2>1, <2>2 DEF Histories
<1>7. Log!DeleteObjectMeta(k)
  BY <1>1, <1>5, <1>6 DEF Log!DeleteObjectMeta, Histories
<1> QED
  BY <1>7

(* The commit of DeleteBucket closes the log and ends all histories. *)
LEMMA DropLogs ==
  ASSUME TypeInv, HistoryInv, NEW r \in Request, DropCommit(r)
  PROVE  Log!DeleteBucket
<1>1. bucket # None /\ bucket' = None
  BY NoneAssumption DEF DropCommit, HistoryInv, BucketInv, Removing, TypeInv, RequestInv
<1>2. objects' = {}
  BY DEF DropCommit, HistoryInv, BucketInv
<1>3. ASSUME NEW k PROVE History(k)' = <<>>
  <2>1. Rows(k)' = {}
    BY <1>2 DEF Rows
  <2> QED
    BY <2>1, HistoryIsSpelled, SpelledEmpty
<1> QED
  BY <1>1, <1>3 DEF Log!DeleteBucket, Log!NoLog

(* Every step is a step of VersionLog or cannot be seen. *)
LEMMA LogNext ==
  TypeInv /\ HistoryInv /\ EffectInv /\ [Next]_vars
    => Log!Next \/ UNCHANGED <<Open, Histories>>
<1> SUFFICES ASSUME TypeInv, HistoryInv, EffectInv, [Next]_vars
             PROVE  Log!Next \/ UNCHANGED <<Open, Histories>>
  OBVIOUS
<1>1. CASE UNCHANGED tables
  BY <1>1, Stutter
<1>2. ASSUME NEW r \in Request, Start(r) \/ Step(r) \/ Fail(r)
      PROVE  \/ CreateBucket(r) \/ CreateCommit(r) \/ DeleteRow(r) \/ DropCommit(r)
             \/ UNCHANGED tables
  <2>1. CASE Start(r)
    BY <2>1 DEF Start, CreateStart, DeleteStart, DropStart, tables
  <2>2. CASE Step(r)
    BY <2>2 DEF Step, Create, Delete, Drop, UpsertInsert, UpsertUpdate, UpsertForeignKey,
       LockObject, InsertVersion, DeleteGone, DeleteSend, DropCount, DropDelete, DropCascade,
       DropSend, tables
  <2>3. CASE Fail(r)
    BY <2>3 DEF Fail, tables
  <2> QED
    BY <1>2, <2>1, <2>2, <2>3
<1>3. ASSUME NEW r \in Request, CreateCommit(r) PROVE Log!Next
  <2>1. key[r] \in Key /\ blob[r] \in BlobId
    BY <1>3 DEF CreateCommit, TypeInv, RequestInv, Creating
  <2> QED
    BY <1>3, <2>1, CommitLogs DEF Log!Next, EffectInv
<1>4. ASSUME NEW r \in Request, CreateBucket(r) \/ DeleteRow(r) \/ DropCommit(r)
      PROVE  Log!Next
  BY <1>4, CreateBucketLogs, DeleteLogs, DropLogs DEF Log!Next, EffectInv
<1>5. CASE UNCHANGED vars
  BY <1>5, <1>1 DEF vars, tables
<1> QED
  BY <1>1, <1>2, <1>3, <1>4, <1>5 DEF Next

(* Catalog implements VersionLog: seen through the committed rows, every   *)
(* request of the metadata service takes effect in one step, at its commit,*)
(* and statements, row locks, waits, rollbacks and crashes are invisible.  *)
(* Gateway is built on VersionLog and so on this theorem.                  *)
THEOREM CatalogImplementsLog == Spec => ImplementsLog
<1>1. TypeInv /\ HistoryInv /\ EffectInv /\ [Next]_vars
        => [Log!Next]_<<IF bucket = None THEN "no" ELSE "yes", [k \in Key |-> History(k)]>>
  BY LogNext DEF Open, Histories
<1> QED
  BY TypeInit, TypeNext, HistoryInit, HistoryNext, EffectInit, EffectNext, LogInit, <1>1, PTL
     DEF Spec, ImplementsLog, Log!Spec
=============================================================================
