----------------------------- MODULE VersionLog -----------------------------
(***************************************************************************)
(* What the metadata service promises about the objects of one bucket      *)
(* name: under each key, while the bucket exists, a history of blobs that  *)
(* grows one committed version at a time and disappears as a whole.        *)
(* The last blob of the history is the one GetObjectMeta names.            *)
(***************************************************************************)
EXTENDS Sequences

CONSTANTS Key, BlobId

VARIABLES open,   \* does the bucket exist: "yes" or "no"
          log     \* the history of each key; empty when there is no object

NoLog == [k \in Key |-> <<>>]

Init == open = "no" /\ log = NoLog

CreateBucket ==
  /\ open = "no" /\ open' = "yes"
  /\ UNCHANGED log

DeleteBucket ==
  /\ open = "yes" /\ open' = "no"
  /\ log' = NoLog

(* Callers register a blob once (Gateway: BlobsAreRegisteredOnce). *)
CreateObjectVersion(k, b) ==
  /\ open = "yes"
  /\ log' = [log EXCEPT ![k] = Append(@, b)]
  /\ UNCHANGED open

DeleteObjectMeta(k) ==
  /\ log[k] # <<>>
  /\ log' = [log EXCEPT ![k] = <<>>]
  /\ UNCHANGED open

Next ==
  \/ CreateBucket
  \/ DeleteBucket
  \/ \E k \in Key, b \in BlobId : CreateObjectVersion(k, b)
  \/ \E k \in Key : DeleteObjectMeta(k)

Spec == Init /\ [][Next]_<<open, log>>
=============================================================================
