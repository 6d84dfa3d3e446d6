------------------------------- MODULE Gateway -------------------------------
(***************************************************************************)
(* PUT and GET of an object: the gateway between an HTTP client, the       *)
(* storage service and the metadata service.                               *)
(*                                                                         *)
(*   services/gateway/internal/service/object    the order of the calls    *)
(*   services/gateway/internal/handler/httpapi   answers, the GET stream   *)
(*   services/gateway/internal/client            deadlines, byte streams   *)
(*   services/storage/internal/{handler,service,repository}/storage        *)
(*                                               StoreObject, RetrieveObject *)
(*                                                                         *)
(* The metadata service is what VersionLog promises; Catalog implements    *)
(* it.  A request is one HTTP request and is used once.  The gateway, the  *)
(* storage service and the metadata service are processes of their own: an *)
(* RPC goes on when the gateway has given up on it.                        *)
(*                                                                         *)
(* A body is a sequence of pieces, which streams carry one by one; its MD5 *)
(* is the body itself.  Blobs are never deleted: no code in the repository *)
(* calls DeleteObject for a blob that has been stored.                     *)
(***************************************************************************)
EXTENDS Integers, Sequences

CONSTANTS Request,    \* HTTP requests
          Key,        \* object keys of the bucket
          BlobId,     \* identifiers storage may generate
          Body,       \* what clients PUT
          Piece,      \* what bodies are made of
          None

ASSUME BodyAssumption == Body \subseteq Seq(Piece)
ASSUME NoneAssumption ==
  /\ None \notin BlobId \cup Seq(Piece) \cup [size : Nat, etag : Seq(Piece)]
  /\ None \notin {"200", "400", "404", "405", "body", "error", "aborted"}

VARIABLES
  open, log,      \* metadata: the bucket, and the blobs of each key
  row,            \* metadata: size and etag registered for a blob
  file,           \* storage: the published blobs
  used,           \* blob ids generated so far
  pc,             \* gateway: where each request is
  key, body,      \* the object, and what the client sends
  size,           \* Content-Length of a PUT, or None
  sent,           \* pieces of the body sent to storage
  answer,         \* the HTTP answer, or None
  up, id, got,    \* StoreObject: where it is, its blob, the pieces received
  closed,         \* requests that have closed the stream to storage
  reg,            \* CreateObjectVersion: where it is
  cur, src, out,  \* GET: the current blob, the open file, the pieces sent on
  broken,         \* history: requests whose stream from storage failed
  floor,          \* history: the blobs reported for the key before a GET began
  gone            \* history: blobs whose object was deleted

metadata == <<open, log, row>>
storage  == <<file, used>>
input    == <<key, body, size>>
upload   == <<sent, up, id, got, closed>>
download == <<cur, src, out, broken>>
history  == <<floor, gone>>
vars     == <<metadata, storage, pc, input, answer, upload, reg, download, history>>

Meta == INSTANCE VersionLog

(* The answers: "body" is the 400 for an unreadable body; "error" is every *)
(* answer that leaves the outcome open (499 and 5xx); "aborted" is a GET   *)
(* response that was cut off.                                              *)

(* The answer for the status of a call (classifyServiceError). *)
HttpStatus(code) ==
  IF code = "ok" THEN "200"
  ELSE IF code = "notfound" THEN "404"
  ELSE IF code = "invalid" THEN "400"
  ELSE "error"

(* openBlob: the file of a blob, if it has one. *)
OpenBlob(b) == file[b] # None

Goto(r, label) == pc' = [pc EXCEPT ![r] = label]
Reply(r, a) == Goto(r, "done") /\ answer' = [answer EXCEPT ![r] = a]
Received(r) == SubSeq(body[r], 1, got[r])
Length(r) == row[cur[r]].size
Logged(k) == {log[k][i] : i \in 1..Len(log[k])}

Init ==
  /\ Meta!Init
  /\ row = [b \in BlobId |-> None]
  /\ file = [b \in BlobId |-> None]
  /\ used = {}
  /\ pc = [r \in Request |-> "new"]
  /\ key = [r \in Request |-> None]
  /\ body = [r \in Request |-> <<>>]
  /\ size = [r \in Request |-> None]
  /\ sent = [r \in Request |-> 0]
  /\ answer = [r \in Request |-> None]
  /\ up = [r \in Request |-> "none"]
  /\ id = [r \in Request |-> None]
  /\ got = [r \in Request |-> 0]
  /\ closed = {}
  /\ reg = [r \in Request |-> "none"]
  /\ cur = [r \in Request |-> None]
  /\ src = [r \in Request |-> None]
  /\ out = [r \in Request |-> 0]
  /\ broken = {}
  /\ floor = [r \in Request |-> {}]
  /\ gone = {}

-----------------------------------------------------------------------------
(* PUT, in the gateway *)

(* A request for no object: health, the API's documentation, an unknown    *)
(* path or another method.                                                 *)
ServeHTTP(r) ==
  /\ pc[r] = "new"
  /\ \E a \in {"200", "404", "405"} : Reply(r, a)
  /\ UNCHANGED <<metadata, storage, input, upload, reg, download, history>>

PutStart(r) ==
  /\ pc[r] = "new"
  /\ \E k \in Key, b \in Body :
       /\ key' = [key EXCEPT ![r] = k]
       /\ body' = [body EXCEPT ![r] = b]
       /\ \E s \in {None, Len(b)} : size' = [size EXCEPT ![r] = s]
  /\ Goto(r, "p_head")
  /\ UNCHANGED <<metadata, storage, answer, upload, reg, download, history>>

(* HeadBucket; then the stream to storage is opened and the header sent,   *)
(* and storage generates the blob id.                                      *)
PutHead(r) ==
  /\ pc[r] = "p_head"
  /\ IF open = "no"
       THEN Reply(r, "404") /\ UNCHANGED <<used, up, id>>
       ELSE /\ \E b \in BlobId \ used :
                 /\ id' = [id EXCEPT ![r] = b]
                 /\ used' = used \cup {b}
            /\ up' = [up EXCEPT ![r] = "recv"]
            /\ Goto(r, "p_send") /\ UNCHANGED answer
  /\ UNCHANGED <<metadata, file, input, sent, got, closed, reg, download, history>>

(* HeadBucket fails, is refused or reaches its deadline. *)
PutHeadFail(r) ==
  /\ pc[r] = "p_head"
  /\ \E a \in {"400", "error"} : Reply(r, a)
  /\ UNCHANGED <<metadata, storage, input, upload, reg, download, history>>

PutSend(r) ==
  /\ pc[r] = "p_send" /\ sent[r] < Len(body[r])
  /\ sent' = [sent EXCEPT ![r] = @ + 1]
  /\ UNCHANGED <<metadata, storage, pc, input, answer, up, id, got, closed, reg,
                 download, history>>

(* Mutant of PutBodyError: a read error is taken for the end of the body. *)
PutBodyErrorIsEnd(r) ==
  /\ pc[r] = "p_send"
  /\ closed' = closed \cup {r}
  /\ Goto(r, "p_recv")
  /\ UNCHANGED <<metadata, storage, input, answer, sent, up, id, got, reg, download,
                 history>>

(* Mutant of PutBodyError: the stream is closed instead of cancelled. *)
PutBodyErrorCloses(r) ==
  /\ pc[r] = "p_send"
  /\ closed' = closed \cup {r}
  /\ Reply(r, "body")
  /\ UNCHANGED <<metadata, storage, input, sent, up, id, got, reg, download, history>>

(* The body cannot be read to its end: the stream is cancelled. *)
PutBodyError(r) ==
  /\ pc[r] = "p_send"
  /\ Reply(r, "body")
  /\ UNCHANGED <<metadata, storage, input, upload, reg, download, history>>

PutClose(r) ==
  /\ pc[r] = "p_send" /\ sent[r] = Len(body[r])
  /\ closed' = closed \cup {r}
  /\ Goto(r, "p_recv")
  /\ UNCHANGED <<metadata, storage, input, answer, sent, up, id, got, reg, download,
                 history>>

(* Storage has failed, its answer is lost, or the client has gone. *)
PutStoreFail(r) ==
  /\ pc[r] \in {"p_send", "p_recv"}
  /\ Reply(r, "error")
  /\ UNCHANGED <<metadata, storage, input, upload, reg, download, history>>

(* Mutant of PutRecv: the client is answered before the version is registered. *)
PutRecvAnswersEarly(r) ==
  /\ pc[r] = "p_recv" /\ up[r] \in {"stored", "invalid", "failed"}
  /\ IF up[r] # "stored"
       THEN Reply(r, HttpStatus(up[r])) /\ UNCHANGED reg
       ELSE reg' = [reg EXCEPT ![r] = "pending"] /\ Reply(r, "200")
  /\ UNCHANGED <<metadata, storage, input, upload, download, history>>

(* The blob is committed: CreateVersion is called, whatever the client     *)
(* does.                                                                   *)
PutRecv(r) ==
  /\ pc[r] = "p_recv" /\ up[r] \in {"stored", "invalid", "failed"}
  /\ IF up[r] # "stored"
       THEN Reply(r, HttpStatus(up[r])) /\ UNCHANGED reg
       ELSE /\ reg' = [reg EXCEPT ![r] = "pending"]
            /\ Goto(r, "p_wait") /\ UNCHANGED answer
  /\ UNCHANGED <<metadata, storage, input, upload, download, history>>

PutDone(r) ==
  /\ pc[r] = "p_wait" /\ reg[r] # "pending"
  /\ Reply(r, HttpStatus(reg[r]))
  /\ UNCHANGED <<metadata, storage, input, upload, reg, download, history>>

(* Mutant of PutTimeout: only an answer of the metadata service ends the wait. *)
PutTimeoutMissing(r) ==
  /\ pc[r] = "p_wait" /\ reg[r] # "pending"
  /\ Reply(r, "error")
  /\ UNCHANGED <<metadata, storage, input, upload, reg, download, history>>

(* METADATA_RPC_TIMEOUT, or the answer is lost. *)
PutTimeout(r) ==
  /\ pc[r] = "p_wait"
  /\ Reply(r, "error")
  /\ UNCHANGED <<metadata, storage, input, upload, reg, download, history>>

-----------------------------------------------------------------------------
(* StoreObject, in storage *)

StoreRecv(r) ==
  /\ up[r] = "recv" /\ got[r] < sent[r]
  /\ got' = [got EXCEPT ![r] = @ + 1]
  /\ UNCHANGED <<metadata, storage, pc, input, answer, sent, up, id, closed, reg,
                 download, history>>

(* The end of the stream: the temporary file becomes the staged object. *)
StoreStaged(r) ==
  /\ up[r] = "recv" /\ r \in closed /\ got[r] = sent[r]
  /\ up' = [up EXCEPT ![r] = "staged"]
  /\ UNCHANGED <<metadata, storage, pc, input, answer, sent, id, got, closed, reg,
                 download, history>>

(* The rename into blobs/.  Nothing reads the manifest in the staging      *)
(* directory, which is removed if that works.                              *)
StorePublish(r) ==
  /\ up[r] = "staged"
  /\ file' = [file EXCEPT ![id[r]] = Received(r)]
  /\ up' = [up EXCEPT ![r] = "published"]
  /\ UNCHANGED <<metadata, used, pc, input, answer, sent, id, got, closed, reg,
                 download, history>>

(* A blob that has not the announced size is removed again, if that works. *)
(* No HTTP client gets here: net/http ends a body at its Content-Length    *)
(* and reports a shorter one as unreadable.                                *)
StoreCheck(r) ==
  /\ up[r] = "published"
  /\ IF size[r] \in {None, got[r]}
       THEN up' = [up EXCEPT ![r] = "stored"] /\ UNCHANGED file
       ELSE /\ up' = [up EXCEPT ![r] = "invalid"]
            /\ file' \in {file, [file EXCEPT ![id[r]] = None]}
  /\ UNCHANGED <<metadata, used, pc, input, answer, sent, id, got, closed, reg,
                 download, history>>

(* The stream breaks or is cancelled, the disk is full, a rename fails. *)
StoreFail(r) ==
  /\ up[r] \in {"recv", "staged"}
  /\ up' = [up EXCEPT ![r] = "failed"]
  /\ UNCHANGED <<metadata, storage, pc, input, answer, sent, id, got, closed, reg,
                 download, history>>

-----------------------------------------------------------------------------
(* The metadata service *)

(* CreateObjectVersion commits; the gateway may have given up. *)
MetaCommit(r) ==
  /\ reg[r] = "pending"
  /\ Meta!CreateObjectVersion(key[r], id[r])
  /\ row' = [row EXCEPT ![id[r]] = [size |-> sent[r], etag |-> Received(r)]]
  /\ reg' = [reg EXCEPT ![r] = "ok"]
  /\ UNCHANGED <<storage, pc, input, answer, upload, download, history>>

MetaRefuse(r) ==
  /\ reg[r] = "pending"
  /\ \/ open = "no" /\ reg' = [reg EXCEPT ![r] = "notfound"]
     \/ \E e \in {"invalid", "failed"} : reg' = [reg EXCEPT ![r] = e]
  /\ UNCHANGED <<metadata, storage, pc, input, answer, upload, download, history>>

CreateBucket ==
  /\ Meta!CreateBucket
  /\ UNCHANGED <<row, storage, pc, input, answer, upload, reg, download, history>>

DeleteBucket ==
  /\ Meta!DeleteBucket
  /\ gone' = gone \cup UNION {Logged(k) : k \in Key}
  /\ UNCHANGED <<row, storage, pc, input, answer, upload, reg, download, floor>>

DeleteObjectMeta(k) ==
  /\ Meta!DeleteObjectMeta(k)
  /\ gone' = gone \cup Logged(k)
  /\ UNCHANGED <<row, storage, pc, input, answer, upload, reg, download, floor>>

-----------------------------------------------------------------------------
(* GET, in the gateway *)

(* The PUTs of the key that have been answered 200. *)
Reported(k) ==
  {id[p] : p \in {q \in Request : answer[q] = "200" /\ id[q] # None /\ key[q] = k}}

GetStart(r) ==
  /\ pc[r] = "new"
  /\ \E k \in Key :
       /\ key' = [key EXCEPT ![r] = k]
       /\ floor' = [floor EXCEPT ![r] = Reported(k)]
  /\ Goto(r, "g_meta")
  /\ UNCHANGED <<metadata, storage, body, size, answer, upload, reg, download, gone>>

GetMeta(r) ==
  LET versions == log[key[r]]
  IN /\ pc[r] = "g_meta"
     /\ IF versions = <<>>
          THEN Reply(r, "404") /\ UNCHANGED cur
          ELSE /\ cur' = [cur EXCEPT ![r] = versions[Len(versions)]]
               /\ Goto(r, "g_open") /\ UNCHANGED answer
     /\ UNCHANGED <<metadata, storage, input, upload, reg, src, out, broken, history>>

(* RetrieveObject opens the file; one that is missing, or that ends where  *)
(* the catalogue has bytes, is a 502.                                      *)
GetOpen(r) ==
  /\ pc[r] = "g_open"
  /\ IF ~OpenBlob(cur[r]) \/ (file[cur[r]] = <<>> /\ Length(r) # 0)
       THEN Reply(r, "error") /\ UNCHANGED src
       ELSE /\ src' = [src EXCEPT ![r] = file[cur[r]]]
            /\ Goto(r, "g_stream") /\ UNCHANGED answer
  /\ UNCHANGED <<metadata, storage, input, upload, reg, cur, out, broken, history>>

(* A call fails, or the client leaves, before the headers are written. *)
GetFail(r) ==
  /\ pc[r] \in {"g_meta", "g_open"}
  /\ \E a \in {"400", "error"} : Reply(r, a)
  /\ UNCHANGED <<metadata, storage, input, upload, reg, download, history>>

(* Mutant of GetSend: the last byte is not kept back. *)
GetSendAll(r) ==
  /\ pc[r] = "g_stream" /\ out[r] < Length(r) /\ out[r] < Len(src[r])
  /\ out' = [out EXCEPT ![r] = @ + 1]
  /\ UNCHANGED <<metadata, storage, pc, input, answer, upload, reg, cur, src, broken,
                 history>>

(* All but the last byte is passed on. *)
GetSend(r) ==
  /\ pc[r] = "g_stream" /\ out[r] < Length(r) - 1 /\ out[r] < Len(src[r])
  /\ out' = [out EXCEPT ![r] = @ + 1]
  /\ UNCHANGED <<metadata, storage, pc, input, answer, upload, reg, cur, src, broken,
                 history>>

(* The last byte follows when storage has ended the stream after it. *)
GetEnd(r) ==
  /\ pc[r] = "g_stream"
  /\ out[r] = Len(src[r]) \/ out[r] >= Length(r) - 1
  /\ IF Len(src[r]) = Length(r)
       THEN Reply(r, "200") /\ out' = [out EXCEPT ![r] = Length(r)]
       ELSE Reply(r, IF Length(r) = 0 THEN "error" ELSE "aborted") /\ UNCHANGED out
  /\ UNCHANGED <<metadata, storage, input, upload, reg, cur, src, broken, history>>

(* The stream from storage ends in an error, or the client leaves. *)
GetBreak(r) ==
  /\ pc[r] = "g_stream"
  /\ broken' = broken \cup {r}
  /\ Reply(r, IF Length(r) = 0 THEN "error" ELSE "aborted")
  /\ UNCHANGED <<metadata, storage, input, upload, reg, cur, src, out, history>>

-----------------------------------------------------------------------------
Put(r) ==
  PutHead(r) \/ PutSend(r) \/ PutClose(r) \/ PutRecv(r) \/ PutDone(r) \/ PutTimeout(r)

Store(r) == StoreRecv(r) \/ StoreStaged(r) \/ StorePublish(r) \/ StoreCheck(r)

Get(r) == GetMeta(r) \/ GetOpen(r) \/ GetSend(r) \/ GetEnd(r)

Fault(r) ==
  \/ PutHeadFail(r) \/ PutBodyError(r) \/ PutStoreFail(r) \/ StoreFail(r)
  \/ GetFail(r) \/ GetBreak(r)

Metadata(r) == MetaCommit(r) \/ MetaRefuse(r)

Next ==
  \/ \E r \in Request :
       \/ ServeHTTP(r) \/ PutStart(r) \/ Put(r) \/ Store(r) \/ Metadata(r)
       \/ GetStart(r) \/ Get(r) \/ Fault(r)
  \/ CreateBucket \/ DeleteBucket \/ \E k \in Key : DeleteObjectMeta(k)

Spec == Init /\ [][Next]_vars

(* The gateway and storage go on, and clients send and take their bytes;   *)
(* the metadata service may hang for ever once it has been asked to commit.*)
FairSpec == Spec /\ \A r \in Request : WF_vars(Put(r) \/ Get(r)) /\ WF_vars(Store(r))

-----------------------------------------------------------------------------
(* Storage before metadata: whatever fails, is cancelled or comes late,    *)
(* every version in the catalogue names a published blob that is the whole *)
(* body of a PUT of its key, with its size and its checksum.  So GET never *)
(* finds a blob missing or cut short.                                      *)
CatalogBacked ==
  \A k \in Key : \A b \in Logged(k) :
    /\ file[b] # None /\ row[b] # None
    /\ row[b] = [size |-> Len(file[b]), etag |-> file[b]]
    /\ \E r \in Request : id[r] = b /\ key[r] = k /\ file[b] = body[r]

(* An answer that refuses a PUT is final: no version of it is in the       *)
(* catalogue or will get there, and a body that could not be read leaves   *)
(* no blob either.  (After 499 and 5xx both may still appear.)             *)
RefusedIsNotRegistered ==
  \A r \in Request : id[r] # None =>
    /\ answer[r] \in {"400", "404", "body"} =>
         reg[r] # "pending" /\ \A k \in Key : id[r] \notin Logged(k)
    /\ answer[r] = "body" => file[id[r]] = None /\ up[r] \in {"recv", "failed"}

(* A GET response that has its Content-Length is the current version's     *)
(* content, and storage has confirmed the end of the stream: one that      *)
(* broke never looks complete to the client.                               *)
CompleteMeansVerified ==
  \A r \in Request :
    cur[r] # None /\ (answer[r] = "200" \/ (out[r] > 0 /\ out[r] = Length(r))) =>
      /\ answer[r] = "200" /\ r \notin broken
      /\ src[r] = row[cur[r]].etag /\ out[r] = Len(src[r])

(* Read your writes through the gateway: a GET that begins after a PUT of  *)
(* its key was answered 200 finds that version or a later one, unless the  *)
(* object was deleted.                                                     *)
ReadYourWrites ==
  \A r \in Request :
    /\ answer[r] = "404" => floor[r] \subseteq gone
    /\ cur[r] # None => \A b \in floor[r] \ gone :
         LET versions == log[key[r]]
         IN \E i, j \in 1..Len(versions) : i <= j /\ versions[i] = b /\ versions[j] = cur[r]

(* A metadata service that hangs does not hang the gateway: every HTTP     *)
(* request is answered.                                                    *)
EveryRequestAnswered == \A r \in Request : pc[r] # "new" ~> pc[r] = "done"
=============================================================================
