--------------------------- MODULE Gateway_proofs ---------------------------
(***************************************************************************)
(* Proofs about Gateway, for any number of HTTP requests, keys, bodies and *)
(* blob identifiers.                                                       *)
(***************************************************************************)
EXTENDS Gateway, TLAPS, SequenceTheorems

(* Every variable has its type. *)
TypeOK ==
  /\ open \in {"yes", "no"}
  /\ log \in [Key -> Seq(BlobId)]
  /\ row \in [BlobId -> [size : Nat, etag : Seq(Piece)] \cup {None}]
  /\ file \in [BlobId -> Seq(Piece) \cup {None}]
  /\ used \subseteq BlobId
  /\ pc \in [Request -> {"new", "p_head", "p_send", "p_recv", "p_wait",
                         "g_meta", "g_open", "g_stream", "done"}]
  /\ key \in [Request -> Key \cup {None}]
  /\ body \in [Request -> Seq(Piece)]
  /\ size \in [Request -> Nat \cup {None}]
  /\ sent \in [Request -> Nat]
  /\ answer \in [Request -> {"200", "400", "404", "405", "body", "error", "aborted", None}]
  /\ up \in [Request -> {"none", "recv", "staged", "published", "stored", "invalid", "failed"}]
  /\ id \in [Request -> BlobId \cup {None}]
  /\ got \in [Request -> Nat]
  /\ closed \subseteq Request
  /\ reg \in [Request -> {"none", "pending", "ok", "notfound", "invalid", "failed"}]
  /\ cur \in [Request -> BlobId \cup {None}]
  /\ src \in [Request -> Seq(Piece) \cup {None}]
  /\ out \in [Request -> Nat]
  /\ broken \subseteq Request
  /\ floor \in [Request -> SUBSET BlobId]
  /\ gone \subseteq BlobId

(* How far the three threads of a PUT can be from each other. *)
FlowOf(r) ==
  /\ pc[r] \in {"new", "p_head", "g_meta", "g_open", "g_stream"} => up[r] = "none"
  /\ pc[r] \in {"p_head", "g_meta"} => key[r] \in Key
  /\ pc[r] = "p_send" => up[r] \in {"recv", "failed"} /\ r \notin closed
  /\ pc[r] = "p_recv" => up[r] # "none" /\ reg[r] = "none"
  /\ pc[r] = "p_wait" => reg[r] # "none"
  /\ up[r] = "none" => id[r] = None /\ r \notin closed /\ sent[r] = 0 /\ got[r] = 0
  /\ up[r] # "none" => id[r] \in used /\ key[r] \in Key
  /\ up[r] \in {"staged", "published", "stored"} => r \in closed /\ got[r] = sent[r]
  /\ up[r] # "invalid"
  /\ reg[r] # "none" => up[r] = "stored" /\ pc[r] \in {"p_wait", "done"}
  /\ sent[r] <= Len(body[r]) /\ got[r] <= sent[r]
  /\ r \in closed => sent[r] = Len(body[r])
  /\ size[r] \in {None, Len(body[r])}
  /\ pc[r] # "done" => answer[r] = None
  /\ answer[r] \in {"400", "404", "body"} => reg[r] \notin {"pending", "ok"}
  /\ answer[r] = "body" => r \notin closed /\ up[r] \in {"recv", "failed"}
  /\ answer[r] = "200" /\ id[r] # None => reg[r] = "ok"

FlowInv == \A r \in Request : FlowOf(r)

(* Blob ids are not shared. *)
IdInv == \A r, s \in Request : id[r] # None /\ id[r] = id[s] => r = s

(* What storage and metadata have of a PUT that got that far. *)
BlobInv ==
  /\ \A b \in BlobId : file[b] # None =>
       \E r \in Request : id[r] = b /\ up[r] \in {"published", "stored"}
  /\ \A r \in Request : up[r] \in {"published", "stored"} => file[id[r]] = body[r]
  /\ \A r \in Request : reg[r] = "ok" => row[id[r]] = [size |-> Len(body[r]), etag |-> body[r]]

(* The catalogue has what was registered, until it is deleted, and no more. *)
LogInv ==
  /\ \A k \in Key : \A b \in Logged(k) :
       \E r \in Request : id[r] = b /\ key[r] = k /\ reg[r] = "ok"
  /\ \A r \in Request : reg[r] = "ok" => id[r] \in Logged(key[r]) \cup gone

(* What a GET has found and still relies on. *)
GetOf(r) ==
  /\ pc[r] \in {"new", "p_head", "g_meta"} \/ up[r] # "none" => cur[r] = None
  /\ pc[r] \in {"g_open", "g_stream"} => cur[r] # None
  /\ pc[r] \in {"new", "p_head", "g_meta", "g_open"} => out[r] = 0 /\ r \notin broken
  /\ pc[r] = "g_stream" => src[r] = file[cur[r]] /\ src[r] # None /\ r \notin broken
  /\ cur[r] # None =>
       /\ key[r] \in Key
       /\ \E q \in Request : id[q] = cur[r] /\ reg[q] = "ok"
       /\ answer[r] = "200" =>
            src[r] = file[cur[r]] /\ r \notin broken /\ out[r] = Length(r)
       /\ answer[r] # "200" => out[r] = 0 \/ out[r] < Length(r)

GetInv == \A r \in Request : GetOf(r)

(* What was reported before a GET began is in the history or was deleted,  *)
(* and what the GET found is not older (ReadYourWrites, of one request).   *)
FloorOf(r) ==
  /\ pc[r] \in {"new", "p_head"} \/ up[r] # "none" => floor[r] = {}
  /\ \A b \in floor[r] : key[r] \in Key /\ b \in gone \cup Logged(key[r])
  /\ answer[r] = "404" => floor[r] \subseteq gone
  /\ cur[r] # None => \A b \in floor[r] \ gone :
       \E i, j \in 1..Len(log[key[r]]) :
         i <= j /\ log[key[r]][i] = b /\ log[key[r]][j] = cur[r]

FloorInv == \A r \in Request : FloorOf(r)

Inv == TypeOK /\ FlowInv /\ IdInv /\ BlobInv /\ LogInv /\ GetInv /\ FloorInv

(* The steps of one request, and Next as their union with the deletions. *)
RequestNext(r) ==
  \/ ServeHTTP(r) \/ PutStart(r) \/ Put(r) \/ Store(r) \/ Metadata(r)
  \/ GetStart(r) \/ Get(r) \/ Fault(r)

LEMMA NextCases ==
  ASSUME [Next]_vars
  PROVE  \/ \E r \in Request : RequestNext(r)
         \/ CreateBucket \/ DeleteBucket \/ \E k \in Key : DeleteObjectMeta(k)
         \/ UNCHANGED vars
  BY DEF Next, RequestNext

-----------------------------------------------------------------------------
(* What the helpers of the model return. *)

(* The classes of HTTP answers. *)
LEMMA StatusType ==
  ASSUME NEW code
  PROVE  /\ HttpStatus(code) \in {"200", "404", "400", "error"}
         /\ HttpStatus(code) = "200" <=> code = "ok"
         /\ HttpStatus(code) \in {"404", "400"} <=> code \in {"notfound", "invalid"}
  BY DEF HttpStatus

(* What storage has received is a sequence of pieces. *)
LEMMA ReceivedType ==
  ASSUME TypeOK, NEW r \in Request, got[r] <= Len(body[r])
  PROVE  Received(r) \in Seq(Piece)
<1>1. body[r] \in Seq(Piece) /\ got[r] \in Nat
  BY DEF TypeOK
<1>2. \A i \in 1..got[r] : body[r][i] \in Piece
  BY <1>1
<1> QED
  BY <1>1, <1>2, SubSeqProperties DEF Received

(* A stream that was read to its end has delivered the whole body. *)
LEMMA ReceivedAll ==
  ASSUME TypeOK, NEW r \in Request, got[r] = Len(body[r])
  PROVE  Received(r) = body[r]
<1>1. body[r] \in Seq(Piece)
  BY DEF TypeOK
<1> QED
  BY <1>1, SubSeqFull DEF Received

(* Histories hold blob ids. *)
LEMMA LoggedType ==
  ASSUME TypeOK, NEW k \in Key
  PROVE  Logged(k) \subseteq BlobId
<1>1. log[k] \in Seq(BlobId)
  BY DEF TypeOK
<1> QED
  BY <1>1 DEF Logged

(* A commit adds its blob to one history. *)
LEMMA LoggedAppend ==
  ASSUME TypeOK, NEW k \in Key, NEW b \in BlobId,
         log' = [log EXCEPT ![k] = Append(@, b)]
  PROVE  /\ Logged(k)' = Logged(k) \cup {b}
         /\ \A j \in Key : j # k => Logged(j)' = Logged(j)
<1>1. log[k] \in Seq(BlobId) /\ log'[k] = Append(log[k], b)
  BY DEF TypeOK
<1>2. /\ Len(log'[k]) = Len(log[k]) + 1 /\ Len(log[k]) \in Nat
      /\ log'[k][Len(log[k]) + 1] = b
      /\ \A i \in 1..Len(log[k]) : log'[k][i] = log[k][i]
  BY <1>1, AppendProperties
<1>3. Logged(k)' = Logged(k) \cup {b}
  BY <1>2 DEF Logged
<1>4. \A j \in Key : j # k => log'[j] = log[j]
  BY DEF TypeOK
<1> QED
  BY <1>3, <1>4 DEF Logged

(* No commit, no deletion: the same histories. *)
LEMMA LogSame ==
  ASSUME UNCHANGED log
  PROVE  \A k : Logged(k)' = Logged(k)
  BY DEF Logged

(* A registered version has a key. *)
LEMMA OkHasKey ==
  ASSUME FlowInv
  PROVE  \A r \in Request : reg[r] = "ok" => key[r] \in Key
  BY DEF FlowInv, FlowOf

(* The version GetObjectMeta names is in the history. *)
LEMMA LastIsBlob ==
  ASSUME TypeOK, NEW k \in Key, log[k] # <<>>
  PROVE  Len(log[k]) \in 1..Len(log[k]) /\ log[k][Len(log[k])] \in Logged(k)
                                        /\ log[k][Len(log[k])] \in BlobId
<1>1. log[k] \in Seq(BlobId)
  BY DEF TypeOK
<1> QED
  BY <1>1 DEF Logged

-----------------------------------------------------------------------------
(* Every step keeps the types. *)
LEMMA TypeNext == TypeOK /\ FlowInv /\ GetInv /\ [Next]_vars => TypeOK'
<1> SUFFICES ASSUME TypeOK, FlowInv, GetInv, [Next]_vars PROVE TypeOK'
  BY Zenon
<1> USE DEF TypeOK, metadata, storage, input, upload, download, history, Goto, Reply
<1>1. ASSUME NEW r \in Request, RequestNext(r) PROVE TypeOK'
  <2>1. CASE ServeHTTP(r)
    BY <2>1 DEF ServeHTTP
  <2>2. CASE PutStart(r)
    <3>1. PICK k \in Key, b \in Body :
            /\ key' = [key EXCEPT ![r] = k]
            /\ body' = [body EXCEPT ![r] = b]
            /\ \E s \in {None, Len(b)} : size' = [size EXCEPT ![r] = s]
      BY <2>2 DEF PutStart
    <3>2. b \in Seq(Piece)
      BY BodyAssumption
    <3>3. PICK s \in {None, Len(b)} : size' = [size EXCEPT ![r] = s]
      BY <3>1
    <3>4. s \in Nat \cup {None}
      BY <3>2
    <3> QED
      BY <2>2, <3>1, <3>2, <3>3, <3>4 DEF PutStart
  <2>3. CASE PutHead(r)
    <3>1. CASE open = "no"
      BY <2>3, <3>1 DEF PutHead
    <3>2. CASE open # "no"
      <4>1. PICK b \in BlobId : id' = [id EXCEPT ![r] = b] /\ used' = used \cup {b}
        BY <2>3, <3>2 DEF PutHead
      <4> QED
        BY <2>3, <3>2, <4>1 DEF PutHead
    <3> QED
      BY <3>1, <3>2
  <2>4. CASE PutSend(r)
    BY <2>4, SMTT(20) DEF PutSend
  <2>5. CASE PutClose(r)
    BY <2>5 DEF PutClose
  <2>6. CASE PutRecv(r)
    <3>1. CASE up[r] = "stored"
      BY <2>6, <3>1 DEF PutRecv
    <3>2. CASE up[r] # "stored"
      <4>1. HttpStatus(up[r]) \in {"200", "404", "400", "error"}
        BY StatusType
      <4> QED
        BY <2>6, <3>2, <4>1 DEF PutRecv
    <3> QED
      BY <3>1, <3>2
  <2>7. CASE PutDone(r)
    BY <2>7, StatusType DEF PutDone
  <2>8. CASE PutTimeout(r)
    BY <2>8 DEF PutTimeout
  <2>9. CASE StoreRecv(r)
    BY <2>9 DEF StoreRecv
  <2>10. CASE StoreStaged(r)
    BY <2>10 DEF StoreStaged
  <2>11. CASE StorePublish(r)
    <3>1. Received(r) \in Seq(Piece)
      BY ReceivedType DEF FlowInv, FlowOf
    <3>2. id[r] \in BlobId
      BY <2>11 DEF StorePublish, FlowInv, FlowOf
    <3> QED
      BY <2>11, <3>1, <3>2 DEF StorePublish
  <2>12. CASE StoreCheck(r)
    BY <2>12 DEF StoreCheck
  <2>13. CASE MetaCommit(r)
    <3>1. Received(r) \in Seq(Piece)
      BY ReceivedType DEF FlowInv, FlowOf
    <3>2. id[r] \in BlobId /\ key[r] \in Key
      BY <2>13 DEF MetaCommit, FlowInv, FlowOf
    <3>3. Append(log[key[r]], id[r]) \in Seq(BlobId)
      BY <3>2
    <3> QED
      BY <2>13, <3>1, <3>2, <3>3 DEF MetaCommit, Meta!CreateObjectVersion
  <2>14. CASE MetaRefuse(r)
    <3>1. PICK e \in {"notfound", "invalid", "failed"} : reg' = [reg EXCEPT ![r] = e]
      BY <2>14 DEF MetaRefuse
    <3> QED
      BY <2>14, <3>1 DEF MetaRefuse
  <2>15. CASE GetStart(r)
    <3>1. ASSUME NEW k \in Key PROVE Reported(k) \subseteq BlobId
      BY DEF Reported
    <3> QED
      BY <2>15, <3>1 DEF GetStart
  <2>16. CASE GetMeta(r)
    <3>1. key[r] \in Key
      BY <2>16 DEF GetMeta, FlowInv, FlowOf
    <3>2. log[key[r]] # <<>> => log[key[r]][Len(log[key[r]])] \in BlobId
      BY <3>1, LastIsBlob
    <3> QED
      BY <2>16, <3>2 DEF GetMeta
  <2>17. CASE GetOpen(r)
    <3>1. cur[r] \in BlobId
      BY <2>17 DEF GetOpen, GetInv, GetOf
    <3>2. file[cur[r]] \in Seq(Piece) \cup {None}
      BY <3>1
    <3> QED
      BY <2>17, <3>2 DEF GetOpen
  <2>18. CASE GetSend(r)
    BY <2>18, SMTT(20) DEF GetSend, Length
  <2>19. CASE GetEnd(r)
    <3>1. pc[r] = "g_stream"
      BY <2>19 DEF GetEnd
    <3>2. Len(src[r]) \in Nat
      BY <3>1 DEF GetInv, GetOf
    <3>3. CASE Len(src[r]) = Length(r)
      <4>1. Length(r) \in Nat /\ out' = [out EXCEPT ![r] = Length(r)]
        BY <2>19, <3>2, <3>3 DEF GetEnd
      <4> QED
        BY <2>19, <3>3, <4>1 DEF GetEnd
    <3>4. CASE Len(src[r]) # Length(r)
      BY <2>19, <3>4 DEF GetEnd
    <3> QED
      BY <3>3, <3>4
  <2>20. CASE PutHeadFail(r)
    BY <2>20 DEF PutHeadFail
  <2>21. CASE PutBodyError(r)
    BY <2>21 DEF PutBodyError
  <2>22. CASE PutStoreFail(r)
    BY <2>22 DEF PutStoreFail
  <2>23. CASE StoreFail(r)
    BY <2>23 DEF StoreFail
  <2>24. CASE GetFail(r)
    BY <2>24 DEF GetFail
  <2>25. CASE GetBreak(r)
    BY <2>25 DEF GetBreak
  <2> QED
    BY <1>1, <2>1, <2>2, <2>3, <2>4, <2>5, <2>6, <2>7, <2>8, <2>9, <2>10, <2>11, <2>12,
       <2>13, <2>14, <2>15, <2>16, <2>17, <2>18, <2>19, <2>20, <2>21, <2>22, <2>23, <2>24,
       <2>25 DEF RequestNext, Put, Store, Metadata, Get, Fault
<1>2. CASE CreateBucket
  BY <1>2 DEF CreateBucket, Meta!CreateBucket
<1>3. CASE DeleteBucket
  <2>1. Meta!NoLog \in [Key -> Seq(BlobId)]
    BY DEF Meta!NoLog
  <2>2. UNION {Logged(k) : k \in Key} \subseteq BlobId
    BY LoggedType
  <2> QED
    BY <1>3, <2>1, <2>2 DEF DeleteBucket, Meta!DeleteBucket
<1>4. ASSUME NEW k \in Key, DeleteObjectMeta(k) PROVE TypeOK'
  BY <1>4, LoggedType DEF DeleteObjectMeta, Meta!DeleteObjectMeta
<1>5. CASE UNCHANGED vars
  BY <1>5 DEF vars
<1> QED
  BY <1>1, <1>2, <1>3, <1>4, <1>5, NextCases

(* Every step keeps gateway, storage and metadata in step with each other. *)
LEMMA FlowNext == TypeOK /\ FlowInv /\ [Next]_vars => FlowInv'
<1> SUFFICES ASSUME TypeOK, FlowInv, [Next]_vars PROVE FlowInv'
  BY Zenon
<1> USE DEF TypeOK, FlowInv, FlowOf, metadata, storage, input, upload, download, history,
            Goto, Reply
<1>1. ASSUME NEW r \in Request, RequestNext(r) PROVE FlowInv'
  <2>1. CASE ServeHTTP(r)
    BY <2>1 DEF ServeHTTP
  <2>2. CASE PutStart(r)
    BY <2>2 DEF PutStart
  <2>3. CASE PutHead(r)
    <3>1. CASE open = "no"
      BY <2>3, <3>1 DEF PutHead
    <3>2. CASE open # "no"
      <4>1. PICK b \in BlobId : id' = [id EXCEPT ![r] = b] /\ used' = used \cup {b}
        BY <2>3, <3>2 DEF PutHead
      <4>2. b # None
        BY NoneAssumption
      <4>5. ASSUME NEW q \in Request, q # r PROVE FlowOf(q)'
        BY <2>3, <3>2, <4>1, <4>2, <4>5 DEF PutHead
      <4>6. FlowOf(r)'
        BY <2>3, <3>2, <4>1, <4>2, NoneAssumption DEF PutHead
      <4> QED
        BY <4>5, <4>6
    <3> QED
      BY <3>1, <3>2
  <2>4. CASE PutSend(r)
    BY <2>4 DEF PutSend
  <2>5. CASE PutClose(r)
    <3>1. closed' = closed \cup {r} /\ pc' = [pc EXCEPT ![r] = "p_recv"]
      BY <2>5 DEF PutClose
    <3>2. reg[r] = "none" /\ up[r] # "none" /\ sent[r] = Len(body[r])
      BY <2>5 DEF PutClose
    <3>5. ASSUME NEW q \in Request, q # r PROVE FlowOf(q)'
      BY <2>5, <3>1, <3>2, <3>5 DEF PutClose
    <3>6. FlowOf(r)'
      BY <2>5, <3>1, <3>2, NoneAssumption DEF PutClose
    <3> QED
      BY <3>5, <3>6
  <2>6. CASE PutRecv(r)
    <3>1. CASE up[r] = "stored"
      <4>5. ASSUME NEW q \in Request, q # r PROVE FlowOf(q)'
        BY <2>6, <3>1, <4>5 DEF PutRecv
      <4>6. FlowOf(r)'
        BY <2>6, <3>1, NoneAssumption DEF PutRecv
      <4> QED
        BY <4>5, <4>6
    <3>2. CASE up[r] # "stored"
      <4>1. up[r] = "failed"
        BY <2>6, <3>2 DEF PutRecv
      <4>2. HttpStatus(up[r]) = "error"
        BY <4>1 DEF HttpStatus
      <4> QED
        BY <2>6, <3>2, <4>1, <4>2 DEF PutRecv
    <3> QED
      BY <3>1, <3>2
  <2>7. CASE PutDone(r)
    BY <2>7 DEF PutDone, HttpStatus
  <2>8. CASE PutTimeout(r)
    BY <2>8 DEF PutTimeout
  <2>9. CASE StoreRecv(r)
    BY <2>9 DEF StoreRecv
  <2>10. CASE StoreStaged(r)
    BY <2>10 DEF StoreStaged
  <2>11. CASE StorePublish(r)
    BY <2>11 DEF StorePublish, Received
  <2>12. CASE StoreCheck(r)
    BY <2>12 DEF StoreCheck
  <2>13. CASE MetaCommit(r)
    BY <2>13 DEF MetaCommit, Received, Meta!CreateObjectVersion
  <2>14. CASE MetaRefuse(r)
    BY <2>14 DEF MetaRefuse
  <2>15. CASE GetStart(r)
    BY <2>15 DEF GetStart, Reported
  <2>16. CASE GetMeta(r)
    BY <2>16 DEF GetMeta
  <2>17. CASE GetOpen(r)
    BY <2>17 DEF GetOpen
  <2>18. CASE GetSend(r)
    BY <2>18 DEF GetSend, Length
  <2>19. CASE GetEnd(r)
    BY <2>19 DEF GetEnd, Length
  <2>20. CASE PutHeadFail(r)
    BY <2>20 DEF PutHeadFail
  <2>21. CASE PutBodyError(r)
    BY <2>21 DEF PutBodyError
  <2>22. CASE PutStoreFail(r)
    BY <2>22 DEF PutStoreFail
  <2>23. CASE StoreFail(r)
    BY <2>23 DEF StoreFail
  <2>24. CASE GetFail(r)
    BY <2>24 DEF GetFail
  <2>25. CASE GetBreak(r)
    BY <2>25 DEF GetBreak, Length
  <2> QED
    BY <1>1, <2>1, <2>2, <2>3, <2>4, <2>5, <2>6, <2>7, <2>8, <2>9, <2>10, <2>11, <2>12,
       <2>13, <2>14, <2>15, <2>16, <2>17, <2>18, <2>19, <2>20, <2>21, <2>22, <2>23, <2>24,
       <2>25 DEF RequestNext, Put, Store, Metadata, Get, Fault
<1>2. CASE CreateBucket
  BY <1>2 DEF CreateBucket, Meta!CreateBucket
<1>3. CASE DeleteBucket
  BY <1>3 DEF DeleteBucket, Meta!DeleteBucket, Meta!NoLog
<1>4. ASSUME NEW k \in Key, DeleteObjectMeta(k) PROVE FlowInv'
  BY <1>4 DEF DeleteObjectMeta, Meta!DeleteObjectMeta
<1>5. CASE UNCHANGED vars
  BY <1>5 DEF vars
<1> QED
  BY <1>1, <1>2, <1>3, <1>4, <1>5, NextCases

(* A new blob id is one that nobody has. *)
LEMMA IdNext == TypeOK /\ FlowInv /\ IdInv /\ [Next]_vars => IdInv'
<1> SUFFICES ASSUME TypeOK, FlowInv, IdInv, [Next]_vars PROVE IdInv'
  BY Zenon
<1> USE DEF TypeOK, FlowInv, FlowOf, IdInv, metadata, storage, input, upload, download,
            history, Goto, Reply
<1>1. ASSUME NEW r \in Request, RequestNext(r) PROVE IdInv'
  <2>1. CASE ServeHTTP(r)
    BY <2>1 DEF ServeHTTP
  <2>2. CASE PutStart(r)
    BY <2>2 DEF PutStart
  <2>3. CASE PutHead(r)
    <3>1. CASE open = "no"
      BY <2>3, <3>1 DEF PutHead
    <3>2. CASE open # "no"
      <4>1. PICK b \in BlobId \ used : id' = [id EXCEPT ![r] = b]
        BY <2>3, <3>2 DEF PutHead
      <4>2. \A q \in Request : id[q] # b
        BY <4>1, NoneAssumption
      <4> QED
        BY <4>1, <4>2
    <3> QED
      BY <3>1, <3>2
  <2>4. CASE PutSend(r)
    BY <2>4 DEF PutSend
  <2>5. CASE PutClose(r)
    BY <2>5 DEF PutClose
  <2>6. CASE PutRecv(r)
    BY <2>6 DEF PutRecv, HttpStatus
  <2>7. CASE PutDone(r)
    BY <2>7 DEF PutDone, HttpStatus
  <2>8. CASE PutTimeout(r)
    BY <2>8 DEF PutTimeout
  <2>9. CASE StoreRecv(r)
    BY <2>9 DEF StoreRecv
  <2>10. CASE StoreStaged(r)
    BY <2>10 DEF StoreStaged
  <2>11. CASE StorePublish(r)
    BY <2>11 DEF StorePublish, Received
  <2>12. CASE StoreCheck(r)
    BY <2>12 DEF StoreCheck
  <2>13. CASE MetaCommit(r)
    BY <2>13 DEF MetaCommit, Received, Meta!CreateObjectVersion
  <2>14. CASE MetaRefuse(r)
    BY <2>14 DEF MetaRefuse
  <2>15. CASE GetStart(r)
    BY <2>15 DEF GetStart, Reported
  <2>16. CASE GetMeta(r)
    BY <2>16 DEF GetMeta
  <2>17. CASE GetOpen(r)
    BY <2>17 DEF GetOpen
  <2>18. CASE GetSend(r)
    BY <2>18 DEF GetSend, Length
  <2>19. CASE GetEnd(r)
    BY <2>19 DEF GetEnd, Length
  <2>20. CASE PutHeadFail(r)
    BY <2>20 DEF PutHeadFail
  <2>21. CASE PutBodyError(r)
    BY <2>21 DEF PutBodyError
  <2>22. CASE PutStoreFail(r)
    BY <2>22 DEF PutStoreFail
  <2>23. CASE StoreFail(r)
    BY <2>23 DEF StoreFail
  <2>24. CASE GetFail(r)
    BY <2>24 DEF GetFail
  <2>25. CASE GetBreak(r)
    BY <2>25 DEF GetBreak, Length
  <2> QED
    BY <1>1, <2>1, <2>2, <2>3, <2>4, <2>5, <2>6, <2>7, <2>8, <2>9, <2>10, <2>11, <2>12,
       <2>13, <2>14, <2>15, <2>16, <2>17, <2>18, <2>19, <2>20, <2>21, <2>22, <2>23, <2>24,
       <2>25 DEF RequestNext, Put, Store, Metadata, Get, Fault
<1>2. CASE CreateBucket
  BY <1>2 DEF CreateBucket, Meta!CreateBucket
<1>3. CASE DeleteBucket
  BY <1>3 DEF DeleteBucket, Meta!DeleteBucket, Meta!NoLog
<1>4. ASSUME NEW k \in Key, DeleteObjectMeta(k) PROVE IdInv'
  BY <1>4 DEF DeleteObjectMeta, Meta!DeleteObjectMeta
<1>5. CASE UNCHANGED vars
  BY <1>5 DEF vars
<1> QED
  BY <1>1, <1>2, <1>3, <1>4, <1>5, NextCases

(* What was published and what was registered is the body of its PUT. *)
LEMMA BlobNext == TypeOK /\ FlowInv /\ IdInv /\ BlobInv /\ [Next]_vars => BlobInv'
<1> SUFFICES ASSUME TypeOK, FlowInv, IdInv, BlobInv, [Next]_vars PROVE BlobInv'
  BY Zenon
<1>1. ASSUME UNCHANGED <<file, row, id, up, body, reg>> PROVE BlobInv'
  BY <1>1 DEF BlobInv
<1> USE DEF metadata, storage, input, upload, download, history, Goto, Reply
<1>2. ASSUME NEW r \in Request, RequestNext(r) PROVE BlobInv'
  <2>1. CASE PutStart(r)
    <3>1. up[r] = "none" /\ reg[r] = "none" /\ UNCHANGED <<file, row, id, up, reg>>
      BY <2>1 DEF PutStart, FlowInv, FlowOf
    <3>2. \A q \in Request : q # r => body'[q] = body[q]
      BY <2>1 DEF PutStart, TypeOK
    <3> QED
      BY <3>1, <3>2 DEF BlobInv
  <2>2. CASE PutHead(r)
    <3>1. CASE open = "no"
      BY <1>1, <2>2, <3>1 DEF PutHead
    <3>2. CASE open # "no"
      <4>1. \A q \in Request : q # r => id'[q] = id[q]
        BY <2>2, <3>2 DEF PutHead, TypeOK
      <4>2. /\ up[r] = "none" /\ reg[r] = "none" /\ id[r] = None
            /\ UNCHANGED <<file, row, body, reg>> 
            /\ up'[r] = "recv" /\ \A q \in Request : q # r => up'[q] = up[q]
        BY <2>2, <3>2 DEF PutHead, FlowInv, FlowOf, TypeOK
      <4> QED
        BY <4>1, <4>2 DEF BlobInv
    <3> QED
      BY <3>1, <3>2
  <2>3. CASE PutRecv(r)
    <3>1. reg[r] # "ok" /\ reg'[r] # "ok" /\ \A q \in Request : q # r => reg'[q] = reg[q]
      BY <2>3 DEF PutRecv, FlowInv, FlowOf, TypeOK
    <3>2. UNCHANGED <<file, row, id, up, body>>
      BY <2>3 DEF PutRecv
    <3> QED
      BY <3>1, <3>2 DEF BlobInv
  <2>4. CASE StoreStaged(r)
    <3>1. /\ up[r] = "recv" /\ up'[r] = "staged"
          /\ \A q \in Request : q # r => up'[q] = up[q]
          /\ UNCHANGED <<file, row, id, body, reg>>
      BY <2>4 DEF StoreStaged, TypeOK
    <3> QED
      BY <3>1 DEF BlobInv
  <2>5. CASE StorePublish(r)
    <3>1. id[r] \in BlobId /\ \A q \in Request : id[q] = id[r] => q = r
      BY <2>5, NoneAssumption DEF StorePublish, FlowInv, FlowOf, IdInv, TypeOK
    <3>2. Received(r) = body[r]
      BY <2>5, ReceivedAll DEF StorePublish, FlowInv, FlowOf
    <3>3. body[r] # None
      BY NoneAssumption DEF TypeOK
    <3>4. /\ file' = [file EXCEPT ![id[r]] = body[r]]
          /\ up' = [up EXCEPT ![r] = "published"]
          /\ UNCHANGED <<row, id, body, reg>>
      BY <2>5, <3>2 DEF StorePublish
    <3>5. \A q \in Request : up[q] # "none" => id[q] \in BlobId
      BY DEF FlowInv, FlowOf, TypeOK
    <3> QED
      BY <3>1, <3>3, <3>4, <3>5 DEF BlobInv, TypeOK
  <2>6. CASE StoreCheck(r)
    <3>1. size[r] \in {None, got[r]}
      BY <2>6 DEF StoreCheck, FlowInv, FlowOf
    <3>2. /\ up[r] = "published" /\ up'[r] = "stored"
          /\ \A q \in Request : q # r => up'[q] = up[q]
          /\ UNCHANGED <<file, row, id, body, reg>>
      BY <2>6, <3>1 DEF StoreCheck, TypeOK
    <3> QED
      BY <3>2 DEF BlobInv
  <2>7. CASE MetaCommit(r)
    <3>1. id[r] \in BlobId /\ \A q \in Request : id[q] = id[r] => q = r
      BY <2>7, NoneAssumption DEF MetaCommit, FlowInv, FlowOf, IdInv, TypeOK
    <3>2. Received(r) = body[r] /\ sent[r] = Len(body[r])
      BY <2>7, ReceivedAll DEF MetaCommit, FlowInv, FlowOf
    <3>3. /\ row' = [row EXCEPT ![id[r]] = [size |-> Len(body[r]), etag |-> body[r]]]
          /\ reg' = [reg EXCEPT ![r] = "ok"]
          /\ UNCHANGED <<file, id, body, up>>
      BY <2>7, <3>2 DEF MetaCommit
    <3> QED
      BY <3>1, <3>3 DEF BlobInv, TypeOK
  <2>8. CASE MetaRefuse(r)
    <3>1. /\ reg'[r] # "ok" /\ \A q \in Request : q # r => reg'[q] = reg[q]
          /\ UNCHANGED <<file, row, id, up, body>>
      BY <2>8 DEF MetaRefuse, TypeOK
    <3> QED
      BY <3>1 DEF BlobInv
  <2>9. CASE StoreFail(r)
    <3>1. /\ up[r] \in {"recv", "staged"} /\ up'[r] = "failed"
          /\ \A q \in Request : q # r => up'[q] = up[q]
          /\ UNCHANGED <<file, row, id, body, reg>>
      BY <2>9 DEF StoreFail, TypeOK
    <3> QED
      BY <3>1 DEF BlobInv
  <2>10. CASE ServeHTTP(r) \/ PutSend(r) \/ PutClose(r) \/ PutDone(r) \/ PutTimeout(r)
          \/ StoreRecv(r) \/ GetStart(r) \/ GetMeta(r) \/ GetOpen(r) \/ GetSend(r) \/
          GetEnd(r) \/ PutHeadFail(r) \/ PutBodyError(r) \/ PutStoreFail(r) \/
          GetFail(r) \/ GetBreak(r)
    BY <1>1, <2>10 DEF ServeHTTP, PutSend, PutClose, PutDone, PutTimeout, StoreRecv,
       GetStart, GetMeta, GetOpen, GetSend, GetEnd, PutHeadFail, PutBodyError,
       PutStoreFail, GetFail, GetBreak
  <2> QED
    BY <1>2, <2>1, <2>2, <2>3, <2>4, <2>5, <2>6, <2>7, <2>8, <2>9, <2>10 DEF
       RequestNext, Put, Store, Metadata, Get, Fault
<1>3. CASE CreateBucket
  BY <1>1, <1>3 DEF CreateBucket, Meta!CreateBucket
<1>4. CASE DeleteBucket
  BY <1>1, <1>4 DEF DeleteBucket
<1>5. ASSUME NEW k \in Key, DeleteObjectMeta(k) PROVE BlobInv'
  BY <1>1, <1>5 DEF DeleteObjectMeta
<1>6. CASE UNCHANGED vars
  BY <1>1, <1>6 DEF vars
<1> QED
  BY <1>2, <1>3, <1>4, <1>5, <1>6, NextCases

(* A version enters a history when it is registered and leaves it deleted. *)
LEMMA LogNext == TypeOK /\ FlowInv /\ LogInv /\ [Next]_vars => LogInv'
<1> SUFFICES ASSUME TypeOK, FlowInv, LogInv, [Next]_vars PROVE LogInv'
  BY Zenon
<1>1. ASSUME UNCHANGED <<log, id, key, reg, gone>> PROVE LogInv'
  BY <1>1, LogSame, OkHasKey DEF LogInv
<1> USE DEF metadata, storage, input, upload, download, history, Goto, Reply
<1>2. ASSUME NEW r \in Request, RequestNext(r) PROVE LogInv'
  <2>1. CASE PutStart(r)
    <3>1. /\ reg[r] = "none" /\ UNCHANGED <<log, id, reg, gone>>
          /\ \A q \in Request : q # r => key'[q] = key[q]
      BY <2>1 DEF PutStart, FlowInv, FlowOf, TypeOK
    <3>2. \A k \in Key : Logged(k)' = Logged(k)
      BY <3>1 DEF Logged
    <3>3. \A q \in Request : reg[q] = "ok" => q # r
      BY <3>1
    <3> QED
      BY <3>1, <3>2, <3>3, OkHasKey DEF LogInv
  <2>2. CASE PutHead(r)
    <3>1. CASE open = "no"
      BY <1>1, <2>2, <3>1 DEF PutHead
    <3>2. CASE open # "no"
      <4>1. \A q \in Request : q # r => id'[q] = id[q]
        BY <2>2, <3>2 DEF PutHead, TypeOK
      <4>2. /\ up[r] = "none" /\ reg[r] = "none" /\ id[r] = None
            /\ UNCHANGED <<log, key, reg, gone>> 
        BY <2>2, <3>2 DEF PutHead, FlowInv, FlowOf, TypeOK
      <4> QED
        BY <4>1, <4>2, LogSame, OkHasKey DEF LogInv
    <3> QED
      BY <3>1, <3>2
  <2>3. CASE PutRecv(r)
    <3>1. reg[r] # "ok" /\ reg'[r] # "ok" /\ \A q \in Request : q # r => reg'[q] = reg[q]
      BY <2>3 DEF PutRecv, FlowInv, FlowOf, TypeOK
    <3>2. UNCHANGED <<log, id, key, gone>>
      BY <2>3 DEF PutRecv
    <3> QED
      BY <3>1, <3>2, LogSame, OkHasKey DEF LogInv
  <2>4. CASE MetaCommit(r)
    <3>1. id[r] \in BlobId /\ key[r] \in Key
      BY <2>4 DEF MetaCommit, FlowInv, FlowOf, TypeOK
    <3>2. log' = [log EXCEPT ![key[r]] = Append(@, id[r])]
      BY <2>4 DEF MetaCommit, Meta!CreateObjectVersion
    <3>3. PICK k \in Key : k = key[r]
      BY <3>1
    <3>4. /\ Logged(k)' = Logged(k) \cup {id[r]}
          /\ \A j \in Key : j # k => Logged(j)' = Logged(j)
      BY <3>1, <3>2, <3>3, LoggedAppend
    <3>5. /\ reg'[r] = "ok" /\ \A q \in Request : q # r => reg'[q] = reg[q]
          /\ UNCHANGED <<id, key, gone>>
      BY <2>4 DEF MetaCommit, TypeOK
    <3>6. ASSUME NEW j \in Key, NEW b \in Logged(j)'
          PROVE  \E q \in Request : id'[q] = b /\ key'[q] = j /\ reg'[q] = "ok"
      <4>1. CASE j = k /\ b = id[r]
        BY <4>1, <3>3, <3>5
      <4>2. CASE b \in Logged(j)
        BY <4>2, <3>5 DEF LogInv
      <4> QED
        BY <3>4, <3>6, <4>1, <4>2
    <3>7. ASSUME NEW q \in Request, reg'[q] = "ok"
          PROVE  (id[q] \in Logged(key[q]) \cup gone)'
      <4>1. CASE q = r
        BY <4>1, <3>3, <3>4, <3>5
      <4>2. CASE q # r
        <5>1. reg[q] = "ok" /\ key[q] \in Key
          BY <4>2, <3>5, <3>7, OkHasKey
        <5> QED
          BY <5>1, <3>4, <3>5 DEF LogInv
      <4> QED
        BY <4>1, <4>2
    <3> QED
      BY <3>5, <3>6, <3>7 DEF LogInv
  <2>5. CASE MetaRefuse(r)
    <3>1. /\ reg[r] # "ok" /\ reg'[r] # "ok" /\ \A q \in Request : q # r => reg'[q] = reg[q]
          /\ UNCHANGED <<log, id, key, gone>>
      BY <2>5 DEF MetaRefuse, TypeOK
    <3> QED
      BY <3>1, LogSame, OkHasKey DEF LogInv
  <2>6. CASE GetStart(r)
    <3>1. /\ reg[r] = "none" /\ UNCHANGED <<log, id, reg, gone>>
          /\ \A q \in Request : q # r => key'[q] = key[q]
      BY <2>6 DEF GetStart, FlowInv, FlowOf, TypeOK
    <3>2. \A k \in Key : Logged(k)' = Logged(k)
      BY <3>1 DEF Logged
    <3>3. \A q \in Request : reg[q] = "ok" => q # r
      BY <3>1
    <3> QED
      BY <3>1, <3>2, <3>3, OkHasKey DEF LogInv
  <2>7. CASE ServeHTTP(r) \/ PutSend(r) \/ PutClose(r) \/ PutDone(r) \/ PutTimeout(r)
          \/ StoreRecv(r) \/ StoreStaged(r) \/ StorePublish(r) \/ StoreCheck(r) \/
          GetMeta(r) \/ GetOpen(r) \/ GetSend(r) \/ GetEnd(r) \/ PutHeadFail(r) \/
          PutBodyError(r) \/ PutStoreFail(r) \/ StoreFail(r) \/ GetFail(r) \/
          GetBreak(r)
    BY <1>1, <2>7 DEF ServeHTTP, PutSend, PutClose, PutDone, PutTimeout, StoreRecv,
       StoreStaged, StorePublish, StoreCheck, GetMeta, GetOpen, GetSend, GetEnd,
       PutHeadFail, PutBodyError, PutStoreFail, StoreFail, GetFail, GetBreak
  <2> QED
    BY <1>2, <2>1, <2>2, <2>3, <2>4, <2>5, <2>6, <2>7 DEF RequestNext, Put, Store,
       Metadata, Get, Fault
<1>3. CASE CreateBucket
  BY <1>1, <1>3 DEF CreateBucket, Meta!CreateBucket
<1>4. CASE DeleteBucket
  <2>1. \A k \in Key : Logged(k)' = {}
    BY <1>4 DEF DeleteBucket, Meta!DeleteBucket, Meta!NoLog, Logged
  <2>2. \A k \in Key : Logged(k) \subseteq gone'
    BY <1>4 DEF DeleteBucket
  <2>3. gone \subseteq gone' /\ UNCHANGED <<id, key, reg>>
    BY <1>4 DEF DeleteBucket
  <2> QED
    BY <2>1, <2>2, <2>3, OkHasKey DEF LogInv
<1>5. ASSUME NEW k \in Key, DeleteObjectMeta(k) PROVE LogInv'
  <2>1. Logged(k)' = {} /\ \A j \in Key : j # k => Logged(j)' = Logged(j)
    BY <1>5 DEF DeleteObjectMeta, Meta!DeleteObjectMeta, Logged, TypeOK
  <2>2. Logged(k) \subseteq gone' /\ gone \subseteq gone' /\ UNCHANGED <<id, key, reg>>
    BY <1>5 DEF DeleteObjectMeta
  <2> QED
    BY <2>1, <2>2, OkHasKey DEF LogInv
<1>6. CASE UNCHANGED vars
  BY <1>1, <1>6 DEF vars
<1> QED
  BY <1>2, <1>3, <1>4, <1>5, <1>6, NextCases

-----------------------------------------------------------------------------
(* What a registered version relies on stays as it is. *)
Stable ==
  \A q \in Request : reg[q] = "ok" =>
    /\ reg'[q] = "ok" /\ id'[q] = id[q]
    /\ file'[id[q]] = file[id[q]] /\ row'[id[q]] = row[id[q]]

(* No step changes the blob or the row of a registered version. *)
LEMMA CommittedIsStable == TypeOK /\ FlowInv /\ IdInv /\ [Next]_vars => Stable
<1> SUFFICES ASSUME TypeOK, FlowInv, IdInv, [Next]_vars PROVE Stable
  BY Zenon
<1>1. ASSUME UNCHANGED <<file, row, id, reg>> PROVE Stable
  BY <1>1 DEF Stable
<1> USE DEF metadata, storage, input, upload, download, history, Goto, Reply
<1>2. ASSUME NEW r \in Request, RequestNext(r) PROVE Stable
  <2>1. CASE PutHead(r)
    <3>1. reg[r] = "none" /\ \A q \in Request : q # r => id'[q] = id[q]
      BY <2>1 DEF PutHead, FlowInv, FlowOf, TypeOK
    <3>2. UNCHANGED <<file, row, reg>>
      BY <2>1 DEF PutHead
    <3> QED
      BY <3>1, <3>2 DEF Stable
  <2>2. CASE PutRecv(r)
    <3>1. reg[r] = "none" /\ \A q \in Request : q # r => reg'[q] = reg[q]
      BY <2>2 DEF PutRecv, FlowInv, FlowOf, TypeOK
    <3>2. UNCHANGED <<file, row, id>>
      BY <2>2 DEF PutRecv
    <3> QED
      BY <3>1, <3>2 DEF Stable
  <2>3. CASE StorePublish(r)
    <3>1. reg[r] = "none" /\ id[r] # None
      BY <2>3, NoneAssumption DEF StorePublish, FlowInv, FlowOf, TypeOK
    <3>2. \A q \in Request : q # r => id[q] # id[r]
      BY <3>1 DEF IdInv
    <3>3. UNCHANGED <<row, id, reg>>
      BY <2>3 DEF StorePublish
    <3>4. \A q \in Request : reg[q] = "ok" => file'[id[q]] = file[id[q]]
      <4>1. \A q \in Request : reg[q] = "ok" => id[q] \in BlobId
        BY DEF FlowInv, FlowOf, TypeOK
      <4> QED
        BY <2>3, <3>1, <3>2, <4>1 DEF StorePublish, TypeOK
    <3> QED
      BY <3>3, <3>4 DEF Stable
  <2>4. CASE StoreCheck(r)
    <3>1. size[r] \in {None, got[r]}
      BY <2>4 DEF StoreCheck, FlowInv, FlowOf
    <3> QED
      BY <2>4, <1>1, <3>1 DEF StoreCheck
  <2>5. CASE MetaCommit(r)
    <3>1. reg[r] = "pending" /\ id[r] # None
      BY <2>5, NoneAssumption DEF MetaCommit, FlowInv, FlowOf, TypeOK
    <3>2. \A q \in Request : q # r => id[q] # id[r]
      BY <3>1 DEF IdInv
    <3>3. UNCHANGED <<file, id>> /\ \A q \in Request : q # r => reg'[q] = reg[q]
      BY <2>5 DEF MetaCommit, TypeOK
    <3>4. \A q \in Request : reg[q] = "ok" => row'[id[q]] = row[id[q]]
      <4>1. \A q \in Request : reg[q] = "ok" => id[q] \in BlobId
        BY DEF FlowInv, FlowOf, TypeOK
      <4> QED
        BY <2>5, <3>1, <3>2, <4>1 DEF MetaCommit, TypeOK
    <3> QED
      BY <3>1, <3>3, <3>4 DEF Stable
  <2>6. CASE MetaRefuse(r)
    <3>1. /\ reg[r] = "pending" /\ \A q \in Request : q # r => reg'[q] = reg[q]
          /\ UNCHANGED <<file, row, id>>
      BY <2>6 DEF MetaRefuse, TypeOK
    <3> QED
      BY <3>1 DEF Stable
  <2>7. CASE ServeHTTP(r) \/ PutStart(r) \/ PutSend(r) \/ PutClose(r) \/ PutDone(r) \/
          PutTimeout(r) \/ StoreRecv(r) \/ StoreStaged(r) \/ GetStart(r) \/ GetMeta(r)
          \/ GetOpen(r) \/ GetSend(r) \/ GetEnd(r) \/ PutHeadFail(r) \/
          PutBodyError(r) \/ PutStoreFail(r) \/ StoreFail(r) \/ GetFail(r) \/
          GetBreak(r)
    BY <1>1, <2>7 DEF ServeHTTP, PutStart, PutSend, PutClose, PutDone, PutTimeout,
       StoreRecv, StoreStaged, GetStart, GetMeta, GetOpen, GetSend, GetEnd,
       PutHeadFail, PutBodyError, PutStoreFail, StoreFail, GetFail, GetBreak
  <2> QED
    BY <1>2, <2>1, <2>2, <2>3, <2>4, <2>5, <2>6, <2>7 DEF RequestNext, Put, Store,
       Metadata, Get, Fault
<1>3. CASE CreateBucket
  BY <1>1, <1>3 DEF CreateBucket, Meta!CreateBucket
<1>4. CASE DeleteBucket
  BY <1>1, <1>4 DEF DeleteBucket
<1>5. ASSUME NEW k \in Key, DeleteObjectMeta(k) PROVE Stable
  BY <1>1, <1>5 DEF DeleteObjectMeta
<1>6. CASE UNCHANGED vars
  BY <1>1, <1>6 DEF vars
<1> QED
  BY <1>2, <1>3, <1>4, <1>5, <1>6, NextCases

-----------------------------------------------------------------------------
(* The blob a GET has found is the body of a registered PUT. *)
LEMMA CurrentRow ==
  ASSUME TypeOK, FlowInv, BlobInv, GetInv, NEW r \in Request, cur[r] # None
  PROVE  /\ file[cur[r]] \in Seq(Piece)
         /\ Length(r) = Len(file[cur[r]]) /\ Length(r) \in Nat
         /\ row[cur[r]].etag = file[cur[r]]
<1>1. PICK q \in Request : id[q] = cur[r] /\ reg[q] = "ok"
  BY DEF GetInv, GetOf
<1>2. up[q] = "stored"
  BY <1>1 DEF FlowInv, FlowOf
<1>3. /\ file[cur[r]] = body[q] /\ body[q] \in Seq(Piece)
      /\ row[cur[r]] = [size |-> Len(body[q]), etag |-> body[q]]
  BY <1>1, <1>2 DEF BlobInv, TypeOK
<1> QED
  BY <1>3 DEF Length

(* A GET that takes no step keeps what it has found. *)
LEMMA GetSame ==
  ASSUME Stable, NEW r \in Request, GetOf(r),
         UNCHANGED <<pc[r], cur[r], out[r], src[r], key[r], answer[r]>>,
         up'[r] # "none" <=> up[r] # "none", r \in broken' <=> r \in broken
  PROVE  GetOf(r)'
<1>1. CASE cur[r] = None
  BY <1>1 DEF GetOf
<1>2. CASE cur[r] # None
  <2>1. PICK q \in Request : id[q] = cur[r] /\ reg[q] = "ok"
    BY <1>2 DEF GetOf
  <2>2. /\ file'[cur[r]] = file[cur[r]] /\ Length(r)' = Length(r)
        /\ id'[q] = cur'[r] /\ reg'[q] = "ok"
    BY <2>1 DEF Stable, Length
  <2> QED
    BY <2>2 DEF GetOf
<1> QED
  BY <1>1, <1>2

(* The same for all requests but the one that takes the step. *)
LEMMA OthersGet ==
  ASSUME Stable, GetInv, NEW r \in Request,
         \A q \in Request : q # r =>
           /\ UNCHANGED <<pc[q], cur[q], out[q], src[q], key[q], answer[q]>>
           /\ up'[q] = up[q] /\ (q \in broken' <=> q \in broken)
  PROVE  \A q \in Request : q # r => GetOf(q)'
  BY GetSame DEF GetInv

(* A request that has found no blob relies on nothing. *)
LEMMA GetIdle ==
  ASSUME NEW r \in Request, cur'[r] = None,
         pc'[r] \in {"p_send", "p_recv", "p_wait", "done"}
  PROVE  GetOf(r)'
  BY DEF GetOf

(* A GET goes on with the file and the row it has found. *)
LEMMA GetNext ==
  TypeOK /\ FlowInv /\ IdInv /\ BlobInv /\ LogInv /\ GetInv /\ [Next]_vars => GetInv'
<1> SUFFICES ASSUME TypeOK, FlowInv, IdInv, BlobInv, LogInv, GetInv, [Next]_vars
             PROVE  GetInv'
  BY Zenon
<1>1. ASSUME UNCHANGED <<pc, cur, out, src, key, answer, up, broken>> PROVE GetInv'
  BY <1>1, GetSame, CommittedIsStable DEF GetInv
<1> USE DEF metadata, storage, input, upload, download, history, Goto, Reply
<1>2. ASSUME NEW r \in Request, RequestNext(r) PROVE GetInv'
  <2>1. CASE ServeHTTP(r)
    <3> \A q \in Request : q # r =>
          /\ UNCHANGED <<pc[q], cur[q], out[q], src[q], key[q], answer[q]>>
          /\ up'[q] = up[q] /\ (q \in broken' <=> q \in broken)
      BY <2>1 DEF ServeHTTP, TypeOK
    <3>1. \A q \in Request : q # r => GetOf(q)'
      BY CommittedIsStable, OthersGet
    <3>2. cur[r] = None
      BY <2>1 DEF ServeHTTP, FlowInv, FlowOf, GetInv, GetOf
    <3>3. GetOf(r)'
      BY <2>1, <3>2, GetIdle DEF ServeHTTP, TypeOK
    <3> QED
      BY <3>1, <3>3 DEF GetInv
  <2>2. CASE PutStart(r)
    <3> \A q \in Request : q # r =>
          /\ UNCHANGED <<pc[q], cur[q], out[q], src[q], key[q], answer[q]>>
          /\ up'[q] = up[q] /\ (q \in broken' <=> q \in broken)
      BY <2>2 DEF PutStart, TypeOK
    <3>1. \A q \in Request : q # r => GetOf(q)'
      BY CommittedIsStable, OthersGet
    <3>2. /\ pc'[r] \in {"p_head", "g_meta"} /\ cur'[r] = None
          /\ out'[r] = 0 /\ r \notin broken'
      BY <2>2 DEF PutStart, GetInv, GetOf, TypeOK
    <3>3. GetOf(r)'
      BY <3>2 DEF GetOf
    <3> QED
      BY <3>1, <3>3 DEF GetInv
  <2>3. CASE PutHead(r)
    <3> \A q \in Request : q # r =>
          /\ UNCHANGED <<pc[q], cur[q], out[q], src[q], key[q], answer[q]>>
          /\ up'[q] = up[q] /\ (q \in broken' <=> q \in broken)
      BY <2>3 DEF PutHead, TypeOK
    <3>1. \A q \in Request : q # r => GetOf(q)'
      BY CommittedIsStable, OthersGet
    <3>2. cur[r] = None
      BY <2>3 DEF PutHead, FlowInv, FlowOf, GetInv, GetOf
    <3>3. GetOf(r)'
      BY <2>3, <3>2, GetIdle DEF PutHead, TypeOK
    <3> QED
      BY <3>1, <3>3 DEF GetInv
  <2>4. CASE PutClose(r)
    <3> \A q \in Request : q # r =>
          /\ UNCHANGED <<pc[q], cur[q], out[q], src[q], key[q], answer[q]>>
          /\ up'[q] = up[q] /\ (q \in broken' <=> q \in broken)
      BY <2>4 DEF PutClose, TypeOK
    <3>1. \A q \in Request : q # r => GetOf(q)'
      BY CommittedIsStable, OthersGet
    <3>2. cur[r] = None
      BY <2>4 DEF PutClose, FlowInv, FlowOf, GetInv, GetOf
    <3>3. GetOf(r)'
      BY <2>4, <3>2, GetIdle DEF PutClose, TypeOK
    <3> QED
      BY <3>1, <3>3 DEF GetInv
  <2>5. CASE PutRecv(r)
    <3> \A q \in Request : q # r =>
          /\ UNCHANGED <<pc[q], cur[q], out[q], src[q], key[q], answer[q]>>
          /\ up'[q] = up[q] /\ (q \in broken' <=> q \in broken)
      BY <2>5 DEF PutRecv, TypeOK
    <3>1. \A q \in Request : q # r => GetOf(q)'
      BY CommittedIsStable, OthersGet
    <3>2. cur[r] = None
      BY <2>5 DEF PutRecv, FlowInv, FlowOf, GetInv, GetOf
    <3>3. GetOf(r)'
      BY <2>5, <3>2, GetIdle DEF PutRecv, TypeOK
    <3> QED
      BY <3>1, <3>3 DEF GetInv
  <2>6. CASE PutDone(r)
    <3> \A q \in Request : q # r =>
          /\ UNCHANGED <<pc[q], cur[q], out[q], src[q], key[q], answer[q]>>
          /\ up'[q] = up[q] /\ (q \in broken' <=> q \in broken)
      BY <2>6 DEF PutDone, TypeOK
    <3>1. \A q \in Request : q # r => GetOf(q)'
      BY CommittedIsStable, OthersGet
    <3>2. cur[r] = None
      BY <2>6 DEF PutDone, FlowInv, FlowOf, GetInv, GetOf
    <3>3. GetOf(r)'
      BY <2>6, <3>2, GetIdle DEF PutDone, TypeOK
    <3> QED
      BY <3>1, <3>3 DEF GetInv
  <2>7. CASE PutTimeout(r)
    <3> \A q \in Request : q # r =>
          /\ UNCHANGED <<pc[q], cur[q], out[q], src[q], key[q], answer[q]>>
          /\ up'[q] = up[q] /\ (q \in broken' <=> q \in broken)
      BY <2>7 DEF PutTimeout, TypeOK
    <3>1. \A q \in Request : q # r => GetOf(q)'
      BY CommittedIsStable, OthersGet
    <3>2. cur[r] = None
      BY <2>7 DEF PutTimeout, FlowInv, FlowOf, GetInv, GetOf
    <3>3. GetOf(r)'
      BY <2>7, <3>2, GetIdle DEF PutTimeout, TypeOK
    <3> QED
      BY <3>1, <3>3 DEF GetInv
  <2>8. CASE StoreStaged(r)
    <3>1. \A q \in Request : up'[q] # "none" <=> up[q] # "none"
      BY <2>8 DEF StoreStaged, FlowInv, FlowOf, TypeOK
    <3>2. UNCHANGED <<pc, cur, out, src, key, answer, broken>>
      BY <2>8 DEF StoreStaged
    <3> QED
      BY <3>1, <3>2, GetSame, CommittedIsStable DEF GetInv
  <2>9. CASE StorePublish(r)
    <3>1. \A q \in Request : up'[q] # "none" <=> up[q] # "none"
      BY <2>9 DEF StorePublish, FlowInv, FlowOf, TypeOK
    <3>2. UNCHANGED <<pc, cur, out, src, key, answer, broken>>
      BY <2>9 DEF StorePublish
    <3> QED
      BY <3>1, <3>2, GetSame, CommittedIsStable DEF GetInv
  <2>10. CASE StoreCheck(r)
    <3>1. \A q \in Request : up'[q] # "none" <=> up[q] # "none"
      BY <2>10 DEF StoreCheck, FlowInv, FlowOf, TypeOK
    <3>2. UNCHANGED <<pc, cur, out, src, key, answer, broken>>
      BY <2>10 DEF StoreCheck
    <3> QED
      BY <3>1, <3>2, GetSame, CommittedIsStable DEF GetInv
  <2>11. CASE GetStart(r)
    <3> \A q \in Request : q # r =>
          /\ UNCHANGED <<pc[q], cur[q], out[q], src[q], key[q], answer[q]>>
          /\ up'[q] = up[q] /\ (q \in broken' <=> q \in broken)
      BY <2>11 DEF GetStart, TypeOK
    <3>1. \A q \in Request : q # r => GetOf(q)'
      BY CommittedIsStable, OthersGet
    <3>2. /\ pc'[r] \in {"p_head", "g_meta"} /\ cur'[r] = None
          /\ out'[r] = 0 /\ r \notin broken'
      BY <2>11 DEF GetStart, GetInv, GetOf, TypeOK
    <3>3. GetOf(r)'
      BY <3>2 DEF GetOf
    <3> QED
      BY <3>1, <3>3 DEF GetInv
  <2>12. CASE GetMeta(r)
    <3> \A q \in Request : q # r =>
          /\ UNCHANGED <<pc[q], cur[q], out[q], src[q], key[q], answer[q]>>
          /\ up'[q] = up[q] /\ (q \in broken' <=> q \in broken)
      BY <2>12 DEF GetMeta, TypeOK
    <3>1. \A q \in Request : q # r => GetOf(q)'
      BY CommittedIsStable, OthersGet
    <3>2. CASE log[key[r]] = <<>>
      BY <2>12, <3>1, <3>2, GetIdle DEF GetMeta, GetInv, GetOf, TypeOK
    <3>3. CASE log[key[r]] # <<>>
      <4>1. key[r] \in Key /\ up[r] = "none" /\ answer[r] = None
        BY <2>12 DEF GetMeta, FlowInv, FlowOf
      <4>2. /\ pc'[r] = "g_open" /\ cur'[r] = log[key[r]][Len(log[key[r]])]
            /\ UNCHANGED <<up, key, id, reg, out, broken, answer>>
        BY <2>12, <3>3 DEF GetMeta, TypeOK
      <4>3. cur'[r] \in Logged(key[r]) /\ cur'[r] \in BlobId
        BY <3>3, <4>1, <4>2, LastIsBlob
      <4>4. \E q \in Request : id'[q] = cur'[r] /\ reg'[q] = "ok"
        BY <4>1, <4>2, <4>3 DEF LogInv
      <4>5. out[r] = 0 /\ r \notin broken
        BY <2>12 DEF GetMeta, GetInv, GetOf
      <4>6. GetOf(r)'
        BY <4>1, <4>2, <4>3, <4>4, <4>5, NoneAssumption DEF GetOf
      <4> QED
        BY <3>1, <4>6 DEF GetInv
    <3> QED
      BY <3>2, <3>3
  <2>13. CASE GetOpen(r)
    <3> \A q \in Request : q # r =>
          /\ UNCHANGED <<pc[q], cur[q], out[q], src[q], key[q], answer[q]>>
          /\ up'[q] = up[q] /\ (q \in broken' <=> q \in broken)
      BY <2>13 DEF GetOpen, TypeOK
    <3>1. \A q \in Request : q # r => GetOf(q)'
      BY CommittedIsStable, OthersGet
    <3>2. /\ cur[r] # None /\ out[r] = 0 /\ up[r] = "none" /\ answer[r] = None
          /\ r \notin broken /\ key[r] \in Key
          /\ \E q \in Request : id[q] = cur[r] /\ reg[q] = "ok"
      BY <2>13 DEF GetOpen, FlowInv, FlowOf, GetInv, GetOf
    <3>3. UNCHANGED <<up, key, id, reg, out, broken, cur, file>>
      BY <2>13 DEF GetOpen
    <3>4. \/ pc'[r] = "done" /\ answer'[r] = "error"
          \/ /\ pc'[r] = "g_stream" /\ UNCHANGED answer
             /\ src'[r] = file[cur[r]] /\ file[cur[r]] # None
      BY <2>13 DEF GetOpen, OpenBlob, TypeOK
    <3>5. GetOf(r)'
      BY <3>2, <3>3, <3>4, NoneAssumption DEF GetOf
    <3> QED
      BY <3>1, <3>5 DEF GetInv
  <2>14. CASE GetSend(r)
    <3> \A q \in Request : q # r =>
          /\ UNCHANGED <<pc[q], cur[q], out[q], src[q], key[q], answer[q]>>
          /\ up'[q] = up[q] /\ (q \in broken' <=> q \in broken)
      BY <2>14 DEF GetSend, TypeOK
    <3>1. \A q \in Request : q # r => GetOf(q)'
      BY CommittedIsStable, OthersGet
    <3>2. pc[r] = "g_stream" /\ cur[r] # None /\ answer[r] = None
      BY <2>14 DEF GetSend, FlowInv, FlowOf, GetInv, GetOf
    <3>3. out[r] \in Nat /\ Length(r) \in Nat
      BY <3>2, CurrentRow DEF TypeOK
    <3>4. /\ out'[r] < Length(r) /\ Length(r)' = Length(r)
          /\ UNCHANGED <<pc, up, key, id, reg, broken, cur, file, src, answer>>
      BY <2>14, <3>2, <3>3 DEF GetSend, Length, TypeOK
    <3>5. GetOf(r)'
      BY <3>2, <3>4, NoneAssumption DEF GetOf, GetInv
    <3> QED
      BY <3>1, <3>5 DEF GetInv
  <2>15. CASE GetEnd(r)
    <3> \A q \in Request : q # r =>
          /\ UNCHANGED <<pc[q], cur[q], out[q], src[q], key[q], answer[q]>>
          /\ up'[q] = up[q] /\ (q \in broken' <=> q \in broken)
      BY <2>15 DEF GetEnd, TypeOK
    <3>1. \A q \in Request : q # r => GetOf(q)'
      BY CommittedIsStable, OthersGet
    <3>2. /\ pc[r] = "g_stream" /\ cur[r] # None /\ answer[r] = None
          /\ up[r] = "none" /\ src[r] = file[cur[r]] /\ r \notin broken
          /\ out[r] = 0 \/ out[r] < Length(r)
      BY <2>15, NoneAssumption DEF GetEnd, FlowInv, FlowOf, GetInv, GetOf
    <3>3. /\ pc'[r] = "done" /\ Length(r)' = Length(r)
          /\ UNCHANGED <<up, key, id, reg, broken, cur, file, src>>
          /\ \/ answer'[r] = "200" /\ out'[r] = Length(r)
             \/ answer'[r] # "200" /\ out'[r] = out[r]
      BY <2>15 DEF GetEnd, Length, TypeOK
    <3>4. GetOf(r)'
      BY <3>2, <3>3 DEF GetOf, GetInv
    <3> QED
      BY <3>1, <3>4 DEF GetInv
  <2>16. CASE PutHeadFail(r)
    <3> \A q \in Request : q # r =>
          /\ UNCHANGED <<pc[q], cur[q], out[q], src[q], key[q], answer[q]>>
          /\ up'[q] = up[q] /\ (q \in broken' <=> q \in broken)
      BY <2>16 DEF PutHeadFail, TypeOK
    <3>1. \A q \in Request : q # r => GetOf(q)'
      BY CommittedIsStable, OthersGet
    <3>2. cur[r] = None
      BY <2>16 DEF PutHeadFail, FlowInv, FlowOf, GetInv, GetOf
    <3>3. GetOf(r)'
      BY <2>16, <3>2, GetIdle DEF PutHeadFail, TypeOK
    <3> QED
      BY <3>1, <3>3 DEF GetInv
  <2>17. CASE PutBodyError(r)
    <3> \A q \in Request : q # r =>
          /\ UNCHANGED <<pc[q], cur[q], out[q], src[q], key[q], answer[q]>>
          /\ up'[q] = up[q] /\ (q \in broken' <=> q \in broken)
      BY <2>17 DEF PutBodyError, TypeOK
    <3>1. \A q \in Request : q # r => GetOf(q)'
      BY CommittedIsStable, OthersGet
    <3>2. cur[r] = None
      BY <2>17 DEF PutBodyError, FlowInv, FlowOf, GetInv, GetOf
    <3>3. GetOf(r)'
      BY <2>17, <3>2, GetIdle DEF PutBodyError, TypeOK
    <3> QED
      BY <3>1, <3>3 DEF GetInv
  <2>18. CASE PutStoreFail(r)
    <3> \A q \in Request : q # r =>
          /\ UNCHANGED <<pc[q], cur[q], out[q], src[q], key[q], answer[q]>>
          /\ up'[q] = up[q] /\ (q \in broken' <=> q \in broken)
      BY <2>18 DEF PutStoreFail, TypeOK
    <3>1. \A q \in Request : q # r => GetOf(q)'
      BY CommittedIsStable, OthersGet
    <3>2. cur[r] = None
      BY <2>18 DEF PutStoreFail, FlowInv, FlowOf, GetInv, GetOf
    <3>3. GetOf(r)'
      BY <2>18, <3>2, GetIdle DEF PutStoreFail, TypeOK
    <3> QED
      BY <3>1, <3>3 DEF GetInv
  <2>19. CASE StoreFail(r)
    <3>1. \A q \in Request : up'[q] # "none" <=> up[q] # "none"
      BY <2>19 DEF StoreFail, FlowInv, FlowOf, TypeOK
    <3>2. UNCHANGED <<pc, cur, out, src, key, answer, broken>>
      BY <2>19 DEF StoreFail
    <3> QED
      BY <3>1, <3>2, GetSame, CommittedIsStable DEF GetInv
  <2>20. CASE GetFail(r)
    <3> \A q \in Request : q # r =>
          /\ UNCHANGED <<pc[q], cur[q], out[q], src[q], key[q], answer[q]>>
          /\ up'[q] = up[q] /\ (q \in broken' <=> q \in broken)
      BY <2>20 DEF GetFail, TypeOK
    <3>1. \A q \in Request : q # r => GetOf(q)'
      BY CommittedIsStable, OthersGet
    <3>2. up[r] = "none" /\ out[r] = 0
      BY <2>20 DEF GetFail, FlowInv, FlowOf, GetInv, GetOf
    <3>3. /\ pc'[r] = "done" /\ answer'[r] # "200"
          /\ UNCHANGED <<up, key, id, reg, out, broken, cur, file, src>>
      BY <2>20 DEF GetFail, TypeOK
    <3>4. GetOf(r)'
      BY <3>2, <3>3 DEF GetOf, GetInv
    <3> QED
      BY <3>1, <3>4 DEF GetInv
  <2>21. CASE GetBreak(r)
    <3> \A q \in Request : q # r =>
          /\ UNCHANGED <<pc[q], cur[q], out[q], src[q], key[q], answer[q]>>
          /\ up'[q] = up[q] /\ (q \in broken' <=> q \in broken)
      BY <2>21 DEF GetBreak, TypeOK
    <3>1. \A q \in Request : q # r => GetOf(q)'
      BY CommittedIsStable, OthersGet
    <3>2. up[r] = "none" /\ answer[r] = None /\ pc[r] = "g_stream"
      BY <2>21 DEF GetBreak, FlowInv, FlowOf
    <3>3. /\ pc'[r] = "done" /\ answer'[r] # "200" /\ Length(r)' = Length(r)
          /\ UNCHANGED <<up, key, id, reg, out, cur, file, src>>
      BY <2>21 DEF GetBreak, Length, TypeOK
    <3>4. GetOf(r)'
      BY <3>2, <3>3, NoneAssumption DEF GetOf, GetInv
    <3> QED
      BY <3>1, <3>4 DEF GetInv
  <2>22. CASE PutSend(r) \/ StoreRecv(r) \/ MetaCommit(r) \/ MetaRefuse(r)
    BY <1>1, <2>22 DEF PutSend, StoreRecv, MetaCommit, MetaRefuse
  <2> QED
    BY <1>2, <2>1, <2>2, <2>3, <2>4, <2>5, <2>6, <2>7, <2>8, <2>9, <2>10, <2>11,
       <2>12, <2>13, <2>14, <2>15, <2>16, <2>17, <2>18, <2>19, <2>20, <2>21, <2>22 DEF
       RequestNext, Put, Store, Metadata, Get, Fault
<1>3. CASE CreateBucket
  BY <1>1, <1>3 DEF CreateBucket, Meta!CreateBucket
<1>4. CASE DeleteBucket
  BY <1>1, <1>4 DEF DeleteBucket
<1>5. ASSUME NEW k \in Key, DeleteObjectMeta(k) PROVE GetInv'
  BY <1>1, <1>5 DEF DeleteObjectMeta
<1>6. CASE UNCHANGED vars
  BY <1>1, <1>6 DEF vars
<1> QED
  BY <1>2, <1>3, <1>4, <1>5, <1>6, NextCases

-----------------------------------------------------------------------------
(* A history only grows, unless what it had is counted as deleted. *)
Kept ==
  /\ gone \subseteq gone'
  /\ \A k \in Key :
       \/ Logged(k) \subseteq gone'
       \/ /\ Len(log[k]) <= Len(log'[k])
          /\ \A i \in 1..Len(log[k]) : log'[k][i] = log[k][i]

(* No step shortens a history without marking its blobs as deleted. *)
LEMMA HistoryIsKept == TypeOK /\ FlowInv /\ [Next]_vars => Kept
<1> SUFFICES ASSUME TypeOK, FlowInv, [Next]_vars PROVE Kept
  BY Zenon
<1>1. ASSUME UNCHANGED <<log, gone>> PROVE Kept
  BY <1>1 DEF Kept, TypeOK
<1> USE DEF metadata, storage, input, upload, download, history, Goto, Reply
<1>2. ASSUME NEW r \in Request, RequestNext(r) PROVE Kept
  <2>1. CASE MetaCommit(r)
    <3>1. id[r] \in BlobId /\ key[r] \in Key
      BY <2>1 DEF MetaCommit, FlowInv, FlowOf, TypeOK
    <3>2. /\ log' = [log EXCEPT ![key[r]] = Append(@, id[r])] /\ UNCHANGED gone
      BY <2>1 DEF MetaCommit, Meta!CreateObjectVersion
    <3>3. ASSUME NEW k \in Key
          PROVE  /\ Len(log[k]) <= Len(log'[k])
                 /\ \A i \in 1..Len(log[k]) : log'[k][i] = log[k][i]
      BY <3>1, <3>2, AppendProperties DEF TypeOK
    <3> QED
      BY <3>2, <3>3 DEF Kept
  <2>2. CASE ServeHTTP(r) \/ PutStart(r) \/ PutHead(r) \/ PutSend(r) \/ PutClose(r) \/
          PutRecv(r) \/ PutDone(r) \/ PutTimeout(r) \/ StoreRecv(r) \/ StoreStaged(r)
          \/ StorePublish(r) \/ StoreCheck(r) \/ MetaRefuse(r) \/ GetStart(r) \/
          GetMeta(r) \/ GetOpen(r) \/ GetSend(r) \/ GetEnd(r) \/ PutHeadFail(r) \/
          PutBodyError(r) \/ PutStoreFail(r) \/ StoreFail(r) \/ GetFail(r) \/
          GetBreak(r)
    BY <1>1, <2>2 DEF ServeHTTP, PutStart, PutHead, PutSend, PutClose, PutRecv,
       PutDone, PutTimeout, StoreRecv, StoreStaged, StorePublish, StoreCheck,
       MetaRefuse, GetStart, GetMeta, GetOpen, GetSend, GetEnd, PutHeadFail,
       PutBodyError, PutStoreFail, StoreFail, GetFail, GetBreak
  <2> QED
    BY <1>2, <2>1, <2>2 DEF RequestNext, Put, Store, Metadata, Get, Fault
<1>3. CASE CreateBucket
  BY <1>1, <1>3 DEF CreateBucket, Meta!CreateBucket
<1>4. CASE DeleteBucket
  BY <1>4 DEF DeleteBucket, Kept
<1>5. ASSUME NEW k \in Key, DeleteObjectMeta(k) PROVE Kept
  <2>1. gone \subseteq gone' /\ Logged(k) \subseteq gone'
    BY <1>5 DEF DeleteObjectMeta
  <2>2. ASSUME NEW j \in Key, j # k
        PROVE  /\ Len(log[j]) <= Len(log'[j])
               /\ \A i \in 1..Len(log[j]) : log'[j][i] = log[j][i]
    <3>1. log'[j] = log[j] /\ Len(log[j]) \in Nat
      BY <1>5, <2>2 DEF DeleteObjectMeta, Meta!DeleteObjectMeta, TypeOK
    <3> QED
      BY <3>1
  <2> QED
    BY <2>1, <2>2 DEF Kept
<1>6. CASE UNCHANGED vars
  BY <1>1, <1>6 DEF vars
<1> QED
  BY <1>2, <1>3, <1>4, <1>5, <1>6, NextCases

(* A GET that takes no step still sees the versions it must not miss. *)
LEMMA FloorSame ==
  ASSUME TypeOK, TypeOK', Kept, NEW r \in Request, FloorOf(r),
         UNCHANGED <<pc[r], floor[r], key[r], answer[r], cur[r]>>,
         up'[r] # "none" <=> up[r] # "none"
  PROVE  FloorOf(r)'
<1>1. ASSUME NEW b \in floor[r] \ gone'
      PROVE  /\ key[r] \in Key
             /\ Len(log[key[r]]) <= Len(log'[key[r]])
             /\ Len(log[key[r]]) \in Nat /\ Len(log'[key[r]]) \in Nat
             /\ \A i \in 1..Len(log[key[r]]) : log'[key[r]][i] = log[key[r]][i]
  <2>1. key[r] \in Key /\ b \in Logged(key[r])
    BY <1>1 DEF FloorOf, Kept
  <2>2. /\ Len(log[key[r]]) <= Len(log'[key[r]])
        /\ \A i \in 1..Len(log[key[r]]) : log'[key[r]][i] = log[key[r]][i]
    BY <1>1, <2>1 DEF Kept
  <2> QED
    BY <2>1, <2>2 DEF TypeOK
<1>2. ASSUME NEW b \in floor[r]
      PROVE  key[r] \in Key /\ (b \in gone' \/ b \in Logged(key[r])')
  <2>1. CASE b \in gone'
    BY <2>1 DEF FloorOf
  <2>2. CASE b \notin gone'
    <3>1. b \in Logged(key[r])
      BY <2>2 DEF FloorOf, Kept
    <3>2. PICK i \in 1..Len(log[key[r]]) : b = log[key[r]][i]
      BY <3>1 DEF Logged
    <3>3. i \in 1..Len(log'[key[r]]) /\ b = log'[key[r]][i] /\ key[r] \in Key
      BY <1>1, <2>2, <3>2
    <3> QED
      BY <3>3 DEF Logged
  <2> QED
    BY <2>1, <2>2
<1>3. ASSUME cur[r] # None, NEW b \in floor[r] \ gone'
      PROVE  \E i, j \in 1..Len(log'[key[r]]) :
               i <= j /\ log'[key[r]][i] = b /\ log'[key[r]][j] = cur[r]
  <2>1. PICK i, j \in 1..Len(log[key[r]]) :
               i <= j /\ log[key[r]][i] = b /\ log[key[r]][j] = cur[r]
    BY <1>3 DEF FloorOf, Kept
  <2>2. i \in 1..Len(log'[key[r]]) /\ j \in 1..Len(log'[key[r]])
    BY <1>1, <1>3, <2>1
  <2>3. log'[key[r]][i] = b /\ log'[key[r]][j] = cur[r]
    BY <1>1, <1>3, <2>1
  <2> QED
    BY <2>1, <2>2, <2>3
<1>4. /\ pc'[r] \in {"new", "p_head"} \/ up'[r] # "none" => floor'[r] = {}
      /\ answer'[r] = "404" => floor'[r] \subseteq gone'
  BY DEF FloorOf, Kept
<1> QED
  BY <1>2, <1>3, <1>4 DEF FloorOf

(* A request before which nothing was reported can miss nothing. *)
LEMMA FloorEmpty ==
  ASSUME NEW r \in Request, floor'[r] = {}
  PROVE  FloorOf(r)'
  BY DEF FloorOf

(* The same, again, for all requests but one. *)
LEMMA OthersFloor ==
  ASSUME TypeOK, TypeOK', Kept, FloorInv, NEW r \in Request,
         \A q \in Request : q # r =>
           /\ UNCHANGED <<pc[q], floor[q], key[q], answer[q], cur[q]>>
           /\ up'[q] # "none" <=> up[q] # "none"
  PROVE  \A q \in Request : q # r => FloorOf(q)'
  BY FloorSame DEF FloorInv

(* A GET still finds what was reported before it began. *)
LEMMA FloorNext ==
  TypeOK /\ FlowInv /\ LogInv /\ GetInv /\ FloorInv /\ [Next]_vars => FloorInv'
<1> SUFFICES ASSUME TypeOK, FlowInv, LogInv, GetInv, FloorInv, [Next]_vars PROVE FloorInv'
  BY Zenon
<1>1. ASSUME UNCHANGED <<pc, floor, key, answer, cur, up>> PROVE FloorInv'
  BY <1>1, FloorSame, HistoryIsKept, TypeNext DEF FloorInv
<1> USE DEF metadata, storage, input, upload, download, history, Goto, Reply
<1>2. ASSUME NEW r \in Request, RequestNext(r) PROVE FloorInv'
  <2>1. CASE ServeHTTP(r)
    <3>1. \A q \in Request : q # r =>
            /\ UNCHANGED <<pc[q], floor[q], key[q], answer[q], cur[q]>>
            /\ up'[q] # "none" <=> up[q] # "none"
      BY <2>1 DEF ServeHTTP, TypeOK
    <3>2. \A q \in Request : q # r => FloorOf(q)'
      BY <3>1, TypeNext, HistoryIsKept, OthersFloor
    <3>3. floor'[r] = {}
      BY <2>1 DEF ServeHTTP, FlowInv, FlowOf, FloorInv, FloorOf
    <3> QED
      BY <3>2, <3>3, FloorEmpty DEF FloorInv
  <2>2. CASE PutStart(r)
    <3>1. \A q \in Request : q # r =>
            /\ UNCHANGED <<pc[q], floor[q], key[q], answer[q], cur[q]>>
            /\ up'[q] # "none" <=> up[q] # "none"
      BY <2>2 DEF PutStart, TypeOK
    <3>2. \A q \in Request : q # r => FloorOf(q)'
      BY <3>1, TypeNext, HistoryIsKept, OthersFloor
    <3>3. floor'[r] = {}
      BY <2>2 DEF PutStart, FlowInv, FlowOf, FloorInv, FloorOf
    <3> QED
      BY <3>2, <3>3, FloorEmpty DEF FloorInv
  <2>3. CASE PutHead(r)
    <3>1. \A q \in Request : q # r =>
            /\ UNCHANGED <<pc[q], floor[q], key[q], answer[q], cur[q]>>
            /\ up'[q] # "none" <=> up[q] # "none"
      BY <2>3 DEF PutHead, TypeOK
    <3>2. \A q \in Request : q # r => FloorOf(q)'
      BY <3>1, TypeNext, HistoryIsKept, OthersFloor
    <3>3. floor'[r] = {}
      BY <2>3 DEF PutHead, FlowInv, FlowOf, FloorInv, FloorOf
    <3> QED
      BY <3>2, <3>3, FloorEmpty DEF FloorInv
  <2>4. CASE PutClose(r)
    <3>1. \A q \in Request : q # r =>
            /\ UNCHANGED <<pc[q], floor[q], key[q], answer[q], cur[q]>>
            /\ up'[q] # "none" <=> up[q] # "none"
      BY <2>4 DEF PutClose, TypeOK
    <3>2. \A q \in Request : q # r => FloorOf(q)'
      BY <3>1, TypeNext, HistoryIsKept, OthersFloor
    <3>3. floor'[r] = {}
      BY <2>4 DEF PutClose, FlowInv, FlowOf, FloorInv, FloorOf
    <3> QED
      BY <3>2, <3>3, FloorEmpty DEF FloorInv
  <2>5. CASE PutRecv(r)
    <3>1. \A q \in Request : q # r =>
            /\ UNCHANGED <<pc[q], floor[q], key[q], answer[q], cur[q]>>
            /\ up'[q] # "none" <=> up[q] # "none"
      BY <2>5 DEF PutRecv, TypeOK
    <3>2. \A q \in Request : q # r => FloorOf(q)'
      BY <3>1, TypeNext, HistoryIsKept, OthersFloor
    <3>3. floor'[r] = {}
      BY <2>5 DEF PutRecv, FlowInv, FlowOf, FloorInv, FloorOf
    <3> QED
      BY <3>2, <3>3, FloorEmpty DEF FloorInv
  <2>6. CASE PutDone(r)
    <3>1. \A q \in Request : q # r =>
            /\ UNCHANGED <<pc[q], floor[q], key[q], answer[q], cur[q]>>
            /\ up'[q] # "none" <=> up[q] # "none"
      BY <2>6 DEF PutDone, TypeOK
    <3>2. \A q \in Request : q # r => FloorOf(q)'
      BY <3>1, TypeNext, HistoryIsKept, OthersFloor
    <3>3. floor'[r] = {}
      BY <2>6 DEF PutDone, FlowInv, FlowOf, FloorInv, FloorOf
    <3> QED
      BY <3>2, <3>3, FloorEmpty DEF FloorInv
  <2>7. CASE PutTimeout(r)
    <3>1. \A q \in Request : q # r =>
            /\ UNCHANGED <<pc[q], floor[q], key[q], answer[q], cur[q]>>
            /\ up'[q] # "none" <=> up[q] # "none"
      BY <2>7 DEF PutTimeout, TypeOK
    <3>2. \A q \in Request : q # r => FloorOf(q)'
      BY <3>1, TypeNext, HistoryIsKept, OthersFloor
    <3>3. floor'[r] = {}
      BY <2>7 DEF PutTimeout, FlowInv, FlowOf, FloorInv, FloorOf
    <3> QED
      BY <3>2, <3>3, FloorEmpty DEF FloorInv
  <2>8. CASE StoreStaged(r)
    <3>1. \A q \in Request : up'[q] # "none" <=> up[q] # "none"
      BY <2>8 DEF StoreStaged, FlowInv, FlowOf, TypeOK
    <3>2. UNCHANGED <<pc, floor, key, answer, cur>>
      BY <2>8 DEF StoreStaged
    <3> QED
      BY <3>1, <3>2, FloorSame, HistoryIsKept, TypeNext DEF FloorInv
  <2>9. CASE StorePublish(r)
    <3>1. \A q \in Request : up'[q] # "none" <=> up[q] # "none"
      BY <2>9 DEF StorePublish, FlowInv, FlowOf, TypeOK
    <3>2. UNCHANGED <<pc, floor, key, answer, cur>>
      BY <2>9 DEF StorePublish
    <3> QED
      BY <3>1, <3>2, FloorSame, HistoryIsKept, TypeNext DEF FloorInv
  <2>10. CASE StoreCheck(r)
    <3>1. \A q \in Request : up'[q] # "none" <=> up[q] # "none"
      BY <2>10 DEF StoreCheck, FlowInv, FlowOf, TypeOK
    <3>2. UNCHANGED <<pc, floor, key, answer, cur>>
      BY <2>10 DEF StoreCheck
    <3> QED
      BY <3>1, <3>2, FloorSame, HistoryIsKept, TypeNext DEF FloorInv
  <2>11. CASE GetStart(r)
    <3>1. \A q \in Request : q # r =>
            /\ UNCHANGED <<pc[q], floor[q], key[q], answer[q], cur[q]>>
            /\ up'[q] # "none" <=> up[q] # "none"
      BY <2>11 DEF GetStart, TypeOK
    <3>2. \A q \in Request : q # r => FloorOf(q)'
      BY <3>1, TypeNext, HistoryIsKept, OthersFloor
    <3>3. PICK k \in Key : key'[r] = k /\ floor'[r] = Reported(k)
      BY <2>11 DEF GetStart, TypeOK
    <3>4. ASSUME NEW b \in Reported(k) PROVE b \in gone \cup Logged(k)
      <4>1. PICK p \in Request : b = id[p] /\ answer[p] = "200" /\ id[p] # None /\ key[p] = k
        BY DEF Reported
      <4>2. reg[p] = "ok"
        BY <4>1 DEF FlowInv, FlowOf
      <4> QED
        BY <4>1, <4>2 DEF LogInv
    <3>5. /\ pc'[r] = "g_meta" /\ up'[r] = "none" /\ answer'[r] = None /\ cur'[r] = None
          /\ UNCHANGED <<log, gone>>
      BY <2>11 DEF GetStart, FlowInv, FlowOf, GetInv, GetOf, TypeOK
    <3>6. FloorOf(r)'
      BY <3>3, <3>4, <3>5, LogSame, NoneAssumption DEF FloorOf
    <3> QED
      BY <3>2, <3>6 DEF FloorInv
  <2>12. CASE GetMeta(r)
    <3>1. \A q \in Request : q # r =>
            /\ UNCHANGED <<pc[q], floor[q], key[q], answer[q], cur[q]>>
            /\ up'[q] # "none" <=> up[q] # "none"
      BY <2>12 DEF GetMeta, TypeOK
    <3>2. \A q \in Request : q # r => FloorOf(q)'
      BY <3>1, TypeNext, HistoryIsKept, OthersFloor
    <3>3. /\ key[r] \in Key /\ answer[r] = None /\ up[r] = "none" /\ cur[r] = None
          /\ \A b \in floor[r] : b \in gone \cup Logged(key[r])
      BY <2>12 DEF GetMeta, FlowInv, FlowOf, GetInv, GetOf, FloorInv, FloorOf
    <3>4. UNCHANGED <<log, gone, floor, key, up>> /\ pc'[r] \in {"g_open", "done"}
      BY <2>12 DEF GetMeta, TypeOK
    <3>5. CASE log[key[r]] = <<>>
      <4>1. floor[r] \subseteq gone
        BY <3>3, <3>5 DEF Logged
      <4>2. cur'[r] = None
        BY <2>12, <3>3, <3>5 DEF GetMeta
      <4>3. FloorOf(r)'
        BY <3>3, <3>4, <4>1, <4>2, LogSame DEF FloorOf
      <4> QED
        BY <3>2, <4>3 DEF FloorInv
    <3>6. CASE log[key[r]] # <<>>
      <4>1. answer'[r] = None /\ cur'[r] = log[key[r]][Len(log[key[r]])]
        BY <2>12, <3>3, <3>6 DEF GetMeta, TypeOK
      <4>2. Len(log[key[r]]) \in 1..Len(log[key[r]])
        BY <3>3, <3>6, LastIsBlob
      <4>3. ASSUME NEW b \in floor[r] \ gone
            PROVE  \E i, j \in 1..Len(log[key[r]]) :
                     i <= j /\ log[key[r]][i] = b /\ log[key[r]][j] = cur'[r]
        <5>1. PICK i \in 1..Len(log[key[r]]) : b = log[key[r]][i]
          BY <3>3, <4>3 DEF Logged
        <5>2. i <= Len(log[key[r]])
          BY <4>2, <5>1
        <5> QED
          BY <4>1, <4>2, <5>1, <5>2
      <4>4. FloorOf(r)'
        BY <3>3, <3>4, <4>1, <4>3, LogSame, NoneAssumption DEF FloorOf
      <4> QED
        BY <3>2, <4>4 DEF FloorInv
    <3> QED
      BY <3>5, <3>6
  <2>13. CASE GetOpen(r)
    <3>1. \A q \in Request : q # r =>
            /\ UNCHANGED <<pc[q], floor[q], key[q], answer[q], cur[q]>>
            /\ up'[q] # "none" <=> up[q] # "none"
      BY <2>13 DEF GetOpen, TypeOK
    <3>2. \A q \in Request : q # r => FloorOf(q)'
      BY <3>1, TypeNext, HistoryIsKept, OthersFloor
    <3>3. /\ pc'[r] \in {"g_stream", "done"} /\ up[r] = "none"
          /\ answer'[r] # "404"
          /\ UNCHANGED <<log, gone, floor, key, up, cur>>
      BY <2>13, NoneAssumption DEF GetOpen, FlowInv, FlowOf, TypeOK
    <3>4. FloorOf(r)'
      BY <3>3, LogSame DEF FloorOf, FloorInv
    <3> QED
      BY <3>2, <3>4 DEF FloorInv
  <2>14. CASE GetEnd(r)
    <3>1. \A q \in Request : q # r =>
            /\ UNCHANGED <<pc[q], floor[q], key[q], answer[q], cur[q]>>
            /\ up'[q] # "none" <=> up[q] # "none"
      BY <2>14 DEF GetEnd, TypeOK
    <3>2. \A q \in Request : q # r => FloorOf(q)'
      BY <3>1, TypeNext, HistoryIsKept, OthersFloor
    <3>3. /\ pc'[r] \in {"g_stream", "done"} /\ up[r] = "none"
          /\ answer'[r] # "404"
          /\ UNCHANGED <<log, gone, floor, key, up, cur>>
      BY <2>14, NoneAssumption DEF GetEnd, FlowInv, FlowOf, TypeOK
    <3>4. FloorOf(r)'
      BY <3>3, LogSame DEF FloorOf, FloorInv
    <3> QED
      BY <3>2, <3>4 DEF FloorInv
  <2>15. CASE PutHeadFail(r)
    <3>1. \A q \in Request : q # r =>
            /\ UNCHANGED <<pc[q], floor[q], key[q], answer[q], cur[q]>>
            /\ up'[q] # "none" <=> up[q] # "none"
      BY <2>15 DEF PutHeadFail, TypeOK
    <3>2. \A q \in Request : q # r => FloorOf(q)'
      BY <3>1, TypeNext, HistoryIsKept, OthersFloor
    <3>3. floor'[r] = {}
      BY <2>15 DEF PutHeadFail, FlowInv, FlowOf, FloorInv, FloorOf
    <3> QED
      BY <3>2, <3>3, FloorEmpty DEF FloorInv
  <2>16. CASE PutBodyError(r)
    <3>1. \A q \in Request : q # r =>
            /\ UNCHANGED <<pc[q], floor[q], key[q], answer[q], cur[q]>>
            /\ up'[q] # "none" <=> up[q] # "none"
      BY <2>16 DEF PutBodyError, TypeOK
    <3>2. \A q \in Request : q # r => FloorOf(q)'
      BY <3>1, TypeNext, HistoryIsKept, OthersFloor
    <3>3. floor'[r] = {}
      BY <2>16 DEF PutBodyError, FlowInv, FlowOf, FloorInv, FloorOf
    <3> QED
      BY <3>2, <3>3, FloorEmpty DEF FloorInv
  <2>17. CASE PutStoreFail(r)
    <3>1. \A q \in Request : q # r =>
            /\ UNCHANGED <<pc[q], floor[q], key[q], answer[q], cur[q]>>
            /\ up'[q] # "none" <=> up[q] # "none"
      BY <2>17 DEF PutStoreFail, TypeOK
    <3>2. \A q \in Request : q # r => FloorOf(q)'
      BY <3>1, TypeNext, HistoryIsKept, OthersFloor
    <3>3. floor'[r] = {}
      BY <2>17 DEF PutStoreFail, FlowInv, FlowOf, FloorInv, FloorOf
    <3> QED
      BY <3>2, <3>3, FloorEmpty DEF FloorInv
  <2>18. CASE StoreFail(r)
    <3>1. \A q \in Request : up'[q] # "none" <=> up[q] # "none"
      BY <2>18 DEF StoreFail, FlowInv, FlowOf, TypeOK
    <3>2. UNCHANGED <<pc, floor, key, answer, cur>>
      BY <2>18 DEF StoreFail
    <3> QED
      BY <3>1, <3>2, FloorSame, HistoryIsKept, TypeNext DEF FloorInv
  <2>19. CASE GetFail(r)
    <3>1. \A q \in Request : q # r =>
            /\ UNCHANGED <<pc[q], floor[q], key[q], answer[q], cur[q]>>
            /\ up'[q] # "none" <=> up[q] # "none"
      BY <2>19 DEF GetFail, TypeOK
    <3>2. \A q \in Request : q # r => FloorOf(q)'
      BY <3>1, TypeNext, HistoryIsKept, OthersFloor
    <3>3. /\ pc'[r] \in {"g_stream", "done"} /\ up[r] = "none"
          /\ answer'[r] # "404"
          /\ UNCHANGED <<log, gone, floor, key, up, cur>>
      BY <2>19, NoneAssumption DEF GetFail, FlowInv, FlowOf, TypeOK
    <3>4. FloorOf(r)'
      BY <3>3, LogSame DEF FloorOf, FloorInv
    <3> QED
      BY <3>2, <3>4 DEF FloorInv
  <2>20. CASE GetBreak(r)
    <3>1. \A q \in Request : q # r =>
            /\ UNCHANGED <<pc[q], floor[q], key[q], answer[q], cur[q]>>
            /\ up'[q] # "none" <=> up[q] # "none"
      BY <2>20 DEF GetBreak, TypeOK
    <3>2. \A q \in Request : q # r => FloorOf(q)'
      BY <3>1, TypeNext, HistoryIsKept, OthersFloor
    <3>3. /\ pc'[r] \in {"g_stream", "done"} /\ up[r] = "none"
          /\ answer'[r] # "404"
          /\ UNCHANGED <<log, gone, floor, key, up, cur>>
      BY <2>20, NoneAssumption DEF GetBreak, FlowInv, FlowOf, TypeOK
    <3>4. FloorOf(r)'
      BY <3>3, LogSame DEF FloorOf, FloorInv
    <3> QED
      BY <3>2, <3>4 DEF FloorInv
  <2>21. CASE PutSend(r) \/ StoreRecv(r) \/ MetaCommit(r) \/ MetaRefuse(r) \/
          GetSend(r)
    BY <1>1, <2>21 DEF PutSend, StoreRecv, MetaCommit, MetaRefuse, GetSend
  <2> QED
    BY <1>2, <2>1, <2>2, <2>3, <2>4, <2>5, <2>6, <2>7, <2>8, <2>9, <2>10, <2>11,
       <2>12, <2>13, <2>14, <2>15, <2>16, <2>17, <2>18, <2>19, <2>20, <2>21 DEF
       RequestNext, Put, Store, Metadata, Get, Fault
<1>3. CASE CreateBucket
  BY <1>1, <1>3 DEF CreateBucket, Meta!CreateBucket
<1>4. CASE DeleteBucket
  BY <1>1, <1>4 DEF DeleteBucket
<1>5. ASSUME NEW k \in Key, DeleteObjectMeta(k) PROVE FloorInv'
  BY <1>1, <1>5 DEF DeleteObjectMeta
<1>6. CASE UNCHANGED vars
  BY <1>1, <1>6 DEF vars
<1> QED
  BY <1>2, <1>3, <1>4, <1>5, <1>6, NextCases

-----------------------------------------------------------------------------
(* Blobs in the catalogue *)

(* No blob is in the catalogue twice, under one key or two, and none comes *)
(* back once its object was deleted.                                       *)
RegisteredOnce ==
  /\ \A k \in Key : \A i, j \in 1..Len(log[k]) : log[k][i] = log[k][j] => i = j
  /\ \A j, k \in Key : \A b \in Logged(j) : b \in Logged(k) => j = k
  /\ \A k \in Key : \A b \in Logged(k) : b \notin gone

(* What was deleted had been registered by some request. *)
GoneInv == \A b \in gone : \E r \in Request : id[r] = b /\ reg[r] = "ok"

(* A request that is about to register brings a blob the catalogue has     *)
(* never had.                                                              *)
LEMMA PendingIsNew ==
  ASSUME IdInv, FlowInv, TypeOK, LogInv, GoneInv, NEW r \in Request, reg[r] = "pending"
  PROVE  id[r] \notin gone /\ \A k \in Key : id[r] \notin Logged(k)
<1>1. id[r] # None
  BY NoneAssumption DEF FlowInv, FlowOf, TypeOK
<1>2. \A q \in Request : reg[q] = "ok" => id[q] # id[r]
  BY <1>1 DEF IdInv
<1> QED
  BY <1>2 DEF LogInv, GoneInv

(* Deletions move registered blobs to gone, and a registration stays. *)
LEMMA GoneNext ==
  TypeOK /\ FlowInv /\ IdInv /\ LogInv /\ GoneInv /\ [Next]_vars => GoneInv'
<1> SUFFICES ASSUME TypeOK, FlowInv, IdInv, LogInv, GoneInv, [Next]_vars PROVE GoneInv'
  BY Zenon
<1>1. Stable
  BY CommittedIsStable
<1>2. \A b \in gone : \E r \in Request : id'[r] = b /\ reg'[r] = "ok"
  BY <1>1 DEF GoneInv, Stable
<1>3. \A k \in Key : \A b \in Logged(k) : \E r \in Request : id'[r] = b /\ reg'[r] = "ok"
  BY <1>1 DEF LogInv, Stable
<1>4. \A b \in gone' : b \in gone \/ \E k \in Key : b \in Logged(k)
  <2> USE DEF metadata, storage, input, upload, download, history
  <2>1. ASSUME NEW r \in Request, RequestNext(r) PROVE gone' = gone
    BY <2>1 DEF RequestNext, Put, Store, Metadata, Get, Fault, ServeHTTP, PutStart, PutHead,
       PutSend, PutClose, PutRecv, PutDone, PutTimeout, StoreRecv, StoreStaged,
       StorePublish, StoreCheck, MetaCommit, MetaRefuse, GetStart, GetMeta, GetOpen, GetSend,
       GetEnd, PutHeadFail, PutBodyError, PutStoreFail, StoreFail, GetFail, GetBreak
  <2>2. CASE CreateBucket
    BY <2>2 DEF CreateBucket
  <2>3. CASE DeleteBucket
    BY <2>3 DEF DeleteBucket
  <2>4. ASSUME NEW k \in Key, DeleteObjectMeta(k)
        PROVE  \A b \in gone' : b \in gone \/ b \in Logged(k)
    BY <2>4 DEF DeleteObjectMeta
  <2>5. CASE UNCHANGED vars
    BY <2>5 DEF vars
  <2> QED
    BY <2>1, <2>2, <2>3, <2>4, <2>5, NextCases
<1> QED
  BY <1>2, <1>3, <1>4 DEF GoneInv

(* A commit adds one blob that is new; a deletion takes all of a history.  *)
LEMMA OnceNext ==
  TypeOK /\ FlowInv /\ IdInv /\ LogInv /\ GoneInv /\ RegisteredOnce /\ [Next]_vars
    => RegisteredOnce'
<1> SUFFICES ASSUME TypeOK, FlowInv, IdInv, LogInv, GoneInv, RegisteredOnce, [Next]_vars
             PROVE  RegisteredOnce'
  BY Zenon
<1>1. ASSUME UNCHANGED <<log, gone>> PROVE RegisteredOnce'
  BY <1>1, LogSame DEF RegisteredOnce
<1> USE DEF metadata, storage, input, upload, download, history
<1>2. ASSUME NEW r \in Request, RequestNext(r) PROVE RegisteredOnce'
  <2>1. CASE MetaCommit(r)
    <3>1. id[r] \in BlobId /\ key[r] \in Key
      BY <2>1 DEF MetaCommit, FlowInv, FlowOf, TypeOK
    <3>2. PICK k \in Key : k = key[r]
      BY <3>1
    <3>3. PICK b \in BlobId : b = id[r]
      BY <3>1
    <3>4. log' = [log EXCEPT ![k] = Append(@, b)] /\ gone' = gone
      BY <2>1, <3>2, <3>3 DEF MetaCommit, Meta!CreateObjectVersion
    <3>5. /\ Logged(k)' = Logged(k) \cup {b}
          /\ \A j \in Key : j # k => Logged(j)' = Logged(j)
      BY <3>4, LoggedAppend
    <3>6. b \notin gone /\ \A j \in Key : b \notin Logged(j)
      BY <2>1, <3>3, PendingIsNew DEF MetaCommit
    <3>7. ASSUME NEW j \in Key, NEW m \in 1..Len(log'[j]), NEW n \in 1..Len(log'[j]),
                 log'[j][m] = log'[j][n]
          PROVE  m = n
      <4>1. CASE j # k
        BY <3>4, <3>7, <4>1 DEF RegisteredOnce, TypeOK
      <4>2. CASE j = k
        <5>1. log[k] \in Seq(BlobId) /\ log'[k] = Append(log[k], b)
          BY <3>4 DEF TypeOK
        <5>2. /\ Len(log[k]) \in Nat /\ Len(log'[k]) = Len(log[k]) + 1
              /\ log'[k][Len(log[k]) + 1] = b
              /\ \A i \in 1..Len(log[k]) : log'[k][i] = log[k][i] /\ log[k][i] \in Logged(k)
          BY <5>1, AppendProperties DEF Logged
        <5>3. \A i \in 1..Len(log[k]) : log[k][i] # b
          BY <3>6, <5>2
        <5>4. \A i, l \in 1..Len(log[k]) : log[k][i] = log[k][l] => i = l
          BY DEF RegisteredOnce
        <5>5. /\ m \in 1..Len(log[k]) \/ m = Len(log[k]) + 1
              /\ n \in 1..Len(log[k]) \/ n = Len(log[k]) + 1
              /\ log'[k][m] = log'[k][n]
          BY <3>7, <4>2, <5>2
        <5> QED
          BY <5>2, <5>3, <5>4, <5>5
      <4> QED
        BY <4>1, <4>2
    <3> QED
      BY <3>4, <3>5, <3>6, <3>7 DEF RegisteredOnce
  <2>2. CASE ServeHTTP(r) \/ PutStart(r) \/ PutHead(r) \/ PutSend(r) \/ PutClose(r) \/
          PutRecv(r) \/ PutDone(r) \/ PutTimeout(r) \/ StoreRecv(r) \/ StoreStaged(r) \/
          StorePublish(r) \/ StoreCheck(r) \/ MetaRefuse(r) \/ GetStart(r) \/ GetMeta(r) \/
          GetOpen(r) \/ GetSend(r) \/ GetEnd(r) \/ Fault(r)
    BY <1>1, <2>2 DEF ServeHTTP, PutStart, PutHead, PutSend, PutClose, PutRecv, PutDone,
       PutTimeout, StoreRecv, StoreStaged, StorePublish, StoreCheck, MetaRefuse, GetStart,
       GetMeta, GetOpen, GetSend, GetEnd, Fault, PutHeadFail, PutBodyError, PutStoreFail,
       StoreFail, GetFail, GetBreak
  <2> QED
    BY <1>2, <2>1, <2>2 DEF RequestNext, Put, Store, Metadata, Get
<1>3. CASE CreateBucket
  BY <1>1, <1>3 DEF CreateBucket, Meta!CreateBucket
<1>4. CASE DeleteBucket
  <2>1. \A k \in Key : log'[k] = <<>>
    BY <1>4 DEF DeleteBucket, Meta!DeleteBucket, Meta!NoLog
  <2>2. \A k \in Key : Logged(k)' = {}
    BY <2>1 DEF Logged
  <2> QED
    BY <2>1, <2>2 DEF RegisteredOnce
<1>5. ASSUME NEW k \in Key, DeleteObjectMeta(k) PROVE RegisteredOnce'
  <2>1. log'[k] = <<>> /\ \A j \in Key : j # k => log'[j] = log[j]
    BY <1>5 DEF DeleteObjectMeta, Meta!DeleteObjectMeta, TypeOK
  <2>2. Logged(k)' = {} /\ \A j \in Key : j # k => Logged(j)' = Logged(j)
    BY <2>1 DEF Logged
  <2>3. gone' = gone \cup Logged(k)
    BY <1>5 DEF DeleteObjectMeta
  <2> QED
    BY <2>1, <2>2, <2>3 DEF RegisteredOnce
<1>6. CASE UNCHANGED vars
  BY <1>1, <1>6 DEF vars
<1> QED
  BY <1>2, <1>3, <1>4, <1>5, <1>6, NextCases

-----------------------------------------------------------------------------
(* Nothing is stored, registered or answered at first. *)
LEMMA InitInv == Init => Inv
<1> SUFFICES ASSUME Init PROVE Inv
  OBVIOUS
<1> USE DEF Init, Meta!Init, Meta!NoLog
<1>1. TypeOK
  BY DEF TypeOK
<1>2. FlowInv
  <2> SUFFICES ASSUME NEW r \in Request PROVE FlowOf(r)
    BY DEF FlowInv
  <2>1. /\ pc[r] = "new" /\ body[r] = <<>> /\ size[r] = None /\ answer[r] = None
        /\ sent[r] = 0 /\ got[r] = 0 /\ up[r] = "none" /\ id[r] = None
        /\ reg[r] = "none" /\ r \notin closed /\ Len(body[r]) = 0
    OBVIOUS
  <2> HIDE DEF Init
  <2> QED
    BY <2>1, NoneAssumption DEF FlowOf
<1>3. IdInv /\ BlobInv /\ LogInv
  BY DEF IdInv, BlobInv, LogInv, Logged
<1>4. GetInv /\ FloorInv
  BY NoneAssumption DEF GetInv, GetOf, FloorInv, FloorOf
<1> QED
  BY <1>1, <1>2, <1>3, <1>4 DEF Inv

(* The inductive invariant: a step of a request, of storage, of the        *)
(* metadata service or of the network leads from it to it.                 *)
THEOREM Invariance == Spec => []Inv
<1>1. Inv /\ [Next]_vars => Inv'
  BY TypeNext, FlowNext, IdNext, BlobNext, LogNext, GetNext, FloorNext DEF Inv
<1> QED
  BY InitInv, <1>1, PTL DEF Spec

(* Every variable of the gateway, of StoreObject and of the metadata       *)
(* service keeps its type, in particular the blob ids and the sequences    *)
(* that the other results index into.                                      *)
THEOREM TypeCorrect == Spec => []TypeOK
  BY Invariance, PTL DEF Inv

(* Storage before metadata (PutObject calls CreateVersion only when        *)
(* StoreObject has answered): for any number of concurrent PUTs, every     *)
(* version in the catalogue names a published blob that is the whole body  *)
(* of a PUT of its key, with its size and checksum.                        *)
THEOREM CatalogIsBacked == Spec => []CatalogBacked
<1>1. Inv => CatalogBacked
  <2> SUFFICES ASSUME Inv, NEW k \in Key, NEW b \in Logged(k)
               PROVE  /\ file[b] # None /\ row[b] # None
                      /\ row[b] = [size |-> Len(file[b]), etag |-> file[b]]
                      /\ \E r \in Request : id[r] = b /\ key[r] = k /\ file[b] = body[r]
    BY DEF CatalogBacked
  <2>1. PICK r \in Request : id[r] = b /\ key[r] = k /\ reg[r] = "ok"
    BY DEF Inv, LogInv
  <2>2. /\ file[b] = body[r] /\ body[r] \in Seq(Piece)
        /\ row[b] = [size |-> Len(body[r]), etag |-> body[r]]
    BY <2>1 DEF Inv, FlowInv, FlowOf, BlobInv, TypeOK
  <2>3. Len(body[r]) \in Nat
    BY <2>2
  <2>4. file[b] # None /\ row[b] # None
    BY <2>2, <2>3, NoneAssumption
  <2> QED
    BY <2>1, <2>2, <2>4
<1> QED
  BY <1>1, Invariance, PTL

(* A refusal is final: after 400, 404 or an unreadable body, no call of    *)
(* CreateObjectVersion is on its way and no version is in the catalogue,   *)
(* and after an unreadable body storage has published nothing.             *)
THEOREM RefusalIsFinal == Spec => []RefusedIsNotRegistered
<1>1. Inv => RefusedIsNotRegistered
  <2> SUFFICES ASSUME Inv, NEW r \in Request, id[r] # None
               PROVE  /\ answer[r] \in {"400", "404", "body"} =>
                           reg[r] # "pending" /\ \A k \in Key : id[r] \notin Logged(k)
                      /\ answer[r] = "body" =>
                           file[id[r]] = None /\ up[r] \in {"recv", "failed"}
    BY DEF RefusedIsNotRegistered
  <2>1. \A q \in Request : id[q] = id[r] => q = r
    BY DEF Inv, IdInv
  <2>2. ASSUME answer[r] \in {"400", "404", "body"}
        PROVE  reg[r] # "pending" /\ \A k \in Key : id[r] \notin Logged(k)
    <3>1. reg[r] \notin {"pending", "ok"}
      BY <2>2 DEF Inv, FlowInv, FlowOf
    <3> QED
      BY <2>1, <3>1 DEF Inv, LogInv
  <2>3. ASSUME answer[r] = "body"
        PROVE  file[id[r]] = None /\ up[r] \in {"recv", "failed"}
    <3>1. up[r] \in {"recv", "failed"} /\ id[r] \in BlobId
      BY <2>3 DEF Inv, FlowInv, FlowOf, TypeOK
    <3> QED
      BY <2>1, <3>1 DEF Inv, BlobInv
  <2> QED
    BY <2>2, <2>3
<1> QED
  BY <1>1, Invariance, PTL

(* The handler keeps the last byte back until storage has ended the        *)
(* stream: a GET response that has its whole Content-Length is the current *)
(* version's content, and none whose stream broke looks complete.          *)
THEOREM CompleteIsVerified == Spec => []CompleteMeansVerified
<1>1. Inv => CompleteMeansVerified
  <2> SUFFICES ASSUME Inv, NEW r \in Request, cur[r] # None,
                      answer[r] = "200" \/ (out[r] > 0 /\ out[r] = Length(r))
               PROVE  /\ answer[r] = "200" /\ r \notin broken
                      /\ src[r] = row[cur[r]].etag /\ out[r] = Len(src[r])
    BY DEF CompleteMeansVerified
  <2>1. /\ Length(r) = Len(file[cur[r]]) /\ Length(r) \in Nat
        /\ row[cur[r]].etag = file[cur[r]]
    BY CurrentRow DEF Inv
  <2>2. answer[r] = "200"
    <3>1. answer[r] # "200" => out[r] = 0 \/ out[r] < Length(r)
      BY DEF Inv, GetInv, GetOf
    <3>2. out[r] \in Nat
      BY DEF Inv, TypeOK
    <3> QED
      BY <2>1, <3>1, <3>2
  <2>3. src[r] = file[cur[r]] /\ r \notin broken /\ out[r] = Length(r)
    BY <2>2 DEF Inv, GetInv, GetOf
  <2> QED
    BY <2>1, <2>2, <2>3
<1> QED
  BY <1>1, Invariance, PTL

(* Read your writes: a GET that began after a PUT of its key was answered  *)
(* 200 finds that version or a later one, unless the object or its bucket  *)
(* was deleted in between, however many PUTs and DELETEs run beside it.    *)
THEOREM ReadsYourWrites == Spec => []ReadYourWrites
<1>1. Inv => ReadYourWrites
  BY DEF Inv, FloorInv, FloorOf, ReadYourWrites
<1> QED
  BY <1>1, Invariance, PTL

(* PutObject registers the blob of its own upload and CreateVersion is     *)
(* called once: with any number of PUTs, deletions and late commits, no    *)
(* blob is in the catalogue twice, and none returns after it was deleted.  *)
(* VersionLog leaves this to its callers.                                  *)
THEOREM BlobsAreRegisteredOnce == Spec => []RegisteredOnce
<1>1. Init => GoneInv /\ RegisteredOnce
  BY DEF Init, Meta!Init, Meta!NoLog, GoneInv, RegisteredOnce, Logged
<1>2. Inv /\ GoneInv /\ RegisteredOnce /\ [Next]_vars => GoneInv' /\ RegisteredOnce'
  BY GoneNext, OnceNext DEF Inv
<1> QED
  BY <1>1, <1>2, Invariance, PTL DEF Spec

(* StorePublish and CreateObjectVersion each write for the blob of one     *)
(* request: no step, of whichever request, changes the file or the row of  *)
(* a version that is registered, so a GET may keep reading it.             *)
THEOREM RegisteredIsImmutable == Spec => [][Stable]_vars
<1>1. Inv /\ [Next]_vars => [Stable]_vars
  BY CommittedIsStable DEF Inv
<1> QED
  BY <1>1, Invariance, PTL DEF Spec
=============================================================================
