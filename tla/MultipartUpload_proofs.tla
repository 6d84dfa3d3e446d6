----------------------- MODULE MultipartUpload_proofs -----------------------
(***************************************************************************)
(* Proofs about MultipartUpload, for any set of concurrent requests, part  *)
(* numbers, contents and part lists.                                       *)
(***************************************************************************)
EXTENDS MultipartUpload, SequenceTheorems, TLAPS

(* What a request carries while it works on an upload. *)
Uploading == {"u_check", "u_temp", "u_rename"}
Completing == {"c_marker", "c_exists", "c_drop", "c_session", "c_copy"}

RequestInv ==
  \A r \in Request :
    /\ pc[r] \in Uploading => num[r] \in PartNum /\ body[r] \in Content
    /\ pc[r] \in Completing => list[r] \in PartLists /\ ValidParts(list[r])

TypeInv == TypeOK /\ RequestInv

(* The parts of a list that validateCompletedParts accepts have checksums. *)
LEMMA PartOfValid ==
  ASSUME NEW l \in Seq(PartInfo), ValidParts(l), NEW i \in 1..Len(l)
  PROVE  l[i].sum \in Content
<1>1. l[i] \in PartInfo
  OBVIOUS
<1>2. l[i].sum # None
  BY DEF ValidParts
<1> QED
  BY <1>1, <1>2 DEF PartInfo

(* So such a list names the content of a blob. *)
LEMMA ContentsType ==
  ASSUME NEW l \in PartLists, ValidParts(l)
  PROVE  Contents(l) \in Blob /\ Len(Contents(l)) = Len(l) /\ Contents(l) # NoFile
<1>1. l \in Seq(PartInfo)
  BY PartListsAssumption
<1>2. Contents(l) \in Blob /\ Len(Contents(l)) = Len(l)
  BY <1>1, PartOfValid DEF Contents, Blob
<1>3. Len(l) > 0
  BY DEF ValidParts
<1> QED
  BY <1>2, <1>3 DEF NoFile

(* A temporary blob that has every listed part, in order, is that content. *)
LEMMA PrefixIsContents ==
  ASSUME NEW l \in PartLists, ValidParts(l), NEW b \in Blob, Len(b) = Len(l),
         \A i \in 1..Len(b) : b[i] = l[i].sum
  PROVE  b = Contents(l)
<1>1. Contents(l) \in Seq(Content) /\ Len(Contents(l)) = Len(b)
  BY ContentsType DEF Blob
<1>2. \A i \in 1..Len(b) : Contents(l)[i] = b[i]
  BY DEF Contents
<1> QED
  BY <1>1, <1>2, SeqEqual DEF Blob

LEMMA NoFileType == NoFile \in Blob
  BY DEF NoFile, Blob

LEMMA TypeInit == Init => TypeInv
  BY NoFileType DEF Init, Event, TypeInv, TypeOK, RequestInv, Label, Answer, Uploading, Completing

LEMMA TypeNext == TypeInv /\ [Next]_vars => TypeInv'
<1> SUFFICES ASSUME TypeInv, [Next]_vars PROVE TypeInv'
  OBVIOUS
<1> USE NoFileType DEF TypeInv, TypeOK, RequestInv, Label, Answer, Uploading, Completing,
            Goto, Event, session, store, local, history
<1>1. ASSUME NEW r \in Request, Initiate(r) PROVE TypeInv'
  <2>1. CASE InitiateStart(r)
    BY <2>1 DEF InitiateStart
  <2>2. CASE InitiateMkdir(r)
    BY <2>2 DEF InitiateMkdir
  <2>3. CASE InitiateCreate(r)
    BY <2>3 DEF InitiateCreate
  <2>4. CASE InitiateWrite(r)
    BY <2>4 DEF InitiateWrite
  <2>5. CASE InitiateFail(r)
    BY <2>5 DEF InitiateFail, ForgetSession
  <2> QED
    BY <1>1, <2>1, <2>2, <2>3, <2>4, <2>5 DEF Initiate
<1>2. ASSUME NEW r \in Request, Upload(r) PROVE TypeInv'
  <2>1. CASE UploadStart(r)
    BY <2>1 DEF UploadStart
  <2>2. CASE UploadCheck(r)
    BY <2>2 DEF UploadCheck, MultipartSessionExists
  <2>3. CASE UploadTemp(r)
    BY <2>3 DEF UploadTemp
  <2>4. CASE UploadRename(r)
    <3>1. Overwritten(r) \subseteq PartNum \X Content
      BY DEF Overwritten, Listable
    <3>2. replaced' \subseteq PartNum \X Content
      BY <2>4, <3>1 DEF UploadRename
    <3> QED
      BY <2>4, <3>2 DEF UploadRename
  <2>5. CASE UploadFail(r)
    BY <2>5 DEF UploadFail
  <2> QED
    BY <1>2, <2>1, <2>2, <2>3, <2>4, <2>5 DEF Upload
<1>3. ASSUME NEW r \in Request, Complete(r) PROVE TypeInv'
  <2>1. CASE CompleteStart(r)
    BY <2>1, ContentsType DEF CompleteStart
  <2>2. CASE CompleteCopyPart(r)
    <3> DEFINE i == Len(acc[r]) + 1
               l == list[r]
    <3>1. pc[r] = "c_copy" /\ l \in Seq(PartInfo) /\ ValidParts(l) /\ i \in 1..Len(l)
      BY <2>2, PartListsAssumption DEF CompleteCopyPart
    <3>2. l[i].sum \in Content
      BY <3>1, PartOfValid
    <3>3. Append(acc[r], l[i].sum) \in Blob
      BY <3>2 DEF Blob
    <3>4. acc' \in [Request -> Blob]
      <4>1. acc' = acc \/ acc' = [acc EXCEPT ![r] = Append(acc[r], l[i].sum)]
        BY <2>2 DEF CompleteCopyPart
      <4> HIDE DEF i, l
      <4> QED
        BY <3>3, <4>1
    <3>5. \E x \in {"c_copy", "c_rename", "NotFound", "Failed"} : pc' = [pc EXCEPT ![r] = x]
      BY <2>2, Zenon DEF CompleteCopyPart
    <3>6. UNCHANGED <<phase, session, store, list, num, body, history>>
      BY <2>2 DEF CompleteCopyPart
    <3> QED
      BY <3>1, <3>4, <3>5, <3>6
  <2>3. CASE CompleteReadMarker(r)
    BY <2>3 DEF CompleteReadMarker, NoCompletedMeta
  <2>4. CASE CompleteMarkerUnreadable(r)
    BY <2>4 DEF CompleteMarkerUnreadable
  <2>5. CASE CompleteBlobExists(r)
    BY <2>5 DEF CompleteBlobExists, BlobExists
  <2>6. CASE CompleteDropMarker(r)
    BY <2>6 DEF CompleteDropMarker
  <2>7. CASE CompleteReadSession(r)
    BY <2>7 DEF CompleteReadSession, ReadMultipartSessionMeta
  <2>8. CASE CompleteFail(r)
    BY <2>8 DEF CompleteFail, Respond
  <2>9. CASE CompleteRename(r)
    BY <2>9 DEF CompleteRename
  <2>10. CASE CompleteMark(r)
    BY <2>10 DEF CompleteMark
  <2>11. CASE CompleteMarkFail(r)
    BY <2>11 DEF CompleteMarkFail
  <2> QED
    BY <1>3, <2>1, <2>2, <2>3, <2>4, <2>5, <2>6, <2>7, <2>8, <2>9, <2>10, <2>11 DEF Complete
<1>4. ASSUME NEW r \in Request, Remove(r) PROVE TypeInv'
  <2>1. CASE AbortStart(r)
    BY <2>1 DEF AbortStart
  <2>2. CASE RemoveEntry(r)
    BY <2>2 DEF RemoveEntry
  <2>3. CASE RemoveListed(r)
    BY <2>3 DEF RemoveListed
  <2>4. CASE RemoveDir(r)
    <3>1. acked' \subseteq Blob
      BY <2>4 DEF RemoveDir
    <3>2. events' \subseteq Event
      BY <2>4 DEF RemoveDir
    <3>3. dir' \in {"none", "ok"}
      BY <2>4 DEF RemoveDir
    <3>4. pc' \in [Request -> Label] /\ pc' = [pc EXCEPT ![r] = pc'[r]] /\ pc'[r] \in Answer
      BY <2>4 DEF RemoveDir
    <3> QED
      BY <2>4, <3>1, <3>2, <3>3, <3>4 DEF RemoveDir
  <2>5. CASE RemoveFail(r)
    BY <2>5 DEF RemoveFail
  <2> QED
    BY <1>4, <2>1, <2>2, <2>3, <2>4, <2>5 DEF Remove
<1>5. ASSUME NEW r \in Request, Delete(r) PROVE TypeInv'
  <2>1. CASE DeleteStart(r)
    BY <2>1 DEF DeleteStart
  <2>2. CASE DeleteBlobFile(r)
    BY <2>2 DEF DeleteBlobFile
  <2>3. CASE DeleteMarker(r)
    BY <2>3 DEF DeleteMarker
  <2>4. CASE DeleteFail(r)
    BY <2>4 DEF DeleteFail, Respond
  <2> QED
    BY <1>5, <2>1, <2>2, <2>3, <2>4 DEF Delete
<1>6. ASSUME NEW r \in Request, Finish(r) PROVE TypeInv'
  BY <1>6 DEF Finish
<1>7. CASE Crash
  BY <1>7 DEF Crash, ForgetSession
<1>8. CASE UNCHANGED vars
  BY <1>8 DEF vars
<1> QED
  BY <1>1, <1>2, <1>3, <1>4, <1>5, <1>6, <1>7, <1>8 DEF Next

(* Every variable keeps its type, whatever the requests do concurrently. *)
THEOREM TypeCorrect == Spec => []TypeOK
<1>1. TypeInv => TypeOK
  BY DEF TypeInv
<1> QED
  BY TypeInit, TypeNext, <1>1, PTL DEF Spec

-----------------------------------------------------------------------------
(* The temporary blob of a Complete is the prefix of what its list asks    *)
(* for, part by part; so what is renamed, recorded or returned was asked   *)
(* for.                                                                    *)
Assembled == {"c_exists", "c_rename", "c_mark", "c_rm", "c_rmdir"}

IntegrityInv ==
  /\ NoFile \notin asked
  /\ blob \in asked \cup {NoFile}
  /\ marker \in asked \cup {NoFile}
  /\ acked \subseteq asked
  /\ \A r \in Request :
       /\ pc[r] \in Completing => Contents(list[r]) \in asked
       /\ pc[r] \in {"idle", "c_marker", "c_session"} => acc[r] = NoFile
       /\ pc[r] = "c_copy" => /\ Len(acc[r]) < Len(list[r])
                              /\ \A i \in 1..Len(acc[r]) : acc[r][i] = list[r][i].sum
       /\ pc[r] \in Assembled => acc[r] \in asked

(* One copy step: the next part is appended, or the request is answered. *)
NextPart(r) == Len(acc[r]) + 1
Extended(r) == Append(acc[r], list[r][NextPart(r)].sum)

Found(r) == <<list[r][NextPart(r)].num, list[r][NextPart(r)].sum>> \in Listable \cap Held

LEMMA CopyStep ==
  ASSUME TypeInv, IntegrityInv, NEW r \in Request, CompleteCopyPart(r)
  PROVE  /\ pc[r] = "c_copy" /\ list[r] \in PartLists /\ ValidParts(list[r])
         /\ NextPart(r) \in 1..Len(list[r])
         /\ Extended(r) \in Blob /\ Len(Extended(r)) = NextPart(r)
         /\ \A j \in 1..NextPart(r) : Extended(r)[j] = list[r][j].sum
         /\ NextPart(r) = Len(list[r]) => Extended(r) = Contents(list[r])
         /\ \/ /\ acc' = [acc EXCEPT ![r] = Extended(r)]
               /\ pc' = [pc EXCEPT ![r] = IF NextPart(r) = Len(list[r]) THEN "c_rename"
                                                                      ELSE "c_copy"]
               /\ Found(r)
            \/ /\ acc' = acc
               /\ \E x \in Answer : pc' = [pc EXCEPT ![r] = x]
         /\ UNCHANGED <<phase, session, store, list, num, body, history>>
<1> DEFINE i == Len(acc[r]) + 1
           l == list[r]
           b == Append(acc[r], l[i].sum)
<1> USE DEF TypeInv, TypeOK, RequestInv, IntegrityInv, Completing, Answer
<1>1. /\ pc[r] = "c_copy" /\ l \in PartLists /\ l \in Seq(PartInfo) /\ ValidParts(l)
      /\ acc[r] \in Seq(Content) /\ i \in 1..Len(l)
  BY PartListsAssumption DEF CompleteCopyPart, Blob
<1>2. l[i].sum \in Content
  BY <1>1, PartOfValid
<1>3. b \in Blob /\ Len(b) = i /\ \A j \in 1..i : b[j] = l[j].sum
  BY <1>1, <1>2 DEF Blob
<1>4. \/ /\ acc' = [acc EXCEPT ![r] = b]
         /\ pc' = [pc EXCEPT ![r] = IF i = Len(l) THEN "c_rename" ELSE "c_copy"]
         /\ <<l[i].num, l[i].sum>> \in Listable \cap Held
      \/ /\ acc' = acc
         /\ \E x \in Answer : pc' = [pc EXCEPT ![r] = x]
  BY <1>1, <1>2, NoneAssumption DEF CompleteCopyPart, Goto, Held, Listable
<1>5. UNCHANGED <<phase, session, store, list, num, body, history>>
  BY DEF CompleteCopyPart
<1> HIDE DEF i, l, b
<1>6. ASSUME i = Len(l) PROVE b = Contents(l)
  <2>1. Len(b) = Len(l) /\ \A j \in 1..Len(b) : b[j] = l[j].sum
    BY <1>3, <1>6
  <2> QED
    BY <1>1, <1>3, <2>1, PrefixIsContents
<1> QED
  BY <1>1, <1>3, <1>4, <1>5, <1>6, Zenon DEF NextPart, Extended, Found, i, l, b

LEMMA IntegrityInit == Init => IntegrityInv
  BY DEF Init, IntegrityInv, Completing, Assembled

LEMMA IntegrityNext == TypeInv /\ IntegrityInv /\ [Next]_vars => IntegrityInv'
<1> SUFFICES ASSUME TypeInv, IntegrityInv, [Next]_vars PROVE IntegrityInv'
  OBVIOUS
<1> USE DEF TypeInv, TypeOK, RequestInv, IntegrityInv, Label, Answer, Uploading, Completing,
            Assembled, Goto, session, store, local, history
<1>1. ASSUME NEW r \in Request, Initiate(r) PROVE IntegrityInv'
  <2>1. CASE InitiateStart(r)
    BY <2>1 DEF InitiateStart
  <2>2. CASE InitiateMkdir(r)
    BY <2>2 DEF InitiateMkdir
  <2>3. CASE InitiateCreate(r)
    BY <2>3 DEF InitiateCreate
  <2>4. CASE InitiateWrite(r)
    BY <2>4 DEF InitiateWrite
  <2>5. CASE InitiateFail(r)
    BY <2>5 DEF InitiateFail, ForgetSession
  <2> QED
    BY <1>1, <2>1, <2>2, <2>3, <2>4, <2>5 DEF Initiate
<1>2. ASSUME NEW r \in Request, Upload(r) PROVE IntegrityInv'
  <2>1. CASE UploadStart(r)
    BY <2>1 DEF UploadStart
  <2>2. CASE UploadCheck(r)
    BY <2>2 DEF UploadCheck, MultipartSessionExists
  <2>3. CASE UploadTemp(r)
    BY <2>3 DEF UploadTemp
  <2>4. CASE UploadRename(r)
    BY <2>4 DEF UploadRename
  <2>5. CASE UploadFail(r)
    BY <2>5 DEF UploadFail
  <2> QED
    BY <1>2, <2>1, <2>2, <2>3, <2>4, <2>5 DEF Upload
<1>3. ASSUME NEW r \in Request, Complete(r) PROVE IntegrityInv'
  <2>1. CASE CompleteStart(r)
    BY <2>1, ContentsType DEF CompleteStart
  <2>2. CASE CompleteReadMarker(r)
    BY <2>2 DEF CompleteReadMarker, NoCompletedMeta
  <2>3. CASE CompleteMarkerUnreadable(r)
    BY <2>3 DEF CompleteMarkerUnreadable
  <2>4. CASE CompleteBlobExists(r)
    BY <2>4 DEF CompleteBlobExists, BlobExists
  <2>5. CASE CompleteDropMarker(r)
    BY <2>5 DEF CompleteDropMarker
  <2>6. CASE CompleteReadSession(r)
    <3>1. acc[r] = NoFile /\ Len(NoFile) = 0 /\ Len(list[r]) > 0
      BY <2>6 DEF CompleteReadSession, ReadMultipartSessionMeta, ValidParts, NoFile
    <3> QED
      BY <2>6, <3>1 DEF CompleteReadSession, ReadMultipartSessionMeta
  <2>7. CASE CompleteCopyPart(r)
    BY <2>7, CopyStep
  <2>8. CASE CompleteFail(r)
    BY <2>8 DEF CompleteFail, Respond
  <2>9. CASE CompleteRename(r)
    BY <2>9 DEF CompleteRename
  <2>10. CASE CompleteMark(r)
    BY <2>10 DEF CompleteMark
  <2>11. CASE CompleteMarkFail(r)
    BY <2>11 DEF CompleteMarkFail
  <2> QED
    BY <1>3, <2>1, <2>2, <2>3, <2>4, <2>5, <2>6, <2>7, <2>8, <2>9, <2>10, <2>11 DEF Complete
<1>4. ASSUME NEW r \in Request, Remove(r) PROVE IntegrityInv'
  <2>1. CASE AbortStart(r)
    BY <2>1 DEF AbortStart
  <2>2. CASE RemoveEntry(r)
    BY <2>2 DEF RemoveEntry
  <2>3. CASE RemoveListed(r)
    BY <2>3 DEF RemoveListed
  <2>4. CASE RemoveDir(r)
    BY <2>4 DEF RemoveDir
  <2>5. CASE RemoveFail(r)
    BY <2>5 DEF RemoveFail
  <2> QED
    BY <1>4, <2>1, <2>2, <2>3, <2>4, <2>5 DEF Remove
<1>5. ASSUME NEW r \in Request, Delete(r) PROVE IntegrityInv'
  <2>1. CASE DeleteStart(r)
    BY <2>1 DEF DeleteStart
  <2>2. CASE DeleteBlobFile(r)
    BY <2>2 DEF DeleteBlobFile
  <2>3. CASE DeleteMarker(r)
    BY <2>3 DEF DeleteMarker
  <2>4. CASE DeleteFail(r)
    BY <2>4 DEF DeleteFail, Respond
  <2> QED
    BY <1>5, <2>1, <2>2, <2>3, <2>4 DEF Delete
<1>6. ASSUME NEW r \in Request, Finish(r) PROVE IntegrityInv'
  BY <1>6 DEF Finish
<1>7. CASE Crash
  BY <1>7 DEF Crash, ForgetSession
<1>8. CASE UNCHANGED vars
  BY <1>8 DEF vars
<1> QED
  BY <1>1, <1>2, <1>3, <1>4, <1>5, <1>6, <1>7, <1>8 DEF Next

(* No torn blob: for any interleaving of uploads, completes, aborts,       *)
(* deletes, failures and crashes, what is published, recorded or reported  *)
(* is the content some Complete listed.                                    *)
THEOREM AssemblyIsIntact == Spec => []AssemblyIntegrity
<1>1. IntegrityInv => AssemblyIntegrity
  BY DEF IntegrityInv, AssemblyIntegrity
<1> QED
  BY TypeInit, TypeNext, IntegrityInit, IntegrityNext, <1>1, PTL DEF Spec

-----------------------------------------------------------------------------
(* While nobody deletes and the marker is readable and writable, blob and  *)
(* marker only ever come into being, in this order.                        *)
DurableInv ==
  Undisturbed =>
    /\ marker # NoFile => blob # NoFile
    /\ acked # {} => marker # NoFile
    /\ \A r \in Request :
         /\ pc[r] = "c_mark" => blob # NoFile
         /\ pc[r] \in {"c_exists", "c_rm", "c_rmdir"} => marker # NoFile
         /\ pc[r] \notin {"c_drop", "d_blob", "d_marker"}
    /\ \A r \in late : acked # {} /\ pc[r] \in {"c_marker", "c_exists", "Ok", "Failed"}

LEMMA DurableInit == Init => DurableInv
  BY DEF Init, DurableInv

LEMMA DurableNext == TypeInv /\ IntegrityInv /\ DurableInv /\ [Next]_vars => DurableInv'
<1> SUFFICES ASSUME TypeInv, IntegrityInv, DurableInv, [Next]_vars PROVE DurableInv'
  OBVIOUS
<1> USE DEF TypeInv, TypeOK, IntegrityInv, DurableInv, Undisturbed, Label, Answer,
            Assembled, Goto, session, store, local, history
<1>1. ASSUME NEW r \in Request, Initiate(r) PROVE DurableInv'
  <2>1. CASE InitiateStart(r)
    BY <2>1 DEF InitiateStart
  <2>2. CASE InitiateMkdir(r)
    BY <2>2 DEF InitiateMkdir
  <2>3. CASE InitiateCreate(r)
    BY <2>3 DEF InitiateCreate
  <2>4. CASE InitiateWrite(r)
    BY <2>4 DEF InitiateWrite
  <2>5. CASE InitiateFail(r)
    BY <2>5 DEF InitiateFail, ForgetSession
  <2> QED
    BY <1>1, <2>1, <2>2, <2>3, <2>4, <2>5 DEF Initiate
<1>2. ASSUME NEW r \in Request, Upload(r) PROVE DurableInv'
  <2>1. CASE UploadStart(r)
    BY <2>1 DEF UploadStart
  <2>2. CASE UploadCheck(r)
    BY <2>2 DEF UploadCheck, MultipartSessionExists
  <2>3. CASE UploadTemp(r)
    BY <2>3 DEF UploadTemp
  <2>4. CASE UploadRename(r)
    BY <2>4 DEF UploadRename
  <2>5. CASE UploadFail(r)
    BY <2>5 DEF UploadFail
  <2> QED
    BY <1>2, <2>1, <2>2, <2>3, <2>4, <2>5 DEF Upload
<1>3. ASSUME NEW r \in Request, Complete(r) PROVE DurableInv'
  <2>1. CASE CompleteStart(r)
    BY <2>1 DEF CompleteStart
  <2>2. CASE CompleteReadMarker(r)
    BY <2>2 DEF CompleteReadMarker, NoCompletedMeta
  <2>3. CASE CompleteMarkerUnreadable(r)
    BY <2>3 DEF CompleteMarkerUnreadable
  <2>4. CASE CompleteBlobExists(r)
    BY <2>4 DEF CompleteBlobExists, BlobExists
  <2>5. CASE CompleteDropMarker(r)
    BY <2>5 DEF CompleteDropMarker
  <2>6. CASE CompleteReadSession(r)
    BY <2>6 DEF CompleteReadSession, ReadMultipartSessionMeta
  <2>7. CASE CompleteCopyPart(r)
    BY <2>7 DEF CompleteCopyPart
  <2>8. CASE CompleteFail(r)
    BY <2>8 DEF CompleteFail, Respond
  <2>9. CASE CompleteRename(r)
    BY <2>9 DEF CompleteRename
  <2>10. CASE CompleteMark(r)
    BY <2>10 DEF CompleteMark
  <2>11. CASE CompleteMarkFail(r)
    BY <2>11 DEF CompleteMarkFail
  <2> QED
    BY <1>3, <2>1, <2>2, <2>3, <2>4, <2>5, <2>6, <2>7, <2>8, <2>9, <2>10, <2>11 DEF Complete
<1>4. ASSUME NEW r \in Request, Remove(r) PROVE DurableInv'
  <2>1. CASE AbortStart(r)
    BY <2>1 DEF AbortStart
  <2>2. CASE RemoveEntry(r)
    BY <2>2 DEF RemoveEntry
  <2>3. CASE RemoveListed(r)
    BY <2>3 DEF RemoveListed
  <2>4. CASE RemoveDir(r)
    BY <2>4 DEF RemoveDir
  <2>5. CASE RemoveFail(r)
    BY <2>5 DEF RemoveFail
  <2> QED
    BY <1>4, <2>1, <2>2, <2>3, <2>4, <2>5 DEF Remove
<1>5. ASSUME NEW r \in Request, Delete(r) PROVE DurableInv'
  <2>1. CASE DeleteStart(r)
    BY <2>1 DEF DeleteStart
  <2>2. CASE DeleteBlobFile(r)
    BY <2>2 DEF DeleteBlobFile
  <2>3. CASE DeleteMarker(r)
    BY <2>3 DEF DeleteMarker
  <2>4. CASE DeleteFail(r)
    BY <2>4 DEF DeleteFail, Respond
  <2> QED
    BY <1>5, <2>1, <2>2, <2>3, <2>4 DEF Delete
<1>6. ASSUME NEW r \in Request, Finish(r) PROVE DurableInv'
  BY <1>6 DEF Finish
<1>7. CASE Crash
  BY <1>7 DEF Crash, ForgetSession
<1>8. CASE UNCHANGED vars
  BY <1>8 DEF vars
<1> QED
  BY <1>1, <1>2, <1>3, <1>4, <1>5, <1>6, <1>7, <1>8 DEF Next

(* What a Complete reported stays on disk with its marker, unless the      *)
(* object is deleted or the marker could not be read or written.           *)
THEOREM AckedIsDurable == Spec => []AckedSurvives
<1>1. IntegrityInv /\ DurableInv => AckedSurvives
  <2> SUFFICES ASSUME IntegrityInv, DurableInv, acked # {}, Undisturbed
               PROVE  /\ blob # NoFile /\ marker # NoFile
                      /\ (\A x, y \in asked : x = y) => acked = {blob} /\ marker = blob
    BY DEF AckedSurvives
  <2>1. blob # NoFile /\ marker # NoFile /\ blob \in asked /\ marker \in asked
    BY DEF IntegrityInv, DurableInv
  <2>2. ASSUME \A x, y \in asked : x = y PROVE acked = {blob} /\ marker = blob
    BY <2>1, <2>2 DEF IntegrityInv
  <2> QED
    BY <2>1, <2>2
<1> QED
  BY TypeInit, TypeNext, IntegrityInit, IntegrityNext, DurableInit, DurableNext, <1>1, PTL
     DEF Spec

(* A Complete repeated after a success is answered from the marker. *)
THEOREM LateRetriesAreServed == Spec => []LateRetryServed
<1>1. DurableInv => LateRetryServed
  BY DEF DurableInv, LateRetryServed
<1> QED
  BY TypeInit, TypeNext, IntegrityInit, IntegrityNext, DurableInit, DurableNext, <1>1, PTL
     DEF Spec

-----------------------------------------------------------------------------
(* Before the first marker is written, and unless an Abort is under way,   *)
(* nothing is removed from the session: every part that was copied into a  *)
(* temporary blob is still there, or a client has replaced it.             *)
Open == Undisturbed /\ "abort" \notin events /\ marker = NoFile

Copied(a, l, held) == \A i \in 1..Len(a) : <<l[i].num, l[i].sum>> \in held

(* The parts that lists name, while they are in the session or a client's  *)
(* own upload has replaced them.                                           *)
Safe == Listable \cap (Held \cup replaced)

Creating == {"i_mkdir", "i_create", "i_write"}

Removing == {"a_rm", "a_rmdir", "c_rm", "c_rmdir"}

RecoverInv ==
  /\ \A r \in Request : pc[r] \in Creating => phase = "creating"
  /\ \A r, q \in Request : pc[r] \in Creating /\ pc[q] \in Creating => r = q
  /\ phase # "known" =>
       /\ blob = NoFile /\ acked = {}
       /\ \A r \in Request : pc[r] \in {"idle"} \cup Creating \cup Answer
  /\ Open =>
       /\ phase = "known" => manifest = "ok"
       /\ blob # NoFile => Rebuildable(blob, Safe)
       /\ \A r \in Request :
            /\ pc[r] \notin Removing
            /\ pc[r] = "c_copy" => /\ Copied(acc[r], list[r], Safe)
                                   /\ ExpectedParts \in {0, Len(list[r])}
            /\ pc[r] = "c_rename" => Rebuildable(acc[r], Safe)

LEMMA SafeMonotonic ==
  ASSUME NEW H, NEW K, H \subseteq K
  PROVE  /\ \A b : Rebuildable(b, H) => Rebuildable(b, K)
         /\ \A a, l : Copied(a, l, H) => Copied(a, l, K)
  BY DEF Rebuildable, Copied

(* The session is open before it is open again, and loses no part that a   *)
(* blob rests on.                                                          *)
LEMMA OpenStep ==
  TypeInv /\ IntegrityInv /\ DurableInv /\ RecoverInv /\ [Next]_vars =>
    (Open' => Open /\ (InUse => Safe \subseteq Safe'))
<1> DEFINE OpenInv == Open' => Open /\ (InUse => Safe \subseteq Safe')
<1> SUFFICES ASSUME TypeInv, IntegrityInv, DurableInv, RecoverInv, [Next]_vars
             PROVE  OpenInv
  OBVIOUS
<1> USE NoneAssumption
        DEF TypeInv, TypeOK, RequestInv, DurableInv, RecoverInv, Open, Undisturbed, Held, Safe,
            Uploading, Removing, Goto, session, store, local, history
<1>1. ASSUME NEW r \in Request, Initiate(r) PROVE OpenInv
  <2>1. CASE InitiateStart(r)
    BY <2>1 DEF InitiateStart
  <2>2. CASE InitiateMkdir(r)
    BY <2>2 DEF InitiateMkdir
  <2>3. CASE InitiateCreate(r)
    BY <2>3 DEF InitiateCreate
  <2>4. CASE InitiateWrite(r)
    BY <2>4 DEF InitiateWrite
  <2>5. CASE InitiateFail(r)
    BY <2>5 DEF InitiateFail, ForgetSession
  <2> QED
    BY <1>1, <2>1, <2>2, <2>3, <2>4, <2>5 DEF Initiate
<1>2. ASSUME NEW r \in Request, Upload(r) PROVE OpenInv
  <2>1. CASE UploadStart(r)
    BY <2>1 DEF UploadStart
  <2>2. CASE UploadCheck(r)
    BY <2>2 DEF UploadCheck, MultipartSessionExists
  <2>3. CASE UploadTemp(r)
    BY <2>3 DEF UploadTemp
  <2>4. CASE UploadRename(r)
    <3>1. Open' => Open
      BY <2>4 DEF UploadRename
    <3>2. ASSUME InUse, NEW p \in Safe PROVE p \in Safe'
      <4>1. p \in Listable /\ p \in PartNum \X Content
        BY <3>2 DEF Listable
      <4>2. CASE p \in replaced
        BY <2>4, <4>1, <4>2 DEF UploadRename
      <4>3. CASE part[p[1]] = p[2]
        <5>1. CASE part'[p[1]] = part[p[1]]
          BY <4>1, <4>3, <5>1
        <5>2. CASE part'[p[1]] # part[p[1]]
          <6>1. p[1] = num[r] /\ r \in upTmp /\ p[2] # body[r]
            BY <2>4, <4>1, <4>3, <5>2 DEF UploadRename
          <6>2. p = <<num[r], part[num[r]]>> /\ p # <<num[r], body[r]>>
            BY <4>1, <4>3, <6>1
          <6>3. p \in Overwritten(r)
            BY <4>1, <6>2 DEF Overwritten
          <6>4. p \in replaced'
            BY <2>4, <3>2, <6>1, <6>3 DEF UploadRename
          <6> QED
            BY <4>1, <6>4
        <5> QED
          BY <5>1, <5>2
      <4> QED
        BY <3>2, <4>2, <4>3
    <3> QED
      BY <3>1, <3>2
  <2>5. CASE UploadFail(r)
    BY <2>5 DEF UploadFail
  <2> QED
    BY <1>2, <2>1, <2>2, <2>3, <2>4, <2>5 DEF Upload
<1>3. ASSUME NEW r \in Request, Complete(r) PROVE OpenInv
  <2>1. CASE CompleteStart(r)
    BY <2>1 DEF CompleteStart
  <2>2. CASE CompleteReadMarker(r)
    BY <2>2 DEF CompleteReadMarker, NoCompletedMeta
  <2>3. CASE CompleteMarkerUnreadable(r)
    BY <2>3 DEF CompleteMarkerUnreadable
  <2>4. CASE CompleteBlobExists(r)
    BY <2>4 DEF CompleteBlobExists, BlobExists
  <2>5. CASE CompleteDropMarker(r)
    BY <2>5 DEF CompleteDropMarker
  <2>6. CASE CompleteReadSession(r)
    BY <2>6 DEF CompleteReadSession, ReadMultipartSessionMeta
  <2>7. CASE CompleteCopyPart(r)
    BY <2>7 DEF CompleteCopyPart
  <2>8. CASE CompleteFail(r)
    BY <2>8 DEF CompleteFail, Respond
  <2>9. CASE CompleteRename(r)
    BY <2>9 DEF CompleteRename
  <2>10. CASE CompleteMark(r)
    <3>1. marker' # NoFile
      BY <2>10 DEF CompleteMark, IntegrityInv, Assembled
    <3> QED
      BY <3>1
  <2>11. CASE CompleteMarkFail(r)
    BY <2>11 DEF CompleteMarkFail
  <2> QED
    BY <1>3, <2>1, <2>2, <2>3, <2>4, <2>5, <2>6, <2>7, <2>8, <2>9, <2>10, <2>11 DEF Complete
<1>4. ASSUME NEW r \in Request, Remove(r) PROVE OpenInv
  <2>1. CASE AbortStart(r)
    BY <2>1 DEF AbortStart
  <2>2. CASE RemoveEntry(r)
    BY <2>2 DEF RemoveEntry
  <2>3. CASE RemoveListed(r)
    BY <2>3 DEF RemoveListed
  <2>4. CASE RemoveDir(r)
    BY <2>4 DEF RemoveDir
  <2>5. CASE RemoveFail(r)
    BY <2>5 DEF RemoveFail
  <2> QED
    BY <1>4, <2>1, <2>2, <2>3, <2>4, <2>5 DEF Remove
<1>5. ASSUME NEW r \in Request, Delete(r) PROVE OpenInv
  <2>1. CASE DeleteStart(r)
    BY <2>1 DEF DeleteStart
  <2>2. CASE DeleteBlobFile(r)
    BY <2>2 DEF DeleteBlobFile
  <2>3. CASE DeleteMarker(r)
    BY <2>3 DEF DeleteMarker
  <2>4. CASE DeleteFail(r)
    BY <2>4 DEF DeleteFail, Respond
  <2> QED
    BY <1>5, <2>1, <2>2, <2>3, <2>4 DEF Delete
<1>6. ASSUME NEW r \in Request, Finish(r) PROVE OpenInv
  BY <1>6 DEF Finish
<1>7. CASE Crash
  BY <1>7 DEF Crash, ForgetSession
<1>8. CASE UNCHANGED vars
  BY <1>8 DEF vars
<1> QED
  BY <1>1, <1>2, <1>3, <1>4, <1>5, <1>6, <1>7, <1>8 DEF Next

LEMMA RecoverInit == Init => RecoverInv
  BY DEF Init, RecoverInv, Creating, Answer, Removing

LEMMA RecoverNext ==
  TypeInv /\ IntegrityInv /\ DurableInv /\ RecoverInv /\ [Next]_vars => RecoverInv'
<1> SUFFICES ASSUME TypeInv, IntegrityInv, DurableInv, RecoverInv, [Next]_vars
             PROVE  RecoverInv'
  OBVIOUS
<1>0. Open' => /\ Open
               /\ InUse => /\ \A b : Rebuildable(b, Safe) => Rebuildable(b, Safe')
                           /\ \A a, l : Copied(a, l, Safe) => Copied(a, l, Safe')
  BY OpenStep, SafeMonotonic
<1>00. Open => /\ blob # NoFile => InUse
               /\ \A q \in Request : pc[q] \in {"c_copy", "c_rename", "c_mark"} => InUse
  BY DEF Open, Undisturbed, InUse
<1> USE <1>0, <1>00 DEF TypeInv, TypeOK, RecoverInv, Label, Answer, Creating, Removing, Goto,
             session, store, local, history
<1>1. ASSUME NEW r \in Request, Initiate(r) PROVE RecoverInv'
  <2>1. CASE InitiateStart(r)
    BY <2>1 DEF InitiateStart
  <2>2. CASE InitiateMkdir(r)
    BY <2>2 DEF InitiateMkdir
  <2>3. CASE InitiateCreate(r)
    BY <2>3 DEF InitiateCreate
  <2>4. CASE InitiateWrite(r)
    BY <2>4 DEF InitiateWrite
  <2>5. CASE InitiateFail(r)
    BY <2>5 DEF InitiateFail, ForgetSession
  <2> QED
    BY <1>1, <2>1, <2>2, <2>3, <2>4, <2>5 DEF Initiate
<1>2. ASSUME NEW r \in Request, Upload(r) PROVE RecoverInv'
  <2>1. CASE UploadStart(r)
    BY <2>1 DEF UploadStart
  <2>2. CASE UploadCheck(r)
    BY <2>2 DEF UploadCheck, MultipartSessionExists
  <2>3. CASE UploadTemp(r)
    BY <2>3 DEF UploadTemp
  <2>4. CASE UploadRename(r)
    BY <2>4 DEF UploadRename
  <2>5. CASE UploadFail(r)
    BY <2>5 DEF UploadFail
  <2> QED
    BY <1>2, <2>1, <2>2, <2>3, <2>4, <2>5 DEF Upload
<1>3. ASSUME NEW r \in Request, Complete(r) PROVE RecoverInv'
  <2>1. CASE CompleteStart(r)
    BY <2>1 DEF CompleteStart
  <2>2. CASE CompleteReadMarker(r)
    BY <2>2 DEF CompleteReadMarker, NoCompletedMeta
  <2>3. CASE CompleteMarkerUnreadable(r)
    BY <2>3 DEF CompleteMarkerUnreadable
  <2>4. CASE CompleteBlobExists(r)
    BY <2>4 DEF CompleteBlobExists, BlobExists
  <2>5. CASE CompleteDropMarker(r)
    BY <2>5 DEF CompleteDropMarker
  <2>6. CASE CompleteReadSession(r)
    <3>1. Copied(acc[r], list[r], Safe)
      BY <2>6 DEF CompleteReadSession, ReadMultipartSessionMeta, IntegrityInv, Copied, NoFile
    <3>2. pc'[r] = "c_copy" => ExpectedParts \in {0, Len(list[r])}
      BY <2>6 DEF CompleteReadSession
    <3>3. /\ UNCHANGED <<phase, session, store, local, history>>
          /\ \E x \in {"c_copy", "NotFound", "Failed"} : pc' = [pc EXCEPT ![r] = x]
      BY <2>6 DEF CompleteReadSession
    <3>4. Safe' = Safe
      BY <3>3 DEF Safe, Held
    <3>5. pc[r] = "c_session"
      BY <2>6 DEF CompleteReadSession
    <3> QED
      BY <3>1, <3>2, <3>3, <3>4, <3>5
  <2>7. CASE CompleteCopyPart(r)
    <3>1. UNCHANGED <<phase, session, store, list, num, body, history>> /\ pc[r] = "c_copy"
      BY <2>7, CopyStep
    <3>2. CASE acc' = acc /\ \E x \in Answer : pc' = [pc EXCEPT ![r] = x]
      BY <3>1, <3>2
    <3>3. CASE /\ acc' = [acc EXCEPT ![r] = Extended(r)]
               /\ pc' = [pc EXCEPT ![r] = IF NextPart(r) = Len(list[r]) THEN "c_rename"
                                                                      ELSE "c_copy"]
               /\ Found(r)
      <4>1. Open => Copied(Extended(r), list[r], Safe)
        <5> SUFFICES ASSUME Open, NEW j \in 1..Len(Extended(r))
                     PROVE  <<list[r][j].num, list[r][j].sum>> \in Safe
          BY DEF Copied
        <5>1. Copied(acc[r], list[r], Safe)
          BY <3>1
        <5>2. j \in 1..Len(acc[r]) \/ j = NextPart(r)
          BY <2>7, CopyStep DEF NextPart, Blob
        <5> QED
          BY <3>3, <5>1, <5>2 DEF Copied, Safe, Found
      <4>2. Open /\ NextPart(r) = Len(list[r]) => Rebuildable(Extended(r), Safe)
        BY <2>7, <4>1, CopyStep DEF Copied, Rebuildable
      <4> QED
        BY <3>1, <3>3, <4>1, <4>2
    <3> QED
      BY <2>7, <3>2, <3>3, CopyStep
  <2>8. CASE CompleteFail(r)
    BY <2>8 DEF CompleteFail, Respond
  <2>9. CASE CompleteRename(r)
    BY <2>9 DEF CompleteRename
  <2>10. CASE CompleteMark(r)
    <3>1. ~Open'
      BY <2>10 DEF CompleteMark, Open, IntegrityInv, Assembled
    <3> QED
      BY <2>10, <3>1 DEF CompleteMark
  <2>11. CASE CompleteMarkFail(r)
    BY <2>11 DEF CompleteMarkFail
  <2> QED
    BY <1>3, <2>1, <2>2, <2>3, <2>4, <2>5, <2>6, <2>7, <2>8, <2>9, <2>10, <2>11 DEF Complete
<1>4. ASSUME NEW r \in Request, Remove(r) PROVE RecoverInv'
  <2>1. CASE AbortStart(r)
    <3>1. ~Open'
      BY <2>1 DEF AbortStart, Open
    <3> QED
      BY <2>1, <3>1 DEF AbortStart
  <2>2. CASE RemoveEntry(r)
    BY <2>2 DEF RemoveEntry
  <2>3. CASE RemoveListed(r)
    BY <2>3 DEF RemoveListed
  <2>4. CASE RemoveDir(r)
    BY <2>4 DEF RemoveDir
  <2>5. CASE RemoveFail(r)
    BY <2>5 DEF RemoveFail
  <2> QED
    BY <1>4, <2>1, <2>2, <2>3, <2>4, <2>5 DEF Remove
<1>5. ASSUME NEW r \in Request, Delete(r) PROVE RecoverInv'
  <2>1. CASE DeleteStart(r)
    BY <2>1 DEF DeleteStart
  <2>2. CASE DeleteBlobFile(r)
    BY <2>2 DEF DeleteBlobFile
  <2>3. CASE DeleteMarker(r)
    BY <2>3 DEF DeleteMarker
  <2>4. CASE DeleteFail(r)
    BY <2>4 DEF DeleteFail, Respond
  <2> QED
    BY <1>5, <2>1, <2>2, <2>3, <2>4 DEF Delete
<1>6. ASSUME NEW r \in Request, Finish(r) PROVE RecoverInv'
  BY <1>6 DEF Finish
<1>7. CASE Crash
  BY <1>7 DEF Crash, ForgetSession
<1>8. CASE UNCHANGED vars
  BY <1>8 DEF vars
<1> QED
  BY <1>1, <1>2, <1>3, <1>4, <1>5, <1>6, <1>7, <1>8 DEF Next

(* A crash never strands a published blob: its marker is there, or the     *)
(* session still holds, with their contents, the parts of a Complete that  *)
(* builds it again, save those that a client's own upload has replaced     *)
(* since they were copied.                                                 *)
THEOREM PublishedStaysRecoverable == Spec => []PublishedIsRecoverable
<1>1. RecoverInv => PublishedIsRecoverable
  <2>1. Rebuildable(blob, Safe) => Rebuildable(blob, Held \cup replaced)
    BY SafeMonotonic DEF Safe
  <2> QED
    BY <2>1 DEF RecoverInv, PublishedIsRecoverable, Open
<1> QED
  BY TypeInit, TypeNext, IntegrityInit, IntegrityNext, DurableInit, DurableNext,
     RecoverInit, RecoverNext, <1>1, PTL DEF Spec

-----------------------------------------------------------------------------
(* MultipartUpload implements PublishedBlob.                               *)

Seen == <<asked, blob, acked, events>>

(* Whether somebody interferes is decided by the events. *)
LEMMA SeenStutters ==
  ASSUME UNCHANGED Seen
  PROVE  UNCHANGED <<asked, blob, acked, IF Undisturbed THEN "yes" ELSE "no">>
  BY DEF Seen, Undisturbed

(* An event can only begin a disturbance. *)
LEMMA EventDisturbs ==
  ASSUME UNCHANGED <<asked, blob, acked>>, NEW e, events' = events \cup {e}
  PROVE  Store!Next \/ UNCHANGED <<asked, blob, acked, IF Undisturbed THEN "yes" ELSE "no">>
<1>1. Undisturbed' => Undisturbed
  BY DEF Undisturbed
<1>2. CASE Undisturbed' <=> Undisturbed
  BY <1>2
<1>3. CASE ~Undisturbed'
  BY <1>3 DEF Store!Next, Store!Disturb
<1> QED
  BY <1>1, <1>2, <1>3

(* A report of what was asked for, while the blob is there. *)
LEMMA Reports ==
  ASSUME NEW x \in asked, acked' = acked \cup {x}, UNCHANGED <<asked, blob, events>>,
         Undisturbed => blob # NoFile
  PROVE  Store!Next
<1>1. (IF Undisturbed THEN "yes" ELSE "no")' = IF Undisturbed THEN "yes" ELSE "no"
  BY DEF Undisturbed
<1>2. Store!Report(x)
  BY <1>1 DEF Store!Report
<1> QED
  BY <1>2 DEF Store!Next

LEMMA StoreNext ==
  TypeInv /\ IntegrityInv /\ DurableInv /\ [Next]_vars
    => Store!Next \/ UNCHANGED <<asked, blob, acked, IF Undisturbed THEN "yes" ELSE "no">>
<1> DEFINE Goal == Store!Next \/ UNCHANGED <<asked, blob, acked, IF Undisturbed THEN "yes" ELSE "no">>
<1> SUFFICES ASSUME TypeInv, IntegrityInv, DurableInv, [Next]_vars PROVE Goal
  OBVIOUS
<1> USE DEF session, store, local, history
<1>0. ASSUME UNCHANGED Seen PROVE Goal
  BY <1>0, SeenStutters
<1> HIDE DEF Goal
<1>1. ASSUME NEW r \in Request, Initiate(r) \/ Upload(r) \/ Finish(r) PROVE Goal
  <2>1. UNCHANGED Seen
    BY <1>1 DEF Seen, Initiate, InitiateStart, InitiateMkdir, InitiateCreate, InitiateWrite,
       InitiateFail, ForgetSession, Upload, UploadStart, UploadCheck, UploadTemp, UploadRename,
       UploadFail, Finish
  <2> QED
    BY <1>0, <2>1
<1>2. ASSUME NEW r \in Request, Complete(r) PROVE Goal
  <2>1. CASE CompleteStart(r)
    <3>1. UNCHANGED <<blob, acked, events>>
      BY <2>1 DEF CompleteStart
    <3>2. (IF Undisturbed THEN "yes" ELSE "no")' = IF Undisturbed THEN "yes" ELSE "no"
      BY <3>1 DEF Undisturbed
    <3>3. asked' = asked \/ \E l \in PartLists : ValidParts(l) /\ asked' = asked \cup {Contents(l)}
      BY <2>1 DEF CompleteStart
    <3>4. ASSUME NEW l \in PartLists, ValidParts(l), asked' = asked \cup {Contents(l)} PROVE Store!Next
      <4>1. Contents(l) \in Askable
        BY <3>4 DEF Askable
      <4>2. Store!Ask(Contents(l))
        BY <3>1, <3>2, <3>4 DEF Store!Ask
      <4> QED
        BY <4>1, <4>2 DEF Store!Next
    <3> QED
      BY <3>1, <3>2, <3>3, <3>4 DEF Goal
  <2>2. CASE CompleteBlobExists(r)
    <3>1. CASE blob = NoFile
      BY <1>0, <2>2, <3>1 DEF CompleteBlobExists, BlobExists, Seen
    <3>2. CASE blob # NoFile
      <4>1. acc[r] \in asked
        BY <2>2 DEF CompleteBlobExists, IntegrityInv, Assembled
      <4>2. acked' = acked \cup {acc[r]} /\ UNCHANGED <<asked, blob, events>>
        BY <2>2, <3>2 DEF CompleteBlobExists, BlobExists
      <4>3. Store!Next
        BY <3>2, <4>1, <4>2, Reports
      <4> QED
        BY <4>3 DEF Goal
    <3> QED
      BY <3>1, <3>2
  <2>3. CASE CompleteRename(r)
    <3>1. acc[r] \in asked /\ blob' = acc[r] /\ UNCHANGED <<asked, acked, events>>
      BY <2>3 DEF CompleteRename, IntegrityInv, Assembled
    <3>2. (IF Undisturbed THEN "yes" ELSE "no")' = IF Undisturbed THEN "yes" ELSE "no"
      BY <3>1 DEF Undisturbed
    <3>3. Store!Publish(acc[r])
      BY <3>1, <3>2 DEF Store!Publish
    <3> QED
      BY <3>1, <3>3 DEF Goal, Store!Next
  <2>4. CASE CompleteMarkerUnreadable(r) \/ CompleteMarkFail(r)
    <3>1. UNCHANGED <<asked, blob, acked>> /\ events' = events \cup {"markerFault"}
      BY <2>4 DEF CompleteMarkerUnreadable, CompleteMarkFail
    <3> QED
      BY <3>1, EventDisturbs DEF Goal
  <2>5. CASE CompleteCopyPart(r)
    <3>1. UNCHANGED Seen
      BY <2>5 DEF CompleteCopyPart, Seen
    <3> QED
      BY <1>0, <3>1
  <2>6. CASE \/ CompleteReadMarker(r) \/ CompleteDropMarker(r) \/ CompleteReadSession(r)
             \/ CompleteFail(r) \/ CompleteMark(r)
    <3>1. UNCHANGED Seen
      BY <2>6 DEF CompleteReadMarker, CompleteDropMarker, CompleteReadSession, CompleteFail,
         Respond, CompleteMark, Seen
    <3> QED
      BY <1>0, <3>1
  <2> QED
    BY <1>2, <2>1, <2>2, <2>3, <2>4, <2>5, <2>6 DEF Complete
<1>3. ASSUME NEW r \in Request, Remove(r) PROVE Goal
  <2>0. pc[r] \in {"c_rm", "c_rmdir"} => acc[r] \in asked /\ (Undisturbed => blob # NoFile)
    BY DEF IntegrityInv, Assembled, DurableInv
  <2>1. CASE AbortStart(r)
    <3>1. UNCHANGED <<asked, blob, acked>> /\ events' = events \cup {"abort"}
      BY <2>1 DEF AbortStart
    <3> QED
      BY <3>1, EventDisturbs DEF Goal
  <2>2. CASE RemoveEntry(r) \/ RemoveListed(r)
    <3>1. UNCHANGED Seen
      BY <2>2 DEF RemoveEntry, RemoveListed, Seen
    <3> QED
      BY <1>0, <3>1
  <2>3. CASE RemoveDir(r)
    <3>1. CASE pc[r] = "c_rmdir"
      <4>1. acked' = acked \cup {acc[r]} /\ UNCHANGED <<asked, blob, events>>
        BY <2>3, <3>1 DEF RemoveDir
      <4>2. Store!Next
        BY <2>0, <3>1, <4>1, Reports
      <4> QED
        BY <4>2 DEF Goal
    <3>2. CASE pc[r] = "a_rmdir"
      <4>1. UNCHANGED <<asked, blob, acked>> /\ (events' = events \/ events' = events \cup {"aborted"})
        BY <2>3, <3>2 DEF RemoveDir
      <4>2. CASE events' = events
        BY <1>0, <4>1, <4>2 DEF Seen
      <4>3. CASE events' = events \cup {"aborted"}
        BY <4>1, <4>3, EventDisturbs DEF Goal
      <4> QED
        BY <4>1, <4>2, <4>3
    <3> QED
      BY <2>3, <3>1, <3>2 DEF RemoveDir
  <2>4. CASE RemoveFail(r)
    <3>1. CASE pc[r] = "c_rm"
      <4>1. acked' = acked \cup {acc[r]} /\ UNCHANGED <<asked, blob, events>>
        BY <2>4, <3>1 DEF RemoveFail
      <4>2. Store!Next
        BY <2>0, <3>1, <4>1, Reports
      <4> QED
        BY <4>2 DEF Goal
    <3>2. CASE pc[r] # "c_rm"
      <4>1. UNCHANGED Seen
        BY <2>4, <3>2 DEF RemoveFail, Seen
      <4> QED
        BY <1>0, <4>1
    <3> QED
      BY <3>1, <3>2
  <2> QED
    BY <1>3, <2>1, <2>2, <2>3, <2>4 DEF Remove
<1>4. ASSUME NEW r \in Request, Delete(r) PROVE Goal
  <2>1. CASE DeleteStart(r)
    <3>1. UNCHANGED <<asked, blob, acked>> /\ events' = events \cup {"delete"}
      BY <2>1 DEF DeleteStart
    <3> QED
      BY <3>1, EventDisturbs DEF Goal
  <2>2. CASE DeleteBlobFile(r)
    <3>1. blob' = NoFile /\ UNCHANGED <<asked, acked, events>> /\ ~Undisturbed
      BY <2>2 DEF DeleteBlobFile, DurableInv
    <3>2. ~Undisturbed'
      BY <3>1 DEF Undisturbed
    <3>3. Store!Withdraw
      BY <3>1, <3>2 DEF Store!Withdraw
    <3> QED
      BY <3>3 DEF Goal, Store!Next
  <2>3. CASE DeleteMarker(r) \/ DeleteFail(r)
    <3>1. UNCHANGED Seen
      BY <2>3 DEF DeleteMarker, DeleteFail, Respond, Seen
    <3> QED
      BY <1>0, <3>1
  <2> QED
    BY <1>4, <2>1, <2>2, <2>3 DEF Delete
<1>5. CASE Crash
  <2>1. UNCHANGED Seen
    BY <1>5 DEF Crash, Seen
  <2> QED
    BY <1>0, <2>1
<1>6. CASE UNCHANGED vars
  <2>1. UNCHANGED Seen
    BY <1>6 DEF vars, Seen
  <2> QED
    BY <1>0, <2>1
<1> QED
  BY <1>1, <1>2, <1>3, <1>4, <1>5, <1>6 DEF Next

(* To a reader of the blob a multipart upload is one step, the rename:     *)
(* parts that are replaced while they are copied, concurrent Completes,    *)
(* cleanups, failures and crashes never show, and the blob is withdrawn    *)
(* only once a deletion or a fault of the marker has begun.                *)
THEOREM UploadPublishesOnce == Spec => ImplementsPublishedBlob
<1>1. Init => Store!Init
  BY DEF Init, Store!Init, Undisturbed
<1>2. TypeInv /\ IntegrityInv /\ DurableInv /\ [Next]_vars
        => [Store!Next]_<<asked, blob, acked, IF Undisturbed THEN "yes" ELSE "no">>
  BY StoreNext
<1> QED
  BY <1>1, <1>2, TypeInit, TypeNext, IntegrityInit, IntegrityNext, DurableInit, DurableNext, PTL
     DEF Spec, ImplementsPublishedBlob, Store!Spec

(* What a client of the storage service may rely on follows from the       *)
(* abstract specification alone, for whatever implements it: a blob that   *)
(* was reported is there, and is the one that was asked for.               *)
THEOREM PromiseHolds == Store!Spec => []Store!Promise
<1> DEFINE intact == IF Undisturbed THEN "yes" ELSE "no"
           PromiseInv == /\ blob \in asked \cup {NoFile} /\ acked \subseteq asked
                         /\ NoFile \notin asked
                         /\ acked # {} /\ intact = "yes" => blob # NoFile
           seenVars == <<asked, blob, acked, intact>>
<1>1. Store!Init => PromiseInv
  BY DEF Store!Init
<1>2. PromiseInv /\ [Store!Next]_seenVars => PromiseInv'
  <2> SUFFICES ASSUME PromiseInv, [Store!Next]_seenVars PROVE PromiseInv'
    OBVIOUS
  <2>1. ASSUME NEW x \in Askable, Store!Ask(x) PROVE PromiseInv'
    <3>1. x # NoFile
      BY ContentsType DEF Askable
    <3> QED
      BY <2>1, <3>1 DEF Store!Ask
  <2>2. ASSUME NEW x \in asked, Store!Publish(x) PROVE PromiseInv'
    <3>1. x # NoFile
      OBVIOUS
    <3> QED
      BY <2>2, <3>1 DEF Store!Publish
  <2>3. ASSUME NEW x \in asked, Store!Report(x) PROVE PromiseInv'
    BY <2>3 DEF Store!Report
  <2>4. CASE Store!Disturb \/ Store!Withdraw
    BY <2>4 DEF Store!Disturb, Store!Withdraw
  <2>5. CASE UNCHANGED seenVars
    BY <2>5
  <2> QED
    BY <2>1, <2>2, <2>3, <2>4, <2>5 DEF Store!Next
<1>3. PromiseInv => Store!Promise
  BY DEF Store!Promise
<1> QED
  BY <1>1, <1>2, <1>3, PTL DEF Store!Spec
=============================================================================
