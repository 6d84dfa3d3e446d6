--------------------------- MODULE MultipartUpload ---------------------------
(***************************************************************************)
(* One multipart upload of the storage service: the files that belong to   *)
(* its upload id, and the requests that work on them concurrently.         *)
(*                                                                         *)
(*   services/storage/internal/service/storage     validation, dispatch    *)
(*   services/storage/internal/repository/storage  the file operations     *)
(*                                                                         *)
(* The service holds no lock: every request is a goroutine, and the file   *)
(* system is the only shared state.  A step of the model is one file       *)
(* operation that another request can observe.  The blob id of an upload   *)
(* is its upload id (blobIDForUpload), and no two uploads share a path, so *)
(* one upload is modelled.                                                 *)
(*                                                                         *)
(* Content stands for bytes.  MD5 is taken to be injective: the checksum   *)
(* of a part is its content, and the checksum of a blob the sequence of    *)
(* the contents of its parts.                                              *)
(***************************************************************************)
EXTENDS Integers, Sequences

CONSTANTS Request,        \* the requests that may be in progress at a time
          PartNum,        \* part numbers the clients use
          Content,        \* contents a part may have
          PartLists,      \* the part lists clients send to CompleteMultipartUpload
          ExpectedParts,  \* expected_parts of the session; 0 means not given
          None            \* no part file, no checksum

PartInfo == [num : Int, sum : Content \cup {None}]

ASSUME PartNumAssumption == PartNum \subseteq Nat \ {0}
ASSUME PartListsAssumption == PartLists \subseteq Seq(PartInfo)
ASSUME ExpectedPartsAssumption == ExpectedParts \in Nat
ASSUME NoneAssumption == None \notin Content

VARIABLES
  phase,     \* "fresh", "creating" or "known": may a client name the upload id?
  dir,       \* the session directory uploads/<id>/: "none" or "ok"
  manifest,  \* its manifest.json: "none", "partial" or "ok"
  part,      \* its part files
  upTmp,     \* the requests whose temporary part file is in the directory
  junk,      \* temporary part files of crashed processes there: "none" or "ok"
  blob,      \* the final blob file
  marker,    \* the completion marker completed/<shard>/<id>.json
  pc,        \* where each request is
  list,      \* the part list of a Complete
  num, body, \* the part number and the content of an UploadPart
  acc,       \* temporary blob of a Complete, later the metadata it returns
  late,      \* history: the Completes that started after one had been answered
  acked,     \* history: contents that Complete reported as the blob's
  asked,     \* history: contents that well-formed part lists asked for
  replaced,  \* history: the parts a client replaced while a Complete rested on them
  events     \* history: which of Event have happened

session == <<dir, manifest, part, upTmp, junk>>
store   == <<blob, marker>>
local   == <<list, num, body, acc>>
history == <<late, acked, asked, replaced, events>>
vars    == <<phase, session, store, pc, local, history>>

(* DeleteObject started; AbortMultipartUpload started, or was answered     *)
(* with success; reading or writing the marker failed.                     *)
Event == {"delete", "abort", "aborted", "markerFault"}

Answer == {"Ok", "NotFound", "Failed"}

Label == {"idle", "i_mkdir", "i_create", "i_write", "u_check", "u_temp", "u_rename",
          "c_marker", "c_exists", "c_drop", "c_session", "c_copy", "c_rename", "c_mark",
          "a_rm", "a_rmdir", "c_rm", "c_rmdir", "d_blob", "d_marker"} \cup Answer

(* A blob is the sequence of the contents of its parts; it has one at      *)
(* least (ValidParts), so the empty sequence stands for the absent file.   *)
Blob == Seq(Content)
NoFile == <<>>
NoList == <<>>

Contents(l) == [i \in 1..Len(l) |-> l[i].sum]

(* service/storage/complete_multipart.go, validateCompletedParts *)
ValidParts(l) ==
  /\ Len(l) > 0
  /\ \A i \in 1..Len(l) :
       /\ l[i].num >= 1
       /\ l[i].sum # None
       /\ i > 1 => l[i].num > l[i - 1].num

(* What a handler finds on the disk. *)
MultipartSessionExists == dir = "ok"
NoCompletedMeta == marker = NoFile
BlobExists == blob # NoFile

(* A manifest that is written only in part is no JSON. *)
ReadMultipartSessionMeta == IF manifest = "partial" THEN "corrupt" ELSE manifest

Goto(r, label) == pc' = [pc EXCEPT ![r] = label]

(* Answer a request that has nothing left to do on disk. *)
Respond(r, answer) == Goto(r, answer) /\ UNCHANGED <<phase, store, history>>

Init ==
  /\ phase = "fresh"
  /\ dir = "none"
  /\ manifest = "none"
  /\ part = [n \in PartNum |-> None]
  /\ upTmp = {}
  /\ junk = "none"
  /\ blob = NoFile
  /\ marker = NoFile
  /\ pc = [r \in Request |-> "idle"]
  /\ list = [r \in Request |-> NoList]
  /\ num = [r \in Request |-> 0]
  /\ body = [r \in Request |-> None]
  /\ acc = [r \in Request |-> NoFile]
  /\ late = {}
  /\ acked = {}
  /\ asked = {}
  /\ replaced = {}
  /\ events = {}

-----------------------------------------------------------------------------
(* InitiateMultipartUpload.  Until it is answered nobody knows the id.  An *)
(* attempt that fails leaves its directory behind under an id no client    *)
(* ever learns; the model goes on with the fresh id of the next attempt.   *)

InitiateStart(r) ==
  /\ phase = "fresh" /\ pc[r] = "idle"
  /\ phase' = "creating"
  /\ Goto(r, "i_mkdir")
  /\ UNCHANGED <<session, store, local, history>>

InitiateMkdir(r) ==
  /\ pc[r] = "i_mkdir"
  /\ dir' = "ok"
  /\ Goto(r, "i_create")
  /\ UNCHANGED <<phase, manifest, part, upTmp, junk, store, local, history>>

(* os.WriteFile creates the manifest, then fills it. *)
InitiateCreate(r) ==
  /\ pc[r] = "i_create"
  /\ manifest' = "partial"
  /\ Goto(r, "i_write")
  /\ UNCHANGED <<phase, dir, part, upTmp, junk, store, local, history>>

InitiateWrite(r) ==
  /\ pc[r] = "i_write"
  /\ manifest' = "ok"
  /\ phase' = "known"
  /\ Goto(r, "Ok")
  /\ UNCHANGED <<dir, part, upTmp, junk, store, local, history>>

ForgetSession ==
  /\ phase' = "fresh"
  /\ dir' = "none"
  /\ manifest' = "none"
  /\ UNCHANGED <<part, upTmp, junk>>

InitiateFail(r) ==
  /\ pc[r] \in {"i_mkdir", "i_create", "i_write"}
  /\ ForgetSession
  /\ Goto(r, "Failed")
  /\ UNCHANGED <<store, local, history>>

-----------------------------------------------------------------------------
(* UploadPart.  createAtomicTempFile calls MkdirAll, so it brings back a   *)
(* directory that was removed after the check.                             *)

UploadStart(r) ==
  /\ phase = "known" /\ pc[r] = "idle"
  /\ \E n \in PartNum : num' = [num EXCEPT ![r] = n]
  /\ \E c \in Content : body' = [body EXCEPT ![r] = c]
  /\ Goto(r, "u_check")
  /\ UNCHANGED <<phase, session, store, list, acc, history>>

UploadCheck(r) ==
  /\ pc[r] = "u_check"
  /\ Goto(r, IF MultipartSessionExists THEN "u_temp" ELSE "NotFound")
  /\ UNCHANGED <<phase, session, store, local, history>>

UploadTemp(r) ==
  /\ pc[r] = "u_temp"
  /\ dir' = "ok"
  /\ upTmp' = upTmp \cup {r}
  /\ Goto(r, "u_rename")
  /\ UNCHANGED <<phase, manifest, part, junk, store, local, history>>

(* Until there is a marker, a published blob, or one that a Complete       *)
(* assembles, rests on the parts it was copied from.                       *)
InUse == /\ marker = NoFile /\ events \cap {"delete", "abort", "markerFault"} = {}
         /\ blob # NoFile \/ \E q \in Request : pc[q] \in {"c_copy", "c_rename", "c_mark"}

Listable == {p \in PartNum \X Content :
               \E l \in PartLists : \E i \in 1..Len(l) : p = <<l[i].num, l[i].sum>>}

Overwritten(r) == {<<num[r], part[num[r]]>>} \cap (Listable \ {<<num[r], body[r]>>})

(* The rename fails when the temporary file has been unlinked meanwhile.   *)
(* A part that is there is replaced, whatever it is needed for.            *)
UploadRename(r) ==
  /\ pc[r] = "u_rename"
  /\ IF r \in upTmp
       THEN /\ part' = [part EXCEPT ![num[r]] = body[r]]
            /\ replaced' = IF InUse THEN replaced \cup Overwritten(r) ELSE replaced
            /\ Goto(r, "Ok")
       ELSE /\ Goto(r, "Failed")
            /\ UNCHANGED <<part, replaced>>
  /\ upTmp' = upTmp \ {r}
  /\ UNCHANGED <<phase, dir, manifest, junk, store, local, late, acked, asked, events>>

UploadFail(r) ==
  /\ pc[r] \in {"u_check", "u_temp", "u_rename"}
  /\ upTmp' = upTmp \ {r}
  /\ Goto(r, "Failed")
  /\ UNCHANGED <<phase, dir, manifest, part, junk, store, local, history>>

-----------------------------------------------------------------------------
(* CompleteMultipartUpload *)

CompleteStart(r) ==
  /\ phase = "known" /\ pc[r] = "idle"
  /\ \E l \in PartLists :
       \/ /\ ValidParts(l)
          /\ list' = [list EXCEPT ![r] = l]
          /\ asked' = asked \cup {Contents(l)}
          /\ late' = IF acked # {} THEN late \cup {r} ELSE late
          /\ Goto(r, "c_marker")
       \/ /\ ~ValidParts(l)
          /\ Goto(r, "Failed")
          /\ UNCHANGED <<list, asked, late>>
  /\ UNCHANGED <<phase, session, store, num, body, acc, acked, replaced, events>>

(* Mutant of CompleteReadMarker: the session is read whatever the marker says. *)
CompleteReadMarkerIgnored(r) ==
  /\ pc[r] = "c_marker"
  /\ Goto(r, "c_session")
  /\ UNCHANGED <<phase, session, store, local, history>>

CompleteReadMarker(r) ==
  /\ pc[r] = "c_marker"
  /\ IF NoCompletedMeta
       THEN Goto(r, "c_session") /\ UNCHANGED acc
       ELSE Goto(r, "c_exists") /\ acc' = [acc EXCEPT ![r] = marker]
  /\ UNCHANGED <<phase, session, store, list, num, body, history>>

(* A marker that cannot be read is taken for a corrupted one. *)
CompleteMarkerUnreadable(r) ==
  /\ pc[r] = "c_marker" /\ marker # NoFile
  /\ events' = events \cup {"markerFault"}
  /\ Goto(r, "c_drop")
  /\ UNCHANGED <<phase, session, store, local, late, acked, asked, replaced>>

CompleteBlobExists(r) ==
  /\ pc[r] = "c_exists"
  /\ IF BlobExists
       THEN /\ acked' = acked \cup {acc[r]}
            /\ Goto(r, "Ok")
       ELSE Goto(r, "c_drop") /\ UNCHANGED acked
  /\ UNCHANGED <<phase, session, store, local, late, asked, replaced, events>>

(* A failure to remove the stale marker is only logged. *)
CompleteDropMarker(r) ==
  /\ pc[r] = "c_drop"
  /\ marker' \in {NoFile, marker}
  /\ acc' = [acc EXCEPT ![r] = NoFile]
  /\ Goto(r, "c_session")
  /\ UNCHANGED <<phase, session, blob, list, num, body, history>>

CompleteReadSession(r) ==
  /\ pc[r] = "c_session"
  /\ Goto(r, IF ReadMultipartSessionMeta = "none" THEN "NotFound"
             ELSE IF ReadMultipartSessionMeta = "ok" /\ ExpectedParts \in {0, Len(list[r])}
                    THEN "c_copy" ELSE "Failed")
  /\ UNCHANGED <<phase, session, store, local, history>>

(* Mutant of CompleteCopyPart: no checksum comparison. *)
CompleteCopyPartUnverified(r) ==
  LET i == Len(acc[r]) + 1
      l == list[r]
      content == IF l[i].num \in PartNum THEN part[l[i].num] ELSE None
  IN /\ pc[r] = "c_copy" /\ i <= Len(l)
     /\ IF content # None
          THEN /\ acc' = [acc EXCEPT ![r] = Append(@, content)]
               /\ Goto(r, IF i = Len(l) THEN "c_rename" ELSE "c_copy")
          ELSE Goto(r, "NotFound") /\ UNCHANGED acc
     /\ UNCHANGED <<phase, session, store, list, num, body, history>>

(* Mutant of CompleteCopyPart: the blob is assembled at its final path. *)
CompleteCopyPartInPlace(r) ==
  LET i == Len(acc[r]) + 1
      l == list[r]
      content == IF l[i].num \in PartNum THEN part[l[i].num] ELSE None
  IN /\ pc[r] = "c_copy" /\ i <= Len(l)
     /\ IF content = l[i].sum
          THEN /\ acc' = [acc EXCEPT ![r] = Append(@, l[i].sum)]
               /\ blob' = Append(acc[r], l[i].sum)
               /\ Goto(r, IF i = Len(l) THEN "c_rename" ELSE "c_copy")
          ELSE /\ Goto(r, IF content = None THEN "NotFound" ELSE "Failed")
               /\ UNCHANGED <<acc, blob>>
     /\ UNCHANGED <<phase, session, marker, list, num, body, history>>

(* Copy the next part into the temporary blob, comparing its checksum. *)
CompleteCopyPart(r) ==
  LET i == Len(acc[r]) + 1
      l == list[r]
      content == IF l[i].num \in PartNum THEN part[l[i].num] ELSE None
  IN /\ pc[r] = "c_copy" /\ i <= Len(l)
     /\ IF content = l[i].sum
          THEN /\ acc' = [acc EXCEPT ![r] = Append(@, l[i].sum)]
               /\ Goto(r, IF i = Len(l) THEN "c_rename" ELSE "c_copy")
          ELSE /\ Goto(r, IF content = None THEN "NotFound" ELSE "Failed")
               /\ UNCHANGED acc
     /\ UNCHANGED <<phase, session, store, list, num, body, history>>

(* Cancelled context, unreadable manifest, full disk, failed stat, sync,   *)
(* close or rename: the temporary blob is removed and nothing else has     *)
(* changed.                                                                *)
CompleteFail(r) ==
  /\ pc[r] \in {"c_marker", "c_exists", "c_session", "c_copy", "c_rename"}
  /\ Respond(r, "Failed")
  /\ UNCHANGED <<session, local>>

(* Mutant of CompleteRename: the marker is left out. *)
CompleteRenameUnmarked(r) ==
  /\ pc[r] = "c_rename"
  /\ blob' = acc[r]
  /\ Goto(r, "c_rm")
  /\ UNCHANGED <<phase, session, marker, local, history>>

CompleteRename(r) ==
  /\ pc[r] = "c_rename"
  /\ blob' = acc[r]
  /\ Goto(r, "c_mark")
  /\ UNCHANGED <<phase, session, marker, local, history>>

CompleteMark(r) ==
  /\ pc[r] = "c_mark"
  /\ marker' = acc[r]
  /\ replaced' = {}
  /\ Goto(r, "c_rm")
  /\ UNCHANGED <<phase, session, blob, local, late, acked, asked, events>>

(* The marker could not be written: the blob is deleted again. *)
CompleteMarkFail(r) ==
  /\ pc[r] = "c_mark"
  /\ events' = events \cup {"markerFault"}
  /\ Goto(r, "d_blob")
  /\ UNCHANGED <<phase, session, store, local, late, acked, asked, replaced>>

-----------------------------------------------------------------------------
(* os.RemoveAll of the session directory, the body of AbortMultipartUpload *)
(* and the best-effort cleanup at the end of Complete.  Entries go one by  *)
(* one, in the order the directory lists them; the directory itself goes   *)
(* last, and stays when an entry has appeared meanwhile.                   *)

AbortStart(r) ==
  /\ phase = "known" /\ pc[r] = "idle"
  /\ events' = events \cup {"abort"}
  /\ Goto(r, "a_rm")
  /\ UNCHANGED <<phase, session, store, local, late, acked, asked, replaced>>

DirEmpty == /\ manifest = "none" /\ upTmp = {} /\ junk = "none"
            /\ \A n \in PartNum : part[n] = None

(* Mutant of RemoveEntry: cleanup starts before the marker is written. *)
RemoveEntryEarly(r) ==
  /\ pc[r] \in {"a_rm", "c_rm", "c_mark"}
  /\ manifest # "none" /\ manifest' = "none"
  /\ UNCHANGED <<phase, dir, part, upTmp, junk, store, pc, local, history>>

RemoveEntry(r) ==
  /\ pc[r] \in {"a_rm", "c_rm"}
  /\ \/ /\ manifest # "none" /\ manifest' = "none"
        /\ UNCHANGED <<part, upTmp, junk>>
     \/ \E n \in PartNum :
          /\ part[n] # None /\ part' = [part EXCEPT ![n] = None]
          /\ UNCHANGED <<manifest, upTmp, junk>>
     \/ \E q \in upTmp :
          /\ upTmp' = upTmp \ {q}
          /\ UNCHANGED <<manifest, part, junk>>
     \/ /\ junk # "none" /\ junk' = "none"
        /\ UNCHANGED <<manifest, part, upTmp>>
  /\ UNCHANGED <<phase, dir, store, pc, local, history>>

RemoveListed(r) ==
  /\ pc[r] \in {"a_rm", "c_rm"} /\ DirEmpty
  /\ Goto(r, IF pc[r] = "a_rm" THEN "a_rmdir" ELSE "c_rmdir")
  /\ UNCHANGED <<phase, session, store, local, history>>

(* Complete reports success whatever became of its cleanup. *)
RemoveDir(r) ==
  /\ pc[r] \in {"a_rmdir", "c_rmdir"}
  /\ dir' = IF DirEmpty THEN "none" ELSE dir
  /\ IF pc[r] = "c_rmdir"
       THEN /\ acked' = acked \cup {acc[r]}
            /\ Goto(r, "Ok")
            /\ UNCHANGED events
       ELSE /\ events' = IF DirEmpty THEN events \cup {"aborted"} ELSE events
            /\ Goto(r, IF DirEmpty THEN "Ok" ELSE "Failed")
            /\ UNCHANGED acked
  /\ UNCHANGED <<phase, manifest, part, upTmp, junk, store, local,
                 late, asked, replaced>>

RemoveFail(r) ==
  /\ pc[r] \in {"a_rm", "c_rm"}
  /\ IF pc[r] = "c_rm"
       THEN acked' = acked \cup {acc[r]} /\ Goto(r, "Ok")
       ELSE Goto(r, "Failed") /\ UNCHANGED acked
  /\ UNCHANGED <<phase, session, store, local, late, asked, replaced, events>>

-----------------------------------------------------------------------------
(* DeleteObject, and DeleteBlob on behalf of a failed Complete.  A client  *)
(* has the blob id from the answer to a Complete.                          *)

DeleteStart(r) ==
  /\ acked # {} /\ pc[r] = "idle"
  /\ events' = events \cup {"delete"}
  /\ Goto(r, "d_blob")
  /\ UNCHANGED <<phase, session, store, local, late, acked, asked, replaced>>

DeleteBlobFile(r) ==
  /\ pc[r] = "d_blob"
  /\ blob' = NoFile
  /\ Goto(r, "d_marker")
  /\ UNCHANGED <<phase, session, marker, local, history>>

(* For a failed Complete (it has a part list) the answer is an error. *)
DeleteMarker(r) ==
  /\ pc[r] = "d_marker"
  /\ marker' = NoFile
  /\ Goto(r, IF list[r] = NoList THEN "Ok" ELSE "Failed")
  /\ UNCHANGED <<phase, session, blob, local, history>>

DeleteFail(r) ==
  /\ pc[r] \in {"d_blob", "d_marker"}
  /\ Respond(r, "Failed")
  /\ UNCHANGED <<session, local>>

-----------------------------------------------------------------------------
(* The answer leaves the server; the request is over. *)
Finish(r) ==
  /\ pc[r] \in Answer
  /\ Goto(r, "idle")
  /\ list' = [list EXCEPT ![r] = NoList]
  /\ num' = [num EXCEPT ![r] = 0]
  /\ body' = [body EXCEPT ![r] = None]
  /\ acc' = [acc EXCEPT ![r] = NoFile]
  /\ late' = late \ {r}
  /\ UNCHANGED <<phase, session, store, acked, asked, replaced, events>>

(* The server process dies: every request is lost, what is on disk stays. *)
Crash ==
  /\ \E r \in Request : pc[r] # "idle"
  /\ pc' = [r \in Request |-> "idle"]
  /\ list' = [r \in Request |-> NoList]
  /\ num' = [r \in Request |-> 0]
  /\ body' = [r \in Request |-> None]
  /\ acc' = [r \in Request |-> NoFile]
  /\ late' = {}
  /\ IF phase = "creating"
       THEN ForgetSession
       ELSE /\ junk' = IF upTmp # {} THEN "ok" ELSE junk
            /\ upTmp' = {}
            /\ UNCHANGED <<phase, dir, manifest, part>>
  /\ UNCHANGED <<store, acked, asked, replaced, events>>

Initiate(r) == \/ InitiateStart(r) \/ InitiateMkdir(r) \/ InitiateCreate(r)
               \/ InitiateWrite(r) \/ InitiateFail(r)

Upload(r) == \/ UploadStart(r) \/ UploadCheck(r) \/ UploadTemp(r)
             \/ UploadRename(r) \/ UploadFail(r)

Complete(r) ==
  \/ CompleteStart(r) \/ CompleteReadMarker(r) \/ CompleteMarkerUnreadable(r)
  \/ CompleteBlobExists(r) \/ CompleteDropMarker(r) \/ CompleteReadSession(r)
  \/ CompleteCopyPart(r) \/ CompleteFail(r) \/ CompleteRename(r)
  \/ CompleteMark(r) \/ CompleteMarkFail(r)

Remove(r) == \/ AbortStart(r) \/ RemoveEntry(r) \/ RemoveListed(r)
             \/ RemoveDir(r) \/ RemoveFail(r)

Delete(r) == \/ DeleteStart(r) \/ DeleteBlobFile(r) \/ DeleteMarker(r)
             \/ DeleteFail(r)

Next ==
  \/ \E r \in Request :
       Initiate(r) \/ Upload(r) \/ Complete(r) \/ Remove(r) \/ Delete(r) \/ Finish(r)
  \/ Crash

Spec == Init /\ [][Next]_vars

-----------------------------------------------------------------------------
(* Every variable has its type. *)
TypeOK ==
  /\ phase \in {"fresh", "creating", "known"}
  /\ dir \in {"none", "ok"}
  /\ manifest \in {"none", "partial", "ok"}
  /\ part \in [PartNum -> Content \cup {None}]
  /\ upTmp \subseteq Request
  /\ junk \in {"none", "ok"}
  /\ blob \in Blob
  /\ marker \in Blob
  /\ pc \in [Request -> Label]
  /\ list \in [Request -> PartLists \cup {NoList}]
  /\ num \in [Request -> PartNum \cup {0}]
  /\ body \in [Request -> Content \cup {None}]
  /\ acc \in [Request -> Blob]
  /\ late \subseteq Request
  /\ acked \subseteq Blob
  /\ asked \subseteq Blob
  /\ replaced \subseteq PartNum \X Content
  /\ events \subseteq Event

(* No torn blob: whatever parts are replaced, removed or half-written      *)
(* while they are being copied, the blob, the marker and every reported    *)
(* result are exactly the contents that some Complete listed.              *)
AssemblyIntegrity ==
  /\ blob # NoFile => blob \in asked
  /\ marker # NoFile => marker \in asked
  /\ acked \subseteq asked

(* Nobody has begun to delete the object, and the marker could be read and *)
(* written whenever a Complete tried.                                      *)
Undisturbed == events \cap {"delete", "markerFault"} = {}

(* A Complete that was answered with success stays true: until the object  *)
(* is deleted, blob and marker are on disk through crashes, failed         *)
(* cleanups, aborts, re-uploaded parts and repeated Completes; and they    *)
(* are what was reported as long as all Completes ask for the same         *)
(* content.                                                                *)
AckedSurvives ==
  acked # {} /\ Undisturbed =>
    /\ blob # NoFile
    /\ marker # NoFile
    /\ (\A x, y \in asked : x = y) => acked = {blob} /\ marker = blob

(* "Completion marker хранит terminal result для retry": a Complete that   *)
(* starts after an earlier one was answered is served from the marker, if  *)
(* it does not fail, and never reads the session nor touches the blob.     *)
LateRetryServed ==
  Undisturbed => \A r \in late : pc[r] \in {"c_marker", "c_exists", "Ok", "Failed"}

(* The parts the session holds with their contents, and what they suffice  *)
(* for: a well-formed list of such parts asks for it, the number of parts  *)
(* the session expects is met and every checksum fits.                     *)
Held == {p \in PartNum \X Content : part[p[1]] = p[2]}

Rebuildable(content, held) ==
  \E l \in PartLists :
    /\ ValidParts(l) /\ Contents(l) = content
    /\ ExpectedParts \in {0, Len(l)}
    /\ \A i \in 1..Len(l) : <<l[i].num, l[i].sum>> \in held

(* The order rename, marker, cleanup: at every point where the server can  *)
(* die, a published blob has its marker, or a repeated Complete can build  *)
(* it again from the session.  One thing stands in the way, and nothing    *)
(* the server does itself: an UploadPart that put another content in the   *)
(* place of a part after it was copied.  Then the repeated Complete fails  *)
(* with ErrChecksumMismatch (multipart.go:175), although the blob is       *)
(* published, until a client uploads the part again.                       *)
PublishedIsRecoverable ==
  blob # NoFile /\ Undisturbed /\ "abort" \notin events =>
    \/ marker # NoFile
    \/ /\ manifest = "ok"
       /\ Rebuildable(blob, Held \cup replaced)

-----------------------------------------------------------------------------
(* The blob file is what a reader finds. *)
Askable == {Contents(l) : l \in {m \in PartLists : ValidParts(m)}}

Store == INSTANCE PublishedBlob WITH Blob <- Askable, Nothing <- NoFile,
                                     intact <- IF Undisturbed THEN "yes" ELSE "no"

(* Seen by a reader the upload happens in one step, the rename: sessions,  *)
(* part files, temporary blobs, markers, cleanups, failures and crashes    *)
(* are invisible, nothing torn can be read, and the blob goes only after   *)
(* a deletion or a fault of the marker has begun.                          *)
ImplementsPublishedBlob == Store!Spec
=============================================================================
