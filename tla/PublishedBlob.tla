---------------------------- MODULE PublishedBlob ----------------------------
(***************************************************************************)
(* What the storage service promises about the blob of a multipart upload: *)
(* a reader finds nothing or a whole content that a Complete asked for, it *)
(* appears in one step, and once a Complete has been answered with success *)
(* it does not disappear unless somebody deletes it.                       *)
(***************************************************************************)
CONSTANTS Blob,     \* the contents that may be asked for
          Nothing   \* no blob

VARIABLES asked,  \* the contents that Completes asked for
          blob,   \* what a reader finds
          acked,  \* the contents that Completes reported
          intact  \* "no" once a deletion or a fault of the marker has begun

Init == asked = {} /\ blob = Nothing /\ acked = {} /\ intact = "yes"

Ask(x) ==
  /\ asked' = asked \cup {x}
  /\ UNCHANGED <<blob, acked, intact>>

Publish(x) ==
  /\ blob' = x
  /\ UNCHANGED <<asked, acked, intact>>

Report(x) ==
  /\ intact = "yes" => blob # Nothing
  /\ acked' = acked \cup {x}
  /\ UNCHANGED <<asked, blob, intact>>

Disturb ==
  /\ intact' = "no"
  /\ UNCHANGED <<asked, blob, acked>>

Withdraw ==
  /\ intact = "no"
  /\ blob' = Nothing
  /\ UNCHANGED <<asked, acked, intact>>

Next ==
  \/ \E x \in Blob : Ask(x)
  \/ \E x \in asked : Publish(x) \/ Report(x)
  \/ Disturb
  \/ Withdraw

Spec == Init /\ [][Next]_<<asked, blob, acked, intact>>

(* What a client may rely on: a reported content was asked for, and there  *)
(* is a blob as long as nobody interferes; it is the reported one when all *)
(* ask for the same.                                                       *)
Promise ==
  /\ blob # Nothing => blob \in asked
  /\ acked # {} /\ intact = "yes" =>
       /\ blob # Nothing
       /\ (\A x, y \in asked : x = y) => acked = {blob}
==============================================================================
