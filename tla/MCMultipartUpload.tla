-------------------------- MODULE MCMultipartUpload --------------------------
(* Small instances of MultipartUpload for TLC. *)
EXTENDS MultipartUpload, TLC

CONSTANTS a, b

PartNums2 == {1, 2}

(* One well-formed list: every Complete is a repetition of the same one. *)
OneList == {<<[num |-> 1, sum |-> a], [num |-> 2, sum |-> a]>>}

(* The same, and a list validateCompletedParts refuses. *)
RetryLists == OneList \cup {<<[num |-> 2, sum |-> a], [num |-> 1, sum |-> a]>>}

Symmetry == Permutations(Request)
=============================================================================
