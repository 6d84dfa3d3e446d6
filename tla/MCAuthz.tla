------------------------------- MODULE MCAuthz -------------------------------
(* A small instance of Authz for TLC. *)
EXTENDS Authz

CONSTANTS u, g, h, o

(* A user in a group in a group that is granted a level on the object; the *)
(* user has an old VIEWER edge.                                            *)
Tuples == {<<u, "MEMBER_OF", g>>, <<g, "MEMBER_OF", h>>, <<h, "HAS_PERMISSION", o>>}
Queries == {<<u, "write", o>>}
OldEdges == {<<u, "VIEWER", o>>}
=============================================================================
