------------------------------ MODULE MCGateway ------------------------------
(* A small instance of Gateway for TLC. *)
EXTENDS Gateway

CONSTANTS x, y

(* The empty object and one of two pieces. *)
Bodies == {<<>>, <<x, y>>}
=============================================================================
