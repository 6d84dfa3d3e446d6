----------------------------- MODULE MCAnswers -----------------------------
(* A small instance of Answers for TLC. *)
EXTENDS Answers
=============================================================================
