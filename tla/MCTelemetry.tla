---------------------------- MODULE MCTelemetry ----------------------------
(* Telemetry for TLC: its journeys are finite. *)
EXTENDS Telemetry
=============================================================================
