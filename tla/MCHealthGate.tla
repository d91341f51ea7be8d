------------------------------ MODULE MCHealthGate ------------------------------
(* Instances of HealthGate for TLC. *)
EXTENDS HealthGate
=================================================================================
