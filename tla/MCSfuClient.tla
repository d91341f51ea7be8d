------------------------------ MODULE MCSfuClient ------------------------------
(* Instances of SfuClient for TLC. *)
EXTENDS SfuClient
===============================================================================
