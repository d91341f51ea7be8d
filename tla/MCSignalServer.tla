---------------------------- MODULE MCSignalServer ----------------------------
(* Instances of SignalServer for TLC. *)
EXTENDS SignalServer, TLC

\* Connections, participants and event tasks are interchangeable; sound for safety only.
Symmetry == Permutations(Conn) \cup Permutations(Participant) \cup Permutations(EventTask)
=============================================================================
