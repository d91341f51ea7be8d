--------------------------- MODULE MCSessionManager ---------------------------
(* Instances of SessionManager for TLC. *)
EXTENDS SessionManager, TLC

\* Ids and tasks of one kind are interchangeable; sound for safety only.
Symmetry == Permutations(Participant) \cup Permutations(Conn) \cup Permutations(Task)
             \cup Permutations(EventTask)
=============================================================================
