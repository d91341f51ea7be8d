--------------------------- MODULE MCOutboundQueues ---------------------------
(* Instances of OutboundQueues for TLC. *)
EXTENDS OutboundQueues, TLC

CONSTANT Wide  \* the channels with room for three messages; the others have room for one

\* The client of a wide channel enters under every id, any other only closes and subscribes.
IdsUsed == [c \in Conn |-> IF c \in Wide THEN Participant ELSE {}]

Capacities == [x \in Channel |-> IF x \in Wide THEN 3 ELSE 1]

\* System subscribers are interchangeable; sound for safety only.
Symmetry == Permutations(Subscriber)
===============================================================================
