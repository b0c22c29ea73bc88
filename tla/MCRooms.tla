------------------------------ MODULE MCRooms ------------------------------
(* A small instance of Rooms: three client ids on three sockets and two    *)
(* rooms, so that a third client overflows a room of two.                  *)
EXTENDS Rooms, TLC

CONSTANTS c1, c2, c3, s1, s2, s3

\* s1 and s2 can both be sessions of c1; s3 is a device that joins under two
\* client ids.
MCUses == [s \in Sids |-> IF s = s3 THEN {c2, c3} ELSE {c1}]

RoomSymmetry == Permutations(Rooms) \cup Permutations({s1, s2}) \cup Permutations({c2, c3})
=============================================================================
