------------------------------ MODULE MCRooms ------------------------------
(* Model-checking instances of Rooms. *)
EXTENDS Rooms, TLC

\* Sockets, ids and rooms are interchangeable.
Symmetry == Permutations(Conns) \cup Permutations(Ids) \cup Permutations(RoomKeys)
=============================================================================
