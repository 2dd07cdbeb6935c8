------------------------------- MODULE MCRooms -------------------------------
(* TLC instances of Rooms.  Clients, codes and configs are model values and *)
(* nothing distinguishes them.                                              *)
EXTENDS Rooms, TLC

Symmetry == Permutations(Clients) \cup Permutations(Codes) \cup Permutations(Cfgs)
===============================================================================
