------------------------------ MODULE MCMatchSim ------------------------------
(* MatchSim with two seats, one guard and small limits. *)
EXTENDS MatchSim

OneArmour == {<<"armour", 1>>}
===============================================================================
