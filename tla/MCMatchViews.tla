----------------------------- MODULE MCMatchViews -----------------------------
(* MatchViews with two seats and one guard. *)
EXTENDS MatchViews

OneArmour == {<<"armour", 1>>}
===============================================================================
