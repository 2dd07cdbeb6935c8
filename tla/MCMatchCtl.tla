------------------------------ MODULE MCMatchCtl ------------------------------
(* TLC instances of MatchCtl: the configurations give every constant. *)
EXTENDS MatchCtl
===============================================================================
