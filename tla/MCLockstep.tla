------------------------------ MODULE MCLockstep ------------------------------
(* Small instances of Lockstep for TLC. *)
EXTENDS Lockstep
===============================================================================
