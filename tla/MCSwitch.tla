------------------------------ MODULE MCSwitch ------------------------------
(* Instances of Switch for TLC. *)
EXTENDS Switch
=============================================================================
