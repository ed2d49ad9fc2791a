-------------------------- MODULE MCControlSession --------------------------
(***************************************************************************)
(* ControlSession with the values of its constants for model checking.     *)
(***************************************************************************)
EXTENDS ControlSession

=============================================================================
