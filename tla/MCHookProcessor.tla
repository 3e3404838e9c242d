-------------------------- MODULE MCHookProcessor --------------------------
(***************************************************************************)
(* Instances of HookProcessor for TLC.                                     *)
(***************************************************************************)
EXTENDS HookProcessor
=============================================================================
