-------------------------- MODULE MCMemoryRuntime --------------------------
(***************************************************************************)
(* Instances of MemoryRuntime for TLC.                                     *)
(***************************************************************************)
EXTENDS MemoryRuntime, TLC

RuntimeSymmetry == Permutations(Artifact) \cup Permutations(Caller)
=============================================================================
