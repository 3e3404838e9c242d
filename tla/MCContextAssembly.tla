------------------------- MODULE MCContextAssembly -------------------------
(***************************************************************************)
(* Instances of ContextAssembly for TLC.                                   *)
(***************************************************************************)
EXTENDS ContextAssembly, TLC

RecallSymmetry ==
  Permutations(Key) \cup Permutations(Config) \cup Permutations(Caller)
=============================================================================
