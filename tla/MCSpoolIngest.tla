--------------------------- MODULE MCSpoolIngest ---------------------------
(***************************************************************************)
(* SpoolIngest for TLC: the daemons are interchangeable.                   *)
(***************************************************************************)
EXTENDS SpoolIngest, TLC

DaemonSymmetry == Permutations(Daemon)
=============================================================================
