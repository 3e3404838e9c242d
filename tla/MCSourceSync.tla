---------------------------- MODULE MCSourceSync ----------------------------
(***************************************************************************)
(* Instances of SourceSync for TLC.                                        *)
(***************************************************************************)
EXTENDS SourceSync

\* Every file belongs to source 1.
OneSource == [f \in File |-> 1]

\* File 1 belongs to source 1, the others to source 2.
TwoSources == [f \in File |-> IF f = 1 THEN 1 ELSE 2]

\* One content for every file, and one file growing into the other.
Single == {{1}}
Growing == {{1}, {1, 2}}
=============================================================================
