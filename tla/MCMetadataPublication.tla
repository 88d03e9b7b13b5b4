------------------------- MODULE MCMetadataPublication -------------------------
(***************************************************************************)
(* A small instance of MetadataPublication for TLC.                        *)
(***************************************************************************)
EXTENDS MetadataPublication, TLC

\* Files differ in nothing but their name, bodies neither.
Symmetry == Permutations(Artifacts) \cup Permutations(Bodies)
================================================================================
