------------------------- MODULE MCDownloadReplacements -------------------------
(***************************************************************************)
(* Small instances of DownloadReplacements for TLC.                        *)
(***************************************************************************)
EXTENDS DownloadReplacements, TLC

\* Request threads differ in nothing but their name.
Symmetry == Permutations(Handlers)
================================================================================
