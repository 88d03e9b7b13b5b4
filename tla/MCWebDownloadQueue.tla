--------------------------- MODULE MCWebDownloadQueue ---------------------------
(***************************************************************************)
(* Small instances of WebDownloadQueue for TLC.                            *)
(***************************************************************************)
EXTENDS WebDownloadQueue, TLC

Symmetry == Permutations(Jobs)
================================================================================
