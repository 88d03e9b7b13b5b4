-------------------------- MODULE MCArchivePublication --------------------------
(***************************************************************************)
(* Small instances of ArchivePublication for TLC.                          *)
(***************************************************************************)
EXTENDS ArchivePublication

CONSTANTS j1, j2

\* Original is between the two jobs in quality.
Heights == [k \in {j1, j2, Original} |-> IF k = j1 THEN 1 ELSE IF k = j2 THEN 3 ELSE 2]
================================================================================
