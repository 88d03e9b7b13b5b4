------------------------ MODULE MCStorageReservations ------------------------
(***************************************************************************)
(* A small instance of StorageReservations for TLC.                        *)
(***************************************************************************)
EXTENDS StorageReservations, TLC

\* Jobs differ in nothing but their name and what Init gives them.
Symmetry == Permutations(Jobs)
================================================================================
