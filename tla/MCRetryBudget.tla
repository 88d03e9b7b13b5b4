----------------------------- MODULE MCRetryBudget -----------------------------
(***************************************************************************)
(* A small instance of RetryBudget for TLC.                                *)
(***************************************************************************)
EXTENDS RetryBudget
================================================================================
