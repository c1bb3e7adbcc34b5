----------------------------- MODULE MCBatchIssue -----------------------------
(* Instances of BatchIssue for TLC. *)
EXTENDS BatchIssue

CONSTANTS k1, k2, k3, b1, b2   \* model values
=============================================================================
