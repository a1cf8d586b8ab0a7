--------------------------- MODULE MCIssueEvidence ---------------------------
(* IssueEvidence on a small instance for TLC: one workload, one role and one *)
(* file already give every order of the batches of the two collections.      *)
EXTENDS IssueEvidence

=============================================================================
