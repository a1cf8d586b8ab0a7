---------------------------- MODULE MCImportJobs ----------------------------
(* ImportJobs on a small instance for TLC. *)
EXTENDS ImportJobs, TLC

\* Identifiers, requests and containers are alike; for the safety runs only.
Symmetry == Permutations(Job) \cup Permutations(Handler) \cup Permutations(Worker)

=============================================================================
