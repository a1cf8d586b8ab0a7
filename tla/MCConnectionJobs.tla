-------------------------- MODULE MCConnectionJobs --------------------------
(* ConnectionJobs on a small instance for TLC. *)
EXTENDS ConnectionJobs, TLC

\* Sound for the safety run only: identifiers, handlers and containers are alike.
Symmetry ==
    Permutations(ValidationJob) \cup Permutations(CollectionJob)
        \cup Permutations(Api) \cup Permutations(Worker)

=============================================================================
