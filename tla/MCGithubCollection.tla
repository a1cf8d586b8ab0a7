------------------------- MODULE MCGithubCollection -------------------------
(* GithubCollection on a small instance for TLC. *)
EXTENDS GithubCollection, TLC

\* Containers are alike; sound for the safety run only.
Symmetry == Permutations(Worker)

=============================================================================
