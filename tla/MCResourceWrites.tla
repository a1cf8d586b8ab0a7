-------------------------- MODULE MCResourceWrites --------------------------
(* ResourceWrites on a small instance for TLC. *)
EXTENDS ResourceWrites, TLC

\* Requests, admins, handlers and containers are alike; for the safety runs only.
Symmetry == Permutations(Request) \cup Permutations(User)
                \cup Permutations(Handler) \cup Permutations(Worker)

=============================================================================
