----------------------------- MODULE MCOnboarding -----------------------------
(* Onboarding for TLC: requests, places and accounts are interchangeable. *)
EXTENDS Onboarding, TLC

MCProviders == Native \cup Shared \cup {PlatformSetup}

Symmetry == Permutations(Requests) \cup Permutations(Places) \cup Permutations(Accounts)

=============================================================================
