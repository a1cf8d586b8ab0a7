----------------------------- MODULE EvidenceLedger -----------------------------
(***************************************************************************)
(* What the evidence store promises of absence: a run reports the coverage *)
(* of its planes, and what was held is given up only by a run that covered *)
(* the plane of it completely.                                             *)
(***************************************************************************)
CONSTANTS
    Plane,     \* a coverage plane of one connector, connection and scope
    Item,      \* rows of evidence that are held or not
    planeOf(_) \* the plane a row belongs to

VARIABLES
    held,      \* rows that are neither withdrawn nor resolved as absent
    coverage   \* planes whose last report was complete

TypeOK == held \subseteq Item /\ coverage \subseteq Plane

Init == held = {} /\ coverage = {}

\* A run reports on the planes of `run'.
Observe(run) ==
    /\ coverage' \subseteq Plane /\ coverage' \ run = coverage \ run
    /\ held' \subseteq Item
    /\ \A i \in held' \ held : planeOf(i) \in run
    /\ \A i \in held \ held' : planeOf(i) \in run \cap coverage'

Next == \E run \in SUBSET Plane : Observe(run)

Spec == Init /\ [][Next]_<<held, coverage>>

=============================================================================
