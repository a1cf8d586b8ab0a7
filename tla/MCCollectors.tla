----------------------------- MODULE MCCollectors -----------------------------
(* Collectors for TLC: of the things one plan treats alike, one is followed. *)
EXTENDS Collectors

Alike(c, t, u) ==
    /\ HasOnePlane[c][t] = HasOnePlane[c][u]
    /\ \A i \in DOMAIN ReadsOf[c] : PlanesOfThing[c][i][t] = PlanesOfThing[c][i][u]

MCFollowed ==
    UNION {{<<c, CHOOSE u \in ThingsOf[c] : Alike(c, t, u)>> : t \in ThingsOf[c]}
             : c \in Connectors}

\* A context identity is recorded in a plane that the reads naming it do not govern; what an
\* Azure Repos blob over the limit holds is missing from every batch of its repository, and
\* only the source batch is partial.
MCExcused ==
    {<<"entra_inventory", "context identity">>}
        \cup {<<"azure_repos", t>> : t \in ThingsOf["azure_repos"]}

=============================================================================
