-------------------------- MODULE MCAdministration --------------------------
(* Small instance of Administration: two people and three models.            *)
EXTENDS Administration, TLC

CONSTANTS p1, p2, m1, m2, m3, w1, w2, l1

Body(enabled, audience, defaultFor) ==
    [enabled |-> enabled, audience |-> audience, defaultFor |-> defaultFor]

\* Make a model the default of users, of everybody; disable it;
\* expose it to users alone.
MCEdits == {Body({TRUE}, {}, {{"user"}}),
            Body({TRUE}, {ActorTypes}, {ActorTypes}),
            Body({FALSE}, {}, {}),
            Body({}, {{"user"}}, {})}

MCCatalogs == {{m1, m2, m3}, {m2, m3}}

Symmetric == Permutations({p1, p2}) \cup Permutations({m2, m3}) \cup Permutations({w1, w2})

=============================================================================
