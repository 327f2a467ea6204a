-------------------------- MODULE MCAdministration --------------------------
\* Instance of Administration for TLC: trees of up to three units (a root with
\* two children, a root with one child) and three permission keys of the catalogue.
EXTENDS Administration, TLC

CONSTANTS u1, u2, u3

MCTrees == { u1 :> NoUnit @@ u2 :> u1 @@ u3 :> u1,
             u1 :> NoUnit @@ u2 :> u1 }

MCCatalogue == { <<"maintenance", "view">>, <<"maintenance", "update">>,
                 <<"workflow", "definition", "view">> }

=============================================================================
