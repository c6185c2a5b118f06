------------------------------- MODULE MCCache -------------------------------
(* Four calls for one key, or three and one for another: enough for three    *)
(* loads of a key and an invalidation between them, and for stores that      *)
(* compete for one place.                                                    *)
EXTENDS Cache, TLC

CONSTANTS g1, g2, g3, g4, k1, k2

MCFibers == {g1, g2, g3, g4}
MCRequests == {(g4 :> k) @@ [f \in MCFibers |-> k1] : k \in {k1, k2}}
==============================================================================
