------------------------------- MODULE MCScope -------------------------------
(* A root scope, a scope forked from it, and a second root scope that extend *)
(* puts under the first one while finalizers are registered and scopes close. *)
EXTENDS Scope, TLC

CONSTANTS root1, fork1, root2, f1, f2

ForksOf == {<<root1, fork1>>}
ExtendsOf == {<<root1, root2>>}
HomesOf == f1 :> {root1} @@ f2 :> {root1, fork1, root2}
==============================================================================
