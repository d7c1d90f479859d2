--------------------------- MODULE MCRouterWebhook ---------------------------
(***************************************************************************)
(* RouterWebhook for TLC: reviews and pods are interchangeable.            *)
(***************************************************************************)
EXTENDS RouterWebhook, TLC

Symmetry == Permutations(Creates) \union Permutations(Deletes) \union Permutations(Pods)
=============================================================================
