----------------------------- MODULE MCReconciler -----------------------------
(***************************************************************************)
(* The reconciler over every desired list of bounded length.               *)
(***************************************************************************)
EXTENDS SubscriptionReconciler, TLC

\* Identities and descriptors are compared for equality only.
Symmetry == Permutations(Identities) \cup Permutations(Descriptors)
==============================================================================
