----------------------------- MODULE MCControlled -----------------------------
(***************************************************************************)
(* The controlled runtime on small instances, with the plans of            *)
(* SourceLayers and descriptors that are model values.                     *)
(***************************************************************************)
EXTENDS ControlledInvariants, SourceLayers

\* The runs' plans satisfy what ControlledProofs!StreamInvariant assumes of them.
ASSUME PlansAssumption == PlansEndLast

Symmetry == Permutations(Descriptors)
==============================================================================
