-------------------------------- MODULE MCLive --------------------------------
(***************************************************************************)
(* The live runtime on small instances.  Source descriptors are model      *)
(* values compared for equality only, so runs without liveness may permute *)
(* them.                                                                   *)
(***************************************************************************)
EXTENDS LiveInvariants, SourceLayers

\* A decoder that gives nothing before the end, something then, and may fail before.
Collecting ==
  [terminal \in BOOLEAN |->
    {output \in Framed[terminal] : terminal <=> (FALSE \in Range(output))}]

\* The runs' plans satisfy what LivePromises!StreamInvariant assumes of them.
ASSUME PlansAssumption == PlansEndLast

Symmetry == Permutations(Descriptors)
==============================================================================
