---------------------------- MODULE MCRuntimeTask ----------------------------
(***************************************************************************)
(* The host's RuntimeTask on small instances, with Requests under way.     *)
(***************************************************************************)
EXTENDS RuntimeTask, SourceLayers
==============================================================================
