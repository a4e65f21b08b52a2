----------------------------- MODULE MCAssembly -----------------------------
(***************************************************************************)
(* Assembly on small instances: two Component types with one Message type, *)
(* a stream taken raw and framed, and standard input.  The scopes explore  *)
(* wiring of Ports, registration of bindings, and initial declarations.    *)
(***************************************************************************)
EXTENDS Assembly

SameMessage == [t \in ComponentTypes |-> "message"]
Lowered == [t \in SourceTypes |-> IF t = "framed" THEN "stream" ELSE t]

Calls(c, w, p, b, k, r) ==
  [components |-> c, work |-> w, ports |-> p, bindings |-> b, capabilities |-> k,
   registrations |-> r]

SmallScopes ==
  {Calls(2, 0, 2, 2, 0, 0), Calls(0, 0, 0, 0, 2, 3), Calls(1, 1, 1, 1, 1, 1),
   Calls(1, 2, 0, 0, 1, 1)}
==============================================================================
