------------------------------ MODULE MCDrivers ------------------------------
(***************************************************************************)
(* The first-party Source Drivers on small instances: standard input with  *)
(* every way to cut and spell a short input, and with competing            *)
(* realizations of one and of two runtimes; then the other bindings.       *)
(***************************************************************************)
EXTENDS SourceDrivers

Bounds(binding, runtimes, realizations, size, bytes, fails) ==
  [binding |-> binding, runtimes |-> runtimes, realizations |-> realizations,
   input |-> size, bytes |-> bytes, fails |-> fails]

Small ==
  {Bounds("stdin", 1, 1, 3, Byte, FALSE),
   Bounds("stdin", 1, 1, 2, {"lead", "lf"}, TRUE),
   Bounds("stdin", 1, 2, 1, {"lf"}, FALSE),
   Bounds("stdin", 2, 2, 0, {"lf"}, FALSE),
   Bounds("mpsc", 1, 2, 2, {"lf"}, FALSE),
   Bounds("tcp", 1, 1, 2, {"lf"}, TRUE)}
==============================================================================
