----------------------------- MODULE SourceLayers -----------------------------
(***************************************************************************)
(* What the Layers of a SourcePlan may make of one event (src/src/lib.rs,  *)
(* SourcePlan::map_event and FramedLayer::map_event).  Events are told     *)
(* apart by their kind; a decoder is application code and may return any   *)
(* number of frames up to MaxBurst, or an error, for any chunk.            *)
(***************************************************************************)
EXTENDS Naturals, SequencesExt

CONSTANT MaxBurst \* bound: frames a decoder returns at once

SourceEventKind == {"Item", "Failed", "Ended"}

Ends(kind) == kind # "Item"

Frames == UNION {[1 .. n -> {"Item"}] : n \in 0 .. MaxBurst}

(***************************************************************************)
(* One Framed Layer: an item is pushed, the end is finished, and either    *)
(* may fail; the failure of the Source below is passed on.                 *)
(***************************************************************************)
LayerOutputs(kind) ==
  CASE kind = "Item" -> Frames \cup {<<"Failed">>}
    [] kind = "Failed" -> {<<"Failed">>}
    [] kind = "Ended" -> {Append(frames, "Ended") : frames \in Frames} \cup {<<"Failed">>}

\* One Layer applied to each of a sequence of events, the outputs concatenated.
Through(events) ==
  {FlattenSeq(outputs) :
     outputs \in {o \in [DOMAIN events -> UNION {LayerOutputs(k) : k \in SourceEventKind}] :
                    \A i \in DOMAIN events : o[i] \in LayerOutputs(events[i])}}

\* A plan of `layers` Layers applied to one raw event.
PlanMakes(layers, kind) ==
  LET after[n \in 0 .. layers] ==
        IF n = 0 THEN {<<kind>>} ELSE UNION {Through(events) : events \in after[n - 1]}
  IN  after[layers]

\* Such plans as PlanOutputs (Work) has them: by whether events are terminal.
Plan(layers) ==
  [terminal \in BOOLEAN |->
    {[i \in DOMAIN output |-> Ends(output[i])] :
       output \in UNION {PlanMakes(layers, kind) :
                           kind \in {k \in SourceEventKind : Ends(k) = terminal}}}]

Direct == Plan(0)
Framed == Plan(1)
==============================================================================
