------------------------------ MODULE SourcePlan ------------------------------
(***************************************************************************)
(* One active Source's SourcePlan (src/src/lib.rs): a raw event passes     *)
(* through the Layers one Layer after the other, each Layer mapping every  *)
(* event the one below made of it with its own decoder.  The runtime that  *)
(* asked for it stops the Source behind a terminal event.                  *)
(***************************************************************************)
EXTENDS SourceLayers

CONSTANTS
  Layers, \* nested Framed Layers of the descriptor
  MaxRaw  \* bound: raw events mapped

ASSUME PlanAssumption == Layers \in Nat /\ MaxRaw \in Nat

VARIABLES
  running,   \* ActiveSource::running
  received,  \* the raw events accepted so far
  layer,     \* the Layer map_event is at; 0 between raw events
  inputs,    \* the events this Layer has still to map
  outputs,   \* what it made of the others
  calls,     \* of each Layer's decoder: its calls, "error" behind one that failed
  delivered  \* outer events handed to the Subscription's mapper

vars == <<running, received, layer, inputs, outputs, calls, delivered>>

Init ==
  /\ running = TRUE /\ received = <<>>
  /\ layer = 0 /\ inputs = <<>> /\ outputs = <<>>
  /\ calls = [n \in 1 .. Layers |-> <<>>]
  /\ delivered = <<>>

\* The runtime maps the next raw event of a running Source.
Accept(kind) ==
  /\ layer = 0
  /\ running
  /\ Len(received) < MaxRaw
  /\ received' = Append(received, kind)
  /\ layer' = 1 /\ inputs' = <<kind>> /\ outputs' = <<>>
  /\ UNCHANGED <<running, calls, delivered>>

\* Wrong variant: the end is passed on without finishing the decoder.
CallsWithoutFinish(kind) == IF kind = "Item" THEN <<"push">> ELSE <<>>

DecoderCall(kind) ==
  CASE kind = "Item" -> <<"push">>
    [] kind = "Ended" -> <<"finish">>
    [] kind = "Failed" -> <<>>

\* FramedLayer::map_event of one event.
MapEvent ==
  /\ layer \in 1 .. Layers
  /\ inputs # <<>>
  /\ LET kind == Head(inputs) IN
     \E output \in LayerOutputs(kind) :
       /\ outputs' = outputs \o output
       /\ calls' = [calls EXCEPT ![layer] =
            @ \o DecoderCall(kind)
              \o IF kind # "Failed" /\ output = <<"Failed">> THEN <<"error">> ELSE <<>>]
  /\ inputs' = Tail(inputs)
  /\ UNCHANGED <<running, received, layer, delivered>>

\* Wrong variant: the next Layer's outputs are added to this one's.
Accumulated == outputs

Collected == <<>>

\* SourcePlan::map_event: everything this Layer made goes to the next one.
NextLayer ==
  /\ layer \in 1 .. Layers
  /\ inputs = <<>>
  /\ layer' = layer + 1
  /\ inputs' = outputs /\ outputs' = Collected
  /\ UNCHANGED <<running, received, calls, delivered>>

\* Wrong variant: only the Source's own terminal event ends it.
RawTerminal(events) == Ends(Last(received))

Terminal(events) == Ends(Last(received)) \/ \E i \in DOMAIN events : Ends(events[i])

\* Both runtimes' process_source_event, once the plan returned.
Deliver ==
  /\ layer = Layers + 1
  /\ delivered' = delivered \o inputs
  /\ running' = ~Terminal(inputs)
  /\ layer' = 0 /\ inputs' = <<>>
  /\ UNCHANGED <<received, outputs, calls>>

Next ==
  \/ \E kind \in SourceEventKind : Accept(kind)
  \/ MapEvent
  \/ NextLayer
  \/ Deliver

Spec == Init /\ [][Next]_vars

-----------------------------------------------------------------------------
\* Decoder's contract: after a call that failed, or finish, a decoder is not
\* called again, and it is never finished when the Source failed.
Spent(n) ==
  /\ \A i, j \in DOMAIN calls[n] :
       i < j /\ calls[n][i] \in {"finish", "error"} => calls[n][j] = "error"
  /\ \A i \in DOMAIN received : received[i] = "Failed" => "finish" \notin Range(calls[n])

\* The contract holds of the decoder next to the Source, because the runtime
\* stops a Source behind the first event that ends it.
InnermostDecoderSpent == Layers > 0 => Spent(1)

\* The contract of every Layer's decoder, as Decoder's documentation has it.
DecoderSpent == \A n \in 1 .. Layers : Spent(n)

\* What a plan delivers of one raw event is what SourceLayers, which the models
\* of the runtimes take for it, says the plan may make of it.
MakesWhatLayersSay ==
  [][layer = Layers + 1 /\ layer' = 0 =>
       inputs \in PlanMakes(Layers, Last(received))]_vars

\* A Source that ends normally while no decoder fails finishes every Layer's
\* decoder once, behind its last push, and the Component hears that it ended.
NormalEndFinishesAll ==
  layer = 0 /\ ~running /\ Last(received) = "Ended"
    /\ (\A n \in 1 .. Layers : "error" \notin Range(calls[n])) =>
  /\ \A n \in 1 .. Layers :
       calls[n] # <<>> /\ Last(calls[n]) = "finish" /\ "finish" \notin Range(Front(calls[n]))
  /\ Last(delivered) = "Ended"

(***************************************************************************)
(* The invariants behind them.                                             *)
(***************************************************************************)
PlanTypeOK ==
  /\ running \in BOOLEAN /\ received \in Seq(SourceEventKind)
  /\ layer \in 0 .. Layers + 1
  /\ inputs \in Seq(SourceEventKind) /\ outputs \in Seq(SourceEventKind)
  /\ calls \in [1 .. Layers -> Seq({"push", "finish", "error"})]
  /\ delivered \in Seq(SourceEventKind)

\* Only the last raw event may be terminal; between raw events nothing is left
\* over, and the Layer next to the Source has at most the one event to map.
PassInv ==
  /\ layer = 0 => inputs = <<>>
  /\ layer \in {0, Layers + 1} => outputs = <<>>
  /\ layer # 0 => running /\ received # <<>>
  /\ layer = 1 => inputs \in {<<>>, <<Last(received)>>}
  /\ \A i \in DOMAIN received : received[i] # "Item" =>
       i = Len(received) /\ ~(layer = 0 /\ running)

Pushes(n) == \A i \in DOMAIN calls[n] : calls[n][i] = "push"

EndsAmong(events) == \E i \in DOMAIN events : Ends(events[i])

\* Once the innermost decoder failed or was finished, an end is on its way to
\* the runtime, which stops the Source.
SpentInv ==
  Layers > 0 =>
  /\ (layer = 0 /\ running) \/ (layer = 1 /\ inputs # <<>>) => Pushes(1)
  /\ layer # 0 /\ ~Pushes(1) => EndsAmong(inputs) \/ EndsAmong(outputs)
  /\ "finish" \in Range(calls[1]) => received # <<>> /\ Last(received) = "Ended"
  /\ Spent(1)

NoError == \A n \in 1 .. Layers : "error" \notin Range(calls[n])

Items(events) == \A i \in DOMAIN events : events[i] = "Item"

EndsLast(events) ==
  events # <<>> /\ Last(events) = "Ended" /\ \A i \in 1 .. Len(events) - 1 : events[i] = "Item"

Finished(n) == Last(calls[n]) = "finish" /\ "finish" \notin Range(Front(calls[n]))

\* While no decoder fails, one end travels behind all items and finishes each
\* Layer's decoder when it passes.
EndTravels ==
  /\ IF inputs = <<>> THEN EndsLast(outputs) ELSE EndsLast(inputs) /\ Items(outputs)
  /\ \A n \in 1 .. Layers :
       IF n < layer \/ (n = layer /\ inputs = <<>>)
       THEN calls[n] # <<>> /\ Finished(n) ELSE Pushes(n)

FinishInv ==
  NoError =>
  /\ layer = 0 /\ running => \A n \in 1 .. Layers : Pushes(n)
  /\ layer # 0 /\ Last(received) = "Item" =>
       Items(inputs) /\ Items(outputs) /\ \A n \in 1 .. Layers : Pushes(n)
  /\ layer # 0 /\ Last(received) = "Ended" => EndTravels
  /\ layer = 0 /\ ~running /\ Last(received) = "Ended" =>
       /\ \A n \in 1 .. Layers : calls[n] # <<>> /\ Finished(n)
       /\ delivered # <<>> /\ Last(delivered) = "Ended"

PlanInv == PlanTypeOK /\ PassInv /\ SpentInv /\ FinishInv

\* What a Layer has made of the events it was given, one after the other, is
\* what such a Layer may make of them, up to the ones still to map.
LayerInv ==
  /\ layer \in 1 .. Layers =>
       \E events \in PlanMakes(layer - 1, Last(received)) :
         \E done \in Prefixes(events) :
           events = done \o inputs /\ outputs \in Through(done)
  /\ layer = Layers + 1 => inputs \in PlanMakes(Layers, Last(received))
==============================================================================
