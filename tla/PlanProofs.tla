------------------------------ MODULE PlanProofs ------------------------------
(***************************************************************************)
(* Decoders of a SourcePlan, for any number of Layers, of raw events and   *)
(* of frames: the one next to the Source is never called once it is spent, *)
(* and a normal end finishes each of them once and is heard.  What a plan  *)
(* delivers of one raw event is what PlanMakes says it may make of it:     *)
(* FlattenSeq and PlanMakes are loops, unfolded one pass at a time.        *)
(***************************************************************************)
EXTENDS SourcePlan, Integers, SequenceTheorems, WellFoundedInduction, TLAPS

Call == {"push", "finish", "error"}

-----------------------------------------------------------------------------
(***************************************************************************)
(* Sequences of events and of calls.                                       *)
(***************************************************************************)
\* The last element of a sequence, and what is before it.
LEMMA LastOf ==
  ASSUME NEW S, NEW s \in Seq(S), s # <<>>
  PROVE  /\ Len(s) \in Nat \ {0} /\ DOMAIN s = 1 .. Len(s)
         /\ Last(s) = s[Len(s)] /\ Last(s) \in S
         /\ Front(s) \in Seq(S) /\ DOMAIN Front(s) = 1 .. Len(s) - 1
         /\ \A i \in 1 .. Len(s) - 1 : Front(s)[i] = s[i]
<1>1. Len(s) \in Nat \ {0} /\ DOMAIN s = 1 .. Len(s) /\ s \in [1 .. Len(s) -> S]
  BY EmptySeq, LenProperties
<1>2. Last(s) = s[Len(s)] /\ Last(s) \in S
  BY <1>1 DEF Last
<1>3. \A i \in 1 .. Len(s) - 1 : s[i] \in S
  BY <1>1
<1>4. /\ SubSeq(s, 1, Len(s) - 1) \in Seq(S)
      /\ Len(SubSeq(s, 1, Len(s) - 1)) = Len(s) - 1
      /\ \A i \in 1 .. Len(s) - 1 : SubSeq(s, 1, Len(s) - 1)[i] = s[i]
  BY <1>1, <1>3, SubSeqProperties
<1> QED BY <1>1, <1>2, <1>4, LenProperties DEF Front

\* One element put behind a sequence.
LEMMA Behind ==
  ASSUME NEW S, NEW s \in Seq(S), NEW e \in S
  PROVE  /\ s \o <<e>> \in Seq(S) /\ s \o <<e>> # <<>>
         /\ Len(s \o <<e>>) = Len(s) + 1 /\ DOMAIN (s \o <<e>>) = 1 .. Len(s) + 1
         /\ (s \o <<e>>)[Len(s) + 1] = e
         /\ \A i \in 1 .. Len(s) : (s \o <<e>>)[i] = s[i]
<1>1. <<e>> \in Seq(S) /\ Len(<<e>>) = 1 /\ <<e>>[1] = e /\ Len(s) \in Nat
  OBVIOUS
<1>2. /\ s \o <<e>> \in Seq(S) /\ Len(s \o <<e>>) = Len(s) + 1
      /\ \A i \in 1 .. Len(s) + 1 :
           (s \o <<e>>)[i] = IF i <= Len(s) THEN s[i] ELSE <<e>>[i - Len(s)]
  BY <1>1, ConcatProperties
<1>3. (s \o <<e>>)[Len(s) + 1] = e /\ \A i \in 1 .. Len(s) : (s \o <<e>>)[i] = s[i]
  BY <1>1, <1>2
<1>4. DOMAIN (s \o <<e>>) = 1 .. Len(s) + 1 /\ s \o <<e>> # <<>>
  BY <1>1, <1>2
<1> QED BY <1>2, <1>3, <1>4

\* Two sequences of events: the ends among them, and the one they end with.
LEMMA Joined ==
  ASSUME NEW s \in Seq(SourceEventKind), NEW t \in Seq(SourceEventKind)
  PROVE  /\ s \o t \in Seq(SourceEventKind)
         /\ EndsAmong(s) \/ EndsAmong(t) => EndsAmong(s \o t)
         /\ Items(s) /\ Items(t) => Items(s \o t)
         /\ Items(s) /\ EndsLast(t) => EndsLast(s \o t)
         /\ t # <<>> => s \o t # <<>> /\ Last(s \o t) = Last(t)
<1>1. /\ s \o t \in Seq(SourceEventKind) /\ Len(s \o t) = Len(s) + Len(t)
      /\ \A i \in 1 .. Len(s) + Len(t) : (s \o t)[i] = IF i <= Len(s) THEN s[i] ELSE t[i - Len(s)]
  BY ConcatProperties
<1>2. /\ Len(s) \in Nat /\ Len(t) \in Nat
      /\ DOMAIN s = 1 .. Len(s) /\ DOMAIN t = 1 .. Len(t)
      /\ DOMAIN (s \o t) = 1 .. Len(s) + Len(t)
  BY <1>1
<1>3. \A i \in DOMAIN s : i \in DOMAIN (s \o t) /\ (s \o t)[i] = s[i]
  BY <1>1, <1>2
<1>4. \A i \in DOMAIN t : Len(s) + i \in DOMAIN (s \o t) /\ (s \o t)[Len(s) + i] = t[i]
  <2> SUFFICES ASSUME NEW i \in DOMAIN t
               PROVE  Len(s) + i \in DOMAIN (s \o t) /\ (s \o t)[Len(s) + i] = t[i]
    OBVIOUS
  <2>1. Len(s) + i \in 1 .. Len(s) + Len(t) /\ ~(Len(s) + i <= Len(s)) /\ (Len(s) + i) - Len(s) = i
    BY <1>2
  <2> QED BY <1>1, <1>2, <2>1
<1>5. EndsAmong(s) \/ EndsAmong(t) => EndsAmong(s \o t)
  BY <1>3, <1>4 DEF EndsAmong
<1>6. \A i \in DOMAIN (s \o t) :
        \/ i \in DOMAIN s /\ (s \o t)[i] = s[i]
        \/ i - Len(s) \in DOMAIN t /\ (s \o t)[i] = t[i - Len(s)]
  BY <1>1, <1>2
<1>7. Items(s) /\ Items(t) => Items(s \o t)
  BY <1>6 DEF Items
<1>8. ASSUME t # <<>> PROVE s \o t # <<>> /\ Last(s \o t) = Last(t)
  <2>1. Len(t) > 0
    BY <1>2, <1>8, EmptySeq
  <2>2. s \o t # <<>> /\ Len(t) \in DOMAIN t
    BY <1>1, <1>2, <2>1
  <2>3. Last(t) = t[Len(t)] /\ Last(s \o t) = (s \o t)[Len(s) + Len(t)]
    BY <1>1 DEF Last
  <2> QED BY <1>4, <2>2, <2>3
<1>9. ASSUME Items(s), EndsLast(t) PROVE EndsLast(s \o t)
  <2>1. s \o t # <<>> /\ Last(s \o t) = "Ended"
    BY <1>8, <1>9 DEF EndsLast
  <2>2. ASSUME NEW i \in 1 .. Len(s \o t) - 1 PROVE (s \o t)[i] = "Item"
    <3>1. i \in DOMAIN (s \o t) /\ (i - Len(s) \in DOMAIN t => i - Len(s) \in 1 .. Len(t) - 1)
      BY <1>1, <1>2
    <3> QED BY <1>6, <1>9, <3>1 DEF Items, EndsLast
  <2> QED BY <2>1, <2>2 DEF EndsLast
<1> QED BY <1>1, <1>5, <1>7, <1>8, <1>9

\* The oldest of a sequence of events, and the rest.
LEMMA Oldest ==
  ASSUME NEW s \in Seq(SourceEventKind), s # <<>>
  PROVE  /\ Head(s) \in SourceEventKind /\ Tail(s) \in Seq(SourceEventKind)
         /\ EndsAmong(s) => Ends(Head(s)) \/ EndsAmong(Tail(s))
         /\ Items(s) => Head(s) = "Item" /\ Items(Tail(s))
         /\ EndsLast(s) => \/ Head(s) = "Item" /\ Tail(s) # <<>> /\ EndsLast(Tail(s))
                           \/ Head(s) = "Ended" /\ Tail(s) = <<>>
<1>1. /\ Len(s) \in Nat \ {0} /\ DOMAIN s = 1 .. Len(s) /\ Last(s) = s[Len(s)]
      /\ Head(s) = s[1] /\ s[1] \in SourceEventKind
  <2>1. Len(s) \in Nat \ {0} /\ DOMAIN s = 1 .. Len(s) /\ Last(s) = s[Len(s)]
    BY LastOf
  <2>2. 1 \in 1 .. Len(s) /\ s \in [1 .. Len(s) -> SourceEventKind]
    BY <2>1, LenProperties
  <2> QED BY <2>1, <2>2
<1>2. /\ Tail(s) \in Seq(SourceEventKind) /\ Len(Tail(s)) = Len(s) - 1
      /\ \A i \in 1 .. Len(s) - 1 : Tail(s)[i] = s[i + 1]
  BY <1>1, HeadTailProperties
<1>3. DOMAIN Tail(s) = 1 .. Len(s) - 1
  BY <1>2, LenProperties
<1>4. \A i \in DOMAIN s : i = 1 \/ (i - 1 \in DOMAIN Tail(s) /\ Tail(s)[i - 1] = s[i])
  <2> SUFFICES ASSUME NEW i \in DOMAIN s, i # 1
               PROVE  i - 1 \in DOMAIN Tail(s) /\ Tail(s)[i - 1] = s[i]
    OBVIOUS
  <2>1. i - 1 \in 1 .. Len(s) - 1 /\ (i - 1) + 1 = i
    BY <1>1
  <2> QED BY <1>2, <1>3, <2>1
<1>5. EndsAmong(s) => Ends(Head(s)) \/ EndsAmong(Tail(s))
  BY <1>1, <1>4 DEF EndsAmong
<1>6. \A i \in DOMAIN Tail(s) : i + 1 \in DOMAIN s /\ Tail(s)[i] = s[i + 1]
  BY <1>1, <1>2, <1>3
<1>7. Items(s) => Head(s) = "Item" /\ Items(Tail(s))
  BY <1>1, <1>6 DEF Items
<1>8. ASSUME EndsLast(s), Len(s) = 1 PROVE Head(s) = "Ended" /\ Tail(s) = <<>>
  <2>1. Len(Tail(s)) = 0
    BY <1>1, <1>2, <1>8
  <2>2. Tail(s) = <<>>
    <3>1. \A q \in Seq(SourceEventKind) : q # <<>> => Len(q) # 0
      BY EmptySeq
    <3> QED BY <1>2, <2>1, <3>1
  <2> QED BY <1>1, <1>8, <2>2 DEF EndsLast
<1>9. ASSUME EndsLast(s), Len(s) # 1
      PROVE  Head(s) = "Item" /\ Tail(s) # <<>> /\ EndsLast(Tail(s))
  <2>1. Len(s) - 1 \in Nat \ {0} /\ 1 \in 1 .. Len(s) - 1 /\ Tail(s) # <<>>
    BY <1>1, <1>2, <1>9
  <2>2. Last(Tail(s)) = Tail(s)[Len(s) - 1] /\ Tail(s)[Len(s) - 1] = s[(Len(s) - 1) + 1]
    BY <1>2, <2>1 DEF Last
  <2>3. Last(Tail(s)) = "Ended"
    <3>1. (Len(s) - 1) + 1 = Len(s)
      BY <1>1
    <3>2. s[Len(s)] = "Ended"
      BY <1>1, <1>9 DEF EndsLast
    <3> QED BY <2>2, <3>1, <3>2
  <2>4. \A i \in 1 .. Len(Tail(s)) - 1 : i + 1 \in 1 .. Len(s) - 1 /\ Tail(s)[i] = s[i + 1]
    BY <1>1, <1>2
  <2> QED BY <1>1, <1>9, <2>1, <2>3, <2>4 DEF EndsLast
<1> QED BY <1>1, <1>2, <1>5, <1>7, <1>8, <1>9

-----------------------------------------------------------------------------
(***************************************************************************)
(* FramedLayer::map_event of one event.                                    *)
(***************************************************************************)
\* A Layer makes items of an item and passes on an end behind items, unless
\* its decoder fails; a failure below is passed on.
LEMMA LayerMakes ==
  ASSUME NEW kind \in SourceEventKind, NEW output \in LayerOutputs(kind)
  PROVE  /\ output \in Seq(SourceEventKind)
         /\ \/ output = <<"Failed">>
            \/ kind = "Item" /\ Items(output)
            \/ kind = "Ended" /\ EndsLast(output)
         /\ kind = "Failed" => output = <<"Failed">>
<1>1. ASSUME NEW frames \in Frames
      PROVE  /\ frames \in Seq({"Item"}) /\ frames \in Seq(SourceEventKind) /\ Items(frames)
             /\ Append(frames, "Ended") \in Seq(SourceEventKind)
             /\ EndsLast(Append(frames, "Ended"))
  <2>1. PICK n \in Nat : frames \in [1 .. n -> {"Item"}]
    BY DEF Frames
  <2>2. /\ frames \in Seq({"Item"}) /\ frames \in Seq(SourceEventKind) /\ Items(frames)
        /\ Len(frames) = n
    BY <2>1 DEF SourceEventKind, Items
  <2>3. "Ended" \in SourceEventKind
    BY DEF SourceEventKind
  <2> DEFINE ended == Append(frames, "Ended")
  <2>4. /\ ended \in Seq(SourceEventKind) /\ Len(ended) = n + 1 /\ ended[n + 1] = "Ended"
        /\ \A i \in 1 .. n : ended[i] = "Item"
    BY <2>1, <2>2, <2>3
  <2> HIDE DEF ended
  <2>5. EndsLast(ended)
    <3>1. ended # <<>> /\ Last(ended) = "Ended" /\ Len(ended) - 1 = n
      BY <2>4 DEF Last
    <3> QED BY <2>4, <3>1 DEF EndsLast
  <2> QED BY <2>2, <2>4, <2>5 DEF ended
<1>2. <<"Failed">> \in Seq(SourceEventKind)
  BY DEF SourceEventKind
<1>3. CASE kind = "Item"
  BY <1>1, <1>2, <1>3 DEF LayerOutputs
<1>4. CASE kind = "Failed"
  BY <1>2, <1>4 DEF LayerOutputs
<1>5. CASE kind = "Ended"
  BY <1>1, <1>2, <1>5 DEF LayerOutputs
<1> QED BY <1>3, <1>4, <1>5 DEF SourceEventKind

\* What one call of a decoder leaves of its calls.
CallMade(before, after) ==
  \/ after = before
  \/ \E call \in {"push", "finish"} :
       after = before \o <<call>> \/ after = (before \o <<call>>) \o <<"error">>

\* The three ways in which an event passes a Layer.
LEMMA EventPasses ==
  ASSUME PlanTypeOK, MapEvent
  PROVE  /\ layer \in 1 .. Layers /\ inputs # <<>>
         /\ inputs' = Tail(inputs)
         /\ UNCHANGED <<running, received, layer, delivered>>
         /\ \A n \in 1 .. Layers \ {layer} : calls'[n] = calls[n]
         /\ calls' = [calls EXCEPT ![layer] = calls'[layer]]
         /\ \E output \in Seq(SourceEventKind) :
              /\ outputs' = outputs \o output
              /\ \/ /\ Head(inputs) = "Failed" /\ output = <<"Failed">>
                    /\ calls'[layer] = calls[layer]
                 \/ \E call \in {"push", "finish"} :
                      /\ call = "push" <=> Head(inputs) = "Item"
                      /\ call = "finish" <=> Head(inputs) = "Ended"
                      /\ output = <<"Failed">>
                      /\ calls'[layer] = (calls[layer] \o <<call>>) \o <<"error">>
                 \/ /\ Head(inputs) = "Item" /\ Items(output)
                    /\ calls'[layer] = calls[layer] \o <<"push">>
                 \/ /\ Head(inputs) = "Ended" /\ EndsLast(output)
                    /\ calls'[layer] = calls[layer] \o <<"finish">>
<1> DEFINE kind == Head(inputs)
<1>1. /\ layer \in 1 .. Layers /\ inputs # <<>> /\ inputs' = Tail(inputs)
      /\ UNCHANGED <<running, received, layer, delivered>>
  BY DEF MapEvent
<1>2. kind \in SourceEventKind
  BY <1>1, Oldest DEF PlanTypeOK
<1>3. PICK output \in LayerOutputs(kind) :
        /\ outputs' = outputs \o output
        /\ calls' = [calls EXCEPT ![layer] =
             @ \o DecoderCall(kind)
               \o IF kind # "Failed" /\ output = <<"Failed">> THEN <<"error">> ELSE <<>>]
  BY DEF MapEvent
<1> HIDE DEF kind
<1>4. /\ output \in Seq(SourceEventKind)
      /\ \/ output = <<"Failed">>
         \/ kind = "Item" /\ Items(output)
         \/ kind = "Ended" /\ EndsLast(output)
      /\ kind = "Failed" => output = <<"Failed">>
  BY <1>2, LayerMakes
<1>5. /\ calls'[layer] = calls[layer] \o DecoderCall(kind)
           \o IF kind # "Failed" /\ output = <<"Failed">> THEN <<"error">> ELSE <<>>
      /\ \A n \in 1 .. Layers \ {layer} : calls'[n] = calls[n]
      /\ calls' = [calls EXCEPT ![layer] = calls'[layer]]
  BY <1>1, <1>3 DEF PlanTypeOK
<1>6. calls[layer] \in Seq(Call)
  BY <1>1 DEF PlanTypeOK, Call
<1>7. CASE kind = "Failed"
  <2>1. calls'[layer] = (calls[layer] \o <<>>) \o <<>>
    BY <1>5, <1>7 DEF DecoderCall
  <2>2. calls'[layer] = calls[layer]
    BY <1>6, <2>1, ConcatEmptySeq
  <2> QED BY <1>1, <1>3, <1>4, <1>5, <1>7, <2>2 DEF kind
<1>8. CASE kind # "Failed" /\ output = <<"Failed">>
  <2> DEFINE call == IF kind = "Item" THEN "push" ELSE "finish"
  <2>1. calls'[layer] = (calls[layer] \o <<call>>) \o <<"error">>
    BY <1>2, <1>5, <1>8 DEF DecoderCall, SourceEventKind
  <2>2. /\ call \in {"push", "finish"}
        /\ call = "push" <=> kind = "Item"
        /\ call = "finish" <=> kind = "Ended"
    BY <1>2, <1>8 DEF SourceEventKind
  <2> HIDE DEF call
  <2> QED BY <1>1, <1>3, <1>4, <1>5, <1>8, <2>1, <2>2 DEF kind
<1>9. CASE kind # "Failed" /\ output # <<"Failed">>
  <2> DEFINE call == IF kind = "Item" THEN "push" ELSE "finish"
  <2>1. calls'[layer] = (calls[layer] \o <<call>>) \o <<>>
    BY <1>2, <1>5, <1>9 DEF DecoderCall, SourceEventKind
  <2>2. calls[layer] \o <<call>> \in Seq(Call)
    BY <1>6 DEF Call
  <2>3. calls'[layer] = calls[layer] \o <<call>>
    BY <2>1, <2>2, ConcatEmptySeq
  <2> QED BY <1>1, <1>3, <1>4, <1>5, <1>9, <2>3 DEF kind
<1> QED BY <1>7, <1>8, <1>9

\* Types are kept.
LEMMA PlanTypes ==
  ASSUME PlanTypeOK, [Next]_vars
  PROVE  PlanTypeOK'
<1>1. ASSUME NEW kind \in SourceEventKind, Accept(kind) PROVE PlanTypeOK'
  <2>1. 1 \in 0 .. Layers + 1
    BY PlanAssumption
  <2> QED BY <1>1, <2>1 DEF Accept, PlanTypeOK
<1>2. CASE MapEvent
  <2>1. PICK output \in Seq(SourceEventKind) : outputs' = outputs \o output
    BY <1>2, EventPasses
  <2>2. /\ UNCHANGED <<running, received, layer, delivered>>
        /\ layer \in 1 .. Layers /\ inputs # <<>> /\ inputs' = Tail(inputs)
    BY <1>2, EventPasses
  <2>3. calls'[layer] \in Seq(Call)
    <3>1. CallMade(calls[layer], calls'[layer])
      BY <1>2, EventPasses DEF CallMade
    <3>2. calls[layer] \in Seq(Call) /\ \A call \in Call : <<call>> \in Seq(Call)
      BY <2>2 DEF PlanTypeOK, Call
    <3>3. \A call \in Call : calls[layer] \o <<call>> \in Seq(Call)
      BY <3>2, ConcatProperties
    <3>4. \A call \in Call : (calls[layer] \o <<call>>) \o <<"error">> \in Seq(Call)
      BY <3>2, <3>3, ConcatProperties DEF Call
    <3> QED BY <3>1, <3>2, <3>3, <3>4 DEF CallMade, Call
  <2>4. calls' \in [1 .. Layers -> Seq(Call)]
    <3>1. calls' = [calls EXCEPT ![layer] = calls'[layer]]
      BY <1>2, EventPasses
    <3> QED BY <2>2, <2>3, <3>1 DEF PlanTypeOK, Call
  <2>5. inputs' \in Seq(SourceEventKind) /\ outputs' \in Seq(SourceEventKind)
    BY <2>1, <2>2, Oldest, ConcatProperties DEF PlanTypeOK
  <2> QED BY <2>2, <2>4, <2>5 DEF PlanTypeOK, Call
<1>3. CASE NextLayer
  <2>1. layer + 1 \in 0 .. Layers + 1
    BY <1>3, PlanAssumption DEF NextLayer
  <2> QED BY <1>3, <2>1 DEF NextLayer, Collected, PlanTypeOK
<1>4. CASE Deliver
  <2>1. 0 \in 0 .. Layers + 1 /\ running' \in BOOLEAN
    BY <1>4, PlanAssumption DEF Deliver, Terminal
  <2>2. delivered' \in Seq(SourceEventKind)
    BY <1>4, ConcatProperties DEF Deliver, PlanTypeOK
  <2> QED BY <1>4, <2>1, <2>2 DEF Deliver, PlanTypeOK
<1>5. CASE UNCHANGED vars
  BY <1>5 DEF vars, PlanTypeOK
<1> QED BY <1>1, <1>2, <1>3, <1>4, <1>5 DEF Next

\* The runtime maps one raw event after the other, up to a terminal one.
LEMMA PassStep ==
  ASSUME PlanTypeOK, PassInv, [Next]_vars
  PROVE  PassInv'
<1>1. ASSUME NEW kind \in SourceEventKind, Accept(kind) PROVE PassInv'
  <2>1. /\ layer = 0 /\ running /\ received' = Append(received, kind)
        /\ layer' = 1 /\ inputs' = <<kind>> /\ outputs' = <<>> /\ running' = running
    BY <1>1 DEF Accept
  <2>2. /\ received' # <<>> /\ Len(received') = Len(received) + 1 /\ Last(received') = kind
        /\ DOMAIN received' = 1 .. Len(received) + 1 /\ Len(received) \in Nat
        /\ \A i \in 1 .. Len(received) : i \in DOMAIN received /\ received'[i] = received[i]
    <3>1. /\ received \in Seq(SourceEventKind) /\ Len(received) \in Nat
          /\ DOMAIN received = 1 .. Len(received)
      BY DEF PlanTypeOK
    <3>2. /\ Append(received, kind) \in Seq(SourceEventKind)
          /\ Len(Append(received, kind)) = Len(received) + 1
          /\ Append(received, kind)[Len(received) + 1] = kind
          /\ \A i \in 1 .. Len(received) : Append(received, kind)[i] = received[i]
      BY <3>1
    <3>3. Append(received, kind) # <<>> /\ Last(Append(received, kind)) = kind
      BY <3>1, <3>2 DEF Last
    <3> QED BY <2>1, <3>1, <3>2, <3>3, LenProperties
  <2>3. \A i \in DOMAIN received' : received'[i] # "Item" => i = Len(received')
    BY <2>1, <2>2 DEF PassInv
  <2> QED BY <2>1, <2>2, <2>3 DEF PassInv
<1>2. CASE MapEvent
  <2>1. /\ UNCHANGED <<running, received, layer>>
        /\ layer \in 1 .. Layers /\ inputs # <<>> /\ inputs' = Tail(inputs)
    BY <1>2, EventPasses
  <2>2. layer # 0 /\ layer # Layers + 1
    BY <2>1, PlanAssumption
  <2>3. layer = 1 => inputs' = <<>>
    BY <2>1 DEF PassInv
  <2> QED BY <2>1, <2>2, <2>3 DEF PassInv
<1>3. CASE NextLayer
  <2>1. /\ layer \in 1 .. Layers /\ layer' = layer + 1 /\ outputs' = <<>>
        /\ UNCHANGED <<running, received>>
    BY <1>3 DEF NextLayer, Collected
  <2>2. layer # 0 /\ layer' # 0 /\ layer' # 1
    BY <2>1, PlanAssumption
  <2> QED BY <2>1, <2>2 DEF PassInv
<1>4. CASE Deliver
  <2>1. /\ layer = Layers + 1 /\ layer' = 0 /\ inputs' = <<>>
        /\ running' = ~Terminal(inputs) /\ UNCHANGED <<received, outputs>>
    BY <1>4 DEF Deliver
  <2>2. layer # 0 /\ outputs = <<>> /\ received # <<>>
    BY <2>1, PlanAssumption DEF PassInv
  <2>3. running' => Last(received) = "Item"
    BY <2>1 DEF Terminal, Ends
  <2>4. Last(received) = received[Len(received)]
    BY <2>2, LastOf DEF PlanTypeOK
  <2> QED BY <2>1, <2>2, <2>3, <2>4 DEF PassInv
<1>5. CASE UNCHANGED vars
  BY <1>5 DEF vars, PassInv
<1> QED BY <1>1, <1>2, <1>3, <1>4, <1>5 DEF Next

-----------------------------------------------------------------------------
(***************************************************************************)
(* A decoder behind pushes.                                                *)
(***************************************************************************)
\* One call of a decoder that was only pushed so far.
LEMMA OneCall ==
  ASSUME NEW before \in Seq(Call), \A i \in DOMAIN before : before[i] = "push",
         NEW call \in {"push", "finish"}
  PROVE  /\ \A i \in DOMAIN (before \o <<"push">>) : (before \o <<"push">>)[i] = "push"
         /\ before \o <<call>> # <<>> /\ Last(before \o <<call>>) = call
         /\ "finish" \notin Range(Front(before \o <<call>>))
         /\ \A after \in {before \o <<call>>, (before \o <<call>>) \o <<"error">>} :
              /\ "finish" \in Range(after) => call = "finish"
              /\ \A i, j \in DOMAIN after :
                   i < j /\ after[i] \in {"finish", "error"} => after[j] = "error"
<1> DEFINE n == Len(before)
           one == before \o <<call>>
           two == one \o <<"error">>
<1>1. call \in Call /\ "push" \in Call /\ "error" \in Call
  BY DEF Call
<1>2. n \in Nat /\ DOMAIN before = 1 .. n
  OBVIOUS
<1>3. /\ one \in Seq(Call) /\ one # <<>> /\ Len(one) = n + 1 /\ DOMAIN one = 1 .. n + 1
      /\ one[n + 1] = call /\ \A i \in 1 .. n : one[i] = "push"
  BY <1>1, <1>2, Behind
<1>4. \A i \in DOMAIN (before \o <<"push">>) : (before \o <<"push">>)[i] = "push"
  <2>1. /\ DOMAIN (before \o <<"push">>) = 1 .. n + 1 /\ (before \o <<"push">>)[n + 1] = "push"
        /\ \A i \in 1 .. n : (before \o <<"push">>)[i] = "push"
    BY <1>1, <1>2, Behind
  <2> QED BY <1>2, <2>1
<1> HIDE DEF one
<1>5. /\ Len(two) = n + 2 /\ DOMAIN two = 1 .. n + 2 /\ two[n + 2] = "error"
      /\ two[n + 1] = call /\ \A i \in 1 .. n : two[i] = "push"
  <2>1. /\ Len(two) = (n + 1) + 1 /\ DOMAIN two = 1 .. (n + 1) + 1 /\ two[(n + 1) + 1] = "error"
        /\ \A i \in 1 .. n + 1 : two[i] = one[i]
    BY <1>1, <1>3, Behind
  <2>2. (n + 1) + 1 = n + 2 /\ n + 1 \in 1 .. n + 1 /\ 1 .. n \subseteq 1 .. n + 1
    BY <1>2
  <2> QED BY <1>3, <2>1, <2>2
<1> HIDE DEF two, n
<1>6. Last(one) = call /\ "finish" \notin Range(Front(one))
  <2>1. /\ Last(one) = one[n + 1]
        /\ DOMAIN Front(one) = 1 .. (n + 1) - 1
        /\ \A i \in 1 .. (n + 1) - 1 : Front(one)[i] = one[i]
    BY <1>3, LastOf
  <2>2. (n + 1) - 1 = n
    BY <1>2
  <2> QED BY <1>3, <2>1, <2>2 DEF Range
<1>7. /\ "finish" \in Range(one) => call = "finish"
      /\ \A i, j \in DOMAIN one : i < j /\ one[i] \in {"finish", "error"} => one[j] = "error"
  BY <1>2, <1>3 DEF Range
<1>8. /\ "finish" \in Range(two) => call = "finish"
      /\ \A i, j \in DOMAIN two : i < j /\ two[i] \in {"finish", "error"} => two[j] = "error"
  BY <1>2, <1>5 DEF Range
<1> QED BY <1>3, <1>4, <1>6, <1>7, <1>8 DEF one, two

\* A call that failed is remembered.
LEMMA ErrorStays ==
  ASSUME NEW before \in Seq(Call), NEW call \in {"push", "finish"}
  PROVE  /\ "error" \in Range((before \o <<call>>) \o <<"error">>)
         /\ "error" \in Range(before) => "error" \in Range(before \o <<call>>)
<1>1. before \o <<call>> \in Seq(Call)
  BY Behind DEF Call
<1>4. "error" \in Range(before) => "error" \in Range(before \o <<call>>)
  <2>1. /\ Len(before) \in Nat /\ DOMAIN before = 1 .. Len(before) /\ call \in Call
        /\ DOMAIN (before \o <<call>>) = 1 .. Len(before) + 1
        /\ \A i \in 1 .. Len(before) : (before \o <<call>>)[i] = before[i]
    BY Behind DEF Call
  <2>2. \A i \in DOMAIN before : i \in DOMAIN (before \o <<call>>)
    BY <2>1
  <2> QED BY <2>1, <2>2 DEF Range
<1> DEFINE one == before \o <<call>>
<1> HIDE DEF one
<1>2. /\ Len(one) \in Nat /\ DOMAIN (one \o <<"error">>) = 1 .. Len(one) + 1
      /\ (one \o <<"error">>)[Len(one) + 1] = "error"
  BY <1>1, Behind DEF one, Call
<1>3. "error" \in Range(one \o <<"error">>)
  BY <1>2 DEF Range
<1> QED BY <1>3, <1>4 DEF one

-----------------------------------------------------------------------------
(***************************************************************************)
(* The decoder next to the Source.                                         *)
(***************************************************************************)
LEMMA SpentStep ==
  ASSUME PlanTypeOK, PassInv, PassInv', SpentInv, [Next]_vars
  PROVE  SpentInv'
<1> SUFFICES ASSUME Layers > 0 PROVE SpentInv'
  BY DEF SpentInv
<1>1. 1 \in 1 .. Layers /\ calls[1] \in Seq(Call)
  BY PlanAssumption DEF PlanTypeOK, Call
<1>2. ASSUME NEW kind \in SourceEventKind, Accept(kind) PROVE SpentInv'
  <2>1. layer = 0 /\ running /\ calls' = calls
    BY <1>2 DEF Accept
  <2>2. Pushes(1) /\ Pushes(1)'
    BY <2>1 DEF SpentInv, Pushes
  <2>3. "finish" \notin Range(calls'[1])
    BY <2>2 DEF Pushes, Range
  <2> QED BY <2>1, <2>2, <2>3 DEF SpentInv, Spent
<1>3. CASE MapEvent
  <2>1. /\ UNCHANGED <<running, received, layer>> /\ inputs' = Tail(inputs)
        /\ layer \in 1 .. Layers /\ inputs # <<>>
        /\ \A n \in 1 .. Layers \ {layer} : calls'[n] = calls[n]
    BY <1>3, EventPasses
  <2>2. PICK output \in Seq(SourceEventKind) :
          /\ outputs' = outputs \o output
          /\ \/ /\ Head(inputs) = "Failed" /\ output = <<"Failed">>
                /\ calls'[layer] = calls[layer]
             \/ \E call \in {"push", "finish"} :
                  /\ call = "push" <=> Head(inputs) = "Item"
                  /\ call = "finish" <=> Head(inputs) = "Ended"
                  /\ output = <<"Failed">>
                  /\ calls'[layer] = (calls[layer] \o <<call>>) \o <<"error">>
             \/ /\ Head(inputs) = "Item" /\ Items(output)
                /\ calls'[layer] = calls[layer] \o <<"push">>
             \/ /\ Head(inputs) = "Ended" /\ EndsLast(output)
                /\ calls'[layer] = calls[layer] \o <<"finish">>
    BY <1>3, EventPasses
  <2>3. /\ Head(inputs) \in SourceEventKind
        /\ EndsAmong(inputs) => Ends(Head(inputs)) \/ EndsAmong(Tail(inputs))
    BY <2>1, Oldest DEF PlanTypeOK
  <2>4. EndsAmong(<<"Failed">>)
    BY DEF EndsAmong, Ends
  <2>5. ASSUME EndsLast(output) PROVE EndsAmong(output)
    <3>1. output # <<>> /\ Last(output) = "Ended"
      BY <2>5 DEF EndsLast
    <3>2. /\ Len(output) \in Nat \ {0} /\ DOMAIN output = 1 .. Len(output)
          /\ Last(output) = output[Len(output)]
      BY <3>1, LastOf
    <3>3. Len(output) \in DOMAIN output /\ output[Len(output)] = "Ended"
      BY <3>1, <3>2
    <3> QED BY <3>3 DEF EndsAmong, Ends
  <2>6. Ends(Head(inputs)) \/ output = <<"Failed">> => EndsAmong(output)
    BY <2>2, <2>4, <2>5 DEF Ends
  <2>7. EndsAmong(outputs) \/ EndsAmong(output) => EndsAmong(outputs')
    BY <2>2, Joined DEF PlanTypeOK
  <2>8. CASE layer = 1
    <3>1. Pushes(1) /\ Head(inputs) = Last(received) /\ received # <<>> /\ inputs' = <<>>
      BY <2>1, <2>8 DEF SpentInv, PassInv
    <3> DEFINE before == calls[1]
    <3>2. ASSUME NEW call \in {"push", "finish"}
          PROVE  /\ \A i \in DOMAIN (before \o <<"push">>) : (before \o <<"push">>)[i] = "push"
                 /\ \A after \in {before \o <<call>>, (before \o <<call>>) \o <<"error">>} :
                      /\ "finish" \in Range(after) => call = "finish"
                      /\ \A i, j \in DOMAIN after :
                           i < j /\ after[i] \in {"finish", "error"} => after[j] = "error"
      <4>1. before \in Seq(Call) /\ \A i \in DOMAIN before : before[i] = "push"
        BY <1>1, <3>1 DEF Pushes
      <4> QED BY <4>1, OneCall
    <3>3. Pushes(1)' \/ EndsAmong(output)
      <4>1. SUFFICES ASSUME ~EndsAmong(output) PROVE Pushes(1)'
        OBVIOUS
      <4>2. calls'[1] = before \o <<"push">>
        BY <2>2, <2>4, <2>5, <2>8, <4>1
      <4> QED BY <3>2, <4>2 DEF Pushes
    <3>4. /\ "finish" \in Range(calls'[1]) => Last(received) = "Ended"
          /\ \A i, j \in DOMAIN calls'[1] :
               i < j /\ calls'[1][i] \in {"finish", "error"} => calls'[1][j] = "error"
      <4>1. \A i \in DOMAIN calls[1] : calls[1][i] = "push"
        BY <3>1 DEF Pushes
      <4>2. CASE calls'[1] = calls[1]
        BY <4>1, <4>2 DEF Range
      <4>3. CASE calls'[1] # calls[1]
        <5>1. PICK call \in {"push", "finish"} :
                /\ call = "finish" => Head(inputs) = "Ended"
                /\ calls'[1] \in {calls[1] \o <<call>>, (calls[1] \o <<call>>) \o <<"error">>}
          BY <2>2, <2>8, <4>3
        <5> QED BY <3>1, <3>2, <5>1
      <4> QED BY <4>2, <4>3
    <3>5. Spent(1)'
      <4>1. ASSUME NEW i \in DOMAIN received, received[i] = "Failed"
            PROVE  "finish" \notin Range(calls'[1])
        <5>1. Last(received) = received[Len(received)] /\ i = Len(received)
          BY <3>1, <4>1, LastOf DEF PassInv, PlanTypeOK
        <5> QED BY <3>4, <4>1, <5>1
      <4> QED BY <2>1, <3>4, <4>1 DEF Spent
    <3> QED BY <2>1, <2>7, <3>1, <3>3, <3>4, <3>5 DEF SpentInv
  <2>9. CASE layer # 1
    <3>1. calls'[1] = calls[1] /\ layer # 0
      BY <1>1, <2>1, <2>9
    <3>2. EndsAmong(inputs) \/ EndsAmong(outputs) => EndsAmong(inputs') \/ EndsAmong(outputs')
      BY <2>1, <2>3, <2>6, <2>7
    <3> QED BY <2>1, <2>9, <3>1, <3>2 DEF SpentInv, Pushes, Spent
  <2> QED BY <2>8, <2>9
<1>4. CASE NextLayer
  <2>1. /\ layer \in 1 .. Layers /\ layer' = layer + 1 /\ inputs = <<>> /\ inputs' = outputs
        /\ UNCHANGED <<running, received, calls>>
    BY <1>4 DEF NextLayer
  <2>2. layer # 0 /\ layer' # 0 /\ layer' # 1
    BY <2>1, PlanAssumption
  <2>3. ~EndsAmong(<<>>)
    BY DEF EndsAmong
  <2> QED BY <2>1, <2>2, <2>3 DEF SpentInv, Pushes, Spent
<1>5. CASE Deliver
  <2>1. /\ layer = Layers + 1 /\ layer' = 0 /\ running' = ~Terminal(inputs)
        /\ UNCHANGED <<received, calls>>
    BY <1>5 DEF Deliver
  <2>2. layer # 0 /\ outputs = <<>>
    BY <2>1, PlanAssumption DEF PassInv
  <2>3. running' => Pushes(1)
    <3>1. ~EndsAmong(<<>>) /\ (EndsAmong(inputs) => Terminal(inputs))
      BY DEF EndsAmong, Terminal
    <3> QED BY <1>1, <2>1, <2>2, <3>1, PlanAssumption DEF SpentInv
  <2> QED BY <2>1, <2>3 DEF SpentInv, Pushes, Spent
<1>6. CASE UNCHANGED vars
  BY <1>6 DEF vars, SpentInv, Pushes, Spent
<1> QED BY <1>2, <1>3, <1>4, <1>5, <1>6 DEF Next

-----------------------------------------------------------------------------
(***************************************************************************)
(* A normal end.                                                           *)
(***************************************************************************)
\* An event that passes a Layer whose decoder has not failed.
LEMMA SoundPass ==
  ASSUME PlanTypeOK, MapEvent, NoError'
  PROVE  /\ NoError
         /\ \E output \in Seq(SourceEventKind) :
              /\ outputs' = outputs \o output
              /\ \/ Head(inputs) = "Failed"
                 \/ /\ Head(inputs) = "Item" /\ Items(output)
                    /\ calls'[layer] = calls[layer] \o <<"push">>
                 \/ /\ Head(inputs) = "Ended" /\ EndsLast(output)
                    /\ calls'[layer] = calls[layer] \o <<"finish">>
<1>1. /\ layer \in 1 .. Layers /\ \A n \in 1 .. Layers \ {layer} : calls'[n] = calls[n]
      /\ calls[layer] \in Seq(Call)
  BY EventPasses DEF PlanTypeOK, Call
<1>2. "error" \notin Range(calls'[layer])
  BY <1>1 DEF NoError
<1>3. PICK output \in Seq(SourceEventKind) :
        /\ outputs' = outputs \o output
        /\ \/ /\ Head(inputs) = "Failed" /\ calls'[layer] = calls[layer]
           \/ \E call \in {"push", "finish"} :
                calls'[layer] = (calls[layer] \o <<call>>) \o <<"error">>
           \/ /\ Head(inputs) = "Item" /\ Items(output)
              /\ calls'[layer] = calls[layer] \o <<"push">>
           \/ /\ Head(inputs) = "Ended" /\ EndsLast(output)
              /\ calls'[layer] = calls[layer] \o <<"finish">>
  BY EventPasses
<1>4. \A call \in {"push", "finish"} :
        /\ calls'[layer] # (calls[layer] \o <<call>>) \o <<"error">>
        /\ calls'[layer] = calls[layer] \o <<call>> => "error" \notin Range(calls[layer])
  BY <1>1, <1>2, ErrorStays
<1>5. "error" \notin Range(calls[layer])
  BY <1>2, <1>3, <1>4
<1> QED BY <1>1, <1>3, <1>4, <1>5 DEF NoError

\* One decoder more behind its only finish, or one push more.
LEMMA DecoderStep ==
  ASSUME PlanTypeOK, NEW n \in 1 .. Layers, Pushes(n)
  PROVE  /\ calls'[n] = calls[n] \o <<"push">> => Pushes(n)'
         /\ calls'[n] = calls[n] \o <<"finish">> => calls'[n] # <<>> /\ Finished(n)'
<1> DEFINE before == calls[n]
<1>1. before \in Seq(Call) /\ \A i \in DOMAIN before : before[i] = "push"
  BY DEF PlanTypeOK, Pushes, Call
<1>2. /\ \A i \in DOMAIN (before \o <<"push">>) : (before \o <<"push">>)[i] = "push"
      /\ before \o <<"finish">> # <<>> /\ Last(before \o <<"finish">>) = "finish"
      /\ "finish" \notin Range(Front(before \o <<"finish">>))
  BY <1>1, OneCall
<1> QED BY <1>2 DEF Pushes, Finished

LEMMA FinishStep ==
  ASSUME PlanTypeOK, PassInv, FinishInv, [Next]_vars
  PROVE  FinishInv'
<1> SUFFICES ASSUME NoError' PROVE FinishInv'
  BY DEF FinishInv
<1>1. ASSUME NEW kind \in SourceEventKind, Accept(kind) PROVE FinishInv'
  <2>1. /\ layer = 0 /\ running /\ calls' = calls /\ layer' = 1
        /\ inputs' = <<kind>> /\ outputs' = <<>> /\ received' = Append(received, kind)
    BY <1>1 DEF Accept
  <2>2. Last(received') = kind
    <3>1. received \in Seq(SourceEventKind) /\ <<kind>> \in Seq(SourceEventKind) /\ <<kind>> # <<>>
      BY DEF PlanTypeOK
    <3>2. Last(received \o <<kind>>) = Last(<<kind>>)
      BY <3>1, Joined
    <3>3. Last(<<kind>>) = kind
      BY DEF Last
    <3>4. Append(received, kind) = received \o <<kind>>
      BY <3>1, AppendIsConcat
    <3> QED BY <2>1, <3>2, <3>3, <3>4
  <2>3. \A n \in 1 .. Layers : Pushes(n)'
    BY <2>1 DEF FinishInv, NoError, Pushes
  <2>4. Items(outputs') /\ (kind = "Item" => Items(inputs'))
    BY <2>1 DEF Items
  <2>5. kind = "Ended" => EndTravels'
    <3>1. ASSUME kind = "Ended" PROVE EndsLast(inputs')
      <4>1. inputs' = <<"Ended">> /\ inputs' # <<>> /\ Len(inputs') = 1 /\ inputs'[1] = "Ended"
        BY <2>1, <3>1
      <4> QED BY <4>1 DEF EndsLast, Last
    <3>2. \A n \in 1 .. Layers : ~(n < layer') /\ inputs' # <<>>
      BY <2>1, PlanAssumption
    <3> QED BY <2>3, <2>4, <3>1, <3>2 DEF EndTravels, EndsLast
  <2> QED BY <2>1, <2>2, <2>3, <2>4, <2>5 DEF FinishInv
<1>2. CASE MapEvent
  <2>1. /\ UNCHANGED <<running, received, layer>> /\ inputs' = Tail(inputs)
        /\ layer \in 1 .. Layers /\ inputs # <<>> /\ layer # 0
        /\ \A n \in 1 .. Layers \ {layer} : calls'[n] = calls[n]
    BY <1>2, EventPasses, PlanAssumption
  <2>2. NoError
    BY <1>2, SoundPass
  <2>3. PICK output \in Seq(SourceEventKind) :
          /\ outputs' = outputs \o output
          /\ \/ Head(inputs) = "Failed"
             \/ /\ Head(inputs) = "Item" /\ Items(output)
                /\ calls'[layer] = calls[layer] \o <<"push">>
             \/ /\ Head(inputs) = "Ended" /\ EndsLast(output)
                /\ calls'[layer] = calls[layer] \o <<"finish">>
    BY <1>2, SoundPass
  <2>4. /\ Items(inputs) => Head(inputs) = "Item" /\ Items(inputs')
        /\ EndsLast(inputs) =>
             \/ Head(inputs) = "Item" /\ inputs' # <<>> /\ EndsLast(inputs')
             \/ Head(inputs) = "Ended" /\ inputs' = <<>>
    BY <2>1, Oldest DEF PlanTypeOK
  <2>5. /\ Items(outputs) /\ Items(output) => Items(outputs')
        /\ Items(outputs) /\ EndsLast(output) => EndsLast(outputs')
    BY <2>3, Joined DEF PlanTypeOK
  <2>6. \A n \in 1 .. Layers : n # layer =>
          calls'[n] = calls[n] /\ (Pushes(n) => Pushes(n)') /\ (Finished(n) => Finished(n)')
    BY <2>1 DEF Pushes, Finished
  <2>7. ASSUME Last(received) = "Item"
        PROVE  Items(inputs') /\ Items(outputs') /\ \A n \in 1 .. Layers : Pushes(n)'
    <3>1. Items(inputs) /\ Items(outputs) /\ \A n \in 1 .. Layers : Pushes(n)
      BY <2>1, <2>2, <2>7 DEF FinishInv
    <3>2. Items(output) /\ calls'[layer] = calls[layer] \o <<"push">>
      BY <2>3, <2>4, <3>1
    <3>3. \A n \in 1 .. Layers : n = layer => Pushes(n)'
      BY <3>1, <3>2, DecoderStep
    <3> QED BY <2>4, <2>5, <2>6, <3>1, <3>2, <3>3
  <2>8. ASSUME Last(received) = "Ended" PROVE EndTravels'
    <3>1. /\ EndsLast(inputs) /\ Items(outputs)
          /\ \A n \in 1 .. Layers : IF n < layer THEN calls[n] # <<>> /\ Finished(n) ELSE Pushes(n)
      BY <2>1, <2>2, <2>8 DEF FinishInv, EndTravels
    <3>2. \A n \in 1 .. Layers : n = layer => Pushes(n) /\ ~(n < layer)
      BY <3>1, PlanAssumption
    <3>3. CASE Head(inputs) = "Item"
      <4>1. inputs' # <<>> /\ EndsLast(inputs')
        BY <2>4, <3>1, <3>3
      <4>2. Items(output) /\ calls'[layer] = calls[layer] \o <<"push">>
        BY <2>3, <3>3
      <4>3. \A n \in 1 .. Layers : n = layer => Pushes(n)'
        BY <3>2, <4>2, DecoderStep
      <4>4. \A n \in 1 .. Layers :
              IF n < layer THEN calls'[n] # <<>> /\ Finished(n)' ELSE Pushes(n)'
        BY <2>6, <3>1, <3>2, <4>3
      <4> QED BY <2>1, <2>5, <3>1, <4>1, <4>2, <4>4 DEF EndTravels
    <3>4. CASE Head(inputs) = "Ended"
      <4>1. inputs' = <<>>
        BY <2>4, <3>1, <3>4
      <4>2. EndsLast(output) /\ calls'[layer] = calls[layer] \o <<"finish">>
        BY <2>3, <3>4
      <4>3. \A n \in 1 .. Layers : n = layer => calls'[n] # <<>> /\ Finished(n)'
        BY <3>2, <4>2, DecoderStep
      <4>4. \A n \in 1 .. Layers :
              IF n < layer \/ n = layer THEN calls'[n] # <<>> /\ Finished(n)' ELSE Pushes(n)'
        BY <2>6, <3>1, <4>3
      <4> QED BY <2>1, <2>5, <3>1, <4>1, <4>2, <4>4 DEF EndTravels
    <3> QED BY <2>4, <3>1, <3>3, <3>4
  <2> QED BY <2>1, <2>7, <2>8 DEF FinishInv
<1>3. CASE NextLayer
  <2>1. /\ layer \in 1 .. Layers /\ layer' = layer + 1 /\ inputs = <<>>
        /\ inputs' = outputs /\ outputs' = <<>> /\ UNCHANGED <<running, received, calls>>
    BY <1>3 DEF NextLayer, Collected
  <2>2. layer # 0 /\ layer' # 0 /\ NoError
    BY <2>1, PlanAssumption DEF NoError
  <2>3. Items(outputs') /\ \A n \in 1 .. Layers :
          (Pushes(n) => Pushes(n)') /\ (Finished(n) => Finished(n)')
    BY <2>1 DEF Items, Pushes, Finished
  <2>4. ASSUME Last(received) = "Item"
        PROVE  Items(inputs') /\ Items(outputs') /\ \A n \in 1 .. Layers : Pushes(n)'
    BY <2>1, <2>2, <2>3, <2>4 DEF FinishInv
  <2>5. ASSUME Last(received) = "Ended" PROVE EndTravels'
    <3>1. /\ EndsLast(outputs)
          /\ \A n \in 1 .. Layers :
               IF n < layer \/ n = layer THEN calls[n] # <<>> /\ Finished(n) ELSE Pushes(n)
      BY <2>1, <2>2, <2>5 DEF FinishInv, EndTravels
    <3>2. inputs' # <<>> /\ EndsLast(inputs')
      BY <2>1, <3>1 DEF EndsLast
    <3>3. \A n \in 1 .. Layers : n < layer' <=> n < layer \/ n = layer
      BY <2>1, PlanAssumption
    <3> QED BY <2>1, <2>3, <3>1, <3>2, <3>3 DEF EndTravels
  <2> QED BY <2>1, <2>2, <2>4, <2>5 DEF FinishInv
<1>4. CASE Deliver
  <2>1. /\ layer = Layers + 1 /\ layer' = 0 /\ running' = ~Terminal(inputs)
        /\ delivered' = delivered \o inputs /\ UNCHANGED <<received, calls>>
    BY <1>4 DEF Deliver
  <2>2. layer # 0 /\ outputs = <<>> /\ received # <<>> /\ NoError
    BY <2>1, PlanAssumption DEF PassInv, NoError
  <2>3. \A n \in 1 .. Layers : (Pushes(n) => Pushes(n)') /\ (Finished(n) => Finished(n)')
    BY <2>1 DEF Pushes, Finished
  <2>4. running' => Last(received) = "Item"
    BY <2>1 DEF Terminal, Ends
  <2>5. ASSUME Last(received) = "Ended"
        PROVE  /\ \A n \in 1 .. Layers : calls'[n] # <<>> /\ Finished(n)'
               /\ delivered' # <<>> /\ Last(delivered') = "Ended"
    <3>1. EndTravels
      BY <2>2, <2>5 DEF FinishInv
    <3>2. inputs # <<>> /\ Last(inputs) = "Ended"
      BY <2>2, <3>1 DEF EndTravels, EndsLast
    <3>3. \A n \in 1 .. Layers : n < layer
      BY <2>1, PlanAssumption
    <3>4. delivered' # <<>> /\ Last(delivered') = "Ended"
      BY <2>1, <3>2, Joined DEF PlanTypeOK
    <3> QED BY <2>1, <2>3, <3>1, <3>3, <3>4 DEF EndTravels
  <2>6. Last(received) = "Item" => \A n \in 1 .. Layers : Pushes(n)'
    BY <2>2, <2>3 DEF FinishInv
  <2> QED BY <2>1, <2>4, <2>5, <2>6 DEF FinishInv
<1>5. CASE UNCHANGED vars
  <2>1. NoError
    BY <1>5 DEF vars, NoError
  <2> QED BY <1>5, <2>1 DEF vars, FinishInv, Pushes, Finished, Items, EndTravels, EndsLast
<1> QED BY <1>1, <1>2, <1>3, <1>4, <1>5 DEF Next

-----------------------------------------------------------------------------
(***************************************************************************)
(* Loops: what FlattenSeq and PlanMakes count up to.                       *)
(***************************************************************************)
\* A nonempty set of numbers has a smallest one.
LEMMA SmallestNumber ==
  ASSUME NEW T, T \subseteq Nat, T # {}
  PROVE  \E n \in T : \A m \in T : n <= m
<1> DEFINE R == OpToRel(<, Nat)
<1>1. IsWellFoundedOn(R, Nat)
  BY NatLessThanWellFounded DEF OpToRel
<1>2. PICK n \in T : \A m \in T : ~(<<m, n>> \in R)
  BY <1>1, WFMin, Zenon
<1>3. \A m \in T : ~(m < n)
  BY <1>2 DEF OpToRel
<1> QED BY <1>3

\* Induction on the passes of a loop.
LEMMA LoopInduction ==
  ASSUME NEW N \in Nat, NEW T, 0 \in T, \A n \in 1 .. N : n - 1 \in T => n \in T
  PROVE  0 .. N \subseteq T
<1> SUFFICES ASSUME (0 .. N) \ T # {} PROVE FALSE
  OBVIOUS
<1>1. PICK n \in (0 .. N) \ T : \A m \in (0 .. N) \ T : n <= m
  <2>1. (0 .. N) \ T \subseteq Nat
    OBVIOUS
  <2> QED BY <2>1, SmallestNumber
<1>2. n # 0 /\ n \in 1 .. N /\ n - 1 \in 0 .. N /\ ~(n <= n - 1)
  BY <1>1
<1> QED BY <1>1, <1>2

\* The states of a loop of N passes.
Passes(f, N, S, base, step) ==
  /\ f \in [0 .. N -> S] /\ f[0] = base
  /\ \A n \in 1 .. N : f[n] = step[<<f[n - 1], n>>]

Steps(S, N) == [S \X (1 .. N) -> S]

\* A loop whose passes stay among given states can be run.
LEMMA LoopExists ==
  ASSUME NEW N \in Nat, NEW S, NEW base \in S, NEW step \in Steps(S, N)
  PROVE  \E f : Passes(f, N, S, base, step)
<1> USE DEF Steps
<1> DEFINE Begun(k, f) == /\ f \in [0 .. k -> S] /\ f[0] = base
                         /\ \A n \in 1 .. k : f[n] = step[<<f[n - 1], n>>]
           T == {k \in 0 .. N : \E f : Begun(k, f)}
<1>1. 0 \in T
  <2>1. Begun(0, [n \in 0 .. 0 |-> base])
    OBVIOUS
  <2>2. 0 \in 0 .. N
    OBVIOUS
  <2> HIDE DEF Begun
  <2> QED BY <2>1, <2>2
<1>2. ASSUME NEW k \in 1 .. N, k - 1 \in T PROVE k \in T
  <2>1. PICK f : Begun(k - 1, f)
    BY <1>2
  <2> DEFINE g == [n \in 0 .. k |-> IF n = k THEN step[<<f[k - 1], k>>] ELSE f[n]]
  <2>2. f[k - 1] \in S /\ step[<<f[k - 1], k>>] \in S
    BY <2>1
  <2>3. g \in [0 .. k -> S] /\ g[0] = base
    BY <2>1, <2>2
  <2>4. ASSUME NEW n \in 1 .. k PROVE g[n] = step[<<g[n - 1], n>>]
    <3>1. n - 1 \in 0 .. k /\ n - 1 # k /\ g[n - 1] = f[n - 1]
      OBVIOUS
    <3>2. CASE n = k
      BY <3>1, <3>2
    <3>3. CASE n # k
      BY <2>1, <3>1, <3>3
    <3> QED BY <3>2, <3>3
  <2>5. Begun(k, g)
    BY <2>3, <2>4
  <2> HIDE DEF g, Begun
  <2> QED BY <2>5
<1>3. N \in T
  <2> HIDE DEF T
  <2>1. 0 .. N \subseteq T
    BY <1>1, <1>2, LoopInduction
  <2> QED BY <2>1
<1>4. PICK f : Begun(N, f)
  BY <1>3
<1> QED BY <1>4 DEF Passes

\* Two loops agree as far as their passes do the same.
LEMMA SameLoop ==
  ASSUME NEW S, NEW base, NEW f, NEW g, NEW N \in Nat, NEW M \in Nat, NEW s, NEW t,
         Passes(f, N, S, base, s), Passes(g, M, S, base, t), NEW n \in 0 .. N, n <= M,
         \A i \in 1 .. n : \A x \in S : s[<<x, i>>] = t[<<x, i>>]
  PROVE  f[n] = g[n]
<1> DEFINE T == {k \in 0 .. n : f[k] = g[k]}
<1>1. n \in Nat
  OBVIOUS
<1>2. 0 \in T
  BY <1>1 DEF Passes
<1>3. ASSUME NEW k \in 1 .. n, k - 1 \in T PROVE k \in T
  <2>1. k \in 1 .. N /\ k \in 1 .. M /\ k \in 0 .. n /\ k - 1 \in 0 .. N /\ f[k - 1] = g[k - 1]
    BY <1>1, <1>3
  <2>2. f[k] = s[<<f[k - 1], k>>] /\ g[k] = t[<<g[k - 1], k>>] /\ f[k - 1] \in S
    BY <2>1 DEF Passes
  <2> QED BY <2>1, <2>2
<1> HIDE DEF T
<1>4. 0 .. n \subseteq T
  BY <1>1, <1>2, <1>3, LoopInduction
<1>5. n \in T
  BY <1>1, <1>4
<1> QED BY <1>5 DEF T

Events == Seq(SourceEventKind)

\* FlattenSeq joins one sequence after the other.
Joins(made) == [p \in Events \X (1 .. Len(made)) |-> p[1] \o made[p[2]]]

IsFlattening(f, made) == Passes(f, Len(made), Events, <<>>, Joins(made))

LEMMA FlattenLoop ==
  ASSUME NEW made \in Seq(Events)
  PROVE  \E f : IsFlattening(f, made) /\ FlattenSeq(made) = f[Len(made)]
<1> DEFINE N == Len(made)
           Solves(f) ==
             f = [i \in 1 .. N |-> IF i = 1 THEN made[i] ELSE f[i - 1] \o made[i]]
<1>1. N \in Nat /\ \A i \in 1 .. N : made[i] \in Events
  OBVIOUS
<1>2. <<>> \in Events /\ \A x \in Events, y \in Events : x \o y \in Events /\ <<>> \o y = y
  BY ConcatProperties, ConcatEmptySeq DEF Events
<1>3. Joins(made) \in Steps(Events, N)
  <2>1. \A p \in Events \X (1 .. N) : p[1] \o made[p[2]] \in Events
    BY <1>1, <1>2
  <2> QED BY <2>1 DEF Joins, Steps
<1>4. PICK g : Passes(g, N, Events, <<>>, Joins(made))
  <2> HIDE DEF N
  <2> QED BY <1>1, <1>2, <1>3, LoopExists
<1>5. \A i \in 1 .. N : g[i] = g[i - 1] \o made[i]
  <2>1. \A i \in 1 .. N : i - 1 \in 0 .. N
    BY <1>1
  <2>2. \A i \in 1 .. N : g[i - 1] \in Events
    BY <1>4, <2>1 DEF Passes
  <2> QED BY <1>4, <2>2 DEF Joins, Passes
<1>6. CASE N = 0
  <2>1. made = <<>> /\ FlattenSeq(made) = <<>>
    BY <1>6 DEF FlattenSeq
  <2>2. g[N] = <<>>
    BY <1>4, <1>6 DEF Passes
  <2> QED BY <1>4, <2>1, <2>2 DEF IsFlattening
<1>7. CASE N # 0
  <2> DEFINE h == [i \in 1 .. N |-> g[i]]
             f == CHOOSE f : Solves(f)
             F == [i \in 0 .. N |-> IF i = 0 THEN <<>> ELSE f[i]]
  <2>1. Solves(h)
    <3>1. ASSUME NEW i \in 1 .. N
          PROVE  h[i] = IF i = 1 THEN made[i] ELSE h[i - 1] \o made[i]
      <4>1. CASE i = 1
        <5>1. i - 1 = 0 /\ g[i] = g[i - 1] \o made[i] /\ made[i] \in Events
          <6>1. i - 1 = 0
            BY <4>1
          <6> HIDE DEF N
          <6> QED BY <1>1, <1>5, <6>1
        <5>2. g[0] = <<>>
          BY <1>4 DEF Passes
        <5>3. g[i] = made[i]
          BY <1>2, <5>1, <5>2
        <5> QED BY <4>1, <5>3
      <4>2. CASE i # 1
        <5>1. i - 1 \in 1 .. N
          BY <1>1, <4>2
        <5> QED BY <1>5, <4>2, <5>1
      <4> QED BY <4>1, <4>2
    <3> QED BY <3>1
  <2>2. Solves(f)
    <3> HIDE DEF Solves
    <3> QED BY <2>1
  <2>3. FlattenSeq(made) = f[N]
    BY <1>7 DEF FlattenSeq
  <2> HIDE DEF f
  <2>4. \A i \in 1 .. N : f[i] = IF i = 1 THEN made[i] ELSE f[i - 1] \o made[i]
    BY <2>2
  <2>5. F[0] = <<>> /\ F[N] = f[N] /\ DOMAIN F = 0 .. N
    BY <1>1, <1>7
  <2>6. \A i \in 1 .. N : F[i] = F[i - 1] \o made[i]
    <3> SUFFICES ASSUME NEW i \in 1 .. N PROVE F[i] = F[i - 1] \o made[i]
      OBVIOUS
    <3>1. F[i] = f[i] /\ i - 1 \in 0 .. N
      BY <1>1
    <3>2. CASE i = 1
      <4>1. i - 1 = 0 /\ f[i] = made[i] /\ made[i] \in Events
        BY <1>1, <2>4, <3>2
      <4>2. F[i - 1] = <<>>
        BY <2>5, <4>1
      <4> HIDE DEF F
      <4> QED BY <1>2, <3>1, <4>1, <4>2
    <3>3. CASE i # 1
      <4>1. i - 1 # 0 /\ F[i - 1] = f[i - 1]
        BY <1>1, <3>1, <3>3
      <4>2. f[i] = f[i - 1] \o made[i]
        <5> HIDE DEF N
        <5> QED BY <2>4, <3>3
      <4> HIDE DEF F
      <4> QED BY <3>1, <4>1, <4>2
    <3> QED BY <3>2, <3>3
  <2> HIDE DEF F
  <2>7. \A i \in 0 .. N : F[i] \in Events
    <3> DEFINE T == {i \in 0 .. N : F[i] \in Events}
    <3>1. 0 \in T
      BY <1>1, <1>2, <2>5
    <3>2. \A i \in 1 .. N : i - 1 \in T => i \in T
      <4> SUFFICES ASSUME NEW i \in 1 .. N, F[i - 1] \in Events PROVE F[i] \in Events
        BY <1>1
      <4>1. F[i] = F[i - 1] \o made[i] /\ made[i] \in Events
        BY <1>1, <2>6
      <4> QED BY <1>2, <4>1
    <3> HIDE DEF T
    <3>3. 0 .. N \subseteq T
      BY <1>1, <3>1, <3>2, LoopInduction
    <3> QED BY <3>3 DEF T
  <2>8. F \in [0 .. N -> Events]
    <3>1. F = [i \in 0 .. N |-> F[i]]
      BY DEF F
    <3> QED BY <2>7, <3>1
  <2>9. \A i \in 1 .. N : F[i] = Joins(made)[<<F[i - 1], i>>]
    <3>1. \A i \in 1 .. N : i - 1 \in 0 .. N
      BY <1>1
    <3> QED BY <2>6, <2>7, <3>1 DEF Joins
  <2> QED BY <2>3, <2>5, <2>8, <2>9 DEF IsFlattening, Passes
<1> QED BY <1>6, <1>7

\* Nothing is joined to nothing.
LEMMA FlattenNothing == FlattenSeq(<<>>) = <<>>
BY DEF FlattenSeq

\* One sequence more.
LEMMA FlattenOneMore ==
  ASSUME NEW made \in Seq(Events), NEW output \in Events
  PROVE  /\ FlattenSeq(made) \in Events
         /\ FlattenSeq(Append(made, output)) = FlattenSeq(made) \o output
<1> DEFINE n == Len(made)
           more == Append(made, output)
<1>1. /\ n \in Nat /\ more \in Seq(Events) /\ Len(more) = n + 1 /\ more[n + 1] = output
      /\ \A i \in 1 .. n : more[i] = made[i]
  BY AppendProperties
<1>2. PICK f : IsFlattening(f, made) /\ FlattenSeq(made) = f[n]
  BY FlattenLoop
<1> HIDE DEF more
<1>3. PICK g : IsFlattening(g, more) /\ FlattenSeq(more) = g[n + 1]
  BY <1>1, FlattenLoop
<1>4. f[n] \in Events
  BY <1>1, <1>2 DEF IsFlattening, Passes
<1>5. f[n] = g[n]
  <2>1. \A i \in 1 .. n : \A x \in Events : Joins(made)[<<x, i>>] = Joins(more)[<<x, i>>]
    <3>1. \A i \in 1 .. n : i \in 1 .. Len(more)
      BY <1>1
    <3> QED BY <1>1, <3>1 DEF Joins
  <2>2. n \in 0 .. n /\ n <= n + 1 /\ n + 1 \in Nat
    BY <1>1
  <2> HIDE DEF n
  <2>3. Passes(f, n, Events, <<>>, Joins(made)) /\ Passes(g, n + 1, Events, <<>>, Joins(more))
    BY <1>1, <1>2, <1>3 DEF IsFlattening, n
  <2> QED BY <1>1, <2>1, <2>2, <2>3, SameLoop
<1>6. g[n + 1] = g[n] \o output
  <2>1. n + 1 \in 1 .. Len(more) /\ (n + 1) - 1 = n
    BY <1>1
  <2>2. g[n + 1] = Joins(more)[<<g[n], n + 1>>]
    BY <1>3, <2>1 DEF IsFlattening, Passes
  <2> QED BY <1>1, <1>4, <1>5, <2>1, <2>2 DEF Joins
<1> QED BY <1>2, <1>3, <1>4, <1>5, <1>6 DEF more

\* One output for each event, as FramedLayer::map_event may make it.
MapsEach(made, events) ==
  /\ made \in Seq(Events) /\ Len(made) = Len(events)
  /\ \A i \in 1 .. Len(events) : made[i] \in LayerOutputs(events[i])

\* A Layer joins such outputs.
LEMMA ThroughJoins ==
  ASSUME NEW events \in Events, NEW out
  PROVE  out \in Through(events) <=> \E made : MapsEach(made, events) /\ out = FlattenSeq(made)
<1> DEFINE Made == UNION {LayerOutputs(k) : k \in SourceEventKind}
           All == {o \in [DOMAIN events -> Made] :
                     \A i \in DOMAIN events : o[i] \in LayerOutputs(events[i])}
<1>1. DOMAIN events = 1 .. Len(events) /\ Len(events) \in Nat
  BY DEF Events
<1>2. \A i \in 1 .. Len(events) : events[i] \in SourceEventKind
  BY <1>1 DEF Events
<1>3. \A k \in SourceEventKind : LayerOutputs(k) \subseteq Events /\ LayerOutputs(k) \subseteq Made
  BY LayerMakes DEF Events
<1>4. ASSUME NEW made \in All PROVE MapsEach(made, events)
  <2>1. made \in [1 .. Len(events) -> Made]
    BY <1>1, <1>4
  <2>2. \A i \in 1 .. Len(events) : made[i] \in LayerOutputs(events[i]) /\ made[i] \in Events
    BY <1>1, <1>2, <1>3, <1>4
  <2> HIDE DEF Made, All
  <2>3. made \in [1 .. Len(events) -> Events]
    BY <2>1, <2>2
  <2>4. made \in Seq(Events) /\ Len(made) = Len(events)
    BY <1>1, <2>3
  <2> QED BY <2>2, <2>4 DEF MapsEach
<1>5. ASSUME NEW made, MapsEach(made, events) PROVE made \in All
  <2>1. made \in [1 .. Len(events) -> Events]
    BY <1>1, <1>5 DEF MapsEach
  <2>2. \A i \in 1 .. Len(events) : made[i] \in LayerOutputs(events[i])
    BY <1>5 DEF MapsEach
  <2>3. \A i \in 1 .. Len(events) : made[i] \in Made
    <3> HIDE DEF Made
    <3> QED BY <1>2, <1>3, <2>2
  <2>4. made \in [DOMAIN events -> Made]
    <3> HIDE DEF Made
    <3> QED BY <1>1, <2>1, <2>3
  <2> HIDE DEF Made
  <2> QED BY <1>1, <2>2, <2>4
<1>6. Through(events) = {FlattenSeq(made) : made \in All}
  BY DEF Through
<1> HIDE DEF All
<1> QED BY <1>4, <1>5, <1>6

\* The empty output of no event.
LEMMA ThroughNothing == <<>> \in Through(<<>>)
<1>1. <<>> \in Events /\ MapsEach(<<>>, <<>>)
  BY DEF Events, MapsEach
<1> QED BY <1>1, FlattenNothing, ThroughJoins

\* One event more.
LEMMA ThroughOneMore ==
  ASSUME NEW events \in Events, NEW kind \in SourceEventKind,
         NEW out \in Through(events), NEW output \in LayerOutputs(kind)
  PROVE  out \o output \in Through(Append(events, kind))
<1> DEFINE n == Len(events)
           more == Append(events, kind)
<1>1. /\ n \in Nat /\ more \in Events /\ Len(more) = n + 1 /\ more[n + 1] = kind
      /\ \A i \in 1 .. n : more[i] = events[i]
  BY AppendProperties DEF Events
<1>2. PICK made : MapsEach(made, events) /\ out = FlattenSeq(made)
  BY ThroughJoins
<1>3. made \in Seq(Events) /\ Len(made) = n /\ output \in Events
  BY <1>2, LayerMakes DEF MapsEach, Events
<1> DEFINE made2 == Append(made, output)
<1>4. /\ made2 \in Seq(Events) /\ Len(made2) = n + 1 /\ made2[n + 1] = output
      /\ \A i \in 1 .. n : made2[i] = made[i]
  BY <1>1, <1>3, AppendProperties
<1>5. FlattenSeq(made2) = out \o output
  BY <1>2, <1>3, FlattenOneMore
<1> HIDE DEF more, made2
<1>6. ASSUME NEW i \in 1 .. Len(more) PROVE made2[i] \in LayerOutputs(more[i])
  <2>1. i = n + 1 \/ i \in 1 .. n
    BY <1>1
  <2>2. CASE i = n + 1
    BY <1>1, <1>4, <2>2
  <2>3. CASE i \in 1 .. n
    <3>1. made2[i] = made[i] /\ more[i] = events[i]
      BY <1>1, <1>4, <2>3
    <3>2. made[i] \in LayerOutputs(events[i])
      BY <1>2, <2>3 DEF MapsEach
    <3> QED BY <3>1, <3>2
  <2> QED BY <2>1, <2>2, <2>3
<1>7. MapsEach(made2, more)
  BY <1>1, <1>4, <1>6 DEF MapsEach
<1>8. out \o output \in Through(more)
  BY <1>1, <1>5, <1>7, ThroughJoins
<1> QED BY <1>8 DEF more

\* A Layer makes events.
LEMMA ThroughEvents ==
  ASSUME NEW events \in Events
  PROVE  Through(events) \subseteq Events
<1> SUFFICES ASSUME NEW out \in Through(events) PROVE out \in Events
  OBVIOUS
<1>1. PICK made : MapsEach(made, events) /\ out = FlattenSeq(made)
  BY ThroughJoins
<1>2. <<>> \in Events
  BY DEF Events
<1> QED BY <1>1, <1>2, FlattenOneMore DEF MapsEach

\* PlanMakes takes one Layer after the other.
EachLayer(n) == [p \in (SUBSET Events) \X (1 .. n) |-> UNION {Through(events) : events \in p[1]}]

IsPlan(f, n, kind) == Passes(f, n, SUBSET Events, {<<kind>>}, EachLayer(n))

LEMMA PlanLoop ==
  ASSUME NEW N \in Nat, NEW kind \in SourceEventKind
  PROVE  \E f : IsPlan(f, N, kind) /\ PlanMakes(N, kind) = f[N]
<1> DEFINE S == SUBSET Events
           Next1(x) == UNION {Through(events) : events \in x}
           Solves(f) ==
             f = [n \in 0 .. N |-> IF n = 0 THEN {<<kind>>}
                                   ELSE UNION {Through(events) : events \in f[n - 1]}]
<1>1. {<<kind>>} \in S /\ \A x \in S : Next1(x) \in S
  BY ThroughEvents DEF Events
<1>2. EachLayer(N) \in Steps(S, N)
  <2>1. \A p \in S \X (1 .. N) : Next1(p[1]) \in S
    <3> HIDE DEF S, Next1
    <3> QED BY <1>1
  <2> QED BY <2>1 DEF EachLayer, Steps
<1>3. PICK g : Passes(g, N, S, {<<kind>>}, EachLayer(N))
  <2> HIDE DEF S
  <2> QED BY <1>1, <1>2, LoopExists
<1>4. \A n \in 1 .. N : g[n] = Next1(g[n - 1])
  <2>1. \A n \in 1 .. N : n - 1 \in 0 .. N /\ g[n - 1] \in S
    BY <1>3 DEF Passes
  <2>2. \A n \in 1 .. N : g[n] = EachLayer(N)[<<g[n - 1], n>>]
    BY <1>3 DEF Passes
  <2> QED BY <2>1, <2>2 DEF EachLayer
<1>5. Solves(g)
  <2> DEFINE h == [n \in 0 .. N |-> IF n = 0 THEN {<<kind>>}
                                   ELSE UNION {Through(events) : events \in g[n - 1]}]
  <2>1. ASSUME NEW n \in 0 .. N PROVE g[n] = h[n]
    <3>1. n = 0 \/ n \in 1 .. N
      OBVIOUS
    <3>2. CASE n = 0
      BY <1>3, <3>2 DEF Passes
    <3>3. CASE n \in 1 .. N
      <4>1. n # 0
        BY <3>3
      <4> QED BY <1>4, <3>3, <4>1
    <3> QED BY <3>1, <3>2, <3>3
  <2>2. DOMAIN h = 0 .. N /\ h = [n \in 0 .. N |-> h[n]]
    OBVIOUS
  <2>3. g = h
    <3> HIDE DEF h
    <3> QED BY <1>3, <2>1, <2>2 DEF Passes
  <2> QED BY <2>3
<1> DEFINE f == CHOOSE f : Solves(f)
<1>6. PlanMakes(N, kind) = f[N]
  BY DEF PlanMakes
<1>7. Solves(f)
  <2> HIDE DEF Solves
  <2> QED BY <1>5
<1> HIDE DEF f
<1>8. f[0] = {<<kind>>} /\ \A n \in 1 .. N : f[n] = Next1(f[n - 1])
  <2>1. \A n \in 0 .. N : f[n] = IF n = 0 THEN {<<kind>>} ELSE Next1(f[n - 1])
    BY <1>7
  <2>2. 0 \in 0 .. N /\ \A n \in 1 .. N : n \in 0 .. N /\ n # 0
    OBVIOUS
  <2> HIDE DEF Next1
  <2> QED BY <2>1, <2>2
<1>9. \A n \in 0 .. N : f[n] \in S
  <2> DEFINE T == {n \in 0 .. N : f[n] \in S}
  <2> HIDE DEF S, Next1
  <2>1. 0 \in T
    BY <1>1, <1>8
  <2>2. \A n \in 1 .. N : n - 1 \in T => n \in T
    BY <1>1, <1>8
  <2> HIDE DEF T
  <2>3. 0 .. N \subseteq T
    BY <2>1, <2>2, LoopInduction
  <2> QED BY <2>3 DEF T
<1>10. f \in [0 .. N -> S]
  <2>1. f = [n \in 0 .. N |-> f[n]]
    BY <1>7
  <2> HIDE DEF S
  <2> QED BY <1>9, <2>1
<1>11. \A n \in 1 .. N : f[n] = EachLayer(N)[<<f[n - 1], n>>]
  <2>1. \A n \in 1 .. N : n - 1 \in 0 .. N
    OBVIOUS
  <2>2. \A n \in 1 .. N : f[n - 1] \in S
    <3> HIDE DEF S
    <3> QED BY <1>9, <2>1
  <2> QED BY <1>8, <2>2 DEF EachLayer
<1>12. IsPlan(f, N, kind)
  BY <1>8, <1>10, <1>11 DEF IsPlan, Passes
<1> QED BY <1>6, <1>12

\* No Layer makes the event itself, and one Layer more makes of all that those
\* below may make what it makes of it.
LEMMA PlanOneMore ==
  ASSUME NEW n \in Nat, NEW kind \in SourceEventKind
  PROVE  /\ PlanMakes(n, kind) \subseteq Events
         /\ n = 0 => PlanMakes(n, kind) = {<<kind>>}
         /\ PlanMakes(n + 1, kind) = UNION {Through(events) : events \in PlanMakes(n, kind)}
<1> DEFINE S == SUBSET Events
<1>1. PICK f : IsPlan(f, n, kind) /\ PlanMakes(n, kind) = f[n]
  BY PlanLoop
<1>2. PICK g : IsPlan(g, n + 1, kind) /\ PlanMakes(n + 1, kind) = g[n + 1]
  BY PlanLoop
<1>3. f[n] \in S /\ f[0] = {<<kind>>}
  BY <1>1 DEF IsPlan, Passes
<1>4. f[n] = g[n]
  <2>1. \A i \in 1 .. n : \A x \in S : EachLayer(n)[<<x, i>>] = EachLayer(n + 1)[<<x, i>>]
    <3>1. \A i \in 1 .. n : i \in 1 .. n + 1
      OBVIOUS
    <3> QED BY <3>1 DEF EachLayer
  <2>2. n \in 0 .. n /\ n <= n + 1 /\ n + 1 \in Nat
    OBVIOUS
  <2>3. Passes(f, n, S, {<<kind>>}, EachLayer(n)) /\ Passes(g, n + 1, S, {<<kind>>}, EachLayer(n + 1))
    BY <1>1, <1>2 DEF IsPlan
  <2> HIDE DEF S
  <2> QED BY <2>1, <2>2, <2>3, SameLoop
<1>5. g[n + 1] = UNION {Through(events) : events \in g[n]}
  <2>1. n + 1 \in 1 .. n + 1 /\ (n + 1) - 1 = n
    OBVIOUS
  <2>2. g[n + 1] = EachLayer(n + 1)[<<g[n], n + 1>>]
    BY <1>2, <2>1 DEF IsPlan, Passes
  <2> QED BY <1>3, <1>4, <2>1, <2>2 DEF EachLayer
<1> QED BY <1>1, <1>2, <1>3, <1>4, <1>5

\* Events a Layer was given: the mapped ones, then those still to map.
LEMMA MappedAndLeft ==
  ASSUME NEW done \in Events, NEW left \in Events
  PROVE  /\ done \o left \in Events /\ done \in Prefixes(done \o left)
         /\ <<>> \o left = left /\ done \o <<>> = done
         /\ left # <<>> =>
              /\ Append(done, Head(left)) \in Events
              /\ Append(done, Head(left)) \o Tail(left) = done \o left
<1> USE DEF Events
<1>1. /\ done \o left \in Events /\ Len(done \o left) = Len(done) + Len(left)
      /\ \A i \in 1 .. Len(done) + Len(left) :
           (done \o left)[i] = IF i <= Len(done) THEN done[i] ELSE left[i - Len(done)]
  BY ConcatProperties
<1>2. Len(done) \in Nat /\ Len(left) \in Nat
  OBVIOUS
<1>3. done \in Prefixes(done \o left)
  <2> DEFINE both == done \o left
             part == SubSeq(both, 1, Len(done))
  <2>1. \A i \in 1 .. Len(done) : both[i] = done[i] /\ both[i] \in SourceEventKind
    BY <1>1, <1>2
  <2>2. Len(done) \in 0 .. Len(both)
    BY <1>1, <1>2
  <2> HIDE DEF both
  <2>3. /\ part \in Seq(SourceEventKind) /\ Len(part) = Len(done)
        /\ \A i \in 1 .. Len(done) : part[i] = both[i]
    BY <1>2, <2>1, SubSeqProperties
  <2>4. part = done
    <3> HIDE DEF part
    <3> QED BY <2>1, <2>3
  <2>5. part \in Prefixes(both)
    BY <2>2 DEF Prefixes
  <2> QED BY <2>4, <2>5 DEF both
<1>4. ASSUME left # <<>>
      PROVE  /\ Append(done, Head(left)) \in Events
             /\ Append(done, Head(left)) \o Tail(left) = done \o left
  <2>1. Head(left) \in SourceEventKind /\ Tail(left) \in Seq(SourceEventKind)
    BY <1>4, Oldest
  <2>2. /\ Append(done, Head(left)) = done \o <<Head(left)>>
        /\ left = <<Head(left)>> \o Tail(left)
    BY <1>4, <2>1
  <2>3. (done \o <<Head(left)>>) \o Tail(left) = done \o (<<Head(left)>> \o Tail(left))
    BY <2>1, ConcatAssociative
  <2> QED BY <2>1, <2>2, <2>3
<1> QED BY <1>1, <1>3, <1>4, ConcatEmptySeq

\* A prefix of events is a sequence of events.
LEMMA PrefixEvents ==
  ASSUME NEW events \in Events, NEW done \in Prefixes(events)
  PROVE  done \in Events
<1>1. PICK l \in 0 .. Len(events) : done = SubSeq(events, 1, l)
  BY DEF Prefixes
<1>2. \A i \in 1 .. l : events[i] \in SourceEventKind
  BY <1>1 DEF Events
<1> QED BY <1>1, <1>2, SubSeqProperties DEF Events

\* A Layer makes of the events of the one below what PlanMakes has.
LEMMA LayerStep ==
  ASSUME PlanTypeOK, PassInv, LayerInv, [Next]_vars
  PROVE  LayerInv'
<1> USE PlanAssumption
<1>1. inputs \in Events /\ outputs \in Events /\ <<>> \in Events /\ layer \in 0 .. Layers + 1
  BY DEF PlanTypeOK, Events
<1>2. ASSUME layer # 0 PROVE Last(received) \in SourceEventKind
  BY <1>2, LastOf DEF PlanTypeOK, PassInv
<1> DEFINE Given(n, kind, left, made) ==
             \E events \in PlanMakes(n, kind) : \E done \in Prefixes(events) :
               events = done \o left /\ made \in Through(done)
<1>3. ASSUME NEW n \in Nat, NEW kind \in SourceEventKind, NEW events \in PlanMakes(n, kind)
      PROVE  Given(n, kind, events, <<>>)
  <2>1. events \in Events
    BY PlanOneMore
  <2> QED BY <1>1, <2>1, MappedAndLeft, ThroughNothing
<1>4. LayerInv = /\ layer \in 1 .. Layers => Given(layer - 1, Last(received), inputs, outputs)
                 /\ layer = Layers + 1 => inputs \in PlanMakes(Layers, Last(received))
  BY DEF LayerInv
<1>5. ASSUME layer' \in 1 .. Layers => Given(layer' - 1, Last(received'), inputs', outputs'),
             layer' = Layers + 1 => inputs' \in PlanMakes(Layers, Last(received'))
      PROVE  LayerInv'
  BY <1>5 DEF LayerInv
<1> HIDE DEF Given
<1>6. ASSUME NEW kind \in SourceEventKind, Accept(kind) PROVE LayerInv'
  <2>1. layer' = 1 /\ inputs' = <<kind>> /\ outputs' = <<>> /\ Last(received') = kind
    <3>1. received \in Seq(SourceEventKind) /\ received' = Append(received, kind)
      BY <1>6 DEF Accept, PlanTypeOK
    <3>2. Last(Append(received, kind)) = kind
      BY <3>1 DEF Last
    <3> QED BY <1>6, <3>1, <3>2 DEF Accept
  <2>2. <<kind>> \in PlanMakes(0, kind)
    BY PlanOneMore
  <2>3. Given(0, kind, <<kind>>, <<>>)
    BY <1>3, <2>2
  <2>4. layer' - 1 = 0 /\ (layer' = Layers + 1 => Layers = 0)
    BY <2>1
  <2> QED BY <1>5, <2>1, <2>2, <2>3, <2>4
<1>7. CASE MapEvent
  <2>1. /\ layer \in 1 .. Layers /\ inputs # <<>> /\ inputs' = Tail(inputs)
        /\ layer' = layer /\ received' = received
    BY <1>7 DEF MapEvent
  <2>2. PICK output \in LayerOutputs(Head(inputs)) : outputs' = outputs \o output
    BY <1>7 DEF MapEvent
  <2>3. Head(inputs) \in SourceEventKind
    BY <1>1, <2>1, Oldest DEF Events
  <2>4. layer - 1 \in Nat /\ layer # Layers + 1 /\ layer # 0
    BY <2>1
  <2>5. Given(layer - 1, Last(received), inputs, outputs)
    BY <1>4, <2>1
  <2>6. PICK events \in PlanMakes(layer - 1, Last(received)) : \E done \in Prefixes(events) :
          events = done \o inputs /\ outputs \in Through(done)
    BY <2>5 DEF Given
  <2>7. PICK done \in Prefixes(events) : events = done \o inputs /\ outputs \in Through(done)
    BY <2>6
  <2>8. events \in Events /\ done \in Events
    BY <1>2, <2>4, <2>6, <2>7, PlanOneMore, PrefixEvents
  <2> DEFINE more == Append(done, Head(inputs))
  <2>9. more \in Events /\ more \o Tail(inputs) = events /\ Tail(inputs) \in Events
    BY <1>1, <2>1, <2>7, <2>8, MappedAndLeft, Oldest DEF Events
  <2>10. outputs \o output \in Through(more)
    BY <2>2, <2>3, <2>7, <2>8, ThroughOneMore
  <2> HIDE DEF more
  <2>11. more \in Prefixes(more \o Tail(inputs))
    BY <2>9, MappedAndLeft
  <2>12. Given(layer - 1, Last(received), Tail(inputs), outputs \o output)
    BY <2>6, <2>9, <2>10, <2>11 DEF Given
  <2> QED BY <1>5, <2>1, <2>2, <2>4, <2>12
<1>8. CASE NextLayer
  <2>1. /\ layer \in 1 .. Layers /\ inputs = <<>> /\ layer' = layer + 1
        /\ inputs' = outputs /\ outputs' = <<>> /\ received' = received
    BY <1>8 DEF NextLayer, Collected
  <2>2. layer - 1 \in Nat /\ (layer - 1) + 1 = layer /\ layer # 0 /\ layer \in Nat
        /\ layer' - 1 = layer /\ (layer' = Layers + 1 => layer = Layers)
    BY <2>1
  <2>3. PICK events \in PlanMakes(layer - 1, Last(received)) : \E done \in Prefixes(events) :
          events = done \o <<>> /\ outputs \in Through(done)
    BY <1>4, <2>1 DEF Given
  <2>4. events \in Events /\ \A done \in Prefixes(events) : done \in Events
    BY <1>2, <2>2, <2>3, PlanOneMore, PrefixEvents
  <2>5. outputs \in Through(events)
    BY <1>1, <2>3, <2>4, MappedAndLeft
  <2>6. outputs \in PlanMakes(layer, Last(received))
    <3>1. PlanMakes((layer - 1) + 1, Last(received))
            = UNION {Through(e) : e \in PlanMakes(layer - 1, Last(received))}
      BY <1>2, <2>2, PlanOneMore
    <3> QED BY <2>2, <2>3, <2>5, <3>1
  <2>7. Given(layer, Last(received), outputs, <<>>)
    BY <1>2, <1>3, <2>2, <2>6
  <2> QED BY <1>5, <2>1, <2>2, <2>6, <2>7
<1>9. CASE Deliver
  <2>1. layer' = 0
    BY <1>9 DEF Deliver
  <2>2. layer' \notin 1 .. Layers /\ layer' # Layers + 1
    BY <2>1
  <2> QED BY <1>5, <2>2
<1>10. CASE UNCHANGED vars
  BY <1>10 DEF vars, LayerInv
<1> QED BY <1>6, <1>7, <1>8, <1>9, <1>10 DEF Next

-----------------------------------------------------------------------------
\* What is true of a plan in every state (SourcePlan::map_event, and the
\* runtimes' process_source_event around it).
THEOREM PlanInvariant == Spec => []PlanInv
<1>1. Init => PlanInv
  <2> SUFFICES ASSUME Init PROVE PlanInv
    OBVIOUS
  <2>1. PlanTypeOK
    BY PlanAssumption DEF Init, PlanTypeOK
  <2>2. PassInv /\ \A n \in 1 .. Layers : Pushes(n) /\ calls[n] = <<>>
    BY DEF Init, PassInv, Pushes
  <2>3. SpentInv
    <3>1. Layers > 0 => 1 \in 1 .. Layers
      BY PlanAssumption
    <3> QED BY <2>2, <3>1 DEF Init, SpentInv, Spent, Range
  <2>4. FinishInv
    BY <2>2 DEF Init, FinishInv
  <2> QED BY <2>1, <2>2, <2>3, <2>4 DEF PlanInv
<1>2. PlanInv /\ [Next]_vars => PlanInv'
  BY PlanTypes, PassStep, SpentStep, FinishStep DEF PlanInv
<1> QED BY <1>1, <1>2, PTL DEF Spec

\* The decoder next to the Source is not called again behind its failure or
\* its finish, and is not finished when the Source failed (Decoder's contract,
\* src/src/lib.rs).
THEOREM DecoderOfSourceSpent == Spec => []InnermostDecoderSpent
<1>1. PlanInv => InnermostDecoderSpent
  BY DEF PlanInv, SpentInv, InnermostDecoderSpent
<1> QED BY <1>1, PlanInvariant, PTL

\* A Source that ends normally while no decoder fails finishes each Layer's
\* decoder once, behind its last push, and the Component hears that it ended.
THEOREM NormalEndFinishes == Spec => []NormalEndFinishesAll
<1>1. PlanInv => NormalEndFinishesAll
  BY DEF PlanInv, FinishInv, NoError, Finished, NormalEndFinishesAll
<1> QED BY <1>1, PlanInvariant, PTL

\* What a plan delivers of one raw event is what SourceLayers says it may make
\* of it, as the models of both runtimes take it: SourcePlan::map_event, one
\* event and one Layer at a time, against PlanMakes as a whole.
THEOREM LayersAreMeant == Spec => MakesWhatLayersSay
<1>1. Init => LayerInv
  <2> SUFFICES ASSUME Init PROVE LayerInv
    OBVIOUS
  <2>1. layer = 0 /\ layer \notin 1 .. Layers /\ layer # Layers + 1
    BY PlanAssumption DEF Init
  <2> QED BY <2>1 DEF LayerInv
<1>2. PlanInv /\ LayerInv /\ [Next]_vars => LayerInv'
  BY LayerStep DEF PlanInv
<1>3. LayerInv /\ [Next]_vars =>
        [layer = Layers + 1 /\ layer' = 0 => inputs \in PlanMakes(Layers, Last(received))]_vars
  BY DEF LayerInv
<1> QED BY <1>1, <1>2, <1>3, PlanInvariant, PTL DEF Spec, MakesWhatLayersSay

-----------------------------------------------------------------------------
(***************************************************************************)
(* What the runtimes' models assume of the plans they are given.           *)
(***************************************************************************)
\* A plan of at most one Layer passes an event on, or makes what one call of
\* FramedLayer::map_event makes.
LEMMA OneLayerMakes ==
  ASSUME NEW layers \in {0, 1}, NEW kind \in SourceEventKind, NEW out \in PlanMakes(layers, kind)
  PROVE  out = <<kind>> \/ out \in LayerOutputs(kind)
<1>1. PlanMakes(0, kind) = {<<kind>>}
  BY PlanOneMore
<1>2. CASE layers = 0
  BY <1>1, <1>2
<1>3. CASE layers = 1
  <2>1. out \in Through(<<kind>>)
    <3>1. PlanMakes(0 + 1, kind) = UNION {Through(events) : events \in PlanMakes(0, kind)}
      BY PlanOneMore
    <3> QED BY <1>1, <1>3, <3>1
  <2>2. <<kind>> \in Events /\ Len(<<kind>>) = 1 /\ <<kind>>[1] = kind
    BY DEF Events
  <2>3. PICK made : MapsEach(made, <<kind>>) /\ out = FlattenSeq(made)
    BY <2>1, <2>2, ThroughJoins
  <2>4. made \in Seq(Events) /\ Len(made) = 1 /\ made[1] \in LayerOutputs(kind)
    BY <2>2, <2>3 DEF MapsEach
  <2>5. made[1] \in Events /\ <<>> \in Seq(Events)
    BY <2>4
  <2>6. made = Append(<<>>, made[1])
    BY <2>4
  <2>7. out = <<>> \o made[1]
    BY <2>3, <2>5, <2>6, FlattenOneMore, FlattenNothing
  <2> QED BY <2>4, <2>5, <2>7, ConcatEmptySeq DEF Events
<1> QED BY <1>2, <1>3

\* Whatever the frames of a call, the plan of a Source with at most one Layer is
\* such as WorkAssumption and PlansEndLast ask of PlanOutputs: an end is the last
\* event it makes of a raw one, and it makes an end of every raw end.
THEOREM OneLayerEndsLast ==
  ASSUME NEW layers \in {0, 1}
  PROVE  /\ Plan(layers) \in [BOOLEAN -> SUBSET Seq(BOOLEAN)]
         /\ \A terminal \in BOOLEAN : \A output \in Plan(layers)[terminal] :
              /\ \A i \in DOMAIN output : output[i] => i = Len(output)
              /\ terminal => output # <<>> /\ output[Len(output)]
<1> DEFINE Marks(out) == [i \in DOMAIN out |-> Ends(out[i])]
           Made(terminal) ==
             UNION {PlanMakes(layers, kind) : kind \in {k \in SourceEventKind : Ends(k) = terminal}}
           Sound(terminal, output) ==
             /\ output \in Seq(BOOLEAN)
             /\ \A i \in DOMAIN output : output[i] => i = Len(output)
             /\ terminal => output # <<>> /\ output[Len(output)]
<1>1. ASSUME NEW terminal \in BOOLEAN, NEW out \in Made(terminal)
      PROVE  Sound(terminal, Marks(out))
  <2>1. PICK kind \in SourceEventKind : Ends(kind) = terminal /\ out \in PlanMakes(layers, kind)
    BY <1>1
  <2>2. /\ out \in Seq(SourceEventKind)
        /\ \/ out = <<kind>> \/ out = <<"Failed">>
           \/ kind = "Item" /\ Items(out)
           \/ kind = "Ended" /\ EndsLast(out)
        /\ kind = "Failed" => out = <<"Failed">>
    <3>1. CASE out = <<kind>>
      BY <3>1
    <3>2. CASE out \in LayerOutputs(kind)
      BY <2>1, <3>2, LayerMakes
    <3> QED BY <2>1, <3>1, <3>2, OneLayerMakes
  <2>3. Len(out) \in Nat /\ DOMAIN out = 1 .. Len(out)
    BY <2>2
  <2>4. \A i \in 1 .. Len(out) : i # Len(out) => out[i] = "Item"
    <3>1. CASE Items(out)
      BY <2>3, <3>1 DEF Items
    <3>2. CASE EndsLast(out)
      <4>1. \A n \in Nat : \A i \in 1 .. n : i # n => i \in 1 .. n - 1
        OBVIOUS
      <4> HIDE DEF Made
      <4> QED BY <2>3, <3>2, <4>1 DEF EndsLast
    <3>3. CASE out = <<kind>> \/ out = <<"Failed">>
      <4>1. Len(out) = 1
        BY <3>3
      <4> QED BY <4>1
    <3> QED BY <2>2, <3>1, <3>2, <3>3
  <2>5. ASSUME terminal PROVE out # <<>> /\ Ends(out[Len(out)])
    <3>1. kind # "Item" /\ Ends("Failed") /\ Ends("Ended") /\ Ends(kind)
      BY <2>1, <2>5 DEF Ends
    <3>2. CASE EndsLast(out)
      BY <2>2, <3>1, <3>2, LastOf DEF EndsLast
    <3>3. CASE out = <<kind>> \/ out = <<"Failed">>
      BY <3>1, <3>3
    <3> QED BY <2>2, <3>1, <3>2, <3>3
  <2> DEFINE m == Marks(out)
  <2>6. DOMAIN m = 1 .. Len(out) /\ \A i \in 1 .. Len(out) : m[i] = Ends(out[i]) /\ m[i] \in BOOLEAN
    BY <2>3 DEF Ends
  <2>7. m \in Seq(BOOLEAN) /\ Len(m) = Len(out)
    <3>1. m = [i \in 1 .. Len(out) |-> m[i]]
      BY <2>3
    <3> HIDE DEF m
    <3>2. m \in [1 .. Len(out) -> BOOLEAN]
      BY <2>6, <3>1
    <3> QED BY <2>3, <3>2
  <2>8. \A i \in DOMAIN m : m[i] => i = Len(m)
    <3> HIDE DEF m
    <3> QED BY <2>4, <2>6, <2>7 DEF Ends
  <2>9. terminal => m # <<>> /\ m[Len(m)]
    <3> HIDE DEF m
    <3> SUFFICES ASSUME terminal PROVE m # <<>> /\ m[Len(m)]
      OBVIOUS
    <3>1. Len(out) \in 1 .. Len(out) /\ Len(m) # 0
      BY <2>2, <2>3, <2>5, <2>7, EmptySeq
    <3>2. m[Len(out)] = Ends(out[Len(out)])
      BY <2>6, <3>1
    <3> QED BY <2>5, <2>7, <3>1, <3>2
  <2> QED BY <2>7, <2>8, <2>9
<1>2. Plan(layers) = [terminal \in BOOLEAN |-> {Marks(out) : out \in Made(terminal)}]
  BY DEF Plan
<1> HIDE DEF Marks, Made, Sound
<1>3. \A terminal \in BOOLEAN : \A output \in Plan(layers)[terminal] : Sound(terminal, output)
  BY <1>1, <1>2
<1>4. Plan(layers) \in [BOOLEAN -> SUBSET Seq(BOOLEAN)]
  <2>1. \A terminal \in BOOLEAN : Plan(layers)[terminal] \subseteq Seq(BOOLEAN)
    BY <1>3 DEF Sound
  <2>2. Plan(layers) = [terminal \in BOOLEAN |-> Plan(layers)[terminal]]
    BY <1>2
  <2> QED BY <2>1, <2>2
<1> QED BY <1>3, <1>4 DEF Sound
==============================================================================
