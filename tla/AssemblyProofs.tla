--------------------------- MODULE AssemblyProofs ---------------------------
(***************************************************************************)
(* In a Program that ProgramBuilder::build closed, every Port leads to one *)
(* Component, whatever the calling program did with the builders.          *)
(***************************************************************************)
EXTENDS Assembly, TLAPS

CapabilityRecord(types) ==
  [token : [program : Programs, id : Nat], descriptor : types]
PortRecord == [program : Programs, protocol : Protocols, id : PortIds]
RefRecord == [program : Programs, id : ComponentIds, type : ComponentTypes]
UseRecord ==
  [use : {"effect"}, capability : CapabilityRecord(EffectTypes)]
  \cup [use : {"send"}, target : RefRecord]
  \cup [use : {"notify", "request"}, port : PortRecord]
  \cup [use : {"source"}, id : SubscriptionIds, capability : CapabilityRecord(SourceTypes)]

DeclarationsOK ==
  /\ nextCapability \in Nat
  /\ components \in Seq([id : ComponentIds, type : ComponentTypes, work : Seq(UseRecord)])
  /\ ports \in Seq([protocol : Protocols, id : PortIds])
  /\ bindings \in Seq([port : PortRecord, provider : RefRecord])
  /\ effects \in Seq(CapabilityRecord(EffectTypes))
  /\ sources \in Seq(CapabilityRecord(SourceTypes))

(* A binding names handles that were issued before it, here or elsewhere. *)
BindingsHeld ==
  \A i \in DOMAIN bindings : bindings[i].port \in Ports /\ bindings[i].provider \in ComponentRefs

(* A live handle was checked against the closed Program. *)
HandlesChecked ==
  \A h \in handles :
    /\ phase = "running"
    /\ h.to = "port" => h.ref.program = "Here" /\ BindingsOf(h.ref) # {}
    /\ h.to # "port" => \E c \in DOMAIN components :
                          components[c].id = h.ref.id /\ components[c].type = h.ref.type

AssemblyInv ==
  /\ phase \in {"declaring", "program", "binding", "running", "refused"}
  /\ DeclarationsOK
  /\ BindingsHeld
  /\ Closed => ProgramClosed
  /\ HandlesChecked

(* In a closed Program a registered identity receives what is sent to it. *)
LEMMA OneReceiver ==
  ASSUME ComponentIdsUnique, NEW c \in DOMAIN components
  PROVE  Receivers(components[c].id, MessageOf[components[c].type]) = {c}
  BY DEF ComponentIdsUnique, IsInjective, Receivers

(* The one binding of a Port delivers to one Component. *)
LEMMA OneDelivery ==
  ASSUME ProgramClosed, NEW p, NEW k \in DOMAIN bindings, BindingsOf(p) = {k}
  PROVE  \E c \in DOMAIN components :
           /\ components[c].id = bindings[k].provider.id
           /\ components[c].type = bindings[k].provider.type
           /\ DeliveredTo(p) = {c}
<1>1. PICK c \in DOMAIN components :
        components[c].id = bindings[k].provider.id /\ components[c].type = bindings[k].provider.type
  BY DEF ProgramClosed, BindingAccepted
<1>2. Receivers(bindings[k].provider.id, MessageOf[bindings[k].provider.type]) = {c}
  BY <1>1, OneReceiver DEF ProgramClosed
<1>3. DeliveredTo(p) = {c}
  BY <1>2 DEF DeliveredTo
<1> QED BY <1>1, <1>3

(* What a Port of this builder is bound to was issued by this builder. *)
LEMMA BoundPortIsOwn ==
  ASSUME DeclarationsOK, BindingsHeld, ProgramClosed, NEW k \in DOMAIN bindings
  PROVE  \E i \in DOMAIN ports :
           bindings[k].port = [program |-> "Here", protocol |-> ports[i].protocol,
                               id |-> ports[i].id]
<1>1. bindings[k].port \in Ports /\ bindings[k].port.program = "Here"
  BY DEF BindingsHeld, ProgramClosed, BindingAccepted
<1> QED BY <1>1 DEF Ports, Elements

\* A Port that was bound is delivered to the one Component it was bound to.
LEMMA OwnPortDelivers ==
  ASSUME DeclarationsOK, BindingsHeld, ProgramClosed, NEW p, BindingsOf(p) # {}
  PROVE  ExactlyOne(DeliveredTo(p))
<1>1. PICK k \in BindingsOf(p) : TRUE
  OBVIOUS
<1>2. k \in DOMAIN bindings
      /\ bindings[k].port.protocol = p.protocol /\ bindings[k].port.id = p.id
  BY <1>1 DEF BindingsOf
<1>3. PICK i \in DOMAIN ports :
        bindings[k].port = [program |-> "Here", protocol |-> ports[i].protocol,
                            id |-> ports[i].id]
  BY <1>2, BoundPortIsOwn
<1>4. BindingsOf(p) = BindingsOf(ports[i])
  BY <1>2, <1>3 DEF BindingsOf
<1>5. BindingsOf(p) = {k}
  BY <1>1, <1>4 DEF ProgramClosed, ExactlyOne
<1>6. \E c : DeliveredTo(p) = {c}
  BY <1>2, <1>5, OneDelivery
<1> QED BY <1>6 DEF ExactlyOne

\* With AssemblyInv every Port and every handle finds exactly one Component.
LEMMA InvImpliesPortsResolve ==
  ASSUME AssemblyInv
  PROVE  PortsResolve
<1>1. ASSUME Closed, NEW i \in DOMAIN ports
      PROVE  \E k \in DOMAIN bindings, c \in DOMAIN components :
               /\ bindings[k].port = [program |-> "Here", protocol |-> ports[i].protocol,
                                      id |-> ports[i].id]
               /\ components[c].id = bindings[k].provider.id
               /\ components[c].type = bindings[k].provider.type
               /\ BindingsOf(ports[i]) = {k} /\ DeliveredTo(ports[i]) = {c}
  <2>1. ProgramClosed
    BY <1>1 DEF AssemblyInv
  <2>2. PICK k \in BindingsOf(ports[i]) : BindingsOf(ports[i]) = {k}
    BY <2>1 DEF ProgramClosed, ExactlyOne
  <2>3. k \in DOMAIN bindings
        /\ bindings[k].port.protocol = ports[i].protocol /\ bindings[k].port.id = ports[i].id
    BY <2>2 DEF BindingsOf
  <2>4. bindings[k].port = [program |-> "Here", protocol |-> ports[i].protocol,
                            id |-> ports[i].id]
    <3>1. PICK j \in DOMAIN ports :
            bindings[k].port = [program |-> "Here", protocol |-> ports[j].protocol,
                                id |-> ports[j].id]
      BY <2>1, <2>3, BoundPortIsOwn DEF AssemblyInv
    <3> QED BY <2>3, <3>1
  <2>5. PICK c \in DOMAIN components :
          /\ components[c].id = bindings[k].provider.id
          /\ components[c].type = bindings[k].provider.type
          /\ DeliveredTo(ports[i]) = {c}
    BY <2>1, <2>2, <2>3, OneDelivery
  <2> QED BY <2>2, <2>3, <2>4, <2>5
<1>2. ASSUME NEW h \in handles
      PROVE  IF h.to = "port" THEN ExactlyOne(DeliveredTo(h.ref))
             ELSE ExactlyOne(Receivers(h.ref.id, MessageOf[h.ref.type]))
  <2>1. ProgramClosed
    BY <1>2 DEF AssemblyInv, HandlesChecked, Closed
  <2>2. CASE h.to = "port"
    BY <1>2, <2>1, <2>2, OwnPortDelivers DEF AssemblyInv, HandlesChecked
  <2>3. CASE h.to # "port"
    <3>1. PICK c \in DOMAIN components :
            components[c].id = h.ref.id /\ components[c].type = h.ref.type
      BY <1>2, <2>3 DEF AssemblyInv, HandlesChecked
    <3>2. Receivers(h.ref.id, MessageOf[h.ref.type]) = {c}
      BY <2>1, <3>1, OneReceiver DEF ProgramClosed
    <3> QED BY <2>3, <3>2 DEF ExactlyOne
  <2> QED BY <2>2, <2>3
<1> QED BY <1>1, <1>2 DEF PortsResolve

-----------------------------------------------------------------------------
(* The calls of the builders that leave the Program alone. *)
ProgramKept ==
  /\ UNCHANGED programVars
  /\ Closed' => Closed
  /\ phase' \in {"declaring", "program", "binding", "running", "refused"}
  /\ handles # {} => phase' = phase
  /\ handles' = handles

\* A step that leaves the Program as it was keeps AssemblyInv.
LEMMA KeptProgramKeepsInv ==
  ASSUME AssemblyInv, ProgramKept
  PROVE  AssemblyInv'
<1>1. DeclarationsOK' /\ BindingsHeld'
  BY DEF AssemblyInv, ProgramKept, programVars, DeclarationsOK, BindingsHeld, Ports,
         ComponentRefs, Elements
<1>2. (Closed => ProgramClosed)'
  BY DEF AssemblyInv, ProgramKept, programVars, ProgramClosed, ComponentIdsUnique, PortsUnique,
         BindingAccepted, BindingsOf
<1>3. HandlesChecked'
  BY DEF AssemblyInv, ProgramKept, programVars, HandlesChecked, BindingsOf
<1> QED BY <1>1, <1>2, <1>3 DEF AssemblyInv, ProgramKept

(* Declaring: the sequences grow, and what was issued stays issued. *)
Declaring ==
  /\ phase = "declaring" /\ phase' = phase /\ handles' = handles

\* A declaration keeps AssemblyInv: there are no handles to check yet.
LEMMA DeclaringKeepsInv ==
  ASSUME AssemblyInv, Declaring, DeclarationsOK', BindingsHeld'
  PROVE  AssemblyInv'
<1>1. handles = {}
  BY DEF AssemblyInv, Declaring, HandlesChecked
<1> QED BY <1>1 DEF AssemblyInv, Declaring, HandlesChecked, Closed

\* The elements of a sequence are of its type.
LEMMA ElementsOfSeq ==
  ASSUME NEW S, NEW s \in Seq(S)
  PROVE  Elements(s) \subseteq S
  BY DEF Elements

\* Each element of a sequence is of its type.
LEMMA ElementTyped ==
  ASSUME NEW S, NEW s \in Seq(S), NEW i \in DOMAIN s
  PROVE  s[i] \in S
  OBVIOUS

\* A sequence stays typed when a typed element is added.
LEMMA AppendTyped ==
  ASSUME NEW S, NEW s \in Seq(S), NEW e \in S
  PROVE  Append(s, e) \in Seq(S)
  OBVIOUS

\* Nothing is lost when an element is added.
LEMMA ElementsGrow ==
  ASSUME NEW S, NEW s \in Seq(S), NEW e \in S
  PROVE  Elements(s) \subseteq Elements(Append(s, e))
<1>1. \A i \in DOMAIN s : i \in DOMAIN Append(s, e) /\ Append(s, e)[i] = s[i]
  OBVIOUS
<1> QED BY <1>1 DEF Elements

\* Ports and Component references issued are typed.
LEMMA HandlesAreRecords ==
  ASSUME DeclarationsOK
  PROVE  Ports \subseteq PortRecord /\ ComponentRefs \subseteq RefRecord
<1>1. \A c \in Elements(components) : c.id \in ComponentIds /\ c.type \in ComponentTypes
  <2>1. Elements(components)
          \subseteq [id : ComponentIds, type : ComponentTypes, work : Seq(UseRecord)]
    BY ElementsOfSeq DEF DeclarationsOK
  <2> QED BY <2>1
<1>2. \A p \in Elements(ports) : p.protocol \in Protocols /\ p.id \in PortIds
  <2>1. Elements(ports) \subseteq [protocol : Protocols, id : PortIds]
    BY ElementsOfSeq DEF DeclarationsOK
  <2> QED BY <2>1
<1>3. ComponentRefs \subseteq RefRecord
  BY <1>1 DEF ComponentRefs, RefRecord, Programs
<1>4. Ports \subseteq PortRecord
  BY <1>2 DEF Ports, PortRecord, Programs
<1> QED BY <1>3, <1>4

\* Every capability a declaration may name is typed.
LEMMA UsesAreRecords ==
  ASSUME DeclarationsOK
  PROVE  Uses \subseteq UseRecord
<1>1. Elements(effects) \subseteq CapabilityRecord(EffectTypes)
      /\ Elements(sources) \subseteq CapabilityRecord(SourceTypes)
  BY DEF DeclarationsOK, Elements
<1>2. EffectCapabilities \subseteq CapabilityRecord(EffectTypes)
      /\ SourceCapabilities \subseteq CapabilityRecord(SourceTypes)
  BY <1>1 DEF EffectCapabilities, SourceCapabilities, ForeignCapabilities, CapabilityRecord,
              Programs
<1> QED BY <1>2, HandlesAreRecords DEF Uses, UseRecord

\* The initial work of a Component is typed.
LEMMA WorkIsRecords ==
  ASSUME DeclarationsOK, NEW work \in Works
  PROVE  work \in Seq(UseRecord)
<1>1. PICK n \in 0 .. scope.work : work \in [1 .. n -> Uses]
  BY DEF Works
<1>2. n \in Nat
  BY <1>1
<1>3. work \in [1 .. n -> UseRecord]
  BY <1>1, UsesAreRecords
<1> QED BY <1>2, <1>3

\* An empty builder satisfies AssemblyInv.
LEMMA InitAssemblyInv == Init => AssemblyInv
  BY DEF Init, AssemblyInv, DeclarationsOK, BindingsHeld, Closed, HandlesChecked

\* One step per call of ProgramBuilder.
LEMMA DeclarationsKeepInv ==
  ASSUME AssemblyInv,
         \/ \E id \in ComponentIds, type \in ComponentTypes, work \in Works :
              component(id, type, work)
         \/ \E protocol \in Protocols, id \in PortIds : port(protocol, id)
         \/ \E p \in Ports, provider \in ComponentRefs : bind_port(p, provider)
         \/ \E d \in EffectTypes : effect(d)
         \/ \E d \in SourceTypes : source(d)
  PROVE  AssemblyInv'
<1>1. CASE \E id \in ComponentIds, type \in ComponentTypes, work \in Works :
             component(id, type, work)
  <2>1. PICK id \in ComponentIds, type \in ComponentTypes, work \in Works :
          component(id, type, work)
    BY <1>1
  <2> DEFINE c == [id |-> id, type |-> type, work |-> work]
  <2>2. c \in [id : ComponentIds, type : ComponentTypes, work : Seq(UseRecord)]
    BY WorkIsRecords DEF AssemblyInv
  <2>3. components' = Append(components, c) /\ Declaring
        /\ UNCHANGED <<ports, bindings, effects, sources, nextCapability>>
    BY <2>1 DEF component, Declaring
  <2> HIDE DEF c
  <2>4. DeclarationsOK'
    BY <2>2, <2>3 DEF AssemblyInv, DeclarationsOK
  <2>5. Elements(components) \subseteq Elements(components')
    BY <2>2, <2>3, ElementsGrow DEF AssemblyInv, DeclarationsOK
  <2>6. ComponentRefs \subseteq ComponentRefs' /\ Ports' = Ports
    <3>1. Ports' = Ports
      BY <2>3 DEF Ports, Elements
    <3>2. ComponentRefs \subseteq ComponentRefs'
      BY <2>5 DEF ComponentRefs, Elements
    <3> QED BY <3>1, <3>2
  <2>7. BindingsHeld'
    BY <2>3, <2>6 DEF AssemblyInv, BindingsHeld
  <2> QED BY <2>3, <2>4, <2>7, DeclaringKeepsInv
<1>2. CASE \E protocol \in Protocols, id \in PortIds : port(protocol, id)
  <2>1. PICK protocol \in Protocols, id \in PortIds : port(protocol, id)
    BY <1>2
  <2>2. ports' = Append(ports, [protocol |-> protocol, id |-> id]) /\ Declaring
        /\ UNCHANGED <<components, bindings, effects, sources, nextCapability>>
    BY <2>1 DEF port, Declaring
  <2>3. DeclarationsOK'
    BY <2>2 DEF AssemblyInv, DeclarationsOK
  <2>4. Elements(ports) \subseteq Elements(ports')
    <3>1. [protocol |-> protocol, id |-> id] \in [protocol : Protocols, id : PortIds]
      OBVIOUS
    <3> QED BY <2>2, <3>1, ElementsGrow DEF AssemblyInv, DeclarationsOK
  <2>5. Ports \subseteq Ports' /\ ComponentRefs' = ComponentRefs
    <3>1. ComponentRefs' = ComponentRefs
      BY <2>2 DEF ComponentRefs, Elements
    <3>2. Ports \subseteq Ports'
      BY <2>4 DEF Ports, Elements
    <3> QED BY <3>1, <3>2
  <2>6. BindingsHeld'
    BY <2>2, <2>5 DEF AssemblyInv, BindingsHeld
  <2> QED BY <2>2, <2>3, <2>6, DeclaringKeepsInv
<1>3. CASE \E p \in Ports, provider \in ComponentRefs : bind_port(p, provider)
  <2>1. PICK p \in Ports, provider \in ComponentRefs : bind_port(p, provider)
    BY <1>3
  <2> DEFINE b == [port |-> p, provider |-> provider]
  <2>2. p \in PortRecord /\ provider \in RefRecord
    BY HandlesAreRecords DEF AssemblyInv
  <2>3. bindings' = Append(bindings, b) /\ Declaring
        /\ UNCHANGED <<components, ports, effects, sources, nextCapability>>
    BY <2>1 DEF bind_port, Declaring
  <2>4. DeclarationsOK'
    BY <2>2, <2>3 DEF AssemblyInv, DeclarationsOK
  <2>5. b.port \in Ports' /\ b.provider \in ComponentRefs' /\ Ports' = Ports
        /\ ComponentRefs' = ComponentRefs
    BY <2>1, <2>3 DEF Ports, ComponentRefs, Elements
  <2> HIDE DEF b
  <2>6. BindingsHeld'
    BY <2>3, <2>5 DEF AssemblyInv, BindingsHeld, DeclarationsOK
  <2> QED BY <2>3, <2>4, <2>6, DeclaringKeepsInv
<1>4. CASE (\E d \in EffectTypes : effect(d)) \/ (\E d \in SourceTypes : source(d))
  <2>1. /\ Declaring /\ UNCHANGED <<components, ports, bindings>>
        /\ nextCapability' = nextCapability + 1
        /\ \/ \E d \in EffectTypes : effects' = Append(effects, NewCapability(d))
                                        /\ sources' = sources
           \/ \E d \in SourceTypes : sources' = Append(sources, NewCapability(d))
                                        /\ effects' = effects
    BY <1>4 DEF effect, source, Declaring
  <2>2. /\ \A d \in EffectTypes : NewCapability(d) \in CapabilityRecord(EffectTypes)
        /\ \A d \in SourceTypes : NewCapability(d) \in CapabilityRecord(SourceTypes)
    BY DEF AssemblyInv, DeclarationsOK, NewCapability, CapabilityRecord, Programs
  <2>3. DeclarationsOK'
    <3>1. /\ effects \in Seq(CapabilityRecord(EffectTypes))
          /\ sources \in Seq(CapabilityRecord(SourceTypes))
      BY DEF AssemblyInv, DeclarationsOK
    <3>2. CASE \E d \in EffectTypes : effects' = Append(effects, NewCapability(d))
                                      /\ sources' = sources
      <4>1. PICK d \in EffectTypes : effects' = Append(effects, NewCapability(d))
        BY <3>2
      <4>2. effects' \in Seq(CapabilityRecord(EffectTypes))
        BY <2>2, <3>1, <4>1, AppendTyped
      <4> QED BY <2>1, <3>1, <3>2, <4>2 DEF AssemblyInv, DeclarationsOK
    <3>3. CASE \E d \in SourceTypes : sources' = Append(sources, NewCapability(d))
                                      /\ effects' = effects
      <4>1. PICK d \in SourceTypes : sources' = Append(sources, NewCapability(d))
        BY <3>3
      <4>2. sources' \in Seq(CapabilityRecord(SourceTypes))
        BY <2>2, <3>1, <4>1, AppendTyped
      <4> QED BY <2>1, <3>1, <3>3, <4>2 DEF AssemblyInv, DeclarationsOK
    <3> QED BY <2>1, <3>2, <3>3
  <2>4. BindingsHeld'
    BY <2>1 DEF AssemblyInv, BindingsHeld, Ports, ComponentRefs, Elements
  <2> QED BY <2>1, <2>3, <2>4, DeclaringKeepsInv
<1> QED BY <1>1, <1>2, <1>3, <1>4

\* Registering a Driver or a behaviour leaves the Program as it was.
LEMMA RegistrationsKeepProgram ==
  ASSUME AssemblyInv,
         \/ \E d \in EffectTypes : bind_effect(d) \/ control_effect(d)
         \/ \E out, err \in EffectTypes : bind_stdio(out, err)
         \/ \E d \in SourceTypes : bind_source(d) \/ control_source(d)
         \/ \E c \in SourceCapabilities : bind_mpsc(c) \/ bind_stdin(c) \/ control_stream(c)
         \/ \E kind \in {"live", "controlled"} : OpenBuilder(kind)
         \/ BuildLive \/ BuildControlled
         \/ UNCHANGED vars
  PROVE  ProgramKept
  BY DEF AssemblyInv, HandlesChecked, ProgramKept, Closed, vars, bind_effect, control_effect,
         bind_stdio, bind_source, control_source, bind_mpsc, bind_stdin, control_stream,
         RegisterEffects, RegisterSource, OpenBuilder, Build, BuildLive, BuildControlled

\* Every call of a builder keeps AssemblyInv.
LEMMA NextKeepsInv ==
  ASSUME AssemblyInv, [Next]_vars
  PROVE  AssemblyInv'
<1>1. CASE BuildProgram
  <2>1. DeclarationsOK' /\ BindingsHeld' /\ handles = {} /\ handles' = {}
    BY <1>1 DEF AssemblyInv, BuildProgram, programVars, HandlesChecked, DeclarationsOK,
                BindingsHeld, Ports, ComponentRefs, Elements
  <2>2. ProgramClosed' = ProgramClosed
    BY <1>1 DEF BuildProgram, programVars, ProgramClosed, ComponentIdsUnique, PortsUnique,
                BindingAccepted, BindingsOf
  <2>3. Closed' => ProgramClosed'
    BY <1>1, <2>2 DEF BuildProgram, Closed
  <2> QED BY <1>1, <2>1, <2>3 DEF AssemblyInv, HandlesChecked, BuildProgram
<1>2. CASE (\E target \in ComponentRefs : Handle(target)) \/ (\E p \in Ports : PortHandle(p))
  <2>1. /\ UNCHANGED programVars /\ phase = "running" /\ phase' = phase
        /\ \A h \in handles' \ handles :
             \/ /\ h.to = "port" /\ h.ref.program = "Here" /\ BindingsOf(h.ref) # {}
             \/ /\ h.to # "port"
                /\ \E c \in Elements(components) : c.id = h.ref.id /\ c.type = h.ref.type
    BY <1>2 DEF Handle, PortHandle
  <2>2. DeclarationsOK' /\ BindingsHeld' /\ (Closed => ProgramClosed)'
    <3>1. DeclarationsOK'
      BY <2>1 DEF AssemblyInv, programVars, DeclarationsOK
    <3>2. BindingsHeld'
      BY <2>1 DEF AssemblyInv, programVars, BindingsHeld, Ports, ComponentRefs, Elements
    <3>3. ProgramClosed' = ProgramClosed
      BY <2>1 DEF programVars, ProgramClosed, ComponentIdsUnique, PortsUnique,
                  BindingAccepted, BindingsOf
    <3> QED BY <2>1, <3>1, <3>2, <3>3 DEF AssemblyInv, Closed
  <2>3. HandlesChecked'
    BY <2>1 DEF AssemblyInv, programVars, HandlesChecked, BindingsOf, Elements
  <2> QED BY <2>1, <2>2, <2>3 DEF AssemblyInv
<1> QED
  BY <1>1, <1>2, DeclarationsKeepInv, RegistrationsKeepProgram, KeptProgramKeepsInv DEF Next

(* Whatever handles, of this builder or another, a program passes to the   *)
(* builders and in whatever order: in a Program that build() closed every  *)
(* Port and every live handle leads to exactly one Component.              *)
THEOREM PortsResolveHolds == Spec => []PortsResolve
<1>1. AssemblyInv /\ [Next]_vars => AssemblyInv'
  BY NextKeepsInv
<1>2. AssemblyInv => PortsResolve
  BY InvImpliesPortsResolve
<1> QED BY InitAssemblyInv, <1>1, <1>2, PTL DEF Spec

-----------------------------------------------------------------------------
(* The capabilities: issued tokens are this builder's; a type-wide binding *)
(* carries none; each builder registers its own kinds of binding; and a    *)
(* running runtime passed the checks of its builder.                       *)
BindingRecord ==
  [kind : {"typed", "mpsc", "stdin", "exact"}, descriptor : SourceTypes,
   token : [program : Programs \cup {"none"}, id : Nat]]

CapabilityInv ==
  /\ sourceBindings \in Seq(BindingRecord)
  /\ phase \in {"declaring", "program"} => sourceBindings = <<>>
  /\ profile = "controlled" =>
       \A b \in Elements(sourceBindings) : b.kind \in {"typed", "exact"}
  /\ \A c \in Elements(effects) \cup Elements(sources) : c.token.program = "Here"
  /\ \A b \in Elements(sourceBindings) : b.kind = "typed" => b = Typed(b.descriptor)
  /\ phase \in {"binding", "running"} => profile \in {"live", "controlled"}
  /\ phase = "running" =>
       /\ profile = "live" => LiveBindingsComplete
       /\ profile = "controlled" => ControlledBindingsComplete
       /\ \A c \in Elements(components) : InitialWorkValid(c.work)

\* Adding an element adds it and nothing else.
LEMMA ElementsAppend ==
  ASSUME NEW S, NEW s \in Seq(S), NEW e \in S
  PROVE  Elements(Append(s, e)) = Elements(s) \cup {e}
<1>1. Elements(s) \subseteq Elements(Append(s, e))
  BY ElementsGrow
<1>2. Append(s, e)[Len(s) + 1] = e /\ Len(s) + 1 \in DOMAIN Append(s, e)
  OBVIOUS
<1>3. \A i \in DOMAIN Append(s, e) :
        (i \in DOMAIN s /\ Append(s, e)[i] = s[i]) \/ Append(s, e)[i] = e
  OBVIOUS
<1> QED BY <1>1, <1>2, <1>3 DEF Elements

(* A live registry serves each declared Source capability with one binding.*)
LEMMA LiveServesOne ==
  ASSUME LiveBindingsComplete, NEW c \in Elements(sources)
  PROVE  /\ ExactlyOne({i \in DOMAIN sourceBindings : Matches(sourceBindings[i], c)})
         /\ ExactlyOne({b \in Elements(sourceBindings) : Matches(b, c)})
<1>1. \A b : Matches(b, c) <=> Satisfies(b, c)
  BY DEF Matches, Satisfies
<1>2. PICK k \in DOMAIN sourceBindings :
        {i \in DOMAIN sourceBindings : Satisfies(sourceBindings[i], c)} = {k}
  BY DEF LiveBindingsComplete, ExactlyOne
<1>3. {i \in DOMAIN sourceBindings : Matches(sourceBindings[i], c)} = {k}
  BY <1>1, <1>2
<1>4. {b \in Elements(sourceBindings) : Matches(b, c)} = {sourceBindings[k]}
  BY <1>3 DEF Elements
<1> QED BY <1>3, <1>4 DEF ExactlyOne

(* So does a controlled one: an exact control excludes the type-wide one.  *)
LEMMA ControlledServesOne ==
  ASSUME ControlledBindingsComplete, CapabilityInv, profile = "controlled",
         NEW c \in Elements(sources)
  PROVE  ExactlyOne({b \in Elements(sourceBindings) : Matches(b, c)})
<1>1. PICK a \in Elements(sourceBindings) : Matches(a, c)
  BY DEF ControlledBindingsComplete, Satisfies, Matches
<1>2. ASSUME NEW b \in Elements(sourceBindings), Matches(b, c)
      PROVE  a = b
  <2>1. PICK i \in DOMAIN sourceBindings : a = sourceBindings[i]
    BY <1>1 DEF Elements
  <2>2. PICK j \in DOMAIN sourceBindings : b = sourceBindings[j]
    BY <1>2 DEF Elements
  <2>3. a.descriptor = b.descriptor
    BY <1>1, <1>2 DEF Matches
  <2>4. CASE a.kind = "typed" /\ b.kind = "typed"
    BY <2>3, <2>4 DEF CapabilityInv, Typed
  <2>5. CASE a.kind = "exact" /\ b.kind = "exact"
    BY <1>1, <1>2, <2>1, <2>2, <2>5 DEF Matches, ControlledBindingsComplete
  <2>6. CASE a.kind = "exact" /\ b.kind = "typed"
    <3>1. b = Typed(a.descriptor)
      BY <2>3, <2>6 DEF CapabilityInv
    <3>2. i # j
      BY <2>1, <2>2, <2>6
    <3> QED BY <2>1, <2>2, <2>6, <3>1, <3>2 DEF ControlledBindingsComplete
  <2>7. CASE a.kind = "typed" /\ b.kind = "exact"
    <3>1. a = Typed(b.descriptor)
      BY <2>3, <2>7 DEF CapabilityInv
    <3>2. i # j
      BY <2>1, <2>2, <2>7
    <3> QED BY <2>1, <2>2, <2>7, <3>1, <3>2 DEF ControlledBindingsComplete
  <2> QED BY <2>4, <2>5, <2>6, <2>7 DEF CapabilityInv
<1> QED BY <1>1, <1>2 DEF ExactlyOne

\* With both invariants every capability in use finds exactly one Driver or
\* behaviour in a runtime that was built.
LEMMA InvImpliesCapabilitiesResolve ==
  ASSUME AssemblyInv, CapabilityInv
  PROVE  CapabilitiesResolve
<1> SUFFICES ASSUME phase = "running"
             PROVE  CapabilitiesResolve
  BY DEF CapabilitiesResolve
<1>1. ProgramClosed /\ profile \in {"live", "controlled"}
  BY DEF AssemblyInv, CapabilityInv, Closed
<1>2. ASSUME NEW c \in Elements(effects)
      PROVE  DeclaresEffect(c) /\ c.descriptor \in Elements(effectBindings)
  <2>1. c.descriptor \in Elements(effectBindings)
    <3>1. CASE profile = "live"
      <4>1. PICK i \in DOMAIN effectBindings : effectBindings[i] = c.descriptor
        BY <1>2, <3>1 DEF CapabilityInv, LiveBindingsComplete, ExactlyOne
      <4> QED BY <4>1 DEF Elements
    <3>2. CASE profile = "controlled"
      BY <1>2, <3>2 DEF CapabilityInv, ControlledBindingsComplete
    <3> QED BY <1>1, <3>1, <3>2
  <2> QED BY <1>2, <2>1 DEF CapabilityInv, DeclaresEffect
<1>3. ASSUME NEW c \in Elements(sources)
      PROVE  /\ DeclaresSourcePlan(c)
             /\ ExactlyOne({b \in Elements(sourceBindings) : Matches(b, c)})
             /\ profile = "live" =>
                  ExactlyOne({i \in DOMAIN sourceBindings : Matches(sourceBindings[i], c)})
  <2>1. DeclaresSourcePlan(c)
    BY <1>3 DEF CapabilityInv, DeclaresSourcePlan
  <2> QED BY <1>1, <1>3, <2>1, LiveServesOne, ControlledServesOne DEF CapabilityInv
<1>4. ASSUME NEW b \in Elements(sourceBindings), b.kind # "typed"
      PROVE  \E c \in Elements(sources) : Matches(b, c) /\ c.token = b.token
  <2>1. ExactDeclared(b)
    <3>1. CASE profile = "live"
      BY <1>4, <3>1 DEF CapabilityInv, LiveBindingsComplete
    <3>2. CASE profile = "controlled"
      <4>1. b.kind = "exact"
        BY <1>4, <3>2 DEF CapabilityInv
      <4> QED BY <4>1, <3>2 DEF CapabilityInv, ControlledBindingsComplete, Elements
    <3> QED BY <1>1, <3>1, <3>2
  <2> QED BY <2>1 DEF ExactDeclared, Elements, Matches
<1>5. ASSUME NEW i \in DOMAIN components, NEW k \in DOMAIN components[i].work
      PROVE  LET u == components[i].work[k] IN
             CASE u.use = "effect" -> u.capability \in Elements(effects)
               [] u.use = "source" -> u.capability \in Elements(sources)
               [] u.use \in {"notify", "request"} -> ExactlyOne(DeliveredTo(u.port))
               [] u.use = "send" -> ExactlyOne(Receivers(u.target.id, MessageOf[u.target.type]))
  <2> DEFINE u == components[i].work[k]
  <2>1. u \in UseRecord
    <3>1. components[i] \in [id : ComponentIds, type : ComponentTypes, work : Seq(UseRecord)]
      BY <1>5, ElementTyped DEF AssemblyInv, DeclarationsOK
    <3>2. components[i].work \in Seq(UseRecord)
      BY <3>1
    <3> QED BY <1>5, <3>2, ElementTyped
  <2>2. Authorized(u)
    <3>1. components[i] \in Elements(components)
      BY <1>5 DEF Elements
    <3>2. InitialWorkValid(components[i].work)
      BY <3>1 DEF CapabilityInv
    <3> QED BY <1>5, <3>2 DEF InitialWorkValid
  <2> HIDE DEF u
  <2>3. ASSUME u.use = "effect" PROVE u.capability \in Elements(effects)
    <3>1. u.capability \in CapabilityRecord(EffectTypes)
      BY <2>1, <2>3 DEF UseRecord
    <3>2. PICK r \in Elements(effects) :
            r.token = u.capability.token /\ r.descriptor = u.capability.descriptor
      BY <2>2, <2>3 DEF Authorized, DeclaresEffect
    <3>3. r \in CapabilityRecord(EffectTypes)
      BY <3>2, ElementsOfSeq DEF AssemblyInv, DeclarationsOK
    <3>4. r = u.capability
      BY <3>1, <3>2, <3>3 DEF CapabilityRecord
    <3> QED BY <3>2, <3>4
  <2>4. ASSUME u.use = "source" PROVE u.capability \in Elements(sources)
    <3>1. u.capability \in CapabilityRecord(SourceTypes)
      BY <2>1, <2>4 DEF UseRecord
    <3>2. PICK r \in Elements(sources) :
            r.token = u.capability.token /\ r.descriptor = u.capability.descriptor
      BY <2>2, <2>4 DEF Authorized, DeclaresSourcePlan
    <3>3. r \in CapabilityRecord(SourceTypes)
      BY <3>2, ElementsOfSeq DEF AssemblyInv, DeclarationsOK
    <3>4. r = u.capability
      BY <3>1, <3>2, <3>3 DEF CapabilityRecord
    <3> QED BY <3>2, <3>4
  <2>5. ASSUME u.use \in {"notify", "request"} PROVE ExactlyOne(DeliveredTo(u.port))
    <3>1. u.port.program = "Here" /\ BindingsOf(u.port) # {}
      BY <2>2, <2>5 DEF Authorized, DeclaresPort
    <3> QED BY <1>1, <3>1, OwnPortDelivers DEF AssemblyInv
  <2>6. ASSUME u.use = "send"
        PROVE  ExactlyOne(Receivers(u.target.id, MessageOf[u.target.type]))
    <3>1. PICK c \in DOMAIN components :
            components[c].id = u.target.id
            /\ MessageOf[components[c].type] = MessageOf[u.target.type]
      BY <2>2, <2>6 DEF Authorized, DeclaresComponent, Receivers
    <3>2. Receivers(u.target.id, MessageOf[u.target.type]) = {c}
      BY <1>1, <3>1, OneReceiver DEF ProgramClosed
    <3> QED BY <3>2 DEF ExactlyOne
  <2>7. u.use \in {"effect", "source", "notify", "request", "send"}
    BY <2>1 DEF UseRecord
  <2> QED BY <2>3, <2>4, <2>5, <2>6, <2>7 DEF u
<1> QED BY <1>2, <1>3, <1>4, <1>5 DEF CapabilitiesResolve

\* An empty registry satisfies CapabilityInv.
LEMMA InitCapabilityInv == Init => CapabilityInv
  BY DEF Init, CapabilityInv, Elements

\* What a registration adds, and that it leaves the checked parts alone.
LEMMA RegistrationKeepsCapabilityInv ==
  ASSUME CapabilityInv, NEW b \in BindingRecord, NEW kind, RegisterSource(kind, b),
         b.kind = "typed" => b = Typed(b.descriptor),
         kind = "controlled" => b.kind \in {"typed", "exact"}
  PROVE  CapabilityInv'
<1>1. /\ phase = "binding" /\ phase' = phase /\ profile' = profile /\ profile = kind
      /\ effects' = effects /\ sources' = sources
      /\ sourceBindings' = Append(sourceBindings, b)
  BY DEF RegisterSource, programVars
<1>2. sourceBindings' \in Seq(BindingRecord)
  BY <1>1, AppendTyped DEF CapabilityInv
<1>3. Elements(sourceBindings') = Elements(sourceBindings) \cup {b}
  BY <1>1, ElementsAppend DEF CapabilityInv
<1>4. \A e \in Elements(sourceBindings') : e.kind = "typed" => e = Typed(e.descriptor)
  BY <1>3 DEF CapabilityInv
<1>5. profile' = "controlled" =>
        \A e \in Elements(sourceBindings') : e.kind \in {"typed", "exact"}
  BY <1>1, <1>3 DEF CapabilityInv
<1>6. \A c \in Elements(effects') \cup Elements(sources') : c.token.program = "Here"
  BY <1>1 DEF CapabilityInv
<1>7. Elements(sourceBindings)' = Elements(sourceBindings')
      /\ Elements(effects)' = Elements(effects') /\ Elements(sources)' = Elements(sources')
  BY DEF Elements
<1> QED BY <1>1, <1>2, <1>4, <1>5, <1>6, <1>7 DEF CapabilityInv, Typed

\* A registration for one capability is typed.
LEMMA BindingsAreRecords ==
  ASSUME AssemblyInv, NEW kind \in {"mpsc", "stdin", "exact"},
         NEW c \in SourceCapabilities
  PROVE  Exact(kind, c) \in BindingRecord
<1>1. Elements(sources) \subseteq CapabilityRecord(SourceTypes)
  BY ElementsOfSeq DEF AssemblyInv, DeclarationsOK
<1>2. c \in CapabilityRecord(SourceTypes)
  BY <1>1 DEF SourceCapabilities, ForeignCapabilities, CapabilityRecord, Programs
<1>3. c.token \in [program : Programs, id : Nat] /\ TerminalOf[c.descriptor] \in SourceTypes
  BY <1>2, AssemblyAssumption DEF CapabilityRecord
<1> QED BY <1>3 DEF Exact, BindingRecord

\* A registration for a descriptor type is typed.
LEMMA TypedIsRecord ==
  ASSUME NEW d \in SourceTypes
  PROVE  Typed(d) \in BindingRecord
  BY DEF Typed, NoToken, BindingRecord

\* Steps that change neither the Program nor the registry.
LEMMA ChecksKept ==
  ASSUME UNCHANGED <<profile, programVars, registryVars>>
  PROVE  /\ LiveBindingsComplete' = LiveBindingsComplete
         /\ ControlledBindingsComplete' = ControlledBindingsComplete
         /\ \A c : InitialWorkValid(c.work)' = InitialWorkValid(c.work)
         /\ Elements(effects)' = Elements(effects) /\ Elements(sources)' = Elements(sources)
         /\ Elements(sourceBindings)' = Elements(sourceBindings)
         /\ Elements(components)' = Elements(components)
<1>1. UNCHANGED <<components, bindings, effects, sources, effectBindings, sourceBindings>>
  BY DEF programVars, registryVars
<1>2. LiveBindingsComplete' = LiveBindingsComplete
  BY <1>1 DEF LiveBindingsComplete, IsInjective, ExactDeclared, Elements
<1>3. ControlledBindingsComplete' = ControlledBindingsComplete
  BY <1>1 DEF ControlledBindingsComplete, ExactDeclared, Elements
<1>4. \A c : InitialWorkValid(c.work)' = InitialWorkValid(c.work)
  BY <1>1 DEF InitialWorkValid, Authorized, DeclaresEffect, DeclaresSourcePlan,
              DeclaresComponent, DeclaresPort, Receivers, BindingsOf, Elements
<1>5. /\ Elements(effects)' = Elements(effects) /\ Elements(sources)' = Elements(sources)
      /\ Elements(sourceBindings)' = Elements(sourceBindings)
      /\ Elements(components)' = Elements(components)
  BY <1>1 DEF Elements
<1> QED BY <1>2, <1>3, <1>4, <1>5

\* A step that changes neither the Program nor the registry keeps
\* CapabilityInv, if a runtime is built only with complete bindings.
LEMMA FrameKeepsCapabilityInv ==
  ASSUME CapabilityInv, UNCHANGED <<profile, programVars, registryVars>>,
         \/ phase' = phase
         \/ phase = "declaring" /\ phase' \in {"program", "refused"}
         \/ /\ phase = "binding" /\ phase' \in {"running", "refused"}
            /\ phase' = "running" =>
                 /\ profile = "live" => LiveBindingsComplete
                 /\ profile = "controlled" => ControlledBindingsComplete
                 /\ \A c \in Elements(components) : InitialWorkValid(c.work)
  PROVE  CapabilityInv'
<1>1. UNCHANGED <<profile, effects, sources, sourceBindings>>
  BY DEF programVars, registryVars
<1> QED BY <1>1, ChecksKept DEF CapabilityInv

\* The declarations of a Program: new tokens are this builder's.
LEMMA DeclarationKeepsCapabilityInv ==
  ASSUME AssemblyInv, CapabilityInv, phase = "declaring", phase' = phase,
         UNCHANGED <<profile, registryVars>>,
         \/ UNCHANGED <<effects, sources>>
         \/ \E d \in EffectTypes :
              effects' = Append(effects, NewCapability(d)) /\ sources' = sources
         \/ \E d \in SourceTypes :
              sources' = Append(sources, NewCapability(d)) /\ effects' = effects
  PROVE  CapabilityInv'
<1>1. effects \in Seq(CapabilityRecord(EffectTypes))
      /\ sources \in Seq(CapabilityRecord(SourceTypes))
  BY DEF AssemblyInv, DeclarationsOK
<1>2. \A d : NewCapability(d).token.program = "Here"
  BY DEF NewCapability
<1>3. \A d \in EffectTypes : NewCapability(d) \in CapabilityRecord(EffectTypes)
  BY DEF AssemblyInv, DeclarationsOK, NewCapability, CapabilityRecord, Programs
<1>4. \A d \in SourceTypes : NewCapability(d) \in CapabilityRecord(SourceTypes)
  BY DEF AssemblyInv, DeclarationsOK, NewCapability, CapabilityRecord, Programs
<1>5. \A c \in Elements(effects') \cup Elements(sources') : c.token.program = "Here"
  <2>1. CASE UNCHANGED <<effects, sources>>
    BY <2>1 DEF CapabilityInv
  <2>2. CASE \E d \in EffectTypes :
               effects' = Append(effects, NewCapability(d)) /\ sources' = sources
    <3>1. PICK d \in EffectTypes :
            effects' = Append(effects, NewCapability(d)) /\ sources' = sources
      BY <2>2
    <3>2. Elements(effects') = Elements(effects) \cup {NewCapability(d)}
      BY <1>1, <1>3, <3>1, ElementsAppend
    <3> QED BY <1>2, <3>1, <3>2 DEF CapabilityInv
  <2>3. CASE \E d \in SourceTypes :
               sources' = Append(sources, NewCapability(d)) /\ effects' = effects
    <3>1. PICK d \in SourceTypes :
            sources' = Append(sources, NewCapability(d)) /\ effects' = effects
      BY <2>3
    <3>2. Elements(sources') = Elements(sources) \cup {NewCapability(d)}
      BY <1>1, <1>4, <3>1, ElementsAppend
    <3> QED BY <1>2, <3>1, <3>2 DEF CapabilityInv
  <2> QED BY <2>1, <2>2, <2>3
<1> QED BY <1>5 DEF CapabilityInv, registryVars, Elements

\* Every call of a builder keeps CapabilityInv.
LEMMA NextKeepsCapabilityInv ==
  ASSUME AssemblyInv, CapabilityInv, [Next]_vars
  PROVE  CapabilityInv'
<1>1. CASE \/ \E id \in ComponentIds, type \in ComponentTypes, work \in Works :
                component(id, type, work)
           \/ \E protocol \in Protocols, id \in PortIds : port(protocol, id)
           \/ \E p \in Ports, provider \in ComponentRefs : bind_port(p, provider)
  BY <1>1, DeclarationKeepsCapabilityInv DEF component, port, bind_port
<1>2. CASE (\E d \in EffectTypes : effect(d)) \/ (\E d \in SourceTypes : source(d))
  BY <1>2, DeclarationKeepsCapabilityInv DEF effect, source
<1>3. CASE \/ \E d \in EffectTypes : bind_effect(d) \/ control_effect(d)
           \/ \E out, err \in EffectTypes : out # err /\ bind_stdio(out, err)
  <2>1. phase = "binding" /\ phase' = phase
        /\ UNCHANGED <<profile, effects, sources, sourceBindings>>
    BY <1>3 DEF bind_effect, control_effect, bind_stdio, RegisterEffects, programVars
  <2> QED BY <2>1 DEF CapabilityInv, Elements
<1>4. CASE \E d \in SourceTypes : bind_source(d) \/ control_source(d)
  BY <1>4, RegistrationKeepsCapabilityInv, TypedIsRecord DEF bind_source, control_source, Typed
<1>5. CASE \E c \in SourceCapabilities : bind_mpsc(c) \/ bind_stdin(c) \/ control_stream(c)
  <2>1. PICK c \in SourceCapabilities : bind_mpsc(c) \/ bind_stdin(c) \/ control_stream(c)
    BY <1>5
  <2>2. \A kind \in {"mpsc", "stdin", "exact"} :
          Exact(kind, c) \in BindingRecord /\ Exact(kind, c).kind = kind
    BY BindingsAreRecords DEF Exact
  <2>3. CASE bind_mpsc(c)
    BY <2>2, <2>3, RegistrationKeepsCapabilityInv DEF bind_mpsc
  <2>4. CASE bind_stdin(c)
    BY <2>2, <2>4, RegistrationKeepsCapabilityInv DEF bind_stdin
  <2>5. CASE control_stream(c)
    BY <2>2, <2>5, RegistrationKeepsCapabilityInv DEF control_stream
  <2> QED BY <2>1, <2>3, <2>4, <2>5
<1>6. CASE \E kind \in {"live", "controlled"} : OpenBuilder(kind)
  <2>1. phase = "program" /\ phase' = "binding" /\ profile' \in {"live", "controlled"}
        /\ sourceBindings = <<>>
        /\ UNCHANGED <<effects, sources, sourceBindings>>
    BY <1>6 DEF OpenBuilder, programVars, registryVars, CapabilityInv
  <2> QED BY <2>1 DEF CapabilityInv, Elements
<1>7. CASE BuildLive \/ BuildControlled
  BY <1>7, FrameKeepsCapabilityInv DEF Build, BuildLive, BuildControlled
<1>8. CASE \/ BuildProgram
           \/ \E target \in ComponentRefs : Handle(target)
           \/ \E p \in Ports : PortHandle(p)
           \/ UNCHANGED vars
  BY <1>8, FrameKeepsCapabilityInv DEF BuildProgram, Handle, PortHandle, vars
<1> QED
  BY <1>1, <1>2, <1>3, <1>4, <1>5, <1>6, <1>7, <1>8 DEF Next

(* A runtime that either builder let through: every capability its Program *)
(* issued finds exactly one Driver or control whenever it is used, and     *)
(* nothing declared initially or bound exactly belongs to another Program. *)
THEOREM CapabilitiesResolveHolds == Spec => []CapabilitiesResolve
<1>1. AssemblyInv /\ CapabilityInv /\ [Next]_vars => (AssemblyInv /\ CapabilityInv)'
  BY NextKeepsInv, NextKeepsCapabilityInv
<1>2. AssemblyInv /\ CapabilityInv => CapabilitiesResolve
  BY InvImpliesCapabilitiesResolve
<1> QED BY InitAssemblyInv, InitCapabilityInv, <1>1, <1>2, PTL DEF Spec
=============================================================================
