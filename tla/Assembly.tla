------------------------------ MODULE Assembly ------------------------------
(***************************************************************************)
(* Assembling a runtime: ProgramBuilder issues logical handles and closes  *)
(* the Program; LiveRuntimeBuilder or ControlledRuntimeBuilder then binds  *)
(* the declared capabilities (src/src/lib.rs, LiveBindings and             *)
(* ControlledBindings).  Checks compare names, types and tokens; at run    *)
(* time the owner looks the same things up with other comparisons.         *)
(*                                                                         *)
(* The program that calls the builders is the environment: it may pass any *)
(* handle it holds, of this builder or of another one (Elsewhere).         *)
(***************************************************************************)
EXTENDS Naturals, Sequences, FiniteSets, Functions

CONSTANTS
  ComponentIds, ComponentTypes,   \* logical identities, types implementing Component
  MessageOf,                      \* Component::Message of each type
  Protocols, PortIds, SubscriptionIds,
  EffectTypes, SourceTypes,       \* descriptor types
  TerminalOf,                     \* the descriptor a Source type lowers to
  StreamTypes, StdinLines,        \* StreamDescriptor<T> of each T; StdinLines
  Scopes  \* bounds: how many calls of each sort a calling program makes

ASSUME AssemblyAssumption ==
  /\ DOMAIN MessageOf = ComponentTypes
  /\ TerminalOf \in [SourceTypes -> SourceTypes]
  /\ StreamTypes \subseteq SourceTypes
  /\ \A t \in SourceTypes : TerminalOf[TerminalOf[t]] = TerminalOf[t]
  /\ Scopes \subseteq [components : Nat, work : Nat, ports : Nat, bindings : Nat,
                        capabilities : Nat, registrations : Nat]

VARIABLES
  phase,      \* "declaring", "program", "binding", "running", or "refused"
  profile,    \* the runtime builder the Program went to
  components, ports, bindings, effects, sources, nextCapability,  \* ProgramBuilder
  effectBindings, sourceBindings,                                 \* runtime builder
  handles,    \* live handles the host was given
  scope       \* the bounds this calling program stays within

programVars == <<components, ports, bindings, effects, sources, nextCapability>>
registryVars == <<effectBindings, sourceBindings>>
vars == <<phase, profile, programVars, registryVars, handles, scope>>

Programs == {"Here", "Elsewhere"}
NoToken == [program |-> "none", id |-> 0]
Elements(s) == {s[i] : i \in DOMAIN s}
ExactlyOne(S) == \E x \in S : S = {x}

(* Handles the calling program may hold. *)
ComponentRefs ==
  {[program |-> "Here", id |-> c.id, type |-> c.type] : c \in Elements(components)}
  \cup [program : {"Elsewhere"}, id : ComponentIds, type : ComponentTypes]
Ports ==
  {[program |-> "Here", protocol |-> p.protocol, id |-> p.id] : p \in Elements(ports)}
  \cup [program : {"Elsewhere"}, protocol : Protocols, id : PortIds]
ForeignCapabilities(types) ==
  {[token |-> [program |-> "Elsewhere", id |-> 0], descriptor |-> t] : t \in types}
EffectCapabilities == Elements(effects) \cup ForeignCapabilities(EffectTypes)
SourceCapabilities == Elements(sources) \cup ForeignCapabilities(SourceTypes)

(* One declaration of a Component's startup Command or initial Subscriptions. *)
Uses ==
  [use : {"effect"}, capability : EffectCapabilities]
  \cup [use : {"send"}, target : ComponentRefs]
  \cup [use : {"notify", "request"}, port : Ports]
  \cup [use : {"source"}, id : SubscriptionIds, capability : SourceCapabilities]

Init ==
  /\ phase = "declaring" /\ profile = "none"
  /\ components = <<>> /\ ports = <<>> /\ bindings = <<>>
  /\ effects = <<>> /\ sources = <<>> /\ nextCapability = 0
  /\ effectBindings = <<>> /\ sourceBindings = <<>>
  /\ handles = {}
  /\ scope \in Scopes

-----------------------------------------------------------------------------
(* ProgramBuilder. *)

component(id, type, work) ==
  /\ phase = "declaring" /\ Len(components) < scope.components
  /\ components' = Append(components, [id |-> id, type |-> type, work |-> work])
  /\ UNCHANGED <<phase, profile, ports, bindings, effects, sources, nextCapability,
                 registryVars, handles, scope>>

port(protocol, id) ==
  /\ phase = "declaring" /\ Len(ports) < scope.ports
  /\ ports' = Append(ports, [protocol |-> protocol, id |-> id])
  /\ UNCHANGED <<phase, profile, components, bindings, effects, sources, nextCapability,
                 registryVars, handles, scope>>

bind_port(p, provider) ==
  /\ phase = "declaring" /\ Len(bindings) < scope.bindings
  /\ bindings' = Append(bindings, [port |-> p, provider |-> provider])
  /\ UNCHANGED <<phase, profile, components, ports, effects, sources, nextCapability,
                 registryVars, handles, scope>>

NewCapability(descriptor) ==
  [token |-> [program |-> "Here", id |-> nextCapability], descriptor |-> descriptor]

effect(descriptor) ==
  /\ phase = "declaring" /\ nextCapability < scope.capabilities
  /\ effects' = Append(effects, NewCapability(descriptor))
  /\ nextCapability' = nextCapability + 1
  /\ UNCHANGED <<phase, profile, components, ports, bindings, sources, registryVars, handles, scope>>

source(descriptor) ==
  /\ phase = "declaring" /\ nextCapability < scope.capabilities
  /\ sources' = Append(sources, NewCapability(descriptor))
  /\ nextCapability' = nextCapability + 1
  /\ UNCHANGED <<phase, profile, components, ports, bindings, effects, registryVars, handles, scope>>

\* Wrong variant: one identity may name a Component of each type.
IdsUniquePerType ==
  IsInjective([i \in DOMAIN components |-> <<components[i].id, components[i].type>>])

ComponentIdsUnique == IsInjective([i \in DOMAIN components |-> components[i].id])
PortsUnique == IsInjective(ports)

BindingAccepted(b) ==
  /\ b.port.program = "Here"
  /\ b.provider.program = "Here"
  /\ \E i \in DOMAIN components :
       components[i].id = b.provider.id /\ components[i].type = b.provider.type

(* binding_index of both runtimes compares protocol and name only. *)
BindingsOf(p) ==
  {i \in DOMAIN bindings : bindings[i].port.protocol = p.protocol /\ bindings[i].port.id = p.id}

ProgramClosed ==
  /\ ComponentIdsUnique
  /\ PortsUnique
  /\ \A i \in DOMAIN bindings : BindingAccepted(bindings[i])
  /\ \A i \in DOMAIN ports : ExactlyOne(BindingsOf(ports[i]))

(* ProgramBuilder::build, then the builder of one runtime. *)
BuildProgram ==
  /\ phase = "declaring"
  /\ phase' = IF ProgramClosed THEN "program" ELSE "refused"
  /\ UNCHANGED <<profile, programVars, registryVars, handles, scope>>

OpenBuilder(kind) ==
  /\ phase = "program"
  /\ phase' = "binding" /\ profile' = kind
  /\ UNCHANGED <<programVars, registryVars, handles, scope>>

-----------------------------------------------------------------------------
(* LiveRuntimeBuilder and ControlledRuntimeBuilder.  The controlled one     *)
(* keeps its type-wide registrations in sets: a second one changes nothing. *)

Registrations == Len(effectBindings) + Len(sourceBindings)

RegisterEffects(kind, types) ==
  /\ phase = "binding" /\ profile = kind
  /\ Registrations + Len(types) <= scope.registrations
  /\ effectBindings' = effectBindings \o types
  /\ UNCHANGED <<phase, profile, programVars, sourceBindings, handles, scope>>

RegisterSource(kind, binding) ==
  /\ phase = "binding" /\ profile = kind
  /\ Registrations < scope.registrations
  /\ sourceBindings' = Append(sourceBindings, binding)
  /\ UNCHANGED <<phase, profile, programVars, effectBindings, handles, scope>>

Typed(descriptor) == [kind |-> "typed", descriptor |-> descriptor, token |-> NoToken]
Exact(kind, capability) ==
  [kind |-> kind, descriptor |-> TerminalOf[capability.descriptor], token |-> capability.token]

bind_effect(descriptor) == RegisterEffects("live", <<descriptor>>)
bind_stdio(out, err) == RegisterEffects("live", <<out, err>>)
bind_source(descriptor) == RegisterSource("live", Typed(descriptor))
bind_mpsc(capability) ==
  /\ TerminalOf[capability.descriptor] \in StreamTypes
  /\ RegisterSource("live", Exact("mpsc", capability))
bind_stdin(capability) ==
  /\ TerminalOf[capability.descriptor] = StdinLines
  /\ RegisterSource("live", Exact("stdin", capability))

control_effect(descriptor) == RegisterEffects("controlled", <<descriptor>>)
control_source(descriptor) == RegisterSource("controlled", Typed(descriptor))
control_stream(capability) ==
  /\ TerminalOf[capability.descriptor] \in StreamTypes
  /\ RegisterSource("controlled", Exact("exact", capability))

(* Which binding satisfies a declaration; which one conflicts with another. *)
\* Wrong variant: an exact binding counted for every capability of its type.
SatisfiesItsType(b, requirement) == TerminalOf[requirement.descriptor] = b.descriptor

Satisfies(b, requirement) ==
  /\ TerminalOf[requirement.descriptor] = b.descriptor
  /\ b.kind = "typed" \/ b.token = requirement.token

Conflicts(b, other) ==
  /\ b.descriptor = other.descriptor
  /\ b.kind = "mpsc" => other.kind = "typed" \/ other.token = b.token

(* What the owner looks up when a Subscription is realized: the terminal of *)
(* the plan and the capability the plan carries.                            *)
Matches(b, plan) ==
  /\ TerminalOf[plan.descriptor] = b.descriptor
  /\ b.kind = "typed" \/ b.token = plan.token

ExactDeclared(b) ==
  /\ b.token.program = "Here"
  /\ \E i \in DOMAIN sources :
       sources[i].token = b.token /\ TerminalOf[sources[i].descriptor] = b.descriptor

LiveBindingsComplete ==
  /\ IsInjective(effectBindings)
  /\ \A i, j \in DOMAIN sourceBindings :
       i < j => /\ ~Conflicts(sourceBindings[i], sourceBindings[j])
                /\ ~Conflicts(sourceBindings[j], sourceBindings[i])
  /\ \A b \in Elements(sourceBindings) : b.kind # "typed" => ExactDeclared(b)
  /\ \A r \in Elements(effects) :
       ExactlyOne({i \in DOMAIN effectBindings : effectBindings[i] = r.descriptor})
  /\ \A r \in Elements(sources) :
       ExactlyOne({i \in DOMAIN sourceBindings : Satisfies(sourceBindings[i], r)})

ControlledBindingsComplete ==
  /\ \A i \in DOMAIN sourceBindings :
       sourceBindings[i].kind = "exact" =>
         /\ ExactDeclared(sourceBindings[i])
         /\ \A j \in DOMAIN sourceBindings :
              j # i => /\ sourceBindings[j].token # sourceBindings[i].token
                       /\ sourceBindings[j] # Typed(sourceBindings[i].descriptor)
  /\ \A r \in Elements(effects) : r.descriptor \in Elements(effectBindings)
  /\ \A r \in Elements(sources) : \E b \in Elements(sourceBindings) : Satisfies(b, r)

-----------------------------------------------------------------------------
(* What the Program says of a handle found in a Command or a Subscription. *)

DeclaresEffect(capability) ==
  /\ capability.token.program = "Here"
  /\ \E r \in Elements(effects) :
       r.token = capability.token /\ r.descriptor = capability.descriptor

DeclaresSourcePlan(capability) ==
  /\ capability.token.program = "Here"
  /\ \E r \in Elements(sources) :
       /\ r.token = capability.token
       /\ r.descriptor = capability.descriptor
       /\ TerminalOf[r.descriptor] = TerminalOf[capability.descriptor]

(* component_index: identity and Message type. *)
Receivers(id, message) ==
  {i \in DOMAIN components : components[i].id = id /\ MessageOf[components[i].type] = message}

DeclaresComponent(target) ==
  target.program = "Here" /\ Receivers(target.id, MessageOf[target.type]) # {}

DeclaresPort(p) == p.program = "Here" /\ BindingsOf(p) # {}

Authorized(u) ==
  CASE u.use = "effect" -> DeclaresEffect(u.capability)
    [] u.use = "send" -> DeclaresComponent(u.target)
    [] u.use \in {"notify", "request"} -> DeclaresPort(u.port)
    [] u.use = "source" -> DeclaresSourcePlan(u.capability)

(* validate_initial_capabilities of one Component. *)
InitialWorkValid(work) ==
  /\ \A i \in DOMAIN work : Authorized(work[i])
  /\ \A i, j \in DOMAIN work :
       i # j /\ work[i].use = "source" /\ work[j].use = "source" => work[i].id # work[j].id

(* The two build functions: the bindings, then every Component's startup. *)
Build(kind, complete) ==
  /\ phase = "binding" /\ profile = kind
  /\ phase' = IF complete /\ \A c \in Elements(components) : InitialWorkValid(c.work)
              THEN "running" ELSE "refused"
  /\ UNCHANGED <<profile, programVars, registryVars, handles, scope>>

BuildLive == Build("live", LiveBindingsComplete)
BuildControlled == Build("controlled", ControlledBindingsComplete)

(* LiveRuntime::handle compares the Component type, port_handle the names. *)
Handle(target) ==
  /\ phase = "running" /\ profile = "live"
  /\ target.program = "Here"
  /\ \E c \in Elements(components) : c.id = target.id /\ c.type = target.type
  /\ handles' = handles \cup {[to |-> "component", ref |-> target]}
  /\ UNCHANGED <<phase, profile, programVars, registryVars, scope>>

PortHandle(p) ==
  /\ phase = "running" /\ profile = "live"
  /\ p.program = "Here"
  /\ \E i \in BindingsOf(p) : bindings[i].port.program = p.program
  /\ handles' = handles \cup {[to |-> "port", ref |-> p]}
  /\ UNCHANGED <<phase, profile, programVars, registryVars, scope>>

Works == UNION {[1 .. n -> Uses] : n \in 0 .. scope.work}

Next ==
  \/ \E id \in ComponentIds, type \in ComponentTypes, work \in Works : component(id, type, work)
  \/ \E protocol \in Protocols, id \in PortIds : port(protocol, id)
  \/ \E p \in Ports, provider \in ComponentRefs : bind_port(p, provider)
  \/ \E d \in EffectTypes : effect(d) \/ bind_effect(d) \/ control_effect(d)
  \/ \E out, err \in EffectTypes : out # err /\ bind_stdio(out, err)
  \/ \E d \in SourceTypes : source(d) \/ bind_source(d) \/ control_source(d)
  \/ \E c \in SourceCapabilities : bind_mpsc(c) \/ bind_stdin(c) \/ control_stream(c)
  \/ BuildProgram
  \/ \E kind \in {"live", "controlled"} : OpenBuilder(kind)
  \/ BuildLive \/ BuildControlled
  \/ \E target \in ComponentRefs : Handle(target)
  \/ \E p \in Ports : PortHandle(p)

Spec == Init /\ [][Next]_vars

-----------------------------------------------------------------------------
Closed == phase \in {"program", "binding", "running"}
DeliveredTo(p) ==
  {i \in DOMAIN components : \E b \in BindingsOf(p) :
     i \in Receivers(bindings[b].provider.id, MessageOf[bindings[b].provider.type])}

(* In a closed Program every Port the builder issued leads to one          *)
(* Component, the one some bind_port call named for that Port: the owner's *)
(* two lookups (binding_index by protocol and name, component_index by     *)
(* identity and Message type) can neither miss nor choose, although        *)
(* neither compares what build() compared; and live handles lead there too.*)
PortsResolve ==
  /\ Closed =>
       \A i \in DOMAIN ports :
         \E k \in DOMAIN bindings, c \in DOMAIN components :
           /\ bindings[k].port = [program |-> "Here", protocol |-> ports[i].protocol,
                                  id |-> ports[i].id]
           /\ components[c].id = bindings[k].provider.id
           /\ components[c].type = bindings[k].provider.type
           /\ BindingsOf(ports[i]) = {k} /\ DeliveredTo(ports[i]) = {c}
  /\ \A h \in handles :
       IF h.to = "port" THEN ExactlyOne(DeliveredTo(h.ref))
       ELSE ExactlyOne(Receivers(h.ref.id, MessageOf[h.ref.type]))

(* In a running runtime every capability of its Program, used then or many *)
(* turns later, is authorized and finds exactly one Driver or controlled   *)
(* behaviour; no binding serves a capability of another Program; and what  *)
(* the Components declared initially resolves in the same way.             *)
CapabilitiesResolve ==
  phase = "running" =>
    /\ \A c \in Elements(effects) :
         DeclaresEffect(c) /\ c.descriptor \in Elements(effectBindings)
    /\ \A c \in Elements(sources) :
         /\ DeclaresSourcePlan(c)
         /\ ExactlyOne({b \in Elements(sourceBindings) : Matches(b, c)})
         /\ profile = "live" =>
              ExactlyOne({i \in DOMAIN sourceBindings : Matches(sourceBindings[i], c)})
    /\ \A b \in Elements(sourceBindings) :
         b.kind # "typed" => \E c \in Elements(sources) : Matches(b, c) /\ c.token = b.token
    /\ \A i \in DOMAIN components : \A k \in DOMAIN components[i].work :
         LET u == components[i].work[k] IN
         CASE u.use = "effect" -> u.capability \in Elements(effects)
           [] u.use = "source" -> u.capability \in Elements(sources)
           [] u.use \in {"notify", "request"} -> ExactlyOne(DeliveredTo(u.port))
           [] u.use = "send" -> ExactlyOne(Receivers(u.target.id, MessageOf[u.target.type]))
=============================================================================
