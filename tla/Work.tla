--------------------------------- MODULE Work ---------------------------------
(***************************************************************************)
(* The vocabulary both runtimes share: Components and their Subscriptions, *)
(* the work they declare and its identity (src/src/lib.rs).                *)
(*                                                                         *)
(* Component code is the environment.  A transition may desire any         *)
(* subscriptions and return any batch of declarations; what the Component  *)
(* computes from its messages is abstracted to that choice.  Payloads are  *)
(* abstracted to the identity of the work they belong to, an Item.         *)
(***************************************************************************)
EXTENDS Reconciliation, Naturals, FiniteSets, Sequences

CONSTANTS
  NumComponents,    \* Components, numbered in ComponentId order
  NumSubscriptions, \* Subscription identities of each, in SubscriptionId order
  Descriptors,      \* Source descriptors (with their capability)
  Provider,         \* the Component every Port is bound to
  DeclarationKinds, \* which declarations Components return
  Mishaps,          \* which failures of user code and mechanisms may happen
  MaxGenerations,   \* bound: Source activations
  PlanOutputs,      \* what a Source's plan may make of a raw event, below
  MaxItems,         \* bound: items one Source emits before its terminal event
  MaxFrames,        \* bound: events the plan of one Source lets through
  MaxDeclarations,  \* bound: declarations interpreted
  MaxBatch,         \* bound: declarations in one Command
  HostSends,        \* bound: messages and notifications the host sends
  HostRequests      \* bound: Requests the host makes

Components == 1 .. NumComponents
Subscriptions == 1 .. NumSubscriptions
Generations == 1 .. MaxGenerations
Keys == Components \X Subscriptions
Declared == 1 .. MaxDeclarations
Asks == 1 .. HostRequests

ASSUME WorkAssumption ==
  /\ {NumComponents, NumSubscriptions, MaxGenerations, MaxItems, MaxFrames,
      MaxDeclarations, MaxBatch, HostSends, HostRequests} \subseteq Nat
  /\ PlanOutputs \in [BOOLEAN -> SUBSET Seq(BOOLEAN)]
  /\ Provider \in Components
  /\ NoDescriptor \notin Descriptors
  /\ DeclarationKinds \subseteq
       {"effect", "discard", "send", "notify", "request", "reply", "after"}

Mishap(kind) == kind \in Mishaps

-----------------------------------------------------------------------------
(***************************************************************************)
(* Items name work: <<kind, number, owner>>.  "effect" is a mapped effect  *)
(* and "discard" one whose outcome is discarded; the owner of a            *)
(* declaration is the Component that issued it; <<"source", g, n>> is the  *)
(* n-th raw event accepted from generation g and <<"frame", g, n>> the     *)
(* n-th event its plan made of them; "ask" is a host Request.              *)
(***************************************************************************)
DeclaredItem ==
  {"effect", "discard", "send", "request", "reply", "after"} \X Declared \X Components
SourceItem == {"source"} \X Generations \X (1 .. MaxItems + 1)
FrameItem == {"frame"} \X Generations \X (1 .. MaxFrames)
HostItem == ({"ingress"} \X (1 .. HostSends) \X {0}) \cup ({"ask"} \X Asks \X {0})
Item == DeclaredItem \cup SourceItem \cup FrameItem \cup HostItem
NoItem == <<"none", 0, 0>>
NoKey == <<0, 0>>

EffectItem == {"effect", "discard"} \X Declared \X Components
TimerItem == {"after"} \X Declared \X Components
Correlation == ({"request"} \X Declared \X Components) \cup ({"ask"} \X Asks \X {0})
AskItem(h) == <<"ask", h, 0>>

Kind(item) == item[1]
OwnerOf(item) == item[3]
IsFrame(item) == Kind(item) = "frame"

-----------------------------------------------------------------------------
(***************************************************************************)
(* A SourcePlan's Layers turn a raw event into any number of outer ones;   *)
(* PlanOutputs says, for a raw event that is or is not terminal, which of  *)
(* them may be terminal.  The whole ends its Source if one event does.     *)
(***************************************************************************)
EndsSource(raw_terminal, output) ==
  raw_terminal \/ \E i \in DOMAIN output : output[i]

\* The declarations of a Command whose author holds these ReplyTo tokens; after
\* into_declarations, None and Batch are gone.
Declarations(tokens) ==
  [kind : DeclarationKinds \ {"send", "reply"}, target : {0}, token : {NoItem}]
  \cup [kind : DeclarationKinds \cap {"send"}, target : Components, token : {NoItem}]
  \cup [kind : DeclarationKinds \cap {"reply"}, target : {0}, token : tokens]
Declaration == Declarations(Correlation)

Tokens(batch) == {batch[i].token : i \in DOMAIN batch} \ {NoItem}

\* The Commands of at most `left` declarations; a token is replied to once.
Batches(tokens, left) ==
  {batch \in UNION {[1 .. n -> Declarations(tokens)] : n \in 0 .. MaxBatch} :
     /\ Len(batch) <= left
     /\ \A i, j \in DOMAIN batch :
          i # j => batch[i].token = NoItem \/ batch[i].token # batch[j].token}
==============================================================================
