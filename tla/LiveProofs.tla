------------------------------ MODULE LiveProofs ------------------------------
(***************************************************************************)
(* The theorems about the live runtime scope, for every number of          *)
(* Components, Subscriptions, descriptors and hosts: LiveInv is inductive. *)
(* The first part proves type correctness, one section per group of        *)
(* variables with one step for the actions that leave the group alone and  *)
(* one for each that writes it; the second part proves the other parts of  *)
(* LiveInv, and the last section draws the conclusions.                    *)
(***************************************************************************)
EXTENDS LiveInvariants, TurnTheorems

-----------------------------------------------------------------------------
(***************************************************************************)
(* The values the actions build.                                           *)
(***************************************************************************)

\* The provider of the Ports (ProgramBuilder's binding) is a Component.
LEMMA ProviderType == Provider \in Components
BY WorkAssumption

\* An empty channel and a finished Command are typed.
LEMMA EmptyQueue == <<>> \in Seq(Event)
OBVIOUS

\* A finished Command is typed.
LEMMA EmptyCommand == <<>> \in Seq(Declaration)
OBVIOUS

\* LiveEvent::Message is well typed for any work and Component.
LEMMA MessageType ==
  ASSUME NEW item \in Item, NEW target \in Components, NEW terminal \in BOOLEAN
  PROVE  Message(item, target, terminal) \in Event
BY DEF Message, Event

\* The markers of begin_shutdown.
LEMMA MarkerType ==
  ASSUME NEW mode \in {"Drain", "Cancel"}
  PROVE  ShutdownEvent(mode) \in Event
BY DEF ShutdownEvent, EventOf, Event

\* What effect and timer tasks offer to the scope.
LEMMA DriverEventType ==
  /\ \A e \in EffectItem : EventOf("EffectOutcome", e, e[3]) \in Event
  /\ \A t \in TimerItem : EventOf("TimerFired", t, t[3]) \in Event
BY DEF EffectItem, TimerItem, EventOf, Event

\* What PortHandles and ComponentHandles offer to the scope.
LEMMA HostEventType ==
  ASSUME NEW item \in HostItem
  PROVE  /\ \A type \in {"PortNotification", "PortRequest"} :
              EventOf(type, item, Provider) \in Event
         /\ \A c \in Components : EventOf("Message", item, c) \in Event
BY ProviderType DEF EventOf, Event, Item

\* What a Source's gate offers to the scope: the gate being Active bounds the
\* number of the event.
LEMMA SourceEventType ==
  ASSUME NEW g \in Generations, NEW terminal \in BOOLEAN,
         HistoryTypeOK, BoundInv, RealizedInv,
         task[SourceTask(g)] = "running", GateAdmits(g)
  PROVE  /\ SourceEvent(g, emitted[g] + 1, terminal) \in Event
         /\ <<"source", g, emitted[g] + 1>> \in Item
<1>1. emitted[g] + 1 \in 1 .. MaxItems + 1
  BY WorkAssumption DEF BoundInv, GateAdmits, HistoryTypeOK
<1>2. <<"source", g, emitted[g] + 1>> \in SourceItem
  BY <1>1 DEF SourceItem
<1>3. KeyOf(g)[1] \in Components
  BY DEF RealizedInv, Keys
<1> QED
  BY <1>2, <1>3 DEF SourceEvent, Event, Item

\* What the owner sends for the next outer event of the event in hand.
LEMMA FrameType ==
  ASSUME TypeOK, PositionInv, BoundInv, pc = "push"
  PROVE  /\ NextFrame \in Item /\ current.item[2] \in Generations
         /\ current.target \in Components
         /\ outer \in Seq(BOOLEAN) /\ Head(outer) \in BOOLEAN
         /\ Tail(outer) \in Seq(BOOLEAN) /\ Len(Tail(outer)) = Len(outer) - 1
<1>1. current \in Event /\ current.type = "SourceEvent" /\ outer # <<>> /\ outer \in Seq(BOOLEAN)
  BY DEF PositionInv, TypeOK, OwnerTypeOK
<1>2. current.item \in SourceItem /\ current.target \in Components
  BY <1>1 DEF Event
<1>3. current.item[2] \in Generations
  BY <1>2 DEF SourceItem
<1>4. Len(outer) \in Nat \ {0}
  BY <1>1
<1>5. produced[current.item[2]] \in Nat
  BY <1>3 DEF TypeOK, HistoryTypeOK
<1>6. produced[current.item[2]] + 1 \in 1 .. MaxFrames
  <2>1. produced[current.item[2]] + Len(outer) <= MaxFrames
    BY DEF BoundInv
  <2>2. MaxFrames \in Nat
    BY WorkAssumption
  <2> QED
    BY <1>4, <1>5, <2>1, <2>2
<1>7. NextFrame \in Item
  BY <1>3, <1>6 DEF NextFrame, Item, FrameItem
<1>8. /\ Head(outer) \in BOOLEAN /\ Tail(outer) \in Seq(BOOLEAN)
      /\ Len(Tail(outer)) = Len(outer) - 1
  BY <1>1, <1>4
<1> QED
  BY <1>1, <1>2, <1>3, <1>7, <1>8

\* interpret_command is at a declaration of the Component whose turn it is.
LEMMA IssueType ==
  ASSUME TypeOK, PositionInv, BoundInv, pc = "issue"
  PROVE  /\ declared + 1 \in Declared /\ component \in Components
         /\ Head(commands) \in Declaration /\ Tail(commands) \in Seq(Declaration)
         /\ Len(Tail(commands)) = Len(commands) - 1
<1>1. commands \in Seq(Declaration) /\ commands # <<>> /\ component \in Components
  BY DEF TypeOK, TurnTypeOK, PositionInv, TurnPosition
<1>2. Len(commands) \in Nat \ {0}
  BY <1>1
<1>3. declared + 1 \in Declared
  BY <1>2, WorkAssumption DEF TypeOK, WorkTypeOK, BoundInv, Declared
<1> QED
  BY <1>1, <1>2, <1>3

\* What the declaration is issued as.
LEMMA NewItemType ==
  ASSUME TypeOK, PositionInv, BoundInv, pc = "issue"
  PROVE  /\ \A kind \in {"effect", "discard", "send", "request", "reply", "after"} :
              NewItem(kind) \in Item
         /\ \A kind \in {"effect", "discard"} : NewItem(kind) \in EffectItem
         /\ NewItem("after") \in TimerItem
         /\ NewItem("request") \in Correlation
BY IssueType DEF NewItem, EffectItem, TimerItem, Correlation, Item, DeclaredItem

\* A Reply carries a token that was handed out with a Request.
LEMMA ReplyType ==
  ASSUME TypeOK, PositionInv, BoundInv, Issuing({"reply"})
  PROVE  LET token == Head(commands).token IN
         token \in Correlation /\ (Kind(token) # "ask" => OwnerOf(token) \in Components)
<1>1. Head(commands) \in Declaration /\ Head(commands).kind = "reply"
  BY IssueType DEF Issuing
<1>2. Head(commands).token \in Correlation
  BY <1>1 DEF Declaration, Declarations
<1> QED
  BY <1>2 DEF Correlation, Kind, OwnerOf

\* A Send names a Component.
LEMMA SendType ==
  ASSUME TypeOK, PositionInv, BoundInv, Issuing({"send", "notify"}),
         Head(commands).kind = "send"
  PROVE  Head(commands).target \in Components
BY IssueType DEF Issuing, Declaration, Declarations

-----------------------------------------------------------------------------
(***************************************************************************)
(* The scope: phase, queue, receiver.                                      *)
(***************************************************************************)

\* Accepting an event keeps the channel typed, whoever offers it.
LEMMA AcceptType ==
  ASSUME ScopeTypeOK, NEW event \in Event,
         AcceptIngress(event) \/ AcceptSource(event) \/ AcceptFinite(event)
  PROVE  ScopeTypeOK'
BY DEF ScopeTypeOK, AcceptIngress, AcceptSource, AcceptFinite

\* begin_shutdown moves the phase to Draining or Cancelling only.
LEMMA ShutdownType ==
  ASSUME ScopeTypeOK, NEW mode \in {"Drain", "Cancel"}, BeginShutdown(mode, ShutdownEvent(mode))
  PROVE  ScopeTypeOK'
BY MarkerType DEF ScopeTypeOK, BeginShutdown, ShutdownPhase, ScopePhase

\* Dropping LiveCore empties the channel.
LEMMA DropScope ==
  ASSUME ScopeTypeOK, NEW end, DropCore(end)
  PROVE  ScopeTypeOK'
BY EmptyQueue DEF ScopeTypeOK, DropCore

\* What hosts send is typed.
LEMMA HostScope ==
  ASSUME TypeOK, Host
  PROVE  ScopeTypeOK'
<1>0. ScopeTypeOK
  BY DEF TypeOK
<1>1. ASSUME NEW type \in {"Message", "PortNotification"}, NEW target \in Components,
             type = "Message" \/ target = Provider, HostSendsEvent(type, target)
      PROVE  ScopeTypeOK'
  <2>1. <<"ingress", ingress + 1, 0>> \in HostItem
    BY <1>1, WorkAssumption DEF HostSendsEvent, TypeOK, HostTypeOK, HostItem
  <2>2. EventOf(type, <<"ingress", ingress + 1, 0>>, target) \in Event
    BY <1>1, <2>1, HostEventType
  <2> QED
    BY <1>0, <1>1, <2>2, AcceptType DEF HostSendsEvent
<1>2. ASSUME NEW h \in Asks, HostAsks(h)
      PROVE  ScopeTypeOK'
  <2>1. EventOf("PortRequest", AskItem(h), Provider) \in Event
    BY HostEventType DEF AskItem, HostItem
  <2> QED
    BY <1>0, <1>2, <2>1, AcceptType DEF HostAsks
<1>3. CASE \E mode \in {"Drain", "Cancel"} : HostShutsDown(mode)
  BY <1>0, <1>3, ShutdownType DEF HostShutsDown
<1>4. CASE HostDropsTask
  BY <1>0, <1>4, ShutdownType DEF HostDropsTask
<1> QED
  BY <1>1, <1>2, <1>3, <1>4, ProviderType DEF Host

\* What Driver tasks send is typed, and within the bounds.
LEMMA DriversScope ==
  ASSUME TypeOK, BoundInv, RealizedInv, Drivers
  PROVE  ScopeTypeOK'
<1>0. ScopeTypeOK /\ HistoryTypeOK
  BY DEF TypeOK
<1>1. ASSUME NEW g \in Generations, NEW terminal \in BOOLEAN,
             task[SourceTask(g)] = "running", GateAccept(g, terminal)
      PROVE  ScopeTypeOK'
  <2>1. SourceEvent(g, emitted[g] + 1, terminal) \in Event
    BY <1>0, <1>1, SourceEventType DEF GateAccept
  <2> QED
    BY <1>0, <1>1, <2>1, AcceptType DEF GateAccept
<1>2. CASE \E g \in Generations, terminal \in BOOLEAN : SourceEmits(g, terminal)
  BY <1>1, <1>2 DEF SourceEmits
<1>3. CASE \E g \in Generations : SourceReturns(g)
  BY <1>0, <1>1, <1>3 DEF SourceReturns, scopeVars, ScopeTypeOK
<1>4. CASE \E e \in EffectItem : EffectCompletes(e)
  BY <1>0, <1>4, DriverEventType, AcceptType DEF EffectCompletes
<1>5. CASE \E t \in TimerItem : TimerElapses(t)
  BY <1>0, <1>5, DriverEventType, AcceptType DEF TimerElapses
<1>6. CASE \E t \in TaskId : TaskReturns(t) \/ DriverFails(t) \/ TaskCancelled(t)
  BY <1>0, <1>6 DEF TaskReturns, DriverFails, TaskCancelled, scopeVars, ScopeTypeOK
<1> QED
  BY <1>2, <1>3, <1>4, <1>5, <1>6 DEF Drivers, TaskId

\* What interpret_command sends is typed.
LEMMA IssueScope ==
  ASSUME TypeOK, PositionInv, BoundInv, Issue
  PROVE  ScopeTypeOK'
<1> DEFINE d == Head(commands)
<1>0. ScopeTypeOK /\ pc = "issue"
  BY DEF TypeOK, Issue, IssueEffect, IssueAfter, IssueSend, IssueRequest, IssueReply,
         IssueRefused, ConversionUnwinds, Issuing
<1>1. CASE IssueEffect \/ IssueAfter \/ IssueRefused
  BY <1>0, <1>1 DEF IssueEffect, IssueAfter, IssueRefused, ScopeTypeOK, scopeVars
<1>2. CASE IssueSend
  <2>1. (IF d.kind = "send" THEN d.target ELSE Provider) \in Components
    BY <1>2, SendType, ProviderType DEF IssueSend
  <2> QED
    BY <1>0, <1>2, <2>1, NewItemType, MessageType, AcceptType DEF IssueSend
<1>3. CASE IssueRequest
  BY <1>0, <1>3, NewItemType, MessageType, AcceptType, ProviderType DEF IssueRequest
<1>4. CASE IssueReply
  <2>1. CASE UNCHANGED scopeVars
    BY <1>0, <2>1 DEF ScopeTypeOK, scopeVars
  <2>2. CASE /\ Kind(d.token) # "ask"
             /\ AcceptFinite(Message(NewItem("reply"), OwnerOf(d.token), FALSE))
    <3>1. OwnerOf(d.token) \in Components
      BY <1>4, <2>2, ReplyType DEF IssueReply
    <3> QED
      BY <1>0, <2>2, <3>1, NewItemType, MessageType, AcceptType
  <2> QED
    BY <1>4, <2>1, <2>2 DEF IssueReply
<1>5. CASE ConversionUnwinds
  BY <1>0, <1>5, DropScope DEF ConversionUnwinds
<1> QED
  BY <1>1, <1>2, <1>3, <1>4, <1>5 DEF Issue

\* What the owner leaves in its channel is typed.
LEMMA OwnerScope ==
  ASSUME TypeOK, PositionInv, BoundInv, RealizedInv, Owner
  PROVE  ScopeTypeOK'
<1>0. ScopeTypeOK /\ (pc = "dispatch" => current \in Event)
  BY DEF TypeOK, PositionInv
<1>1. CASE \/ Start \/ Initialize \/ NextComponent \/ Committed \/ Reconcile \/ Apply \/ Change
           \/ Interpret \/ Loop \/ JoinTask \/ DiscardStale \/ Transition \/ IgnoreSourceEvent
           \/ MapSourceEvent \/ DispatchMarker \/ DispatchPanics \/ JoinBeforeCancel
           \/ StopBeforeCancel \/ CleanupAbort
  BY <1>0, <1>1 DEF ScopeTypeOK, scopeVars, Start, Initialize, NextComponent, Committed,
         Reconcile, Apply, Change, Interpret, TurnFrame, Loop, JoinTask, DiscardStale, Transition,
         IgnoreSourceEvent, MapSourceEvent, DispatchMarker, DispatchPanics, JoinBeforeCancel,
         StopBeforeCancel, CleanupAbort
<1>2. CASE Issue
  BY <1>2, IssueScope
<1>3. CASE FinishDrain \/ FaultScope \/ FinishCleanup
  BY <1>0, <1>3, EmptyQueue DEF FinishDrain, FaultScope, FinishCleanup, ScopeClose,
         RecordFault, ScopeFault, ScopeTypeOK, ScopePhase
<1>4. CASE PushMapped
  <2>1. Message(NextFrame, current.target, Head(outer)) \in Event
    BY <1>4, FrameType, MessageType DEF PushMapped, LiveInv
  <2> QED
    BY <1>0, <1>4, <2>1, AcceptType DEF PushMapped
<1>5. CASE ProcessEffect
  <2>1. HasMapper(current.item) =>
          Message(current.item, OwnerOf(current.item), FALSE) \in Event
    BY MessageType DEF TypeOK, WorkTypeOK, HasMapper, EffectItem, Item, DeclaredItem, OwnerOf
  <2> QED
    BY <1>0, <1>5, <2>1, AcceptType DEF ProcessEffect, scopeVars, ScopeTypeOK
<1>6. CASE ProcessPortIngress
  <2>1. Message(current.item, Provider, FALSE) \in Event
    BY <1>0, <1>6, MessageType, ProviderType DEF ProcessPortIngress, Dispatching, Event, Item
  <2> QED
    BY <1>0, <1>6, <2>1, AcceptType DEF ProcessPortIngress
<1>7. CASE RetainOutcomes \/ Receive
  BY <1>0, <1>7 DEF RetainOutcomes, Receive, ScopeTypeOK
<1> QED
  BY <1>1, <1>2, <1>3, <1>4, <1>5, <1>6, <1>7 DEF Owner

\* Every step keeps the scope typed.
THEOREM ScopeStep ==
  ASSUME LiveInv, [Next]_vars
  PROVE  ScopeTypeOK'
<1>1. CASE UNCHANGED vars
  BY <1>1 DEF LiveInv, TypeOK, ScopeTypeOK, vars, scopeVars
<1> QED
  BY <1>1, HostScope, DriversScope, OwnerScope, DropScope
     DEF LiveInv, TypeOK, Next, OwnerAborted

-----------------------------------------------------------------------------
(***************************************************************************)
(* The owner's position and turn.                                          *)
(***************************************************************************)

\* The steps of hosts and Driver tasks, which never touch the owner.
LEMMA OthersLeaveOwner ==
  ASSUME Host \/ Drivers
  PROVE  UNCHANGED ownerVars
BY DEF Host, HostSendsEvent, HostAsks, HostShutsDown, HostDropsTask, Drivers, SourceEmits,
       SourceReturns, EffectCompletes, TimerElapses, TaskReturns, DriverFails, TaskCancelled

\* No outer events left is typed.
LEMMA EmptyOuter == <<>> \in Seq(BOOLEAN)
BY EmptySeq

\* Every step keeps the owner's position typed.
THEOREM OwnerStep ==
  ASSUME LiveInv, [Next]_vars
  PROVE  OwnerTypeOK'
<1>0. OwnerTypeOK /\ queue \in Seq(Event)
  BY DEF LiveInv, TypeOK, ScopeTypeOK
<1>1. CASE Host \/ Drivers \/ UNCHANGED vars
  BY <1>0, <1>1, OthersLeaveOwner DEF vars, ownerVars, OwnerTypeOK
<1>2. CASE OwnerAborted \/ Issue
  BY <1>0, <1>2 DEF OwnerAborted, Issue, ConversionUnwinds, DropCore, IssueEffect, IssueAfter,
         IssueSend, IssueRequest, IssueReply, IssueRefused, IssueFrame, Goto, OwnerTypeOK,
         OwnerPosition, OwnerEnded
<1>3. CASE Initialize
  BY <1>0, <1>3 DEF Initialize, TurnFrame, ObserveDrainCutoff, BeginDrain, Goto, OwnerTypeOK,
         OwnerPosition
<1>12. CASE Start \/ NextComponent
  BY <1>0, <1>12 DEF Start, NextComponent, Goto, OwnerTypeOK, OwnerPosition
<1>4. CASE Committed
  BY <1>0, <1>4 DEF Committed, TurnFrame, CheckScope, ObserveDrainCutoff, BeginDrain, Goto,
         OwnerTypeOK, OwnerPosition
<1>5. CASE Reconcile
  BY <1>0, <1>5 DEF Reconcile, TurnFrame, CheckScope, ObserveDrainCutoff, BeginDrain, Goto,
         OwnerTypeOK, OwnerPosition
<1>6. CASE Apply \/ Interpret
  BY <1>0, <1>6 DEF Apply, Interpret, TurnFrame, CheckScope, ObserveDrainCutoff, BeginDrain,
         EndTurn, Goto, OwnerTypeOK, OwnerPosition
<1>7. CASE Change
  BY <1>0, <1>7 DEF Change, Activate, TurnFrame, Goto, OwnerTypeOK, OwnerPosition
<1>8. CASE Loop \/ FinishDrain \/ JoinTask
  BY <1>0, <1>8, EmptyOuter DEF Loop, FinishDrain, JoinTask, ObserveDrainCutoff, BeginDrain, Goto,
         OwnerTypeOK, OwnerPosition, OwnerEnded
<1>9. CASE Receive
  BY <1>0, <1>9 DEF Receive, Goto, OwnerTypeOK, OwnerPosition
<1>13. CASE PushMapped
  <2>1. Tail(outer) \in Seq(BOOLEAN)
    BY <1>13, FrameType DEF PushMapped, LiveInv
  <2> QED
    BY <1>0, <1>13, <2>1 DEF PushMapped, Sending, Goto, OwnerTypeOK, OwnerPosition
<1>14. CASE MapSourceEvent
  <2>1. current.terminal \in BOOLEAN
    BY <1>14 DEF MapSourceEvent, Dispatching, LiveInv, PositionInv, Event
  <2>2. PlanOutputs[current.terminal] \in SUBSET Seq(BOOLEAN)
    BY <2>1, WorkAssumption, Zenon
  <2>3. outer' \in Seq(BOOLEAN)
    BY <1>14, <2>2 DEF MapSourceEvent, Outputs
  <2> QED
    BY <1>0, <1>14, <2>3 DEF MapSourceEvent, Sending, Goto, OwnerTypeOK, OwnerPosition
<1>10. CASE \/ DiscardStale \/ Transition \/ IgnoreSourceEvent
            \/ ProcessEffect \/ ProcessPortIngress \/ DispatchMarker \/ DispatchPanics
  BY <1>0, <1>10 DEF DiscardStale, Transition, IgnoreSourceEvent, ProcessEffect,
         ProcessPortIngress, DispatchMarker, DispatchPanics, OutcomeFrame, BeginDrain, Goto,
         OwnerTypeOK, OwnerPosition
<1>11. CASE \/ RetainOutcomes \/ JoinBeforeCancel \/ StopBeforeCancel \/ FaultScope
            \/ CleanupAbort \/ FinishCleanup
  BY <1>0, <1>11 DEF RetainOutcomes, Retain, JoinBeforeCancel, StopBeforeCancel, FaultScope,
         CleanupAbort, FinishCleanup, OutcomeFrame, Goto, OwnerTypeOK, OwnerPosition, OwnerEnded
<1> QED
  BY <1>1, <1>2, <1>3, <1>4, <1>5, <1>6, <1>7, <1>8, <1>9, <1>10, <1>11, <1>12, <1>13, <1>14
     DEF Next, Owner

\* Every step keeps the turn in hand and the reconcilers typed.
THEOREM TurnStep ==
  ASSUME LiveInv, [Next]_vars
  PROVE  TurnTypeOK'
<1>0. TurnTypeOK /\ held \in SUBSET Correlation /\ declared \in Nat
  BY WorkAssumption DEF LiveInv, TypeOK, WorkTypeOK
<1>1. CASE Host \/ Drivers \/ UNCHANGED vars
  BY <1>0, <1>1, OthersLeaveOwner DEF vars, ownerVars, turnVars, TurnTypeOK
<1>2. CASE OwnerAborted \/ ConversionUnwinds \/ FinishCleanup
  BY <1>0, <1>2, EmptyCommand
     DEF OwnerAborted, ConversionUnwinds, DropCore, FinishCleanup, TurnTypeOK
<1>3. CASE \/ IssueEffect \/ IssueAfter \/ IssueSend \/ IssueRequest \/ IssueReply
           \/ IssueRefused
  <2>1. Tail(commands) \in Seq(Declaration)
    BY <1>3, IssueType DEF LiveInv, Issuing, IssueEffect, IssueAfter, IssueSend, IssueRequest,
           IssueReply, IssueRefused
  <2> QED
    BY <1>0, <1>3, <2>1 DEF IssueFrame, IssueEffect, IssueAfter, IssueSend, IssueRequest,
           IssueReply, IssueRefused, TurnTypeOK
<1>4. CASE \/ Start \/ FinishDrain \/ JoinTask \/ Receive \/ DiscardStale \/ IgnoreSourceEvent
           \/ MapSourceEvent \/ PushMapped \/ ProcessEffect \/ ProcessPortIngress \/ DispatchMarker
           \/ DispatchPanics \/ RetainOutcomes \/ JoinBeforeCancel \/ StopBeforeCancel
           \/ FaultScope \/ CleanupAbort
  BY <1>0, <1>4 DEF Start, FinishDrain, JoinTask, Receive, DiscardStale, IgnoreSourceEvent,
         MapSourceEvent, PushMapped, ProcessEffect, ProcessPortIngress, DispatchMarker,
         DispatchPanics,
         RetainOutcomes, JoinBeforeCancel, StopBeforeCancel, FaultScope, CleanupAbort,
         OutcomeFrame, turnVars, TurnTypeOK
<1>5. CASE Initialize \/ Committed \/ Apply \/ Interpret
  BY <1>0, <1>5 DEF Initialize, Committed, Apply, Interpret, TurnFrame, TurnTypeOK
<1>6. CASE NextComponent
  <2>1. CASE UNCHANGED turnVars /\ UNCHANGED active
    BY <1>0, <2>1 DEF turnVars, TurnTypeOK
  <2>2. CASE Project(cursor, held) /\ UNCHANGED active
    <3>1. cursor \in Components
      BY <1>6 DEF NextComponent, LiveInv, PositionInv
    <3> QED
      BY <1>0, <2>2, <3>1, ProjectType DEF TurnTypeOK
  <2> QED
    BY <1>6, <2>1, <2>2 DEF NextComponent
<1>7. CASE Reconcile
  <2>1. changes' \in SUBSET [kind : ChangeKind, id : Subscriptions]
    <3>1. DOMAIN desired = Subscriptions
      BY <1>0 DEF TurnTypeOK
    <3>2. changes' = changes \/ changes' = Changes(Bookkept(component), desired)
      BY <1>7 DEF Reconcile
    <3> QED
      BY <1>0, <3>1, <3>2, ChangesType DEF TurnTypeOK
  <2>2. BookkeptAfter(component)
          \in [Keys -> Descriptors \cup {NoDescriptor}]
    BY <1>0 DEF BookkeptAfter, TurnTypeOK, Keys
  <2> QED
    BY <1>0, <1>7, <2>1, <2>2 DEF Reconcile, TurnTypeOK
<1>8. CASE Change
  BY <1>0, <1>8 DEF Change, TurnFrame, TurnTypeOK
<1>9. CASE Loop
  BY <1>0, <1>9, EmptyCommand DEF Loop, TurnTypeOK
<1>10. CASE Transition
  <2>1. CASE UNCHANGED turnVars /\ UNCHANGED active
    BY <1>0, <2>1 DEF turnVars, TurnTypeOK
  <2>2. CASE Project(current.target, HeldWith(current.item)) /\ UNCHANGED active
    <3>1. current.target \in Components
      BY <1>10 DEF Transition, Dispatching, LiveInv, PositionInv, Event
    <3>2. HeldWith(current.item) \in SUBSET Correlation
      BY <1>0 DEF HeldWith
    <3> QED
      BY <1>0, <2>2, <3>1, <3>2, ProjectType DEF TurnTypeOK
  <2> QED
    BY <1>10, <2>1, <2>2 DEF Transition
<1> QED
  BY <1>1, <1>2, <1>3, <1>4, <1>5, <1>6, <1>7, <1>8, <1>9, <1>10 DEF Next, Owner, Issue

-----------------------------------------------------------------------------
(***************************************************************************)
(* The Sources and the tasks.                                              *)
(***************************************************************************)

\* Stopping any Sources keeps gates and abort requests typed.
LEMMA StopType ==
  ASSUME SourceTypeOK, aborted \subseteq TaskId, NEW S \in SUBSET Generations, StopSources(S)
  PROVE  gate' \in [Generations -> GateState] /\ aborted' \subseteq TaskId
BY DEF SourceTypeOK, StopSources, Stopped, GateState, TaskId

\* begin_drain and observe_drain_cutoff keep the Sources typed.
LEMMA DrainType ==
  ASSUME SourceTypeOK, TaskTypeOK, NEW next, ObserveDrainCutoff(next) \/ BeginDrain(next)
  PROVE  SourceTypeOK' /\ TaskTypeOK'
<1>1. CASE UNCHANGED <<sourceVars, taskVars>>
  BY <1>1 DEF sourceVars, taskVars, SourceTypeOK, TaskTypeOK
<1>2. CASE BeginDrain(next)
  <2>1. PICK S \in SUBSET sources : /\ StopSources(S)
                                   /\ running' \subseteq running
                                   /\ drain_retained' = drain_retained \cup S
    BY <1>2 DEF BeginDrain, RetainForDrain
  <2>2. S \subseteq Generations
    BY DEF SourceTypeOK
  <2>3. gate' \in [Generations -> GateState] /\ aborted' \subseteq TaskId
    BY <2>1, <2>2, StopType DEF TaskTypeOK
  <2> QED
    BY <1>2, <2>1, <2>2, <2>3 DEF BeginDrain, SourceTypeOK, TaskTypeOK
<1> QED
  BY <1>1, <1>2 DEF ObserveDrainCutoff

\* Activation keeps the Sources typed.
LEMMA ActivateType ==
  ASSUME SourceTypeOK, TaskTypeOK, TurnTypeOK, component \in Components,
         NEW s \in Subscriptions, NEW S, Activate(<<component, s>>, S)
  PROVE  /\ next_generation' \in 0 .. MaxGenerations
         /\ realized' \in [Generations -> (Keys \cup {NoKey}) \X (Descriptors \cup {NoDescriptor})]
         /\ sources' \subseteq Generations /\ running' \subseteq Generations
         /\ task' \in [TaskId -> TaskState]
<1>1. CASE UNCHANGED <<next_generation, realized, task>> /\ sources' = sources \ S
             /\ running' = running \ S
  BY <1>1 DEF SourceTypeOK, TaskTypeOK
<1>2. CASE ~(UNCHANGED <<next_generation, realized, task>> /\ sources' = sources \ S
               /\ running' = running \ S)
  <2> DEFINE g == next_generation + 1
  <2>1. /\ g \in Generations /\ next_generation' = g
        /\ realized' = [realized EXCEPT ![g] = <<<<component, s>>, desired[s]>>]
        /\ sources' = (sources \ S) \cup {g} /\ running' = (running \ S) \cup {g}
        /\ task' = [task EXCEPT ![SourceTask(g)] = "running"]
    BY <1>2 DEF Activate
  <2>2. <<<<component, s>>, desired[s]>>
          \in (Keys \cup {NoKey}) \X (Descriptors \cup {NoDescriptor})
    BY DEF Keys, TurnTypeOK
  <2> HIDE DEF g
  <2>3. next_generation' \in 0 .. MaxGenerations
    BY <2>1, WorkAssumption DEF Generations
  <2> QED
    BY <2>1, <2>2, <2>3 DEF SourceTypeOK, TaskTypeOK, TaskState
<1> QED
  BY <1>1, <1>2

\* One subscription change keeps the Sources typed.
LEMMA ChangeType ==
  ASSUME SourceTypeOK, TaskTypeOK, TurnTypeOK, component \in Components, Change
  PROVE  SourceTypeOK' /\ TaskTypeOK'
<1>1. CASE UNCHANGED <<sourceVars, taskVars>>
  BY <1>1 DEF sourceVars, taskVars, SourceTypeOK, TaskTypeOK
<1>2. CASE ~UNCHANGED <<sourceVars, taskVars>>
  <2>1. PICK change \in changes :
          LET key == <<component, change.id>>
              S == Removed(change, Entry(key))
          IN  /\ UNCHANGED <<terminal_observed, drain_retained>>
              /\ StopSources(S)
              /\ \/ Activate(key, S)
                 \/ /\ sources' \in {sources, sources \ S} /\ running' = running \ S
                    /\ UNCHANGED <<next_generation, realized, task>>
    BY <1>2 DEF Change
  <2> DEFINE key == <<component, change.id>>
             S == Removed(change, Entry(key))
  <2>2. change.id \in Subscriptions
    BY DEF TurnTypeOK
  <2>3. S \in SUBSET Generations
    <3>1. Realizations(key) \subseteq Generations
      BY DEF Realizations, SourceTypeOK
    <3>2. Realizations(key) # {} => First(Realizations(key)) \in Realizations(key)
      BY SmallestGeneration DEF SourceTypeOK, Realizations
    <3> QED
      BY <3>1, <3>2 DEF Removed, Entry
  <2>4. gate' \in [Generations -> GateState] /\ aborted' \subseteq TaskId
    BY <2>1, <2>3, StopType DEF TaskTypeOK
  <2>5. CASE Activate(key, S)
    BY <2>1, <2>2, <2>4, <2>5, ActivateType DEF SourceTypeOK, TaskTypeOK
  <2>6. CASE /\ sources' \in {sources, sources \ S} /\ running' = running \ S
             /\ UNCHANGED <<next_generation, realized, task>>
    BY <2>1, <2>4, <2>6 DEF SourceTypeOK, TaskTypeOK
  <2> QED
    BY <2>1, <2>5, <2>6
<1> QED
  BY <1>1, <1>2

\* Every step keeps the Sources and the tasks typed.
THEOREM SourceTaskStep ==
  ASSUME LiveInv, [Next]_vars
  PROVE  SourceTypeOK' /\ TaskTypeOK'
<1>0. SourceTypeOK /\ TaskTypeOK /\ TurnTypeOK
  BY DEF LiveInv, TypeOK
<1>1. CASE Host \/ UNCHANGED vars
  BY <1>0, <1>1 DEF Host, HostSendsEvent, HostAsks, HostShutsDown, HostDropsTask, vars,
         sourceVars, taskVars, SourceTypeOK, TaskTypeOK
<1>2. CASE Drivers
  <2>1. CASE \/ \E g \in Generations, terminal \in BOOLEAN : SourceEmits(g, terminal)
             \/ \E g \in Generations : SourceReturns(g)
    BY <1>0, <2>1 DEF SourceEmits, SourceReturns, GateAccept, GateAfter, GateState, taskVars,
           TaskState, SourceTypeOK, TaskTypeOK
  <2>2. CASE \/ \E e \in EffectItem : EffectCompletes(e)
             \/ \E t \in TimerItem : TimerElapses(t)
    BY <1>0, <2>2 DEF EffectCompletes, TimerElapses, sourceVars, TaskState, SourceTypeOK, TaskTypeOK
  <2>3. CASE \E t \in TaskId : TaskReturns(t) \/ DriverFails(t) \/ TaskCancelled(t)
    BY <1>0, <2>3 DEF TaskReturns, DriverFails, TaskCancelled, sourceVars, TaskState, SourceTypeOK,
           TaskTypeOK
  <2> QED
    BY <1>2, <2>1, <2>2, <2>3 DEF Drivers, TaskId
<1>3. CASE OwnerAborted \/ ConversionUnwinds
  BY <1>0, <1>3 DEF OwnerAborted, ConversionUnwinds, DropCore, Unfinished, SourceTypeOK, TaskTypeOK
<1>4. CASE \/ IssueEffect \/ IssueAfter \/ IssueSend \/ IssueRequest \/ IssueReply
           \/ IssueRefused
  BY <1>0, <1>4 DEF IssueEffect, IssueAfter, IssueSend, IssueRequest, IssueReply, IssueRefused,
         IssueFrame, sourceVars, TaskState, SourceTypeOK, TaskTypeOK
<1>5. CASE \/ Start \/ NextComponent \/ Receive \/ DiscardStale \/ Transition \/ IgnoreSourceEvent
           \/ ProcessEffect \/ ProcessPortIngress \/ DispatchPanics \/ RetainOutcomes \/ FaultScope
  BY <1>0, <1>5 DEF Start, NextComponent, Receive, DiscardStale, Transition, IgnoreSourceEvent,
         ProcessEffect, ProcessPortIngress, DispatchPanics, RetainOutcomes, FaultScope,
         OutcomeFrame, sourceVars, taskVars, SourceTypeOK, TaskTypeOK
<1>6. CASE Initialize \/ Committed \/ Reconcile \/ Apply \/ Interpret \/ Loop \/ DispatchMarker
  <2>1. CASE UNCHANGED <<sourceVars, taskVars>>
    BY <1>0, <2>1 DEF sourceVars, taskVars, SourceTypeOK, TaskTypeOK
  <2>2. CASE \E next \in {"next_component", "reconcile", "apply", "change", "issue", "select",
                         "loop"} :
               ObserveDrainCutoff(next) \/ BeginDrain(next)
    BY <1>0, <2>2, DrainType
  <2> QED
    BY <1>6, <2>1, <2>2 DEF Initialize, Committed, Reconcile, Apply, Interpret, Loop,
           DispatchMarker, CheckScope
<1>7. CASE Change
  BY <1>0, <1>7, ChangeType DEF Change, LiveInv, PositionInv, TurnPosition
<1>8. CASE FinishDrain \/ JoinTask \/ JoinBeforeCancel \/ PushMapped
  BY <1>0, <1>8 DEF FinishDrain, JoinTask, JoinBeforeCancel, PushMapped, sourceVars, taskVars,
         TaskState, SourceTypeOK, TaskTypeOK
<1>9. CASE MapSourceEvent
  <2>1. PICK g \in Generations : g = current.item[2]
    BY <1>9 DEF MapSourceEvent, Dispatching, LiveInv, PositionInv, Event, SourceItem
  <2>2. CASE UNCHANGED <<terminal_observed, running, gate, aborted>>
    BY <1>0, <1>9, <2>2 DEF MapSourceEvent, SourceTypeOK, TaskTypeOK
  <2>3. CASE ObserveTerminal(g)
    <3>1. gate' \in [Generations -> GateState] /\ aborted' \subseteq TaskId
      BY <1>0, <2>3, StopType DEF ObserveTerminal, SourceTypeOK, TaskTypeOK
    <3> QED
      BY <1>0, <1>9, <2>3, <3>1 DEF MapSourceEvent, ObserveTerminal, SourceTypeOK, TaskTypeOK
  <2> QED
    BY <1>9, <2>1, <2>2, <2>3 DEF MapSourceEvent
<1>10. CASE StopBeforeCancel
  <2>1. PICK S \in SUBSET Generations : StopSources(S) /\ running' \subseteq running
    BY <1>0, <1>10 DEF StopBeforeCancel, SourceTypeOK
  <2>2. gate' \in [Generations -> GateState] /\ aborted' \subseteq TaskId
    BY <1>0, <2>1, StopType DEF TaskTypeOK
  <2> QED
    BY <1>0, <1>10, <2>1, <2>2 DEF StopBeforeCancel, SourceTypeOK, TaskTypeOK
<1>11. CASE CleanupAbort \/ FinishCleanup
  BY <1>0, <1>11 DEF CleanupAbort, FinishCleanup, Stopped, Unfinished, GateState, TaskState,
         sourceVars, SourceTypeOK, TaskTypeOK
<1> QED
  BY <1>1, <1>2, <1>3, <1>4, <1>5, <1>6, <1>7, <1>8, <1>9, <1>10, <1>11
     DEF Next, Owner, Issue

-----------------------------------------------------------------------------
(***************************************************************************)
(* Outstanding work, the host and the histories.                           *)
(***************************************************************************)

\* Every step keeps the owner's lists of work typed.
THEOREM WorkStep ==
  ASSUME LiveInv, [Next]_vars
  PROVE  WorkTypeOK'
<1>0. WorkTypeOK
  BY DEF LiveInv, TypeOK
<1>1. CASE Host \/ Drivers \/ UNCHANGED vars
  BY <1>0, <1>1 DEF Host, HostSendsEvent, HostAsks, HostShutsDown, HostDropsTask, Drivers,
         SourceEmits, SourceReturns, EffectCompletes, TimerElapses, TaskReturns, DriverFails,
         TaskCancelled, vars, workVars, WorkTypeOK
<1>2. CASE OwnerAborted \/ ConversionUnwinds \/ CleanupAbort \/ FinishCleanup
  BY <1>0, <1>2 DEF OwnerAborted, ConversionUnwinds, DropCore, CleanupAbort, FinishCleanup,
         WorkTypeOK
<1>3. CASE \/ IssueEffect \/ IssueAfter \/ IssueSend \/ IssueRequest \/ IssueReply
           \/ IssueRefused
  <2>0. pc = "issue"
    BY <1>3 DEF Issuing, IssueEffect, IssueAfter, IssueSend, IssueRequest, IssueReply, IssueRefused
  <2>1. /\ declared + 1 \in 0 .. MaxDeclarations
        /\ \A kind \in {"effect", "discard"} : NewItem(kind) \in EffectItem
        /\ NewItem("after") \in TimerItem /\ NewItem("request") \in Correlation
    BY <2>0, IssueType, NewItemType, WorkAssumption DEF LiveInv, Declared
  <2>2. CASE IssueEffect \/ IssueAfter \/ IssueRequest
    BY <1>0, <2>1, <2>2 DEF IssueFrame, IssueEffect, IssueAfter, IssueRequest, Outstanding, Issuing,
           WorkTypeOK
  <2>3. CASE IssueSend \/ IssueReply \/ IssueRefused
    BY <1>0, <2>1, <2>3 DEF IssueFrame, IssueSend, IssueReply, RequestsAfterReply, IssueRefused,
           WorkTypeOK
  <2> QED
    BY <1>3, <2>2, <2>3
<1>4. CASE \/ Start \/ Initialize \/ Committed \/ Reconcile \/ Apply \/ Change \/ Interpret
           \/ Loop \/ FinishDrain \/ JoinTask \/ Receive \/ DiscardStale \/ IgnoreSourceEvent
           \/ MapSourceEvent \/ PushMapped \/ DispatchMarker \/ JoinBeforeCancel
           \/ StopBeforeCancel \/ FaultScope
  BY <1>0, <1>4 DEF Start, Initialize, Committed, Reconcile, Apply, Change, Interpret, TurnFrame,
         Loop, FinishDrain, JoinTask, Receive, DiscardStale, IgnoreSourceEvent, MapSourceEvent,
         PushMapped,
         DispatchMarker, JoinBeforeCancel, StopBeforeCancel, FaultScope, workVars, WorkTypeOK
<1>5. CASE NextComponent
  <2>1. Project(cursor, held) => held' \in SUBSET Correlation
    BY <1>0, <1>5, ProjectType, WorkAssumption DEF NextComponent, LiveInv, PositionInv, WorkTypeOK
  <2> QED
    BY <1>0, <1>5, <2>1 DEF NextComponent, WorkTypeOK
<1>6. CASE Transition
  <2>1. current.target \in Components
    BY <1>6 DEF Transition, Dispatching, LiveInv, PositionInv, Event
  <2>2. HeldWith(current.item) \in SUBSET Correlation
    BY <1>0 DEF HeldWith, WorkTypeOK
  <2>3. Project(current.target, HeldWith(current.item)) => held' \in SUBSET Correlation
    BY <1>0, <2>1, <2>2, ProjectType, WorkAssumption DEF WorkTypeOK
  <2> QED
    BY <1>0, <1>6, <2>3 DEF Transition, WorkTypeOK
<1>7. CASE ProcessEffect \/ ProcessPortIngress \/ DispatchPanics \/ RetainOutcomes
  BY <1>0, <1>7 DEF ProcessEffect, ProcessPortIngress, DispatchPanics, RetainOutcomes, Retain,
         OutcomeFrame, TakeOutcome, EffectsAfter, Outstanding, WorkTypeOK
<1> QED
  BY <1>1, <1>2, <1>3, <1>4, <1>5, <1>6, <1>7 DEF Next, Owner, Issue

\* Every step keeps the host's calls typed.
THEOREM HostStep ==
  ASSUME LiveInv, [Next]_vars
  PROVE  HostTypeOK'
<1>0. HostTypeOK
  BY DEF LiveInv, TypeOK
<1>1. CASE Host
  BY <1>0, <1>1, WorkAssumption DEF Host, HostSendsEvent, HostAsks, HostShutsDown, HostDropsTask,
         HostTypeOK
<1>2. CASE Drivers \/ UNCHANGED vars
  BY <1>0, <1>2 DEF Drivers, SourceEmits, SourceReturns, EffectCompletes, TimerElapses,
         TaskReturns, DriverFails, TaskCancelled, vars, hostVars, HostTypeOK
<1>3. CASE OwnerAborted \/ Issue
  BY <1>0, <1>3 DEF OwnerAborted, Issue, ConversionUnwinds, DropCore, IssueEffect, IssueAfter,
         IssueSend, IssueRequest, IssueReply, IssueRefused, IssueFrame, WakeWaiters, HostTypeOK
<1>4. CASE \/ Start \/ Initialize \/ NextComponent \/ Committed \/ Reconcile \/ Apply \/ Change
           \/ Interpret \/ Loop \/ FinishDrain \/ JoinTask \/ Receive \/ DiscardStale \/ Transition
           \/ IgnoreSourceEvent \/ MapSourceEvent \/ PushMapped \/ DispatchMarker \/ DispatchPanics
           \/ JoinBeforeCancel \/ StopBeforeCancel \/ FaultScope
  BY <1>0, <1>4 DEF Start, Initialize, NextComponent, Committed, Reconcile, Apply, Change,
         Interpret, TurnFrame, Loop, FinishDrain, JoinTask, Receive, DiscardStale, Transition,
         IgnoreSourceEvent, MapSourceEvent, PushMapped, DispatchMarker, DispatchPanics,
         JoinBeforeCancel, StopBeforeCancel, FaultScope, hostVars, HostTypeOK
<1>5. CASE ProcessEffect \/ ProcessPortIngress \/ RetainOutcomes \/ CleanupAbort \/ FinishCleanup
  BY <1>0, <1>5 DEF ProcessEffect, ProcessPortIngress, RetainOutcomes, Retain, OutcomeFrame,
         CleanupAbort, FinishCleanup, WakeWaiters, HostTypeOK
<1> QED
  BY <1>1, <1>2, <1>3, <1>4, <1>5 DEF Next, Owner

\* What is opened, delivered or closed is always a piece of work.
LEMMA CurrentItem ==
  ASSUME LiveInv, pc = "dispatch", current.type \notin {"Drain", "Cancel"}
  PROVE  current.item \in Item
BY DEF LiveInv, PositionInv, Event, Item, EffectItem, TimerItem, DeclaredItem

\* A mapper called once more is counted.
LEMMA MappedType ==
  ASSUME HistoryTypeOK, NEW e, TakeOutcome(e)
  PROVE  mapped' \in [Declared -> Nat]
<1>1. ASSUME NEW k
      PROVE  [mapped EXCEPT ![k] = @ + 1] \in [Declared -> Nat]
  <2>1. mapped \in [Declared -> Nat]
    BY DEF HistoryTypeOK
  <2>2. CASE k \in Declared
    <3>1. mapped[k] + 1 \in Nat
      BY <2>1, <2>2
    <3> QED
      BY <2>1, <3>1
  <2>3. CASE k \notin Declared
    <3>1. [mapped EXCEPT ![k] = mapped[k] + 1] = mapped
      BY <2>1, <2>3
    <3> QED
      BY <2>1, <3>1
  <2> QED
    BY <2>2, <2>3
<1> QED
  BY <1>1 DEF TakeOutcome, HistoryTypeOK

\* Every step keeps the histories typed.
THEOREM HistoryStep ==
  ASSUME LiveInv, [Next]_vars
  PROVE  HistoryTypeOK'
<1>0. HistoryTypeOK
  BY DEF LiveInv, TypeOK
<1>1. CASE Host
  <2>1. \A h \in Asks : AskItem(h) \in Item
    BY DEF AskItem, Item, HostItem
  <2>2. ingress < HostSends => <<"ingress", ingress + 1, 0>> \in Item
    BY WorkAssumption DEF LiveInv, TypeOK, HostTypeOK, Item, HostItem
  <2> QED
    BY <1>0, <1>1, <2>1, <2>2 DEF Host, HostSendsEvent, HostAsks, HostShutsDown, HostDropsTask,
           deliveryHistory, outcomeHistory, history, HistoryTypeOK
<1>2. CASE Drivers
  <2>1. ASSUME NEW g \in Generations, NEW terminal \in BOOLEAN,
               task[SourceTask(g)] = "running", GateAccept(g, terminal)
        PROVE  open' \subseteq Item /\ emitted' \in [Generations -> Nat]
    <3>1. <<"source", g, emitted[g] + 1>> \in Item
      BY <1>0, <2>1, SourceEventType DEF GateAccept, LiveInv
    <3> QED
      BY <1>0, <2>1, <3>1 DEF GateAccept, HistoryTypeOK
  <2>2. CASE \E g \in Generations, terminal \in BOOLEAN : SourceEmits(g, terminal)
    BY <1>0, <2>1, <2>2 DEF SourceEmits, outcomeHistory, HistoryTypeOK
  <2>3. CASE \E g \in Generations : SourceReturns(g)
    BY <1>0, <2>1, <2>3 DEF SourceReturns, outcomeHistory, HistoryTypeOK
  <2>4. CASE \/ \E e \in EffectItem : EffectCompletes(e)
             \/ \E t \in TimerItem : TimerElapses(t)
    BY <1>0, <2>4 DEF EffectCompletes, TimerElapses, deliveryHistory, outcomeHistory, history,
           HistoryTypeOK
  <2>5. CASE \E t \in TaskId : TaskReturns(t) \/ DriverFails(t) \/ TaskCancelled(t)
    BY <1>0, <2>5 DEF TaskReturns, DriverFails, TaskCancelled, deliveryHistory, outcomeHistory,
           history, HistoryTypeOK
  <2> QED
    BY <1>2, <2>2, <2>3, <2>4, <2>5 DEF Drivers, TaskId
<1>3. CASE \/ IssueEffect \/ IssueAfter \/ IssueSend \/ IssueRequest \/ IssueReply
           \/ IssueRefused
  <2>0. pc = "issue"
    BY <1>3 DEF Issuing, IssueEffect, IssueAfter, IssueSend, IssueRequest, IssueReply, IssueRefused
  <2>1. \A kind \in {"effect", "discard", "send", "request", "reply", "after"} :
          NewItem(kind) \in Item
    BY <2>0, NewItemType DEF LiveInv
  <2>2. open' \subseteq Item
    <3>1. ASSUME NEW kind \in {"effect", "discard", "send", "request", "reply", "after"},
                 TakeOn(NewItem(kind))
          PROVE  open' \subseteq Item
      BY <1>0, <2>1, <3>1 DEF TakeOn, HistoryTypeOK
    <3> QED
      BY <1>0, <1>3, <3>1 DEF IssueEffect, IssueAfter, IssueSend, IssueRequest, IssueReply,
             IssueRefused, Issuing, HistoryTypeOK
  <2>3. IssueFrame
    BY <1>3 DEF IssueEffect, IssueAfter, IssueSend, IssueRequest, IssueReply, IssueRefused
  <2> QED
    BY <1>0, <2>2, <2>3 DEF IssueFrame, DriveLate, deliveryHistory, outcomeHistory, HistoryTypeOK
<1>4. CASE OwnerAborted \/ ConversionUnwinds \/ UNCHANGED vars
  BY <1>0, <1>4 DEF OwnerAborted, ConversionUnwinds, DropCore, vars, deliveryHistory,
         outcomeHistory, history, HistoryTypeOK
<1>5. CASE \/ Start \/ Initialize \/ NextComponent \/ Committed \/ Reconcile \/ Apply \/ Change
           \/ Interpret \/ Loop \/ FinishDrain \/ JoinTask \/ Receive \/ DispatchMarker
           \/ JoinBeforeCancel \/ StopBeforeCancel \/ FaultScope \/ CleanupAbort \/ FinishCleanup
  BY <1>0, <1>5 DEF Start, Initialize, NextComponent, Committed, Reconcile, Apply, Change,
         Interpret, TurnFrame, Loop, FinishDrain, JoinTask, Receive, DispatchMarker,
         JoinBeforeCancel, StopBeforeCancel, FaultScope, CleanupAbort, FinishCleanup,
         deliveryHistory, outcomeHistory, history, HistoryTypeOK
<1>6. CASE DiscardStale \/ IgnoreSourceEvent
  <2>1. current.item \in Item
    BY <1>6, CurrentItem DEF DiscardStale, IgnoreSourceEvent, Dispatching
  <2> QED
    BY <1>0, <1>6, <2>1 DEF DiscardStale, IgnoreSourceEvent, outcomeHistory, HistoryTypeOK
<1>7. CASE Transition
  <2>1. IsFrame(current.item) => current.item[2] \in Generations /\ current.item[3] \in Nat
    BY <1>7, CurrentItem, WorkAssumption DEF Transition, Dispatching, IsFrame, Kind, Item,
           SourceItem, FrameItem, HostItem, DeclaredItem
  <2> QED
    BY <1>0, <1>7, <2>1 DEF Transition, Deliver, DriveLate, outcomeHistory, HistoryTypeOK
<1>8. CASE MapSourceEvent \/ ProcessPortIngress
  BY <1>0, <1>8 DEF MapSourceEvent, ProcessPortIngress, deliveryHistory, outcomeHistory, history,
         HistoryTypeOK
<1>10. CASE PushMapped
  <2>1. NextFrame \in Item /\ current.item[2] \in Generations
    BY <1>10, FrameType DEF PushMapped, LiveInv
  <2> QED
    BY <1>0, <1>10, <2>1 DEF PushMapped, TakeOn, outcomeHistory, HistoryTypeOK
<1>9. CASE ProcessEffect \/ DispatchPanics \/ RetainOutcomes
  <2>1. mapped' \in [Declared -> Nat]
    BY <1>0, <1>9, MappedType DEF ProcessEffect, DispatchPanics, RetainOutcomes, Retain,
           HistoryTypeOK
  <2> QED
    BY <1>0, <1>9, <2>1 DEF ProcessEffect, DispatchPanics, RetainOutcomes, Retain, OutcomeFrame,
           deliveryHistory, HistoryTypeOK
<1> QED
  BY <1>1, <1>2, <1>3, <1>4, <1>5, <1>6, <1>7, <1>8, <1>9, <1>10
     DEF Next, Owner, Issue

-----------------------------------------------------------------------------
(***************************************************************************)
(* PositionInv: what the owner's position guarantees about its locals.     *)
(***************************************************************************)
THEOREM PositionStep ==
  ASSUME LiveInv, [Next]_vars
  PROVE  PositionInv'
<1>0. PositionInv /\ cursor \in Nat \ {0} /\ queue \in Seq(Event)
  BY DEF LiveInv, TypeOK, ScopeTypeOK, OwnerTypeOK
<1>1. CASE Host \/ Drivers \/ UNCHANGED vars
  BY <1>0, <1>1, OthersLeaveOwner DEF vars, ownerVars, turnVars, PositionInv
<1>2. CASE OwnerAborted \/ Issue
  BY <1>0, <1>2 DEF OwnerAborted, Issue, ConversionUnwinds, DropCore, IssueEffect, IssueAfter,
         IssueSend, IssueRequest, IssueReply, IssueRefused, Issuing, IssueFrame, Goto,
         PositionInv, TurnPosition
<1>3. CASE Start \/ NextComponent
  BY <1>0, <1>3 DEF Start, NextComponent, Project, Goto, turnVars, PositionInv, TurnPosition
<1>4. CASE Initialize
  <2>1. 1 \in Components
    BY WorkAssumption DEF Components
  <2> QED
    BY <1>0, <1>4, <2>1 DEF Initialize, TurnFrame, ObserveDrainCutoff, BeginDrain, Goto,
           PositionInv, TurnPosition
<1>5. CASE Committed
  BY <1>0, <1>5 DEF Committed, TurnFrame, CheckScope, ObserveDrainCutoff, BeginDrain, Goto,
         PositionInv, TurnPosition
<1>6. CASE Reconcile
  BY <1>0, <1>6 DEF Reconcile, CheckScope, ObserveDrainCutoff, BeginDrain, Goto, PositionInv,
         TurnPosition
<1>7. CASE Apply
  BY <1>0, <1>7 DEF Apply, TurnFrame, ObserveDrainCutoff, BeginDrain, Goto, PositionInv,
         TurnPosition
<1>8. CASE Interpret
  <2>1. cursor <= NumComponents => cursor \in Components
    BY <1>0, WorkAssumption DEF Components
  <2> QED
    BY <1>0, <1>8, <2>1 DEF Interpret, TurnFrame, CheckScope, ObserveDrainCutoff, BeginDrain,
           EndTurn, Goto, PositionInv, TurnPosition
<1>9. CASE Change
  BY <1>0, <1>9 DEF Change, Activate, TurnFrame, Goto, PositionInv, TurnPosition
<1>10. CASE Loop
  BY <1>0, <1>10 DEF Loop, ObserveDrainCutoff, BeginDrain, Goto, PositionInv, TurnPosition
<1>11. CASE Receive
  BY <1>0, <1>11 DEF Receive, Goto, PositionInv, TurnPosition
<1>12. CASE Transition
  <2>1. current.target \in Components
    BY <1>12 DEF Transition, Dispatching, LiveInv, PositionInv, Event
  <2> QED
    BY <1>0, <1>12, <2>1 DEF Transition, Project, Goto, PositionInv, TurnPosition
<1>15. CASE MapSourceEvent \/ PushMapped
  <2>1. outer \in Seq(BOOLEAN) /\ (outer' = <<>> => pc' # "push")
    BY <1>0, <1>15 DEF MapSourceEvent, PushMapped, Sending, Goto, LiveInv, TypeOK, OwnerTypeOK
  <2> QED
    BY <1>0, <1>15, <2>1 DEF MapSourceEvent, PushMapped, Dispatching, Sending, Goto,
           PositionInv, TurnPosition
<1>13. CASE \/ FinishDrain \/ JoinTask \/ DiscardStale \/ IgnoreSourceEvent
            \/ ProcessEffect \/ ProcessPortIngress \/ DispatchMarker \/ DispatchPanics
  BY <1>0, <1>13 DEF FinishDrain, JoinTask, DiscardStale, IgnoreSourceEvent,
         ProcessEffect, ProcessPortIngress, DispatchMarker, DispatchPanics, BeginDrain, Goto,
         PositionInv, TurnPosition
<1>14. CASE \/ RetainOutcomes \/ JoinBeforeCancel \/ StopBeforeCancel \/ FaultScope
            \/ CleanupAbort \/ FinishCleanup
  BY <1>0, <1>14 DEF RetainOutcomes, Retain, JoinBeforeCancel, StopBeforeCancel, FaultScope,
         CleanupAbort, FinishCleanup, Goto, PositionInv, TurnPosition
<1> QED
  BY <1>1, <1>2, <1>3, <1>4, <1>5, <1>6, <1>7, <1>8, <1>9, <1>10, <1>11, <1>12, <1>13, <1>14, <1>15
     DEF Next, Owner

-----------------------------------------------------------------------------
(***************************************************************************)
(* BoundInv: declarations and Source events in flight stay in bounds.      *)
(***************************************************************************)
THEOREM DeclaredStep ==
  ASSUME LiveInv, [Next]_vars
  PROVE  declared' + Len(commands') <= MaxDeclarations
<1>0. /\ declared + Len(commands) <= MaxDeclarations /\ declared \in 0 .. MaxDeclarations
      /\ Len(commands) \in Nat /\ held \in SUBSET Correlation /\ declared \in Nat
      /\ MaxDeclarations \in Nat
  BY WorkAssumption DEF LiveInv, BoundInv, TypeOK, TurnTypeOK, WorkTypeOK
<1>1. CASE UNCHANGED <<declared, commands>>
  BY <1>0, <1>1
<1>2. CASE UNCHANGED declared /\ commands' = <<>>
  BY <1>0, <1>2
<1>3. CASE IssueFrame /\ pc = "issue"
  BY <1>0, <1>3, IssueType DEF IssueFrame, LiveInv, Declared
<1>4. CASE NextComponent \/ Transition
  <2>1. ASSUME NEW c \in Components, NEW tokens \in SUBSET Correlation, Project(c, tokens),
               UNCHANGED declared
        PROVE  declared' + Len(commands') <= MaxDeclarations
    BY <1>0, <2>1, ProjectType
  <2>2. CASE NextComponent
    <3>1. cursor \in Components
      BY <2>2 DEF NextComponent, LiveInv, PositionInv
    <3> QED
      BY <1>0, <1>1, <2>1, <2>2, <3>1 DEF NextComponent, turnVars
  <2>3. CASE Transition
    <3>1. current.target \in Components
      BY <2>3 DEF Transition, Dispatching, LiveInv, PositionInv, Event
    <3>2. HeldWith(current.item) \in SUBSET Correlation
      BY <1>0 DEF HeldWith
    <3> QED
      BY <1>0, <1>1, <2>1, <2>3, <3>1, <3>2 DEF Transition, turnVars
  <2> QED
    BY <1>4, <2>2, <2>3
<1>5. CASE Host \/ Drivers \/ UNCHANGED vars
  BY <1>1, <1>5 DEF Host, HostSendsEvent, HostAsks, HostShutsDown, HostDropsTask, Drivers,
         SourceEmits, SourceReturns, EffectCompletes, TimerElapses, TaskReturns, DriverFails,
         TaskCancelled, vars, ownerVars, turnVars, workVars
<1>6. CASE OwnerAborted \/ ConversionUnwinds \/ FinishCleanup \/ Loop
  BY <1>2, <1>6 DEF OwnerAborted, ConversionUnwinds, DropCore, FinishCleanup, Loop, workVars
<1>7. CASE \/ IssueEffect \/ IssueAfter \/ IssueSend \/ IssueRequest \/ IssueReply
           \/ IssueRefused
  BY <1>3, <1>7 DEF IssueEffect, IssueAfter, IssueSend, IssueRequest, IssueReply, IssueRefused,
         Issuing
<1>8. CASE Start \/ Initialize \/ Committed \/ Reconcile \/ Apply \/ Change \/ Interpret
  BY <1>1, <1>8 DEF Start, Initialize, Committed, Reconcile, Apply, Change, Interpret, TurnFrame,
         turnVars, workVars
<1>9. CASE \/ FinishDrain \/ JoinTask \/ Receive \/ DiscardStale \/ IgnoreSourceEvent
           \/ MapSourceEvent \/ PushMapped \/ ProcessEffect \/ ProcessPortIngress \/ DispatchMarker
           \/ DispatchPanics \/ RetainOutcomes \/ JoinBeforeCancel \/ StopBeforeCancel
           \/ FaultScope \/ CleanupAbort
  BY <1>1, <1>9 DEF FinishDrain, JoinTask, Receive, DiscardStale, IgnoreSourceEvent,
         MapSourceEvent, PushMapped, ProcessEffect, ProcessPortIngress, DispatchMarker,
         DispatchPanics,
         RetainOutcomes, JoinBeforeCancel, StopBeforeCancel, FaultScope, CleanupAbort,
         OutcomeFrame, turnVars, workVars
<1> QED
  BY <1>4, <1>5, <1>6, <1>7, <1>8, <1>9 DEF Next, Owner, Issue

\* A gate never becomes Active again, and a Source emits only through it.
THEOREM EmittedStep ==
  ASSUME LiveInv, [Next]_vars
  PROVE  \A g \in Generations :
           emitted'[g] <= MaxItems + (IF gate'[g] = "Active" THEN 0 ELSE 1)
<1>0. /\ \A g \in Generations : emitted[g] <= MaxItems + (IF gate[g] = "Active" THEN 0 ELSE 1)
      /\ emitted \in [Generations -> Nat] /\ gate \in [Generations -> GateState]
      /\ MaxItems \in Nat
  BY WorkAssumption DEF LiveInv, BoundInv, TypeOK, HistoryTypeOK, SourceTypeOK
<1>1. CASE UNCHANGED <<emitted, gate>>
  BY <1>0, <1>1
<1>2. CASE UNCHANGED emitted /\ \E S : gate' = Stopped(S)
  BY <1>0, <1>2 DEF Stopped
<1>3. ASSUME NEW g \in Generations, NEW terminal \in BOOLEAN, GateAccept(g, terminal),
             terminal \/ emitted[g] < MaxItems
      PROVE  \A h \in Generations :
               emitted'[h] <= MaxItems + (IF gate'[h] = "Active" THEN 0 ELSE 1)
  <2>1. gate[g] = "Active"
    BY <1>3 DEF GateAccept, GateAdmits
  <2>2. /\ emitted' = [emitted EXCEPT ![g] = emitted[g] + 1]
        /\ gate' = [gate EXCEPT ![g] = IF terminal THEN "TerminalAccepted" ELSE "Active"]
    BY <1>3 DEF GateAccept, GateAfter
  <2> QED
    BY <1>0, <1>3, <2>1, <2>2
<1>4. CASE \E g \in Generations, terminal \in BOOLEAN : SourceEmits(g, terminal)
  BY <1>3, <1>4 DEF SourceEmits
<1>5. CASE \E g \in Generations : SourceReturns(g)
  BY <1>1, <1>3, <1>5 DEF SourceReturns
<1>6. CASE \E t \in TaskId : \/ t \in EffectItem /\ EffectCompletes(t)
                             \/ t \in TimerItem /\ TimerElapses(t)
                             \/ TaskReturns(t) \/ DriverFails(t) \/ TaskCancelled(t)
  BY <1>1, <1>6 DEF EffectCompletes, TimerElapses, TaskReturns, DriverFails, TaskCancelled,
         sourceVars, deliveryHistory, history
<1>7. CASE Host \/ UNCHANGED vars
  BY <1>1, <1>7 DEF Host, HostSendsEvent, HostAsks, HostShutsDown, HostDropsTask, vars,
         sourceVars, deliveryHistory, history
<1>8. CASE OwnerAborted \/ Issue
  BY <1>1, <1>8 DEF OwnerAborted, Issue, ConversionUnwinds, DropCore, IssueEffect, IssueAfter,
         IssueSend, IssueRequest, IssueReply, IssueRefused, IssueFrame, sourceVars,
         deliveryHistory, history
<1>9. ASSUME NEW next, ObserveDrainCutoff(next) \/ BeginDrain(next) \/ UNCHANGED sourceVars,
             UNCHANGED emitted
      PROVE  \A h \in Generations :
               emitted'[h] <= MaxItems + (IF gate'[h] = "Active" THEN 0 ELSE 1)
  BY <1>1, <1>2, <1>9 DEF ObserveDrainCutoff, BeginDrain, StopSources, sourceVars
<1>10. CASE Initialize \/ Committed \/ Reconcile \/ Apply \/ Interpret \/ Loop \/ DispatchMarker
  BY <1>9, <1>10 DEF Initialize, Committed, Reconcile, Apply, Interpret, Loop, DispatchMarker,
         CheckScope, TurnFrame, deliveryHistory, history
<1>11. CASE Change \/ StopBeforeCancel \/ CleanupAbort
  BY <1>1, <1>2, <1>11 DEF Change, StopBeforeCancel, CleanupAbort, StopSources, TurnFrame,
         sourceVars, deliveryHistory, history
<1>12. CASE MapSourceEvent
  BY <1>1, <1>2, <1>12 DEF MapSourceEvent, ObserveTerminal, StopSources, deliveryHistory
<1>14. CASE PushMapped
  BY <1>1, <1>14 DEF PushMapped, sourceVars
<1>13. CASE \/ Start \/ NextComponent \/ FinishDrain \/ JoinTask \/ Receive \/ DiscardStale
            \/ Transition \/ IgnoreSourceEvent \/ ProcessEffect \/ ProcessPortIngress
            \/ DispatchPanics \/ RetainOutcomes \/ JoinBeforeCancel \/ FaultScope \/ FinishCleanup
  BY <1>1, <1>13 DEF Start, NextComponent, FinishDrain, JoinTask, Receive, DiscardStale,
         Transition, IgnoreSourceEvent, ProcessEffect, ProcessPortIngress, DispatchPanics,
         RetainOutcomes, JoinBeforeCancel, FaultScope, FinishCleanup, OutcomeFrame, sourceVars,
         deliveryHistory, history
<1> QED
  BY <1>4, <1>5, <1>6, <1>7, <1>8, <1>10, <1>11, <1>12, <1>13, <1>14
     DEF Next, Owner, Drivers, TaskId

\* The outer events still to be sent fit the bound: only process_source_event
\* starts to send, and sending them numbers them one after the other.
THEOREM ProducedStep ==
  ASSUME LiveInv, [Next]_vars, pc' = "push"
  PROVE  produced'[current'.item[2]] + Len(outer') <= MaxFrames
<1>1. CASE Host \/ Drivers \/ UNCHANGED vars
  <2>1. UNCHANGED <<pc, current, outer>>
    BY <1>1, OthersLeaveOwner DEF vars, ownerVars
  <2>2. UNCHANGED produced
    <3>1. ASSUME Host \/ UNCHANGED vars
          PROVE  UNCHANGED produced
      BY <3>1 DEF Host, HostSendsEvent, HostAsks, HostShutsDown, HostDropsTask, vars,
             deliveryHistory, history
    <3>2. ASSUME NEW g \in Generations, NEW b, SourceEmits(g, b) \/ SourceReturns(g)
          PROVE  UNCHANGED produced
      BY <3>2 DEF SourceEmits, SourceReturns
    <3>3. ASSUME NEW e, EffectCompletes(e) \/ TimerElapses(e)
          PROVE  UNCHANGED produced
      BY <3>3 DEF EffectCompletes, TimerElapses, deliveryHistory, history
    <3>4. ASSUME NEW t, TaskReturns(t) \/ DriverFails(t) \/ TaskCancelled(t)
          PROVE  UNCHANGED produced
      BY <3>4 DEF TaskReturns, DriverFails, TaskCancelled, deliveryHistory, history
    <3> QED
      BY <1>1, <3>1, <3>2, <3>3, <3>4 DEF Drivers
  <2>3. pc = "push" => produced[current.item[2]] + Len(outer) <= MaxFrames
    BY DEF LiveInv, BoundInv
  <2> QED
    BY <2>1, <2>2, <2>3
<1>2. CASE MapSourceEvent
  BY <1>2 DEF MapSourceEvent, Outputs, deliveryHistory
<1>3. CASE PushMapped
  <2>1. produced[current.item[2]] + Len(outer) <= MaxFrames
    BY <1>3 DEF PushMapped, LiveInv, BoundInv
  <2>2. /\ current.item[2] \in Generations /\ Len(Tail(outer)) = Len(outer) - 1
        /\ outer \in Seq(BOOLEAN)
    BY <1>3, FrameType DEF PushMapped, LiveInv
  <2>3. produced \in [Generations -> Nat]
    BY DEF LiveInv, TypeOK, HistoryTypeOK
  <2>4. produced[current.item[2]] \in Nat /\ Len(outer) \in Nat /\ MaxFrames \in Nat
    BY <2>2, <2>3, WorkAssumption
  <2>5. produced'[current'.item[2]] = produced[current.item[2]] + 1 /\ outer' = Tail(outer)
    BY <1>3, <2>2, <2>3 DEF PushMapped
  <2>6. Len(outer') = Len(outer) - 1
    BY <2>2, <2>5
  <2> DEFINE sent == produced[current.item[2]]
             left == Len(outer)
  <2>7. sent' + left' = sent + left
    <3>1. sent' = sent + 1 /\ left' = left - 1 /\ sent \in Nat /\ left \in Nat
      BY <2>4, <2>5, <2>6
    <3> HIDE DEF sent, left
    <3> QED
      BY <3>1
  <2> QED
    BY <2>1, <2>7
<1>4. CASE OwnerAborted \/ Issue
  BY <1>4 DEF OwnerAborted, Issue, ConversionUnwinds, DropCore, IssueEffect, IssueAfter,
         IssueSend, IssueRequest, IssueReply, IssueRefused, Goto
<1>5. CASE Initialize \/ Committed \/ Reconcile \/ Apply \/ Interpret \/ Loop \/ DispatchMarker
  BY <1>5 DEF Initialize, Committed, Reconcile, Apply, Interpret, Loop, DispatchMarker,
         CheckScope, ObserveDrainCutoff, BeginDrain, EndTurn, Goto
<1>6. CASE \/ Start \/ NextComponent \/ Change \/ FinishDrain \/ JoinTask \/ Receive
           \/ DiscardStale \/ Transition \/ IgnoreSourceEvent \/ ProcessEffect
           \/ ProcessPortIngress \/ DispatchPanics
  BY <1>6 DEF Start, NextComponent, Change, Activate, FinishDrain, JoinTask, Receive,
         DiscardStale, Transition, IgnoreSourceEvent, ProcessEffect, ProcessPortIngress,
         DispatchPanics, Goto
<1>7. CASE \/ RetainOutcomes \/ JoinBeforeCancel \/ StopBeforeCancel \/ FaultScope
           \/ CleanupAbort \/ FinishCleanup
  BY <1>7 DEF RetainOutcomes, Retain, JoinBeforeCancel, StopBeforeCancel, FaultScope,
         CleanupAbort, FinishCleanup, Goto
<1> QED
  BY <1>1, <1>2, <1>3, <1>4, <1>5, <1>6, <1>7 DEF Next, Owner

-----------------------------------------------------------------------------
(***************************************************************************)
(* RealizedInv: a Source task belongs to a realization with a key.         *)
(***************************************************************************)

\* Only activation realizes a Source, and it names the Component's own key.
LEMMA ActivateRealizes ==
  ASSUME SourceTypeOK, TaskTypeOK, TurnTypeOK, RealizedInv, component \in Components,
         NEW s \in Subscriptions, NEW S, Activate(<<component, s>>, S)
  PROVE  RealizedInv'
<1> DEFINE g == next_generation + 1
<1>1. CASE UNCHANGED <<realized, task>>
  BY <1>1 DEF RealizedInv, KeyOf
<1>2. CASE /\ g \in Generations
           /\ realized' = [realized EXCEPT ![g] = <<<<component, s>>, desired[s]>>]
           /\ task' = [task EXCEPT ![SourceTask(g)] = "running"]
  <2>1. <<component, s>> \in Keys
    BY DEF Keys
  <2>2. \A h \in Generations : SourceTask(h) \in TaskId /\ (h # g => SourceTask(h) # SourceTask(g))
    BY DEF SourceTask, TaskId
  <2> HIDE DEF g
  <2> QED
    BY <1>2, <2>1, <2>2 DEF RealizedInv, KeyOf, SourceTypeOK, TaskTypeOK
<1> QED
  BY <1>1, <1>2 DEF Activate

\* Every step keeps RealizedInv: activate_source records the key of a
\* realization before it spawns the Source's task.
THEOREM RealizedStep ==
  ASSUME LiveInv, [Next]_vars
  PROVE  RealizedInv'
<1>0. SourceTypeOK /\ TaskTypeOK /\ TurnTypeOK /\ RealizedInv
  BY DEF LiveInv, TypeOK
<1>1. ASSUME UNCHANGED realized,
             \A g \in Generations : task[SourceTask(g)] = "none" => task'[SourceTask(g)] = "none"
      PROVE  RealizedInv'
  BY <1>0, <1>1 DEF RealizedInv, KeyOf
<1>2. CASE UNCHANGED <<realized, task>>
  BY <1>1, <1>2
<1>3. ASSUME NEW t \in TaskId, NEW state, task[t] # "none", UNCHANGED realized,
             task' = [task EXCEPT ![t] = state]
      PROVE  RealizedInv'
  BY <1>0, <1>1, <1>3 DEF TaskTypeOK
<1>4. ASSUME NEW kind \in {"effect", "discard", "after"}, UNCHANGED realized,
             task' = [task EXCEPT ![NewItem(kind)] = "running"]
      PROVE  RealizedInv'
  <2>1. \A g \in Generations : SourceTask(g) \in TaskId /\ SourceTask(g) # NewItem(kind)
    BY DEF SourceTask, NewItem, TaskId
  <2> QED
    BY <1>0, <1>1, <1>4, <2>1 DEF TaskTypeOK
<1>5. CASE Host \/ UNCHANGED vars
  BY <1>2, <1>5 DEF Host, HostSendsEvent, HostAsks, HostShutsDown, HostDropsTask, vars,
         sourceVars, taskVars
<1>6. CASE Drivers
  <2>1. CASE \E g \in Generations, terminal \in BOOLEAN : SourceEmits(g, terminal)
    BY <1>2, <2>1 DEF SourceEmits, taskVars
  <2>2. CASE \E g \in Generations : SourceReturns(g)
    BY <1>3, <2>2 DEF SourceReturns, TaskId
  <2>3. CASE \/ \E e \in EffectItem : EffectCompletes(e)
             \/ \E t \in TimerItem : TimerElapses(t)
    BY <1>3, <2>3 DEF EffectCompletes, TimerElapses, TaskId, sourceVars
  <2>4. CASE \E t \in TaskId : TaskReturns(t) \/ DriverFails(t) \/ TaskCancelled(t)
    BY <1>3, <2>4 DEF TaskReturns, DriverFails, TaskCancelled, sourceVars
  <2> QED
    BY <1>6, <2>1, <2>2, <2>3, <2>4 DEF Drivers, TaskId
<1>7. CASE OwnerAborted \/ ConversionUnwinds
  BY <1>2, <1>7 DEF OwnerAborted, ConversionUnwinds, DropCore
<1>8. CASE IssueEffect \/ IssueAfter
  BY <1>4, <1>8 DEF IssueEffect, IssueAfter, Issuing, IssueFrame, sourceVars
<1>9. CASE IssueSend \/ IssueRequest \/ IssueReply \/ IssueRefused
  BY <1>2, <1>9 DEF IssueSend, IssueRequest, IssueReply, IssueRefused, IssueFrame, sourceVars
<1>10. ASSUME NEW next, ObserveDrainCutoff(next) \/ BeginDrain(next)
                        \/ UNCHANGED <<sourceVars, taskVars>>
       PROVE  RealizedInv'
  BY <1>2, <1>10 DEF ObserveDrainCutoff, BeginDrain, sourceVars, taskVars
<1>11. CASE Initialize \/ Committed \/ Reconcile \/ Apply \/ Interpret \/ Loop \/ DispatchMarker
  BY <1>10, <1>11 DEF Initialize, Committed, Reconcile, Apply, Interpret, Loop, DispatchMarker,
         CheckScope
<1>12. CASE Change
  <2>1. component \in Components
    BY <1>12 DEF Change, LiveInv, PositionInv, TurnPosition
  <2>2. \A change \in changes : change.id \in Subscriptions
    BY <1>0 DEF TurnTypeOK
  <2> QED
    BY <1>0, <1>2, <1>12, <2>1, <2>2, ActivateRealizes DEF Change, sourceVars, taskVars
<1>13. CASE JoinTask \/ JoinBeforeCancel
  BY <1>2, <1>3, <1>13 DEF JoinTask, JoinBeforeCancel, TaskExited, sourceVars
<1>14. CASE FinishCleanup
  <2>1. \A g \in Generations : SourceTask(g) \in TaskId
    BY DEF TaskId
  <2> QED
    BY <1>1, <1>14, <2>1 DEF FinishCleanup, TaskExited, sourceVars
<1>15. CASE \/ Start \/ NextComponent \/ FinishDrain \/ Receive \/ DiscardStale \/ Transition
            \/ IgnoreSourceEvent \/ MapSourceEvent \/ PushMapped \/ ProcessEffect
            \/ ProcessPortIngress
            \/ DispatchPanics \/ RetainOutcomes \/ StopBeforeCancel \/ FaultScope \/ CleanupAbort
  BY <1>2, <1>15 DEF Start, NextComponent, FinishDrain, Receive, DiscardStale, Transition,
         IgnoreSourceEvent, MapSourceEvent, PushMapped, ProcessEffect, ProcessPortIngress,
         DispatchPanics,
         RetainOutcomes, StopBeforeCancel, FaultScope, CleanupAbort, OutcomeFrame, sourceVars,
         taskVars
<1> QED
  BY <1>5, <1>6, <1>7, <1>8, <1>9, <1>11, <1>12, <1>13, <1>14, <1>15 DEF Next, Owner, Issue

-----------------------------------------------------------------------------
(***************************************************************************)
(* CancelInv: when Cancel came, the owner had decided on one step at most. *)
(***************************************************************************)
THEOREM CancelStep ==
  ASSUME LiveInv, [Next]_vars
  PROVE  CancelInv'
<1>0. CancelInv /\ late \in Nat /\ phase \in ScopePhase
  BY DEF LiveInv, TypeOK, ScopeTypeOK, HistoryTypeOK
<1>1. CASE Host
  BY <1>0, <1>1 DEF Host, HostSendsEvent, HostAsks, HostShutsDown, HostDropsTask, AcceptIngress,
         BeginShutdown, ShutdownPhase, ownerVars, history, CancelInv
<1>2. CASE Drivers
  BY <1>0, <1>2 DEF Drivers, SourceEmits, SourceReturns, GateAccept, AcceptSource, EffectCompletes,
         TimerElapses, AcceptFinite, TaskReturns, DriverFails, TaskCancelled, scopeVars, ownerVars,
         history, CancelInv
<1>3. CASE OwnerAborted \/ ConversionUnwinds \/ UNCHANGED vars
  BY <1>0, <1>3 DEF OwnerAborted, ConversionUnwinds, DropCore, history, vars, scopeVars, ownerVars,
         CancelInv
<1>4. CASE \/ IssueEffect \/ IssueAfter \/ IssueSend \/ IssueRequest \/ IssueReply
           \/ IssueRefused
  <2>1. UNCHANGED phase /\ pc' \in {"interpret", "fault"} /\ DriveLate /\ pc = "issue"
    BY <1>4 DEF IssueEffect, IssueAfter, IssueSend, IssueRequest, IssueReply, IssueRefused,
           Issuing, IssueFrame, AcceptFinite, Goto, scopeVars
  <2> QED
    BY <1>0, <2>1 DEF DriveLate, ScopePhase, CancelInv
<1>5. ASSUME UNCHANGED <<phase, late>>, pc' \notin {"dispatch", "issue"}
      PROVE  CancelInv'
  BY <1>0, <1>5 DEF CancelInv
<1>6. CASE Initialize \/ Committed \/ Reconcile \/ Apply \/ Loop \/ DispatchMarker
  BY <1>5, <1>6 DEF Initialize, Committed, Reconcile, Apply, Loop, DispatchMarker, TurnFrame,
         CheckScope, ObserveDrainCutoff, BeginDrain, Goto, scopeVars, history
<1>7. CASE Start \/ NextComponent \/ Change
  BY <1>5, <1>7 DEF Start, NextComponent, Change, Activate, TurnFrame, Goto, scopeVars, history
<1>8. CASE Interpret
  <2>1. UNCHANGED <<phase, late>> /\ (phase = "Cancelling" => pc' # "issue") /\ pc' # "dispatch"
    BY <1>8 DEF Interpret, CheckScope, CancelSeen, ObserveDrainCutoff, BeginDrain, EndTurn, Goto,
           TurnFrame, scopeVars, history
  <2> QED
    BY <1>0, <2>1 DEF CancelInv
<1>9. CASE Receive
  <2>1. UNCHANGED <<phase, late>> /\ (phase = "Cancelling" => pc' = "cancel") /\ pc' # "issue"
    BY <1>9 DEF Receive, CancelSeen, Goto, scopeVars, history
  <2> QED
    BY <1>0, <2>1 DEF CancelInv
<1>10. CASE Transition
  <2>1. UNCHANGED phase /\ pc' \in {"committed", "fault"} /\ DriveLate /\ pc = "dispatch"
    BY <1>10 DEF Transition, Dispatching, Goto, scopeVars
  <2> QED
    BY <1>0, <2>1 DEF DriveLate, ScopePhase, CancelInv
<1>11. CASE \/ JoinTask \/ DiscardStale \/ IgnoreSourceEvent \/ MapSourceEvent \/ PushMapped
            \/ ProcessEffect
            \/ ProcessPortIngress \/ DispatchPanics \/ RetainOutcomes \/ JoinBeforeCancel
            \/ StopBeforeCancel \/ CleanupAbort
  BY <1>5, <1>11 DEF JoinTask, DiscardStale, IgnoreSourceEvent, MapSourceEvent, PushMapped,
         ProcessEffect,
         ProcessPortIngress, DispatchPanics, RetainOutcomes, Retain, JoinBeforeCancel,
         StopBeforeCancel, CleanupAbort, OutcomeFrame, AcceptFinite, Sending, Goto, scopeVars,
         history
<1>12. CASE FinishDrain \/ FaultScope \/ FinishCleanup
  <2>1. /\ UNCHANGED late /\ phase' \in {phase, "Faulted", "Closed"}
        /\ pc' \notin {"dispatch", "issue"}
    BY <1>12 DEF FinishDrain, FaultScope, FinishCleanup, RecordFault, ScopeFault, ScopeClose, Goto,
           history
  <2> QED
    BY <1>0, <2>1 DEF CancelInv
<1> QED
  BY <1>1, <1>2, <1>3, <1>4, <1>6, <1>7, <1>8, <1>9, <1>10, <1>11, <1>12 DEF Next, Owner, Issue

-----------------------------------------------------------------------------
(***************************************************************************)
(* WaiterInv: where the Request of a waiting host is to be found.          *)
(***************************************************************************)
Queued(h) == \E i \in 1 .. Len(queue) : IsAsk(queue[i], h)

\* An accepted event is queued behind all others.
LEMMA AppendKeeps ==
  ASSUME queue \in Seq(Event), NEW event, NEW h, queue' = Append(queue, event)
  PROVE  /\ Queued(h) => Queued(h)'
         /\ IsAsk(event, h) => Queued(h)'
<1>1. /\ Len(queue') = Len(queue) + 1 /\ queue'[Len(queue) + 1] = event
      /\ Len(queue) \in Nat
      /\ \A i \in 1 .. Len(queue) : queue'[i] = queue[i]
  OBVIOUS
<1>2. ASSUME Queued(h)
      PROVE  Queued(h)'
  BY <1>1, <1>2 DEF Queued, IsAsk
<1>3. ASSUME IsAsk(event, h)
      PROVE  Queued(h)'
  <2>1. Len(queue) + 1 \in 1 .. Len(queue')
    BY <1>1
  <2> QED
    BY <1>1, <1>3, <2>1 DEF Queued, IsAsk
<1> QED
  BY <1>2, <1>3

\* Receiving takes the first event only.
LEMMA TailKeeps ==
  ASSUME queue \in Seq(Event), queue # <<>>, queue' = Tail(queue), NEW h, Queued(h)
  PROVE  IsAsk(Head(queue), h) \/ Queued(h)'
<1>1. PICK i \in 1 .. Len(queue) : IsAsk(queue[i], h)
  BY DEF Queued
<1>2. CASE i = 1
  BY <1>1, <1>2
<1>3. CASE i # 1
  <2>1. /\ i - 1 \in 1 .. Len(queue') /\ queue'[i - 1] = queue[i]
    BY <1>3
  <2> QED
    BY <1>1, <2>1 DEF Queued, IsAsk
<1> QED
  BY <1>2, <1>3

\* What accepting does to the channel: nothing, or one more event.
LEMMA AcceptQueue ==
  ASSUME NEW event, AcceptIngress(event) \/ AcceptSource(event) \/ AcceptFinite(event)
  PROVE  queue' \in {queue, Append(queue, event)}
BY DEF AcceptIngress, AcceptSource, AcceptFinite

\* An event other than a PortRequest in hand holds no waiting host.
LEMMA KeptWaiters ==
  ASSUME WaiterInv, queue \in Seq(Event), asks' = asks, requests \subseteq requests',
         UNCHANGED queue \/ \E event : queue' = Append(queue, event),
         \/ UNCHANGED <<pc, current>>
         \/ pc \notin {"dispatch", "cancel"}
         \/ current.type # "PortRequest"
  PROVE  WaiterInv'
<1>1. \A h \in Asks : Queued(h) => Queued(h)'
  BY AppendKeeps DEF Queued, IsAsk
<1> QED
  BY <1>1 DEF WaiterInv, Queued, IsAsk

\* When every host Request is woken none waits any more.
LEMMA DropWakes ==
  ASSUME WakeWaiters(HostItem)
  PROVE  WaiterInv'
<1>1. \A h \in Asks : AskItem(h) \in HostItem
  BY DEF AskItem, HostItem
<1> QED
  BY <1>1 DEF WakeWaiters, WaiterInv

\* finish_cancel wakes the host Requests whose events it drops.
LEMMA RetainWaiters ==
  ASSUME LiveInv, RetainOutcomes
  PROVE  WaiterInv'
<1>0. queue \in Seq(Event) /\ WaiterInv /\ pc = "cancel"
  BY DEF LiveInv, TypeOK, ScopeTypeOK, RetainOutcomes
<1>1. UNCHANGED requests
  BY DEF RetainOutcomes, OutcomeFrame
<1>2. ASSUME NEW event, Retain(event)
      PROVE  \A h \in Asks : asks'[h] = "waiting" => asks[h] = "waiting" /\ ~IsAsk(event, h)
  BY <1>2 DEF Retain, OwesMapping, WakeWaiters, IsAsk
<1>3. CASE current # NoEvent /\ Retain(current) /\ UNCHANGED queue
  BY <1>0, <1>1, <1>2, <1>3 DEF WaiterInv, IsAsk
<1>4. CASE current = NoEvent /\ queue # <<>> /\ Retain(Head(queue)) /\ queue' = Tail(queue)
  <2>1. \A h \in Asks : asks'[h] = "waiting" => Queued(h)' \/ AskItem(h) \in requests'
    BY <1>0, <1>1, <1>2, <1>4, TailKeeps DEF WaiterInv, Queued, IsAsk, NoEvent
  <2> QED
    BY <2>1 DEF WaiterInv, Queued
<1>5. CASE current = NoEvent /\ UNCHANGED <<queue, asks>>
  BY <1>0, <1>1, <1>5 DEF WaiterInv, IsAsk, NoEvent
<1> QED
  BY <1>3, <1>4, <1>5 DEF RetainOutcomes

\* Every step keeps WaiterInv: a host Request that waits moves from the channel
\* to the owner's hands to the outstanding ones, or is answered.
THEOREM WaiterStep ==
  ASSUME LiveInv, [Next]_vars
  PROVE  WaiterInv'
<1>0. queue \in Seq(Event) /\ WaiterInv /\ HostTypeOK
  BY DEF LiveInv, TypeOK, ScopeTypeOK
<1>1. CASE UNCHANGED vars
  BY <1>0, <1>1, KeptWaiters DEF vars, scopeVars, ownerVars, workVars, hostVars
<1>2. CASE Host
  <2>1. CASE UNCHANGED asks
    BY <1>0, <1>2, <2>1, AcceptQueue, KeptWaiters DEF Host, HostSendsEvent, HostAsks,
           HostShutsDown, HostDropsTask, BeginShutdown, ownerVars, workVars
  <2>2. CASE \E h \in Asks : HostAsks(h)
    <3>1. PICK h \in Asks : HostAsks(h)
      BY <2>2
    <3> DEFINE event == EventOf("PortRequest", AskItem(h), Provider)
    <3>2. IsAsk(event, h) /\ queue' = Append(queue, event)
      BY <3>1 DEF IsAsk, EventOf, HostAsks, AcceptIngress
    <3>3. Queued(h)' /\ \A k \in Asks : Queued(k) => Queued(k)'
      BY <1>0, <3>2, AppendKeeps
    <3>4. UNCHANGED <<pc, current, requests>> /\ asks' = [asks EXCEPT ![h] = "waiting"]
      BY <3>1 DEF HostAsks, ownerVars, workVars
    <3> QED
      BY <1>0, <3>3, <3>4 DEF WaiterInv, Queued, HostTypeOK, IsAsk
  <2> QED
    BY <1>2, <2>1, <2>2 DEF Host, HostSendsEvent, HostShutsDown, HostDropsTask
<1>3. CASE Drivers
  BY <1>0, <1>3, AcceptQueue, KeptWaiters DEF Drivers, SourceEmits, SourceReturns, GateAccept,
         EffectCompletes, TimerElapses, TaskReturns, DriverFails, TaskCancelled, scopeVars,
         ownerVars, workVars, hostVars
<1>4. CASE OwnerAborted \/ ConversionUnwinds \/ FinishCleanup
  BY <1>4, DropWakes DEF OwnerAborted, ConversionUnwinds, DropCore, FinishCleanup
<1>5. CASE IssueEffect \/ IssueAfter \/ IssueSend \/ IssueRequest \/ IssueRefused
  BY <1>0, <1>5, AcceptQueue, KeptWaiters DEF IssueEffect, IssueAfter, IssueSend, IssueRequest,
         Outstanding, IssueRefused, Issuing, IssueFrame, scopeVars
<1>6. CASE IssueReply
  <2> DEFINE token == Head(commands).token
  <2>1. /\ pc = "issue" /\ UNCHANGED current /\ requests' = requests \ {token}
        /\ UNCHANGED queue \/ \E event : queue' = Append(queue, event)
    BY <1>6, AcceptQueue DEF IssueReply, Issuing, IssueFrame, RequestsAfterReply, scopeVars
  <2>2. \/ UNCHANGED asks /\ (Kind(token) # "ask" \/ token \notin requests)
        \/ asks' = [asks EXCEPT ![token[2]] = "replied"]
    BY <1>6 DEF IssueReply
  <2>4. \A h \in Asks : asks'[h] = "waiting" =>
          asks[h] = "waiting" /\ (AskItem(h) # token \/ token \notin requests)
    <3> HIDE DEF token
    <3>1. \A h \in Asks : AskItem(h) = token => Kind(token) = "ask" /\ token[2] = h
      BY DEF AskItem, Kind
    <3> QED
      BY <1>0, <2>2, <3>1 DEF HostTypeOK
  <2>3. \A h \in Asks : Queued(h) => Queued(h)'
    BY <1>0, <2>1, AppendKeeps DEF Queued, IsAsk
  <2> QED
    BY <1>0, <2>1, <2>3, <2>4 DEF WaiterInv, Queued
<1>7. CASE \/ Start \/ Initialize \/ NextComponent \/ Committed \/ Reconcile \/ Apply \/ Change
           \/ Interpret
  BY <1>0, <1>7, KeptWaiters DEF Start, Initialize, NextComponent, Committed, Reconcile, Apply,
         Change, Interpret, TurnFrame, scopeVars, workVars, hostVars
<1>8. CASE \/ Loop \/ FinishDrain \/ JoinTask \/ JoinBeforeCancel \/ StopBeforeCancel \/ FaultScope
  BY <1>0, <1>8, KeptWaiters DEF Loop, FinishDrain, JoinTask, JoinBeforeCancel, StopBeforeCancel,
         FaultScope, scopeVars, workVars, hostVars
<1>9. CASE Receive
  <2>1. \A h \in Asks : Queued(h) => IsAsk(current', h) \/ Queued(h)'
    BY <1>0, <1>9, TailKeeps DEF Receive
  <2>2. UNCHANGED <<asks, requests>> /\ pc' \in {"dispatch", "cancel"} /\ pc = "select"
    BY <1>9 DEF Receive, Goto, workVars, hostVars
  <2> QED
    BY <1>0, <2>1, <2>2 DEF WaiterInv, Queued, IsAsk
<1>10. CASE DiscardStale \/ Transition \/ IgnoreSourceEvent \/ MapSourceEvent \/ PushMapped
            \/ ProcessEffect \/ DispatchMarker
  BY <1>0, <1>10, AcceptQueue, KeptWaiters DEF DiscardStale, Transition, IgnoreSourceEvent,
         MapSourceEvent, PushMapped, ProcessEffect, DispatchMarker, Dispatching, OutcomeFrame,
         scopeVars, workVars, hostVars
<1>11. CASE ProcessPortIngress
  <2>0. \A h \in Asks : AskItem(h) \in Correlation
    BY DEF AskItem, Correlation
  <2>1. CASE FiniteOpen
    <3>1. /\ asks' = asks /\ requests' = requests \cup ({current.item} \cap Correlation)
          /\ UNCHANGED queue \/ \E event : queue' = Append(queue, event)
      BY <1>0, <1>11, <2>1, AcceptQueue DEF ProcessPortIngress, Outstanding, WakeWaiters, HostTypeOK
    <3>2. \A h \in Asks : Queued(h) => Queued(h)'
      BY <1>0, <3>1, AppendKeeps DEF Queued, IsAsk
    <3> QED
      BY <1>0, <2>0, <3>1, <3>2 DEF WaiterInv, Queued, IsAsk
  <2>2. CASE ~FiniteOpen
    BY <1>0, <1>11, <2>0, <2>2 DEF ProcessPortIngress, AcceptFinite, WakeWaiters, WaiterInv, IsAsk
  <2> QED
    BY <2>1, <2>2
<1>12. CASE DispatchPanics
  <2>0. \A h \in Asks : AskItem(h) \in Correlation
    BY DEF AskItem, Correlation
  <2>1. UNCHANGED <<queue, asks>> /\ pc = "dispatch" /\ requests \subseteq requests'
    BY <1>12 DEF DispatchPanics, Dispatching, Outstanding, scopeVars, hostVars
  <2>2. CASE current.type = "PortRequest"
    BY <1>0, <1>12, <2>0, <2>1, <2>2 DEF DispatchPanics, Dispatching, Outstanding, WaiterInv, IsAsk
  <2>3. CASE current.type # "PortRequest"
    BY <1>0, <2>1, <2>3, KeptWaiters
  <2> QED
    BY <2>2, <2>3
<1>13. CASE RetainOutcomes
  BY <1>13, RetainWaiters
<1>14. CASE CleanupAbort
  BY <1>0, <1>14 DEF CleanupAbort, WakeWaiters, WaiterInv, scopeVars
<1> QED
  BY <1>1, <1>2, <1>3, <1>4, <1>5, <1>6, <1>7, <1>8, <1>9, <1>10, <1>11, <1>12, <1>13, <1>14
     DEF Next, Owner, Issue

-----------------------------------------------------------------------------
(***************************************************************************)
(* EndInv: what is left once the owner has ended.                          *)
(***************************************************************************)

\* Nobody else's step reopens or refills the channel of an ended owner.
LEMMA OthersAtEnd ==
  ASSUME LiveInv, Host \/ Drivers \/ UNCHANGED vars
  PROVE  EndInv'
<1>0. EndInv /\ TaskTypeOK
  BY DEF LiveInv, TypeOK
<1>1. /\ UNCHANGED <<pc, receiver, requests>>
      /\ ~receiver => UNCHANGED queue
  BY DEF Host, HostSendsEvent, HostAsks, HostShutsDown, HostDropsTask, AcceptIngress, IngressOpen,
         BeginShutdown, Drivers, SourceEmits, SourceReturns, GateAccept, AcceptSource, SourcesOpen,
         EffectCompletes, TimerElapses, AcceptFinite, FiniteOpen, TaskReturns, DriverFails,
         TaskCancelled, vars, scopeVars, ownerVars, workVars
<1>2. ASSUME AllJoined
      PROVE  AllJoined'
  <2>1. \A t \in TaskId : task[t] \notin {"running", "returning"}
    BY <1>2 DEF AllJoined
  <2>2. CASE Drivers
    <3>1. UNCHANGED task
      BY <2>1, <2>2 DEF Drivers, SourceEmits, SourceReturns, EffectCompletes, TimerElapses,
             TaskReturns, DriverFails, TaskCancelled, TaskId
    <3> QED
      BY <1>2, <3>1 DEF AllJoined
  <2>3. CASE Host \/ UNCHANGED vars
    BY <1>2, <2>3 DEF AllJoined, Host, HostSendsEvent, HostAsks, HostShutsDown, HostDropsTask,
           vars, taskVars
  <2> QED
    BY <2>2, <2>3
<1> QED
  BY <1>0, <1>1, <1>2 DEF EndInv

\* While the owner runs and goes on running, only its requests matter.
LEMMA StillRunning ==
  ASSUME EndInv, pc \notin OwnerEnded, UNCHANGED receiver,
         pc' \notin OwnerEnded, pc' = "joining" => requests' = {}
  PROVE  EndInv'
BY DEF EndInv, OwnerEnded

\* Every step keeps EndInv: an owner ends by dropping the receiver, and normally
\* only when every task is joined.
THEOREM EndStep ==
  ASSUME LiveInv, [Next]_vars
  PROVE  EndInv'
<1>0. EndInv /\ TaskTypeOK /\ queue \in Seq(Event)
  BY DEF LiveInv, TypeOK, ScopeTypeOK
<1>1. CASE Host \/ Drivers \/ UNCHANGED vars
  BY <1>1, OthersAtEnd
<1>2. CASE OwnerAborted \/ ConversionUnwinds
  BY <1>2 DEF OwnerAborted, ConversionUnwinds, DropCore, EndInv, OwnerEnded
<1>3. CASE \/ IssueEffect \/ IssueAfter \/ IssueSend \/ IssueRequest \/ IssueReply
           \/ IssueRefused
  <2>1. pc = "issue" /\ pc' \in {"interpret", "fault"} /\ UNCHANGED receiver
    BY <1>3 DEF IssueEffect, IssueAfter, IssueSend, IssueRequest, IssueReply, IssueRefused,
           Issuing, IssueFrame, AcceptFinite, Goto, scopeVars
  <2> QED
    BY <1>0, <2>1, StillRunning DEF OwnerEnded
<1>4. CASE \/ Start \/ Initialize \/ NextComponent \/ Committed \/ Reconcile \/ Apply \/ Change
           \/ Interpret \/ Loop \/ DispatchMarker
  <2>1. pc \notin OwnerEnded
    BY <1>4 DEF Start, Initialize, NextComponent, Committed, Reconcile, Apply, Change, Interpret,
           Loop, DispatchMarker, Dispatching, OwnerEnded
  <2>2. UNCHANGED receiver
    BY <1>4 DEF Start, Initialize, NextComponent, Committed, Reconcile, Apply, Change, Interpret,
           Loop, DispatchMarker, TurnFrame, scopeVars
  <2>3. pc' \notin OwnerEnded \cup {"joining"}
    BY <1>4 DEF Start, Initialize, NextComponent, Committed, Reconcile, Apply, Change, Activate,
           Interpret, Loop, DispatchMarker, CheckScope, ObserveDrainCutoff, BeginDrain, EndTurn,
           Goto, OwnerEnded
  <2> QED
    BY <1>0, <2>1, <2>2, <2>3, StillRunning
<1>5. CASE \/ JoinTask \/ Receive \/ DiscardStale \/ Transition \/ IgnoreSourceEvent
           \/ MapSourceEvent \/ PushMapped \/ ProcessEffect \/ ProcessPortIngress \/ DispatchPanics
           \/ RetainOutcomes \/ JoinBeforeCancel \/ StopBeforeCancel \/ FaultScope
  <2>1. pc \notin OwnerEnded
    BY <1>5 DEF JoinTask, Receive, DiscardStale, Transition, IgnoreSourceEvent, MapSourceEvent,
           PushMapped,
           ProcessEffect, ProcessPortIngress, DispatchPanics, RetainOutcomes, JoinBeforeCancel,
           StopBeforeCancel, FaultScope, Dispatching, OwnerEnded
  <2>2. UNCHANGED receiver
    BY <1>5 DEF JoinTask, Receive, DiscardStale, Transition, IgnoreSourceEvent, MapSourceEvent,
           PushMapped,
           ProcessEffect, ProcessPortIngress, DispatchPanics, RetainOutcomes, JoinBeforeCancel,
           StopBeforeCancel, FaultScope, AcceptFinite, scopeVars
  <2>3. pc' \notin OwnerEnded \cup {"joining"}
    BY <1>5 DEF JoinTask, Receive, DiscardStale, Transition, IgnoreSourceEvent, MapSourceEvent,
           PushMapped, ProcessEffect, ProcessPortIngress, DispatchPanics, RetainOutcomes, Retain,
           JoinBeforeCancel, StopBeforeCancel, FaultScope, Sending, Goto, OwnerEnded
  <2> QED
    BY <1>0, <2>1, <2>2, <2>3, StillRunning
<1>6. CASE FinishDrain
  BY <1>6 DEF FinishDrain, DrainFinished, AllJoined, Goto, workVars, taskVars, EndInv, OwnerEnded
<1>7. CASE CleanupAbort
  BY <1>0, <1>7, StillRunning DEF CleanupAbort, Goto, scopeVars, OwnerEnded
<1>8. CASE FinishCleanup
  <2>1. AllJoined'
    BY <1>0, <1>8 DEF FinishCleanup, JoinedAll, AllJoined, TaskTypeOK, TaskExited
  <2>2. pc = "joining" /\ pc' \in {"clean", "faulted"} /\ queue' = <<>> /\ ~receiver'
    BY <1>8 DEF FinishCleanup, Goto
  <2>3. requests' = {}
    BY <1>0, <1>8, <2>2 DEF FinishCleanup, EndInv
  <2> QED
    BY <2>1, <2>2, <2>3 DEF EndInv, OwnerEnded
<1> QED
  BY <1>1, <1>2, <1>3, <1>4, <1>5, <1>6, <1>7, <1>8 DEF Next, Owner, Issue

-----------------------------------------------------------------------------
(***************************************************************************)
(* Conclusions.                                                            *)
(***************************************************************************)

\* LiveRuntime::spawn's state satisfies the invariant.
THEOREM LiveInit == Init => LiveInv
<1> SUFFICES ASSUME Init
             PROVE  LiveInv
  OBVIOUS
<1>1. ScopeTypeOK
  BY EmptyQueue DEF Init, ScopeInit, ScopeTypeOK, ScopePhase
<1>8. OwnerTypeOK
  <2>1. pc = "start" /\ cursor = 1 /\ draining = FALSE /\ current = NoEvent
    BY DEF Init
  <2>2. pc \in OwnerPosition /\ cursor \in Nat \ {0}
    BY <2>1 DEF OwnerPosition
  <2>3. draining \in BOOLEAN /\ outer \in Seq(BOOLEAN)
    BY <2>1, EmptyOuter DEF Init
  <2> QED
    BY <2>1, <2>2, <2>3 DEF OwnerTypeOK
<1>2. TurnTypeOK
  BY EmptyCommand DEF Init, TurnInit, TurnTypeOK
<1>3. SourceTypeOK /\ WorkTypeOK /\ TaskTypeOK /\ HostTypeOK
  BY WorkAssumption DEF Init, TurnInit, SourceTypeOK, GateState, WorkTypeOK, TaskTypeOK, TaskState,
         HostTypeOK
<1>4. HistoryTypeOK
  BY DEF Init, HistoryTypeOK
<1>5. PositionInv /\ CancelInv /\ EndInv
  BY DEF Init, ScopeInit, PositionInv, TurnPosition, CancelInv, EndInv, OwnerEnded
<1>6. BoundInv
  <2>1. MaxItems \in Nat /\ MaxDeclarations \in Nat
    BY WorkAssumption
  <2> QED
    BY <2>1 DEF Init, TurnInit, BoundInv
<1>9. RealizedInv
  BY DEF Init, TurnInit, RealizedInv, SourceTask, TaskId
<1>7. WaiterInv
  BY DEF Init, WaiterInv
<1> QED
  BY <1>1, <1>2, <1>3, <1>4, <1>5, <1>6, <1>7, <1>8, <1>9 DEF LiveInv, TypeOK

\* Every step of the live runtime scope preserves the invariant.
THEOREM LiveStep == LiveInv /\ [Next]_vars => LiveInv'
<1> SUFFICES ASSUME LiveInv, [Next]_vars
             PROVE  LiveInv'
  OBVIOUS
<1>1. TypeOK'
  BY ScopeStep, OwnerStep, TurnStep, SourceTaskStep, WorkStep, HostStep, HistoryStep DEF TypeOK
<1>2. BoundInv'
  BY DeclaredStep, EmittedStep, ProducedStep DEF BoundInv
<1> QED
  BY <1>1, <1>2, PositionStep, RealizedStep, CancelStep, WaiterStep, EndStep DEF LiveInv

\* LiveInv is an invariant of the live runtime scope.
THEOREM LiveInvariant == Spec => []LiveInv
BY LiveInit, LiveStep, PTL DEF Spec

\* Every event, item and declaration in flight names work of this scope: the
\* owner never meets an event, a token or a generation it did not create.
THEOREM TypeCorrect == Spec => []TypeOK
<1>1. LiveInv => TypeOK
  BY DEF LiveInv
<1> QED
  BY <1>1, LiveInvariant, PTL

\* Cancel is a cutoff (finish_transition, interpret_command, run): whatever the
\* interleaving, at most one step the owner had decided on starts after it.
THEOREM CancelCutoff == Spec => []CancelStopsDriving
<1>1. LiveInv => CancelStopsDriving
  BY DEF LiveInv, CancelInv, CancelStopsDriving
<1> QED
  BY <1>1, LiveInvariant, PTL

\* run returns only when every task is joined and no event is left, and then no
\* host is left waiting for a reply that cannot come any more.
THEOREM CloseOwnsNothing == Spec => []CleanCloseOwnsNothing
<1>1. ASSUME LiveInv, pc \in {"clean", "faulted"}
      PROVE  AllJoined /\ queue = <<>> /\ \A h \in Asks : asks[h] # "waiting"
  <2>1. AllJoined /\ queue = <<>> /\ requests = {} /\ pc \notin {"dispatch", "cancel"}
    BY <1>1 DEF LiveInv, EndInv, OwnerEnded
  <2>2. Len(queue) = 0
    BY <2>1
  <2>3. \A h \in Asks : asks[h] # "waiting"
    BY <1>1, <2>1, <2>2 DEF LiveInv, WaiterInv
  <2> QED
    BY <2>1, <2>3
<1>2. LiveInv => CleanCloseOwnsNothing
  BY <1>1 DEF CleanCloseOwnsNothing
<1> QED
  BY <1>2, LiveInvariant, PTL
==============================================================================
