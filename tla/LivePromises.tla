----------------------------- MODULE LivePromises -----------------------------
(***************************************************************************)
(* The promises of LiveProperties, for every instance of the live runtime  *)
(* scope: PromiseInv is inductive.  One section per part of it, and the    *)
(* promises that follow.  At the end, the host's RuntimeTask: its steps    *)
(* are steps of the scope, and what its calls answer follows from where    *)
(* the owner may go once the scope is faulted, closed or still without a   *)
(* cutoff.                                                                 *)
(***************************************************************************)
EXTENDS LiveProofs, RuntimeTask, FiniteSetTheorems

-----------------------------------------------------------------------------
(***************************************************************************)
(* The events sent and not yet received, as a set.                         *)
(***************************************************************************)

\* An accepted event joins those queued.
LEMMA AppendAdds ==
  ASSUME queue \in Seq(Event), NEW event, queue' = Append(queue, event)
  PROVE  QueuedEvents' = QueuedEvents \cup {event}
<1>1. /\ DOMAIN queue = 1 .. Len(queue) /\ DOMAIN queue' = 1 .. Len(queue) + 1
      /\ queue'[Len(queue) + 1] = event /\ Len(queue) \in Nat
      /\ \A i \in 1 .. Len(queue) : queue'[i] = queue[i]
  OBVIOUS
<1>2. DOMAIN queue' = DOMAIN queue \cup {Len(queue) + 1}
  BY <1>1
<1> QED
  BY <1>1, <1>2 DEF QueuedEvents

\* A received event was queued, and the rest still is.
LEMMA TailRemoves ==
  ASSUME queue \in Seq(Event), queue # <<>>, queue' = Tail(queue)
  PROVE  QueuedEvents = {Head(queue)} \cup QueuedEvents'
<1>1. ASSUME NEW i \in DOMAIN queue
      PROVE  queue[i] \in {Head(queue)} \cup QueuedEvents'
  BY TailDomain DEF QueuedEvents
<1>2. Head(queue) \in QueuedEvents /\ QueuedEvents' \subseteq QueuedEvents
  BY TailDomain DEF QueuedEvents
<1> QED
  BY <1>1, <1>2 DEF QueuedEvents

\* An emptied channel holds no event.
LEMMA EmptyQueued == queue' = <<>> => QueuedEvents' = {}
BY DEF QueuedEvents
-----------------------------------------------------------------------------
(***************************************************************************)
(* Where one step of the owner may go.                                     *)
(***************************************************************************)
Unmarked(event) == event.type \notin {"Drain", "Cancel"}

\* The events an owner receives are those queued, and those it sends itself
\* are Messages.
LEMMA OwnerQueue ==
  ASSUME Owner \/ OwnerAborted
  PROVE  /\ \/ queue' \in {queue, <<>>}
            \/ queue # <<>> /\ queue' = Tail(queue)
            \/ \E event : Unmarked(event) /\ queue' = Append(queue, event)
         /\ \/ current' \in {current, NoEvent}
            \/ queue # <<>> /\ current' = Head(queue)
<1>1. \A item, target, terminal : Unmarked(Message(item, target, terminal))
  BY DEF Unmarked, Message
<1>2. CASE \/ IssueEffect \/ IssueAfter \/ IssueSend \/ IssueRequest \/ IssueReply
           \/ IssueRefused \/ ConversionUnwinds \/ OwnerAborted
  BY <1>1, <1>2 DEF IssueEffect, IssueAfter, IssueSend, IssueRequest, IssueReply, IssueRefused,
         ConversionUnwinds, OwnerAborted, DropCore, IssueFrame, AcceptFinite, scopeVars
<1>3. CASE \/ Start \/ Initialize \/ NextComponent \/ Committed \/ Reconcile \/ Apply \/ Change
           \/ Interpret \/ Loop \/ DispatchMarker
  BY <1>3 DEF Start, Initialize, NextComponent, Committed, Reconcile, Apply, Change, Interpret,
         Loop, DispatchMarker, TurnFrame, scopeVars
<1>4. CASE \/ FinishDrain \/ JoinTask \/ Receive \/ DiscardStale \/ Transition
           \/ IgnoreSourceEvent \/ MapSourceEvent \/ DispatchPanics
  BY <1>4 DEF FinishDrain, JoinTask, Receive, DiscardStale, Transition, IgnoreSourceEvent,
         MapSourceEvent, DispatchPanics, scopeVars
<1>5. CASE PushMapped \/ ProcessEffect \/ ProcessPortIngress
  BY <1>1, <1>5 DEF PushMapped, ProcessEffect, ProcessPortIngress, AcceptFinite, scopeVars
<1>6. CASE RetainOutcomes \/ JoinBeforeCancel \/ StopBeforeCancel \/ FaultScope
  BY <1>6 DEF RetainOutcomes, JoinBeforeCancel, StopBeforeCancel, FaultScope, scopeVars
<1>7. CASE CleanupAbort \/ FinishCleanup
  BY <1>7 DEF CleanupAbort, FinishCleanup, scopeVars
<1> QED
  BY <1>2, <1>3, <1>4, <1>5, <1>6, <1>7 DEF Owner, Issue

\* The owner only moves the phase to Faulted, on its way to cleanup, and to
\* Closed, as it ends cleanly; Cancel is left for only when it was seen.
LEMMA OwnerMoves ==
  ASSUME Owner \/ OwnerAborted
  PROVE  /\ pc \notin OwnerEnded /\ handle' = handle
         /\ \/ /\ phase' = phase /\ pc' # "clean"
               /\ pc' = "cleanup" => pc = "cancel_stop"
               /\ pc' = "faulted" => phase = "Faulted"
            \/ pc = "fault" /\ pc' = "cleanup" /\ RecordFault
            \/ pc = "select" /\ draining /\ pc' = "clean" /\ phase' = "Closed"
            \/ pc = "joining" /\ phase # "Faulted" /\ pc' = "clean" /\ phase' = "Closed"
         /\ pc = "cleanup" => pc' = "joining"
         /\ pc = "joining" => pc' \in {"aborted", "faulted", "clean"}
         /\ pc' = "joining" => pc = "cleanup"
         /\ pc' \in {"cancel", "cancel_join", "cancel_stop"} =>
              \/ phase = "Cancelling" \/ pc \in {"cancel", "cancel_join"}
              \/ pc = "dispatch" /\ current.type = "Cancel"
         /\ \/ draining' = draining \/ phase = "Draining"
            \/ pc = "dispatch" /\ current.type = "Drain"
<1>1. CASE \/ IssueEffect \/ IssueAfter \/ IssueSend \/ IssueRequest \/ IssueReply
           \/ IssueRefused
  BY <1>1 DEF IssueEffect, IssueAfter, IssueSend, IssueRequest, IssueReply, IssueRefused,
         Issuing, IssueFrame, AcceptFinite, Goto, scopeVars, OwnerEnded
<1>2. CASE ConversionUnwinds \/ OwnerAborted
  BY <1>2 DEF ConversionUnwinds, OwnerAborted, Issuing, DropCore, OwnerEnded
<1>3. CASE Start \/ NextComponent
  BY <1>3 DEF Start, NextComponent, CancelSeen, Goto, scopeVars, hostVars, OwnerEnded
<1>4. CASE Initialize \/ Committed
  BY <1>4 DEF Initialize, Committed, CheckScope, CancelSeen, ObserveDrainCutoff, CutoffUnobserved,
         BeginDrain, TurnFrame, Goto, scopeVars, hostVars, OwnerEnded
<1>5. CASE Reconcile
  BY <1>5 DEF Reconcile, CheckScope, CancelSeen, ObserveDrainCutoff, CutoffUnobserved,
         BeginDrain, Goto, scopeVars, hostVars, OwnerEnded
<1>6. CASE Apply \/ Interpret
  BY <1>6 DEF Apply, Interpret, CheckScope, CancelSeen, ObserveDrainCutoff, CutoffUnobserved,
         BeginDrain, EndTurn, TurnFrame, Goto, scopeVars, hostVars, OwnerEnded
<1>7. CASE Change
  BY <1>7 DEF Change, Activate, TurnFrame, Goto, scopeVars, hostVars, OwnerEnded
<1>8. CASE Loop
  BY <1>8 DEF Loop, CancelSeen, ObserveDrainCutoff, CutoffUnobserved, BeginDrain, Goto, scopeVars,
         hostVars, OwnerEnded
<1>9. CASE DispatchMarker
  BY <1>9 DEF DispatchMarker, Dispatching, BeginDrain, Goto, scopeVars, hostVars,
         OwnerEnded
<1>10. CASE FinishDrain
  BY <1>10 DEF FinishDrain, DrainFinished, ScopeClose, Goto, hostVars, OwnerEnded
<1>11. CASE \/ JoinTask \/ Receive \/ DiscardStale \/ Transition \/ IgnoreSourceEvent
            \/ MapSourceEvent \/ DispatchPanics
  BY <1>11 DEF JoinTask, Receive, CancelSeen, DiscardStale, Transition, IgnoreSourceEvent,
         MapSourceEvent, DispatchPanics, Dispatching, Sending, Goto, scopeVars, hostVars, OwnerEnded
<1>12. CASE PushMapped \/ ProcessEffect \/ ProcessPortIngress
  BY <1>12 DEF PushMapped, ProcessEffect, OutcomeFrame, ProcessPortIngress, Dispatching,
         AcceptFinite, Sending, Goto, scopeVars, hostVars, OwnerEnded
<1>13. CASE RetainOutcomes \/ JoinBeforeCancel \/ StopBeforeCancel
  BY <1>13 DEF RetainOutcomes, Retain, OutcomeFrame, JoinBeforeCancel, StopBeforeCancel,
         Goto, scopeVars, hostVars, OwnerEnded
<1>14. CASE FaultScope \/ CleanupAbort
  BY <1>14 DEF FaultScope, CleanupAbort, Goto, scopeVars, hostVars, OwnerEnded
<1>15. CASE FinishCleanup
  BY <1>15 DEF FinishCleanup, ScopeClose, Goto, OwnerEnded
<1> QED
  BY <1>1, <1>2, <1>3, <1>4, <1>5, <1>6, <1>7, <1>8, <1>9, <1>10, <1>11, <1>12, <1>13, <1>14,
     <1>15 DEF Owner, Issue
\* An event is dispatched only when it was received.
LEMMA DispatchReceived ==
  ASSUME Owner \/ OwnerAborted, pc' = "dispatch"
  PROVE  Receive
<1>1. CASE Owner /\ ~Receive
  <2>1. CASE Start \/ Initialize \/ NextComponent \/ Committed \/ Reconcile \/ Apply \/ Change
    BY <2>1 DEF Start, Initialize, NextComponent, Committed, Reconcile, Apply, Change, Activate,
           CheckScope, ObserveDrainCutoff, BeginDrain, Goto
  <2>2. CASE Interpret \/ Issue \/ Loop \/ FinishDrain \/ JoinTask
    BY <2>2 DEF Interpret, Issue, IssueEffect, IssueAfter, IssueSend, IssueRequest, IssueReply,
           IssueRefused, ConversionUnwinds, DropCore, Loop, FinishDrain, JoinTask, EndTurn,
           CheckScope, ObserveDrainCutoff, BeginDrain, Goto
  <2>3. CASE \/ DiscardStale \/ Transition \/ IgnoreSourceEvent \/ MapSourceEvent \/ PushMapped
             \/ ProcessEffect \/ ProcessPortIngress \/ DispatchMarker \/ DispatchPanics
    BY <2>3 DEF DiscardStale, Transition, IgnoreSourceEvent, MapSourceEvent, PushMapped, Sending,
           ProcessEffect, ProcessPortIngress, DispatchMarker, DispatchPanics, BeginDrain, Goto
  <2>4. CASE \/ RetainOutcomes \/ JoinBeforeCancel \/ StopBeforeCancel \/ FaultScope
             \/ CleanupAbort \/ FinishCleanup
    BY <2>4 DEF RetainOutcomes, Retain, JoinBeforeCancel, StopBeforeCancel, FaultScope,
           CleanupAbort, FinishCleanup, Goto
  <2> QED
    BY <1>1, <2>1, <2>2, <2>3, <2>4 DEF Owner
<1> QED
  BY <1>1 DEF OwnerAborted, DropCore

\* What the owner has in hand was queued or is a Message it sent itself.
LEMMA OwnerPending ==
  ASSUME queue \in Seq(Event), Owner \/ OwnerAborted
  PROVE  \A event \in Pending' : event \in QueuedEvents \/ Unmarked(event)
<1>1. QueuedEvents' \subseteq QueuedEvents \/ \E event : Unmarked(event)
                                               /\ QueuedEvents' = QueuedEvents \cup {event}
  BY OwnerQueue, AppendAdds, TailRemoves, EmptyQueued DEF QueuedEvents
<1>2. ASSUME pc' = "dispatch"
      PROVE  current' \in QueuedEvents
  BY <1>2, DispatchReceived, TailRemoves DEF Receive
<1> QED
  BY <1>1, <1>2 DEF Pending, InHand

-----------------------------------------------------------------------------
(***************************************************************************)
(* PhaseInv: the scope's phase and the owner's position.                   *)
(***************************************************************************)

\* Hosts and Drivers leave the owner where it is; a host's cutoff moves the
\* phase and sends its marker in one step.
LEMMA OthersPending ==
  ASSUME queue \in Seq(Event), Host \/ Drivers \/ UNCHANGED vars
  PROVE  /\ UNCHANGED <<pc, draining, current>> /\ (phase' = phase \/ phase = "Running")
         /\ \A event \in Pending' :
              \/ event \in Pending \/ Unmarked(event)
              \/ event.type = "Drain" /\ phase' = "Draining"
              \/ event.type = "Cancel" /\ phase' = "Cancelling"
         /\ phase' \in {phase, "Draining", "Cancelling"}
<1>1. /\ \A g, n, terminal : Unmarked(SourceEvent(g, n, terminal))
      /\ \A type \in {"Message", "PortNotification", "PortRequest", "EffectOutcome", "TimerFired"} :
            \A item, target : Unmarked(EventOf(type, item, target))
      /\ \A mode : ShutdownEvent(mode).type = mode
  BY DEF Unmarked, SourceEvent, EventOf, ShutdownEvent
<1>2. UNCHANGED <<pc, draining, current>>
  BY OthersLeaveOwner DEF vars, ownerVars
<1>3. \/ UNCHANGED <<phase, queue>>
      \/ \E event : Unmarked(event) /\ queue' = Append(queue, event) /\ UNCHANGED phase
      \/ \E mode \in {"Drain", "Cancel"} :
           /\ phase = "Running" /\ phase' = ShutdownPhase[mode]
           /\ \/ UNCHANGED queue
              \/ \E event : event.type = mode /\ queue' = Append(queue, event)
  <2>1. CASE Host
    BY <1>1, <2>1 DEF Host, HostSendsEvent, HostAsks, HostShutsDown, HostDropsTask, AcceptIngress,
           BeginShutdown
  <2>2. CASE Drivers
    <3>1. /\ UNCHANGED phase
          /\ queue' = queue \/ \E event : Unmarked(event) /\ queue' = Append(queue, event)
      BY <1>1, <2>2 DEF Drivers, SourceEmits, SourceReturns, GateAccept, AcceptSource,
             EffectCompletes, TimerElapses, AcceptFinite, TaskReturns, DriverFails, TaskCancelled,
             scopeVars
    <3> QED
      BY <3>1
  <2>3. CASE UNCHANGED vars
    BY <2>3 DEF vars, scopeVars
  <2> QED
    BY <2>1, <2>2, <2>3
<1>4. \/ QueuedEvents' = QueuedEvents
      \/ \E event : /\ QueuedEvents' = QueuedEvents \cup {event}
                     /\ \/ Unmarked(event)
                        \/ event.type = "Drain" /\ phase' = "Draining"
                        \/ event.type = "Cancel" /\ phase' = "Cancelling"
  BY <1>3, AppendAdds DEF QueuedEvents, ShutdownPhase
<1>5. (phase = phase' \/ phase = "Running") /\ phase' \in {phase, "Draining", "Cancelling"}
  BY <1>3 DEF ShutdownPhase
<1> QED
  BY <1>2, <1>4, <1>5 DEF Pending, InHand

\* Every step keeps PhaseInv: the phase moves with the cutoffs of hosts and with
\* the ends of the owner, and a marker travels in its own phase only.
THEOREM PhaseStep ==
  ASSUME LiveInv, PhaseInv, [Next]_vars
  PROVE  PhaseInv'
<1>0. queue \in Seq(Event)
  BY DEF LiveInv, TypeOK, ScopeTypeOK
<1>1. CASE Host \/ Drivers \/ UNCHANGED vars
  <2>1. /\ UNCHANGED <<pc, draining>> /\ phase' \in {phase, "Draining", "Cancelling"}
        /\ phase' = phase \/ phase = "Running"
        /\ \A event \in Pending' :
             \/ event \in Pending \/ Unmarked(event)
             \/ event.type = "Drain" /\ phase' = "Draining"
             \/ event.type = "Cancel" /\ phase' = "Cancelling"
    BY <1>0, <1>1, OthersPending
  <2> QED
    BY <2>1 DEF PhaseInv, Unmarked, Cancelling
<1>2. CASE Owner \/ OwnerAborted
  <2>1. \A event \in Pending' : event \in Pending \/ Unmarked(event)
    BY <1>0, <1>2, OwnerPending DEF Pending
  <2>2. pc = "dispatch" => current \in Pending
    BY DEF Pending, InHand
  <2>3. /\ phase' = "Closed" <=> pc' = "clean"
        /\ phase' = "Faulted" => pc' \in {"cleanup", "joining", "faulted", "aborted"}
        /\ pc' \in {"cleanup", "joining"} => phase' \in {"Cancelling", "Faulted"}
    BY <1>2, OwnerMoves DEF PhaseInv, RecordFault, ScopeFault, OwnerEnded, Cancelling
  <2>4. pc' \in Cancelling => phase' = "Cancelling"
    BY <1>2, <2>2, OwnerMoves DEF PhaseInv, Cancelling, LiveInv, TypeOK, ScopeTypeOK, ScopePhase
  <2>5. draining' => phase' \in {"Draining", "Faulted", "Closed"}
    BY <1>2, <2>2, OwnerMoves DEF PhaseInv, RecordFault, ScopeFault, LiveInv, TypeOK,
           ScopeTypeOK, ScopePhase
  <2>6. phase' \in {phase, "Faulted", "Closed"}
    BY <1>2, OwnerMoves DEF RecordFault, ScopeFault
  <2> QED
    BY <2>1, <2>3, <2>4, <2>5, <2>6 DEF PhaseInv, Unmarked
<1> QED
  BY <1>1, <1>2 DEF Next

\* A scope that is Running, or one that is not yet Cancelling, was before.
LEMMA RunningBefore ==
  ASSUME LiveInv, [Next]_vars
  PROVE  /\ phase' = "Running" => phase = "Running"
         /\ phase' \in {"Running", "Draining"} => phase \in {"Running", "Draining"}
         /\ phase = "Faulted" => phase' \in {"Faulted", "Closed"}
<1>1. CASE Host \/ Drivers \/ UNCHANGED vars
  BY <1>1, OthersPending DEF LiveInv, TypeOK, ScopeTypeOK
<1>2. CASE Owner \/ OwnerAborted
  BY <1>2, OwnerMoves DEF RecordFault, ScopeFault
<1> QED
  BY <1>1, <1>2 DEF Next

-----------------------------------------------------------------------------
(***************************************************************************)
(* Which steps write which variables.                                      *)
(***************************************************************************)
Declare ==
  IssueEffect \/ IssueAfter \/ IssueSend \/ IssueRequest \/ IssueReply \/ IssueRefused
Dropped == OwnerAborted \/ ConversionUnwinds

WritesSources == UNCHANGED <<sources, realized, next_generation>>
  \/ Change \/ FinishDrain \/ CleanupAbort \/ Dropped
WritesRunning == UNCHANGED running
  \/ Change \/ FinishDrain \/ CleanupAbort \/ Dropped \/ MapSourceEvent \/ StopBeforeCancel
  \/ \E next \in OwnerPosition : BeginDrain(next)
WritesDrain == UNCHANGED <<draining, drain_retained>>
  \/ \E next \in OwnerPosition : ~draining /\ BeginDrain(next) /\ UNCHANGED <<sources, phase>>
WritesTurn == UNCHANGED <<component, desired, changes, active>>
  \/ Reconcile \/ Change \/ NextComponent \/ Transition \/ Loop \/ FinishCleanup \/ Dropped
WritesTask == UNCHANGED task
  \/ Drivers \/ IssueEffect \/ IssueAfter \/ Change \/ JoinTask \/ JoinBeforeCancel \/ FinishCleanup
WritesTerminal == UNCHANGED terminal_observed \/ MapSourceEvent
WritesHistory ==
  /\ UNCHANGED <<delivered, finished>> \/ Transition
  /\ UNCHANGED produced \/ PushMapped
  /\ UNCHANGED outcomes \/ \E e \in EffectItem : EffectCompletes(e)
  /\ UNCHANGED mapped \/ ProcessEffect \/ DispatchPanics \/ RetainOutcomes
  /\ UNCHANGED failed_in_time \/ \E t \in TaskId : DriverFails(t)
WritesWork ==
  /\ UNCHANGED declared \/ Declare
  /\ \/ UNCHANGED effects \/ IssueEffect \/ ProcessEffect \/ DispatchPanics \/ RetainOutcomes
     \/ CleanupAbort \/ Dropped
  /\ UNCHANGED timers \/ IssueAfter \/ Transition \/ CleanupAbort \/ Dropped
  /\ \/ UNCHANGED requests \/ IssueRequest \/ IssueReply \/ ProcessPortIngress \/ DispatchPanics
     \/ CleanupAbort \/ Dropped
  /\ UNCHANGED held \/ NextComponent \/ Transition \/ FinishCleanup \/ Dropped
  /\ \/ UNCHANGED commands \/ Declare \/ NextComponent \/ Transition \/ Loop \/ FinishCleanup
     \/ Dropped

\* Every variable has few writers.
LEMMA Writers ==
  ASSUME [Next]_vars
  PROVE  /\ WritesSources /\ WritesRunning /\ WritesDrain /\ WritesTurn /\ WritesTask
         /\ WritesTerminal /\ WritesHistory /\ WritesWork
<1> USE DEF WritesSources, WritesRunning, WritesDrain, WritesTurn, WritesTask, WritesTerminal,
            WritesHistory, WritesWork, Declare, Dropped
<1>1. CASE Host \/ UNCHANGED vars
  BY <1>1 DEF Host, HostSendsEvent, HostAsks, HostShutsDown, HostDropsTask, vars, ownerVars,
         turnVars, sourceVars, workVars, taskVars, deliveryHistory, outcomeHistory, history
<1>2. CASE Drivers
  <2>1. ASSUME NEW g \in Generations, NEW b, SourceEmits(g, b) \/ SourceReturns(g)
        PROVE  /\ WritesSources /\ WritesRunning /\ WritesDrain /\ WritesTurn
               /\ WritesTerminal /\ WritesHistory /\ WritesWork
    BY <2>1 DEF SourceEmits, SourceReturns, ownerVars, turnVars, workVars, outcomeHistory
  <2>2. ASSUME NEW e \in EffectItem, EffectCompletes(e)
        PROVE  /\ WritesSources /\ WritesRunning /\ WritesDrain /\ WritesTurn
               /\ WritesTerminal /\ WritesHistory /\ WritesWork
    BY <2>2 DEF EffectCompletes, ownerVars, turnVars, sourceVars, workVars, deliveryHistory
  <2>3. ASSUME NEW t \in TimerItem, TimerElapses(t)
        PROVE  /\ WritesSources /\ WritesRunning /\ WritesDrain /\ WritesTurn
               /\ WritesTerminal /\ WritesHistory /\ WritesWork
    BY <2>3 DEF TimerElapses, ownerVars, turnVars, sourceVars, workVars, deliveryHistory,
           outcomeHistory, history
  <2>4. ASSUME NEW t \in TaskId, TaskReturns(t) \/ TaskCancelled(t) \/ DriverFails(t)
        PROVE  /\ WritesSources /\ WritesRunning /\ WritesDrain /\ WritesTurn
               /\ WritesTerminal /\ WritesHistory /\ WritesWork
    BY <2>4 DEF TaskReturns, TaskCancelled, DriverFails, ownerVars, turnVars, sourceVars,
           workVars, deliveryHistory, outcomeHistory, history
  <2>5. /\ WritesSources /\ WritesRunning /\ WritesDrain /\ WritesTurn
        /\ WritesTerminal /\ WritesHistory /\ WritesWork
    <3> USE DEF TaskId
    <3> HIDE DEF WritesSources, WritesRunning, WritesDrain, WritesTurn, WritesTerminal, WritesHistory,
                WritesWork
    <3> QED
      BY <1>2, <2>1, <2>2, <2>3, <2>4 DEF Drivers
  <2> QED
    BY <1>2, <2>5
<1>3. CASE Declare
  BY <1>3 DEF IssueEffect, IssueAfter, IssueSend, IssueRequest, IssueReply, IssueRefused,
         IssueFrame, sourceVars, deliveryHistory, outcomeHistory
<1>4. CASE Dropped
  BY <1>4 DEF OwnerAborted, ConversionUnwinds, DropCore, deliveryHistory, outcomeHistory, history
<1>5. ASSUME NEW next \in OwnerPosition, ObserveDrainCutoff(next) \/ CheckScope(next),
             UNCHANGED phase
      PROVE  WritesSources /\ WritesRunning /\ WritesDrain /\ WritesTerminal /\ UNCHANGED task
  BY <1>5 DEF ObserveDrainCutoff, CheckScope, CutoffUnobserved, BeginDrain, sourceVars, taskVars,
         OwnerPosition
<1>6. CASE Initialize \/ Committed \/ Apply \/ Interpret
  <2>1. /\ UNCHANGED phase /\ WritesTurn /\ WritesHistory /\ WritesWork
    BY <1>6 DEF Initialize, Committed, Apply, Interpret, TurnFrame, scopeVars, workVars,
           deliveryHistory, outcomeHistory, history
  <2>2. WritesSources /\ WritesRunning /\ WritesDrain /\ WritesTerminal /\ UNCHANGED task
    BY <1>5, <1>6, <2>1 DEF Initialize, Committed, Apply, Interpret, sourceVars, taskVars,
           OwnerPosition
  <2> QED
    BY <2>1, <2>2
<1>7. CASE Reconcile
  <2>1. UNCHANGED phase /\ WritesTurn /\ WritesHistory /\ WritesWork
    BY <1>7 DEF Reconcile, scopeVars, workVars, deliveryHistory, outcomeHistory, history
  <2>2. WritesSources /\ WritesRunning /\ WritesDrain /\ WritesTerminal /\ UNCHANGED task
    BY <1>5, <1>7, <2>1 DEF Reconcile, sourceVars, taskVars, OwnerPosition
  <2> QED
    BY <2>1, <2>2
<1>8. CASE Loop
  <2>1. UNCHANGED phase /\ WritesTurn /\ WritesHistory /\ WritesWork
    BY <1>8 DEF Loop, scopeVars, workVars, deliveryHistory, outcomeHistory, history
  <2>2. WritesSources /\ WritesRunning /\ WritesDrain /\ WritesTerminal /\ UNCHANGED task
    BY <1>5, <1>8, <2>1 DEF Loop, sourceVars, taskVars, OwnerPosition
  <2> QED
    BY <2>1, <2>2
<1>9. CASE DispatchMarker
  BY <1>9 DEF DispatchMarker, BeginDrain, scopeVars, turnVars, sourceVars, taskVars, workVars,
         deliveryHistory, outcomeHistory, history, OwnerPosition
<1>10. CASE Start \/ NextComponent \/ Change
  BY <1>10 DEF Start, NextComponent, Change, TurnFrame, turnVars, sourceVars, taskVars, workVars,
         deliveryHistory, outcomeHistory, history
<1>11. CASE FinishDrain \/ JoinTask \/ Receive \/ DiscardStale \/ IgnoreSourceEvent
  BY <1>11 DEF FinishDrain, JoinTask, Receive, DiscardStale, IgnoreSourceEvent, turnVars,
         sourceVars, taskVars, workVars, deliveryHistory, outcomeHistory, history
<1>12. CASE Transition \/ MapSourceEvent \/ PushMapped
  BY <1>12 DEF Transition, MapSourceEvent, PushMapped, turnVars, sourceVars, taskVars, workVars,
         deliveryHistory, outcomeHistory, history
<1>13. CASE ProcessEffect \/ ProcessPortIngress \/ DispatchPanics \/ RetainOutcomes
  BY <1>13 DEF ProcessEffect, ProcessPortIngress, DispatchPanics, RetainOutcomes, OutcomeFrame,
         turnVars, sourceVars, taskVars, workVars, deliveryHistory, outcomeHistory, history
<1>14. CASE JoinBeforeCancel \/ StopBeforeCancel \/ FaultScope
  BY <1>14 DEF JoinBeforeCancel, StopBeforeCancel, FaultScope, turnVars, sourceVars, taskVars,
         workVars, deliveryHistory, outcomeHistory, history
<1>15. CASE CleanupAbort \/ FinishCleanup
  BY <1>15 DEF CleanupAbort, FinishCleanup, turnVars, sourceVars, deliveryHistory, outcomeHistory,
         history
<1> QED
  BY <1>1, <1>2, <1>3, <1>4, <1>6, <1>7, <1>8, <1>9, <1>10, <1>11, <1>12, <1>13, <1>14, <1>15
     DEF Next, Owner, Issue
-----------------------------------------------------------------------------
(***************************************************************************)
(* Tasks are spawned under numbers not used before and never restarted.    *)
(***************************************************************************)

\* The task of a declaration, and the task of a realization, are new.
LEMMA NewTaskFree ==
  ASSUME LiveInv, FreshInv
  PROVE  /\ pc = "issue" => \A kind \in {"effect", "discard", "after"} :
              NewItem(kind) \in TaskId /\ task[NewItem(kind)] = "none"
         /\ next_generation + 1 \in Generations =>
              /\ SourceTask(next_generation + 1) \in TaskId
              /\ task[SourceTask(next_generation + 1)] = "none"
<1>1. ASSUME pc = "issue", NEW kind \in {"effect", "discard", "after"}
      PROVE  NewItem(kind) \in TaskId /\ task[NewItem(kind)] = "none"
  <2>1. NewItem(kind) \in EffectItem \cup TimerItem
    BY <1>1, NewItemType DEF LiveInv
  <2>2. declared \in Nat /\ NewItem(kind)[2] = declared + 1
    BY DEF LiveInv, TypeOK, WorkTypeOK, NewItem
  <2>3. declared < NewItem(kind)[2]
    BY <2>2
  <2> QED
    BY <2>1, <2>3 DEF FreshInv, TaskId
<1>2. ASSUME next_generation + 1 \in Generations
      PROVE  /\ SourceTask(next_generation + 1) \in TaskId
             /\ task[SourceTask(next_generation + 1)] = "none"
  <2>1. next_generation < next_generation + 1
    BY WorkAssumption DEF LiveInv, TypeOK, SourceTypeOK
  <2> QED
    BY <1>2, <2>1 DEF FreshInv, TaskId
<1> QED
  BY <1>1, <1>2

\* What runs beside the owner ends tasks, one at a time, and aborts none.
LEMMA OthersEndTasks ==
  ASSUME Host \/ Drivers \/ UNCHANGED vars
  PROVE  /\ aborted' = aborted
         /\ \/ UNCHANGED task
            \/ Drivers /\ \E t \in TaskId : /\ task[t] \in {"running", "returning"}
                             /\ \E state \in {"ok", "returning", "failed", "cancelled"} :
                                  task' = [task EXCEPT ![t] = state]
<1>1. CASE Host \/ UNCHANGED vars
  BY <1>1 DEF Host, HostSendsEvent, HostAsks, HostShutsDown, HostDropsTask, vars, taskVars
<1>2. ASSUME NEW g \in Generations, NEW b, SourceEmits(g, b)
      PROVE  UNCHANGED <<task, aborted>>
  BY <1>2 DEF SourceEmits, taskVars
<1>3. ASSUME NEW g \in Generations, SourceReturns(g)
      PROVE  /\ SourceTask(g) \in TaskId /\ task[SourceTask(g)] = "running" /\ aborted' = aborted
             /\ task' = [task EXCEPT ![SourceTask(g)] = "ok"]
  BY <1>3 DEF SourceReturns, TaskId
<1>4. ASSUME NEW t \in TaskId, \/ EffectCompletes(t) \/ TimerElapses(t)
                               \/ TaskReturns(t) \/ DriverFails(t) \/ TaskCancelled(t)
      PROVE  /\ task[t] \in {"running", "returning"} /\ aborted' = aborted
             /\ \E state \in {"ok", "returning", "failed", "cancelled"} :
                   task' = [task EXCEPT ![t] = state]
  BY <1>4 DEF EffectCompletes, TimerElapses, TaskReturns, DriverFails, TaskCancelled
<1>5. EffectItem \subseteq TaskId /\ TimerItem \subseteq TaskId
  BY DEF TaskId
<1> QED
  BY <1>1, <1>2, <1>3, <1>4, <1>5 DEF Drivers

Declares == pc = "issue" /\ declared' = declared + 1
Realizes(g) == Change /\ g = next_generation + 1 /\ next_generation' = g /\ g \in Generations

\* What a step may do to a task.
LEMMA TaskMoves ==
  ASSUME LiveInv, FreshInv, [Next]_vars, NEW t \in TaskId
  PROVE  /\ task[t] # "none" => task'[t] # "none"
         /\ task[t] \notin {"none", "running"} => task'[t] \notin {"none", "running"}
         /\ task[t] \in {"failed", "joined"} => task'[t] \in {task[t], "joined"}
         /\ task[t] = "none" /\ task'[t] # "none" =>
              \/ /\ \E kind \in {"effect", "discard", "after"} : Declares /\ t = NewItem(kind)
                 /\ \A u \in TaskId : u # t => task'[u] = task[u]
              \/ \E g \in Generations : Realizes(g) /\ t = SourceTask(g)
<1> DEFINE Fine ==
      /\ task[t] # "none" => task'[t] # "none"
      /\ task[t] \notin {"none", "running"} => task'[t] \notin {"none", "running"}
      /\ task[t] \in {"failed", "joined"} => task'[t] \in {task[t], "joined"}
    Fresh ==
      \/ /\ \E kind \in {"effect", "discard", "after"} : Declares /\ t = NewItem(kind)
         /\ \A u \in TaskId : u # t => task'[u] = task[u]
      \/ \E g \in Generations : Realizes(g) /\ t = SourceTask(g)
<1>0. task \in [TaskId -> TaskState]
  BY DEF LiveInv, TypeOK, TaskTypeOK
<1>1. ASSUME NEW u \in TaskId, NEW state, task' = [task EXCEPT ![u] = state],
             state \notin {"none", "running"}, task[u] # "none",
             task[u] = "failed" => state = "joined", task[u] # "joined"
      PROVE  Fine /\ (task[t] = "none" => task'[t] = "none")
  BY <1>0, <1>1
<1>2. CASE Drivers
  BY <1>1, <1>2, OthersEndTasks
<1>3. CASE IssueEffect \/ IssueAfter
  <2>1. PICK kind \in {"effect", "discard", "after"} :
          Declares /\ task' = [task EXCEPT ![NewItem(kind)] = "running"]
    BY <1>3 DEF IssueEffect, IssueAfter, Issuing, IssueFrame, Declares
  <2>2. NewItem(kind) \in TaskId /\ task[NewItem(kind)] = "none"
    BY <2>1, NewTaskFree DEF Declares
  <2> QED
    BY <1>0, <2>1, <2>2
<1>4. CASE Change
  <2>1. CASE UNCHANGED task
    BY <2>1
  <2>2. CASE ~UNCHANGED task
    <3> DEFINE g == next_generation + 1
    <3>1. /\ g \in Generations /\ next_generation' = g
          /\ task' = [task EXCEPT ![SourceTask(g)] = "running"]
      BY <1>4, <2>2 DEF Change, Activate, taskVars
    <3>2. SourceTask(g) \in TaskId /\ task[SourceTask(g)] = "none"
      BY <3>1, NewTaskFree
    <3>3. Realizes(g)
      BY <1>4, <3>1 DEF Realizes
    <3> QED
      BY <1>0, <3>1, <3>2, <3>3
  <2> QED
    BY <2>1, <2>2
<1>5. CASE JoinTask \/ JoinBeforeCancel
  BY <1>1, <1>5 DEF JoinTask, JoinBeforeCancel, TaskExited
<1>6. CASE FinishCleanup
  BY <1>0, <1>6 DEF FinishCleanup, TaskExited
<1> QED
  BY <1>2, <1>3, <1>4, <1>5, <1>6, Writers DEF WritesTask
-----------------------------------------------------------------------------
(***************************************************************************)
(* source_index and source_stamp_is_current, while a Subscription has at   *)
(* most one entry.                                                         *)
(***************************************************************************)
LEMMA CurrentStamp ==
  ASSUME sources \subseteq Generations, EntryInv
  PROVE  /\ \A g \in Generations : StampIsCurrent(g) <=> g \in sources
         /\ \A key : Entry(key) = Realizations(key)
BY OnlyEntry DEF EntryInv

\* The ways one change of apply_subscription_changes can end.
LEMMA ChangeCases ==
  ASSUME Change
  PROVE  \E change \in changes :
    LET key == <<component, change.id>>
        S == Removed(change, Entry(key))
        g == next_generation + 1
    IN  /\ changes' = changes \ {change} /\ pc = "change"
        /\ UNCHANGED <<phase, queue, draining, component, desired, active, terminal_observed,
                       drain_retained, current, declared>>
        /\ \/ /\ UNCHANGED <<sources, realized, next_generation, running, task>>
              /\ change.kind = "Retain" \/ KeptForDrain(S)
              /\ pc' = "apply"
           \/ /\ ActivationOpen /\ change.kind \in {"Start", "Replace"}
              /\ g \in Generations /\ next_generation' = g
              /\ realized' = [realized EXCEPT ![g] = <<key, desired[change.id]>>]
              /\ sources' = (sources \ S) \cup {g} /\ running' = (running \ S) \cup {g}
              /\ task' = [task EXCEPT ![SourceTask(g)] = "running"]
              /\ pc' = "apply"
           \/ /\ UNCHANGED <<realized, next_generation, task>> /\ running' = running \ S
              /\ ~KeptForDrain(S)
              /\ \/ /\ sources' = sources \ S /\ pc' = "apply"
                    /\ change.kind \notin {"Retain", "Start", "Replace"} \/ ~ActivationOpen
                 \/ sources' \in {sources, sources \ S} /\ pc' = "fault"
<1>1. PICK change \in changes :
        LET key == <<component, change.id>>
            S == Removed(change, Entry(key))
        IN  /\ changes' = changes \ {change}
            /\ IF change.kind = "Retain" \/ KeptForDrain(S)
               THEN Goto("apply") /\ UNCHANGED <<sourceVars, taskVars>>
               ELSE /\ UNCHANGED <<terminal_observed, drain_retained>>
                    /\ StopSources(S)
                    /\ \/ IF change.kind \in {"Start", "Replace"}
                          THEN Activate(key, S)
                          ELSE /\ sources' = sources \ S /\ running' = running \ S
                               /\ UNCHANGED <<next_generation, realized, task>>
                               /\ Goto("apply")
                       \/ /\ \E g \in S : HookMayFail(g)
                          /\ running' = running \ S
                          /\ UNCHANGED <<next_generation, realized, sources, task>>
                          /\ Goto("fault")
  BY DEF Change
<1>2. pc = "change" /\ UNCHANGED <<phase, queue, draining, component, desired, active, current, declared>>
  BY DEF Change, TurnFrame, scopeVars, workVars
<1> DEFINE key == <<component, change.id>>
           S == Removed(change, Entry(key))
<1>3. <<component, change.id>>[2] = change.id
  OBVIOUS
<1>4. CASE change.kind = "Retain" \/ KeptForDrain(S)
  BY <1>1, <1>2, <1>4 DEF Goto, sourceVars, taskVars
<1>5. CASE ~(change.kind = "Retain" \/ KeptForDrain(S)) /\ Activate(key, S)
           /\ change.kind \in {"Start", "Replace"} /\ UNCHANGED <<terminal_observed, drain_retained>>
  BY <1>1, <1>2, <1>3, <1>5 DEF Activate, Goto
<1>6. CASE /\ ~(change.kind = "Retain" \/ KeptForDrain(S))
           /\ UNCHANGED <<next_generation, realized, task, terminal_observed, drain_retained>>
           /\ running' = running \ S
           /\ \/ /\ change.kind \notin {"Start", "Replace"} /\ sources' = sources \ S
                 /\ Goto("apply")
              \/ UNCHANGED sources /\ Goto("fault")
  BY <1>1, <1>2, <1>6 DEF Goto
<1> QED
  BY <1>1, <1>4, <1>5, <1>6

-----------------------------------------------------------------------------
(***************************************************************************)
(* FreshInv: numbers not handed out yet name no work.                      *)
(***************************************************************************)
THEOREM FreshStep ==
  ASSUME LiveInv, EntryInv, FreshInv, [Next]_vars
  PROVE  FreshInv'
<1>0. /\ sources \subseteq Generations /\ next_generation \in Nat /\ declared \in Nat
      /\ terminal_observed \subseteq Generations /\ finished \subseteq Generations
      /\ delivered \in [Generations -> Nat] /\ produced \in [Generations -> Nat]
      /\ Generations \subseteq Nat
  BY WorkAssumption
     DEF LiveInv, TypeOK, SourceTypeOK, WorkTypeOK, HistoryTypeOK, Generations
<1>1. declared' \in {declared, declared + 1} /\ (Declares => declared' = declared + 1)
  BY Writers DEF WritesWork, Declare, IssueEffect, IssueAfter, IssueSend, IssueRequest, IssueReply,
     IssueRefused, IssueFrame, Declares
<1>2. \/ next_generation' = next_generation /\ sources' \subseteq sources
      \/ next_generation' = next_generation + 1 /\ sources' \subseteq sources \cup {next_generation'}
  <2>1. CASE Change
    BY <2>1, ChangeCases
  <2>2. CASE FinishDrain \/ CleanupAbort \/ Dropped
    BY <2>2 DEF FinishDrain, CleanupAbort, Dropped, OwnerAborted, ConversionUnwinds, DropCore
  <2> QED
    BY <2>1, <2>2, Writers DEF WritesSources
<1>3. ASSUME NEW t \in EffectItem \cup TimerItem, declared' < t[2]
      PROVE  task'[t] = "none"
  <2>1. t \in TaskId /\ task[t] = "none" /\ t[2] \in Nat
    BY <1>0, <1>1, <1>3, WorkAssumption DEF FreshInv, TaskId, EffectItem, TimerItem, Declared
  <2>2. /\ \A kind : NewItem(kind)[2] = declared + 1
        /\ \A g : t # SourceTask(g)
    BY DEF NewItem, SourceTask, EffectItem, TimerItem
  <2> QED
    BY <1>0, <1>1, <1>3, <2>1, <2>2, TaskMoves
<1>4. ASSUME NEW t \in EffectItem, NEW u \in EffectItem,
             task'[t] # "none", task'[u] # "none", t[2] = u[2]
      PROVE  t = u
  <2>1. t \in TaskId /\ u \in TaskId /\ t[2] \in Nat
    BY WorkAssumption DEF TaskId, EffectItem, Declared
  <2>2. \A kind : NewItem(kind)[2] = declared + 1
    BY DEF NewItem
  <2>3. \A g : t # SourceTask(g) /\ u # SourceTask(g)
    BY DEF SourceTask, EffectItem
  <2>4. ASSUME NEW v \in EffectItem, task[v] # "none"
        PROVE  v[2] # declared + 1
    BY <1>0, <2>4, WorkAssumption DEF FreshInv, EffectItem, Declared
  <2>5. CASE task[t] # "none" /\ task[u] # "none"
    BY <1>4, <2>5 DEF FreshInv
  <2>6. CASE task[t] = "none"
    BY <1>4, <2>1, <2>2, <2>3, <2>4, <2>6, TaskMoves
  <2>7. CASE task[u] = "none"
    BY <1>4, <2>1, <2>2, <2>3, <2>4, <2>7, TaskMoves
  <2> QED
    BY <2>5, <2>6, <2>7
<1>5. ASSUME NEW g \in Generations, next_generation' < g
      PROVE  /\ task'[SourceTask(g)] = "none"
             /\ g \notin sources' \cup terminal_observed' \cup finished'
             /\ produced'[g] = 0 /\ delivered'[g] = 0
  <2>1. /\ next_generation < g /\ next_generation' # g /\ g \notin sources
        /\ task[SourceTask(g)] = "none"
        /\ g \notin terminal_observed /\ g \notin finished /\ produced[g] = 0 /\ delivered[g] = 0
    BY <1>0, <1>2, <1>5 DEF FreshInv
  <2>2. task'[SourceTask(g)] = "none"
    <3>1. SourceTask(g) \in TaskId /\ \A kind \in {"effect", "discard", "after"} : SourceTask(g) # NewItem(kind)
      BY DEF TaskId, SourceTask, NewItem
    <3>2. \A h \in Generations : SourceTask(g) = SourceTask(h) => g = h
      BY DEF SourceTask
    <3> QED
      BY <2>1, <3>1, <3>2, TaskMoves DEF Realizes
  <2>3. g \notin sources'
    BY <1>2, <2>1
  <2>4. g \notin terminal_observed'
    <3>1. CASE MapSourceEvent
      <4>1. StampIsCurrent(current.item[2]) /\ current.item[2] \in Generations
        BY <3>1 DEF MapSourceEvent, SourceEventRelevant, Dispatching, LiveInv, PositionInv, Event,
               SourceItem
      <4>2. current.item[2] # g
        BY <1>0, <2>1, <4>1, CurrentStamp
      <4> QED
        BY <2>1, <3>1, <4>2 DEF MapSourceEvent, ObserveTerminal
    <3> QED
      BY <2>1, <3>1, Writers DEF WritesTerminal
  <2>5. g \notin finished' /\ delivered'[g] = 0
    <3>1. CASE Transition
      <4>1. IsFrame(current.item) => current.item[2] \in Generations
        BY <3>1 DEF Transition, Dispatching, LiveInv, PositionInv, Event, Item, IsFrame, Kind,
               DeclaredItem, SourceItem, FrameItem, HostItem, TimerItem
      <4>2. IsFrame(current.item) => current.item[2] # g
        BY <1>0, <2>1, <3>1, <4>1, CurrentStamp DEF Transition
      <4> QED
        BY <1>0, <2>1, <3>1, <4>2 DEF Transition, Deliver
    <3> QED
      BY <2>1, <3>1, Writers DEF WritesHistory
  <2>6. produced'[g] = 0
    <3>1. CASE PushMapped
      <4>1. current.item[2] # g
        BY <2>1, <3>1 DEF PushMapped, EntryInv
      <4> QED
        BY <1>0, <2>1, <3>1, <4>1 DEF PushMapped
    <3> QED
      BY <2>1, <3>1, Writers DEF WritesHistory
  <2> QED
    BY <2>2, <2>3, <2>4, <2>5, <2>6
<1> QED
  BY <1>3, <1>4, <1>5 DEF FreshInv
-----------------------------------------------------------------------------
(***************************************************************************)
(* How the owner comes to a position.                                      *)
(***************************************************************************)
LEMMA PositionMoves ==
  ASSUME [Next]_vars
  PROVE  /\ pc' \in Driving => pc \in Driving
         /\ pc' = "cancel" => pc \in Driving \cup {"cancel"}
         /\ pc' = "cancel_join" => pc = "cancel_join" \/ RetainOutcomes
         /\ pc' = "start" => pc = "start" /\ UNCHANGED current
         /\ pc' = "cancel_stop" => pc = "cancel_stop" \/ (JoinBeforeCancel /\ UNCHANGED task)
         /\ pc = "fault" => pc' = "fault" \/ FaultScope
         /\ pc' = "clean" => pc = "clean" \/ FinishDrain \/ FinishCleanup
         /\ pc' = "faulted" => pc = "faulted" \/ FinishCleanup
         /\ pc' \in {"aborted", "panicked"} => pc \in {"aborted", "panicked"} \/ Dropped
         /\ pc \in OwnerEnded => UNCHANGED <<pc, aborted>>
         /\ pc' \in {"joining"} \cup OwnerEnded =>
              \/ pc \in {"joining"} \cup OwnerEnded
              \/ FinishDrain \/ CleanupAbort \/ Dropped
         /\ Applying' => Applying \/ Reconcile
         /\ Applying /\ pc' \in Driving /\ ~Applying' => Apply /\ changes = {}
         /\ pc' = "push" => UNCHANGED current
         /\ pc' = "push" => MapSourceEvent \/ PushMapped \/ (pc = "push" /\ UNCHANGED outer)
<1> DEFINE Fine ==
      /\ pc' \in Driving => pc \in Driving
      /\ pc' = "cancel" => pc \in Driving \cup {"cancel"}
      /\ pc' = "cancel_join" => pc = "cancel_join" \/ RetainOutcomes
      /\ pc' = "start" => pc = "start" /\ UNCHANGED current
      /\ pc' = "cancel_stop" => pc = "cancel_stop" \/ (JoinBeforeCancel /\ UNCHANGED task)
      /\ pc = "fault" => pc' = "fault" \/ FaultScope
      /\ pc' = "clean" => pc = "clean" \/ FinishDrain \/ FinishCleanup
      /\ pc' = "faulted" => pc = "faulted" \/ FinishCleanup
      /\ pc' \in {"aborted", "panicked"} => pc \in {"aborted", "panicked"} \/ Dropped
      /\ pc \in OwnerEnded => UNCHANGED <<pc, aborted>>
      /\ pc' \in {"joining"} \cup OwnerEnded =>
           \/ pc \in {"joining"} \cup OwnerEnded
           \/ FinishDrain \/ CleanupAbort \/ Dropped
      /\ Applying' => Applying \/ Reconcile
      /\ Applying /\ pc' \in Driving /\ ~Applying' => Apply /\ changes = {}
      /\ pc' = "push" => UNCHANGED current
      /\ pc' = "push" => MapSourceEvent \/ PushMapped \/ (pc = "push" /\ UNCHANGED outer)
<1> SUFFICES Fine
  OBVIOUS
<1> USE DEF Driving, TurnPosition, OwnerEnded, Applying, Goto
<1>1. CASE Host \/ Drivers \/ UNCHANGED vars
  BY <1>1, OthersLeaveOwner, OthersEndTasks DEF vars, ownerVars
<1>2. CASE Start \/ Initialize \/ NextComponent \/ Committed \/ Reconcile
  BY <1>2 DEF Start, Initialize, NextComponent, Committed, Reconcile, CheckScope,
         ObserveDrainCutoff, BeginDrain
<1>3. CASE Apply \/ Change \/ Interpret \/ Loop
  BY <1>3 DEF Apply, Change, Activate, Interpret, EndTurn, Loop, CheckScope, ObserveDrainCutoff,
         BeginDrain
<1>4. CASE Declare
  BY <1>4 DEF Declare, IssueEffect, IssueAfter, IssueSend, IssueRequest, IssueReply, IssueRefused,
         Issuing
<1>5. CASE FinishDrain \/ CleanupAbort \/ Dropped
  BY <1>5 DEF FinishDrain, CleanupAbort, Dropped, OwnerAborted, ConversionUnwinds, DropCore, Issuing
<1>6. CASE JoinTask \/ Receive \/ DiscardStale \/ Transition \/ IgnoreSourceEvent
  BY <1>6 DEF JoinTask, Receive, DiscardStale, Transition, IgnoreSourceEvent, Dispatching
<1>7. CASE MapSourceEvent \/ PushMapped
  BY <1>7 DEF MapSourceEvent, PushMapped, Dispatching, Sending
<1>8. CASE ProcessEffect \/ ProcessPortIngress \/ DispatchMarker \/ DispatchPanics
  BY <1>8 DEF ProcessEffect, ProcessPortIngress, DispatchMarker, DispatchPanics, Dispatching,
         BeginDrain
<1>9. CASE RetainOutcomes \/ JoinBeforeCancel \/ StopBeforeCancel \/ FaultScope \/ FinishCleanup
  BY <1>9 DEF RetainOutcomes, Retain, JoinBeforeCancel, StopBeforeCancel, FaultScope, FinishCleanup
<1> QED
  BY <1>1, <1>2, <1>3, <1>4, <1>5, <1>6, <1>7, <1>8, <1>9 DEF Next, Owner, Issue, Declare, Dropped

-----------------------------------------------------------------------------
(***************************************************************************)
(* EntryInv: the owner's list of Sources.                                  *)
(***************************************************************************)

\* Which entry one change removes, and that an activation takes its place.
LEMMA ChangeReplaces ==
  ASSUME LiveInv, PhaseInv, EntryInv, DesiredInv, NEW change \in changes, pc = "change",
         ActivationOpen, change.kind \in {"Start", "Replace"}
  PROVE  LET key == <<component, change.id>> IN
         /\ key \in Keys /\ desired[change.id] \in Descriptors
         /\ active[key] = desired[change.id]
         /\ \A g \in sources \ Removed(change, Entry(key)) : KeyOf(g) # key
<1>1. component \in Components /\ TurnTypeOK /\ sources \subseteq Generations /\ OneEntryEach
  BY DEF LiveInv, TypeOK, SourceTypeOK, PositionInv, TurnPosition, EntryInv
<1>2. Owing(change)
  BY DEF DesiredInv, Reconciling, ActivationOpen, Driving, TurnPosition, Applying
<1> QED
  BY <1>1, <1>2, Replaces

\* Every step keeps EntryInv: activate_source puts a new entry in the place of
\* the one that was removed, and begin_drain retains all there are.
THEOREM EntryStep ==
  ASSUME LiveInv, PhaseInv, FreshInv, EntryInv, DesiredInv, [Next]_vars
  PROVE  EntryInv'
<1>0. /\ sources \subseteq Generations /\ next_generation \in Nat
      /\ realized \in [Generations -> (Keys \cup {NoKey}) \X (Descriptors \cup {NoDescriptor})]
      /\ \A g \in Generations : StampIsCurrent(g) <=> g \in sources
  BY CurrentStamp DEF LiveInv, TypeOK, SourceTypeOK
<1>1. /\ \A g, h \in sources' : KeyOf(g)' = KeyOf(h)' => g = h
      /\ \A g \in sources' : realized'[g] \in Keys \X Descriptors
  <2>1. CASE sources' \subseteq sources /\ UNCHANGED realized
    BY <2>1 DEF EntryInv, OneEntryEach, KeyOf
  <2>2. CASE Change
    <3>1. PICK change \in changes :
            LET key == <<component, change.id>>
                S == Removed(change, Entry(key))
                g == next_generation + 1
            IN  \/ UNCHANGED realized /\ sources' \subseteq sources
                \/ /\ pc = "change" /\ ActivationOpen /\ change.kind \in {"Start", "Replace"}
                   /\ g \in Generations
                   /\ realized' = [realized EXCEPT ![g] = <<key, desired[change.id]>>]
                   /\ sources' = (sources \ S) \cup {g}
      BY <2>2, ChangeCases
    <3> DEFINE key == <<component, change.id>>
               S == Removed(change, Entry(key))
               g == next_generation + 1
    <3>2. CASE UNCHANGED realized /\ sources' \subseteq sources
      BY <2>1, <3>2
    <3>3. CASE ~(UNCHANGED realized /\ sources' \subseteq sources)
      <4>1. /\ key \in Keys /\ desired[change.id] \in Descriptors
            /\ \A h \in sources \ S : KeyOf(h) # key
        BY <3>1, <3>3, ChangeReplaces
      <4>2. g \notin sources
        BY <1>0, <3>1, <3>3 DEF FreshInv
      <4>3. /\ \A h \in sources \ S : realized'[h] = realized[h]
            /\ realized'[g] = <<key, desired[change.id]>> /\ sources' = (sources \ S) \cup {g}
        BY <1>0, <3>1, <3>3, <4>2
      <4> HIDE DEF g, S, key
      <4> QED
        BY <4>1, <4>3 DEF EntryInv, OneEntryEach, KeyOf
    <3> QED
      BY <3>2, <3>3
  <2>3. CASE FinishDrain \/ CleanupAbort \/ Dropped
    BY <2>3 DEF FinishDrain, CleanupAbort, Dropped, OwnerAborted, ConversionUnwinds, DropCore
  <2> QED
    BY <2>1, <2>2, <2>3, Writers DEF WritesSources
<1>2. ~draining' => drain_retained' = {}
  BY Writers DEF WritesDrain, BeginDrain, EntryInv
<1>3. ASSUME pc' \in Driving, draining'
      PROVE  drain_retained' = sources'
  <2>1. pc \in Driving
    BY <1>3, PositionMoves
  <2>2. CASE ~draining
    <3>1. PICK next \in OwnerPosition : BeginDrain(next) /\ UNCHANGED sources
      BY <1>3, <2>2, Writers DEF WritesDrain
    <3>2. drain_retained' = RetainForDrain(sources)
      BY <1>3, <3>1 DEF BeginDrain, Goto, Driving, TurnPosition
    <3> QED
      BY <2>2, <3>1, <3>2 DEF RetainForDrain, EntryInv
  <2>3. CASE draining
    <3>1. UNCHANGED drain_retained /\ drain_retained = sources
      BY <2>1, <2>3, Writers DEF WritesDrain, EntryInv
    <3>2. CASE Change
      <4>1. PICK change \in changes :
              LET S == Removed(change, Entry(<<component, change.id>>))
              IN  \/ UNCHANGED sources
                  \/ ~KeptForDrain(S) /\ sources' \in {sources, sources \ S}
        BY <1>3, <2>3, <3>2, ChangeCases DEF ActivationOpen
      <4>2. Removed(change, Entry(<<component, change.id>>)) \subseteq sources
        BY <1>0, CurrentStamp DEF Removed, Realizations
      <4> QED
        BY <2>3, <3>1, <4>1, <4>2 DEF KeptForDrain
    <3>3. ~(FinishDrain \/ CleanupAbort \/ Dropped)
      BY <1>3 DEF FinishDrain, CleanupAbort, Dropped, OwnerAborted, ConversionUnwinds, DropCore,
             Goto, Driving, TurnPosition
    <3> QED
      BY <3>1, <3>2, <3>3, Writers DEF WritesSources
  <2> QED
    BY <2>2, <2>3
<1>4. ASSUME pc' \in Driving \cup {"cancel", "cancel_join"}
      PROVE  sources' \subseteq running' \cup terminal_observed' \cup drain_retained'
  <2>1. sources \subseteq running \cup terminal_observed \cup drain_retained
    BY <1>4, PositionMoves DEF EntryInv, RetainOutcomes
  <2>2. /\ pc' \notin {"fault", "cleanup", "joining"} \cup OwnerEnded
    BY <1>4 DEF Driving, TurnPosition, OwnerEnded
  <2>3. /\ ~(FinishDrain \/ CleanupAbort \/ Dropped)
        /\ ~StopBeforeCancel
    BY <2>2 DEF FinishDrain, CleanupAbort, Dropped, OwnerAborted, ConversionUnwinds, DropCore,
           StopBeforeCancel, Goto, OwnerEnded
  <2>4. CASE Change
    BY <2>1, <2>2, <2>4, ChangeCases
  <2>5. CASE MapSourceEvent
    <3>1. UNCHANGED <<sources, drain_retained>>
      BY <2>5 DEF MapSourceEvent
    <3>2. \/ running' \cup terminal_observed' = running \cup terminal_observed
          \/ \E g : /\ terminal_observed' = terminal_observed \cup {g}
                   /\ running' = running \ {g}
      BY <2>5 DEF MapSourceEvent, ObserveTerminal
    <3> QED
      BY <2>1, <3>1, <3>2
  <2>6. ASSUME NEW next \in OwnerPosition, BeginDrain(next), UNCHANGED sources
        PROVE  sources' \subseteq running' \cup terminal_observed' \cup drain_retained'
    BY <2>1, <2>6 DEF BeginDrain, RetainForDrain
  <2>7. ASSUME NEW next \in OwnerPosition, BeginDrain(next)
        PROVE  UNCHANGED sources
    BY <2>7 DEF BeginDrain
  <2> QED
    BY <2>1, <2>3, <2>4, <2>5, <2>6, <2>7, Writers
       DEF WritesSources, WritesRunning, WritesDrain, WritesTerminal
<1>5. ASSUME pc' \in {"joining"} \cup OwnerEnded
      PROVE  sources' = {}
  <2>1. CASE FinishDrain \/ CleanupAbort \/ Dropped
    BY <2>1 DEF FinishDrain, CleanupAbort, Dropped, OwnerAborted, ConversionUnwinds, DropCore
  <2>2. CASE ~(FinishDrain \/ CleanupAbort \/ Dropped)
    <3>1. sources = {} /\ pc \in {"joining"} \cup OwnerEnded
      BY <1>5, <2>2, PositionMoves DEF EntryInv
    <3>2. ~Change
      BY <3>1 DEF Change, OwnerEnded
    <3> QED
      BY <2>2, <3>1, <3>2, Writers DEF WritesSources
  <2> QED
    BY <2>1, <2>2
<1>6. ASSUME pc' = "push"
      PROVE  current'.item[2] \in sources'
  <2>1. CASE MapSourceEvent
    <3>1. current.item[2] \in Generations /\ StampIsCurrent(current.item[2])
      BY <2>1 DEF MapSourceEvent, SourceEventRelevant, Dispatching, LiveInv, PositionInv, Event,
             SourceItem
    <3> QED
      BY <1>0, <2>1, <3>1 DEF MapSourceEvent
  <2>2. CASE PushMapped
    BY <2>2 DEF PushMapped, EntryInv, sourceVars
  <2>3. CASE pc = "push" /\ ~MapSourceEvent /\ ~PushMapped
    <3>1. UNCHANGED current
      BY <1>6, PositionMoves
    <3>2. ~(Change \/ FinishDrain \/ CleanupAbort \/ Dropped)
      BY <2>3 DEF Change, FinishDrain, CleanupAbort, Dropped, OwnerAborted, ConversionUnwinds,
             Issuing
    <3> QED
      BY <2>3, <3>1, <3>2, Writers DEF WritesSources, EntryInv
  <2> QED
    BY <1>6, <2>1, <2>2, <2>3, PositionMoves
<1> QED
  BY <1>1, <1>2, <1>3, <1>4, <1>5, <1>6 DEF EntryInv, OneEntryEach

-----------------------------------------------------------------------------
(***************************************************************************)
(* DesiredInv: the Sources realized against the ones desired.              *)
(***************************************************************************)

\* While the scope runs, a change that does not fault is applied as the
\* reconciler decided it.
LEMMA ChangeApplies ==
  ASSUME LiveInv, PhaseInv, FreshInv, EntryInv, Change, phase = "Running", pc' \in Driving
  PROVE  /\ pc = "change" /\ pc' = "apply"
         /\ \E change \in changes :
              LET key == <<component, change.id>>
                  S == Removed(change, Entry(key))
              IN  changes' = changes \ {change} /\ Applies(change, key, S, next_generation + 1)
<1>0. /\ sources \subseteq Generations /\ next_generation \in Nat /\ pc = "change" /\ ~draining
      /\ changes \subseteq [kind : ChangeKind, id : Subscriptions]
  BY DEF LiveInv, TypeOK, SourceTypeOK, TurnTypeOK, PhaseInv, Change
<1>1. PICK change \in changes :
        LET key == <<component, change.id>>
            S == Removed(change, Entry(key))
            g == next_generation + 1
        IN  /\ changes' = changes \ {change} /\ UNCHANGED <<component, desired, active>>
            /\ pc' = "apply"
            /\ \/ UNCHANGED <<sources, realized>> /\ (change.kind = "Retain" \/ KeptForDrain(S))
               \/ /\ ActivationOpen /\ change.kind \in {"Start", "Replace"} /\ g \in Generations
                  /\ realized' = [realized EXCEPT ![g] = <<key, desired[change.id]>>]
                  /\ sources' = (sources \ S) \cup {g}
               \/ /\ UNCHANGED realized /\ sources' = sources \ S
                  /\ change.kind \notin {"Retain", "Start", "Replace"} \/ ~ActivationOpen
  BY ChangeCases DEF Driving, TurnPosition
<1> DEFINE key == <<component, change.id>>
           S == Removed(change, Entry(key))
           g == next_generation + 1
<1>2. ActivationOpen /\ ~KeptForDrain(S)
  BY <1>0 DEF ActivationOpen, KeptForDrain
<1>3. g \in Generations => g \notin sources
  BY <1>0 DEF FreshInv
<1>4. change.kind = "Retain" => S = {}
  BY DEF Removed
<1>5. change.kind \in ChangeKind
  BY <1>0
<1>6. Applies(change, key, S, g)
  BY <1>1, <1>2, <1>3, <1>4, <1>5 DEF Applies, ChangeKind
<1> QED
  BY <1>0, <1>1, <1>6

\* Every step keeps DesiredInv: reconcile makes the bookkeeping the desired map
\* and the change set what is missing of it, and each change applied is one less.
THEOREM DesiredStep ==
  ASSUME LiveInv, PhaseInv, FreshInv, EntryInv, DesiredInv, [Next]_vars
  PROVE  DesiredInv'
<1> SUFFICES ASSUME phase' = "Running", pc' \in Driving
             PROVE  IF Applying' THEN Reconciling' ELSE Reconciled'
  BY DEF DesiredInv
<1>0. phase = "Running" /\ pc \in Driving /\ ~draining
  BY PositionMoves, RunningBefore DEF PhaseInv
<1>1. CASE Reconcile
  <2>1. /\ ~duplicate /\ UNCHANGED <<sources, realized>>
    BY <1>0, <1>1, Writers DEF Reconcile, Goto, Driving, TurnPosition, WritesSources,
       CheckScope, ObserveDrainCutoff, CutoffUnobserved, CancelSeen, sourceVars
  <2>2. Reconciled
    BY <1>0, <1>1 DEF DesiredInv, Applying, Reconcile
  <2>3. Applying'
    BY <1>0, <1>1, <2>1 DEF Reconcile, CheckScope, ObserveDrainCutoff, CutoffUnobserved,
       CancelSeen, Goto, Applying
  <2>4. component \in Components /\ TurnTypeOK
    BY <1>1 DEF Reconcile, LiveInv, TypeOK, PositionInv, TurnPosition
  <2>5. /\ changes' = Changes(Bookkept(component), desired) /\ active' = BookkeptAfter(component)
        /\ UNCHANGED <<component, desired>>
    BY <1>1, <2>1 DEF Reconcile
  <2> QED
    BY <2>1, <2>2, <2>3, <2>4, <2>5, Decides
<1>2. CASE Change
  <2>1. PICK change \in changes :
          LET key == <<component, change.id>>
              S == Removed(change, Entry(key))
          IN  changes' = changes \ {change} /\ Applies(change, key, S, next_generation + 1)
    BY <1>0, <1>2, ChangeApplies
  <2>2. /\ Applying' /\ Reconciling
        /\ component \in Components /\ TurnTypeOK /\ sources \subseteq Generations /\ OneEntryEach
        /\ realized \in [Generations -> (Keys \cup {NoKey}) \X (Descriptors \cup {NoDescriptor})]
    BY <1>0, <1>2, ChangeApplies DEF Applying, DesiredInv, LiveInv, TypeOK, SourceTypeOK,
       PositionInv, TurnPosition, EntryInv
  <2> QED
    BY <2>1, <2>2, OneChangeLess
<1>3. CASE ~Reconcile /\ ~Change
  <2>1. UNCHANGED <<sources, realized>>
    <3>1. ~(FinishDrain \/ CleanupAbort \/ Dropped)
      BY DEF FinishDrain, CleanupAbort, Dropped, OwnerAborted, ConversionUnwinds, DropCore,
         Goto, Driving, TurnPosition
    <3> QED
      BY <1>3, <3>1, Writers DEF WritesSources
  <2>2. UNCHANGED active /\ (UNCHANGED <<component, desired, changes>> \/ (~Applying /\ ~Applying'))
    <3>1. ~(FinishCleanup \/ Dropped)
      BY DEF FinishCleanup, Dropped, OwnerAborted, ConversionUnwinds, DropCore,
         Goto, Driving, TurnPosition
    <3>2. NextComponent \/ Transition \/ Loop => UNCHANGED active /\ ~Applying /\ ~Applying'
      BY DEF NextComponent, Transition, Loop, ObserveDrainCutoff, BeginDrain, Dispatching, Goto,
         Applying
    <3> QED
      BY <1>3, <3>1, <3>2, Writers DEF WritesTurn
  <2>3. \A k : Matched(k)' <=> Matched(k)
    BY <2>1, <2>2 DEF Matched, KeyOf
  <2>4. CASE Applying'
    <3>1. Applying /\ UNCHANGED <<component, desired, changes>>
      BY <1>3, <2>2, <2>4, PositionMoves
    <3> QED
      BY <1>0, <2>1, <2>2, <2>3, <2>4, <3>1 DEF DesiredInv, Reconciling, Owing, KeyOf
  <2>5. CASE ~Applying'
    <3>1. ~Applying \/ changes = {}
      BY <2>5, PositionMoves
    <3> QED
      BY <1>0, <2>3, <2>5, <3>1 DEF DesiredInv, Reconciling, Reconciled
  <2> QED
    BY <2>4, <2>5
<1> QED
  BY <1>1, <1>2, <1>3

-----------------------------------------------------------------------------
(***************************************************************************)
(* FaultInv: what becomes of a failure.                                    *)
(***************************************************************************)

\* A fault recorded stays recorded, and an owner past its faults had none.
LEMMA FaultBefore ==
  ASSUME LiveInv, PhaseInv, [Next]_vars, phase' # "Faulted"
  PROVE  /\ phase # "Faulted"
         /\ pc' \notin {"fault", "aborted", "panicked"} => pc \notin {"fault", "aborted", "panicked"}
         /\ pc' = "cleanup" => pc \in {"cleanup", "cancel_stop"}
         /\ pc' = "joining" => pc \in {"cleanup", "joining"}
<1>1. CASE Host \/ Drivers \/ UNCHANGED vars
  BY <1>1, OthersPending DEF LiveInv, TypeOK, ScopeTypeOK
<1>2. CASE Owner \/ OwnerAborted
  <2>1. pc = "fault" => phase # "Closed"
    BY DEF PhaseInv
  <2>2. /\ phase # "Faulted" /\ (pc' = "cleanup" => pc = "cancel_stop")
        /\ pc' = "joining" => pc = "cleanup"
    BY <1>2, <2>1, OwnerMoves DEF PhaseInv, RecordFault, ScopeFault
  <2>3. pc = "fault" => pc' = "fault"
    BY <2>1, PositionMoves DEF FaultScope, RecordFault, ScopeFault
  <2>4. pc \notin {"aborted", "panicked"}
    BY <1>2, OwnerMoves DEF OwnerEnded
  <2> QED
    BY <2>2, <2>3, <2>4
<1> QED
  BY <1>1, <1>2 DEF Next

\* A task joined without a fault is a Source's whose stream was over.
LEMMA JoinWithoutFault ==
  ASSUME LiveInv, EntryInv, pc \in {"select", "cancel_join"}, NEW t \in TaskId,
         task[t] = "failed", ~TaskFaults(t)
  PROVE  Kind(t) = "run" /\ (t[2] \notin sources \/ t[2] \in terminal_observed)
<1>1. Kind(t) = "run" /\ ~SourceFaultRelevant(t[2])
  BY DEF TaskFaults
<1>2. t[2] \in Generations
  BY <1>1 DEF TaskId, SourceTask, EffectItem, TimerItem, Kind
<1>3. StampIsCurrent(t[2]) <=> t[2] \in sources
  BY <1>2, CurrentStamp DEF LiveInv, TypeOK, SourceTypeOK
<1>4. t[2] \in sources => t[2] \in running \cup terminal_observed \cup drain_retained
  BY DEF EntryInv, Driving
<1> QED
  BY <1>1, <1>3, <1>4 DEF SourceFaultRelevant

\* What a step does to a task that failed in time.
LEMMA FailedMoves ==
  ASSUME LiveInv, PhaseInv, FreshInv, FaultInv, [Next]_vars, NEW t \in failed_in_time'
  PROVE  /\ t \in TaskId /\ task'[t] \in {"failed", "joined"}
         /\ task'[t] = "joined" => t \in failed_in_time
         /\ t \notin failed_in_time => phase \in {"Running", "Draining"} /\ pc' = pc
<1>0. failed_in_time \subseteq TaskId /\ task \in [TaskId -> TaskState]
  BY DEF LiveInv, TypeOK, HistoryTypeOK, TaskTypeOK
<1>1. CASE t \in failed_in_time
  BY <1>0, <1>1, TaskMoves DEF FaultInv
<1>2. CASE t \notin failed_in_time
  <2>1. PICK u \in TaskId : DriverFails(u)
    BY <1>2, Writers DEF WritesHistory
  <2>2. u = t /\ task' = [task EXCEPT ![t] = "failed"] /\ phase \in {"Running", "Draining"}
        /\ pc' = pc
    BY <1>2, <2>1 DEF DriverFails, ownerVars
  <2> QED
    BY <1>0, <1>2, <2>1, <2>2
<1> QED
  BY <1>1, <1>2

\* Every step keeps FaultInv: a task joined with a failure faults the scope
\* unless its Source was no longer listed or had ended (task_fault).
THEOREM FaultStep ==
  ASSUME LiveInv, PhaseInv, FreshInv, EntryInv, FaultInv, [Next]_vars
  PROVE  FaultInv'
<1>1. \A t \in failed_in_time' : task'[t] \in {"failed", "joined"}
  BY FailedMoves
<1>2. ASSUME phase' # "Faulted", pc' \notin {"fault", "aborted", "panicked"},
             NEW t \in failed_in_time', task'[t] = "joined"
      PROVE  Kind(t) = "run" /\ (t[2] \notin sources' \/ t[2] \in terminal_observed')
  <2>0. /\ phase # "Faulted" /\ pc \notin {"fault", "aborted", "panicked"}
        /\ t \in failed_in_time /\ t \in TaskId /\ task[t] \in {"failed", "joined"}
    BY <1>2, FaultBefore, FailedMoves DEF FaultInv
  <2>1. CASE task[t] = "joined"
    <3>1. Kind(t) = "run" /\ (t[2] \notin sources \/ t[2] \in terminal_observed)
      BY <2>0, <2>1 DEF FaultInv
    <3>2. t = SourceTask(t[2]) /\ t[2] \in Generations
      BY <2>0, <3>1 DEF TaskId, SourceTask, EffectItem, TimerItem, Kind
    <3>3. t[2] \in sources' => t[2] \in sources
      <4>1. next_generation + 1 \in Generations => t[2] # next_generation + 1
        BY <2>1, <3>2, NewTaskFree
      <4>2. CASE Change
        <5>1. \/ sources' \subseteq sources
              \/ next_generation + 1 \in Generations /\ sources' \subseteq sources \cup {next_generation + 1}
          BY <4>2, ChangeCases
        <5> QED
          BY <4>1, <5>1
      <4> QED
        BY <4>2, Writers DEF WritesSources, FinishDrain, CleanupAbort, Dropped, OwnerAborted,
           ConversionUnwinds, DropCore
    <3>4. terminal_observed \subseteq terminal_observed'
      BY Writers DEF WritesTerminal, MapSourceEvent, ObserveTerminal
    <3> QED
      BY <3>1, <3>3, <3>4
  <2>2. CASE task[t] = "failed"
    <3>0. task \in [TaskId -> TaskState]
      BY DEF LiveInv, TypeOK, TaskTypeOK
    <3>1. CASE JoinTask \/ JoinBeforeCancel
      <4>1. ~TaskFaults(t) /\ pc \in {"select", "cancel_join"}
        BY <1>2, <2>0, <2>2, <3>0, <3>1 DEF JoinTask, JoinBeforeCancel, Goto
      <4>2. UNCHANGED <<sources, terminal_observed>>
        BY <3>1 DEF JoinTask, JoinBeforeCancel, sourceVars
      <4> QED
        BY <2>0, <2>2, <4>1, <4>2, JoinWithoutFault
    <3>2. CASE Drivers
      BY <1>2, <2>0, <2>2, <3>0, <3>2, OthersEndTasks
    <3>3. CASE FinishCleanup
      BY <2>0, <2>2, <3>3 DEF FinishCleanup, FaultInv
    <3>4. CASE IssueEffect \/ IssueAfter
      BY <1>2, <2>0, <2>2, <3>0, <3>4 DEF IssueEffect, IssueAfter
    <3>5. CASE Change
      <4>1. UNCHANGED task \/ \E g : task' = [task EXCEPT ![SourceTask(g)] = "running"]
        BY <3>5, ChangeCases
      <4> QED
        BY <1>2, <2>0, <2>2, <3>0, <4>1
    <3> QED
      BY <1>2, <2>2, <3>1, <3>2, <3>3, <3>4, <3>5, Writers DEF WritesTask
  <2> QED
    BY <2>0, <2>1, <2>2
<1>3. ASSUME phase' # "Faulted", pc' \in {"cancel_stop", "cleanup", "joining"},
             NEW t \in failed_in_time'
      PROVE  task'[t] = "joined"
  <2>1. phase # "Faulted"
    BY <1>3, FaultBefore
  <2>2. CASE pc \in {"cancel_stop", "cleanup", "joining"}
    <3>1. phase \notin {"Running", "Draining"}
      BY <2>2 DEF PhaseInv, Cancelling
    <3>2. t \in failed_in_time /\ task[t] = "joined" /\ t \in TaskId
      BY <2>1, <2>2, <3>1, FailedMoves DEF FaultInv
    <3> QED
      BY <3>2, TaskMoves
  <2>3. CASE JoinBeforeCancel /\ UNCHANGED task /\ pc' = "cancel_stop"
    <3>1. t \in failed_in_time /\ t \in TaskId /\ task[t] \in {"failed", "joined"}
      BY <2>3, FailedMoves DEF JoinBeforeCancel
    <3>2. task[t] \notin TaskExited
      BY <2>3, <3>1 DEF JoinBeforeCancel, Goto
    <3> QED
      BY <2>3, <3>1, <3>2 DEF TaskExited
  <2> QED
    BY <1>3, <2>2, <2>3, FaultBefore, PositionMoves
<1> QED
  BY <1>1, <1>2, <1>3 DEF FaultInv

-----------------------------------------------------------------------------
(***************************************************************************)
(* NoDetachedTasks: what the owner leaves as it ends.                      *)
(***************************************************************************)
THEOREM DetachedStep ==
  ASSUME LiveInv, FreshInv, NoDetachedTasks, [Next]_vars
  PROVE  NoDetachedTasks'
<1> SUFFICES ASSUME pc' \in OwnerEnded, NEW t \in TaskId, task'[t] = "running"
             PROVE  t \in aborted'
  BY DEF NoDetachedTasks
<1>0. task \in [TaskId -> TaskState]
  BY DEF LiveInv, TypeOK, TaskTypeOK
<1>1. CASE pc \in OwnerEnded
  <2>1. pc' = pc /\ aborted' = aborted
    BY <1>1, PositionMoves
  <2>2. pc # "issue" /\ pc # "change"
    BY <1>1 DEF OwnerEnded
  <2>3. task[t] = "running"
    BY <1>0, <2>2, TaskMoves DEF Declares, Realizes, Change, TaskState
  <2> QED
    BY <1>1, <2>1, <2>3 DEF NoDetachedTasks
<1>2. CASE FinishDrain
  BY <1>0, <1>2 DEF FinishDrain, DrainFinished, AllJoined, taskVars
<1>3. CASE FinishCleanup
  BY <1>0, <1>3 DEF FinishCleanup, JoinedAll, TaskExited
<1>4. CASE Dropped
  BY <1>4 DEF Dropped, OwnerAborted, ConversionUnwinds, DropCore, Unfinished
<1> QED
  BY <1>1, <1>2, <1>3, <1>4, PositionMoves DEF OwnerEnded

-----------------------------------------------------------------------------
(***************************************************************************)
(* What one step does to the events under way.                             *)
(***************************************************************************)

\* An event that carries no Request, no outcome and no Source's frame.
Plain(event) ==
  event.type # "EffectOutcome" /\ event.item \notin Correlation /\ ~IsFrame(event.item)

\* The events that are not Plain, by the step that sends them.
Sends(event) ==
  \/ \E h \in Asks : HostAsks(h) /\ event = EventOf("PortRequest", AskItem(h), Provider)
  \/ \E e \in EffectItem :
       EffectCompletes(e) /\ FiniteOpen /\ event = EventOf("EffectOutcome", e, e[3])
  \/ IssueRequest /\ event = Message(NewItem("request"), Provider, FALSE)
  \/ ProcessPortIngress /\ FiniteOpen /\ event = Message(current.item, Provider, FALSE)
  \/ PushMapped /\ FiniteOpen /\ event = Message(NextFrame, current.target, Head(outer))

Appends(event) == queue' = Append(queue, event) /\ (Plain(event) \/ Sends(event))

\* By the kind of its item an event is Plain.
LEMMA PlainKinds ==
  /\ \A event : /\ event.type # "EffectOutcome"
               /\ event.item[1] \notin {"request", "ask", "frame"}
               => Plain(event)
  /\ \A g, n, terminal : Plain(SourceEvent(g, n, terminal))
  /\ \A mode \in {"Drain", "Cancel"} : Plain(ShutdownEvent(mode))
  /\ \A t \in TimerItem : \A target : Plain(EventOf("TimerFired", t, target))
  /\ \A item, target, terminal : /\ item[1] \notin {"request", "ask", "frame"}
                                 => Plain(Message(item, target, terminal))
  /\ \A type \in {"Message", "PortNotification"} : \A n, target :
       Plain(EventOf(type, <<"ingress", n, 0>>, target))
<1>1. \A token \in Correlation : token[1] \in {"request", "ask"}
  BY DEF Correlation
<1>2. \A event : /\ event.type # "EffectOutcome"
                /\ event.item[1] \notin {"request", "ask", "frame"}
                => Plain(event)
  BY <1>1 DEF Plain, IsFrame, Kind
<1>3. \A g, n, terminal : Plain(SourceEvent(g, n, terminal))
  BY <1>2 DEF SourceEvent
<1>4. \A mode \in {"Drain", "Cancel"} : Plain(ShutdownEvent(mode))
  BY <1>2 DEF ShutdownEvent, EventOf, NoItem
<1>5. \A t \in TimerItem : \A target : Plain(EventOf("TimerFired", t, target))
  BY <1>2 DEF EventOf, TimerItem
<1>6. \A item, target, terminal : item[1] \notin {"request", "ask", "frame"}
                                  => Plain(Message(item, target, terminal))
  BY <1>2 DEF Message
<1>7. ASSUME NEW type \in {"Message", "PortNotification"}, NEW n, NEW target
      PROVE  Plain(EventOf(type, <<"ingress", n, 0>>, target))
  BY <1>2 DEF EventOf
<1> QED
  BY <1>2, <1>3, <1>4, <1>5, <1>6, <1>7

\* One step sends at most one event, receives at most one, or drops them all
\* with the channel.
LEMMA QueueMoves ==
  ASSUME LiveInv, [Next]_vars
  PROVE  /\ \/ UNCHANGED queue
            \/ queue # <<>> /\ queue' = Tail(queue) /\ (Receive \/ RetainOutcomes)
            \/ queue' = <<>> /\ pc' \in OwnerEnded
            \/ \E event : Appends(event)
         /\ pc' = "dispatch" => Receive \/ (pc = "dispatch" /\ UNCHANGED current)
<1>1. \A kind : NewItem(kind)[1] = kind
  BY DEF NewItem
<1>2. pc' = "dispatch" => Receive \/ (pc = "dispatch" /\ UNCHANGED current)
  BY DispatchReceived, OthersLeaveOwner DEF Next, vars, ownerVars
<1>3. CASE Host \/ UNCHANGED vars
  <2>1. UNCHANGED queue \/ \E event : Appends(event)
    BY <1>3, PlainKinds DEF Host, HostSendsEvent, HostAsks, HostShutsDown, HostDropsTask, AcceptIngress,
           BeginShutdown, vars, scopeVars, Appends, Sends
  <2> QED
    BY <1>2, <2>1
<1>4. CASE Drivers
  <2>1. ASSUME NEW g \in Generations, NEW b, SourceEmits(g, b) \/ SourceReturns(g)
        PROVE  UNCHANGED queue \/ \E event : Appends(event)
    <3>1. GateAccept(g, b) \/ GateAccept(g, TRUE) \/ UNCHANGED queue
      BY <2>1 DEF SourceEmits, SourceReturns, scopeVars
    <3>2. \A n, c : queue' = Append(queue, SourceEvent(g, n, c)) => \E event : Appends(event)
      BY PlainKinds DEF Appends
    <3> QED
      BY <3>1, <3>2 DEF GateAccept, AcceptSource
  <2>2. ASSUME NEW e \in EffectItem, EffectCompletes(e)
        PROVE  UNCHANGED queue \/ \E event : Appends(event)
    BY <2>2 DEF EffectCompletes, AcceptFinite, Appends, Sends
  <2>3. ASSUME NEW t \in TimerItem, TimerElapses(t)
        PROVE  UNCHANGED queue \/ \E event : Appends(event)
    BY <2>3, PlainKinds DEF TimerElapses, AcceptFinite, Appends
  <2>4. ASSUME NEW t, TaskReturns(t) \/ DriverFails(t) \/ TaskCancelled(t)
        PROVE  UNCHANGED queue
    BY <2>4 DEF TaskReturns, DriverFails, TaskCancelled, scopeVars
  <2>5. UNCHANGED queue \/ \E event : Appends(event)
    BY <1>4, <2>1, <2>2, <2>3, <2>4 DEF Drivers
  <2> QED
    BY <1>2, <2>5
<1>5. CASE Declare
  <2>1. UNCHANGED queue \/ \E event : Appends(event)
    <3>1. CASE IssueEffect \/ IssueAfter \/ IssueRefused
      BY <3>1 DEF IssueEffect, IssueAfter, IssueRefused, scopeVars
    <3>2. CASE IssueRequest
      BY <3>2 DEF IssueRequest, AcceptFinite, Appends, Sends
    <3>3. ASSUME NEW kind \in {"send", "reply"}, NEW target,
                 AcceptFinite(Message(NewItem(kind), target, FALSE))
          PROVE  UNCHANGED queue \/ \E event : Appends(event)
      BY <1>1, <3>3, PlainKinds DEF AcceptFinite, Appends
    <3>4. CASE IssueSend
      BY <3>3, <3>4 DEF IssueSend
    <3>5. CASE IssueReply
      BY <3>3, <3>5 DEF IssueReply, scopeVars
    <3> QED
      BY <1>5, <3>1, <3>2, <3>4, <3>5 DEF Declare
  <2> QED
    BY <1>2, <2>1
<1>6. CASE Dropped
  BY <1>2, <1>6 DEF Dropped, OwnerAborted, ConversionUnwinds, DropCore, OwnerEnded
<1>7. CASE \/ Start \/ Initialize \/ NextComponent \/ Committed \/ Reconcile \/ Apply \/ Change
           \/ Interpret \/ Loop \/ DispatchMarker
  BY <1>2, <1>7 DEF Start, Initialize, NextComponent, Committed, Reconcile, Apply, Change, Interpret,
         Loop, DispatchMarker, TurnFrame, scopeVars
<1>8. CASE \/ FinishDrain \/ JoinTask \/ Receive \/ DiscardStale \/ Transition
           \/ IgnoreSourceEvent \/ MapSourceEvent \/ DispatchPanics
  BY <1>2, <1>8 DEF FinishDrain, JoinTask, Receive, DiscardStale, Transition, IgnoreSourceEvent,
         MapSourceEvent, DispatchPanics, scopeVars
<1>9. CASE PushMapped \/ ProcessPortIngress
  BY <1>2, <1>9 DEF PushMapped, ProcessPortIngress, AcceptFinite, Appends, Sends
<1>10. CASE ProcessEffect
  <2>1. current.item \in EffectItem
    BY <1>10 DEF ProcessEffect, Dispatching, LiveInv, PositionInv, Event
  <2> QED
    BY <1>2, <1>10, <2>1, PlainKinds
       DEF ProcessEffect, AcceptFinite, scopeVars, Appends, EffectItem
<1>11. CASE RetainOutcomes \/ JoinBeforeCancel \/ StopBeforeCancel \/ FaultScope
  BY <1>2, <1>11 DEF RetainOutcomes, JoinBeforeCancel, StopBeforeCancel, FaultScope, scopeVars
<1>12. CASE CleanupAbort \/ FinishCleanup
  BY <1>2, <1>12 DEF CleanupAbort, FinishCleanup, Goto, scopeVars, OwnerEnded
<1> QED
  BY <1>3, <1>4, <1>5, <1>6, <1>7, <1>8, <1>9, <1>10, <1>11, <1>12
     DEF Next, Owner, Issue, Declare, Dropped

\* While the owner drives the application no event vanishes but the one it
\* dispatches, and none appears but the one sent.
LEMMA PendingMoves ==
  ASSUME LiveInv, [Next]_vars, pc' \in Driving
  PROVE  /\ QueuedEvents \subseteq Pending'
         /\ pc' = "dispatch" \/ pc # "dispatch" => Pending \subseteq Pending'
         /\ \A event \in Pending' :
              \/ event \in QueuedEvents
              \/ pc = "dispatch" /\ pc' = "dispatch" /\ event = current
              \/ Appends(event)
         /\ \A event : Appends(event) => event \in QueuedEvents'
<1>0. queue \in Seq(Event)
  BY DEF LiveInv, TypeOK, ScopeTypeOK
<1>1. ~RetainOutcomes /\ pc' \notin OwnerEnded
  BY DEF RetainOutcomes, Retain, Goto, Driving, TurnPosition, OwnerEnded
<1>2. CASE Receive
  <2>1. /\ QueuedEvents = {Head(queue)} \cup QueuedEvents' /\ current' = Head(queue)
        /\ pc = "select" /\ pc' = "dispatch"
    BY <1>0, <1>2, TailRemoves DEF Receive, Goto, Driving, TurnPosition
  <2>2. \A event : ~Appends(event)
    <3>1. ASSUME NEW event, queue' = Append(queue, event)
          PROVE  FALSE
      BY <1>0, <1>2, <3>1 DEF Receive
    <3> QED
      BY <3>1 DEF Appends
  <2> QED
    BY <2>1, <2>2 DEF Pending, InHand
<1>3. CASE ~Receive
  <2>1. \/ QueuedEvents' = QueuedEvents /\ UNCHANGED queue
        \/ \E event : Appends(event) /\ QueuedEvents' = QueuedEvents \cup {event}
    BY <1>0, <1>1, <1>3, QueueMoves, AppendAdds DEF QueuedEvents, Appends
  <2>2. pc' = "dispatch" => pc = "dispatch" /\ UNCHANGED current
    BY <1>3, QueueMoves
  <2>3. \A event : Appends(event) => event \in QueuedEvents'
    BY <1>0, AppendAdds DEF Appends
  <2> QED
    BY <2>1, <2>2, <2>3 DEF Pending, InHand
<1> QED
  BY <1>2, <1>3

\* What becomes of the event in hand.
Dispatches ==
  \/ DiscardStale \/ Transition \/ IgnoreSourceEvent \/ MapSourceEvent \/ ProcessEffect
  \/ ProcessPortIngress \/ DispatchMarker \/ DispatchPanics

\* An event in hand stays there until one of the dispatch actions is done with it.
LEMMA DispatchEnds ==
  ASSUME [Next]_vars, pc = "dispatch"
  PROVE  Dispatches \/ UNCHANGED <<pc, current>>
<1>1. CASE Host \/ Drivers \/ UNCHANGED vars
  BY <1>1, OthersLeaveOwner DEF vars, ownerVars
<1>2. CASE Owner \/ OwnerAborted
  BY <1>2 DEF Owner, OwnerAborted, Issue, Issuing, Start, Initialize, NextComponent, Committed,
     Reconcile, Apply, Change, Interpret, IssueEffect, IssueAfter, IssueSend, IssueRequest,
     IssueReply, IssueRefused, ConversionUnwinds, Loop, FinishDrain, JoinTask, Receive, PushMapped,
     RetainOutcomes, JoinBeforeCancel, StopBeforeCancel, FaultScope, CleanupAbort, FinishCleanup,
     Dispatches
<1> QED
  BY <1>1, <1>2 DEF Next

-----------------------------------------------------------------------------
(***************************************************************************)
(* LedgerInv: where work that is open is to be found.                      *)
(***************************************************************************)

\* Work is taken on with the event that carries it, or as a pending task.
LEMMA WorkTakenOn ==
  ASSUME [Next]_vars, NEW item \in open' \ open
  PROVE  /\ \/ item \in effects' \cup timers'
            \/ FiniteOpen => \E event : queue' = Append(queue, event) /\ event.item = item
         /\ phase = "Closed" => pc # "clean"
<1> DEFINE Fine == /\ \/ item \in effects' \cup timers'
                      \/ FiniteOpen => \E event : queue' = Append(queue, event) /\ event.item = item
                   /\ phase = "Closed" => pc # "clean"
<1>1. CASE Host \/ UNCHANGED vars
  <2>1. \A type, target, it : EventOf(type, it, target).item = it
    BY DEF EventOf
  <2> QED
    BY <1>1, <2>1 DEF Host, HostSendsEvent, HostAsks, HostShutsDown, HostDropsTask, AcceptIngress,
       IngressOpen, vars, history
<1>2. CASE Drivers
  <2>1. ASSUME NEW g, NEW b, GateAccept(g, b)
        PROVE  Fine
    BY <2>1 DEF GateAccept, AcceptSource, SourcesOpen, SourceEvent
  <2>2. ASSUME NEW g, NEW b, SourceEmits(g, b)
        PROVE  Fine
    BY <2>1, <2>2 DEF SourceEmits
  <2>3. ASSUME NEW g, SourceReturns(g)
        PROVE  Fine
    BY <2>1, <2>3 DEF SourceReturns
  <2>4. ASSUME NEW t, \/ EffectCompletes(t) \/ TimerElapses(t) \/ TaskReturns(t)
                      \/ DriverFails(t) \/ TaskCancelled(t)
        PROVE  UNCHANGED open
    BY <2>4 DEF EffectCompletes, TimerElapses, TaskReturns, DriverFails, TaskCancelled, history
  <2> QED
    BY <1>2, <2>2, <2>3, <2>4 DEF Drivers
<1>3. CASE IssueEffect \/ IssueAfter
  BY <1>3 DEF IssueEffect, IssueAfter, Issuing, TakeOn
<1>4. CASE IssueSend \/ IssueRequest \/ IssueReply \/ IssueRefused
  <2>1. ASSUME NEW it, NEW target, AcceptFinite(Message(it, target, FALSE)), TakeOn(it)
        PROVE  FiniteOpen => \E event : queue' = Append(queue, event) /\ event.item = item
    BY <2>1 DEF Message, AcceptFinite, TakeOn
  <2>2. pc = "issue"
    BY <1>4 DEF IssueSend, IssueRequest, IssueReply, IssueRefused, Issuing
  <2>3. CASE IssueSend
    BY <2>1, <2>2, <2>3 DEF IssueSend
  <2>4. CASE IssueRequest
    BY <2>1, <2>2, <2>4 DEF IssueRequest
  <2>5. CASE IssueReply
    BY <2>1, <2>2, <2>5 DEF IssueReply
  <2>6. CASE IssueRefused
    BY <2>6 DEF IssueRefused
  <2> QED
    BY <1>4, <2>3, <2>4, <2>5, <2>6
<1>5. CASE PushMapped
  BY <1>5 DEF PushMapped, TakeOn, AcceptFinite, Message
<1>6. CASE \/ DiscardStale \/ Transition \/ IgnoreSourceEvent \/ MapSourceEvent \/ ProcessEffect
           \/ RetainOutcomes \/ ProcessPortIngress \/ DispatchMarker \/ DispatchPanics
  BY <1>6 DEF DiscardStale, Transition, IgnoreSourceEvent, MapSourceEvent, ProcessEffect,
     RetainOutcomes, Retain, ProcessPortIngress, DispatchMarker, DispatchPanics, history
<1>7. CASE \/ Start \/ Initialize \/ NextComponent \/ Committed \/ Reconcile \/ Apply \/ Change
           \/ Interpret \/ Loop
  BY <1>7 DEF Start, Initialize, NextComponent, Committed, Reconcile, Apply, Change, Interpret, Loop,
     TurnFrame, history
<1>8. CASE \/ Dropped \/ FinishDrain \/ JoinTask \/ Receive \/ JoinBeforeCancel \/ StopBeforeCancel
           \/ FaultScope \/ CleanupAbort \/ FinishCleanup
  BY <1>8 DEF Dropped, OwnerAborted, ConversionUnwinds, DropCore, FinishDrain, JoinTask, Receive,
     JoinBeforeCancel, StopBeforeCancel, FaultScope, CleanupAbort, FinishCleanup, history
<1> QED
  BY <1>1, <1>2, <1>3, <1>4, <1>5, <1>6, <1>7, <1>8 DEF Next, Owner, Issue, Dropped

\* Every step keeps LedgerInv: work leaves the channel, the effects and the
\* timers only by what closes it, or in a scope that is no longer driving it.
THEOREM LedgerStep ==
  ASSUME LiveInv, PhaseInv, LedgerInv, [Next]_vars
  PROVE  LedgerInv'
<1> DEFINE Items == {event.item : event \in Pending}
<1>0. queue \in Seq(Event) /\ open \subseteq Item /\ effects \subseteq EffectItem
  BY DEF LiveInv, TypeOK, ScopeTypeOK, HistoryTypeOK, WorkTypeOK
<1>1. ASSUME phase' \in {"Running", "Draining"}, pc' \in Driving, NEW item \in open'
      PROVE  item \in Items' \cup effects' \cup timers'
  <2>0. /\ phase \in {"Running", "Draining"} /\ pc \in Driving /\ FiniteOpen
        /\ open \subseteq Items \cup effects \cup timers
    BY <1>1, RunningBefore, PositionMoves
       DEF LedgerInv, LiveInv, EndInv, FiniteOpen, Driving, TurnPosition, OwnerEnded, TypeOK, ScopeTypeOK
  <2>1. ASSUME NEW event, queue' = Append(queue, event)
        PROVE  event.item \in Items'
    BY <1>0, <2>1, AppendAdds DEF Pending
  <2>2. CASE item \notin open
    BY <1>1, <2>0, <2>1, <2>2, WorkTakenOn
  <2>3. /\ ~(FinishDrain \/ CleanupAbort \/ Dropped \/ RetainOutcomes \/ DispatchPanics)
    BY <1>1 DEF FinishDrain, CleanupAbort, Dropped, OwnerAborted, ConversionUnwinds, DropCore,
       RetainOutcomes, Retain, DispatchPanics, Goto, Driving, TurnPosition
  <2>4. CASE ProcessEffect /\ item = current.item
    <3>1. HasMapper(current.item) /\ queue' = Append(queue, Message(current.item, OwnerOf(current.item), FALSE))
      BY <1>1, <2>0, <2>4 DEF ProcessEffect, AcceptFinite
    <3> QED
      BY <2>1, <2>4, <3>1 DEF Message
  <2>5. CASE item \in open \cap effects /\ ~(ProcessEffect /\ item = current.item)
    <3>1. item \in effects'
      BY <2>3, <2>5, Writers DEF WritesWork, IssueEffect, ProcessEffect, TakeOutcome, EffectsAfter
    <3> QED
      BY <3>1
  <2>6. CASE item \in open \cap timers
    <3>1. ~(Transition /\ item = current.item)
      BY <1>1 DEF Transition
    <3>2. item \in timers'
      BY <2>3, <2>6, <3>1, Writers DEF WritesWork, IssueAfter, Transition
    <3> QED
      BY <3>2
  <2>7. ASSUME NEW event \in Pending, event.item = item, ~(ProcessEffect /\ item = current.item)
        PROVE  item \in Items'
    <3>1. CASE event \in Pending'
      BY <2>7, <3>1
    <3>2. CASE event \notin Pending'
      <4>1. pc = "dispatch" /\ pc' # "dispatch" /\ event = current
        BY <1>1, <3>2, PendingMoves DEF Pending, InHand
      <4>2. Dispatches
        BY <4>1, DispatchEnds
      <4>3. ~(DiscardStale \/ Transition \/ IgnoreSourceEvent \/ MapSourceEvent)
        BY <1>1, <2>7, <4>1 DEF DiscardStale, Transition, IgnoreSourceEvent, MapSourceEvent
      <4>4. CASE ProcessPortIngress
        BY <2>0, <2>1, <2>7, <4>1, <4>4 DEF ProcessPortIngress, AcceptFinite, Message
      <4>5. CASE DispatchMarker
        <5>1. current.item = NoItem
          BY <4>5 DEF DispatchMarker, Dispatching, LiveInv, PositionInv, Event
        <5>2. UNCHANGED open /\ NoItem \notin Item
          BY <4>5 DEF DispatchMarker, history, NoItem, Item, DeclaredItem, SourceItem, FrameItem, HostItem
        <5> QED
          BY <1>0, <1>1, <2>7, <4>1, <5>1, <5>2
      <4> QED
        BY <2>3, <2>7, <4>1, <4>2, <4>3, <4>4, <4>5 DEF Dispatches
    <3> QED
      BY <3>1, <3>2
  <2> QED
    BY <2>0, <2>2, <2>4, <2>5, <2>6, <2>7
<1>2. ASSUME pc' = "clean", draining', NEW item \in open'
      PROVE  FALSE
  <2>1. CASE pc = "clean"
    <3>1. phase = "Closed" /\ draining
      BY <1>2, <2>1, OwnerMoves, OthersLeaveOwner DEF PhaseInv, OwnerEnded, Next, vars, ownerVars
    <3>2. item \notin open
      BY <2>1, <3>1 DEF LedgerInv
    <3> QED
      BY <1>2, <2>1, <3>1, <3>2, WorkTakenOn
  <2>2. CASE FinishDrain
    <3>1. /\ draining /\ pc = "select" /\ queue = <<>> /\ effects = {} /\ timers = {} /\ open' = open
      BY <2>2 DEF FinishDrain, DrainFinished, history
    <3>2. Pending = {} /\ phase \in {"Running", "Draining"}
      BY <3>1 DEF Pending, QueuedEvents, InHand, PhaseInv
    <3> QED
      BY <1>2, <3>1, <3>2 DEF LedgerInv, Driving
  <2>3. CASE FinishCleanup
    <3>1. phase = "Cancelling" /\ draining
      BY <1>2, <2>3 DEF FinishCleanup, PhaseInv, Goto
    <3> QED
      BY <3>1 DEF PhaseInv
  <2> QED
    BY <1>2, <2>1, <2>2, <2>3, PositionMoves
<1> QED
  BY <1>1, <1>2 DEF LedgerInv

-----------------------------------------------------------------------------
(***************************************************************************)
(* OutcomeInv: an outcome on its way to its mapper.                        *)
(***************************************************************************)

\* The owner takes the outcome of an effect from the event that carries it.
Maps(e) ==
  /\ TakeOutcome(e)
  /\ pc \in {"dispatch", "cancel"}
  /\ \E event \in Owed : event.type = "EffectOutcome" /\ event.item = e

\* finish_cancel maps the outcomes it finds and goes on when none is left.
LEMMA RetainMaps ==
  ASSUME LiveInv, RetainOutcomes
  PROVE  /\ \/ \E e : Maps(e)
            \/ UNCHANGED <<mapped, effects>>
         /\ pc' = "cancel_join" => /\ current = NoEvent /\ queue = <<>>
                                   /\ UNCHANGED <<mapped, effects>>
         /\ \A event \in Owed : event.type = "EffectOutcome" =>
              event \in Owed' \/ Maps(event.item)
         /\ current' \in {current, NoEvent}
<1>0. queue \in Seq(Event) /\ pc = "cancel" /\ NoEvent.type = "none" /\ Pending = QueuedEvents
  BY DEF LiveInv, TypeOK, ScopeTypeOK, RetainOutcomes, NoEvent, Pending, InHand
<1>1. CASE current # NoEvent /\ Retain(current) /\ current' = NoEvent /\ UNCHANGED queue
  <2>1. current \in Owed /\ (OwesMapping(current) <=> current.type = "EffectOutcome")
        /\ Owed = QueuedEvents \cup {current}
        /\ QueuedEvents \subseteq Owed' /\ pc' # "cancel_join"
    BY <1>0, <1>1 DEF Owed, OwesMapping, Retain, Goto, Pending, QueuedEvents
  <2>2. CASE current.type = "EffectOutcome"
    <3>1. Maps(current.item)
      BY <1>0, <1>1, <2>1, <2>2 DEF Retain, Maps
    <3> QED
      BY <1>1, <2>1, <3>1
  <2>3. CASE current.type # "EffectOutcome"
    BY <1>1, <2>1, <2>3 DEF Retain
  <2> QED
    BY <2>2, <2>3
<1>2. CASE current = NoEvent /\ queue # <<>> /\ Retain(Head(queue)) /\ queue' = Tail(queue)
           /\ UNCHANGED current
  <2>1. /\ QueuedEvents = {Head(queue)} \cup QueuedEvents'
        /\ Owed = QueuedEvents \cup {NoEvent} /\ Head(queue) \in Owed
        /\ QueuedEvents' \subseteq Owed' /\ pc' # "cancel_join"
        /\ (OwesMapping(Head(queue)) <=> Head(queue).type = "EffectOutcome")
    BY <1>0, <1>2, TailRemoves DEF Owed, OwesMapping, Retain, Goto, Pending
  <2>2. CASE Head(queue).type = "EffectOutcome"
    <3>1. Maps(Head(queue).item)
      BY <1>0, <1>2, <2>1, <2>2 DEF Retain, Maps
    <3> QED
      BY <1>0, <1>2, <2>1, <3>1
  <2>3. CASE Head(queue).type # "EffectOutcome"
    BY <1>0, <1>2, <2>1, <2>3 DEF Retain
  <2> QED
    BY <2>2, <2>3
<1>3. CASE /\ current = NoEvent /\ queue = <<>> /\ Goto("cancel_join")
           /\ UNCHANGED <<queue, current, outer, effects, asks, open, mapped>>
  BY <1>0, <1>3 DEF Goto, Owed, QueuedEvents
<1> QED
  BY <1>1, <1>2, <1>3 DEF RetainOutcomes

\* What a step does to effects, to their outcomes and to what is mapped.
LEMMA OutcomeMoves ==
  ASSUME LiveInv, [Next]_vars
  PROVE  /\ \/ UNCHANGED outcomes
            \/ \E e \in EffectItem : /\ EffectCompletes(e) /\ FiniteOpen
                                     /\ outcomes' = outcomes \cup {e}
         /\ \/ \E e : Maps(e)
            \/ UNCHANGED mapped /\ (UNCHANGED effects \/ IssueEffect)
            \/ UNCHANGED mapped /\ effects' = {} /\ pc' \notin Driving \cup {"cancel"}
<1>1. \/ UNCHANGED outcomes
      \/ \E e \in EffectItem : /\ EffectCompletes(e) /\ FiniteOpen
                               /\ outcomes' = outcomes \cup {e}
  BY Writers DEF WritesHistory, EffectCompletes
<1>2. CASE ProcessEffect \/ DispatchPanics
  <2>1. current.type = "EffectOutcome" => current \in Owed
    BY <1>2 DEF ProcessEffect, DispatchPanics, Dispatching, Owed, Pending, InHand
  <2> QED
    BY <1>1, <1>2, <2>1 DEF ProcessEffect, DispatchPanics, Dispatching, Maps
<1>3. CASE RetainOutcomes
  BY <1>1, <1>3, RetainMaps
<1>4. CASE IssueEffect
  BY <1>1, <1>4 DEF IssueEffect, IssueFrame, outcomeHistory
<1>5. CASE CleanupAbort \/ Dropped
  BY <1>1, <1>5 DEF CleanupAbort, Dropped, OwnerAborted, ConversionUnwinds, DropCore, history,
     outcomeHistory, Goto, Driving, TurnPosition
<1> QED
  BY <1>1, <1>2, <1>3, <1>4, <1>5, Writers DEF WritesHistory, WritesWork

\* The events whose outcome is owed: those that were, and those just sent.
LEMMA OwedMoves ==
  ASSUME LiveInv, [Next]_vars, pc = "start" => current = NoEvent
  PROVE  /\ \A event \in Owed' : event \in Owed \/ Appends(event) \/ event = NoEvent
         /\ \A event : Appends(event) => event \in Owed'
         /\ pc' \in Driving \cup {"cancel"} =>
              \A event \in Owed : event.type = "EffectOutcome" =>
                event \in Owed' \/ Maps(event.item)
<1>0. queue \in Seq(Event)
  BY DEF LiveInv, TypeOK, ScopeTypeOK
<1>1. /\ pc' = "cancel" => \/ pc \in {"start", "cancel"} /\ UNCHANGED current
                          \/ current' = NoEvent
                          \/ Receive
      /\ pc = "cancel" => RetainOutcomes \/ UNCHANGED <<pc, current>>
  <2>1. CASE Host \/ Drivers \/ UNCHANGED vars
    BY <2>1, OthersLeaveOwner DEF vars, ownerVars
  <2>2. CASE Start \/ Loop \/ DispatchMarker \/ RetainOutcomes \/ Receive
    BY <2>2, RetainMaps DEF Start, Loop, DispatchMarker, RetainOutcomes, Receive, ObserveDrainCutoff,
       BeginDrain, Dispatching, Retain, Goto
  <2>3. CASE \/ Initialize \/ NextComponent \/ Committed \/ Reconcile \/ Apply \/ Change \/ Interpret
    BY <2>3 DEF Initialize, NextComponent, Committed, Reconcile, Apply, Change, Activate, Interpret,
       EndTurn, CheckScope, ObserveDrainCutoff, BeginDrain, Goto
  <2>4. CASE Declare \/ Dropped
    BY <2>4 DEF Declare, IssueEffect, IssueAfter, IssueSend, IssueRequest, IssueReply, IssueRefused,
       Issuing, Dropped, OwnerAborted, ConversionUnwinds, DropCore, Goto
  <2>5. CASE \/ FinishDrain \/ JoinTask \/ DiscardStale \/ Transition \/ IgnoreSourceEvent
             \/ MapSourceEvent \/ PushMapped \/ ProcessEffect \/ ProcessPortIngress \/ DispatchPanics
    BY <2>5 DEF FinishDrain, JoinTask, DiscardStale, Transition, IgnoreSourceEvent, MapSourceEvent,
       PushMapped, ProcessEffect, ProcessPortIngress, DispatchPanics, Dispatching, Sending, Goto
  <2>6. CASE JoinBeforeCancel \/ StopBeforeCancel \/ FaultScope \/ CleanupAbort \/ FinishCleanup
    BY <2>6 DEF JoinBeforeCancel, StopBeforeCancel, FaultScope, CleanupAbort, FinishCleanup, Goto
  <2> QED
    BY <2>1, <2>2, <2>3, <2>4, <2>5, <2>6 DEF Next, Owner, Issue, Declare, Dropped
<1>2. \A event \in QueuedEvents' : event \in QueuedEvents \/ Appends(event)
  BY <1>0, QueueMoves, AppendAdds, TailRemoves, EmptyQueued DEF QueuedEvents, Appends
<1>3. Receive => queue # <<>> /\ current' = Head(queue) /\ Head(queue) \in QueuedEvents
  BY <1>0, TailRemoves DEF Receive
<1>4. ASSUME NEW event \in Owed'
      PROVE  event \in Owed \/ Appends(event) \/ event = NoEvent
  <2>1. CASE event \in QueuedEvents'
    BY <1>2, <2>1 DEF Owed, Pending
  <2>2. CASE event = current' /\ pc' = "dispatch"
    BY <1>3, <2>2, QueueMoves DEF Owed, Pending, InHand
  <2>3. CASE event = current' /\ pc' = "cancel"
    BY <1>1, <1>3, <2>3 DEF Owed, Pending
  <2> QED
    BY <1>4, <2>1, <2>2, <2>3 DEF Owed, Pending, InHand
<1>5. \A event : Appends(event) => event \in Owed'
  BY <1>0, AppendAdds DEF Appends, Owed, Pending
<1>6. ASSUME pc' \in Driving \cup {"cancel"}, NEW event \in Owed, event.type = "EffectOutcome"
      PROVE  event \in Owed' \/ Maps(event.item)
  <2>1. CASE RetainOutcomes
    BY <1>6, <2>1, RetainMaps
  <2>2. CASE event = current /\ pc = "dispatch"
    <3>1. CASE UNCHANGED <<pc, current>>
      BY <2>2, <3>1 DEF Owed, Pending, InHand
    <3>2. CASE Dispatches
      <4>1. ProcessEffect \/ (DispatchPanics /\ TakeOutcome(current.item))
        BY <1>6, <2>2, <3>2 DEF Dispatches, DiscardStale, Transition, IgnoreSourceEvent, MapSourceEvent,
           ProcessPortIngress, DispatchMarker, DispatchPanics, Dispatching
      <4> QED
        BY <1>6, <2>2, <4>1 DEF ProcessEffect, Maps
    <3> QED
      BY <2>2, <3>1, <3>2, DispatchEnds
  <2>3. CASE event = current /\ pc = "cancel" /\ ~RetainOutcomes
    BY <1>1, <2>3 DEF Owed
  <2>4. CASE event \in QueuedEvents /\ ~RetainOutcomes
    <3>1. CASE Receive
      <4>1. QueuedEvents = {current'} \cup QueuedEvents' /\ pc' \in {"dispatch", "cancel"}
        BY <1>0, <3>1, TailRemoves DEF Receive, Goto
      <4> QED
        BY <2>4, <4>1 DEF Owed, Pending, InHand
    <3>2. CASE ~Receive
      <4>1. pc' \notin OwnerEnded
        BY <1>6 DEF Driving, TurnPosition, OwnerEnded
      <4>2. QueuedEvents \subseteq QueuedEvents'
        BY <1>0, <2>4, <3>2, <4>1, QueueMoves, AppendAdds DEF QueuedEvents, Appends
      <4> QED
        BY <2>4, <4>2 DEF Owed, Pending
    <3> QED
      BY <3>1, <3>2
  <2> QED
    BY <1>6, <2>1, <2>2, <2>3, <2>4 DEF Owed, Pending, InHand
<1> QED
  BY <1>4, <1>5, <1>6

\* Every step keeps OutcomeInv: an accepted outcome leaves the channel and the
\* owner's hands only through process_effect or finish_cancel, which map it.
THEOREM OutcomeStep ==
  ASSUME LiveInv, PhaseInv, FreshInv, OutcomeInv, [Next]_vars
  PROVE  OutcomeInv'
<1>0. /\ effects \subseteq EffectItem /\ outcomes \subseteq EffectItem
      /\ task \in [TaskId -> TaskState] /\ mapped \in [Declared -> Nat] /\ EffectItem \subseteq TaskId
      /\ \A e \in EffectItem : e[2] \in Declared
      /\ declared \in Nat /\ Declared \subseteq Nat
  BY WorkAssumption DEF LiveInv, TypeOK, WorkTypeOK, HistoryTypeOK, TaskTypeOK, TaskId, EffectItem,
     Declared
<1>1. pc = "start" => current = NoEvent
  BY DEF OutcomeInv
<1>2. \A e : Maps(e) => e \in outcomes /\ e \in EffectItem
  BY <1>0 DEF Maps, OutcomeInv
<1>3. \A e : Maps(e) => /\ effects' = effects \ {e}
                        /\ mapped' = IF Kind(e) = "effect" /\ e \in effects
                                     THEN [mapped EXCEPT ![e[2]] = @ + 1] ELSE mapped
  BY DEF Maps, TakeOutcome, EffectsAfter, HasMapper
<1>4. /\ outcomes \subseteq outcomes'
      /\ \A e \in outcomes' \ outcomes : EffectCompletes(e) /\ FiniteOpen /\ e \in EffectItem
  BY OutcomeMoves
<1>5. \A e, d \in EffectItem : task[e] # "none" /\ task[d] # "none" /\ e[2] = d[2] => e = d
  BY DEF FreshInv
<1>6. IssueEffect => /\ \E kind \in {"effect", "discard"} :
                          /\ effects' = effects \cup {NewItem(kind)}
                          /\ task' = [task EXCEPT ![NewItem(kind)] = "running"]
                          /\ NewItem(kind) \in EffectItem /\ task[NewItem(kind)] = "none"
                     /\ \A kind : NewItem(kind)[2] = declared + 1
  <2>1. \A kind : NewItem(kind)[2] = declared + 1
    BY DEF NewItem
  <2>2. IssueEffect => \E kind \in {"effect", "discard"} :
                          /\ effects' = effects \cup {NewItem(kind)}
                          /\ task' = [task EXCEPT ![NewItem(kind)] = "running"]
                          /\ pc = "issue"
    BY DEF IssueEffect, Issuing
  <2>3. pc = "issue" => \A kind \in {"effect", "discard"} :
                          NewItem(kind) \in EffectItem /\ task[NewItem(kind)] = "none"
    <3>1. pc = "issue" => \A kind \in {"effect", "discard"} :
                            NewItem(kind) \in TaskId /\ task[NewItem(kind)] = "none"
      BY NewTaskFree
    <3>2. \A kind \in {"effect", "discard"} : NewItem(kind) \in TaskId => NewItem(kind) \in EffectItem
      BY DEF NewItem, TaskId, SourceTask, TimerItem
    <3> QED
      BY <3>1, <3>2
  <2> QED
    BY <2>1, <2>2, <2>3
<1>7. ASSUME NEW e \in outcomes'
      PROVE  task'[e] \notin {"none", "running"}
  <2>1. CASE e \in outcomes
    BY <1>0, <2>1, TaskMoves DEF OutcomeInv
  <2>2. CASE e \notin outcomes
    <3>1. task' = [task EXCEPT ![e] = "returning"] /\ e \in TaskId
      BY <1>0, <1>4, <1>7, <2>2 DEF EffectCompletes
    <3> QED
      BY <1>0, <3>1
  <2> QED
    BY <2>1, <2>2
<1>8. ASSUME NEW e \in effects'
      PROVE  task'[e] # "none" /\ mapped'[e[2]] = 0
  <2>1. CASE e \in effects
    <3>1. task'[e] # "none" /\ task[e] # "none" /\ mapped[e[2]] = 0
      BY <1>0, <2>1, TaskMoves DEF OutcomeInv
    <3>2. ASSUME NEW d, Maps(d)
          PROVE  mapped'[e[2]] = 0
      <4>1. d \in EffectItem /\ e # d
        BY <1>2, <1>3, <1>8, <3>2
      <4>2. d \in effects => task[d] # "none"
        BY DEF OutcomeInv
      <4>3. d \in effects => d[2] # e[2]
        BY <1>0, <1>5, <2>1, <3>1, <4>1, <4>2
      <4> QED
        BY <1>0, <1>3, <3>1, <3>2, <4>1, <4>3
    <3> QED
      BY <3>1, <3>2, OutcomeMoves
  <2>2. CASE e \notin effects
    <3>1. IssueEffect /\ UNCHANGED mapped
      BY <1>3, <1>8, <2>2, OutcomeMoves
    <3>2. task'[e] = "running" /\ e \in EffectItem /\ e[2] = declared + 1
      BY <1>0, <1>6, <1>8, <2>2, <3>1
    <3>3. mapped[e[2]] # 1
      <4>1. SUFFICES ASSUME NEW d \in outcomes, d[2] = declared + 1
                     PROVE  FALSE
        BY <1>0, <3>2 DEF OutcomeInv
      <4>2. task[d] = "none"
        BY <1>0, <4>1 DEF FreshInv
      <4> QED
        BY <4>1, <4>2 DEF OutcomeInv
    <3> QED
      BY <1>0, <3>1, <3>2, <3>3 DEF OutcomeInv
  <2> QED
    BY <2>1, <2>2
<1>9. ASSUME NEW event \in Owed', event.type = "EffectOutcome"
      PROVE  event.item \in outcomes'
  <2>1. CASE event \in Owed
    BY <1>4, <1>9, <2>1 DEF OutcomeInv
  <2>2. CASE Appends(event)
    <3>1. Sends(event)
      BY <1>9, <2>2 DEF Appends, Plain
    <3>2. PICK e \in EffectItem : EffectCompletes(e) /\ FiniteOpen /\ event = EventOf("EffectOutcome", e, e[3])
      BY <1>9, <3>1 DEF Sends, Message, EventOf
    <3> QED
      BY <3>2 DEF EffectCompletes, EventOf
  <2>3. CASE event = NoEvent
    BY <1>9, <2>3 DEF NoEvent
  <2> QED
    BY <1>1, <2>1, <2>2, <2>3, OwedMoves
<1>10. ASSUME NEW k \in Declared
       PROVE  /\ mapped'[k] \in {0, 1}
              /\ mapped'[k] = 1 => \E e \in outcomes' : Kind(e) = "effect" /\ e[2] = k
              /\ mapped[k] = 1 => mapped'[k] = 1
  <2>1. CASE mapped'[k] = mapped[k]
    BY <1>4, <2>1 DEF OutcomeInv
  <2>2. CASE mapped'[k] # mapped[k]
    <3>1. PICK e : Maps(e)
      BY <2>2, OutcomeMoves
    <3>2. e \in outcomes /\ e \in effects /\ Kind(e) = "effect" /\ e[2] = k
      BY <1>0, <1>2, <1>3, <2>2, <3>1
    <3>3. mapped[k] = 0
      BY <3>2 DEF OutcomeInv
    <3>4. mapped'[k] = 1
      BY <1>0, <1>3, <3>1, <3>2, <3>3
    <3> QED
      BY <1>4, <3>2, <3>3, <3>4
  <2> QED
    BY <2>1, <2>2
<1>11. ASSUME pc' \in Driving \cup {"cancel"}, NEW e \in EffectItem, task'[e] = "running"
       PROVE  e \in effects'
  <2>0. pc \in Driving \cup {"cancel"}
    BY <1>11, PositionMoves
  <2>1. CASE task[e] = "running"
    <3>1. e \in effects /\ e \notin outcomes
      BY <2>0, <2>1 DEF OutcomeInv
    <3> QED
      BY <1>2, <1>3, <1>6, <1>11, <3>1, OutcomeMoves
  <2>2. CASE task[e] # "running"
    <3>1. PICK kind \in {"effect", "discard", "after"} : Declares /\ e = NewItem(kind)
      <4>1. task[e] = "none"
        BY <1>0, <1>11, <2>2, TaskMoves
      <4>2. \A g : e # SourceTask(g)
        BY DEF EffectItem, SourceTask
      <4> QED
        BY <1>0, <1>11, <4>1, <4>2, TaskMoves
    <3>2. IssueEffect
      <4>1. ~(Drivers \/ Change \/ JoinTask \/ JoinBeforeCancel \/ FinishCleanup)
        <5>1. Drivers => UNCHANGED pc
          BY OthersLeaveOwner DEF ownerVars
        <5>2. Drivers => task'[e] # "running"
          BY <1>0, <2>2, OthersEndTasks
        <5>3. pc = "issue"
          BY <3>1 DEF Declares
        <5> QED
          BY <1>11, <5>2, <5>3 DEF Change, JoinTask, JoinBeforeCancel, FinishCleanup
      <4>2. ~IssueAfter
        <5>1. ASSUME IssueAfter
              PROVE  task' = [task EXCEPT ![NewItem("after")] = "running"]
          BY <5>1 DEF IssueAfter
        <5>2. e # NewItem("after")
          BY DEF EffectItem, NewItem
        <5> QED
          BY <1>0, <1>11, <2>2, <5>1, <5>2
      <4>3. ~UNCHANGED task
        BY <1>11, <2>2
      <4> QED
        BY <4>1, <4>2, <4>3, Writers DEF WritesTask
    <3> QED
      BY <1>0, <1>6, <1>11, <2>2, <3>2
  <2> QED
    BY <2>1, <2>2
<1>12. ASSUME pc' \in Driving \cup {"cancel"}, NEW e \in outcomes'
       PROVE  IF e \in effects'
              THEN \E event \in Owed' : event.type = "EffectOutcome" /\ event.item = e
              ELSE Kind(e) = "effect" => mapped'[e[2]] = 1
  <2>0. pc \in Driving \cup {"cancel"}
    BY <1>12, PositionMoves
  <2>1. CASE e \notin outcomes
    <3>1. EffectCompletes(e) /\ FiniteOpen /\ e \in EffectItem /\ e \in effects
      BY <1>4, <1>12, <2>0, <2>1 DEF EffectCompletes, OutcomeInv
    <3>2. e \in effects' /\ Appends(EventOf("EffectOutcome", e, e[3]))
      BY <3>1 DEF EffectCompletes, workVars, AcceptFinite, Appends, Sends
    <3>3. EventOf("EffectOutcome", e, e[3]) \in Owed'
      BY <1>1, <3>2, OwedMoves
    <3> QED
      BY <3>2, <3>3 DEF EventOf
  <2>2. CASE e \in outcomes /\ e \in effects
    <3>1. PICK event \in Owed : event.type = "EffectOutcome" /\ event.item = e
      BY <2>0, <2>2 DEF OutcomeInv
    <3>2. CASE Maps(e)
      BY <1>0, <1>3, <2>2, <3>2 DEF OutcomeInv
    <3>3. CASE ~Maps(e)
      <4>1. event \in Owed'
        BY <1>1, <1>12, <3>1, <3>3, OwedMoves
      <4>2. e \in effects'
        BY <1>3, <1>6, <1>12, <2>2, <3>3, OutcomeMoves
      <4> QED
        BY <3>1, <4>1, <4>2
    <3> QED
      BY <3>2, <3>3
  <2>3. CASE e \in outcomes /\ e \notin effects
    <3>1. e \notin effects'
      <4>1. task[e] # "none"
        BY <2>3 DEF OutcomeInv
      <4> QED
        BY <1>3, <1>6, <1>12, <2>3, <4>1, OutcomeMoves
    <3>2. Kind(e) = "effect" => mapped[e[2]] = 1
      BY <2>0, <2>3 DEF OutcomeInv
    <3> QED
      BY <1>0, <1>10, <2>3, <3>1, <3>2
  <2> QED
    BY <2>1, <2>2, <2>3
<1>13. ASSUME \/ pc' \in {"cancel_join", "cancel_stop", "clean"}
              \/ pc' \in {"cleanup", "joining"} /\ phase' # "Faulted",
              NEW e \in outcomes', Kind(e) = "effect"
       PROVE  mapped'[e[2]] = 1
  <2>1. ASSUME e \in outcomes, mapped[e[2]] = 1
        PROVE  mapped'[e[2]] = 1
    BY <1>0, <1>10, <2>1
  <2>2. CASE \/ pc \in {"cancel_join", "cancel_stop", "clean"}
             \/ pc \in {"cleanup", "joining"} /\ phase # "Faulted"
    <3>1. ~FiniteOpen
      BY <2>2 DEF PhaseInv, Cancelling, FiniteOpen
    <3>2. e \in outcomes
      BY <1>4, <1>13, <3>1
    <3>3. mapped[e[2]] = 1
      BY <1>13, <2>2, <3>2 DEF OutcomeInv
    <3> QED
      BY <2>1, <3>2, <3>3
  <2>3. CASE RetainOutcomes /\ pc' = "cancel_join"
    <3>1. current = NoEvent /\ queue = <<>> /\ pc = "cancel" /\ outcomes' = outcomes
      BY <2>3, RetainMaps DEF RetainOutcomes, OutcomeFrame
    <3>2. \A event \in Owed : event.type # "EffectOutcome"
      BY <3>1 DEF Owed, Pending, InHand, QueuedEvents, NoEvent
    <3>3. mapped[e[2]] = 1
      BY <1>13, <3>1, <3>2 DEF OutcomeInv
    <3> QED
      BY <1>13, <2>1, <3>1, <3>3
  <2>4. CASE FinishDrain
    <3>1. effects = {} /\ pc = "select" /\ outcomes' = outcomes
      BY <2>4 DEF FinishDrain, DrainFinished, history, outcomeHistory
    <3>2. mapped[e[2]] = 1
      BY <1>13, <3>1 DEF OutcomeInv, Driving
    <3> QED
      BY <1>13, <2>1, <3>1, <3>2
  <2>5. pc' = "clean" => phase' # "Faulted"
    BY PhaseStep DEF PhaseInv
  <2>6. FinishCleanup /\ pc' = "clean" => pc = "joining"
    BY DEF FinishCleanup
  <2>7. pc' = "cancel_join" => pc = "cancel_join" \/ RetainOutcomes
    BY PositionMoves
  <2>8. JoinBeforeCancel => pc = "cancel_join"
    BY DEF JoinBeforeCancel
  <2>9. phase' # "Faulted"
    BY <1>13, <2>5, PhaseStep DEF PhaseInv, Cancelling
  <2> QED
    BY <1>13, <2>2, <2>3, <2>4, <2>5, <2>6, <2>7, <2>8, <2>9, PositionMoves, FaultBefore
<1>14. pc' = "start" => current' = NoEvent
  BY <1>1, PositionMoves
<1> QED
  BY <1>7, <1>8, <1>9, <1>10, <1>11, <1>12, <1>13, <1>14 DEF OutcomeInv

-----------------------------------------------------------------------------
(***************************************************************************)
(* TokenInv: a ReplyTo token is in one place.                              *)
(***************************************************************************)
\* The tokens of Components and declarations, as the owner drives them.
LEMMA TokensMove ==
  ASSUME LiveInv, TokenInv, [Next]_vars, pc' \in Driving
  PROVE  /\ TokensOnce'
         /\ \/ HeldOrReplying' \subseteq HeldOrReplying
            \/ Transition /\ HeldOrReplying' \subseteq HeldOrReplying \cup {current.item} /\ current.item \in Correlation
         /\ IssueReply => /\ Head(commands).token \in Replying
                          /\ Head(commands).token \notin HeldOrReplying'
<1>0. TokensOnce /\ held \subseteq Correlation /\ pc \in Driving
  BY PositionMoves DEF TokenInv, LiveInv, TypeOK, WorkTypeOK
<1>1. CASE UNCHANGED <<held, commands>>
  <2>1. ASSUME IssueReply
        PROVE  FALSE
    <3>1. commands' = Tail(commands) /\ pc = "issue" /\ commands \in Seq(Declaration) /\ commands # <<>>
      BY <2>1 DEF IssueReply, Issuing, IssueFrame, LiveInv, TypeOK, TurnTypeOK, PositionInv
    <3>2. Len(Tail(commands)) = Len(commands) - 1 /\ Len(commands) \in Nat
      BY <3>1, IssueType DEF LiveInv
    <3> QED
      BY <1>1, <3>1, <3>2
  <2> QED
    BY <1>0, <1>1, <2>1 DEF Replying, HeldOrReplying, TokensOnce
<1>2. CASE Declare
  <2>1. pc = "issue" /\ commands' = Tail(commands) /\ held' = held
    BY <1>2 DEF Declare, IssueEffect, IssueAfter, IssueSend, IssueRequest, IssueReply, IssueRefused,
       Issuing, IssueFrame
  <2>2. IssueReply => Head(commands).token # NoItem
    BY ReplyType DEF IssueReply, Correlation, NoItem, LiveInv
  <2>3. commands \in Seq(Declaration) /\ commands # <<>>
    BY <2>1 DEF LiveInv, TypeOK, TurnTypeOK, PositionInv
  <2> QED
    BY <1>0, <2>1, <2>2, <2>3, IssueTokens DEF HeldOrReplying
<1>3. CASE NextComponent
  <2>1. Project(cursor, held) \/ UNCHANGED <<held, commands>>
    BY <1>3 DEF NextComponent, turnVars
  <2>2. ~IssueReply
    BY <1>3 DEF NextComponent, IssueReply, Issuing
  <2> QED
    BY <1>0, <1>1, <2>1, <2>2, ProjectTokens DEF HeldOrReplying
<1>4. CASE Transition
  <2>1. Project(current.target, HeldWith(current.item))
    BY <1>4 DEF Transition, Goto, Driving, TurnPosition
  <2>2. HeldWith(current.item) \in SUBSET Correlation
    BY <1>0 DEF HeldWith
  <2>3. ~IssueReply
    BY <1>4 DEF Transition, Dispatching, IssueReply, Issuing
  <2> QED
    BY <1>0, <1>4, <2>1, <2>2, <2>3, ProjectTokens DEF HeldWith, HeldOrReplying
<1>5. CASE Loop
  <2>1. commands' = <<>> /\ held' = held /\ ~IssueReply
    BY <1>5 DEF Loop, workVars, IssueReply, Issuing
  <2>2. DOMAIN commands' = {} /\ Replying' = {}
    BY <2>1 DEF Replying, Tokens
  <2> QED
    BY <2>1, <2>2 DEF HeldOrReplying, TokensOnce
<1>6. ~(FinishCleanup \/ Dropped)
  BY DEF FinishCleanup, Dropped, OwnerAborted, ConversionUnwinds, DropCore, Goto, Driving, TurnPosition
<1> QED
  BY <1>1, <1>2, <1>3, <1>4, <1>5, <1>6, Writers DEF WritesWork, Declare


\* The Requests outstanding, as the owner drives the application, and which
\* tokens count as issued.
LEMMA RequestsMove ==
  ASSUME [Next]_vars, pc' \in Driving
  PROVE  /\ \/ requests' = requests /\ ~IssueReply
            \/ IssueReply /\ requests' = requests \ {Head(commands).token}
            \/ IssueRequest /\ requests' = requests \cup {NewItem("request")}
            \/ /\ ProcessPortIngress /\ FiniteOpen
               /\ requests' = requests \cup ({current.item} \cap Correlation)
         /\ declared' = declared \/ declared' = declared + 1
<1>1. declared' = declared \/ declared' = declared + 1
  BY Writers DEF WritesWork, Declare, IssueEffect, IssueAfter, IssueSend, IssueRequest, IssueReply,
     IssueRefused, IssueFrame
<1>2. ~(CleanupAbort \/ Dropped \/ DispatchPanics)
  BY DEF CleanupAbort, Dropped, OwnerAborted, ConversionUnwinds, DropCore, DispatchPanics, Goto,
     Driving, TurnPosition
<1>3. CASE IssueReply
  BY <1>1, <1>3 DEF IssueReply, RequestsAfterReply
<1>4. CASE IssueRequest
  BY <1>1, <1>4 DEF IssueRequest, Outstanding
<1>5. CASE ProcessPortIngress
  <2>1. ~IssueReply
    BY <1>5 DEF ProcessPortIngress, Dispatching, IssueReply, Issuing
  <2> QED
    BY <1>1, <1>5, <2>1 DEF ProcessPortIngress, Outstanding
<1> QED
  BY <1>1, <1>2, <1>3, <1>4, <1>5, Writers DEF WritesWork

\* A token handed out stays handed out.
LEMMA IssuedStays ==
  ASSUME LiveInv, [Next]_vars, pc' \in Driving, NEW token \in Correlation, Issued(token)
  PROVE  Issued(token)'
<1>1. \A h \in Asks : asks[h] # "idle" => asks'[h] # "idle"
  <2>0. asks \in [Asks -> {"idle", "waiting", "replied", "dropped"}]
    BY DEF LiveInv, TypeOK, HostTypeOK
  <2>1. ASSUME NEW S, WakeWaiters(S)
        PROVE  \A h \in Asks : asks[h] # "idle" => asks'[h] # "idle"
    BY <2>1 DEF WakeWaiters
  <2>2. CASE Host \/ UNCHANGED vars
    BY <2>0, <2>2 DEF Host, HostSendsEvent, HostAsks, HostShutsDown, HostDropsTask, vars, hostVars
  <2>3. CASE Drivers
    BY <2>3 DEF Drivers, SourceEmits, SourceReturns, EffectCompletes, TimerElapses, TaskReturns,
       DriverFails, TaskCancelled, hostVars
  <2>4. CASE Declare
    BY <2>0, <2>4 DEF Declare, IssueEffect, IssueAfter, IssueSend, IssueRequest, IssueReply, IssueRefused
  <2>5. CASE \/ Start \/ Initialize \/ NextComponent \/ Committed \/ Reconcile \/ Apply \/ Change
             \/ Interpret \/ Loop
    BY <2>5 DEF Start, Initialize, NextComponent, Committed, Reconcile, Apply, Change, Interpret,
       Loop, TurnFrame, hostVars
  <2>6. CASE \/ FinishDrain \/ JoinTask \/ Receive \/ DiscardStale \/ Transition \/ IgnoreSourceEvent
             \/ MapSourceEvent \/ PushMapped
    BY <2>6 DEF FinishDrain, JoinTask, Receive, DiscardStale, Transition, IgnoreSourceEvent,
       MapSourceEvent, PushMapped, hostVars
  <2>7. CASE \/ ProcessEffect \/ DispatchMarker \/ DispatchPanics \/ JoinBeforeCancel
             \/ StopBeforeCancel \/ FaultScope
    BY <2>7 DEF ProcessEffect, DispatchMarker, DispatchPanics, JoinBeforeCancel, StopBeforeCancel,
       FaultScope, hostVars
  <2>8. CASE ProcessPortIngress
    BY <2>1, <2>8 DEF ProcessPortIngress
  <2>9. ~(RetainOutcomes \/ CleanupAbort \/ FinishCleanup \/ Dropped)
    BY DEF RetainOutcomes, Retain, CleanupAbort, FinishCleanup, Dropped, OwnerAborted,
       ConversionUnwinds, DropCore, Goto, Driving, TurnPosition
  <2> QED
    BY <2>2, <2>3, <2>4, <2>5, <2>6, <2>7, <2>8, <2>9 DEF Next, Owner, Issue, Declare, Dropped
<1>2. /\ declared \in Nat /\ declared \in Int
      /\ Kind(token) = "ask" => token[2] \in Asks
      /\ Kind(token) # "ask" => token[2] \in Int
  BY WorkAssumption DEF LiveInv, TypeOK, WorkTypeOK, Correlation, Kind, Declared
<1>3. declared <= declared'
  BY <1>2, RequestsMove
<1>4. declared' \in Int
  BY <1>2, RequestsMove
<1> QED
  BY <1>1, <1>2, <1>3, <1>4 DEF Issued

\* An event sent that carries a token carries a new one, or the one of the
\* event in hand.
LEMMA SentToken ==
  ASSUME LiveInv, TokenInv, [Next]_vars, pc' \in Driving,
         NEW event, Appends(event), event.item \in Correlation
  PROVE  /\ \A other \in QueuedEvents \cup InHand' : other.item # event.item
         /\ event.item \notin HeldOrReplying'
         /\ Issued(event.item)' /\ (event.type = "Message" => event.item \in requests')
<1>0. pc \in Driving /\ queue \in Seq(Event) /\ declared \in Nat /\ requests \subseteq Correlation
  BY PositionMoves DEF LiveInv, TypeOK, ScopeTypeOK, WorkTypeOK
<1>1. \A token \in HeldOrReplying : Issued(token)
  BY <1>0 DEF TokenInv, HeldOrReplying
<1>2. \A other \in QueuedEvents \cup InHand : other.item \in Correlation => Issued(other.item)
  BY <1>0 DEF TokenInv, Pending
<1>3. HeldOrReplying' \subseteq HeldOrReplying
  <2>1. ~Transition
    BY <1>0 DEF Transition, scopeVars, Appends
  <2> QED
    BY <2>1, TokensMove
<1>4. InHand' \subseteq InHand
  <2>1. ~Receive
    BY <1>0 DEF Receive, Appends
  <2> QED
    BY <2>1, QueueMoves DEF InHand
<1>5. ASSUME ~Issued(event.item)
      PROVE  /\ \A other \in QueuedEvents \cup InHand' : other.item # event.item
             /\ event.item \notin HeldOrReplying'
  BY <1>1, <1>2, <1>3, <1>4, <1>5
<1>6. \A e \in EffectItem : e \notin Correlation
  BY DEF EffectItem, Correlation
<1>7. \A n, g : <<"frame", g, n>> \notin Correlation
  BY DEF Correlation
<1>8. CASE \E h \in Asks : HostAsks(h) /\ event = EventOf("PortRequest", AskItem(h), Provider)
  <2>1. PICK h \in Asks : HostAsks(h) /\ event = EventOf("PortRequest", AskItem(h), Provider)
    BY <1>8
  <2>2. event.item = AskItem(h) /\ event.type = "PortRequest"
    BY <2>1 DEF EventOf
  <2>3. Kind(event.item) = "ask" /\ event.item[2] = h
    BY <2>2 DEF AskItem, Kind
  <2>4. asks[h] = "idle" /\ asks'[h] = "waiting"
    BY <2>1 DEF HostAsks, LiveInv, TypeOK, HostTypeOK
  <2>5. ~Issued(event.item) /\ Issued(event.item)'
    BY <2>3, <2>4 DEF Issued
  <2> QED
    BY <1>5, <2>2, <2>5
<1>9. CASE IssueRequest /\ event = Message(NewItem("request"), Provider, FALSE)
  <2>1. event.item = NewItem("request")
    BY <1>9 DEF Message
  <2>2. Kind(event.item) = "request" /\ event.item[2] = declared + 1
    BY <2>1 DEF NewItem, Kind
  <2>3. declared' = declared + 1 /\ event.item \in requests'
    BY <1>9, <2>1 DEF IssueRequest, IssueFrame, Outstanding
  <2>4. ~Issued(event.item) /\ Issued(event.item)'
    BY <1>0, <2>2, <2>3 DEF Issued
  <2> QED
    BY <1>5, <2>3, <2>4
<1>10. CASE ProcessPortIngress /\ FiniteOpen /\ event = Message(current.item, Provider, FALSE)
  <2>1. event.item = current.item /\ pc = "dispatch" /\ pc' = "loop" /\ current \in InHand
    BY <1>10 DEF Message, ProcessPortIngress, Dispatching, Goto, InHand
  <2>2. \A other \in QueuedEvents : other.item # event.item
    BY <1>0, <2>1 DEF TokenInv, QueuedEvents
  <2>3. InHand' = {}
    BY <2>1 DEF InHand
  <2>4. event.item \notin HeldOrReplying /\ Issued(event.item)
    BY <1>0, <1>2, <2>1 DEF TokenInv, HeldOrReplying, Pending
  <2>5. event.item \in requests'
    BY <1>10, <2>1 DEF ProcessPortIngress, Outstanding
  <2>6. Issued(event.item)'
    BY <2>4, IssuedStays
  <2> QED
    BY <1>3, <2>2, <2>3, <2>4, <2>5, <2>6
<1>11. CASE \E e \in EffectItem : event = EventOf("EffectOutcome", e, e[3])
  BY <1>6, <1>11 DEF EventOf
<1>12. CASE event = Message(NextFrame, current.target, Head(outer))
  BY <1>7, <1>12 DEF Message, NextFrame
<1> QED
  BY <1>8, <1>9, <1>10, <1>11, <1>12 DEF Appends, Plain, Sends


\* TokenInv is kept by every step: a Request's token passes from the event
\* that carries it to a Component, to the reply it declares, and no further.
THEOREM TokenStep ==
  ASSUME LiveInv, TokenInv, [Next]_vars
  PROVE  TokenInv'
<1> SUFFICES ASSUME pc' \in Driving
             PROVE  TokenInv'
  BY DEF TokenInv
<1>0. pc \in Driving /\ queue \in Seq(Event) /\ requests \subseteq Correlation
  BY PositionMoves DEF LiveInv, TypeOK, ScopeTypeOK, WorkTypeOK
<1>1. \A event \in QueuedEvents \cup InHand :
        /\ event.item \notin HeldOrReplying
        /\ event.item \in Correlation =>
             Issued(event.item) /\ (event.type = "Message" => event.item \in requests)
  BY <1>0 DEF TokenInv, Pending, HeldOrReplying
<1>2. HeldOrReplying \subseteq requests
  BY <1>0 DEF TokenInv, HeldOrReplying
\* The events that were under way already.
<1>3. ASSUME NEW event \in Pending', event \in QueuedEvents \cup InHand
      PROVE  event.item \notin HeldOrReplying'
  <2>1. CASE HeldOrReplying' \subseteq HeldOrReplying
    BY <1>1, <1>3, <2>1
  <2>2. CASE /\ Transition /\ HeldOrReplying' \subseteq HeldOrReplying \cup {current.item}
             /\ current.item \in Correlation
    <3>1. pc = "dispatch" /\ pc' # "dispatch" /\ queue' = queue /\ current \in InHand
      BY <2>2 DEF Transition, Dispatching, Goto, scopeVars, InHand
    <3>2. event \in QueuedEvents
      BY <3>1 DEF Pending, InHand, QueuedEvents
    <3>3. event.item # current.item
      BY <1>0, <2>2, <3>1, <3>2 DEF TokenInv, QueuedEvents
    <3> QED
      BY <1>1, <1>3, <2>2, <3>3
  <2> QED
    BY <2>1, <2>2, TokensMove
<1>4. ASSUME NEW event \in Pending', event \in QueuedEvents \cup InHand, event.item \in Correlation
      PROVE  Issued(event.item)' /\ (event.type = "Message" => event.item \in requests')
  <2>1. Issued(event.item)'
    BY <1>1, <1>4, IssuedStays
  <2>2. ASSUME event.type = "Message"
        PROVE  event.item \in requests'
    <3>1. event.item \in requests /\ event.item \notin HeldOrReplying
      BY <1>1, <1>4, <2>2
    <3> QED
      BY <3>1, RequestsMove, TokensMove DEF HeldOrReplying
  <2> QED
    BY <2>1, <2>2
<1>5. ASSUME NEW event \in Pending'
      PROVE  event \in QueuedEvents \cup InHand \/ Appends(event)
  BY <1>5, PendingMoves DEF InHand
<1>6. \A event \in Pending' : event.item \notin HeldOrReplying'
  <2>1. ASSUME NEW event \in Pending', Appends(event), event.item \notin Correlation
        PROVE  event.item \notin HeldOrReplying'
    BY <1>0, <1>2, <2>1, TokensMove
  <2> QED
    BY <1>3, <1>5, <2>1, SentToken
<1>7. \A event \in Pending' : event.item \in Correlation =>
        Issued(event.item)' /\ (event.type = "Message" => event.item \in requests')
  BY <1>4, <1>5, SentToken
<1>8. \A token \in requests' : Issued(token)'
  <2>1. \A token \in requests : Issued(token)'
    BY <1>0, IssuedStays DEF TokenInv
  <2>2. ASSUME IssueRequest, NEW token, token = NewItem("request")
        PROVE  Issued(token)'
    <3>1. /\ declared' = declared + 1 /\ Kind(token) = "request" /\ token[2] = declared + 1
          /\ declared + 1 \in Nat
      BY <2>2 DEF IssueRequest, IssueFrame, NewItem, Kind, LiveInv, TypeOK, WorkTypeOK
    <3> QED
      BY <3>1 DEF Issued
  <2>3. ASSUME ProcessPortIngress, NEW token \in Correlation, token = current.item
        PROVE  Issued(token)'
    <3>1. pc = "dispatch" /\ current \in InHand
      BY <2>3 DEF ProcessPortIngress, Dispatching, InHand
    <3>2. Issued(token)
      BY <1>1, <2>3, <3>1
    <3> QED
      BY <2>3, <3>2, IssuedStays
  <2>4. ASSUME NEW token \in requests'
        PROVE  token \in requests \/ (IssueRequest /\ token = NewItem("request"))
               \/ (ProcessPortIngress /\ token = current.item /\ token \in Correlation)
    BY <2>4, RequestsMove
  <2> QED
    BY <2>1, <2>2, <2>3, <2>4
<1>9. HeldOrReplying' \subseteq requests'
  <2>1. CASE HeldOrReplying' \subseteq HeldOrReplying
    BY <1>2, <2>1, RequestsMove, TokensMove
  <2>2. CASE /\ Transition /\ HeldOrReplying' \subseteq HeldOrReplying \cup {current.item}
             /\ current.item \in Correlation
    <3>1. current \in InHand /\ requests' = requests /\ current \in Event
          /\ current.type \in {"Message", "TimerFired"}
      BY <2>2 DEF Transition, Dispatching, InHand, LiveInv, PositionInv
    <3>2. current.type # "TimerFired"
      BY <2>2, <3>1 DEF Event, TimerItem, Correlation
    <3>3. current.item \in requests
      BY <1>1, <2>2, <3>1, <3>2
    <3> QED
      BY <1>2, <2>2, <3>1, <3>3
  <2> QED
    BY <2>1, <2>2, TokensMove
<1>10. \A i \in DOMAIN queue' : queue'[i].item \in Correlation =>
         /\ \A event \in InHand' : event.item # queue'[i].item
         /\ \A j \in DOMAIN queue' : queue'[j].item = queue'[i].item => i = j
  <2>1. \A i, j \in DOMAIN queue : queue[i].item \in Correlation =>
          /\ \A event \in InHand : event.item # queue[i].item
          /\ queue[j].item = queue[i].item => i = j
    BY <1>0 DEF TokenInv
  <2>2. ~RetainOutcomes /\ pc' \notin OwnerEnded
    BY DEF RetainOutcomes, Retain, Goto, Driving, TurnPosition, OwnerEnded
  <2>3. CASE queue' = queue
    <3>1. ~Receive
      <4>1. queue # <<>> => Len(Tail(queue)) = Len(queue) - 1 /\ Len(queue) \in Nat
        BY <1>0
      <4> QED
        BY <2>3, <4>1 DEF Receive
    <3>2. InHand' \subseteq InHand
      BY <3>1, QueueMoves DEF InHand
    <3> QED
      BY <2>1, <2>3, <3>2
  <2>4. CASE Receive
    <3>1. queue # <<>> /\ queue' = Tail(queue) /\ current' = Head(queue) /\ InHand' \subseteq {Head(queue)}
      BY <2>4 DEF Receive, InHand
    <3>2. /\ Head(queue) = queue[1] /\ 1 \in DOMAIN queue /\ DOMAIN queue \subseteq Nat
          /\ \A i \in DOMAIN queue' : /\ i + 1 \in DOMAIN queue /\ queue'[i] = queue[i + 1]
      BY <1>0, <3>1, TailDomain
    <3>3. \A i \in DOMAIN queue' : i \in Nat /\ i # 0
      BY <1>0, <3>1
    <3>4. ASSUME NEW i \in DOMAIN queue', queue'[i].item \in Correlation
          PROVE  /\ \A event \in InHand' : event.item # queue'[i].item
                 /\ \A j \in DOMAIN queue' : queue'[j].item = queue'[i].item => i = j
      <4>1. queue[i + 1].item \in Correlation /\ i + 1 # 1 /\ i + 1 \in DOMAIN queue
        BY <3>2, <3>3, <3>4
      <4>2. queue[1].item # queue[i + 1].item
        BY <2>1, <3>2, <4>1
      <4>3. ASSUME NEW j \in DOMAIN queue', queue'[j].item = queue'[i].item
            PROVE  i = j
        <5>1. i + 1 = j + 1
          BY <2>1, <3>2, <4>1, <4>3
        <5> QED
          BY <3>3, <5>1
      <4> QED
        BY <3>1, <3>2, <3>4, <4>2, <4>3
    <3> QED
      BY <3>4
  <2>5. ASSUME NEW event, Appends(event)
        PROVE  \A i \in DOMAIN queue' : queue'[i].item \in Correlation =>
                 /\ \A other \in InHand' : other.item # queue'[i].item
                 /\ \A j \in DOMAIN queue' : queue'[j].item = queue'[i].item => i = j
    <3>1. /\ DOMAIN queue' = DOMAIN queue \cup {Len(queue) + 1}
          /\ queue'[Len(queue) + 1] = event /\ \A i \in DOMAIN queue : queue'[i] = queue[i]
      <4>1. queue' = Append(queue, event)
        BY <2>5 DEF Appends
      <4>2. DOMAIN queue = 1 .. Len(queue) /\ DOMAIN queue' = 1 .. Len(queue) + 1
        BY <1>0, <4>1
      <4>3. queue'[Len(queue) + 1] = event /\ \A i \in 1 .. Len(queue) : queue'[i] = queue[i]
        BY <1>0, <4>1
      <4>4. 1 .. Len(queue) + 1 = (1 .. Len(queue)) \cup {Len(queue) + 1}
        BY <1>0
      <4> QED
        BY <4>2, <4>3, <4>4
    <3>2. ~Receive
      BY <1>0, <2>5 DEF Receive, Appends
    <3>3. InHand' \subseteq InHand
      BY <3>2, QueueMoves DEF InHand
    <3>4. event.item \in Correlation =>
            \A other \in QueuedEvents \cup InHand' : other.item # event.item
      BY <2>5, SentToken
    <3>5. \A i \in DOMAIN queue : queue[i] \in QueuedEvents
      BY DEF QueuedEvents
    <3> QED
      BY <2>1, <3>1, <3>3, <3>4, <3>5
  <2> QED
    BY <2>2, <2>3, <2>4, <2>5, QueueMoves
<1>11. TokensOnce'
  BY TokensMove
<1> QED
  BY <1>6, <1>7, <1>8, <1>9, <1>10, <1>11 DEF TokenInv, HeldOrReplying


-----------------------------------------------------------------------------
(***************************************************************************)
(* PromiseInv is inductive, and the promises that follow from it.          *)
(***************************************************************************)

\* LiveRuntime::spawn's state satisfies the invariant.
THEOREM PromiseInit == Init => PromiseInv
<1> SUFFICES ASSUME Init
             PROVE  PromiseInv
  OBVIOUS
<1>1. /\ pc = "start" /\ phase = "Running" /\ queue = <<>> /\ draining = FALSE /\ sources = {}
      /\ next_generation = 0 /\ drain_retained = {} /\ terminal_observed = {} /\ running = {}
      /\ effects = {} /\ timers = {} /\ requests = {} /\ held = {} /\ declared = 0
      /\ current = NoEvent /\ commands = <<>> /\ open = {} /\ outcomes = {}
      /\ failed_in_time = {} /\ finished = {} /\ active = [k \in Keys |-> NoDescriptor]
      /\ task = [t \in TaskId |-> "none"] /\ mapped = [k \in Declared |-> 0]
      /\ produced = [g \in Generations |-> 0] /\ delivered = [g \in Generations |-> 0]
  BY DEF Init, ScopeInit, TurnInit
<1>2. QueuedEvents = {} /\ InHand = {} /\ Pending = {} /\ Owed = {} /\ Replying = {}
  BY <1>1 DEF QueuedEvents, InHand, Pending, Owed, Replying, Tokens
<1>3. PhaseInv /\ DesiredInv /\ FaultInv /\ NoDetachedTasks /\ LedgerInv
  BY <1>1, <1>2 DEF PhaseInv, Cancelling, DesiredInv, Applying, Reconciled, Matched, FaultInv,
     NoDetachedTasks,
     OwnerEnded, LedgerInv
<1>4. FreshInv
  BY <1>1 DEF FreshInv, TaskId
<1>5. EntryInv
  BY <1>1 DEF EntryInv, OneEntryEach, OwnerEnded
<1>6. TokenInv
  BY <1>1, <1>2 DEF TokenInv, TokensOnce
<1>7. OutcomeInv
  BY <1>1, <1>2 DEF OutcomeInv, TaskId
<1> QED
  BY <1>3, <1>4, <1>5, <1>6, <1>7, LiveInit DEF PromiseInv

\* Every step of the live runtime scope preserves the invariant.
THEOREM PromiseStep == PromiseInv /\ [Next]_vars => PromiseInv'
BY LiveStep, PhaseStep, FreshStep, EntryStep, DesiredStep, FaultStep, DetachedStep, TokenStep,
   LedgerStep, OutcomeStep DEF PromiseInv

\* PromiseInv is an invariant of the live runtime scope.
THEOREM PromiseInvariant == Spec => []PromiseInv
BY PromiseInit, PromiseStep, PTL DEF Spec

\* A drain that FinishDrain reports as clean, the owner finding nothing pending
\* and every task joined, has delivered, mapped or superseded all the work the
\* scope admitted.
THEOREM DrainIsLossless == Spec => []DrainLosesNothing
<1>1. ASSUME PromiseInv, pc = "clean", draining
      PROVE  open = {} /\ requests = {} /\ \A h \in Asks : asks[h] # "waiting"
  <2>1. requests = {} /\ queue = <<>> /\ open = {}
    BY <1>1 DEF PromiseInv, LiveInv, EndInv, OwnerEnded, LedgerInv
  <2>2. Len(queue) = 0
    BY <2>1
  <2>3. \A h \in Asks : asks[h] # "waiting"
    BY <1>1, <2>1, <2>2 DEF PromiseInv, LiveInv, WaiterInv
  <2> QED
    BY <2>1, <2>3
<1>2. PromiseInv => DrainLosesNothing
  BY <1>1 DEF DrainLosesNothing
<1> QED
  BY <1>2, PromiseInvariant, PTL

\* apply_subscription_changes has done all that the reconcilers' bookkeeping
\* says by the time the owner waits for its next event.
THEOREM SourcesAreDesired == Spec => []SourcesMatchDesired
<1>1. ASSUME PromiseInv, pc = "select", phase = "Running", NEW k \in Keys
      PROVE  active[k] = IF Realizations(k) = {} THEN NoDescriptor
                         ELSE realized[First(Realizations(k))][2]
  <2>1. Matched(k)
    BY <1>1 DEF PromiseInv, DesiredInv, Reconciled, Applying, Driving
  <2>2. CASE active[k] = NoDescriptor
    BY <2>1, <2>2 DEF Matched, Realizations
  <2>3. CASE active[k] # NoDescriptor
    <3>1. PICK g \in sources : realized[g] = <<k, active[k]>>
      BY <2>1, <2>3 DEF Matched
    <3>2. g \in Realizations(k)
      BY <3>1 DEF Realizations, KeyOf
    <3>3. Realizations(k) \in SUBSET Generations
      BY <1>1 DEF Realizations, PromiseInv, LiveInv, TypeOK, SourceTypeOK
    <3>4. First(Realizations(k)) \in Realizations(k)
      BY <3>2, <3>3, SmallestGeneration
    <3>5. First(Realizations(k)) = g
      BY <1>1, <3>2, <3>4 DEF Realizations, PromiseInv, EntryInv, OneEntryEach
    <3> QED
      BY <3>1, <3>2, <3>5
  <2> QED
    BY <2>2, <2>3
<1>2. PromiseInv => SourcesMatchDesired
  BY <1>1 DEF SourcesMatchDesired
<1> QED
  BY <1>2, PromiseInvariant, PTL

\* interpret_command never meets a Reply whose token has no entry in requests,
\* so no reply of a Component faults the scope.
THEOREM RepliesFindRequests == Spec => []TokensNameRequests
<1>1. ASSUME PromiseInv, pc \notin OwnerEnded,
             pc \notin {"cancel", "cancel_join", "cancel_stop", "fault", "cleanup", "joining"}
      PROVE  held \cup Tokens(commands) \subseteq requests
  <2>1. pc \in Driving
    BY <1>1 DEF PromiseInv, LiveInv, TypeOK, OwnerTypeOK, OwnerPosition, Driving, TurnPosition
  <2> QED
    BY <1>1, <2>1 DEF PromiseInv, TokenInv, Replying
<1>2. PromiseInv => TokensNameRequests
  BY <1>1 DEF TokensNameRequests
<1> QED
  BY <1>2, PromiseInvariant, PTL

\* finish_cancel joins what had failed before it aborts anything, so a cancel
\* that closes cleanly has hidden no relevant failure.
THEOREM CancelHidesNoFault == Spec => []FaultNotHidden
<1>1. ASSUME PromiseInv, pc \in {"clean", "cleanup"}, phase # "Faulted", NEW t \in failed_in_time
      PROVE  Kind(t) = "run" /\ (t[2] \notin sources \/ t[2] \in terminal_observed)
  <2>1. t \in TaskId
    BY <1>1 DEF PromiseInv, LiveInv, TypeOK, HistoryTypeOK
  <2>2. task[t] = "joined"
    BY <1>1, <2>1 DEF PromiseInv, FaultInv, LiveInv, EndInv, AllJoined
  <2> QED
    BY <1>1, <2>2 DEF PromiseInv, FaultInv
<1>2. PromiseInv => FaultNotHidden
  BY <1>1 DEF FaultNotHidden
<1> QED
  BY <1>2, PromiseInvariant, PTL

\* The same for FinishDrain, which forgets the Sources as it closes.
THEOREM DrainHidesNoFault == Spec => DrainSeesFaults
<1>1. ASSUME PromiseInv, [Next]_vars, pc' = "clean", draining,
             NEW g \in sources, SourceTask(g) \in failed_in_time
      PROVE  g \in terminal_observed
  <2>1. CASE pc = "clean" \/ FinishCleanup
    BY <1>1, <2>1 DEF FinishCleanup, PromiseInv, EntryInv, OwnerEnded
  <2>2. CASE FinishDrain
    <3>1. AllJoined /\ pc = "select"
      BY <2>2 DEF FinishDrain, DrainFinished
    <3>2. SourceTask(g) \in TaskId /\ SourceTask(g)[2] = g
      BY <1>1 DEF PromiseInv, LiveInv, TypeOK, SourceTypeOK, SourceTask, TaskId
    <3>3. task[SourceTask(g)] = "joined" /\ phase # "Faulted"
      BY <1>1, <3>1, <3>2 DEF PromiseInv, FaultInv, AllJoined, PhaseInv
    <3> QED
      BY <1>1, <3>1, <3>2, <3>3 DEF PromiseInv, FaultInv
  <2> QED
    BY <1>1, <2>1, <2>2, PositionMoves
<1>2. PromiseInv /\ [Next]_vars =>
        [pc' = "clean" /\ draining =>
           \A g \in sources : SourceTask(g) \in failed_in_time => g \in terminal_observed]_vars
  BY <1>1
<1> QED
  BY <1>2, PromiseInvariant, PTL DEF Spec, DrainSeesFaults

\* An effect's mapper runs once for each outcome that EffectCompletes had
\* accepted, retain_cancelled_effect_outcomes included.
THEOREM MappersRunOnce == Spec => []OutcomesMappedOnce
<1>1. ASSUME PromiseInv, NEW k \in Declared
      PROVE  /\ mapped[k] <= Cardinality({e \in outcomes : e[2] = k})
             /\ pc = "clean" =>
                  mapped[k] = Cardinality({e \in outcomes : e[2] = k /\ Kind(e) = "effect"})
  <2>1. \A e, f \in outcomes : e[2] = k /\ f[2] = k => e = f
    BY <1>1 DEF PromiseInv, OutcomeInv, FreshInv, LiveInv, TypeOK, HistoryTypeOK
  <2>2. ASSUME NEW S \in SUBSET outcomes, \A e \in S : e[2] = k
        PROVE  Cardinality(S) = IF S = {} THEN 0 ELSE 1
    <3>1. CASE S = {}
      BY <3>1, FS_EmptySet
    <3>2. CASE S # {}
      <4>1. PICK e : S = {e}
        BY <2>1, <2>2, <3>2
      <4> QED
        BY <3>2, <4>1, FS_Singleton
    <3> QED
      BY <3>1, <3>2
  <2>3. mapped[k] \in {0, 1} /\ (mapped[k] = 1 => \E e \in outcomes : Kind(e) = "effect" /\ e[2] = k)
    BY <1>1 DEF PromiseInv, OutcomeInv
  <2>4. pc = "clean" => \A e \in outcomes : Kind(e) = "effect" => mapped[e[2]] = 1
    BY <1>1 DEF PromiseInv, OutcomeInv
  <2>5. mapped[k] <= Cardinality({e \in outcomes : e[2] = k})
    <3> DEFINE S == {e \in outcomes : e[2] = k}
    <3>1. Cardinality(S) = IF S = {} THEN 0 ELSE 1
      BY <2>2
    <3>2. mapped[k] = 1 => S # {}
      BY <2>3
    <3> HIDE DEF S
    <3>3. mapped[k] <= Cardinality(S)
      BY <2>3, <3>1, <3>2
    <3> QED
      BY <3>3 DEF S
  <2>6. ASSUME pc = "clean"
        PROVE  mapped[k] = Cardinality({e \in outcomes : e[2] = k /\ Kind(e) = "effect"})
    <3> DEFINE S == {e \in outcomes : e[2] = k /\ Kind(e) = "effect"}
    <3>1. Cardinality(S) = IF S = {} THEN 0 ELSE 1
      BY <2>2
    <3>2. mapped[k] = 1 <=> S # {}
      BY <2>3, <2>4, <2>6
    <3> HIDE DEF S
    <3>3. mapped[k] = Cardinality(S)
      BY <2>3, <3>1, <3>2
    <3> QED
      BY <3>3 DEF S
  <2> QED
    BY <2>5, <2>6
<1>2. PromiseInv => OutcomesMappedOnce
  BY <1>1 DEF OutcomesMappedOnce
<1> QED
  BY <1>2, PromiseInvariant, PTL

\* After begin_drain a Source's entry stays until the end, with the stamp of
\* its frames, so none of these is discarded, and what it had sent is ignored
\* only behind the Source's own end.
THEOREM RetainedIsHeard == Spec => DrainKeepsAcceptedDeliveries
<1>1. ASSUME [Next]_vars
      PROVE  UNCHANGED stale \/ DiscardStale \/ IgnoreSourceEvent
  <2>1. CASE Host \/ Drivers \/ UNCHANGED vars
    BY <2>1 DEF Host, HostSendsEvent, HostAsks, HostShutsDown, HostDropsTask, Drivers, SourceEmits,
       SourceReturns, EffectCompletes, TimerElapses, TaskReturns, DriverFails, TaskCancelled,
       vars, history, deliveryHistory
  <2>2. CASE \/ Start \/ Initialize \/ NextComponent \/ Committed \/ Reconcile \/ Apply \/ Change
             \/ Interpret \/ Declare \/ Dropped
    BY <2>2 DEF Start, Initialize, NextComponent, Committed, Reconcile, Apply, Change, Interpret,
       Declare, IssueEffect, IssueAfter, IssueSend, IssueRequest, IssueReply, IssueRefused,
       IssueFrame, Dropped, OwnerAborted, ConversionUnwinds, DropCore, TurnFrame, history,
       deliveryHistory
  <2>3. CASE \/ Loop \/ FinishDrain \/ JoinTask \/ Receive \/ Transition \/ MapSourceEvent
             \/ PushMapped \/ ProcessEffect \/ ProcessPortIngress \/ DispatchMarker \/ DispatchPanics
    BY <2>3 DEF Loop, FinishDrain, JoinTask, Receive, Transition, MapSourceEvent, PushMapped,
       ProcessEffect, ProcessPortIngress, DispatchMarker, DispatchPanics, OutcomeFrame, history,
       deliveryHistory
  <2>4. CASE \/ RetainOutcomes \/ JoinBeforeCancel \/ StopBeforeCancel \/ FaultScope
             \/ CleanupAbort \/ FinishCleanup
    BY <2>4 DEF RetainOutcomes, JoinBeforeCancel, StopBeforeCancel, FaultScope, CleanupAbort,
       FinishCleanup, OutcomeFrame, history, deliveryHistory
  <2> QED
    BY <1>1, <2>1, <2>2, <2>3, <2>4 DEF Next, Owner, Issue, Declare, Dropped
<1>2. ASSUME PromiseInv, [Next]_vars, draining, NEW item \in stale' \ stale,
             item[2] \in drain_retained
      PROVE  ~IsFrame(item) /\ item[2] \in terminal_observed
  <2>1. /\ DiscardStale \/ IgnoreSourceEvent
        /\ item = current.item /\ pc = "dispatch"
    BY <1>1, <1>2 DEF DiscardStale, IgnoreSourceEvent, Dispatching
  <2>2. drain_retained = sources /\ sources \subseteq Generations
    BY <1>2, <2>1 DEF PromiseInv, EntryInv, Driving, LiveInv, TypeOK, SourceTypeOK
  <2>3. StampIsCurrent(item[2])
    BY <1>2, <2>2, CurrentStamp DEF PromiseInv
  <2>4. IgnoreSourceEvent /\ item[2] \in terminal_observed
    BY <1>2, <2>1, <2>3 DEF DiscardStale, IgnoreSourceEvent, SourceEventRelevant
  <2>5. current \in Event /\ current.type = "SourceEvent"
    BY <1>2, <2>1, <2>4 DEF PromiseInv, LiveInv, PositionInv, IgnoreSourceEvent, Dispatching
  <2>6. ~IsFrame(item)
    BY <2>1, <2>5 DEF Event, SourceItem, IsFrame, Kind
  <2> QED
    BY <2>4, <2>6
<1>3. ASSUME [Next]_vars, draining
      PROVE  drain_retained' = drain_retained
  BY <1>3, Writers DEF WritesDrain
<1>4. PromiseInv /\ [Next]_vars =>
        [draining =>
           /\ drain_retained \subseteq drain_retained'
           /\ \A item \in stale' \ stale :
                item[2] \in drain_retained =>
                  ~IsFrame(item) /\ item[2] \in terminal_observed]_vars
  BY <1>2, <1>3
<1> QED
  BY <1>4, PromiseInvariant, PTL DEF Spec, DrainKeepsAcceptedDeliveries

\* A PortHandle's request future that fails finds the scope shutting down or
\* faulted, unless a provider's conversion unwound the owner (which
\* MCConversion shows): by then the phase already says why.
THEOREM WaitersAreTold ==
  ASSUME ~Mishap("conversion")
  PROVE  Spec => WaitersLearnWhy
<1>1. ASSUME PromiseInv, [Next]_vars, NEW h \in Asks, asks[h] = "waiting", asks'[h] = "dropped"
      PROVE  phase \in {"Faulted", "Cancelling"} \/ handle = "dropped"
  <2>0. asks \in [Asks -> {"idle", "waiting", "replied", "dropped"}] /\ phase \in ScopePhase
    BY <1>1 DEF PromiseInv, LiveInv, TypeOK, HostTypeOK, ScopeTypeOK
  <2>1. asks' # asks
    BY <1>1
  <2>2. ~(Host \/ Drivers \/ UNCHANGED vars)
    BY <1>1, <2>0, <2>1 DEF Host, HostSendsEvent, HostAsks, HostShutsDown, HostDropsTask, Drivers,
       SourceEmits, SourceReturns, EffectCompletes, TimerElapses, TaskReturns, DriverFails,
       TaskCancelled, vars, hostVars
  <2>3. ~Declare
    BY <1>1, <2>0, <2>1 DEF Declare, IssueEffect, IssueAfter, IssueSend, IssueRequest, IssueReply,
       IssueRefused
  <2>4. ~(\/ Start \/ Initialize \/ NextComponent \/ Committed \/ Reconcile \/ Apply \/ Change
          \/ Interpret \/ Loop)
    BY <2>1 DEF Start, Initialize, NextComponent, Committed, Reconcile, Apply, Change, Interpret,
       Loop, TurnFrame, hostVars
  <2>5. ~(\/ FinishDrain \/ JoinTask \/ Receive \/ DiscardStale \/ Transition \/ IgnoreSourceEvent
          \/ MapSourceEvent \/ PushMapped)
    BY <2>1 DEF FinishDrain, JoinTask, Receive, DiscardStale, Transition, IgnoreSourceEvent,
       MapSourceEvent, PushMapped, hostVars
  <2>6. ~(\/ ProcessEffect \/ DispatchMarker \/ DispatchPanics \/ JoinBeforeCancel
          \/ StopBeforeCancel \/ FaultScope)
    BY <2>1 DEF ProcessEffect, DispatchMarker, DispatchPanics, JoinBeforeCancel, StopBeforeCancel,
       FaultScope, hostVars
  <2>7. ASSUME ProcessPortIngress
        PROVE  phase \in {"Faulted", "Cancelling"}
    <3>1. pc = "dispatch" /\ ~FiniteOpen
      BY <1>1, <2>7 DEF ProcessPortIngress, Dispatching, WakeWaiters
    <3> QED
      BY <1>1, <2>0, <3>1 DEF FiniteOpen, PromiseInv, LiveInv, EndInv, OwnerEnded, PhaseInv,
         ScopePhase
  <2>8. RetainOutcomes \/ CleanupAbort \/ FinishCleanup => pc \in {"cancel", "cleanup", "joining"}
    BY DEF RetainOutcomes, CleanupAbort, FinishCleanup
  <2>9. pc \in {"cancel", "cleanup", "joining"} => phase \in {"Faulted", "Cancelling"}
    BY <1>1 DEF PromiseInv, PhaseInv, Cancelling
  <2>10. OwnerAborted => handle = "dropped"
    BY DEF OwnerAborted
  <2>11. ~ConversionUnwinds
    BY DEF ConversionUnwinds
  <2> QED
    BY <1>1, <2>2, <2>3, <2>4, <2>5, <2>6, <2>7, <2>8, <2>9, <2>10, <2>11
       DEF Next, Owner, Issue, Declare
<1>2. PromiseInv /\ [Next]_vars =>
        [\A h \in Asks : asks[h] = "waiting" /\ asks'[h] = "dropped" =>
           phase \in {"Faulted", "Cancelling"} \/ handle = "dropped"]_vars
  BY <1>1
<1> QED
  BY <1>2, PromiseInvariant, PTL DEF Spec, WaitersLearnWhy


-----------------------------------------------------------------------------
(***************************************************************************)
(* StreamInv: the frames made of a Source's events travel in order and     *)
(* without a gap.                                                          *)
(***************************************************************************)

\* Where an event that is queued was before the step.
LEMMA QueuedFrom ==
  ASSUME LiveInv, [Next]_vars, NEW event \in QueuedEvents'
  PROVE  event \in QueuedEvents \/ Appends(event)
<1>0. queue \in Seq(Event)
  BY DEF LiveInv, TypeOK, ScopeTypeOK
<1>1. ASSUME NEW other, Appends(other)
      PROVE  event \in QueuedEvents \/ Appends(event)
  BY <1>0, <1>1, AppendAdds DEF Appends
<1>2. CASE queue' = queue
  BY <1>2 DEF QueuedEvents
<1>3. CASE queue # <<>> /\ queue' = Tail(queue)
  BY <1>0, <1>3, TailRemoves
<1>4. CASE queue' = <<>>
  BY <1>4, EmptyQueued
<1> QED
  BY <1>1, <1>2, <1>3, <1>4, QueueMoves

\* Where an event that is under way was before the step.
LEMMA PendingFrom ==
  ASSUME LiveInv, [Next]_vars
  PROVE  \A event \in Pending' : event \in Pending \/ Appends(event)
<1>1. CASE pc' \in Driving
  BY <1>1, PendingMoves DEF Pending, InHand
<1>2. CASE pc' \notin Driving
  <2>1. Pending' = QueuedEvents'
    BY <1>2 DEF Pending, InHand, Driving
  <2> QED
    BY <2>1, QueuedFrom DEF Pending
<1> QED
  BY <1>1, <1>2

\* A frame under way names its Source and its number.
LEMMA FrameTyped ==
  ASSUME LiveInv, NEW event \in Pending, NEW g, FrameOf(event, g)
  PROVE  g \in Generations /\ event.item[3] \in Nat /\ event.item[3] # 0
<1>1. event \in Event
  BY DEF LiveInv, TypeOK, ScopeTypeOK, PositionInv, Pending, QueuedEvents, InHand
<1>2. event.item \in Item /\ event.item[1] = "frame" /\ event.item[2] = g
  BY <1>1 DEF FrameOf, Event, Kind
<1>3. event.item \in FrameItem
  BY <1>2 DEF Item, DeclaredItem, SourceItem, HostItem
<1> QED
  BY <1>2, <1>3 DEF FrameItem

\* Frames are sent by process_source_event only, as it makes them.
LEMMA FrameSent ==
  ASSUME LiveInv, NEW event, Appends(event), NEW g, FrameOf(event, g)
  PROVE  /\ PushMapped /\ FiniteOpen /\ g = current.item[2]
         /\ event.item[3] = produced[g] + 1 /\ event.terminal = Head(outer)
<1>1. Kind(event.item) = "frame"
  BY DEF FrameOf
<1>2. ASSUME ProcessPortIngress
      PROVE  Kind(current.item) # "frame"
  BY <1>2 DEF ProcessPortIngress, Dispatching, LiveInv, PositionInv, Event, HostItem, Kind
<1>3. CASE PushMapped /\ FiniteOpen /\ event = Message(NextFrame, current.target, Head(outer))
  <2>1. event.item = <<"frame", current.item[2], produced[current.item[2]] + 1>>
        /\ event.terminal = Head(outer)
    BY <1>3 DEF Message, NextFrame
  <2> QED
    BY <1>3, <2>1 DEF FrameOf
<1>4. ~ \E h \in Asks : event = EventOf("PortRequest", AskItem(h), Provider)
  BY DEF FrameOf, EventOf
<1>5. ~ \E e \in EffectItem : event = EventOf("EffectOutcome", e, e[3])
  BY DEF FrameOf, EventOf
<1>6. event # Message(NewItem("request"), Provider, FALSE)
  BY <1>1 DEF Message, NewItem, Kind
<1>7. ProcessPortIngress => event # Message(current.item, Provider, FALSE)
  BY <1>1, <1>2 DEF Message
<1> QED
  BY <1>1, <1>3, <1>4, <1>5, <1>6, <1>7 DEF Appends, Sends, Plain, IsFrame

\* The owner leaves its mapped Messages only by sending the last of them.
LEMMA PushEnds ==
  ASSUME [Next]_vars, pc = "push"
  PROVE  PushMapped \/ UNCHANGED <<pc, outer, current>>
<1>1. CASE Host \/ Drivers \/ UNCHANGED vars
  BY <1>1, OthersLeaveOwner DEF vars, ownerVars
<1>2. CASE Owner \/ OwnerAborted
  BY <1>2 DEF Owner, OwnerAborted, Issue, Issuing, Start, Initialize, NextComponent, Committed,
     Reconcile, Apply, Change, Interpret, IssueEffect, IssueAfter, IssueSend, IssueRequest,
     IssueReply, IssueRefused, ConversionUnwinds, Loop, FinishDrain, JoinTask, Receive,
     DiscardStale, Transition, IgnoreSourceEvent, MapSourceEvent, ProcessEffect,
     ProcessPortIngress, DispatchMarker, DispatchPanics, Dispatching,
     RetainOutcomes, JoinBeforeCancel, StopBeforeCancel, FaultScope, CleanupAbort, FinishCleanup
<1> QED
  BY <1>1, <1>2 DEF Next

\* What one step makes and delivers of a Source's events.
LEMMA MadeAndDelivered ==
  ASSUME LiveInv, EntryInv, StreamInv, [Next]_vars, NEW g \in Generations
  PROVE  /\ produced'[g] = IF PushMapped /\ current.item[2] = g THEN produced[g] + 1 ELSE produced[g]
         /\ delivered'[g] = IF Transition /\ FrameOf(current, g) THEN delivered[g] + 1 ELSE delivered[g]
         /\ Transition /\ FrameOf(current, g) =>
              g \in sources /\ current \in Pending /\ current.item[3] = delivered[g] + 1
         /\ produced[g] \in Nat /\ delivered[g] \in Nat
<1>0. produced \in [Generations -> Nat] /\ delivered \in [Generations -> Nat]
      /\ sources \subseteq Generations
  BY DEF LiveInv, TypeOK, HistoryTypeOK, SourceTypeOK
<1>1. produced'[g] = IF PushMapped /\ current.item[2] = g THEN produced[g] + 1 ELSE produced[g]
  BY <1>0, Writers DEF WritesHistory, PushMapped
<1>2. ASSUME Transition, FrameOf(current, g)
      PROVE  /\ g \in sources /\ current \in Pending /\ current.item[3] = delivered[g] + 1
             /\ delivered'[g] = delivered[g] + 1
  <2>1. pc = "dispatch" /\ current \in Pending /\ IsFrame(current.item) /\ current.item[2] = g
    BY <1>2 DEF Transition, Dispatching, Pending, InHand, FrameOf, IsFrame, Kind
  <2>2. g \in sources
    BY <1>0, <1>2, <2>1, CurrentStamp DEF Transition
  <2>3. current.item[3] = delivered[g] + 1
    BY <1>2, <2>1, <2>2 DEF StreamInv, Driving, NextInHand
  <2>4. delivered' = [delivered EXCEPT ![g] = current.item[3]]
    BY <1>2, <2>1 DEF Transition, Deliver
  <2> QED
    BY <1>0, <2>1, <2>2, <2>3, <2>4
<1>3. ASSUME ~(Transition /\ FrameOf(current, g))
      PROVE  delivered'[g] = delivered[g]
  <2>1. CASE UNCHANGED delivered
    BY <2>1
  <2>2. CASE Transition
    <3>1. current \in Event /\ current.type \in {"Message", "TimerFired"}
      BY <2>2 DEF Transition, Dispatching, LiveInv, PositionInv
    <3>2. IsFrame(current.item) => current.type = "Message"
      BY <3>1 DEF Event, TimerItem, IsFrame, Kind
    <3>3. IsFrame(current.item) => current.item[2] # g
      BY <1>3, <2>2, <3>2 DEF FrameOf, IsFrame
    <3> QED
      BY <1>0, <2>2, <3>3 DEF Transition, Deliver
  <2> QED
    BY <2>1, <2>2, Writers DEF WritesHistory
<1> QED
  BY <1>0, <1>1, <1>2, <1>3


\* A frame is under way or delivered only after it was made.
LEMMA FramesMadeStep ==
  ASSUME LiveInv, EntryInv, StreamInv, [Next]_vars
  PROVE  FramesMade'
<1>1. ASSUME NEW g \in Generations
      PROVE  /\ delivered'[g] <= produced'[g]
             /\ \A event \in Pending' : FrameOf(event, g) => event.item[3] <= produced'[g]
  <2>1. /\ delivered[g] <= produced[g] /\ delivered[g] \in Nat /\ produced[g] \in Nat
        /\ \A event \in Pending : FrameOf(event, g) => event.item[3] <= produced[g]
    BY MadeAndDelivered DEF StreamInv, FramesMade
  <2>2. produced[g] <= produced'[g] /\ produced'[g] \in Nat
    BY <2>1, MadeAndDelivered
  <2>3. delivered'[g] <= produced[g] /\ delivered'[g] \in Nat
    BY <2>1, MadeAndDelivered
  <2>4. ASSUME NEW event \in Pending', FrameOf(event, g)
        PROVE  event.item[3] <= produced'[g]
    <3>1. CASE event \in Pending
      BY <2>1, <2>2, <2>4, <3>1, FrameTyped
    <3>2. CASE Appends(event)
      <4>1. PushMapped /\ g = current.item[2] /\ event.item[3] = produced[g] + 1
        BY <2>4, <3>2, FrameSent
      <4> QED
        BY <2>1, <4>1, MadeAndDelivered
    <3> QED
      BY <2>4, <3>1, <3>2, PendingFrom
  <2> QED
    BY <2>1, <2>2, <2>3, <2>4
<1> QED
  BY <1>1 DEF FramesMade, FrameOf

\* Frames keep their order in the channel: the next one made is sent last.
LEMMA FramesInOrderStep ==
  ASSUME LiveInv, StreamInv, [Next]_vars
  PROVE  FramesInOrder'
<1>0. queue \in Seq(Event) /\ FramesInOrder
  BY DEF LiveInv, TypeOK, ScopeTypeOK, StreamInv
<1>1. CASE queue' = queue
  BY <1>0, <1>1 DEF FramesInOrder, FrameOf
<1>2. CASE queue' = <<>>
  BY <1>2 DEF FramesInOrder
<1>3. CASE queue # <<>> /\ queue' = Tail(queue)
  <2>1. /\ \A i \in DOMAIN queue' : i + 1 \in DOMAIN queue /\ queue'[i] = queue[i + 1]
        /\ DOMAIN queue' \subseteq Nat
    <3>1. Tail(queue) \in Seq(Event)
      BY <1>0, <1>3, TailDomain
    <3> QED
      BY <1>0, <1>3, <3>1, TailDomain
  <2>2. ASSUME NEW i \in DOMAIN queue', NEW j \in DOMAIN queue', NEW g \in Generations,
               FrameOf(queue'[i], g), FrameOf(queue'[j], g), i < j
        PROVE  queue'[i].item[3] < queue'[j].item[3]
    <3>1. i + 1 < j + 1
      BY <2>1, <2>2
    <3> QED
      BY <1>0, <2>1, <2>2, <3>1 DEF FramesInOrder
  <2> QED
    BY <2>2 DEF FramesInOrder, FrameOf
<1>4. ASSUME NEW event, Appends(event)
      PROVE  FramesInOrder'
  <2>1. queue' = Append(queue, event) /\ Len(queue) \in Nat /\ DOMAIN queue = 1 .. Len(queue)
    BY <1>0, <1>4 DEF Appends
  <2>2. /\ DOMAIN queue' = 1 .. Len(queue) + 1 /\ queue'[Len(queue) + 1] = event
        /\ \A i \in 1 .. Len(queue) : queue'[i] = queue[i]
    BY <1>0, <2>1
  <2>3. ASSUME NEW i \in DOMAIN queue', NEW j \in DOMAIN queue', NEW g \in Generations,
               FrameOf(queue'[i], g), FrameOf(queue'[j], g), i < j
        PROVE  queue'[i].item[3] < queue'[j].item[3]
    <3>1. i \in 1 .. Len(queue) /\ queue'[i] = queue[i]
      BY <2>1, <2>2, <2>3
    <3>2. CASE j \in 1 .. Len(queue)
      BY <1>0, <2>1, <2>2, <2>3, <3>1, <3>2 DEF FramesInOrder
    <3>3. CASE j = Len(queue) + 1
      <4>1. event.item[3] = produced[g] + 1
        BY <1>4, <2>2, <2>3, <3>3, FrameSent
      <4>2. queue[i] \in Pending
        BY <2>1, <3>1 DEF Pending, QueuedEvents
      <4>3. queue[i].item[3] <= produced[g] /\ queue[i].item[3] \in Nat
        BY <2>3, <3>1, <4>2, FrameTyped DEF StreamInv, FramesMade
      <4>4. produced[g] \in Nat
        BY DEF LiveInv, TypeOK, HistoryTypeOK
      <4> QED
        BY <2>2, <3>1, <3>3, <4>1, <4>3, <4>4
    <3> QED
      BY <2>1, <2>2, <3>2, <3>3
  <2> QED
    BY <2>3 DEF FramesInOrder, FrameOf
<1> QED
  BY <1>1, <1>2, <1>3, <1>4, QueueMoves DEF Pending

\* What is left to send of a plan's output, and how many events of a Source
\* will have been made when it is sent.
LEMMA OuterStep ==
  ASSUME LiveInv, EntryInv, StreamInv, PlansEndLast, [Next]_vars
  PROVE  OuterInv'
<1> SUFFICES ASSUME pc' = "push"
             PROVE  OuterInv'
  BY DEF OuterInv
<1>1. current' = current
  BY PositionMoves
<1>2. CASE MapSourceEvent
  <2>1. PICK output \in Outputs(current.item[2], current.terminal) :
          /\ outer' = output
          /\ IF EndsSource(current.terminal, output)
             THEN terminal_observed' = terminal_observed \cup {current.item[2]}
             ELSE terminal_observed' = terminal_observed
    BY <1>2 DEF MapSourceEvent, ObserveTerminal
  <2>2. current.item[2] \notin terminal_observed
    BY <1>2 DEF MapSourceEvent, SourceEventRelevant
  <2>3. current.terminal \in BOOLEAN
    BY <1>2 DEF MapSourceEvent, Dispatching, LiveInv, PositionInv, Event
  <2>4. EndsLast(output) /\ (current.terminal => output # <<>> /\ output[Len(output)])
    BY <2>3 DEF PlansEndLast, Outputs
  <2>5. output \in Seq(BOOLEAN)
    BY <2>3, WorkAssumption DEF Outputs
  <2>6. current.item[2] \in terminal_observed' <=> EndsSource(current.terminal, output)
    BY <2>1, <2>2
  <2>7. \A i \in DOMAIN output : output[i] <=> i = Len(output) /\ EndsSource(current.terminal, output)
    BY <2>4, <2>5 DEF EndsLast, EndsSource
  <2> QED
    BY <1>1, <2>1, <2>6, <2>7 DEF OuterInv
<1>3. CASE PushMapped
  <2>1. /\ outer \in Seq(BOOLEAN) /\ outer # <<>> /\ outer' = Tail(outer) /\ pc = "push"
        /\ terminal_observed' = terminal_observed
    BY <1>3 DEF PushMapped, LiveInv, TypeOK, OwnerTypeOK, PositionInv, sourceVars
  <2>2. /\ Len(outer') = Len(outer) - 1 /\ Len(outer) \in Nat
        /\ \A i \in DOMAIN outer' : i \in Nat /\ i + 1 \in DOMAIN outer /\ outer'[i] = outer[i + 1]
    <3>1. Tail(outer) \in Seq(BOOLEAN)
      BY <2>1, TailDomain
    <3> QED
      BY <2>1, <3>1, TailDomain
  <2>3. \A i \in DOMAIN outer : outer[i] <=> i = Len(outer) /\ current.item[2] \in terminal_observed
    BY <2>1 DEF StreamInv, OuterInv
  <2>4. ASSUME NEW i \in DOMAIN outer'
        PROVE  outer'[i] <=> i = Len(outer') /\ current.item[2] \in terminal_observed
    <3>1. i + 1 = Len(outer) <=> i = Len(outer')
      BY <2>2
    <3> QED
      BY <2>2, <2>3, <3>1
  <2> QED
    BY <1>1, <2>1, <2>4 DEF OuterInv
<1>4. CASE pc = "push" /\ UNCHANGED outer /\ ~MapSourceEvent
  BY <1>1, <1>4, Writers DEF WritesTerminal, StreamInv, OuterInv
<1> QED
  BY <1>2, <1>3, <1>4, PositionMoves

\* When the end of a Source is decided and when it stays as it is.
LEMMA EndDecided ==
  ASSUME LiveInv, EntryInv, StreamInv, PlansEndLast, [Next]_vars, pc' \in Driving,
         NEW g \in Generations
  PROVE  /\ ~(MapSourceEvent /\ current.item[2] = g) =>
              /\ WillBeMade(g)' = WillBeMade(g)
              /\ g \in terminal_observed' <=> g \in terminal_observed
         /\ MapSourceEvent /\ current.item[2] = g =>
              /\ g \notin terminal_observed
              /\ g \in terminal_observed' => produced[g] < WillBeMade(g)'
<1>0. produced \in [Generations -> Nat] /\ outer \in Seq(BOOLEAN) /\ pc \in Driving
  BY PositionMoves DEF LiveInv, TypeOK, HistoryTypeOK, OwnerTypeOK
<1>1. CASE MapSourceEvent
  <2>1. PICK output \in Outputs(current.item[2], current.terminal) :
          /\ outer' = output /\ Sending(output)
          /\ IF EndsSource(current.terminal, output)
             THEN terminal_observed' = terminal_observed \cup {current.item[2]}
             ELSE terminal_observed' = terminal_observed
    BY <1>1 DEF MapSourceEvent, ObserveTerminal, Goto, Driving, TurnPosition
  <2>2. /\ pc = "dispatch" /\ UNCHANGED <<current, produced>>
        /\ current.item[2] \notin terminal_observed /\ current.terminal \in BOOLEAN
    BY <1>1 DEF MapSourceEvent, Dispatching, SourceEventRelevant, deliveryHistory, LiveInv,
       PositionInv, Event
  <2>3. output \in Seq(BOOLEAN) /\ EndsLast(output) /\ (current.terminal => output # <<>>)
    BY <2>2, WorkAssumption DEF Outputs, PlansEndLast
  <2>4. EndsSource(current.terminal, output) => Len(output) \in Nat \ {0} /\ pc' = "push"
    <3>1. (\E i \in DOMAIN output : output[i]) => output # <<>>
      OBVIOUS
    <3>2. EndsSource(current.terminal, output) => output # <<>>
      BY <2>3, <3>1 DEF EndsSource
    <3>3. output # <<>> => Len(output) \in Nat \ {0}
      BY <2>3
    <3> QED
      BY <2>1, <3>2, <3>3 DEF Sending, Goto
  <2>5. WillBeMade(g) = produced[g]
    BY <1>0, <2>2 DEF WillBeMade
  <2>6. current.item[2] # g => WillBeMade(g)' = produced[g]
    BY <1>0, <2>2 DEF WillBeMade
  <2>7. current.item[2] = g /\ EndsSource(current.terminal, output) =>
          WillBeMade(g)' = produced[g] + Len(output)
    BY <2>1, <2>2, <2>4 DEF WillBeMade
  <2> QED
    BY <1>0, <1>1, <2>1, <2>2, <2>4, <2>5, <2>6, <2>7
<1>2. CASE PushMapped
  <2>1. /\ pc = "push" /\ UNCHANGED <<current, terminal_observed>> /\ outer # <<>>
        /\ outer' = Tail(outer) /\ Sending(Tail(outer))
    BY <1>2 DEF PushMapped, sourceVars, LiveInv, PositionInv
  <2>2. Len(outer') = Len(outer) - 1 /\ Len(outer) \in Nat /\ (outer' = <<>> => Len(outer') = 0)
    <3>1. Len(Tail(outer)) = Len(outer) - 1 /\ Len(outer) \in Nat
      BY <1>0, <2>1
    <3>2. outer' = <<>> => Len(outer') = 0
      OBVIOUS
    <3> QED
      BY <2>1, <3>1, <3>2
  <2>3. produced'[g] = IF current.item[2] = g THEN produced[g] + 1 ELSE produced[g]
    BY <1>2, MadeAndDelivered
  <2>4. pc' = IF outer' = <<>> THEN "loop" ELSE "push"
    BY <2>1 DEF Sending, Goto
  <2>5. WillBeMade(g)' = WillBeMade(g)
    <3>1. CASE current.item[2] = g
      <4>1. WillBeMade(g) = produced[g] + Len(outer)
        BY <2>1, <3>1 DEF WillBeMade
      <4>2. WillBeMade(g)' = produced'[g] + Len(outer')
        BY <2>1, <2>2, <2>4, <3>1 DEF WillBeMade
      <4> QED
        BY <1>0, <2>2, <2>3, <3>1, <4>1, <4>2
    <3>2. CASE current.item[2] # g
      BY <1>0, <2>1, <2>3, <3>2 DEF WillBeMade
    <3> QED
      BY <3>1, <3>2
  <2>6. ~MapSourceEvent
    BY <2>1 DEF MapSourceEvent, Dispatching
  <2> QED
    BY <2>1, <2>5, <2>6
<1>3. CASE ~(MapSourceEvent \/ PushMapped)
  <2>1. produced'[g] = produced[g] /\ terminal_observed' = terminal_observed
    BY <1>3, Writers, MadeAndDelivered DEF WritesTerminal
  <2>2. pc = "push" => UNCHANGED <<pc, outer, current>>
    BY <1>3, PushEnds
  <2>3. pc' = "push" => pc = "push"
    BY <1>3, PositionMoves
  <2>4. WillBeMade(g)' = WillBeMade(g)
    BY <2>1, <2>2, <2>3 DEF WillBeMade
  <2> QED
    BY <1>3, <2>1, <2>4
<1> QED
  BY <1>1, <1>2, <1>3

\* An entry appears in the list of Sources with its activation only.
LEMMA NewEntry ==
  ASSUME LiveInv, FreshInv, [Next]_vars, pc' \in Driving, NEW g \in sources', g \notin sources
  PROVE  Change /\ g \in Generations /\ g = next_generation + 1 /\ produced[g] = 0
<1>1. Change
  BY Writers DEF WritesSources, FinishDrain, CleanupAbort, Dropped, OwnerAborted,
     ConversionUnwinds, DropCore, Goto, Driving, TurnPosition
<1>2. g = next_generation + 1 /\ g \in Generations
  <2>1. sources' \subseteq sources \cup {next_generation + 1} /\
        (sources' \subseteq sources \/ next_generation + 1 \in Generations)
    BY <1>1, ChangeCases
  <2> QED
    BY <2>1
<1>3. next_generation < g
  BY <1>2, WorkAssumption DEF LiveInv, TypeOK, SourceTypeOK
<1> QED
  BY <1>1, <1>2, <1>3 DEF FreshInv

\* Nothing is under way of a Source that has just been activated.
LEMMA NewIsSilent ==
  ASSUME LiveInv, FreshInv, StreamInv, [Next]_vars, pc' \in Driving,
         NEW g \in sources', g \notin sources
  PROVE  \A event \in Pending' : ~FrameOf(event, g)
<1>1. Change /\ g \in Generations /\ produced[g] = 0
  BY NewEntry
<1>2. ASSUME NEW event \in Pending', FrameOf(event, g)
      PROVE  FALSE
  <2>1. event \notin Pending
    <3>1. event \in Pending => event.item[3] <= 0 /\ event.item[3] \in Nat /\ event.item[3] # 0
      BY <1>1, <1>2, FrameTyped DEF StreamInv, FramesMade
    <3> QED
      BY <3>1
  <2>2. ~PushMapped
    BY <1>1 DEF Change, PushMapped
  <2> QED
    BY <1>2, <2>1, <2>2, PendingFrom, FrameSent
<1> QED
  BY <1>2

\* What is under way of an entry stays undelivered, and its last is its end.
LEMMA UndeliveredStep ==
  ASSUME LiveInv, EntryInv, FreshInv, StreamInv, PlansEndLast, [Next]_vars, pc' \in Driving,
         NEW g \in sources'
  PROVE  Undelivered(g)'
<1>0. /\ pc \in Driving /\ sources \subseteq Generations /\ FramesMade
  BY PositionMoves DEF LiveInv, TypeOK, SourceTypeOK, StreamInv
<1>1. CASE g \in sources
  <2>0. Undelivered(g) /\ NextInHand(g) /\ g \in Generations
        /\ delivered[g] <= produced[g] /\ delivered[g] \in Nat /\ produced[g] \in Nat
    BY <1>0, <1>1, MadeAndDelivered DEF StreamInv, FramesMade
  <2>1. ASSUME NEW event \in Pending', FrameOf(event, g), event \in Pending
        PROVE  /\ delivered'[g] < event.item[3]
               /\ event.terminal <=> g \in terminal_observed' /\ event.item[3] = WillBeMade(g)'
    <3>1. /\ delivered[g] < event.item[3] /\ event.item[3] \in Nat
          /\ event.terminal <=> g \in terminal_observed /\ event.item[3] = WillBeMade(g)
          /\ event.item[3] <= produced[g]
      BY <1>0, <2>0, <2>1, FrameTyped DEF Undelivered, FramesMade
    <3>2. delivered'[g] < event.item[3]
      <4>1. CASE Transition /\ FrameOf(current, g)
        <5>1. /\ pc = "dispatch" /\ pc' # "dispatch" /\ queue' = queue
              /\ current.item[3] = delivered[g] + 1 /\ delivered'[g] = delivered[g] + 1
          BY <2>0, <4>1, MadeAndDelivered DEF Transition, Dispatching, Goto, scopeVars
        <5>2. event \in QueuedEvents
          BY <2>1, <5>1 DEF Pending, QueuedEvents, InHand
        <5>3. event.item[3] # delivered[g] + 1
          BY <2>0, <2>1, <4>1, <5>1, <5>2 DEF NextInHand
        <5> QED
          BY <2>0, <3>1, <5>1, <5>3
      <4>2. CASE ~(Transition /\ FrameOf(current, g))
        BY <2>0, <3>1, <4>2, MadeAndDelivered
      <4> QED
        BY <4>1, <4>2
    <3>3. event.terminal <=> g \in terminal_observed' /\ event.item[3] = WillBeMade(g)'
      <4>1. CASE MapSourceEvent /\ current.item[2] = g
        <5>1. g \notin terminal_observed /\ (g \in terminal_observed' => produced[g] < WillBeMade(g)')
          BY <2>0, <4>1, EndDecided
        <5>2. ~event.terminal
          BY <3>1, <5>1
        <5>3. PICK will : will = WillBeMade(g)'
          OBVIOUS
        <5>4. g \in terminal_observed' => event.item[3] # will
          BY <2>0, <3>1, <5>1, <5>3
        <5> QED
          BY <5>2, <5>3, <5>4
      <4>2. CASE ~(MapSourceEvent /\ current.item[2] = g)
        BY <2>0, <3>1, <4>2, EndDecided
      <4> QED
        BY <4>1, <4>2
    <3> QED
      BY <3>2, <3>3
  <2>2. ASSUME NEW event \in Pending', FrameOf(event, g), Appends(event)
        PROVE  /\ delivered'[g] < event.item[3]
               /\ event.terminal <=> g \in terminal_observed' /\ event.item[3] = WillBeMade(g)'
    <3>1. /\ PushMapped /\ g = current.item[2] /\ event.item[3] = produced[g] + 1
          /\ event.terminal = Head(outer)
      BY <2>2, FrameSent
    <3>2. /\ ~Transition /\ ~MapSourceEvent /\ pc = "push" /\ outer \in Seq(BOOLEAN) /\ outer # <<>>
      BY <3>1 DEF PushMapped, Transition, MapSourceEvent, Dispatching, LiveInv, TypeOK, OwnerTypeOK,
         PositionInv
    <3>3. delivered'[g] < event.item[3]
      BY <2>0, <3>1, <3>2, MadeAndDelivered
    <3>4. Head(outer) = outer[1] /\ 1 \in DOMAIN outer /\ Len(outer) \in Nat
      BY <3>2
    <3>5. Head(outer) <=> 1 = Len(outer) /\ g \in terminal_observed
      BY <3>1, <3>2, <3>4 DEF StreamInv, OuterInv
    <3>6. WillBeMade(g) = produced[g] + Len(outer)
      BY <3>1, <3>2 DEF WillBeMade
    <3>7. event.item[3] = WillBeMade(g) <=> 1 = Len(outer)
      <4>1. event.item[3] = produced[g] + 1
        BY <3>1
      <4> QED
        <5>1. produced[g] \in Nat /\ Len(outer) \in Nat
          BY <2>0, <3>4
        <5>2. \A m, n \in Nat : m + 1 = m + n <=> 1 = n
          OBVIOUS
        <5> QED
          BY <3>6, <4>1, <5>1, <5>2
    <3>8. /\ WillBeMade(g)' = WillBeMade(g)
          /\ g \in terminal_observed' <=> g \in terminal_observed
      BY <2>0, <3>2, EndDecided
    <3> QED
      BY <3>1, <3>3, <3>5, <3>7, <3>8
  <2> QED
    BY <2>1, <2>2, PendingFrom DEF Undelivered, FrameOf
<1>2. CASE g \notin sources
  BY <1>2, NewIsSilent DEF Undelivered, FrameOf
<1> QED
  BY <1>1, <1>2

\* The owner drives the application in a scope that is Running or Draining.
LEMMA DrivenPhase ==
  ASSUME LiveInv, PhaseInv, Receive, pc' = "dispatch"
  PROVE  phase \in {"Running", "Draining"}
BY DEF Receive, CancelSeen, Goto, PhaseInv, LiveInv, TypeOK, ScopeTypeOK, ScopePhase

\* The frame received is the next one to deliver: those before it in the
\* stream would be queued before it.
LEMMA NextInHandStep ==
  ASSUME LiveInv, PhaseInv, EntryInv, FreshInv, StreamInv, [Next]_vars, pc' \in Driving,
         NEW g \in sources'
  PROVE  NextInHand(g)'
<1> SUFFICES ASSUME pc' = "dispatch", FrameOf(current, g)'
             PROVE  /\ current'.item[3] = delivered'[g] + 1
                    /\ \A event \in QueuedEvents' :
                         FrameOf(event, g) => event.item[3] # current'.item[3]
  BY DEF NextInHand, FrameOf
<1>0. /\ pc \in Driving /\ queue \in Seq(Event) /\ FramesInOrder
      /\ current' \in Pending' /\ FrameOf(current', g)
  BY PositionMoves DEF LiveInv, TypeOK, ScopeTypeOK, StreamInv, Pending, InHand, FrameOf
<1>1. g \in sources
  BY <1>0, NewIsSilent
<1>2. /\ Undelivered(g) /\ NextInHand(g) /\ Accounted(g) /\ g \in Generations
      /\ delivered[g] \in Nat /\ produced[g] \in Nat
  BY <1>0, <1>1, MadeAndDelivered DEF StreamInv, LiveInv, TypeOK, SourceTypeOK
<1>3. delivered'[g] = delivered[g]
  BY <1>2, MadeAndDelivered DEF Transition, Goto
<1>4. CASE pc = "dispatch" /\ UNCHANGED current
  <2>1. ASSUME NEW event \in QueuedEvents', FrameOf(event, g)
        PROVE  event \in QueuedEvents
    BY <1>4, <2>1, QueuedFrom, FrameSent DEF PushMapped
  <2> QED
    BY <1>0, <1>2, <1>3, <1>4, <2>1 DEF NextInHand
<1>5. CASE Receive
  <2>1. /\ queue # <<>> /\ current' = Head(queue) /\ queue' = Tail(queue) /\ pc = "select"
        /\ phase \in {"Running", "Draining"}
    BY <1>5, DrivenPhase DEF Receive
  <2>2. current' = queue[1] /\ 1 \in DOMAIN queue /\ current' \in Pending
    BY <1>0, <2>1, TailDomain DEF Pending, QueuedEvents
  <2>3. /\ delivered[g] < current'.item[3] /\ current'.item[3] <= produced[g]
        /\ current'.item[3] \in Nat
    BY <1>0, <1>2, <2>2, FrameTyped DEF Undelivered, StreamInv, FramesMade
  <2>4. PICK event \in Pending : FrameOf(event, g) /\ event.item[3] = delivered[g] + 1
    <3>1. delivered[g] + 1 \in 1 .. produced[g] /\ delivered[g] < delivered[g] + 1
      BY <1>2, <2>3
    <3> QED
      BY <1>2, <2>1, <3>1 DEF Accounted
  <2>5. PICK i \in DOMAIN queue : event = queue[i]
    BY <2>1 DEF Pending, InHand, QueuedEvents
  <2>6. i = 1
    <3>1. 1 < i => current'.item[3] < event.item[3]
      BY <1>0, <1>2, <2>2, <2>4, <2>5 DEF FramesInOrder
    <3>2. i \in Nat /\ i # 0
      BY <1>0
    <3> QED
      BY <1>2, <2>3, <2>4, <3>1, <3>2
  <2>7. ASSUME NEW other \in QueuedEvents', FrameOf(other, g)
        PROVE  other.item[3] # current'.item[3]
    <3>1. PICK j \in DOMAIN queue' : other = queue'[j]
      BY DEF QueuedEvents
    <3>2. j \in Nat /\ j # 0 /\ j + 1 \in DOMAIN queue /\ other = queue[j + 1]
      <4>1. Tail(queue) \in Seq(Event)
        BY <1>0, <2>1, TailDomain
      <4> QED
        BY <1>0, <2>1, <3>1, <4>1, TailDomain
    <3>3. 1 < j + 1
      BY <3>2
    <3>4. current'.item[3] < other.item[3]
      BY <1>0, <1>2, <2>2, <2>7, <3>2, <3>3 DEF FramesInOrder
    <3>5. other \in Pending
      BY <3>2 DEF Pending, QueuedEvents
    <3> QED
      BY <2>3, <2>7, <3>4, <3>5, FrameTyped
  <2> QED
    BY <1>3, <2>2, <2>4, <2>5, <2>6, <2>7
<1> QED
  BY <1>4, <1>5, QueueMoves

\* A frame in hand that is not dispatched yet stays in hand, and one of an
\* entry is dispatched by delivering it.
LEMMA FrameLeaves ==
  ASSUME LiveInv, EntryInv, StreamInv, [Next]_vars, pc' \in Driving, NEW g \in sources,
         NEW event \in Pending, FrameOf(event, g), event \notin Pending'
  PROVE  delivered'[g] = event.item[3]
<1>1. pc = "dispatch" /\ pc' # "dispatch" /\ event = current
  BY PendingMoves DEF Pending, InHand
<1>2. Dispatches /\ current.type = "Message" /\ IsFrame(current.item) /\ current.item[2] = g
  BY <1>1, DispatchEnds DEF FrameOf, IsFrame, Kind
<1>3. sources \subseteq Generations
  BY DEF LiveInv, TypeOK, SourceTypeOK
<1>4. Transition
  <2>1. ~DiscardStale
    BY <1>2, <1>3, CurrentStamp DEF DiscardStale
  <2> QED
    BY <1>2, <2>1 DEF Dispatches, IgnoreSourceEvent, MapSourceEvent, ProcessEffect,
       ProcessPortIngress, DispatchMarker, DispatchPanics, Dispatching
<1> QED
  BY <1>1, <1>3, <1>4, MadeAndDelivered

\* Every frame made of an entry is delivered or under way: it is sent as it is
\* made, and leaves the owner's hand by being delivered.
LEMMA AccountedStep ==
  ASSUME LiveInv, EntryInv, FreshInv, StreamInv, [Next]_vars, pc' \in Driving, NEW g \in sources'
  PROVE  Accounted(g)'
<1> SUFFICES ASSUME phase' \in {"Running", "Draining"}, NEW n \in 1 .. produced'[g],
                    delivered'[g] < n
             PROVE  \E event \in Pending' : FrameOf(event, g) /\ event.item[3] = n
  BY DEF Accounted, FrameOf
<1>0. pc \in Driving /\ phase \in {"Running", "Draining"} /\ n \in Nat
  BY PositionMoves, RunningBefore
<1>1. CASE g \in sources
  <2>0. /\ Accounted(g) /\ g \in Generations
        /\ delivered[g] \in Nat /\ produced[g] \in Nat /\ delivered[g] <= delivered'[g]
    <3>1. g \in Generations
      BY <1>1 DEF LiveInv, TypeOK, SourceTypeOK
    <3> QED
      BY <1>0, <1>1, <3>1, MadeAndDelivered DEF StreamInv
  <2>1. CASE n <= produced[g]
    <3>1. n \in 1 .. produced[g] /\ delivered[g] < n /\ delivered'[g] # n
      BY <1>0, <2>0, <2>1, MadeAndDelivered
    <3>2. PICK event \in Pending : FrameOf(event, g) /\ event.item[3] = n
      BY <1>0, <2>0, <3>1 DEF Accounted
    <3>3. event \in Pending'
      BY <1>1, <3>1, <3>2, FrameLeaves
    <3> QED
      BY <3>2, <3>3
  <2>2. CASE ~(n <= produced[g])
    <3> DEFINE frame == Message(NextFrame, current.target, Head(outer))
    <3>1. PushMapped /\ current.item[2] = g /\ n = produced[g] + 1
      BY <1>0, <2>0, <2>2, MadeAndDelivered
    <3>2. receiver /\ FiniteOpen
      BY <1>0 DEF FiniteOpen, LiveInv, EndInv, TypeOK, ScopeTypeOK, Driving, TurnPosition, OwnerEnded
    <3>3. Appends(frame)
      BY <3>1, <3>2 DEF Appends, Sends, PushMapped, AcceptFinite
    <3>4. frame \in Pending'
      BY <3>3, PendingMoves DEF Pending
    <3>5. FrameOf(frame, g) /\ frame.item[3] = n
      BY <3>1 DEF FrameOf, Message, NextFrame, Kind
    <3> QED
      BY <3>4, <3>5
  <2> QED
    BY <2>1, <2>2
<1>2. CASE g \notin sources
  <2>1. Change /\ g \in Generations /\ produced[g] = 0
    BY <1>2, NewEntry
  <2>2. produced'[g] = 0
    BY <2>1, MadeAndDelivered DEF Change, PushMapped
  <2> QED
    BY <2>2
<1> QED
  BY <1>1, <1>2

\* What the position and the list of Sources give of StreamInv.
THEOREM StreamStep ==
  ASSUME LiveInv, PhaseInv, FreshInv, EntryInv, StreamInv, PlansEndLast, [Next]_vars
  PROVE  StreamInv'
<1>1. FramesMade' /\ FramesInOrder' /\ OuterInv'
  BY FramesMadeStep, FramesInOrderStep, OuterStep
<1>2. ASSUME pc' \in Driving, NEW g \in sources'
      PROVE  Undelivered(g)' /\ NextInHand(g)' /\ Accounted(g)'
  BY <1>2, UndeliveredStep, NextInHandStep, AccountedStep
<1> QED
  BY <1>1, <1>2 DEF StreamInv, Driving, Undelivered, NextInHand, Accounted

\* Before anything was made nothing is under way.
LEMMA StreamInit == Init => StreamInv
<1> SUFFICES ASSUME Init
             PROVE  StreamInv
  OBVIOUS
<1>1. queue = <<>> /\ pc = "start" /\ sources = {}
  BY DEF Init, ScopeInit, TurnInit
<1>2. Pending = {} /\ DOMAIN queue = {}
  BY <1>1 DEF Pending, InHand, QueuedEvents
<1> QED
  BY <1>1, <1>2 DEF StreamInv, FramesMade, FramesInOrder, OuterInv, Init

\* With plans whose end is their last event, the frames of every Source that
\* is listed travel in order, without a gap, and none is lost while the scope
\* drives the application (process_source_event, process_message).
THEOREM StreamInvariant ==
  ASSUME PlansEndLast
  PROVE  Spec => []InductiveInv
<1>1. Init => InductiveInv
  BY PromiseInit, StreamInit DEF InductiveInv
<1>2. InductiveInv /\ [Next]_vars => InductiveInv'
  BY PromiseStep, StreamStep DEF InductiveInv, PromiseInv
<1> QED
  BY <1>1, <1>2, PTL DEF Spec

\* What that says of the frames alone: each has its place between the mapper
\* and the Component that hears it (process_source_event, process_message).
THEOREM FramesArePlaced ==
  ASSUME PlansEndLast
  PROVE  Spec => []StreamInv
<1>1. InductiveInv => StreamInv
  BY DEF InductiveInv
<1> QED
  BY <1>1, StreamInvariant, PTL

-----------------------------------------------------------------------------
(***************************************************************************)
(* SourceStream is implemented: every step of the scope is a step of the   *)
(* streams it realizes, or leaves them as they are.                        *)
(***************************************************************************)

\* The streams as they are seen in this scope.
Closed == (terminal_observed \cap sources) \ Pushing
StreamVars ==
  <<next_generation, [g \in Generations |-> KeyOf(g)], sources, Closed, produced, delivered, finished>>

\* Outside process_source_event nothing is being pushed before or after a step.
LEMMA PushingStays ==
  ASSUME [Next]_vars, ~MapSourceEvent, ~PushMapped
  PROVE  Pushing' = Pushing
BY PushEnds, PositionMoves DEF Pushing

\* Most steps do not concern the streams.
LEMMA StreamsStay ==
  ASSUME [Next]_vars, ~MapSourceEvent, ~PushMapped, ~Transition, ~Change,
         ~FinishDrain, ~CleanupAbort, ~Dropped
  PROVE  UNCHANGED StreamVars
<1>1. /\ UNCHANGED <<sources, realized, next_generation, terminal_observed, produced, delivered>>
      /\ UNCHANGED finished
  BY Writers DEF WritesSources, WritesTerminal, WritesHistory
<1> QED
  BY <1>1, PushingStays DEF StreamVars, Closed, KeyOf

\* The owner's end withdraws every stream.
LEMMA EndWithdraws ==
  ASSUME [Next]_vars, FinishDrain \/ CleanupAbort \/ Dropped
  PROVE  Stream!Withdraw(sources)
<1>1. /\ sources' = {}
      /\ UNCHANGED <<realized, next_generation, produced, delivered, finished>>
  BY DEF FinishDrain, CleanupAbort, Dropped, OwnerAborted, ConversionUnwinds, DropCore, history,
     deliveryHistory
<1> QED
  BY <1>1 DEF Stream!Withdraw, KeyOf

\* One change of a turn begins a stream in the place of another, withdraws
\* one or leaves them alone.
LEMMA ChangeBegins ==
  ASSUME PromiseInv, [Next]_vars, Change
  PROVE  \/ \E key \in Keys : Stream!Begin(key)
         \/ \E S \in SUBSET sources : Stream!Withdraw(S)
         \/ UNCHANGED StreamVars
<1>1. PICK change \in changes :
    LET key == <<component, change.id>>
        S == Removed(change, Entry(key))
        g == next_generation + 1
    IN  /\ UNCHANGED terminal_observed
        /\ \/ UNCHANGED <<sources, realized, next_generation>>
           \/ /\ ActivationOpen /\ change.kind \in {"Start", "Replace"}
              /\ g \in Generations /\ next_generation' = g
              /\ realized' = [realized EXCEPT ![g] = <<key, desired[change.id]>>]
              /\ sources' = (sources \ S) \cup {g}
           \/ /\ UNCHANGED <<realized, next_generation>>
              /\ sources' \in {sources, sources \ S}
  BY ChangeCases
<1> DEFINE key == <<component, change.id>>
           S == Removed(change, Entry(key))
           g == next_generation + 1
<1>2. /\ pc = "change" /\ Pushing = {} /\ Pushing' = {}
      /\ UNCHANGED <<produced, delivered, finished, terminal_observed>>
  BY <1>1, PushingStays
     DEF Change, TurnFrame, history, deliveryHistory, Pushing, MapSourceEvent, PushMapped, Dispatching
<1>3. /\ sources \subseteq Generations /\ LiveInv /\ PhaseInv /\ FreshInv /\ EntryInv /\ DesiredInv
      /\ realized \in [Generations -> (Keys \cup {NoKey}) \X (Descriptors \cup {NoDescriptor})]
  BY DEF PromiseInv, LiveInv, TypeOK, SourceTypeOK
<1>4. S \subseteq {h \in sources : KeyOf(h) = key}
  BY <1>3, CurrentStamp DEF Removed, Realizations
<1>5. CASE UNCHANGED <<sources, realized, next_generation>>
  BY <1>2, <1>5 DEF StreamVars, Closed, KeyOf
<1>6. CASE UNCHANGED <<realized, next_generation>> /\ sources' = sources \ S
  <2>1. Stream!Withdraw(S)
    BY <1>2, <1>6 DEF Stream!Withdraw, KeyOf
  <2> QED
    BY <1>4, <2>1
<1>7. CASE /\ ActivationOpen /\ change.kind \in {"Start", "Replace"}
           /\ g \in Generations /\ next_generation' = g
           /\ realized' = [realized EXCEPT ![g] = <<key, desired[change.id]>>]
           /\ sources' = (sources \ S) \cup {g}
  <2>1. key \in Keys /\ \A h \in sources \ S : KeyOf(h) # key
    BY <1>2, <1>3, <1>7, ChangeReplaces
  <2>2. {h \in sources : KeyOf(h) # key} = sources \ S
    BY <1>4, <2>1
  <2>3. g \notin terminal_observed
    <3>1. next_generation < g
      BY WorkAssumption DEF PromiseInv, LiveInv, TypeOK, SourceTypeOK
    <3> QED
      BY <1>3, <1>7, <3>1 DEF FreshInv
  <2>4. \A h \in Generations : realized'[h][1] = IF h = g THEN key ELSE realized[h][1]
    BY <1>3, <1>7
  <2>5. [h \in Generations |-> KeyOf(h)]' = [[h \in Generations |-> KeyOf(h)] EXCEPT ![g] = key]
    BY <2>4 DEF KeyOf
  <2>6. {h \in sources : [x \in Generations |-> KeyOf(x)][h] # key} = sources \ S
    BY <1>3, <2>2
  <2>7. Closed' = Closed \cap (sources \ S)
    BY <1>2, <1>7, <2>3 DEF Closed
  <2>8. Stream!Begin(key)
    BY <1>2, <1>7, <2>5, <2>6, <2>7 DEF Stream!Begin, Stream!Streams, Generations, Closed
  <2> QED
    BY <2>1, <2>8
<1> QED
  BY <1>1, <1>5, <1>6, <1>7

\* A raw event mapped makes no event yet; an end observed closes its stream
\* unless Messages are still to be sent of it.
LEMMA MappingMakesNothing ==
  ASSUME PromiseInv, StreamInv, PlansEndLast, [Next]_vars, MapSourceEvent
  PROVE  \/ \E g \in Generations : Stream!Make(g, 0, TRUE)
         \/ UNCHANGED StreamVars
<1> DEFINE g == current.item[2]
<1>1. /\ pc = "dispatch" /\ Pushing = {} /\ g \notin terminal_observed /\ g \in Generations
      /\ UNCHANGED <<current, sources, realized, next_generation, produced, delivered, finished>>
      /\ produced \in [Generations -> Nat] /\ sources \subseteq Generations
  BY DEF MapSourceEvent, Dispatching, SourceEventRelevant, deliveryHistory, Pushing, PromiseInv,
     LiveInv, TypeOK, SourceTypeOK, HistoryTypeOK, PositionInv, Event, SourceItem
<1>2. g \in sources
  BY <1>1, CurrentStamp DEF MapSourceEvent, SourceEventRelevant, PromiseInv
<1>3. [h \in Generations |-> KeyOf(h)]' = [h \in Generations |-> KeyOf(h)]
  BY <1>1 DEF KeyOf
<1>4. \/ terminal_observed' = terminal_observed
      \/ terminal_observed' = terminal_observed \cup {g}
  BY DEF MapSourceEvent, ObserveTerminal
<1>5. Pushing' = IF pc' = "push" THEN {g} ELSE {}
  BY <1>1 DEF Pushing
<1>6. CASE terminal_observed' = terminal_observed \/ pc' = "push"
  BY <1>1, <1>3, <1>4, <1>5, <1>6 DEF StreamVars, Closed
<1>7. CASE terminal_observed' = terminal_observed \cup {g} /\ pc' # "push"
  <2>1. Closed' = Closed \cup {g} /\ g \notin Closed
    BY <1>1, <1>2, <1>5, <1>7 DEF Closed
  <2>2. [produced EXCEPT ![g] = @ + 0] = produced
    BY <1>1
  <2>3. Stream!Make(g, 0, TRUE)
    BY <1>1, <1>2, <1>3, <2>1, <2>2 DEF Stream!Make, Closed
  <2> QED
    BY <1>1, <2>3
<1> QED
  BY <1>4, <1>6, <1>7

\* A Message sent of a Source is the next event made of its stream.
LEMMA PushMakes ==
  ASSUME PromiseInv, StreamInv, [Next]_vars, PushMapped
  PROVE  \E g \in Generations, last \in BOOLEAN : Stream!Make(g, 1, last) /\ 1 \in 0 .. MaxFrames
<1> DEFINE g == current.item[2]
           last == pc' # "push" /\ g \in terminal_observed
<1>1. /\ pc = "push" /\ g \in sources /\ g \in Generations
      /\ sources \subseteq Generations /\ produced \in [Generations -> Nat]
  BY DEF PushMapped, PromiseInv, EntryInv, LiveInv, TypeOK, SourceTypeOK, HistoryTypeOK
<1>2. /\ UNCHANGED <<current, sources, realized, next_generation, terminal_observed, delivered, finished>>
      /\ produced' = [produced EXCEPT ![g] = @ + 1]
  BY DEF PushMapped, sourceVars
<1>3. [h \in Generations |-> KeyOf(h)]' = [h \in Generations |-> KeyOf(h)]
  BY <1>2 DEF KeyOf
<1>4. Pushing = {g} /\ Pushing' = IF pc' = "push" THEN {g} ELSE {}
  BY <1>1, <1>2 DEF Pushing
<1>5. Closed' = IF last THEN Closed \cup {g} ELSE Closed
  BY <1>1, <1>2, <1>4 DEF Closed
<1>6. g \notin Closed
  BY <1>4 DEF Closed
<1>7. Stream!Make(g, 1, last)
  BY <1>1, <1>2, <1>3, <1>5, <1>6 DEF Stream!Make, Closed
<1>8. 1 \in 0 .. MaxFrames
  <2>1. Len(outer) \in Nat \ {0} /\ produced[g] + Len(outer) <= MaxFrames /\ produced[g] \in Nat
    <3>1. outer # <<>> /\ outer \in Seq(BOOLEAN) /\ produced[g] + Len(outer) <= MaxFrames
      BY <1>1 DEF PromiseInv, LiveInv, TypeOK, OwnerTypeOK, PositionInv, BoundInv
    <3>2. Len(outer) \in Nat \ {0}
      BY <3>1
    <3> QED
      BY <1>1, <3>1, <3>2
  <2>2. MaxFrames \in Nat
    BY WorkAssumption
  <2> QED
    BY <2>1, <2>2
<1> QED
  BY <1>1, <1>7, <1>8

\* A frame delivered is the next event of its stream to be heard, and an end
\* if its stream was closed and nothing more was made.
LEMMA TransitionHears ==
  ASSUME PromiseInv, StreamInv, [Next]_vars, Transition
  PROVE  (\E g \in Generations : Stream!Hear(g)) \/ UNCHANGED StreamVars
<1>1. /\ pc = "dispatch" /\ pc' # "push" /\ Pushing = {} /\ Pushing' = {}
      /\ UNCHANGED <<sources, realized, next_generation, terminal_observed, produced>>
  BY DEF Transition, Dispatching, Goto, sourceVars, Pushing
<1>2. /\ [h \in Generations |-> KeyOf(h)]' = [h \in Generations |-> KeyOf(h)]
      /\ Closed' = Closed
  BY <1>1 DEF KeyOf, Closed
<1>3. CASE \E g \in Generations : FrameOf(current, g)
  <2>1. PICK g \in Generations : FrameOf(current, g)
    BY <1>3
  <2>2. /\ delivered \in [Generations -> Nat] /\ produced \in [Generations -> Nat]
        /\ LiveInv /\ EntryInv
    BY DEF PromiseInv, LiveInv, TypeOK, HistoryTypeOK
  <2>3. g \in sources /\ current \in Pending /\ current.item[3] = delivered[g] + 1
    BY <2>1, <2>2, MadeAndDelivered
  <2>4. current.item[3] <= produced[g]
    BY <2>1, <2>3 DEF StreamInv, FramesMade
  <2>5. current.terminal <=> g \in terminal_observed /\ current.item[3] = produced[g]
    <3>1. Undelivered(g) /\ WillBeMade(g) = produced[g] + 0
      BY <1>1, <2>3 DEF StreamInv, Driving, WillBeMade
    <3> QED
      BY <2>1, <2>2, <2>3, <3>1 DEF Undelivered
  <2>6. IsFrame(current.item) /\ current.item[2] = g
    BY <2>1 DEF FrameOf, IsFrame, Kind
  <2>7. /\ delivered' = [delivered EXCEPT ![g] = @ + 1]
        /\ finished' = IF current.terminal THEN finished \cup {g} ELSE finished
    BY <2>2, <2>3, <2>6 DEF Transition, Deliver
  <2>8. delivered'[g] = current.item[3] /\ delivered[g] < produced[g]
    BY <2>2, <2>3, <2>4, <2>7
  <2>9. current.terminal <=> g \in Closed /\ delivered'[g] = produced[g]
    BY <1>1, <2>3, <2>5, <2>8 DEF Closed
  <2>10. Stream!Hear(g)
    BY <1>1, <1>2, <2>3, <2>7, <2>8, <2>9 DEF Stream!Hear, Closed
  <2> QED
    BY <2>10
<1>4. CASE ~ \E g \in Generations : FrameOf(current, g)
  <2>1. current \in Event
    BY <1>1 DEF PromiseInv, LiveInv, PositionInv
  <2>2. ~IsFrame(current.item)
    <3>1. current.type \in {"Message", "TimerFired"}
      BY DEF Transition, Dispatching
    <3>2. ASSUME IsFrame(current.item)
          PROVE  FALSE
      <4>1. current.item \in Item /\ current.type = "Message"
        BY <2>1, <3>1, <3>2 DEF Event, IsFrame, Kind, TimerItem
      <4>2. current.item \in FrameItem
        BY <3>2, <4>1 DEF Item, DeclaredItem, SourceItem, HostItem, IsFrame, Kind
      <4>3. current.item[2] \in Generations
        BY <4>2 DEF FrameItem
      <4>4. FrameOf(current, current.item[2])
        BY <3>2, <4>1 DEF FrameOf, IsFrame
      <4> QED
        BY <1>4, <4>3, <4>4
    <3> QED
      BY <3>2
  <2>3. UNCHANGED <<delivered, finished>>
    BY <2>2 DEF Transition, Deliver
  <2> QED
    BY <1>1, <1>2, <2>3 DEF StreamVars
<1> QED
  BY <1>3, <1>4

\* The scope starts without a stream.
LEMMA StreamsInit == Init => Stream!Init
<1> SUFFICES ASSUME Init
             PROVE  Stream!Init
  OBVIOUS
<1>1. /\ next_generation = 0 /\ sources = {} /\ finished = {}
      /\ \A g \in Generations : KeyOf(g) = NoKey
      /\ produced = [g \in Generations |-> 0] /\ delivered = [g \in Generations |-> 0]
  BY DEF Init, TurnInit, KeyOf
<1> QED
  BY <1>1 DEF Stream!Init, Stream!Streams, Generations

\* With plans whose end is their last event the live runtime implements
\* SourceStream, whatever restarts, Drains, Cancels, faults or unwinds the
\* scope: one realization of each Subscription speaks at a time, in order and
\* gapless, its end once and last (activate_source, stop_source,
\* process_source_event, process_message).
THEOREM StreamsAreKept ==
  ASSUME PlansEndLast
  PROVE  Spec => ImplementsSourceStream
<1>1. ASSUME PromiseInv, StreamInv, [Next]_vars
      PROVE  [Stream!Next]_(Stream!vars)
  <2>1. Stream!Streams = Generations /\ Stream!vars = StreamVars
    BY DEF Stream!Streams, Stream!vars, StreamVars, Generations, Closed
  <2>2. CASE FinishDrain \/ CleanupAbort \/ Dropped
    BY <1>1, <2>2, EndWithdraws DEF Stream!Next
  <2>3. CASE Change
    BY <1>1, <2>1, <2>3, ChangeBegins DEF Stream!Next, Stream!vars, StreamVars, Closed
  <2>4. CASE MapSourceEvent
    <3>1. 0 \in 0 .. MaxFrames
      BY WorkAssumption
    <3> QED
      BY <1>1, <2>1, <2>4, <3>1, MappingMakesNothing DEF Stream!Next, Stream!vars, StreamVars, Closed
  <2>5. CASE PushMapped
    BY <1>1, <2>1, <2>5, PushMakes DEF Stream!Next
  <2>6. CASE Transition
    BY <1>1, <2>1, <2>6, TransitionHears DEF Stream!Next, Stream!vars, StreamVars, Closed
  <2>7. CASE /\ ~MapSourceEvent /\ ~PushMapped /\ ~Transition /\ ~Change
             /\ ~FinishDrain /\ ~CleanupAbort /\ ~Dropped
    BY <1>1, <2>7, StreamsStay DEF Stream!vars, StreamVars, Closed
  <2> QED
    BY <2>2, <2>3, <2>4, <2>5, <2>6, <2>7
<1>2. InductiveInv /\ [Next]_vars => [Stream!Next]_(Stream!vars)
  BY <1>1 DEF InductiveInv
<1> QED
  BY <1>2, StreamsInit, StreamInvariant, PTL DEF Spec, ImplementsSourceStream, Stream!Spec

-----------------------------------------------------------------------------
(***************************************************************************)
(* Whose step keeps which part.                                            *)
(***************************************************************************)
NoMarker == \A i \in 1 .. Len(queue) : ~IsMarker(queue[i])

\* What is left of a sequence without its head.
LEMMA TailShifts ==
  ASSUME NEW S, NEW q \in Seq(S), q # <<>>, NEW i \in 1 .. Len(Tail(q))
  PROVE  Tail(q)[i] = q[i + 1] /\ i + 1 \in 1 .. Len(q)
OBVIOUS

\* A channel without a shutdown marker gets one by a cutoff only.
LEMMA QueueStaysUnmarked ==
  ASSUME queue \in Seq(Event), NoMarker,
         \/ queue' \in {queue, <<>>}
         \/ queue # <<>> /\ queue' = Tail(queue)
         \/ \E event : Unmarked(event) /\ queue' = Append(queue, event)
  PROVE  NoMarker'
<1>1. CASE queue' \in {queue, <<>>}
  <2>1. queue' = <<>> => Len(queue') = 0
    OBVIOUS
  <2> QED
    BY <1>1, <2>1 DEF NoMarker
<1>2. CASE queue # <<>> /\ queue' = Tail(queue)
  <2>1. Len(queue') = Len(queue) - 1 /\ Len(queue) \in Nat
    BY <1>2
  <2>2. \A i \in 1 .. Len(queue') : queue'[i] = queue[i + 1] /\ i + 1 \in 1 .. Len(queue)
    BY <1>2, <2>1, TailShifts
  <2> QED
    BY <2>2 DEF NoMarker
<1>3. ASSUME NEW event, Unmarked(event), queue' = Append(queue, event)
      PROVE  NoMarker'
  <2>1. Len(queue') = Len(queue) + 1 /\ Len(queue) \in Nat
    BY <1>3
  <2>2. \A i \in 1 .. Len(queue') : queue'[i] = IF i = Len(queue) + 1 THEN event ELSE queue[i]
    BY <1>3, <2>1
  <2> QED
    BY <1>3, <2>1, <2>2 DEF NoMarker, Unmarked, IsMarker
<1> QED
  BY <1>1, <1>2, <1>3

\* Hosts that send and Drivers leave the owner alone and send no marker.
LEMMA OthersSend ==
  ASSUME HostHandles \/ Drivers
  PROVE  /\ UNCHANGED <<phase, pc, draining, current, handle>>
         /\ queue' = queue \/ \E event : Unmarked(event) /\ queue' = Append(queue, event)
<1>1. /\ \A g, n, terminal : Unmarked(SourceEvent(g, n, terminal))
      /\ \A type \in {"Message", "PortNotification", "PortRequest", "EffectOutcome", "TimerFired"} :
            \A item, target : Unmarked(EventOf(type, item, target))
  BY DEF Unmarked, SourceEvent, EventOf
<1>2. CASE HostHandles
  BY <1>1, <1>2 DEF HostHandles, HostSendsEvent, HostAsks, AcceptIngress, ownerVars
<1>3. CASE Drivers
  <2>1. /\ UNCHANGED <<phase, ownerVars, handle>>
        /\ queue' = queue \/ \E event : Unmarked(event) /\ queue' = Append(queue, event)
    BY <1>1, <1>3 DEF Drivers, SourceEmits, SourceReturns, GateAccept, AcceptSource,
           EffectCompletes, TimerElapses, AcceptFinite, TaskReturns, DriverFails, TaskCancelled,
           scopeVars, hostVars
  <2> QED
    BY <2>1 DEF ownerVars
<1> QED
  BY <1>2, <1>3

\* An owner that holds no event holds no marker.
LEMMA NoEventUnmarked == ~IsMarker(NoEvent)
BY DEF IsMarker, NoEvent

\* The live scope's own steps.
LEMMA ScopeStepKeeps ==
  ASSUME LiveInv, PhaseInv, HostTaskInv, HostHandles \/ OwnerAborted \/ Owner \/ Drivers,
         UNCHANGED cutoff
  PROVE  /\ HeldInv' /\ RefusedInv' /\ UNCHANGED handle
         /\ pc \in OwnerEnded => pc' = pc
<1>0. queue \in Seq(Event) /\ HeldInv /\ RefusedInv
  BY DEF LiveInv, TypeOK, ScopeTypeOK, HostTaskInv
<1>1. CASE HostHandles \/ Drivers
  <2>1. /\ UNCHANGED <<phase, pc, draining, current, handle>>
        /\ NoMarker => NoMarker'
    BY <1>0, <1>1, OthersSend, QueueStaysUnmarked
  <2> QED
    BY <1>0, <2>1 DEF HeldInv, NoMarker, RefusedInv, IsMarker
<1>2. CASE Owner \/ OwnerAborted
  <2>1. /\ NoMarker => NoMarker'
        /\ handle' = handle /\ pc \notin OwnerEnded
    BY <1>0, <1>2, OwnerQueue, OwnerMoves, QueueStaysUnmarked
  <2>2. NoMarker /\ ~IsMarker(current) => ~IsMarker(current')
    <3>1. queue # <<>> => Head(queue) = queue[1] /\ 1 \in 1 .. Len(queue)
      BY <1>0
    <3> QED
      BY <1>2, <3>1, OwnerQueue, NoEventUnmarked DEF NoMarker
  <2>4. RefusedInv'
    BY <1>0, <1>2, OwnerMoves DEF PhaseInv, RefusedInv, OwnerEnded
  <2>5. ASSUME handle = "held"
        PROVE  /\ phase' \in {"Running", "Faulted"}
               /\ pc' \in {"cleanup", "joining"} => phase' = "Faulted"
               /\ ~draining' /\ pc' \notin Closing
    BY <1>0, <1>2, <2>5, OwnerMoves DEF PhaseInv, HeldInv, RecordFault, ScopeFault, Closing,
           IsMarker
  <2>6. HeldInv'
    BY <1>0, <2>1, <2>2, <2>5 DEF HeldInv, NoMarker, IsMarker
  <2> QED
    BY <2>1, <2>4, <2>6
<1> QED
  BY <1>1, <1>2

\* The host's own calls on the scope: shutdown, and Drop before the join.
LEMMA HostCutoffKeeps ==
  ASSUME LiveInv, PhaseInv, HostTaskInv, NEW mode \in {"Drain", "Cancel"},
         Shutdown(mode) \/ HostDropsTask, cutoff' = cutoff \/ Shutdown(mode)
  PROVE  HeldInv' /\ RefusedInv' /\ pc' = pc
<1>0. HeldInv /\ RefusedInv
  BY DEF HostTaskInv
<1>1. /\ pc' = pc /\ handle' # "held"
      /\ phase = "Running" => phase' \in {"Draining", "Cancelling"}
      /\ phase # "Running" => phase' = phase
  BY DEF Shutdown, HostShutsDown, HostDropsTask, BeginShutdown, ShutdownPhase, ownerVars
<1>2. HeldInv'
  BY <1>0, <1>1 DEF HeldInv
<1>3. CASE Shutdown(mode)
  <2>1. handle = "held" /\ (cutoff' = "refused" => phase # "Running" \/ ~receiver)
    BY <1>3 DEF Shutdown, HostShutsDown, IngressOpen
  <2>2. ~receiver => pc \in OwnerEnded
    BY DEF LiveInv, EndInv
  <2> QED
    BY <1>0, <1>1, <1>2, <2>1, <2>2 DEF PhaseInv, HeldInv, RefusedInv, OwnerEnded, Closing
<1>4. CASE cutoff' = cutoff
  BY <1>0, <1>1, <1>2, <1>4 DEF RefusedInv
<1> QED
  BY <1>3, <1>4

-----------------------------------------------------------------------------
(***************************************************************************)
(* The answers.                                                            *)
(***************************************************************************)
LEMMA HostTaskStart == TaskInit => LiveInv /\ HostTaskInv
<1> SUFFICES ASSUME TaskInit
             PROVE  LiveInv /\ HostTaskInv
  OBVIOUS
<1>1. LiveInv
  BY LiveInit DEF TaskInit
<1>2. pc = "start" /\ phase = "Running" /\ handle = "held" /\ ~draining /\ current = NoEvent
      /\ queue = <<>>
  BY DEF TaskInit, Init, ScopeInit
<1>3. HeldInv
  <2>1. Len(queue) = 0
    BY <1>2
  <2> QED
    BY <1>2, <2>1, NoEventUnmarked DEF HeldInv, Closing
<1>4. HostTaskTypeOK /\ RefusedInv /\ CompletionInv /\ OneDiagnosis
  BY <1>2 DEF TaskInit, HostTaskInit, HostTaskTypeOK, RefusedInv, CompletionInv,
         OneDiagnosis
<1> QED
  BY <1>1, <1>3, <1>4 DEF HostTaskInv

\* A call that returns hands out the owner's own end: the expect is never
\* met with neither a completion nor a JoinHandle, and a refused cutoff is
\* never followed by a report.
LEMMA AnswerIsOwners ==
  ASSUME HostTaskInv, call \in {"run_forever", "shutdown"}, Ready
  PROVE  pc \in OwnerEnded /\ Answered = OwnerOutcome /\ OwnerOutcome \in Outcome
<1>1. join \/ completion # "none"
  BY DEF HostTaskInv, CompletionInv
<1>2. pc \in OwnerEnded /\ Observed = OwnerOutcome
  BY <1>1 DEF HostTaskInv, CompletionInv, Ready, Observed
<1>3. cutoff = "refused" => OwnerOutcome # "report"
  BY DEF HostTaskInv, RefusedInv, OwnerOutcome
<1> QED
  BY <1>2, <1>3 DEF Answered, OwnerOutcome, Outcome

\* Every step of the scope, and every call of the host, keeps HostTaskInv.
LEMMA HostTaskStep == LiveInv /\ PhaseInv /\ HostTaskInv /\ [TaskNext]_allVars => HostTaskInv'
<1> SUFFICES ASSUME LiveInv, PhaseInv, HostTaskInv, [TaskNext]_allVars
             PROVE  HostTaskInv'
  OBVIOUS
<1> USE DEF HostTaskInv
<1>1. ASSUME UNCHANGED <<vars, cutoff>>
      PROVE  HeldInv' /\ RefusedInv' /\ pc' = pc /\ handle' = handle
  BY <1>1 DEF vars, scopeVars, ownerVars, hostVars, HeldInv, RefusedInv, IsMarker
<1>2. ASSUME pc' = pc
      PROVE  OwnerOutcome' = OwnerOutcome
  BY <1>2 DEF OwnerOutcome
<1>3. CASE RunForever \/ StopsObserving \/ UNCHANGED allVars
  <2>1. /\ UNCHANGED <<vars, join, completion, cutoff, answers>>
        /\ call' = call \/ {call, call'} = {"none", "run_forever"}
    BY <1>3 DEF RunForever, StopsObserving, allVars, hostTaskVars
  <2> QED
    BY <1>1, <1>2, <2>1 DEF HostTaskTypeOK, CompletionInv, OneDiagnosis
<1>4. CASE CallReturns
  <2>1. /\ UNCHANGED <<vars, cutoff>> /\ call \in {"run_forever", "shutdown"} /\ Ready
        /\ join' = FALSE
    BY <1>4 DEF CallReturns
  <2>2. pc \in OwnerEnded /\ Answered = OwnerOutcome /\ OwnerOutcome \in Outcome
    BY <2>1, AnswerIsOwners
  <2>3. completion' = OwnerOutcome /\ join \in BOOLEAN
    BY <1>4, <2>1, <2>2 DEF CallReturns, HostTaskTypeOK, CompletionInv, Kept
  <2>4. HostTaskTypeOK'
    <3>1. [call |-> call, result |-> Answered] \in Answer
      BY <2>1, <2>2 DEF Answer
    <3>2. call' \in {"none", "gone"} /\ cutoff' = cutoff
          /\ answers' = answers \cup {[call |-> call, result |-> Answered]}
      BY <1>4 DEF CallReturns
    <3> QED
      BY <2>1, <2>2, <2>3, <3>1, <3>2 DEF HostTaskTypeOK
  <2>5. CompletionInv'
    BY <1>1, <1>2, <1>4, <2>1, <2>2, <2>3 DEF CallReturns, CompletionInv, Outcome
  <2>6. OneDiagnosis'
    BY <1>1, <1>2, <1>4, <2>1, <2>2 DEF CallReturns, OneDiagnosis
  <2> QED
    BY <1>1, <2>1, <2>4, <2>5, <2>6
<1>5. CASE DropTask
  <2>1. HeldInv' /\ RefusedInv' /\ pc' = pc
    BY <1>1, <1>5, HostCutoffKeeps DEF DropTask
  <2> QED
    BY <1>2, <1>5, <2>1 DEF DropTask, HostTaskTypeOK, CompletionInv, OneDiagnosis
<1>6. ASSUME NEW mode \in {"Drain", "Cancel"}, Shutdown(mode)
      PROVE  HostTaskInv'
  <2>1. HeldInv' /\ RefusedInv' /\ pc' = pc
    BY <1>6, HostCutoffKeeps
  <2> QED
    BY <1>2, <1>6, <2>1 DEF Shutdown, HostTaskTypeOK, CompletionInv, OneDiagnosis
<1>7. CASE (HostHandles \/ OwnerAborted \/ Owner \/ Drivers) /\ UNCHANGED hostTaskVars
  <2>1. /\ HeldInv' /\ RefusedInv' /\ UNCHANGED handle
        /\ pc \in OwnerEnded => pc' = pc
    BY <1>7, ScopeStepKeeps DEF hostTaskVars
  <2> QED
    BY <1>2, <1>7, <2>1 DEF hostTaskVars, HostTaskTypeOK, CompletionInv, OneDiagnosis
<1> QED
  BY <1>3, <1>4, <1>5, <1>6, <1>7 DEF TaskNext, HostTask

\* Every step the host can take through its RuntimeTask is one of LiveRuntime.
LEMMA TaskStepsAreLive == [TaskNext]_allVars => [Next]_vars
BY DEF TaskNext, HostTask, HostHandles, RunForever, StopsObserving, Shutdown, CallReturns,
       DropTask, Next, Host, allVars

\* What was answered once stays earned: a scope that has closed has no cutoff
\* left to make.
LEMMA EarnedStep ==
  ASSUME HostTaskInv, EarnedInv, [TaskNext]_allVars
  PROVE  EarnedInv'
<1>1. \A answer \in answers : answer.result = "report" => pc = "clean" /\ handle # "held"
  BY DEF HostTaskInv, OneDiagnosis, OwnerOutcome, HeldInv, Closing
<1>2. CASE UNCHANGED hostTaskVars
  BY <1>2 DEF hostTaskVars, EarnedInv
<1>3. CASE RunForever \/ StopsObserving \/ DropTask
  BY <1>3 DEF RunForever, StopsObserving, DropTask, EarnedInv
<1>4. ASSUME NEW mode, Shutdown(mode)
      PROVE  EarnedInv'
  BY <1>1, <1>4 DEF Shutdown, HostShutsDown, EarnedInv
<1>5. CASE CallReturns
  <2>1. /\ call' # "shutdown" /\ cutoff' = cutoff
        /\ answers' = answers \cup {[call |-> call, result |-> Answered]}
    BY <1>5 DEF CallReturns
  <2>2. ASSUME Answered = "report"
        PROVE  call = "shutdown" /\ cutoff = "made"
    <3>1. pc = "clean"
      BY <1>5, <2>2 DEF CallReturns, Answered, Observed, OwnerOutcome, Ready, HostTaskInv,
         CompletionInv, OwnerEnded
    <3>2. handle # "held" /\ cutoff # "refused"
      BY <3>1 DEF HostTaskInv, HeldInv, Closing, RefusedInv
    <3> QED
      BY <1>5, <3>2 DEF CallReturns, HostTaskInv, HostTaskTypeOK, CompletionInv, EarnedInv
  <2> QED
    BY <2>1, <2>2 DEF EarnedInv
<1> QED
  BY <1>2, <1>3, <1>4, <1>5 DEF TaskNext, HostTask, allVars

\* The live scope under its RuntimeTask keeps every invariant of LivePromises,
\* and the strengthening behind the answers holds.
THEOREM HostTaskInvariant == TaskSpec => [](PromiseInv /\ HostTaskInv /\ EarnedInv)
<1>1. TaskInit => PromiseInv /\ HostTaskInv /\ EarnedInv
  BY HostTaskStart, PromiseInit DEF TaskInit, HostTaskInit, EarnedInv
<1>2. PromiseInv /\ HostTaskInv /\ EarnedInv /\ [TaskNext]_allVars =>
        PromiseInv' /\ HostTaskInv' /\ EarnedInv'
  BY TaskStepsAreLive, PromiseStep, HostTaskStep, EarnedStep DEF PromiseInv
<1> QED
  BY <1>1, <1>2, PTL DEF TaskSpec

\* A live scope whose host acts through its RuntimeTask behaves as LiveRuntime
\* has it, where the host acts in any order: whatever is promised of a scope,
\* token, waiting Request and report is promised of the one a RuntimeTask drives.
THEOREM HostTaskImplementsHost == TaskSpec => Spec
<1>1. TaskInit => Init
  BY DEF TaskInit
<1> QED
  BY <1>1, TaskStepsAreLive, PTL DEF TaskSpec, Spec

\* RuntimeTask::await_completion: however often a host gives up, asks again
\* or shuts down, every answer is the owner's own end, and none comes before.
THEOREM OneDiagnosisHolds == TaskSpec => []OneDiagnosis
<1>1. HostTaskInv => OneDiagnosis
  BY DEF HostTaskInv
<1> QED
  BY <1>1, HostTaskInvariant, PTL

\* RuntimeTask::shutdown reports a clean close only when its own cutoff closed
\* the scope, and the report is true of what the scope owned.
THEOREM ReportsAreTrue == TaskSpec => []ReportIsEarned
<1>1. ASSUME PromiseInv, HostTaskInv, EarnedInv, NEW answer \in answers, answer.result = "report"
      PROVE  /\ cutoff = "made" /\ answer.call = "shutdown" /\ phase = "Closed"
             /\ AllJoined /\ queue = <<>> /\ \A h \in Asks : asks[h] # "waiting"
             /\ draining => open = {} /\ requests = {}
  <2>1. pc = "clean"
    BY <1>1 DEF HostTaskInv, OneDiagnosis, OwnerOutcome
  <2>2. /\ phase = "Closed" /\ AllJoined /\ queue = <<>> /\ requests = {}
        /\ draining => open = {}
    BY <1>1, <2>1 DEF PromiseInv, PhaseInv, LiveInv, EndInv, OwnerEnded, LedgerInv
  <2>3. Len(queue) = 0
    BY <2>2
  <2>4. \A h \in Asks : asks[h] # "waiting"
    BY <1>1, <2>1, <2>2, <2>3 DEF PromiseInv, LiveInv, WaiterInv
  <2> QED
    BY <1>1, <2>2, <2>4 DEF EarnedInv
<1>2. PromiseInv /\ HostTaskInv /\ EarnedInv => ReportIsEarned
  BY <1>1 DEF ReportIsEarned
<1> QED
  BY <1>2, HostTaskInvariant, PTL
==============================================================================
