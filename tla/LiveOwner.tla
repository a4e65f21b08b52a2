------------------------------ MODULE LiveOwner ------------------------------
(***************************************************************************)
(* The rest of LiveCore (src/src/live_runtime.rs): the interpretation of   *)
(* one declaration, the event loop, and the ways it ends.                  *)
(***************************************************************************)
EXTENDS LiveTurn

\* How many pieces of application work were started after Cancel began.
DriveLate == late' = IF phase = "Cancelling" THEN late + 1 ELSE late

(***************************************************************************)
(* LiveCore is dropped by an abort or an unwinding panic of the owner:     *)
(* the receiver goes, the JoinSet aborts its tasks, every completion is    *)
(* dropped.  No stop hook runs and the scope's phase stays.                *)
(***************************************************************************)
Unfinished == {t \in TaskId : task[t] = "running"}
WakeWaiters(S) == asks' = [h \in Asks |->
  IF asks[h] = "waiting" /\ AskItem(h) \in S THEN "dropped" ELSE asks[h]]

DropCore(end) ==
  /\ pc' = end
  /\ receiver' = FALSE /\ queue' = <<>>
  /\ sources' = {} /\ running' = {} /\ effects' = {} /\ timers' = {} /\ requests' = {}
  /\ changes' = {} /\ commands' = <<>> /\ held' = {}
  /\ aborted' = aborted \cup Unfinished
  /\ WakeWaiters(HostItem)
  /\ UNCHANGED <<phase, cursor, draining, current, outer, component, desired, duplicate, active,
                 next_generation, realized, terminal_observed, drain_retained, gate, declared,
                 task, ingress, handle, history>>

-----------------------------------------------------------------------------
(***************************************************************************)
(* interpret_command, one declaration.  Only the event admitted, if any,   *)
(* needs the scope again; a refusal is ignored.                            *)
(***************************************************************************)
Issuing(kinds) == pc = "issue" /\ Head(commands).kind \in kinds

IssueFrame ==
  /\ commands' = Tail(commands)
  /\ declared' = declared + 1
  /\ DriveLate
  /\ UNCHANGED <<cursor, draining, current, outer, component, desired, duplicate, changes, active,
                 sourceVars, held, aborted, ingress, handle, deliveryHistory, outcomeHistory,
                 failed_in_time>>

IssueEffect ==
  /\ Issuing({"effect", "discard"})
  /\ LET e == NewItem(Head(commands).kind)
     IN  /\ task' = [task EXCEPT ![e] = "running"]
         /\ effects' = effects \cup {e}
         /\ TakeOn(e)
  /\ Goto("interpret")
  /\ IssueFrame
  /\ UNCHANGED <<scopeVars, timers, requests, asks>>

IssueAfter ==
  /\ Issuing({"after"})
  /\ LET t == NewItem("after")
     IN  /\ task' = [task EXCEPT ![t] = "running"]
         /\ timers' = timers \cup {t}
         /\ TakeOn(t)
  /\ Goto("interpret")
  /\ IssueFrame
  /\ UNCHANGED <<scopeVars, effects, requests, asks>>

\* Send goes to its target, Notify to the provider its Port is bound to.
IssueSend ==
  /\ Issuing({"send", "notify"})
  /\ LET d == Head(commands)
         item == NewItem("send")
     IN  /\ AcceptFinite(Message(item, IF d.kind = "send" THEN d.target ELSE Provider, FALSE))
         /\ TakeOn(item)
  /\ Goto("interpret")
  /\ IssueFrame
  /\ UNCHANGED <<effects, timers, requests, task, asks>>

\* Wrong variant: a Request is sent without being recorded.
Unrecorded(corr) == requests

Outstanding(corr) == requests \cup corr

IssueRequest ==
  /\ Issuing({"request"})
  /\ LET c == NewItem("request")
     IN  /\ requests' = Outstanding({c})
         /\ AcceptFinite(Message(c, Provider, FALSE))
         /\ TakeOn(c)
  /\ Goto("interpret")
  /\ IssueFrame
  /\ UNCHANGED <<effects, timers, task, asks>>

\* Wrong variant: the Request stays outstanding after it was replied to.
RequestStays(token) == requests

RequestsAfterReply(token) == requests \ {token}

(***************************************************************************)
(* The Request is removed first; its continuation is a mapper of the       *)
(* requesting Component or the host's oneshot.                             *)
(***************************************************************************)
IssueReply ==
  /\ Issuing({"reply"})
  /\ LET token == Head(commands).token
     IN  /\ requests' = RequestsAfterReply(token)
         /\ IF token \notin requests
            THEN Goto("fault") /\ UNCHANGED <<scopeVars, open, asks>>
            ELSE IF Kind(token) = "ask"
            THEN /\ asks' = [asks EXCEPT ![token[2]] = "replied"]
                 /\ Goto("interpret") /\ UNCHANGED <<scopeVars, open>>
            ELSE /\ UNCHANGED asks
                 /\ \/ /\ AcceptFinite(Message(NewItem("reply"), OwnerOf(token), FALSE))
                       /\ TakeOn(NewItem("reply"))
                       /\ Goto("interpret")
                    \/ /\ Mishap("mapper")
                       /\ Goto("fault") /\ UNCHANGED <<scopeVars, open>>
  /\ IssueFrame
  /\ UNCHANGED <<effects, timers, task>>

\* A declaration with a foreign or missing capability faults the scope.
IssueRefused ==
  /\ Issuing({"effect", "discard", "send", "notify", "request"})
  /\ Mishap("foreign")
  /\ Goto("fault")
  /\ IssueFrame
  /\ UNCHANGED <<scopeVars, effects, timers, requests, task, asks, open>>

\* The provider's conversion of a Component's Notify or Request is called
\* outside catch_unwind: its panic unwinds the owner task itself.
ConversionUnwinds ==
  /\ Issuing({"notify", "request"})
  /\ Mishap("conversion")
  /\ DropCore("panicked")

Issue ==
  \/ IssueEffect
  \/ IssueAfter
  \/ IssueSend
  \/ IssueRequest
  \/ IssueReply
  \/ IssueRefused
  \/ ConversionUnwinds

-----------------------------------------------------------------------------
(***************************************************************************)
(* task_fault: an effect's failure always faults the scope; a Source's     *)
(* only while its generation is current and not yet ended.                 *)
(***************************************************************************)
\* Wrong variant: a Source stopped by Drain cannot fault the scope any more.
SourceFaultsWhileRunning(g) == StampIsCurrent(g) /\ g \in running

SourceFaultRelevant(g) ==
  /\ StampIsCurrent(g)
  /\ g \in running \/ (g \in drain_retained /\ g \notin terminal_observed)

TaskFaults(t) ==
  /\ task[t] = "failed"
  /\ Kind(t) = "run" => SourceFaultRelevant(t[2])

\* Wrong variant: events a joined task left in the channel are ignored.
DrainFinishedUnread ==
  draining /\ effects = {} /\ requests = {} /\ timers = {}
  /\ \A t \in TaskId : task[t] \in {"none", "joined"}

AllJoined == \A t \in TaskId : task[t] \in {"none", "joined"}

DrainFinished ==
  draining /\ effects = {} /\ requests = {} /\ timers = {} /\ queue = <<>> /\ AllJoined

\* The top of run's loop: Cancel first, then the Drain cutoff.  The locals of
\* the last turn, with whatever Cancel left of them, are gone.
Loop ==
  /\ pc = "loop"
  /\ IF CancelSeen
     THEN Goto("cancel") /\ UNCHANGED <<draining, sourceVars, taskVars>>
     ELSE ObserveDrainCutoff("select")
  /\ current' = NoEvent /\ outer' = <<>>
  /\ component' = 0 /\ desired' = [s \in Subscriptions |-> NoDescriptor]
  /\ duplicate' = FALSE /\ changes' = {} /\ commands' = <<>>
  /\ UNCHANGED <<scopeVars, cursor, active, workVars, hostVars, history>>

(***************************************************************************)
(* drain_finished is evaluated before the select; nothing but the owner    *)
(* can make it true, so it is read here.  Closing the scope and dropping   *)
(* LiveCore follow without another await.                                  *)
(***************************************************************************)
FinishDrain ==
  /\ pc = "select"
  /\ DrainFinished
  /\ Goto("clean")
  /\ ScopeClose /\ receiver' = FALSE
  /\ sources' = {} /\ running' = {}
  /\ UNCHANGED <<queue, cursor, draining, current, outer, turnVars, active, next_generation,
                 realized, terminal_observed, drain_retained, gate, workVars, taskVars, hostVars,
                 history>>

(***************************************************************************)
(* The select polls join_next before recv, but a task may finish between   *)
(* the two polls, so both stay possible.                                   *)
(***************************************************************************)
JoinTask ==
  /\ pc = "select"
  /\ ~DrainFinished
  /\ \E t \in TaskId :
       /\ task[t] \in TaskExited
       /\ task' = [task EXCEPT ![t] = "joined"]
       /\ Goto(IF TaskFaults(t) THEN "fault" ELSE "loop")
  /\ UNCHANGED <<scopeVars, cursor, draining, current, outer, turnVars, active, sourceVars,
                 workVars, aborted, hostVars, history>>

\* Wrong variant: a draining owner only waits for its tasks.
ReceiveUntilDrain ==
  /\ pc = "select" /\ ~draining /\ queue # <<>>
  /\ current' = Head(queue) /\ queue' = Tail(queue)
  /\ Goto(IF CancelSeen THEN "cancel" ELSE "dispatch")
  /\ UNCHANGED <<phase, receiver, cursor, draining, outer, turnVars, active, sourceVars, workVars,
                 taskVars, hostVars, history>>

\* An event is received; Cancel is read again before it is dispatched.
Receive ==
  /\ pc = "select"
  /\ ~DrainFinished
  /\ queue # <<>>
  /\ current' = Head(queue)
  /\ queue' = Tail(queue)
  /\ Goto(IF CancelSeen THEN "cancel" ELSE "dispatch")
  /\ UNCHANGED <<phase, receiver, cursor, draining, outer, turnVars, active, sourceVars, workVars,
                 taskVars, hostVars, history>>

-----------------------------------------------------------------------------
(***************************************************************************)
(* process_message: drop a stale stamped Message, else run the transition. *)
(* Its Model has committed when the turn begins.                           *)
(***************************************************************************)
Dispatching(types) == pc = "dispatch" /\ current.type \in types

DiscardStale ==
  /\ Dispatching({"Message"})
  /\ IsFrame(current.item) /\ ~StampIsCurrent(current.item[2])
  /\ open' = open \ {current.item}
  /\ stale' = stale \cup {current.item}
  /\ Goto("loop")
  /\ UNCHANGED <<scopeVars, cursor, draining, current, outer, turnVars, active, sourceVars,
                 workVars, taskVars, hostVars, emitted, produced, delivered, finished,
                 outcomeHistory, late, failed_in_time>>

Deliver(item, terminal) ==
  /\ delivered' = IF IsFrame(item) THEN [delivered EXCEPT ![item[2]] = item[3]] ELSE delivered
  /\ finished' = IF IsFrame(item) /\ terminal THEN finished \cup {item[2]} ELSE finished

Transition ==
  /\ Dispatching({"Message", "TimerFired"})
  /\ current.type = "TimerFired" => current.item \in timers
  /\ IsFrame(current.item) => StampIsCurrent(current.item[2])
  /\ timers' = timers \ {current.item}
  /\ open' = open \ {current.item}
  /\ Deliver(current.item, current.terminal)
  /\ DriveLate
  /\ \/ Project(current.target, HeldWith(current.item)) /\ Goto("committed")
     \/ Mishap("transition") /\ Goto("fault") /\ UNCHANGED <<turnVars, held>>
  /\ UNCHANGED <<scopeVars, cursor, draining, current, outer, active, sourceVars, effects,
                 requests, declared, taskVars, hostVars, stale, emitted, produced, outcomeHistory,
                 failed_in_time>>

(***************************************************************************)
(* process_source_event: the plan's Layers make outer events of a relevant *)
(* event and the retained-latest mapper one stamped Message of each; these *)
(* are then sent one by one.                                               *)
(***************************************************************************)
\* Wrong variant: events behind a terminal one are still mapped.
AcceptsAfterTerminal(g) == StampIsCurrent(g) /\ (g \in running \/ g \in drain_retained)

SourceEventRelevant(g) ==
  /\ StampIsCurrent(g)
  /\ g \notin terminal_observed
  /\ g \in running \/ g \in drain_retained

IgnoreSourceEvent ==
  /\ Dispatching({"SourceEvent"})
  /\ ~SourceEventRelevant(current.item[2])
  /\ open' = open \ {current.item}
  /\ stale' = stale \cup {current.item}
  /\ Goto("loop")
  /\ UNCHANGED <<scopeVars, cursor, draining, current, outer, turnVars, active, sourceVars,
                 workVars, taskVars, hostVars, emitted, produced, delivered, finished,
                 outcomeHistory, late, failed_in_time>>

\* A terminal event closes the entry and, unless Drain retains it, its gate.
ObserveTerminal(g) ==
  /\ terminal_observed' = terminal_observed \cup {g}
  /\ running' = running \ {g}
  /\ IF g \in drain_retained THEN UNCHANGED <<gate, aborted>> ELSE StopSources({g})

\* What the plan may make of the event, within the bound on a Source's frames.
Outputs(g, raw_terminal) ==
  {output \in PlanOutputs[raw_terminal] : produced[g] + Len(output) <= MaxFrames}

Sending(output) == Goto(IF output = <<>> THEN "loop" ELSE "push")

MapSourceEvent ==
  /\ Dispatching({"SourceEvent"})
  /\ SourceEventRelevant(current.item[2])
  /\ LET g == current.item[2] IN
     \E output \in Outputs(g, current.terminal) :
       LET terminal == EndsSource(current.terminal, output)
       IN  /\ IF terminal
              THEN ObserveTerminal(g)
              ELSE UNCHANGED <<terminal_observed, running, gate, aborted>>
           /\ outer' = output
           /\ \/ Sending(output)
              \/ terminal /\ g \notin drain_retained /\ HookMayFail(g) /\ Goto("fault")
  /\ open' = open \ {current.item}
  /\ UNCHANGED <<scopeVars, cursor, draining, current, turnVars, active, next_generation,
                 realized, sources, drain_retained, workVars, task, hostVars, deliveryHistory,
                 outcomeHistory, late, failed_in_time>>

NextFrame == <<"frame", current.item[2], produced[current.item[2]] + 1>>

\* One accept_finite of the Messages mapped.
PushMapped ==
  /\ pc = "push"
  /\ AcceptFinite(Message(NextFrame, current.target, Head(outer)))
  /\ produced' = [produced EXCEPT ![current.item[2]] = @ + 1]
  /\ TakeOn(NextFrame)
  /\ outer' = Tail(outer)
  /\ Sending(Tail(outer))
  /\ UNCHANGED <<cursor, draining, current, turnVars, active, sourceVars, workVars, taskVars,
                 hostVars, stale, emitted, delivered, finished, outcomeHistory, late,
                 failed_in_time>>

(***************************************************************************)
(* process_effect: the pending entry goes first, then the mapper runs      *)
(* once, if the declaration has one.                                       *)
(***************************************************************************)
\* Wrong variant: the pending entry survives its outcome.
EffectStays(e) == effects

EffectsAfter(e) == effects \ {e}

HasMapper(e) == Kind(e) = "effect" /\ e \in effects

TakeOutcome(e) ==
  /\ effects' = EffectsAfter(e)
  /\ mapped' = IF HasMapper(e) THEN [mapped EXCEPT ![e[2]] = @ + 1] ELSE mapped

OutcomeFrame ==
  UNCHANGED <<cursor, draining, outer, turnVars, active, sourceVars, timers, requests, held,
              declared, taskVars, ingress, handle, deliveryHistory, outcomes, late,
              failed_in_time>>

ProcessEffect ==
  /\ Dispatching({"EffectOutcome"})
  /\ TakeOutcome(current.item)
  /\ IF HasMapper(current.item)
     THEN AcceptFinite(Message(current.item, OwnerOf(current.item), FALSE)) /\ UNCHANGED open
     ELSE open' = open \ {current.item} /\ UNCHANGED scopeVars
  /\ Goto("loop")
  /\ UNCHANGED <<current, outer, asks>>
  /\ OutcomeFrame

\* process_port_ingress: convert for the provider and deliver as a Message.
\* A Request is outstanding first, and withdrawn when delivery is refused.
ProcessPortIngress ==
  /\ Dispatching({"PortNotification", "PortRequest"})
  /\ LET corr == {current.item} \cap Correlation
     IN  /\ AcceptFinite(Message(current.item, Provider, FALSE))
         /\ requests' = IF FiniteOpen THEN Outstanding(corr) ELSE requests
         /\ WakeWaiters(IF FiniteOpen THEN {} ELSE corr)
  /\ Goto("loop")
  /\ UNCHANGED <<cursor, draining, current, outer, turnVars, active, sourceVars, effects, timers,
                 held, declared, taskVars, ingress, handle, history>>

\* The queued markers: Drain may have been observed already.
DispatchMarker ==
  /\ Dispatching({"Drain", "Cancel"})
  /\ IF current.type = "Cancel"
     THEN Goto("cancel") /\ UNCHANGED <<draining, sourceVars, taskVars>>
     ELSE IF draining
     THEN Goto("loop") /\ UNCHANGED <<draining, sourceVars, taskVars>>
     ELSE BeginDrain("loop")
  /\ current' = NoEvent
  /\ UNCHANGED <<scopeVars, cursor, outer, turnVars, active, workVars, hostVars, history>>

\* A mapper, Layer or conversion the owner supervises panics.
DispatchPanics ==
  /\ Mishap("mapper")
  /\ \/ /\ Dispatching({"SourceEvent"}) /\ SourceEventRelevant(current.item[2])
        /\ UNCHANGED <<effects, requests, mapped>>
     \/ /\ Dispatching({"EffectOutcome"})
        /\ HasMapper(current.item)
        /\ TakeOutcome(current.item)
        /\ UNCHANGED requests
     \/ /\ Dispatching({"PortNotification", "PortRequest"})
        /\ requests' = Outstanding({current.item} \cap Correlation)
        /\ UNCHANGED <<effects, mapped>>
  /\ Goto("fault")
  /\ UNCHANGED <<scopeVars, cursor, draining, current, outer, turnVars, active, sourceVars,
                 timers, held, declared, taskVars, hostVars, open, deliveryHistory, outcomes,
                 late, failed_in_time>>

-----------------------------------------------------------------------------
(***************************************************************************)
(* finish_cancel: outcomes accepted before Cancel are mapped, everything   *)
(* else received is dropped, the popped event first.                       *)
(***************************************************************************)
\* Wrong variant: every queued event is dropped, outcomes included.
OwesNothing(event) == FALSE

OwesMapping(event) == event.type = "EffectOutcome"

\* The mapped Message itself is refused: the scope is cancelling.
Retain(event) ==
  IF OwesMapping(event)
  THEN /\ TakeOutcome(event.item)
       /\ open' = open \ {event.item}
       /\ UNCHANGED asks
       /\ \/ Goto("cancel")
          \/ Mishap("mapper") /\ HasMapper(event.item) /\ Goto("fault")
  ELSE /\ WakeWaiters(IF event.type = "PortRequest" THEN {event.item} ELSE {})
       /\ Goto("cancel")
       /\ UNCHANGED <<effects, open, mapped>>

RetainOutcomes ==
  /\ pc = "cancel"
  /\ \/ /\ current # NoEvent
        /\ Retain(current)
        /\ current' = NoEvent
        /\ UNCHANGED queue
     \/ /\ current = NoEvent /\ queue # <<>>
        /\ Retain(Head(queue))
        /\ queue' = Tail(queue)
        /\ UNCHANGED current
     \/ /\ current = NoEvent /\ queue = <<>>
        /\ Goto("cancel_join")
        /\ UNCHANGED <<queue, current, outer, effects, asks, open, mapped>>
  /\ UNCHANGED <<phase, receiver>>
  /\ OutcomeFrame

\* Wrong variant: Cancel goes straight to stopping and aborting.
CancelWithoutJoin ==
  /\ pc = "cancel_join"
  /\ Goto("cancel_stop")
  /\ UNCHANGED <<scopeVars, cursor, draining, current, outer, turnVars, active, sourceVars,
                 workVars, taskVars, hostVars, history>>

(***************************************************************************)
(* try_join_next: a fault already there is not hidden by Cancel.           *)
(***************************************************************************)
JoinBeforeCancel ==
  /\ pc = "cancel_join"
  /\ \/ \E t \in TaskId :
          /\ task[t] \in TaskExited
          /\ task' = [task EXCEPT ![t] = "joined"]
          /\ Goto(IF TaskFaults(t) THEN "fault" ELSE "cancel_join")
     \/ /\ \A t \in TaskId : task[t] \notin TaskExited
        /\ Goto("cancel_stop")
        /\ UNCHANGED task
  /\ UNCHANGED <<scopeVars, cursor, draining, current, outer, turnVars, active, sourceVars,
                 workVars, aborted, hostVars, history>>

\* Every Source is stopped, its hook observed, before anything is aborted.
StopBeforeCancel ==
  /\ pc = "cancel_stop"
  /\ \/ /\ StopSources(sources) /\ running' = {}
        /\ Goto("cleanup")
     \/ \E g \in sources : LET S == {h \in sources : h <= g} IN
        /\ HookMayFail(g)
        /\ StopSources(S) /\ running' = running \ S
        /\ Goto("fault")
  /\ UNCHANGED <<scopeVars, cursor, draining, current, outer, turnVars, active, next_generation,
                 realized, sources, terminal_observed, drain_retained, workVars, task, hostVars,
                 history>>

-----------------------------------------------------------------------------
\* Wrong variant: the first error leaves the scope's phase alone.
NoFault == UNCHANGED phase

RecordFault == ScopeFault

\* Every error of the owner first faults the scope, then cleans up.
FaultScope ==
  /\ pc = "fault"
  /\ RecordFault
  /\ Goto("cleanup")
  /\ UNCHANGED <<queue, receiver, cursor, draining, current, outer, turnVars, active, sourceVars,
                 workVars, taskVars, hostVars, history>>

\* cleanup_abort up to its await: gates, aborts, and the owner's lists.
CleanupAbort ==
  /\ pc = "cleanup"
  /\ gate' = Stopped(sources)
  /\ aborted' = aborted \cup Unfinished
  /\ sources' = {} /\ running' = {} /\ effects' = {} /\ timers' = {} /\ requests' = {}
  /\ WakeWaiters(requests)
  /\ Goto("joining")
  /\ UNCHANGED <<scopeVars, cursor, draining, current, outer, turnVars, active, next_generation,
                 realized, terminal_observed, drain_retained, held, declared, task, ingress,
                 handle, history>>

\* Wrong variant: the owner returns while aborted tasks are still running.
JoinNobody == TRUE

JoinedAll == \A t \in TaskId : task[t] \in {"none", "joined"} \cup TaskExited

(***************************************************************************)
(* cleanup_abort's end: every task joined, the channel emptied.  A cancel  *)
(* then closes the scope; a fault returns its error.  LiveCore and the     *)
(* turn in hand are dropped either way.                                    *)
(***************************************************************************)
FinishCleanup ==
  /\ pc = "joining"
  /\ JoinedAll
  /\ task' = [t \in TaskId |-> IF task[t] \in TaskExited THEN "joined" ELSE task[t]]
  /\ queue' = <<>> /\ receiver' = FALSE
  /\ WakeWaiters(HostItem)
  /\ changes' = {} /\ commands' = <<>> /\ held' = {}
  /\ IF phase = "Faulted"
     THEN Goto("faulted") /\ UNCHANGED phase
     ELSE Goto("clean") /\ ScopeClose
  /\ UNCHANGED <<cursor, draining, current, outer, component, desired, duplicate, active,
                 sourceVars, effects, timers, requests, declared, aborted, ingress, handle,
                 history>>
==============================================================================
