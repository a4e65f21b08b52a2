----------------------------- MODULE LiveRuntime -----------------------------
(***************************************************************************)
(* One live runtime scope, from LiveRuntime::spawn to its end: the owner   *)
(* task, the Driver tasks and the host, interleaved at the scope's mutex   *)
(* (src/src/live_runtime.rs, src/src/lib.rs).                              *)
(***************************************************************************)
EXTENDS LiveOwner

\* ComponentHandle::send and PortHandle::notify, when they return Ok.
HostSendsEvent(type, target) ==
  LET item == <<"ingress", ingress + 1, 0>>
  IN  /\ ingress < HostSends
      /\ AcceptIngress(EventOf(type, item, target))
      /\ ingress' = ingress + 1
      /\ open' = open \cup {item}
      /\ UNCHANGED <<ownerVars, sourceVars, workVars, taskVars, asks, handle, deliveryHistory,
                     outcomeHistory, late, failed_in_time>>

\* PortHandle::request: admitted, then awaits its oneshot.
HostAsks(h) ==
  /\ asks[h] = "idle"
  /\ AcceptIngress(EventOf("PortRequest", AskItem(h), Provider))
  /\ asks' = [asks EXCEPT ![h] = "waiting"]
  /\ open' = open \cup {AskItem(h)}
  /\ UNCHANGED <<ownerVars, sourceVars, workVars, taskVars, ingress, handle, deliveryHistory,
                 outcomeHistory, late, failed_in_time>>

\* RuntimeTask::shutdown: the cutoff, then the host awaits the owner.
HostShutsDown(mode) ==
  /\ mode \in Modes
  /\ handle = "held"
  /\ BeginShutdown(mode, ShutdownEvent(mode))
  /\ handle' = "awaiting"
  /\ UNCHANGED <<ownerVars, sourceVars, workVars, taskVars, ingress, asks, history>>

(***************************************************************************)
(* Drop for RuntimeTask, also of one moved into a shutdown future that is  *)
(* dropped: Cancel's cutoff unless one was made, then abort of the owner.  *)
(***************************************************************************)
HostDropsTask ==
  /\ "Drop" \in Modes
  /\ handle \in {"held", "awaiting"}
  /\ BeginShutdown("Cancel", ShutdownEvent("Cancel"))
  /\ handle' = "dropped"
  /\ UNCHANGED <<ownerVars, sourceVars, workVars, taskVars, ingress, asks, history>>

\* The abort takes effect where the owner awaits, or before its first poll.
OwnerAborted ==
  /\ handle = "dropped"
  /\ pc \in {"start", "select", "joining"}
  /\ DropCore("aborted")

Host ==
  \/ \E c \in Components : HostSendsEvent("Message", c)
  \/ HostSendsEvent("PortNotification", Provider)
  \/ \E h \in Asks : HostAsks(h)
  \/ \E mode \in {"Drain", "Cancel"} : HostShutsDown(mode)
  \/ HostDropsTask

Owner ==
  \/ Start \/ Initialize \/ NextComponent
  \/ Committed \/ Reconcile \/ Apply \/ Change \/ Interpret \/ Issue
  \/ Loop \/ FinishDrain \/ JoinTask \/ Receive
  \/ DiscardStale \/ Transition \/ IgnoreSourceEvent \/ MapSourceEvent \/ PushMapped
  \/ ProcessEffect \/ ProcessPortIngress \/ DispatchMarker \/ DispatchPanics
  \/ RetainOutcomes \/ JoinBeforeCancel \/ StopBeforeCancel
  \/ FaultScope \/ CleanupAbort \/ FinishCleanup

Next == Host \/ OwnerAborted \/ Owner \/ Drivers

Spec == Init /\ [][Next]_vars

(***************************************************************************)
(* Fairness.  The owner is one Tokio task and keeps being polled while it  *)
(* is ready; effects and sleeps are assumed to end, and aborted tasks to   *)
(* be dropped at an await.  Hosts, open Sources and failures owe nothing.  *)
(***************************************************************************)
Fairness ==
  /\ WF_vars(Owner)
  /\ WF_vars(OwnerAborted)
  /\ \A e \in EffectItem : WF_vars(EffectCompletes(e))
  /\ \A t \in TimerItem : WF_vars(TimerElapses(t))
  /\ \A t \in EffectItem \cup TimerItem : WF_vars(TaskReturns(t))
  /\ \A t \in TaskId : WF_vars(TaskCancelled(t))

FairSpec == Spec /\ Fairness
==============================================================================
