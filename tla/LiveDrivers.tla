----------------------------- MODULE LiveDrivers -----------------------------
(***************************************************************************)
(* What runs beside the owner: Source Driver tasks behind their gates,     *)
(* effect and timer tasks (src/src/live_runtime.rs).  Task abort is a      *)
(* request: an aborted task may still run until it next awaits, so every   *)
(* action below stays possible after it.                                   *)
(***************************************************************************)
EXTENDS LiveState

SourceEvent(g, n, terminal) ==
  [type |-> "SourceEvent", item |-> <<"source", g, n>>, target |-> KeyOf(g)[1],
   terminal |-> terminal]

\* Wrong variant: a terminal event leaves the gate Active.
GateStaysActive(terminal) == "Active"

GateAdmits(g) == gate[g] = "Active" /\ SourcesOpen

GateAfter(terminal) == IF terminal THEN "TerminalAccepted" ELSE "Active"

(***************************************************************************)
(* SourceGate::accept holds the gate's lock across LiveScope's: the event  *)
(* is sent and the gate closes behind a terminal event in one step.  A     *)
(* refusal (DriverStopped) changes nothing.                                *)
(***************************************************************************)
GateAccept(g, terminal) ==
  LET n == emitted[g] + 1
  IN  /\ GateAdmits(g)
      /\ AcceptSource(SourceEvent(g, n, terminal))
      /\ gate' = [gate EXCEPT ![g] = GateAfter(terminal)]
      /\ emitted' = [emitted EXCEPT ![g] = n]
      /\ open' = open \cup {<<"source", g, n>>}

(***************************************************************************)
(* A Driver emits an item, ends or fails through its sink and keeps        *)
(* running: it may try again after a terminal event was accepted.          *)
(***************************************************************************)
SourceEmits(g, terminal) ==
  /\ task[SourceTask(g)] = "running"
  /\ emitted[g] < IF terminal THEN MaxItems + 1 ELSE MaxItems
  /\ GateAccept(g, terminal)
  /\ UNCHANGED <<ownerVars, next_generation, realized, sources, running, terminal_observed,
                 drain_retained, workVars, taskVars, hostVars, stale, produced, delivered,
                 finished, outcomeHistory, late, failed_in_time>>

(***************************************************************************)
(* The Driver's future returns: the binding offers an implicit Ended and   *)
(* ignores a refusal.  Nothing awaits between the two.                     *)
(***************************************************************************)
SourceReturns(g) ==
  /\ task[SourceTask(g)] = "running"
  /\ IF GateAdmits(g) THEN GateAccept(g, TRUE)
                      ELSE UNCHANGED <<scopeVars, gate, emitted, open>>
  /\ task' = [task EXCEPT ![SourceTask(g)] = "ok"]
  /\ UNCHANGED <<ownerVars, next_generation, realized, sources, running, terminal_observed,
                 drain_retained, workVars, aborted, hostVars, stale, produced, delivered,
                 finished, outcomeHistory, late, failed_in_time>>

\* execute returned: its outcome is offered before the task returns.
EffectCompletes(e) ==
  /\ task[e] = "running"
  /\ AcceptFinite(EventOf("EffectOutcome", e, e[3]))
  /\ outcomes' = IF FiniteOpen THEN outcomes \cup {e} ELSE outcomes
  /\ task' = [task EXCEPT ![e] = "returning"]
  /\ UNCHANGED <<ownerVars, sourceVars, workVars, aborted, hostVars, open, deliveryHistory,
                 mapped, late, failed_in_time>>

\* The sleep ended: its Message is offered before the task returns.
TimerElapses(t) ==
  /\ task[t] = "running"
  /\ AcceptFinite(EventOf("TimerFired", t, t[3]))
  /\ task' = [task EXCEPT ![t] = "returning"]
  /\ UNCHANGED <<ownerVars, sourceVars, workVars, aborted, hostVars, history>>

\* Nothing awaits after the send, so an abort no longer reaches this task.
TaskReturns(t) ==
  /\ task[t] = "returning"
  /\ task' = [task EXCEPT ![t] = "ok"]
  /\ UNCHANGED <<scopeVars, ownerVars, sourceVars, workVars, aborted, hostVars, history>>

(***************************************************************************)
(* A Driver panics (spawn_owned catches it) or a Source binding returns    *)
(* Err, as the one-shot mpsc binding does on its second activation.        *)
(***************************************************************************)
DriverFails(t) ==
  /\ "driver" \in Mishaps
  /\ t \notin TimerItem
  /\ task[t] = "running"
  /\ task' = [task EXCEPT ![t] = "failed"]
  /\ failed_in_time' = IF phase \in {"Running", "Draining"}
                       THEN failed_in_time \cup {t} ELSE failed_in_time
  /\ UNCHANGED <<scopeVars, ownerVars, sourceVars, workVars, aborted, hostVars, open,
                 deliveryHistory, outcomeHistory, late>>

\* An aborted task is dropped at an await point.
TaskCancelled(t) ==
  /\ t \in aborted
  /\ task[t] = "running"
  /\ task' = [task EXCEPT ![t] = "cancelled"]
  /\ UNCHANGED <<scopeVars, ownerVars, sourceVars, workVars, aborted, hostVars, history>>

Drivers ==
  \/ \E g \in Generations, terminal \in BOOLEAN : SourceEmits(g, terminal)
  \/ \E g \in Generations : SourceReturns(g)
  \/ \E e \in EffectItem : EffectCompletes(e)
  \/ \E t \in TimerItem : TimerElapses(t)
  \/ \E t \in EffectItem \cup TimerItem : TaskReturns(t)
  \/ \E t \in TaskId : DriverFails(t)
  \/ \E t \in TaskId : TaskCancelled(t)
==============================================================================
