------------------------------ MODULE LiveState ------------------------------
(***************************************************************************)
(* The state of one live runtime scope (LiveCore and the tasks around it,  *)
(* src/src/live_runtime.rs): the owner task's bookkeeping, the Source      *)
(* gates, the spawned Driver tasks and the host's handles.                 *)
(***************************************************************************)
EXTENDS LiveScope, Turn

CONSTANT Modes \* what the host may do to the RuntimeTask

ASSUME ModesAssumption == Modes \subseteq {"Drain", "Cancel", "Drop"}

SourceTask(g) == <<"run", g, 0>>
TaskId == {SourceTask(g) : g \in Generations} \cup EffectItem \cup TimerItem

\* LiveEvent: a Message carries any work; every other event its own kind.
Event ==
  [type : {"Message"}, item : Item, target : Components, terminal : BOOLEAN]
  \cup [type : {"SourceEvent"}, item : SourceItem, target : Components, terminal : BOOLEAN]
  \cup [type : {"EffectOutcome"}, item : EffectItem, target : Components, terminal : {FALSE}]
  \cup [type : {"TimerFired"}, item : TimerItem, target : Components, terminal : {FALSE}]
  \cup [type : {"PortNotification", "PortRequest"}, item : HostItem, target : Components,
        terminal : {FALSE}]
  \cup [type : {"Drain", "Cancel"}, item : {NoItem}, target : {0}, terminal : {FALSE}]
NoEvent == [type |-> "none", item |-> NoItem, target |-> 0, terminal |-> FALSE]

Message(item, target, terminal) ==
  [type |-> "Message", item |-> item, target |-> target, terminal |-> terminal]
EventOf(type, item, target) ==
  [type |-> type, item |-> item, target |-> target, terminal |-> FALSE]
ShutdownEvent(mode) == EventOf(mode, NoItem, 0)

VARIABLES
  \* The owner task: its position, the initialize loop, LiveCore::draining,
  \* the received event and the outer events a plan made of it.
  pc, cursor, draining, current, outer,
  \* The rest of each ActiveSource, and the gate it shares with its Driver.
  terminal_observed, drain_retained, gate,
  \* LiveCore::timers.
  timers,
  \* LiveCore::tasks and the tasks whose AbortHandle was used.
  task, aborted,
  \* The host: sends made, state of its Requests, and its RuntimeTask.
  ingress, asks, handle,
  \* History, read by properties only.
  open, stale, emitted, produced, delivered, finished, outcomes, mapped, late, failed_in_time

ownerVars == <<pc, cursor, draining, current, outer, turnVars, active>>
sourceVars == <<next_generation, realized, sources, running, terminal_observed,
                drain_retained, gate>>
workVars == <<effects, timers, requests, held, declared>>
taskVars == <<task, aborted>>
hostVars == <<ingress, asks, handle>>
deliveryHistory == <<stale, emitted, produced, delivered, finished>>
outcomeHistory == <<outcomes, mapped>>
history == <<open, deliveryHistory, outcomeHistory, late, failed_in_time>>
vars == <<scopeVars, ownerVars, sourceVars, workVars, taskVars, hostVars, history>>

OwnerEnded == {"clean", "faulted", "aborted", "panicked"}
OwnerPosition ==
  {"start", "initialize", "next_component", "committed", "reconcile", "apply", "change",
   "interpret", "issue", "loop", "select", "dispatch", "push", "cancel", "cancel_join",
   "cancel_stop", "fault", "cleanup", "joining"} \cup OwnerEnded

GateState == {"Active", "TerminalAccepted", "Stopped"}
TaskState == {"none", "running", "returning", "ok", "failed", "cancelled", "joined"}
TaskExited == {"ok", "failed", "cancelled"}

(***************************************************************************)
(* Types, by group of variables.                                           *)
(***************************************************************************)
ScopeTypeOK == phase \in ScopePhase /\ queue \in Seq(Event) /\ receiver \in BOOLEAN

OwnerTypeOK ==
  /\ pc \in OwnerPosition /\ cursor \in Nat \ {0} /\ draining \in BOOLEAN
  /\ current \in Event \cup {NoEvent} /\ outer \in Seq(BOOLEAN)

SourceTypeOK ==
  /\ next_generation \in 0 .. MaxGenerations
  /\ realized \in [Generations -> (Keys \cup {NoKey}) \X (Descriptors \cup {NoDescriptor})]
  /\ sources \subseteq Generations /\ running \subseteq Generations
  /\ terminal_observed \subseteq Generations /\ drain_retained \subseteq Generations
  /\ gate \in [Generations -> GateState]

WorkTypeOK ==
  /\ effects \subseteq EffectItem /\ timers \subseteq TimerItem
  /\ requests \subseteq Correlation /\ held \subseteq Correlation
  /\ declared \in 0 .. MaxDeclarations

TaskTypeOK == task \in [TaskId -> TaskState] /\ aborted \subseteq TaskId

HostTypeOK ==
  /\ ingress \in 0 .. HostSends
  /\ asks \in [Asks -> {"idle", "waiting", "replied", "dropped"}]
  /\ handle \in {"held", "awaiting", "dropped"}

HistoryTypeOK ==
  /\ open \subseteq Item /\ stale \subseteq Item
  /\ emitted \in [Generations -> Nat] /\ produced \in [Generations -> Nat]
  /\ delivered \in [Generations -> Nat]
  /\ finished \subseteq Generations
  /\ outcomes \subseteq EffectItem /\ mapped \in [Declared -> Nat]
  /\ late \in Nat /\ failed_in_time \subseteq TaskId

\* Type correctness of every variable of the live runtime scope: every event,
\* item and declaration in flight names work that the bounds allow.
TypeOK ==
  /\ ScopeTypeOK /\ OwnerTypeOK /\ TurnTypeOK /\ SourceTypeOK
  /\ WorkTypeOK /\ TaskTypeOK /\ HostTypeOK /\ HistoryTypeOK

Init ==
  /\ ScopeInit
  /\ TurnInit
  /\ pc = "start" /\ cursor = 1 /\ draining = FALSE /\ current = NoEvent /\ outer = <<>>
  /\ terminal_observed = {} /\ drain_retained = {}
  /\ gate = [g \in Generations |-> "Active"]
  /\ timers = {}
  /\ task = [t \in TaskId |-> "none"] /\ aborted = {}
  /\ ingress = 0 /\ asks = [h \in Asks |-> "idle"] /\ handle = "held"
  /\ open = {} /\ stale = {}
  /\ emitted = [g \in Generations |-> 0] /\ produced = [g \in Generations |-> 0]
  /\ delivered = [g \in Generations |-> 0] /\ finished = {}
  /\ outcomes = {} /\ mapped = [k \in Declared |-> 0]
  /\ late = 0 /\ failed_in_time = {}

-----------------------------------------------------------------------------
\* The ledger of work the scope took on: an item stays open until it is
\* delivered to a Component, mapped, superseded or discarded.
TakeOn(item) == open' = open \cup {item}
==============================================================================
