---------------------------- MODULE SourceDriver ----------------------------
(***************************************************************************)
(* What the runtime takes for granted of the Drivers of its Source         *)
(* realizations: the abstraction that LiveDrivers uses and first-party     *)
(* Drivers are shown to implement (SourceGate and spawn_owned,             *)
(* src/src/live_runtime.rs).                                               *)
(***************************************************************************)
EXTENDS Naturals

CONSTANT Realizations

VARIABLES
  open,    \* realizations whose scope accepts Source events
  gate,    \* "Active", "TerminalAccepted", "Stopped"
  task,    \* "none", "running", "ok", "failed", "cancelled"
  aborted, \* realizations whose task was aborted
  items,   \* items accepted so far
  ending   \* the terminal event accepted, or "none"

vars == <<open, gate, task, aborted, items, ending>>

Init ==
  /\ open = Realizations /\ aborted = {}
  /\ gate = [r \in Realizations |-> "Active"]
  /\ task = [r \in Realizations |-> "none"]
  /\ items = [r \in Realizations |-> 0]
  /\ ending = [r \in Realizations |-> "none"]

Admits(r) == r \in open /\ gate[r] = "Active"

AcceptsItem(r) ==
  /\ Admits(r)
  /\ items' = [items EXCEPT ![r] = @ + 1]
  /\ UNCHANGED <<gate, ending>>

AcceptsEnd(r, event) ==
  /\ Admits(r)
  /\ ending' = [ending EXCEPT ![r] = event]
  /\ gate' = [gate EXCEPT ![r] = "TerminalAccepted"]
  /\ UNCHANGED items

TaskGoes(r, state) ==
  /\ task' = [task EXCEPT ![r] = state]
  /\ UNCHANGED <<open, aborted>>

Starts(r) ==
  task[r] = "none" /\ TaskGoes(r, "running") /\ UNCHANGED <<gate, items, ending>>

Emits(r) ==
  /\ task[r] = "running"
  /\ AcceptsItem(r) \/ \E event \in {"Failed", "Ended"} : AcceptsEnd(r, event)
  /\ UNCHANGED <<open, task, aborted>>

\* A Driver that returns has ended its Source, if the gate still admits it.
Returns(r) ==
  /\ task[r] = "running"
  /\ IF Admits(r) THEN \E event \in {"Failed", "Ended"} : AcceptsEnd(r, event)
                  ELSE UNCHANGED <<gate, items, ending>>
  /\ TaskGoes(r, "ok")

Fails(r) ==
  task[r] = "running" /\ TaskGoes(r, "failed") /\ UNCHANGED <<gate, items, ending>>

Dropped(r) ==
  /\ task[r] = "running" /\ r \in aborted
  /\ TaskGoes(r, "cancelled")
  /\ UNCHANGED <<gate, items, ending>>

\* The runtime stops gates, closes scopes and aborts tasks, in any order.
Interferes ==
  /\ \A r \in Realizations : gate'[r] \in {gate[r], "Stopped"}
  /\ gate' = [r \in Realizations |-> gate'[r]]
  /\ open' \subseteq open /\ aborted \subseteq aborted'
  /\ UNCHANGED <<task, items, ending>>

Next ==
  \/ \E r \in Realizations : Starts(r) \/ Emits(r) \/ Returns(r) \/ Fails(r) \/ Dropped(r)
  \/ Interferes

Spec == Init /\ [][Next]_vars

\* An aborted Driver task ends, one way or another.
AbortedTasksEnd ==
  \A r \in Realizations : r \in aborted /\ task[r] = "running" ~> task[r] # "running"
==============================================================================
