------------------------- MODULE SourceRealizations -------------------------
(***************************************************************************)
(* The surroundings of first-party Source Drivers: owners that realize and *)
(* stop Sources, each behind its gate, and the world that feeds them       *)
(* (src/src/live_runtime.rs).  LiveRuntime has the owner in full; here it  *)
(* is reduced to what a Driver meets, and there are several of them        *)
(* because standard input belongs to the process.                          *)
(***************************************************************************)
EXTENDS StdinLines

CONSTANTS
  MaxRuntimes, MaxRealizations, \* bounds: live runtimes, Source realizations
  Instances \* what is explored: a Driver binding with its own bounds

ASSUME InstancesAssumption ==
  /\ MaxRuntimes \in Nat \ {0} /\ MaxRealizations \in Nat
  /\ Instances \subseteq
       [binding : {"stdin", "mpsc", "tcp"}, runtimes : 1 .. MaxRuntimes,
        realizations : 1 .. MaxRealizations, input : Nat, bytes : SUBSET Byte,
        fails : BOOLEAN]

Runtimes == 1 .. MaxRuntimes
Realizations == 1 .. MaxRealizations

VARIABLES
  instance,  \* the binding whose realizations are followed, and its bounds
  realized,  \* realizations so far
  runtime,   \* the runtime each belongs to
  owner,     \* "open", "closed" once the scope accepts no Source event,
             \* "dropped" when the owner task was aborted
  stopping,  \* the realization whose stop hook the owner is running, or 0
  gate, hook, task, aborted,
  input, ended, position,  \* what the world wrote, and how much was read
  taken, accepted          \* history: read by, and accepted from, each

ownerVars == <<instance, realized, runtime, owner, stopping>>
worldVars == <<input, ended, position>>
realizationVars == <<gate, hook, task, aborted, taken, accepted>>

Exited == {"ok", "failed", "cancelled"}
TaskState == {"none", "refused", "connecting", "running", "leaving", "broken", "dropping"}
             \cup Exited

RealizationTypeOK ==
  /\ instance \in Instances
  /\ realized \in 0 .. MaxRealizations
  /\ runtime \in [Realizations -> Runtimes \cup {0}]
  /\ owner \in [Runtimes -> {"open", "closed", "dropped"}]
  /\ stopping \in [Runtimes -> Realizations \cup {0}]
  /\ gate \in [Realizations -> {"Active", "TerminalAccepted", "Stopped"}]
  /\ hook \in [Realizations -> BOOLEAN]
  /\ task \in [Realizations -> TaskState]
  /\ aborted \subseteq Realizations

RealizationInit ==
  /\ instance \in Instances
  /\ realized = 0
  /\ runtime = [r \in Realizations |-> 0]
  /\ owner = [rt \in Runtimes |-> "open"]
  /\ stopping = [rt \in Runtimes |-> 0]
  /\ gate = [r \in Realizations |-> "Active"]
  /\ hook = [r \in Realizations |-> FALSE]
  /\ task = [r \in Realizations |-> "none"]
  /\ aborted = {}
  /\ input = <<>> /\ ended = FALSE /\ position = 0
  /\ taken = [r \in Realizations |-> <<>>]
  /\ accepted = [r \in Realizations |-> <<>>]

-----------------------------------------------------------------------------
\* SourceGate::accept and LiveScope::accept_source under it; DriverStopped
\* when it refuses.
Admits(r) == gate[r] = "Active" /\ owner[runtime[r]] = "open"

Offer(r, event) ==
  /\ accepted' = IF Admits(r) THEN [accepted EXCEPT ![r] = Append(@, event)] ELSE accepted
  /\ gate' = IF Admits(r) /\ IsTerminal(event)
             THEN [gate EXCEPT ![r] = "TerminalAccepted"] ELSE gate

\* activate_source: the binding runs on the owner, then its future is spawned.
Realize(rt, state, hooked) ==
  /\ owner[rt] = "open" /\ stopping[rt] = 0
  /\ rt <= instance.runtimes /\ realized < instance.realizations
  /\ realized' = realized + 1
  /\ runtime' = [runtime EXCEPT ![realized'] = rt]
  /\ task' = [task EXCEPT ![realized'] = state]
  /\ hook' = [hook EXCEPT ![realized'] = hooked]
  /\ UNCHANGED <<instance, owner, stopping, gate, aborted, worldVars, taken, accepted>>

(***************************************************************************)
(* SourceGate::stop on the owner: a removal, a replacement, a handled end  *)
(* or cleanup.  It runs the stop hook, if there is one, and then aborts    *)
(* the task.  A gate may be stopped again, which changes nothing.          *)
(***************************************************************************)
StopGate(rt, r) ==
  /\ owner[rt] # "dropped" /\ stopping[rt] = 0
  /\ runtime[r] = rt /\ gate[r] # "Stopped"
  /\ gate' = [gate EXCEPT ![r] = "Stopped"]
  /\ hook' = [hook EXCEPT ![r] = FALSE]
  /\ IF hook[r] THEN stopping' = [stopping EXCEPT ![rt] = r] /\ aborted' = aborted
                ELSE aborted' = aborted \cup {r} /\ stopping' = stopping
  /\ UNCHANGED <<instance, realized, runtime, owner, worldVars, task, taken, accepted>>

\* Drain, Cancel or a fault: the scope accepts no further Source event.
CloseScope(rt) ==
  /\ owner[rt] = "open"
  /\ owner' = [owner EXCEPT ![rt] = "closed"]
  /\ UNCHANGED <<instance, realized, runtime, stopping, worldVars, realizationVars>>

\* The owner is aborted at an await: its tasks are aborted, no gate is stopped.
DropOwner(rt) ==
  /\ owner[rt] # "dropped" /\ stopping[rt] = 0
  /\ owner' = [owner EXCEPT ![rt] = "dropped"]
  /\ aborted' = aborted \cup {r \in Realizations : runtime[r] = rt}
  /\ UNCHANGED <<instance, realized, runtime, stopping, worldVars, gate, hook, task, taken,
                 accepted>>

\* The future of a binding that could not start returns its error.
RefusalReturned(r) ==
  /\ task[r] = "refused"
  /\ task' = [task EXCEPT ![r] = "failed"]
  /\ UNCHANGED <<ownerVars, worldVars, gate, hook, aborted, taken, accepted>>

\* A future that owns no reader is dropped at an await, or unpolled.
DroppedAtAwait(r) ==
  /\ r \in aborted
  /\ \/ task[r] \in {"refused", "connecting"}
     \/ instance.binding # "stdin" /\ task[r] = "running"
  /\ task' = [task EXCEPT ![r] = "cancelled"]
  /\ UNCHANGED <<ownerVars, worldVars, gate, hook, aborted, taken, accepted>>

WorldWrites(byte) ==
  /\ instance.binding \in {"stdin", "mpsc"}
  /\ ~ended /\ Len(input) < instance.input
  /\ input' = Append(input, byte)
  /\ UNCHANGED <<ownerVars, ended, position, realizationVars>>

WorldEnds ==
  /\ instance.binding \in {"stdin", "mpsc"}
  /\ ~ended
  /\ ended' = TRUE
  /\ UNCHANGED <<ownerVars, input, position, realizationVars>>

Surroundings ==
  \/ \E rt \in Runtimes, r \in Realizations : StopGate(rt, r)
  \/ \E rt \in Runtimes : CloseScope(rt) \/ DropOwner(rt)
  \/ \E r \in Realizations : RefusalReturned(r) \/ DroppedAtAwait(r)
  \/ \E byte \in instance.bytes : WorldWrites(byte)
  \/ WorldEnds
==============================================================================
