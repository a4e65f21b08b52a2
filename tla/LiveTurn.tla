------------------------------- MODULE LiveTurn -------------------------------
(***************************************************************************)
(* The owner's turn: what LiveCore does with a committed transition, and   *)
(* with each Component at initialization (src/src/live_runtime.rs,         *)
(* finish_transition, apply_subscription_changes, interpret_command and    *)
(* initialize).  The scope's mutex is taken between the pieces below, so   *)
(* host calls and Driver tasks interleave with every one of them.          *)
(***************************************************************************)
EXTENDS LiveDrivers

Goto(position) == pc' = position

-----------------------------------------------------------------------------
(***************************************************************************)
(* stop_source: gate.stop, abort, running = false.  The stop hook runs     *)
(* once, outside the gate's lock, and may fail; the rest is done anyway.   *)
(***************************************************************************)
Stopped(S) == [g \in Generations |-> IF g \in S THEN "Stopped" ELSE gate[g]]
HookMayFail(g) == Mishap("stop_hook") /\ gate[g] # "Stopped"

StopSources(S) ==
  /\ gate' = Stopped(S)
  /\ aborted' = aborted \cup {SourceTask(g) : g \in S}

RetainForDrain(S) == drain_retained \cup S

(***************************************************************************)
(* begin_drain stops the Sources in order and keeps their entries for the  *)
(* deliveries already accepted.  It gives up at the first failing hook.    *)
(***************************************************************************)
BeginDrain(next) ==
  /\ draining' = TRUE
  /\ \/ /\ StopSources(sources)
        /\ running' = {}
        /\ drain_retained' = RetainForDrain(sources)
        /\ Goto(next)
     \/ \E g \in sources :
          LET S == {h \in sources : h <= g}
          IN  /\ HookMayFail(g)
              /\ StopSources(S)
              /\ running' = running \ S
              /\ drain_retained' = RetainForDrain(S)
              /\ Goto("fault")
  /\ UNCHANGED <<next_generation, realized, sources, terminal_observed, task>>

\* observe_drain_cutoff reads the phase, ahead of the queued marker.
CutoffUnobserved == ~draining /\ phase = "Draining"

ObserveDrainCutoff(next) ==
  IF CutoffUnobserved
  THEN BeginDrain(next)
  ELSE Goto(next) /\ UNCHANGED <<draining, sourceVars, taskVars>>

\* Wrong variant: the owner never looks at the phase while it projects work.
CancelUnseen == FALSE

CancelSeen == phase = "Cancelling"

\* The two reads of the phase that precede every piece of projected work.
CheckScope(next) ==
  IF CancelSeen
  THEN Goto("loop") /\ UNCHANGED <<draining, sourceVars, taskVars>>
  ELSE ObserveDrainCutoff(next)

TurnFrame == UNCHANGED <<scopeVars, current, outer, component, desired, duplicate, active,
                         workVars, hostVars, history>>

\* The end of a turn: the next Component of initialize, or the event loop.
EndTurn == Goto(IF cursor <= NumComponents THEN "next_component" ELSE "loop")

-----------------------------------------------------------------------------
(***************************************************************************)
(* run: Cancel may win before the owner is first polled; then initialize   *)
(* observes a Drain cutoff and takes the Components in order.              *)
(***************************************************************************)
Start ==
  /\ pc = "start"
  /\ Goto(IF CancelSeen THEN "cancel" ELSE "initialize")
  /\ UNCHANGED <<scopeVars, cursor, draining, current, outer, turnVars, active, sourceVars,
                 workVars, taskVars, hostVars, history>>

Initialize ==
  /\ pc = "initialize"
  /\ ObserveDrainCutoff("next_component")
  /\ UNCHANGED <<cursor, changes, commands>>
  /\ TurnFrame

\* reconcile and take_initial_command are the owner's; then Cancel is read.
NextComponent ==
  /\ pc = "next_component"
  /\ UNCHANGED <<scopeVars, draining, current, outer, active, sourceVars, effects, timers,
                 requests, declared, taskVars, hostVars, history>>
  /\ IF CancelSeen
     THEN Goto("loop") /\ UNCHANGED <<cursor, turnVars, held>>
     ELSE /\ cursor' = cursor + 1
          /\ Project(cursor, held)
          /\ Goto("reconcile")

\* finish_transition, entered when the Model has committed.
Committed ==
  /\ pc = "committed"
  /\ CheckScope("reconcile")
  /\ UNCHANGED <<cursor, changes, commands>>
  /\ TurnFrame

(***************************************************************************)
(* SubscriptionReconciler::reconcile: refused as a whole on a repeated     *)
(* identity, else the bookkeeping becomes the desired map.                 *)
(***************************************************************************)
Reconcile ==
  /\ pc = "reconcile"
  /\ UNCHANGED <<scopeVars, cursor, current, outer, component, desired, duplicate, commands,
                 workVars, hostVars, history>>
  /\ IF duplicate
     THEN /\ Goto("fault")
          /\ UNCHANGED <<draining, changes, active, sourceVars, taskVars>>
     ELSE /\ changes' = Changes(Bookkept(component), desired)
          /\ active' = BookkeptAfter(component)
          /\ CheckScope("apply")

\* apply_subscription_changes, between two changes.
Apply ==
  /\ pc = "apply"
  /\ IF changes = {}
     THEN Goto("interpret") /\ UNCHANGED <<draining, sourceVars, taskVars>>
     ELSE ObserveDrainCutoff("change")
  /\ UNCHANGED <<cursor, changes, commands>>
  /\ TurnFrame

ActivationOpen == ~draining /\ phase = "Running"

(***************************************************************************)
(* activate_source, after the Sources in S were stopped and removed: skip  *)
(* silently once shutdown began; else refuse a foreign or missing          *)
(* capability or a Driver that panics at once; else a fresh generation.    *)
(***************************************************************************)
Activate(key, S) ==
  IF ActivationOpen
  THEN \/ LET g == next_generation + 1
          IN  /\ g \in Generations
              /\ next_generation' = g
              /\ realized' = [realized EXCEPT ![g] = <<key, desired[key[2]]>>]
              /\ sources' = (sources \ S) \cup {g}
              /\ running' = (running \ S) \cup {g}
              /\ task' = [task EXCEPT ![SourceTask(g)] = "running"]
              /\ Goto("apply")
       \/ /\ Mishap("activation")
          /\ sources' = sources \ S /\ running' = running \ S
          /\ UNCHANGED <<next_generation, realized, task>>
          /\ Goto("fault")
  ELSE /\ sources' = sources \ S /\ running' = running \ S
       /\ UNCHANGED <<next_generation, realized, task>>
       /\ Goto("apply")

\* Wrong variant: a retained Source that ended is dropped when it is no longer
\* desired, and what was sent before its end with it.
KeepUntilEnded(S) == draining /\ S # {} /\ S \subseteq drain_retained \ terminal_observed

KeptForDrain(S) == draining /\ S # {} /\ S \subseteq drain_retained

(***************************************************************************)
(* One change, in SubscriptionId order.  Retain installs a new mapper and  *)
(* leaves the realization alone; Drain's retained entries are skipped.     *)
(***************************************************************************)
Change ==
  /\ pc = "change"
  /\ \E change \in changes :
       LET key == <<component, change.id>>
           S == Removed(change, Entry(key))
       IN  /\ \A other \in changes : change.id <= other.id
           /\ changes' = changes \ {change}
           /\ IF change.kind = "Retain" \/ KeptForDrain(S)
              THEN Goto("apply") /\ UNCHANGED <<sourceVars, taskVars>>
              ELSE /\ UNCHANGED <<terminal_observed, drain_retained>>
                   /\ StopSources(S)
                   /\ \/ IF change.kind \in {"Start", "Replace"}
                         THEN Activate(key, S)
                         ELSE /\ sources' = sources \ S /\ running' = running \ S
                              /\ UNCHANGED <<next_generation, realized, task>>
                              /\ Goto("apply")
                      \/ /\ \E g \in S : HookMayFail(g)
                         /\ running' = running \ S
                         /\ UNCHANGED <<next_generation, realized, sources, task>>
                         /\ Goto("fault")
  /\ UNCHANGED <<cursor, draining, commands>>
  /\ TurnFrame

\* interpret_command, between two declarations.
Interpret ==
  /\ pc = "interpret"
  /\ IF commands = <<>>
     THEN EndTurn /\ UNCHANGED <<draining, sourceVars, taskVars>>
     ELSE CheckScope("issue")
  /\ UNCHANGED <<cursor, changes, commands>>
  /\ TurnFrame
==============================================================================
