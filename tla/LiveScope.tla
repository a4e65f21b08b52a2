------------------------------ MODULE LiveScope ------------------------------
(***************************************************************************)
(* LiveScope, the admission boundary of the live runtime                   *)
(* (src/src/live_runtime.rs).  Host handles, Driver tasks and the owner    *)
(* share one mutex around a phase and the sending half of an unbounded     *)
(* channel.  Every operator below is one critical section of that mutex,   *)
(* so each is one atomic step of the modules that use it.                  *)
(*                                                                         *)
(*   phase     ScopeState::phase                                           *)
(*   queue     the events sent and not yet received by the owner           *)
(*   receiver  whether the owner still holds the receiving half: a send    *)
(*             on a channel whose receiver was dropped fails               *)
(***************************************************************************)
EXTENDS Sequences

VARIABLES phase, queue, receiver

scopeVars == <<phase, queue, receiver>>

ScopePhase == {"Running", "Draining", "Cancelling", "Faulted", "Closed"}

ScopeInit ==
  /\ phase = "Running"
  /\ queue = <<>>
  /\ receiver = TRUE

(***************************************************************************)
(* Which phases admit which callers.  Host handles and Sources are         *)
(* admitted only while Running; finite work that the runtime already owns  *)
(* is admitted while Draining too.                                         *)
(***************************************************************************)
IngressOpen == phase = "Running" /\ receiver

SourcesOpen == phase = "Running" /\ receiver

\* Wrong variant: finite work is refused once Drain started.
FiniteClosedInDrain == phase = "Running" /\ receiver

FiniteOpen == phase \in {"Running", "Draining"} /\ receiver

\* accept_ingress, the accepting outcome: an Err changes nothing.
AcceptIngress(event) ==
  /\ IngressOpen
  /\ queue' = Append(queue, event)
  /\ UNCHANGED <<phase, receiver>>

\* accept_source, the accepting outcome: DriverStopped changes nothing.
AcceptSource(event) ==
  /\ SourcesOpen
  /\ queue' = Append(queue, event)
  /\ UNCHANGED <<phase, receiver>>

\* accept_finite: callers ignore a refusal, so the refused event vanishes.
AcceptFinite(event) ==
  /\ queue' = IF FiniteOpen THEN Append(queue, event) ELSE queue
  /\ UNCHANGED <<phase, receiver>>

ShutdownPhase == [Drain |-> "Draining", Cancel |-> "Cancelling"]

\* Wrong variant: the phase changes but nothing wakes an owner blocked on recv.
BeginShutdownSilently(mode, marker) ==
  /\ phase' = IF phase = "Running" THEN ShutdownPhase[mode] ELSE phase
  /\ UNCHANGED <<queue, receiver>>

(***************************************************************************)
(* begin_shutdown moves the phase and enqueues a marker in one critical    *)
(* section; only the first shutdown does.  The phase has moved even when   *)
(* the owner is gone and the marker cannot be sent.                        *)
(***************************************************************************)
BeginShutdown(mode, marker) ==
  /\ phase' = IF phase = "Running" THEN ShutdownPhase[mode] ELSE phase
  /\ queue' = IF phase = "Running" /\ receiver THEN Append(queue, marker) ELSE queue
  /\ UNCHANGED receiver

\* LiveScope::fault keeps the first fault and never reopens a closed scope.
ScopeFault ==
  phase' = IF phase \in {"Faulted", "Closed"} THEN phase ELSE "Faulted"

\* LiveScope::close.
ScopeClose == phase' = "Closed"
==============================================================================
