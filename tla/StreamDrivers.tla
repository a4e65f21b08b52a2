---------------------------- MODULE StreamDrivers ----------------------------
(***************************************************************************)
(* The other first-party Source Drivers (MpscBinding, TokioTcpDriver under *)
(* TypedSourceBinding, src/src/live_runtime.rs).  Neither awaits between   *)
(* reading and offering what it read.                                      *)
(***************************************************************************)
EXTENDS SourceRealizations

VARIABLES receiver, \* MpscBinding::receiver is still there to be taken
          holder    \* the realizations whose future owns it

streamVars == <<receiver, holder>>

StreamInit == receiver = TRUE /\ holder = {}

Item(datum) == Line(<<datum>>)

\* Wrong variant: the binding does not end the Source for its Driver.
ReturnsWithoutEnd(r, event) ==
  /\ task' = [task EXCEPT ![r] = "ok"]
  /\ UNCHANGED <<ownerVars, gate, hook, aborted, accepted>>

\* The future ends after offering event; Ended is offered once more by the
\* binding, which the gate refuses after any terminal event.
ReturnsAfter(r, event) ==
  /\ Offer(r, event)
  /\ task' = [task EXCEPT ![r] = "ok"]
  /\ UNCHANGED <<ownerVars, hook, aborted>>

\* An item is offered; DriverStopped makes the Driver return.
EmitsOrReturns(r, event) ==
  /\ Offer(r, event)
  /\ task' = IF Admits(r) THEN task ELSE [task EXCEPT ![r] = "ok"]
  /\ UNCHANGED <<ownerVars, hook, aborted>>

-----------------------------------------------------------------------------
\* MpscBinding::run takes the one receiver the binding was given; the
\* binding belongs to one runtime.
MpscRuns(rt) ==
  /\ instance.binding = "mpsc" /\ rt = 1
  /\ Realize(rt, IF receiver THEN "running" ELSE "refused", FALSE)
  /\ holder' = IF receiver THEN holder \cup {realized + 1} ELSE holder
  /\ receiver' = FALSE

MpscReceives(r) ==
  /\ instance.binding = "mpsc" /\ task[r] = "running" /\ r \in holder
  /\ position < Len(input)
  /\ position' = position + 1
  /\ taken' = [taken EXCEPT ![r] = Append(@, input[position'])]
  /\ EmitsOrReturns(r, Item(input[position']))
  /\ UNCHANGED <<input, ended, streamVars>>

MpscClosed(r) ==
  /\ instance.binding = "mpsc" /\ task[r] = "running" /\ r \in holder
  /\ position = Len(input) /\ ended
  /\ taken' = [taken EXCEPT ![r] = Append(@, "eof")]
  /\ ReturnsAfter(r, Ended)
  /\ UNCHANGED <<worldVars, streamVars>>

-----------------------------------------------------------------------------
\* Every TCP realization connects for itself.
TcpRuns(rt) ==
  /\ instance.binding = "tcp"
  /\ Realize(rt, "connecting", FALSE)
  /\ UNCHANGED streamVars

TcpConnects(r) ==
  /\ task[r] = "connecting"
  /\ task' = [task EXCEPT ![r] = "running"]
  /\ UNCHANGED <<ownerVars, worldVars, gate, hook, aborted, taken, accepted, streamVars>>

\* connect or read_buf fails: SourceSink::fail, then the Driver returns.
TcpFails(r) ==
  /\ instance.binding = "tcp" /\ task[r] \in {"connecting", "running"}
  /\ taken' = [taken EXCEPT ![r] = Append(@, "error")]
  /\ ReturnsAfter(r, Failed)
  /\ UNCHANGED <<worldVars, streamVars>>

TcpReads(r, byte) ==
  /\ instance.binding = "tcp" /\ task[r] = "running" /\ Len(taken[r]) < instance.input
  /\ taken' = [taken EXCEPT ![r] = Append(@, byte)]
  /\ EmitsOrReturns(r, Item(byte))
  /\ UNCHANGED <<worldVars, streamVars>>

TcpEnds(r) ==
  /\ instance.binding = "tcp" /\ task[r] = "running"
  /\ taken' = [taken EXCEPT ![r] = Append(@, "eof")]
  /\ ReturnsAfter(r, Ended)
  /\ UNCHANGED <<worldVars, streamVars>>

StreamSteps ==
  \/ \E rt \in Runtimes : MpscRuns(rt) \/ TcpRuns(rt)
  \/ \E r \in Realizations : MpscReceives(r) \/ MpscClosed(r)
  \/ \E r \in Realizations : TcpConnects(r) \/ TcpFails(r) \/ TcpEnds(r)
  \/ \E r \in Realizations, byte \in instance.bytes : TcpReads(r, byte)
==============================================================================
