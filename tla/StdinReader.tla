---------------------------- MODULE StdinReader ----------------------------
(***************************************************************************)
(* First-party standard input (StdinBinding, StdinReader and               *)
(* drive_stdin_reader, src/src/live_runtime.rs): the process-wide lease,   *)
(* the reader thread of each realization, its Source task, and the stop    *)
(* that the owner's hook and the task may both ask for.                    *)
(***************************************************************************)
EXTENDS SourceRealizations

CONSTANT Chunk \* bytes one read returns at most

ASSUME ChunkAssumption == Chunk \in Nat \ {0}

VARIABLES
  lease,      \* process_stdin_lease
  control,    \* StdinReaderControlState; "Released" is Stopping with the
              \* thread joined and the lease returned
  claimant,   \* the caller of stop_and_join that found it Running
  shut,       \* readers whose cancellation channel is shut
  asleep,     \* callers waiting on the condition variable
  thread, mechanism,  \* the reader thread, and those that ended in an error
  pending, events,    \* its decoder, and the channel to the Source task
  overrun     \* history: reads made with the cancellation channel shut

readerVars == <<lease, control, claimant, shut, asleep, thread, mechanism, pending, events, overrun>>

Callers == {"owner", "task"}

ReaderTypeOK ==
  /\ lease \in BOOLEAN
  /\ control \in [Realizations -> {"none", "Running", "Stopping", "Released", "Stopped"}]
  /\ claimant \in [Realizations -> {"none"} \cup Callers]
  /\ shut \subseteq Realizations
  /\ asleep \subseteq Realizations \X Callers
  /\ thread \in [Realizations -> {"none", "waiting", "reading", "done"}]
  /\ mechanism \subseteq Realizations
  /\ overrun \in [Realizations -> Nat]

ReaderInit ==
  /\ lease = FALSE
  /\ control = [r \in Realizations |-> "none"]
  /\ claimant = [r \in Realizations |-> "none"]
  /\ shut = {} /\ asleep = {}
  /\ thread = [r \in Realizations |-> "none"] /\ mechanism = {}
  /\ pending = [r \in Realizations |-> <<>>] /\ events = [r \in Realizations |-> <<>>]
  /\ overrun = [r \in Realizations |-> 0]

-----------------------------------------------------------------------------
(***************************************************************************)
(* StdinBinding::run, on the owner: take the lease, start the thread,      *)
(* install the stop hook (the gate is Active, nobody else stops it).       *)
(***************************************************************************)
StdinStarts(rt) ==
  LET r == realized + 1
  IN  /\ instance.binding = "stdin"
      /\ ~lease
      /\ Realize(rt, "running", TRUE)
      /\ lease' = TRUE
      /\ control' = [control EXCEPT ![r] = "Running"]
      /\ thread' = [thread EXCEPT ![r] = "waiting"]
      /\ UNCHANGED <<claimant, shut, asleep, mechanism, pending, events, overrun>>

\* The lease is taken, or the thread cannot be started and the lease is put back.
StdinRefused(rt) ==
  /\ instance.binding = "stdin"
  /\ lease \/ instance.fails
  /\ Realize(rt, "refused", FALSE)
  /\ UNCHANGED readerVars

-----------------------------------------------------------------------------
\* The reader thread: wait_for_stdin, then one read.
InputReady == position < Len(input) \/ ended

Send(r, made) == events' = [events EXCEPT ![r] = @ \o made]

SendsTerminal(made) == made # <<>> /\ IsTerminal(Last(made))

\* Cutover wins whenever both descriptors are ready.
PollCancelled(r) ==
  /\ thread[r] = "waiting"
  /\ r \in shut
  /\ Send(r, <<Cancelled>>)
  /\ thread' = [thread EXCEPT ![r] = "done"]
  /\ UNCHANGED <<ownerVars, worldVars, realizationVars, lease, control, claimant, shut, asleep,
                 mechanism, pending, overrun>>

\* Wrong variant: input is looked at before the cancellation channel.
TakesInputFirst(r) == TRUE

MayTakeInput(r) == r \notin shut

PollReady(r) ==
  /\ thread[r] = "waiting"
  /\ MayTakeInput(r) /\ InputReady
  /\ thread' = [thread EXCEPT ![r] = "reading"]
  /\ UNCHANGED <<ownerVars, worldVars, realizationVars, lease, control, claimant, shut, asleep,
                 mechanism, pending, events, overrun>>

\* The wait itself fails: the thread ends in an error and sends nothing.
PollFails(r) ==
  /\ instance.fails
  /\ thread[r] = "waiting"
  /\ thread' = [thread EXCEPT ![r] = "done"]
  /\ mechanism' = mechanism \cup {r}
  /\ UNCHANGED <<ownerVars, worldVars, realizationVars, lease, control, claimant, shut, asleep,
                 pending, events, overrun>>

ReadDone(r, bytes, made) ==
  /\ Send(r, made)
  /\ thread' = [thread EXCEPT ![r] = IF SendsTerminal(made) THEN "done" ELSE "waiting"]
  /\ taken' = [taken EXCEPT ![r] = @ \o bytes]
  /\ overrun' = IF r \in shut THEN [overrun EXCEPT ![r] = @ + 1] ELSE overrun
  /\ UNCHANGED <<ownerVars, input, ended, gate, hook, task, aborted, accepted, lease, control,
                 claimant, shut, asleep, mechanism>>

\* read blocks when another reader took what the wait announced.
ReadBytes(r) ==
  /\ thread[r] = "reading"
  /\ position < Len(input)
  /\ position' = Min({position + Chunk, Len(input)})
  /\ \E bytes \in {SubSeq(input, position + 1, position')} :
       \E pushed \in {Push(pending[r], bytes)} :
         /\ pending' = [pending EXCEPT ![r] = pushed.pending]
         /\ ReadDone(r, bytes, pushed.events)

ReadEnd(r) ==
  /\ thread[r] = "reading"
  /\ position = Len(input) /\ ended
  /\ pending' = [pending EXCEPT ![r] = <<>>]
  /\ ReadDone(r, <<"eof">>, Finish(pending[r]))
  /\ UNCHANGED position

\* The read is interrupted (EINTR) or finds nothing (EAGAIN): wait again.
ReadAgain(r) ==
  /\ instance.fails
  /\ thread[r] = "reading"
  /\ thread' = [thread EXCEPT ![r] = "waiting"]
  /\ UNCHANGED <<ownerVars, worldVars, realizationVars, lease, control, claimant, shut, asleep,
                 mechanism, pending, events, overrun>>

\* The wait reports an invalid descriptor, or the read fails otherwise.
ReadFails(r) ==
  /\ instance.fails
  /\ \/ thread[r] = "reading"
     \/ thread[r] = "waiting" /\ r \notin shut
  /\ ReadDone(r, <<"error">>, <<Failed>>)
  /\ UNCHANGED <<position, pending>>

ReaderThread(r) ==
  \/ PollCancelled(r) \/ PollReady(r) \/ PollFails(r)
  \/ ReadBytes(r) \/ ReadEnd(r) \/ ReadAgain(r) \/ ReadFails(r)

-----------------------------------------------------------------------------
\* run_stdin_reader: one event at a time from the reader into the sink.
\* A refused Line ends the loop like a terminal event or a Cancelled.
LoopGoesOn(r, event) == event.kind = "Line" /\ Admits(r)

TaskReceives(r) ==
  /\ task[r] = "running" /\ events[r] # <<>>
  /\ LET event == Head(events[r])
     IN  /\ IF event = Cancelled THEN UNCHANGED <<accepted, gate>> ELSE Offer(r, event)
         /\ task' = IF LoopGoesOn(r, event) THEN task ELSE [task EXCEPT ![r] = "leaving"]
  /\ events' = [events EXCEPT ![r] = Tail(@)]
  /\ UNCHANGED <<ownerVars, worldVars, hook, aborted, taken, lease, control, claimant, shut, asleep,
                 thread, mechanism, pending, overrun>>

\* The thread is gone without a terminal event.
TaskSeesClosed(r) ==
  /\ task[r] = "running" /\ events[r] = <<>> /\ thread[r] = "done"
  /\ task' = [task EXCEPT ![r] = "broken"]
  /\ UNCHANGED <<ownerVars, worldVars, gate, hook, aborted, taken, accepted, readerVars>>

\* An aborted task is dropped at its await, or unpolled, with its reader.
TaskDropped(r) ==
  /\ instance.binding = "stdin" /\ r \in aborted /\ task[r] = "running"
  /\ task' = [task EXCEPT ![r] = "dropping"]
  /\ UNCHANGED <<ownerVars, worldVars, gate, hook, aborted, taken, accepted, readerVars>>

-----------------------------------------------------------------------------
(***************************************************************************)
(* StdinReaderControl::stop_and_join, called by the stop hook on the owner *)
(* and by the task when it leaves its loop or is dropped.                  *)
(***************************************************************************)
InStop(r, caller) ==
  IF caller = "owner" THEN \E rt \in Runtimes : stopping[rt] = r
                      ELSE task[r] \in {"leaving", "broken", "dropping"}

StopClaimed(r, caller) ==
  /\ InStop(r, caller) /\ control[r] = "Running"
  /\ control' = [control EXCEPT ![r] = "Stopping"]
  /\ claimant' = [claimant EXCEPT ![r] = caller]
  /\ UNCHANGED <<ownerVars, worldVars, realizationVars, lease, shut, asleep, thread, mechanism,
                 pending, events, overrun>>

\* The winner released the mutex of the state; now it shuts the cancellation
\* channel, while the thread may read on.
ChannelShut(r, caller) ==
  /\ InStop(r, caller) /\ control[r] = "Stopping" /\ claimant[r] = caller /\ r \notin shut
  /\ shut' = shut \cup {r}
  /\ UNCHANGED <<ownerVars, worldVars, realizationVars, lease, control, claimant, asleep, thread,
                 mechanism, pending, events, overrun>>

StopWaits(r, caller) ==
  /\ InStop(r, caller) /\ control[r] \in {"Stopping", "Released"}
  /\ claimant[r] # caller /\ <<r, caller>> \notin asleep
  /\ asleep' = asleep \cup {<<r, caller>>}
  /\ UNCHANGED <<ownerVars, worldVars, realizationVars, lease, control, claimant, shut, thread,
                 mechanism, pending, events, overrun>>

\* Wrong variant: the lease is returned when the thread is told to stop.
ReleasesBeforeJoin(r) == TRUE

\* join returned: only then the lease is given back.
MayRelease(r) == thread[r] = "done"

LeaseReturned(r) ==
  /\ control[r] = "Stopping" /\ r \in shut /\ MayRelease(r)
  /\ lease' = FALSE
  /\ control' = [control EXCEPT ![r] = "Released"]
  /\ UNCHANGED <<ownerVars, worldVars, realizationVars, claimant, shut, asleep, thread, mechanism,
                 pending, events, overrun>>

\* Wrong variant: the callers on the condition variable are not woken.
PublishedSilently(r) ==
  /\ control[r] = "Released"
  /\ control' = [control EXCEPT ![r] = "Stopped"]
  /\ UNCHANGED <<ownerVars, worldVars, realizationVars, lease, claimant, shut, asleep, thread,
                 mechanism, pending, events, overrun>>

StopPublished(r) ==
  /\ control[r] = "Released"
  /\ control' = [control EXCEPT ![r] = "Stopped"]
  /\ asleep' = {call \in asleep : call[1] # r}
  /\ UNCHANGED <<ownerVars, worldVars, realizationVars, lease, claimant, shut, thread, mechanism,
                 pending, events, overrun>>

StopReturns(r, caller) ==
  InStop(r, caller) /\ control[r] = "Stopped" /\ <<r, caller>> \notin asleep

\* The hook returned: stop_source goes on to abort the task.
HookReturned(r) ==
  /\ StopReturns(r, "owner")
  /\ stopping' = [stopping EXCEPT ![runtime[r]] = 0]
  /\ aborted' = aborted \cup {r}
  /\ UNCHANGED <<instance, realized, runtime, owner, worldVars, gate, hook, task, taken,
                 accepted, readerVars>>

\* A mechanism error replaces the outcome of the loop.
TaskOutcome(r) ==
  CASE task[r] = "dropping" -> "cancelled"
    [] task[r] = "broken" \/ (task[r] = "leaving" /\ r \in mechanism) -> "failed"
    [] OTHER -> "ok"

TaskReturned(r) ==
  /\ StopReturns(r, "task")
  /\ task' = [task EXCEPT ![r] = TaskOutcome(r)]
  /\ UNCHANGED <<ownerVars, worldVars, gate, hook, aborted, taken, accepted, readerVars>>

ReaderStop(r) ==
  \/ \E caller \in Callers :
       StopClaimed(r, caller) \/ ChannelShut(r, caller) \/ StopWaits(r, caller)
  \/ LeaseReturned(r) \/ StopPublished(r)
  \/ HookReturned(r) \/ TaskReturned(r)

ReaderTask(r) == TaskReceives(r) \/ TaskSeesClosed(r) \/ TaskDropped(r)

StdinSteps ==
  \/ \E rt \in Runtimes : StdinStarts(rt) \/ StdinRefused(rt)
  \/ \E r \in Realizations : ReaderThread(r) \/ ReaderTask(r) \/ ReaderStop(r)
==============================================================================
