---------------------------- MODULE SourceDrivers ----------------------------
(***************************************************************************)
(* The first-party Source Drivers side by side, and what they owe the      *)
(* runtime that hosts them and the world they read                         *)
(* (docs/adr/0009-first-party-stdin-lines.md).                             *)
(***************************************************************************)
EXTENDS StdinReader, StreamDrivers

vars == <<ownerVars, worldVars, realizationVars, readerVars, streamVars>>

Init == RealizationInit /\ ReaderInit /\ StreamInit

Next ==
  \/ Surroundings /\ UNCHANGED <<readerVars, streamVars>>
  \/ StdinSteps /\ UNCHANGED streamVars
  \/ StreamSteps /\ UNCHANGED readerVars

Spec == Init /\ [][Next]_vars

(***************************************************************************)
(* Fairness.  A thread that is runnable runs, and so does a caller of      *)
(* stop_and_join; Tokio polls woken tasks and drops aborted ones at their  *)
(* next await.  Neither the world nor owners owe anything, and no read is  *)
(* assumed to fail.                                                        *)
(***************************************************************************)
Fairness ==
  \A r \in Realizations :
    /\ WF_vars(PollCancelled(r) /\ UNCHANGED streamVars)
    /\ WF_vars((PollReady(r) \/ ReadBytes(r) \/ ReadEnd(r)) /\ UNCHANGED streamVars)
    /\ WF_vars(TaskDropped(r) /\ UNCHANGED streamVars)
    /\ WF_vars(ReaderStop(r) /\ UNCHANGED streamVars)
    /\ WF_vars(DroppedAtAwait(r) /\ UNCHANGED <<readerVars, streamVars>>)

FairSpec == Spec /\ Fairness

TypeOK == RealizationTypeOK /\ ReaderTypeOK

-----------------------------------------------------------------------------
\* One reader thread in the process: whoever may read holds the lease, from
\* before its thread starts until after the thread was joined, and a lease
\* that nobody is left to return is never taken.
Reads(r) == thread[r] \in {"waiting", "reading"}
Holds(r) == control[r] \in {"Running", "Stopping"}

OneReader ==
  /\ \A r, s \in Realizations : Reads(r) /\ Reads(s) => r = s
  /\ \A r \in Realizations : Reads(r) => lease
  /\ lease => \E r \in Realizations : Holds(r)

\* The inductive invariant behind it: a realization not yet made has no
\* reader, a reader that may read has not been released, and at most one
\* realization, the one the lease is taken for, is not released.
LeaseInv ==
  /\ ReaderTypeOK
  /\ instance \in Instances /\ realized \in 0 .. MaxRealizations
  /\ \A r \in Realizations : r > realized => thread[r] = "none" /\ control[r] = "none"
  /\ \A r \in Realizations : Reads(r) => Holds(r)
  /\ \A r \in Realizations : Holds(r) => lease
  /\ \A r, s \in Realizations : Holds(r) /\ Holds(s) => r = s
  /\ lease => \E r \in Realizations : Holds(r)

\* What each realization got accepted is a prefix of what its own reads
\* mean, however the bytes were cut into chunks; and all of it when the
\* Driver ended its Source itself.
Told(datum) ==
  CASE datum = "eof" -> Ended [] datum = "error" -> Failed [] OTHER -> Item(datum)

Meaning(r) ==
  IF instance.binding = "stdin" THEN LinesOf(taken[r])
  ELSE [i \in DOMAIN taken[r] |-> Told(taken[r][i])]

AcceptedIsWhatWasRead ==
  \A r \in Realizations :
    /\ IsPrefix(accepted[r], Meaning(r))
    /\ gate[r] = "TerminalAccepted" => accepted[r] = Meaning(r)

(***************************************************************************)
(* The invariant behind it.  What a realization read means what it got     *)
(* accepted and, behind that, what is still unheard: nothing at all once   *)
(* the gate took a terminal event, and while the task still listens what   *)
(* is in its channel, with at most the Cancelled of a thread that is done. *)
(***************************************************************************)
Listens(r) == task[r] \in {"none", "connecting", "running"}

Unheard(r, left) ==
  /\ left \in Seq(Event) /\ Meaning(r) = accepted[r] \o left
  /\ gate[r] = "TerminalAccepted" => left = <<>>
  /\ Listens(r) =>
       IF instance.binding = "stdin"
       THEN \/ events[r] = left
            \/ events[r] = left \o <<Cancelled>> /\ thread[r] = "done"
       ELSE left = <<>> /\ gate[r] # "TerminalAccepted"

\* A thread that goes on has read no end, and its decoder holds the line back
\* that the contract holds back.
ReaderKeepsUp(r) ==
  LET made == MadeOf(taken[r])
  IN  /\ thread[r] # "done" => ~Over(made) /\ pending[r] = made.line
      /\ gate[r] = "TerminalAccepted" => Over(made)

MeaningOf(r) ==
  /\ taken[r] \in Seq(Datum) /\ pending[r] \in Seq(Byte)
  /\ accepted[r] \in Seq(Event) /\ events[r] \in Seq(Event)
  /\ Unheard(r, SubSeq(Meaning(r), Len(accepted[r]) + 1, Len(Meaning(r))))
  /\ IF instance.binding = "stdin" THEN ReaderKeepsUp(r) ELSE events[r] = <<>>

MeaningInv == input \in Seq(Byte) /\ \A r \in Realizations : MeaningOf(r)

\* A cutover reads no input after it: at most the one read that was already
\* announced when the stop began, and none once the stop returned.
CutoverStopsReading ==
  [][\A r \in Realizations : taken'[r] # taken[r] /\ r \in shut =>
       overrun[r] = 0 /\ control[r] = "Stopping"]_vars

\* The invariant behind it: only a stop that began has the channel shut, and
\* only one whose thread was joined went further; no thread reads again once
\* it read with its channel shut; and no other binding has a reader.
CutoverInv ==
  /\ LeaseInv
  /\ DOMAIN taken = Realizations
  /\ \A r \in Realizations :
       /\ r \in shut => control[r] \in {"Stopping", "Released", "Stopped"}
       /\ control[r] \in {"Released", "Stopped"} => thread[r] = "done"
       /\ r \notin shut => overrun[r] = 0
       /\ r \in shut /\ thread[r] = "reading" => overrun[r] = 0
       /\ instance.binding # "stdin" => control[r] = "none"

\* A stop, by hook or by the task, is never left waiting.
StopsReturn ==
  \A r \in Realizations :
    (\E caller \in Callers : InStop(r, caller)) ~> (\A caller \in Callers : ~InStop(r, caller))

-----------------------------------------------------------------------------
\* Every realization's Driver behaves as the runtime expects of any Driver.
OpenRealizations == {r \in Realizations : runtime[r] # 0 => owner[runtime[r]] = "open"}

TaskSeen(r) == IF task[r] \in Exited \cup {"none"} THEN task[r] ELSE "running"

ItemsSeen(r) == Cardinality({i \in DOMAIN accepted[r] : ~IsTerminal(accepted[r][i])})

EndingSeen(r) ==
  IF accepted[r] # <<>> /\ IsTerminal(Last(accepted[r])) THEN Last(accepted[r]).kind ELSE "none"

Driver == INSTANCE SourceDriver WITH
  open <- OpenRealizations,
  task <- [r \in Realizations |-> TaskSeen(r)],
  items <- [r \in Realizations |-> ItemsSeen(r)],
  ending <- [r \in Realizations |-> EndingSeen(r)]

ImplementsDriver == Driver!Spec /\ Driver!AbortedTasksEnd

(***************************************************************************)
(* The invariant behind it, in two parts.  The channel of a realization    *)
(* holds a Cancelled only if its reader was told to stop.                  *)
(***************************************************************************)
Sequence(s) == s \in Seq(Range(s))

Sound(event, r) ==
  event.kind \in {"Line", "Failed", "Ended"} \/ (event = Cancelled /\ r \in shut)

ChannelOf(r) ==
  /\ Sequence(pending[r]) /\ Sequence(events[r])
  /\ \A i \in DOMAIN events[r] : Sound(events[r][i], r)

ChannelInv ==
  /\ Sequence(input) /\ position \in 0 .. Len(input)
  /\ DOMAIN pending = Realizations /\ DOMAIN events = Realizations
  /\ \A r \in Realizations : ChannelOf(r)

\* A terminal event is accepted last; a future that left its loop finds no
\* gate to end its Source at; and whoever told the reader of a Driver that
\* has not left to stop is an owner that stopped its gate before.
GateOf(r) ==
  /\ Sequence(accepted[r])
  /\ gate[r] = "Active" => EndingSeen(r) = "none"
  /\ task[r] = "none" <=> runtime[r] = 0
  /\ r > realized => task[r] = "none"
  /\ task[r] = "leaving" => ~Admits(r)
  /\ task[r] = "dropping" => r \in aborted
  /\ r \in shut /\ task[r] \in {"refused", "connecting", "running"} => gate[r] = "Stopped"

GateInv ==
  /\ RealizationTypeOK
  /\ DOMAIN accepted = Realizations
  /\ \A r \in Realizations : GateOf(r)
  /\ \A rt \in Runtimes : stopping[rt] # 0 => gate[stopping[rt]] = "Stopped"

DriverInv == CutoverInv /\ ChannelInv /\ GateInv
==============================================================================
