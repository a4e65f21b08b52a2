---------------------------- MODULE DriverProofs ----------------------------
(***************************************************************************)
(* The first-party Source Drivers, whatever the number of runtimes,        *)
(* realizations and bytes: standard input has at most one reader thread in *)
(* the process, a cutover reads no input after it, what the runtime sees   *)
(* of every Driver is a SourceDriver, and what it accepts from one is what *)
(* that one's reads mean, line by line and byte by byte.                   *)
(***************************************************************************)
EXTENDS SourceDrivers, Integers, SequenceTheorems, FiniteSetTheorems, WellFoundedInduction,
        TLAPS

\* What the lease's invariant looks at.
leaseVars ==
  <<instance, realized, lease, control, claimant, shut, asleep, thread, mechanism, overrun>>

\* Steps that touch none of it keep the invariant.
LEMMA LeaseStutter == ASSUME LeaseInv, UNCHANGED leaseVars PROVE LeaseInv'
BY DEF LeaseInv, leaseVars, ReaderTypeOK, Reads, Holds

\* A number is left for the realization that is made.
LEMMA RealizeNumbers ==
  ASSUME LeaseInv, NEW rt, NEW state, NEW hooked, Realize(rt, state, hooked)
  PROVE  /\ realized' = realized + 1 /\ realized' \in Realizations
         /\ realized' \in 0 .. MaxRealizations
         /\ instance' = instance
<1>1. instance.realizations \in 1 .. MaxRealizations /\ realized \in Nat
  BY InstancesAssumption DEF LeaseInv
<1>2. MaxRealizations \in Nat
  BY InstancesAssumption
<1> QED BY <1>1, <1>2 DEF Realize, Realizations

\* A realization without a reader (of another binding, or a refused one)
\* only takes its number.
LEMMA LeaseUnread ==
  ASSUME LeaseInv, NEW rt, NEW state, Realize(rt, state, FALSE), UNCHANGED readerVars
  PROVE  LeaseInv'
<1>1. realized' \in 0 .. MaxRealizations /\ realized' = realized + 1 /\ instance' = instance
  BY RealizeNumbers
<1>2. realized \in Nat
  BY InstancesAssumption DEF LeaseInv
<1> QED BY <1>1, <1>2 DEF LeaseInv, ReaderTypeOK, Reads, Holds, readerVars, Realizations

\* StdinBinding::acquire takes the lease for the thread it starts.
LEMMA LeaseTaken ==
  ASSUME LeaseInv, NEW rt, StdinStarts(rt)
  PROVE  LeaseInv'
<1> DEFINE r == realized + 1
<1>1. /\ r \in Realizations /\ realized' = r
      /\ realized' \in 0 .. MaxRealizations /\ instance' = instance
  BY RealizeNumbers DEF StdinStarts
<1>2. realized \in Nat
  BY InstancesAssumption DEF LeaseInv
<1>3. /\ ~lease /\ lease'
      /\ control' = [control EXCEPT ![r] = "Running"]
      /\ thread' = [thread EXCEPT ![r] = "waiting"]
      /\ UNCHANGED <<claimant, shut, asleep, mechanism, overrun>>
  BY DEF StdinStarts
<1>4. \A s \in Realizations : ~Holds(s)
  BY <1>3 DEF LeaseInv
<1> HIDE DEF r
<1>5. ReaderTypeOK'
  BY <1>1, <1>3 DEF LeaseInv, ReaderTypeOK
<1>6. /\ control'[r] = "Running" /\ thread'[r] = "waiting"
      /\ \A s \in Realizations \ {r} : control'[s] = control[s] /\ thread'[s] = thread[s]
  BY <1>1, <1>3 DEF LeaseInv, ReaderTypeOK
<1>7. \A s \in Realizations : Holds(s)' <=> s = r
  BY <1>4, <1>6 DEF Holds
<1>8. \A s \in Realizations : Reads(s)' => s = r
  BY <1>4, <1>6 DEF LeaseInv, Reads, Holds
<1>9. \A s \in Realizations :
        s > realized' => thread'[s] = "none" /\ control'[s] = "none"
  <2> SUFFICES ASSUME NEW s \in Realizations, s > realized'
               PROVE  thread'[s] = "none" /\ control'[s] = "none"
    OBVIOUS
  <2>1. s > realized /\ s # r
    BY <1>1, <1>2 DEF r, Realizations
  <2> QED BY <2>1, <1>6 DEF LeaseInv
<1> QED BY <1>1, <1>3, <1>5, <1>7, <1>8, <1>9 DEF LeaseInv

\* A step of the reader thread ends it or leaves it its own.
LEMMA LeaseThread ==
  ASSUME LeaseInv, NEW r \in Realizations, ReaderThread(r)
  PROVE  LeaseInv'
<1>1. /\ thread[r] \in {"waiting", "reading"}
      /\ \E state \in {"waiting", "reading", "done"} :
           thread' = [thread EXCEPT ![r] = state]
  BY DEF ReaderThread, PollCancelled, PollReady, PollFails, ReadBytes, ReadEnd, ReadAgain,
         ReadFails, ReadDone
<1>2. UNCHANGED <<instance, realized, lease, control, claimant, shut, asleep>>
  BY DEF ReaderThread, PollCancelled, PollReady, PollFails, ReadBytes, ReadEnd, ReadAgain,
         ReadFails, ReadDone, ownerVars
<1>3. /\ mechanism' \in {mechanism, mechanism \cup {r}}
      /\ overrun' \in {overrun, [overrun EXCEPT ![r] = @ + 1]}
  BY DEF ReaderThread, PollCancelled, PollReady, PollFails, ReadBytes, ReadEnd, ReadAgain,
         ReadFails, ReadDone
<1>4. ReaderTypeOK'
  BY <1>1, <1>2, <1>3 DEF LeaseInv, ReaderTypeOK
<1>5. \A s \in Realizations : Reads(s)' => Reads(s)
  BY <1>1 DEF Reads, LeaseInv, ReaderTypeOK
<1>6. \A s \in Realizations : Holds(s)' <=> Holds(s)
  BY <1>2 DEF Holds
<1>7. r <= realized
  BY <1>1, InstancesAssumption DEF LeaseInv, Realizations
<1>8. \A s \in Realizations : s > realized => thread'[s] = "none"
  BY <1>1, <1>7, InstancesAssumption DEF LeaseInv, ReaderTypeOK, Realizations
<1> QED BY <1>2, <1>4, <1>5, <1>6, <1>8 DEF LeaseInv

\* stop_and_join: the lease is given back by the one caller that joined the
\* thread it was taken for.
LEMMA LeaseStop ==
  ASSUME LeaseInv, NEW r \in Realizations, ReaderStop(r)
  PROVE  LeaseInv'
<1>1. CASE \E caller \in Callers : StopClaimed(r, caller)
  <2> PICK caller \in Callers : StopClaimed(r, caller)
    BY <1>1
  <2>1. /\ control[r] = "Running" /\ control' = [control EXCEPT ![r] = "Stopping"]
        /\ claimant' = [claimant EXCEPT ![r] = caller]
        /\ UNCHANGED <<instance, realized, lease, shut, asleep, thread, mechanism, overrun>>
    BY DEF StopClaimed, ownerVars
  <2>2. ReaderTypeOK'
    BY <2>1 DEF LeaseInv, ReaderTypeOK
  <2>3. \A s \in Realizations : (Holds(s)' <=> Holds(s)) /\ (Reads(s)' <=> Reads(s))
    BY <2>1 DEF LeaseInv, ReaderTypeOK, Holds, Reads
  <2>4. \A s \in Realizations : s > realized => control'[s] = "none"
    BY <2>1 DEF LeaseInv, ReaderTypeOK
  <2> QED BY <2>1, <2>2, <2>3, <2>4 DEF LeaseInv
<1>2. CASE \E caller \in Callers : ChannelShut(r, caller) \/ StopWaits(r, caller)
  BY <1>2 DEF ChannelShut, StopWaits, ownerVars, LeaseInv, ReaderTypeOK, Holds, Reads
<1>3. CASE LeaseReturned(r)
  <2>1. /\ control[r] = "Stopping" /\ thread[r] = "done" /\ ~lease'
        /\ control' = [control EXCEPT ![r] = "Released"]
        /\ UNCHANGED <<instance, realized, claimant, shut, asleep, thread, mechanism, overrun>>
    BY <1>3 DEF LeaseReturned, MayRelease, ownerVars
  <2>2. ReaderTypeOK'
    BY <2>1, <1>3 DEF LeaseInv, ReaderTypeOK, LeaseReturned
  <2>3. \A s \in Realizations : ~Holds(s)'
    BY <2>1 DEF LeaseInv, ReaderTypeOK, Holds
  <2>4. \A s \in Realizations : ~Reads(s)'
    BY <2>1 DEF LeaseInv, ReaderTypeOK, Holds, Reads
  <2>5. \A s \in Realizations :
          s > realized => thread'[s] = "none" /\ control'[s] = "none"
    BY <2>1 DEF LeaseInv, ReaderTypeOK
  <2> QED BY <2>1, <2>2, <2>3, <2>4, <2>5 DEF LeaseInv
<1>4. CASE StopPublished(r)
  <2>1. /\ control[r] = "Released" /\ control' = [control EXCEPT ![r] = "Stopped"]
        /\ asleep' \subseteq asleep
        /\ UNCHANGED <<instance, realized, lease, claimant, shut, thread, mechanism, overrun>>
    BY <1>4 DEF StopPublished, ownerVars
  <2>2. ReaderTypeOK'
    BY <2>1 DEF LeaseInv, ReaderTypeOK
  <2>3. \A s \in Realizations : (Holds(s)' <=> Holds(s)) /\ (Reads(s)' <=> Reads(s))
    BY <2>1 DEF LeaseInv, ReaderTypeOK, Holds, Reads
  <2>4. \A s \in Realizations : s > realized => control'[s] = "none"
    BY <2>1 DEF LeaseInv, ReaderTypeOK
  <2> QED BY <2>1, <2>2, <2>3, <2>4 DEF LeaseInv
<1>5. CASE HookReturned(r) \/ TaskReturned(r)
  <2>1. UNCHANGED leaseVars
    BY <1>5 DEF HookReturned, TaskReturned, readerVars, ownerVars, leaseVars
  <2> QED BY <2>1, LeaseStutter
<1> QED BY <1>1, <1>2, <1>3, <1>4, <1>5 DEF ReaderStop

-----------------------------------------------------------------------------
\* No lease is taken and no reader is there at first.
LEMMA LeaseInit == ASSUME Init PROVE LeaseInv
<1>1. ReaderTypeOK
  BY DEF Init, ReaderInit, ReaderTypeOK
<1>2. instance \in Instances /\ realized = 0
  BY DEF Init, RealizationInit
<1>3. realized \in 0 .. MaxRealizations
  BY <1>2, InstancesAssumption
<1>4. ~lease /\ \A r \in Realizations : thread[r] = "none" /\ control[r] = "none"
  BY DEF Init, ReaderInit
<1> QED BY <1>1, <1>2, <1>3, <1>4 DEF LeaseInv, Reads, Holds

\* Every step keeps the invariant of the lease.
LEMMA LeaseStep == ASSUME LeaseInv, [Next]_vars PROVE LeaseInv'
<1>1. CASE UNCHANGED vars
  <2>1. UNCHANGED leaseVars
    BY <1>1 DEF vars, ownerVars, readerVars, leaseVars
  <2> QED BY <2>1, LeaseStutter
<1>2. CASE Surroundings /\ UNCHANGED <<readerVars, streamVars>>
  <2>1. UNCHANGED leaseVars
    BY <1>2 DEF Surroundings, StopGate, CloseScope, DropOwner, RefusalReturned,
                DroppedAtAwait, WorldWrites, WorldEnds, ownerVars, readerVars, leaseVars
  <2> QED BY <2>1, LeaseStutter
<1>3. CASE StdinSteps /\ UNCHANGED streamVars
  <2>1. ASSUME NEW rt \in Runtimes, StdinStarts(rt) PROVE LeaseInv'
    BY <2>1, LeaseTaken
  <2>2. ASSUME NEW rt \in Runtimes, StdinRefused(rt) PROVE LeaseInv'
    BY <2>2, LeaseUnread DEF StdinRefused
  <2>3. ASSUME NEW r \in Realizations, ReaderTask(r) PROVE LeaseInv'
    <3>1. UNCHANGED leaseVars
      BY <2>3 DEF ReaderTask, TaskReceives, TaskSeesClosed, TaskDropped, ownerVars,
                  readerVars, leaseVars
    <3> QED BY <3>1, LeaseStutter
  <2> QED BY <1>3, <2>1, <2>2, <2>3, LeaseThread, LeaseStop DEF StdinSteps
<1>4. CASE StreamSteps /\ UNCHANGED readerVars
  <2>1. ASSUME NEW rt \in Runtimes, MpscRuns(rt) PROVE LeaseInv'
    BY <2>1, <1>4, LeaseUnread DEF MpscRuns
  <2>2. ASSUME NEW rt \in Runtimes, TcpRuns(rt) PROVE LeaseInv'
    BY <2>2, <1>4, LeaseUnread DEF TcpRuns
  <2>3. ASSUME ~\E rt \in Runtimes : MpscRuns(rt) \/ TcpRuns(rt) PROVE LeaseInv'
    <3>1. UNCHANGED leaseVars
      BY <1>4, <2>3 DEF StreamSteps, MpscReceives, MpscClosed, TcpConnects, TcpFails,
           TcpEnds, TcpReads, EmitsOrReturns, ReturnsAfter, ownerVars, readerVars, leaseVars
    <3> QED BY <3>1, LeaseStutter
  <2> QED BY <2>1, <2>2, <2>3
<1> QED BY <1>1, <1>2, <1>3, <1>4 DEF Next

\* The invariant of the lease is inductive.
THEOREM LeaseInvariant == Spec => []LeaseInv
<1>1. Init => LeaseInv
  BY LeaseInit
<1>2. LeaseInv /\ [Next]_vars => LeaseInv'
  BY LeaseStep
<1> QED BY <1>1, <1>2, PTL DEF Spec

\* At most one reader thread, which holds the lease, and no leaked lease.
THEOREM OneReaderHolds == Spec => []OneReader
<1>1. LeaseInv => OneReader
  BY DEF LeaseInv, OneReader
<1> QED BY <1>1, LeaseInvariant, PTL

-----------------------------------------------------------------------------
(***************************************************************************)
(* A cutover reads no input after it.                                      *)
(***************************************************************************)
\* What of the invariant belongs to one realization.
CutoverOf(r) ==
  /\ r \in shut => control[r] \in {"Stopping", "Released", "Stopped"}
  /\ control[r] \in {"Released", "Stopped"} => thread[r] = "done"
  /\ r \notin shut => overrun[r] = 0
  /\ r \in shut /\ thread[r] = "reading" => overrun[r] = 0
  /\ instance.binding # "stdin" => control[r] = "none"

cutoverVars == <<instance, control, shut, thread, overrun>>

\* A step that touches nothing of a reader keeps the readers' part.
LEMMA CutoverStutter ==
  ASSUME CutoverInv, UNCHANGED cutoverVars
  PROVE  \A r \in Realizations : CutoverOf(r)'
BY DEF CutoverInv, CutoverOf, cutoverVars

\* A new reader was never told to stop: its realization had none.
LEMMA CutoverTaken ==
  ASSUME CutoverInv, NEW rt, StdinStarts(rt)
  PROVE  \A r \in Realizations : CutoverOf(r)'
<1> DEFINE r == realized + 1
<1>1. LeaseInv
  BY DEF CutoverInv
<1>2. /\ r \in Realizations /\ instance' = instance
  BY <1>1, RealizeNumbers DEF StdinStarts
<1>3. control[r] = "none"
  BY <1>1, <1>2, InstancesAssumption DEF LeaseInv, Realizations
<1>4. /\ instance.binding = "stdin"
      /\ control' = [control EXCEPT ![r] = "Running"]
      /\ thread' = [thread EXCEPT ![r] = "waiting"]
      /\ UNCHANGED <<shut, overrun>>
  BY DEF StdinStarts
<1> HIDE DEF r
<1>5. r \notin shut
  BY <1>2, <1>3 DEF CutoverInv
<1> SUFFICES ASSUME NEW s \in Realizations PROVE CutoverOf(s)'
  OBVIOUS
<1>6. CASE s = r
  <2>1. control'[s] = "Running" /\ s \notin shut' /\ overrun'[s] = overrun[s]
    BY <1>1, <1>2, <1>4, <1>5, <1>6 DEF LeaseInv, ReaderTypeOK
  <2> QED BY <2>1, <1>2, <1>4, <1>5, <1>6 DEF CutoverOf, CutoverInv
<1>7. CASE s # r
  <2>1. control'[s] = control[s] /\ thread'[s] = thread[s]
    BY <1>1, <1>4, <1>7 DEF LeaseInv, ReaderTypeOK
  <2> QED BY <2>1, <1>2, <1>4 DEF CutoverOf, CutoverInv
<1> QED BY <1>6, <1>7

\* A thread told to stop completes the read it was in and counts it.
LEMMA CutoverThread ==
  ASSUME CutoverInv, NEW r \in Realizations, ReaderThread(r)
  PROVE  \A s \in Realizations : CutoverOf(s)'
<1>1. LeaseInv
  BY DEF CutoverInv
<1>2. UNCHANGED <<instance, control, shut>>
  BY DEF ReaderThread, PollCancelled, PollReady, PollFails, ReadBytes, ReadEnd, ReadAgain,
         ReadFails, ReadDone, ownerVars
<1>3. thread[r] \in {"waiting", "reading"}
  BY DEF ReaderThread, PollCancelled, PollReady, PollFails, ReadBytes, ReadEnd, ReadAgain,
         ReadFails
<1>4. PICK state \in {"waiting", "reading", "done"} :
        /\ thread' = [thread EXCEPT ![r] = state]
        /\ state = "reading" => r \notin shut
  BY DEF ReaderThread, PollCancelled, PollReady, PollFails, ReadBytes, ReadEnd, ReadAgain,
         ReadFails, ReadDone, MayTakeInput
<1>5. overrun' = overrun \/ (r \in shut /\ overrun' = [overrun EXCEPT ![r] = @ + 1])
  BY DEF ReaderThread, PollCancelled, PollReady, PollFails, ReadBytes, ReadEnd, ReadAgain,
         ReadFails, ReadDone
<1>6. thread'[r] = state /\ \A s \in Realizations \ {r} : thread'[s] = thread[s]
  BY <1>1, <1>4 DEF LeaseInv, ReaderTypeOK
<1>7. \A s \in Realizations \ {r} : overrun'[s] = overrun[s]
  BY <1>1, <1>5 DEF LeaseInv, ReaderTypeOK
<1>8. control[r] \notin {"Released", "Stopped"}
  BY <1>3 DEF CutoverInv
<1> SUFFICES ASSUME NEW s \in Realizations PROVE CutoverOf(s)'
  OBVIOUS
<1>9. CASE s = r
  BY <1>2, <1>4, <1>5, <1>6, <1>8, <1>9 DEF CutoverOf, CutoverInv
<1>10. CASE s # r
  BY <1>2, <1>6, <1>7, <1>10 DEF CutoverOf, CutoverInv
<1> QED BY <1>9, <1>10

\* A stop shuts the channel of a reader that has not overrun it yet.
LEMMA CutoverStop ==
  ASSUME CutoverInv, NEW r \in Realizations, ReaderStop(r)
  PROVE  \A s \in Realizations : CutoverOf(s)'
<1>1. control \in [Realizations -> {"none", "Running", "Stopping", "Released", "Stopped"}]
  BY DEF CutoverInv, LeaseInv, ReaderTypeOK
<1>2. CASE \E caller \in Callers : StopClaimed(r, caller)
  <2>1. /\ control[r] = "Running" /\ control' = [control EXCEPT ![r] = "Stopping"]
        /\ UNCHANGED <<instance, shut, thread, overrun>>
    BY <1>2 DEF StopClaimed, ownerVars
  <2> QED BY <1>1, <2>1 DEF CutoverOf, CutoverInv
<1>3. CASE LeaseReturned(r)
  <2>1. /\ control[r] = "Stopping" /\ thread[r] = "done"
        /\ control' = [control EXCEPT ![r] = "Released"]
        /\ UNCHANGED <<instance, shut, thread, overrun>>
    BY <1>3 DEF LeaseReturned, MayRelease, ownerVars
  <2> QED BY <1>1, <2>1 DEF CutoverOf, CutoverInv
<1>4. CASE StopPublished(r)
  <2>1. /\ control[r] = "Released" /\ control' = [control EXCEPT ![r] = "Stopped"]
        /\ UNCHANGED <<instance, shut, thread, overrun>>
    BY <1>4 DEF StopPublished, ownerVars
  <2> QED BY <1>1, <2>1 DEF CutoverOf, CutoverInv
<1>5. CASE (\E caller \in Callers : StopWaits(r, caller)) \/ HookReturned(r) \/ TaskReturned(r)
  <2>1. UNCHANGED cutoverVars
    BY <1>5 DEF StopWaits, HookReturned, TaskReturned, readerVars, ownerVars, cutoverVars
  <2> QED BY <2>1, CutoverStutter
<1>6. CASE \E caller \in Callers : ChannelShut(r, caller)
  <2>1. /\ control[r] = "Stopping" /\ r \notin shut /\ shut' = shut \cup {r}
        /\ UNCHANGED <<instance, control, thread, overrun>>
    BY <1>6 DEF ChannelShut, ownerVars
  <2> QED BY <2>1 DEF CutoverOf, CutoverInv
<1> QED BY <1>2, <1>3, <1>4, <1>5, <1>6 DEF ReaderStop

\* Other steps of a reader's task and of the surroundings touch no reader.
LEMMA CutoverElsewhere ==
  ASSUME \/ UNCHANGED vars
         \/ Surroundings /\ UNCHANGED <<readerVars, streamVars>>
         \/ \E rt \in Runtimes : StdinRefused(rt)
         \/ \E r \in Realizations : ReaderTask(r)
         \/ StreamSteps /\ UNCHANGED readerVars
  PROVE  UNCHANGED cutoverVars
<1>1. CASE UNCHANGED vars
  BY <1>1 DEF vars, ownerVars, readerVars, cutoverVars
<1>2. CASE Surroundings /\ UNCHANGED <<readerVars, streamVars>>
  BY <1>2 DEF Surroundings, StopGate, CloseScope, DropOwner, RefusalReturned,
              DroppedAtAwait, WorldWrites, WorldEnds, ownerVars, readerVars, cutoverVars
<1>3. CASE \E rt \in Runtimes : StdinRefused(rt)
  BY <1>3 DEF StdinRefused, Realize, readerVars, cutoverVars
<1>4. CASE \E r \in Realizations : ReaderTask(r)
  BY <1>4 DEF ReaderTask, TaskReceives, TaskSeesClosed, TaskDropped, ownerVars, readerVars,
              cutoverVars
<1>5. CASE StreamSteps /\ UNCHANGED readerVars
  BY <1>5 DEF StreamSteps, MpscRuns, TcpRuns, Realize, MpscReceives, MpscClosed, TcpConnects,
       TcpFails, TcpEnds, TcpReads, EmitsOrReturns, ReturnsAfter, ownerVars, readerVars,
       cutoverVars
<1> QED BY <1>1, <1>2, <1>3, <1>4, <1>5

\* A step appends to what a realization took, if it takes anything: the
\* reader thread of that realization, or a Driver of another binding.
LEMMA OnlyReadsTake ==
  ASSUME [Next]_vars
  PROVE  \/ taken' = taken
         \/ \E r \in Realizations :
              /\ \E datum : taken' = [taken EXCEPT ![r] = datum]
              /\ \/ ReaderThread(r) /\ (thread[r] = "waiting" => r \notin shut)
                 \/ instance.binding # "stdin"
<1>1. CASE UNCHANGED vars
  BY <1>1 DEF vars, realizationVars
<1>2. CASE Surroundings /\ UNCHANGED <<readerVars, streamVars>>
  BY <1>2 DEF Surroundings, StopGate, CloseScope, DropOwner, RefusalReturned,
              DroppedAtAwait, WorldWrites, WorldEnds, realizationVars
<1>3. CASE StdinSteps /\ UNCHANGED streamVars
  <2>1. ASSUME NEW rt \in Runtimes, StdinStarts(rt) \/ StdinRefused(rt) PROVE taken' = taken
    BY <2>1 DEF StdinStarts, StdinRefused, Realize
  <2>2. ASSUME NEW r \in Realizations, ReaderTask(r) \/ ReaderStop(r) PROVE taken' = taken
    BY <2>2 DEF ReaderTask, TaskReceives, TaskSeesClosed, TaskDropped, ReaderStop,
         StopClaimed, ChannelShut, StopWaits, LeaseReturned, StopPublished, HookReturned,
         TaskReturned, realizationVars
  <2>3. ASSUME NEW r \in Realizations, \/ PollCancelled(r) \/ PollReady(r) \/ PollFails(r)
                                            \/ ReadAgain(r)
        PROVE  taken' = taken
    BY <2>3 DEF PollCancelled, PollReady, PollFails, ReadAgain, realizationVars
  <2>4. ASSUME NEW r \in Realizations, ReadBytes(r) \/ ReadEnd(r) \/ ReadFails(r)
        PROVE  /\ \E datum : taken' = [taken EXCEPT ![r] = datum]
               /\ ReaderThread(r) /\ (thread[r] = "waiting" => r \notin shut)
    BY <2>4 DEF ReadBytes, ReadEnd, ReadFails, ReadDone, ReaderThread
  <2> QED BY <1>3, <2>1, <2>2, <2>3, <2>4 DEF StdinSteps, ReaderThread
<1>4. CASE StreamSteps /\ UNCHANGED readerVars
  <2>1. ASSUME NEW rt \in Runtimes, MpscRuns(rt) \/ TcpRuns(rt) PROVE taken' = taken
    BY <2>1 DEF MpscRuns, TcpRuns, Realize
  <2>2. ASSUME NEW r \in Realizations, MpscReceives(r) \/ MpscClosed(r)
        PROVE  /\ \E datum : taken' = [taken EXCEPT ![r] = datum]
               /\ instance.binding # "stdin"
    BY <2>2 DEF MpscReceives, MpscClosed
  <2>3. ASSUME NEW r \in Realizations, TcpConnects(r) PROVE taken' = taken
    BY <2>3 DEF TcpConnects
  <2>4. ASSUME NEW r \in Realizations,
               TcpFails(r) \/ TcpEnds(r) \/ \E byte \in instance.bytes : TcpReads(r, byte)
        PROVE  /\ \E datum : taken' = [taken EXCEPT ![r] = datum]
               /\ instance.binding # "stdin"
    BY <2>4 DEF TcpFails, TcpEnds, TcpReads
  <2> QED BY <1>4, <2>1, <2>2, <2>3, <2>4 DEF StreamSteps
<1> QED BY <1>1, <1>2, <1>3, <1>4 DEF Next

\* The invariant of the cutover is inductive.
THEOREM CutoverInvariant == Spec => []CutoverInv
<1>1. Init => CutoverInv
  <2> SUFFICES ASSUME Init PROVE CutoverInv
    OBVIOUS
  <2>1. LeaseInv
    BY LeaseInit
  <2>2. /\ DOMAIN taken = Realizations /\ shut = {}
        /\ \A r \in Realizations : control[r] = "none" /\ thread[r] = "none" /\ overrun[r] = 0
    BY DEF Init, RealizationInit, ReaderInit
  <2> QED BY <2>1, <2>2 DEF CutoverInv
<1>2. CutoverInv /\ [Next]_vars => CutoverInv'
  <2> SUFFICES ASSUME CutoverInv, [Next]_vars PROVE CutoverInv'
    OBVIOUS
  <2>1. LeaseInv'
    BY LeaseStep DEF CutoverInv
  <2>2. (DOMAIN taken = Realizations)'
    BY OnlyReadsTake DEF CutoverInv
  <2>3. \A r \in Realizations : CutoverOf(r)'
    <3>1. CASE \E rt \in Runtimes : StdinStarts(rt)
      BY <3>1, CutoverTaken
    <3>2. CASE \E r \in Realizations : ReaderThread(r)
      BY <3>2, CutoverThread
    <3>3. CASE \E r \in Realizations : ReaderStop(r)
      BY <3>3, CutoverStop
    <3>4. CASE \/ UNCHANGED vars
               \/ Surroundings /\ UNCHANGED <<readerVars, streamVars>>
               \/ \E rt \in Runtimes : StdinRefused(rt)
               \/ \E r \in Realizations : ReaderTask(r)
               \/ StreamSteps /\ UNCHANGED readerVars
      BY <3>4, CutoverElsewhere, CutoverStutter
    <3> QED BY <3>1, <3>2, <3>3, <3>4 DEF Next, StdinSteps
  <2> QED BY <2>1, <2>2, <2>3 DEF CutoverInv, CutoverOf
<1> QED BY <1>1, <1>2, LeaseInvariant, PTL DEF Spec

\* No input is read behind a cutover, but for one read announced before it.
THEOREM CutoverReadsNothing == Spec => CutoverStopsReading
<1>1. CutoverInv /\ [Next]_vars =>
        [\A r \in Realizations : taken'[r] # taken[r] /\ r \in shut =>
           overrun[r] = 0 /\ control[r] = "Stopping"]_vars
  <2> SUFFICES ASSUME CutoverInv, [Next]_vars,
                      NEW r \in Realizations, taken'[r] # taken[r], r \in shut
               PROVE  overrun[r] = 0 /\ control[r] = "Stopping"
    OBVIOUS
  <2>1. PICK s \in Realizations :
          /\ \E datum : taken' = [taken EXCEPT ![s] = datum]
          /\ \/ ReaderThread(s) /\ (thread[s] = "waiting" => s \notin shut)
             \/ instance.binding # "stdin"
    BY OnlyReadsTake
  <2>2. s = r
    BY <2>1 DEF CutoverInv
  <2>3. instance.binding = "stdin"
    BY DEF CutoverInv
  <2>4. thread[r] = "reading"
    BY <2>1, <2>2, <2>3 DEF ReaderThread, PollCancelled, PollReady, PollFails, ReadBytes,
         ReadEnd, ReadAgain, ReadFails
  <2> QED BY <2>4 DEF CutoverInv
<1> QED BY <1>1, CutoverInvariant, PTL DEF Spec, CutoverStopsReading

-----------------------------------------------------------------------------
(***************************************************************************)
(* Sequences whose elements need no type, and the line decoder on them.    *)
(***************************************************************************)
\* Whatever its elements are, a sequence is one of its own elements.
LEMMA AnySequence ==
  ASSUME NEW S, NEW s \in Seq(S)
  PROVE  Sequence(s)
<1>1. \A i \in 1 .. Len(s) : s[i] \in Range(s)
  BY DEF Range
<1>2. Len(s) \in Nat /\ s = [i \in 1 .. Len(s) |-> s[i]]
  OBVIOUS
<1> QED BY <1>1, <1>2 DEF Sequence

\* The domain of a sequence.
LEMMA SequenceFacts ==
  ASSUME NEW s, Sequence(s)
  PROVE  Len(s) \in Nat /\ DOMAIN s = 1 .. Len(s) /\ (s # <<>> => Len(s) > 0)
BY DEF Sequence

\* Append puts one element behind the others (SourceGate::accept).
LEMMA SequenceAppend ==
  ASSUME NEW s, Sequence(s), NEW e
  PROVE  /\ Sequence(Append(s, e)) /\ Append(s, e) # <<>> /\ Last(Append(s, e)) = e
         /\ DOMAIN Append(s, e) = DOMAIN s \cup {Len(s) + 1} /\ Len(s) + 1 \notin DOMAIN s
         /\ Append(s, e)[Len(s) + 1] = e
         /\ \A i \in DOMAIN s : Append(s, e)[i] = s[i]
<1> DEFINE S == Range(s) \cup {e}
<1>1. s \in Seq(S) /\ e \in S
  <2>1. Range(s) \subseteq S
    OBVIOUS
  <2> QED BY <2>1, SeqMonotonic DEF Sequence
<1> HIDE DEF S
<1>2. Append(s, e) \in Seq(S) /\ Len(Append(s, e)) = Len(s) + 1
  BY <1>1
<1>3. Sequence(Append(s, e))
  BY <1>2, AnySequence
<1>4. Len(s) \in Nat /\ DOMAIN s = 1 .. Len(s)
  BY <1>1
<1>5. /\ Append(s, e)[Len(s) + 1] = e
      /\ \A i \in 1 .. Len(s) : Append(s, e)[i] = s[i]
  BY <1>1, <1>4
<1>6. DOMAIN Append(s, e) = 1 .. Len(s) + 1
  BY <1>2
<1>7. Last(Append(s, e)) = e
  BY <1>2, <1>5 DEF Last
<1> QED BY <1>2, <1>3, <1>4, <1>5, <1>6, <1>7

\* Concatenation brings no new elements.
LEMMA SequenceConcat ==
  ASSUME NEW s, NEW t, Sequence(s), Sequence(t)
  PROVE  /\ Sequence(s \o t) /\ Len(s \o t) = Len(s) + Len(t)
         /\ \A i \in DOMAIN (s \o t) :
              \/ \E j \in DOMAIN s : (s \o t)[i] = s[j]
              \/ \E j \in DOMAIN t : (s \o t)[i] = t[j]
<1> DEFINE S == Range(s) \cup Range(t)
<1>1. s \in Seq(S) /\ t \in Seq(S)
  <2>1. Range(s) \subseteq S /\ Range(t) \subseteq S
    OBVIOUS
  <2> QED BY <2>1, SeqMonotonic DEF Sequence
<1> HIDE DEF S
<1>2. /\ s \o t \in Seq(S) /\ Len(s \o t) = Len(s) + Len(t)
      /\ \A i \in 1 .. Len(s) + Len(t) : (s \o t)[i] = IF i <= Len(s) THEN s[i] ELSE t[i - Len(s)]
  BY <1>1, ConcatProperties
<1>3. Sequence(s \o t)
  BY <1>2, AnySequence
<1>4. /\ Len(s) \in Nat /\ Len(t) \in Nat
      /\ DOMAIN s = 1 .. Len(s) /\ DOMAIN t = 1 .. Len(t)
      /\ DOMAIN (s \o t) = 1 .. Len(s) + Len(t)
  BY <1>1, <1>2
<1>5. ASSUME NEW i \in DOMAIN (s \o t)
      PROVE  \/ \E j \in DOMAIN s : (s \o t)[i] = s[j]
             \/ \E j \in DOMAIN t : (s \o t)[i] = t[j]
  <2>1. CASE i <= Len(s)
    BY <1>2, <1>4, <1>5, <2>1
  <2>2. CASE ~(i <= Len(s))
    <3>1. i - Len(s) \in DOMAIN t /\ (s \o t)[i] = t[i - Len(s)]
      BY <1>2, <1>4, <1>5, <2>2
    <3> QED BY <3>1
  <2> QED BY <2>1, <2>2
<1> QED BY <1>2, <1>3, <1>5

\* Tail brings none either.
LEMMA SequenceTail ==
  ASSUME NEW s, Sequence(s), s # <<>>
  PROVE  /\ Head(s) = s[1] /\ 1 \in DOMAIN s /\ Sequence(Tail(s))
         /\ \A i \in DOMAIN Tail(s) : \E j \in DOMAIN s : Tail(s)[i] = s[j]
<1>1. /\ Len(s) \in Nat /\ DOMAIN s = 1 .. Len(s) /\ Len(s) > 0
      /\ Tail(s) \in Seq(Range(s)) /\ Len(Tail(s)) = Len(s) - 1
      /\ \A i \in 1 .. Len(Tail(s)) : Tail(s)[i] = s[i + 1]
  BY HeadTailProperties DEF Sequence
<1>2. Sequence(Tail(s))
  BY <1>1, AnySequence
<1>5. DOMAIN Tail(s) = 1 .. Len(Tail(s))
  BY <1>2, SequenceFacts
<1>3. \A i \in DOMAIN Tail(s) : i + 1 \in DOMAIN s /\ Tail(s)[i] = s[i + 1]
  BY <1>1, <1>5
<1>4. Head(s) = s[1] /\ 1 \in DOMAIN s
  BY <1>1 DEF Sequence
<1> QED BY <1>2, <1>3, <1>4

\* A chunk of a sequence is a sequence.
LEMMA SequenceMiddle ==
  ASSUME NEW s, Sequence(s), NEW m \in Nat \ {0}, NEW n \in 0 .. Len(s)
  PROVE  Sequence(SubSeq(s, m, n))
<1>1. Len(s) \in Nat /\ DOMAIN s = 1 .. Len(s)
  BY SequenceFacts
<1>2. \A i \in m .. n : s[i] \in Range(s)
  BY <1>1 DEF Range
<1>3. SubSeq(s, m, n) \in Seq(Range(s))
  BY <1>1, <1>2, SubSeqProperties
<1> QED BY <1>3, AnySequence

\* A nonempty set of numbers has a smallest one.
LEMMA SmallestNumber ==
  ASSUME NEW T, T \subseteq Nat, T # {}
  PROVE  \E n \in T : \A m \in T : n <= m
<1> DEFINE R == OpToRel(<, Nat)
<1>1. IsWellFoundedOn(R, Nat)
  BY NatLessThanWellFounded DEF OpToRel
<1>2. PICK n \in T : \A m \in T : ~(<<m, n>> \in R)
  BY <1>1, WFMin, Zenon
<1>3. \A m \in T : ~(m < n)
  BY <1>2 DEF OpToRel
<1> QED BY <1>3

\* The smallest of some numbers is found by Min.
LEMMA IsMin ==
  ASSUME NEW T \in SUBSET Nat, NEW m \in T, \A k \in T : m <= k
  PROVE  Min(T) = m
<1>1. \A x \in T : (\A y \in T : x =< y) => x = m
  <2>1. \A x \in T : x \in Int /\ m \in Int
    OBVIOUS
  <2> QED BY <2>1
<1> QED BY <1>1 DEF Min

\* The greatest of some numbers is found by Max.
LEMMA IsMax ==
  ASSUME NEW T \in SUBSET Nat, NEW m \in T, \A k \in T : k <= m
  PROVE  Max(T) = m
<1>1. \A x \in T : (\A y \in T : x >= y) => x = m
  <2>1. \A x \in T : x \in Int /\ m \in Int
    OBVIOUS
  <2> QED BY <2>1
<1>2. \A y \in T : m >= y
  <2>1. \A x \in T : x \in Int /\ m \in Int
    OBVIOUS
  <2> QED BY <2>1
<1> QED BY <1>1, <1>2 DEF Max

\* Every set of numbers has a least one.
LEMMA LeastNumber ==
  ASSUME NEW S \in SUBSET Nat, S # {}
  PROVE  Min(S) \in S
<1>1. PICK n \in S : \A m \in S : n <= m
  BY SmallestNumber
<1> QED BY <1>1, IsMin

\* The greatest number of a set that an interval holds.
LEMMA GreatestNumber ==
  ASSUME NEW n \in Nat, NEW S \in SUBSET (0 .. n), S # {}
  PROVE  Max(S) \in S
<1> DEFINE T == {n - i : i \in S}
<1>1. T \in SUBSET Nat /\ T # {}
  <2>1. \A i \in S : i \in Int /\ 0 <= i /\ i <= n
    OBVIOUS
  <2>2. \A i \in S : n - i \in Nat
    BY <2>1
  <2> QED BY <2>2
<1>2. Min(T) \in T
  BY <1>1, LeastNumber
<1>3. \A j \in T : Min(T) <= j
  <2> HIDE DEF T
  <2>1. PICK least \in T : \A m \in T : least <= m
    BY <1>1, SmallestNumber
  <2> QED BY <1>1, <2>1, IsMin
<1>4. PICK i \in S : Min(T) = n - i
  BY <1>2
<1>5. ASSUME NEW j \in S PROVE i >= j
  <2>1. n - j \in T
    OBVIOUS
  <2>2. n - i <= n - j
    BY <1>3, <1>4, <2>1
  <2>3. i \in Int /\ j \in Int
    OBVIOUS
  <2> QED BY <2>2, <2>3
<1> QED BY <1>5 DEF Max

\* What the line decoder makes: lines and ends, never a Cancelled.
Made(event) == event.kind \in {"Line", "Failed", "Ended"}

\* StdinLineDecoder::push makes such events out of any bytes.
LEMMA PushMakes ==
  ASSUME NEW left, NEW bytes, Sequence(left), Sequence(bytes)
  PROVE  /\ Sequence(Push(left, bytes).pending) /\ Sequence(Push(left, bytes).events)
         /\ \A i \in DOMAIN Push(left, bytes).events : Made(Push(left, bytes).events[i])
<1> DEFINE all == left \o bytes
           feeds == {i \in Len(left) + 1 .. Len(all) : all[i] = "lf"}
           feed(k) == CHOOSE i \in feeds : Cardinality({j \in feeds : j <= i}) = k
           start(k) == IF k = 1 THEN 1 ELSE feed(k - 1) + 1
           event(k) == Decoded(WithoutCr(SubSeq(all, start(k), feed(k) - 1)))
           failures == {k \in 1 .. Cardinality(feeds) : event(k) = Failed}
           made == IF failures = {} THEN Cardinality(feeds) ELSE Min(failures)
           rest == IF feeds = {} THEN all
                   ELSE IF failures # {} THEN <<>>
                   ELSE SubSeq(all, Max(feeds) + 1, Len(all))
           events_ == [k \in 1 .. made |-> event(k)]
<1>1. Push(left, bytes) = [pending |-> rest, events |-> events_]
  BY DEF Push
<1> HIDE DEF event, start, feed
<1>2. Sequence(all) /\ Len(left) \in Nat /\ Len(all) \in Nat
  BY SequenceConcat, SequenceFacts
<1> HIDE DEF all
<1>3. feeds \in SUBSET (0 .. Len(all)) /\ \A i \in feeds : i >= 1
  BY <1>2
<1>4. Cardinality(feeds) \in Nat
  <2>1. IsFiniteSet(0 .. Len(all))
    BY <1>2, FS_Interval
  <2>2. IsFiniteSet(feeds)
    BY <1>3, <2>1, FS_Subset
  <2> QED BY <2>2, FS_CardinalityType
<1>5. feeds # {} => Max(feeds) \in feeds
  BY <1>2, <1>3, GreatestNumber
<1> HIDE DEF feeds
<1>6. failures \in SUBSET Nat
  BY <1>4
<1>7. made \in Nat
  BY <1>4, <1>6, LeastNumber
<1> HIDE DEF made
<1>8. Sequence(rest)
  <2>1. Sequence(<<>>)
    BY DEF Sequence
  <2>2. feeds # {} => Sequence(SubSeq(all, Max(feeds) + 1, Len(all)))
    <3> SUFFICES ASSUME feeds # {} PROVE Sequence(SubSeq(all, Max(feeds) + 1, Len(all)))
      OBVIOUS
    <3> DEFINE last == Max(feeds)
    <3>1. last \in 0 .. Len(all)
      BY <1>3, <1>5
    <3> HIDE DEF last
    <3>2. last + 1 \in Nat \ {0} /\ Len(all) \in 0 .. Len(all)
      BY <1>2, <3>1
    <3> QED BY <1>2, <3>2, SequenceMiddle DEF last
  <2> QED BY <1>2, <2>1, <2>2
<1>9. Sequence(events_)
  <2>1. events_ \in Seq({event(k) : k \in 1 .. made})
    BY <1>7
  <2> QED BY <2>1, AnySequence
<1>10. \A k \in DOMAIN events_ : Made(events_[k])
  BY DEF event, Decoded, Line, Failed, Made
<1> QED BY <1>1, <1>8, <1>9, <1>10

\* StdinLineDecoder::finish makes them of any bytes left over.
LEMMA FinishMakes ==
  ASSUME NEW left
  PROVE  /\ Sequence(Finish(left))
         /\ \A i \in DOMAIN Finish(left) : Made(Finish(left)[i])
<1>1. PICK e : Made(e) /\ (Finish(left) = <<e>> \/ Finish(left) = <<Line(left), e>>)
  BY DEF Finish, Ended, Failed, Made
<1>2. Made(Line(left))
  BY DEF Line, Made
<1>3. CASE Finish(left) = <<e>>
  <2>1. <<e>> \in Seq({e}) /\ \A i \in DOMAIN <<e>> : <<e>>[i] = e
    OBVIOUS
  <2> QED BY <1>1, <1>3, <2>1, AnySequence
<1>4. CASE Finish(left) = <<Line(left), e>>
  <2> DEFINE made == <<Line(left), e>>
  <2>1. made \in Seq({Line(left), e}) /\ \A i \in DOMAIN made : made[i] \in {Line(left), e}
    OBVIOUS
  <2> QED BY <1>1, <1>2, <1>4, <2>1, AnySequence
<1> QED BY <1>1, <1>3, <1>4

-----------------------------------------------------------------------------
(***************************************************************************)
(* What goes through the channels.                                         *)
(***************************************************************************)
LEMMA ChannelStutter ==
  ASSUME ChannelInv, UNCHANGED <<input, position, pending, events>>, shut \subseteq shut'
  PROVE  ChannelInv'
BY DEF ChannelInv, ChannelOf, Sound, Sequence

\* What is read moves the position within the input; what the reader thread
\* makes of it goes behind what is in the channel.
LEMMA ChannelSends ==
  ASSUME ChannelInv, NEW r \in Realizations, NEW left, NEW made,
         Sequence(left), Sequence(made),
         \A i \in DOMAIN made : Sound(made[i], r),
         pending' \in {pending, [pending EXCEPT ![r] = left]},
         events' = [events EXCEPT ![r] = @ \o made],
         position' \in 0 .. Len(input),
         UNCHANGED <<input, shut>>
  PROVE  ChannelInv'
<1>1. /\ pending'[r] \in {pending[r], left} /\ events'[r] = events[r] \o made
      /\ \A s \in Realizations \ {r} : pending'[s] = pending[s] /\ events'[s] = events[s]
      /\ DOMAIN pending' = Realizations /\ DOMAIN events' = Realizations
  BY DEF ChannelInv
<1>2. Sequence(events[r]) /\ \A i \in DOMAIN events[r] : Sound(events[r][i], r)
  BY DEF ChannelInv, ChannelOf
<1>3. /\ Sequence(events[r] \o made)
      /\ \A i \in DOMAIN (events[r] \o made) : Sound((events[r] \o made)[i], r)
  <2> DEFINE old == events[r]
  <2>1. Sequence(old) /\ \A i \in DOMAIN old : Sound(old[i], r)
    BY <1>2
  <2> HIDE DEF old
  <2>2. /\ Sequence(old \o made)
        /\ \A i \in DOMAIN (old \o made) :
             \/ \E j \in DOMAIN old : (old \o made)[i] = old[j]
             \/ \E j \in DOMAIN made : (old \o made)[i] = made[j]
    BY <2>1, SequenceConcat
  <2>3. \A i \in DOMAIN (old \o made) : Sound((old \o made)[i], r)
    BY <2>1, <2>2
  <2> QED BY <2>2, <2>3 DEF old
<1>4. ChannelOf(r)'
  BY <1>1, <1>3 DEF ChannelInv, ChannelOf, Sound, Sequence
<1>5. \A s \in Realizations \ {r} : ChannelOf(s)'
  BY <1>1 DEF ChannelInv, ChannelOf, Sound, Sequence
<1> QED BY <1>1, <1>4, <1>5 DEF ChannelInv, Sequence

\* A single event is a sequence.
LEMMA SingleEvent ==
  ASSUME NEW e
  PROVE  Sequence(<<e>>) /\ \A i \in DOMAIN <<e>> : <<e>>[i] = e
<1>1. <<e>> \in Seq({e}) /\ \A i \in DOMAIN <<e>> : <<e>>[i] = e
  OBVIOUS
<1> QED BY <1>1, AnySequence

\* No step of the reader thread but PollCancelled sends a Cancelled.
LEMMA ChannelThread ==
  ASSUME ChannelInv, NEW r \in Realizations, ReaderThread(r)
  PROVE  ChannelInv'
<1>1. /\ Sequence(input) /\ Len(input) \in Nat /\ position \in 0 .. Len(input)
      /\ Sequence(pending[r])
  BY SequenceFacts DEF ChannelInv, ChannelOf
<1>2. CASE PollCancelled(r)
  <2>1. /\ r \in shut /\ events' = [events EXCEPT ![r] = @ \o <<Cancelled>>]
        /\ UNCHANGED <<input, position, pending, shut>>
    BY <1>2 DEF PollCancelled, Send, worldVars
  <2>2. Sound(Cancelled, r)
    BY <2>1 DEF Sound
  <2>3. Sequence(<<Cancelled>>) /\ \A i \in DOMAIN <<Cancelled>> : Sound(<<Cancelled>>[i], r)
    BY <2>2, SingleEvent
  <2> QED BY <1>1, <2>1, <2>3, ChannelSends
<1>3. CASE PollReady(r) \/ PollFails(r) \/ ReadAgain(r)
  <2>1. UNCHANGED <<input, position, pending, events, shut>>
    BY <1>3 DEF PollReady, PollFails, ReadAgain, worldVars
  <2> QED BY <2>1, ChannelStutter
<1>4. CASE ReadBytes(r)
  <2>1. /\ position < Len(input) /\ position' = Min({position + Chunk, Len(input)})
        /\ UNCHANGED <<input, shut>>
    BY <1>4 DEF ReadBytes, ReadDone
  <2>2. position' \in {position + Chunk, Len(input)} /\ position' <= Len(input)
    <3>1. position + Chunk \in Nat /\ Len(input) \in Nat
      BY <1>1, ChunkAssumption
    <3>2. \E x \in {position + Chunk, Len(input)} :
            \A y \in {position + Chunk, Len(input)} : x =< y
      BY <3>1
    <3> QED BY <2>1, <3>1, <3>2 DEF Min
  <2>3. position' \in 0 .. Len(input) /\ position + 1 \in Nat \ {0}
    BY <1>1, <2>2, ChunkAssumption
  <2> DEFINE bytes == SubSeq(input, position + 1, position')
  <2>4. Sequence(bytes)
    BY <1>1, <2>3, SequenceMiddle
  <2>5. /\ pending' = [pending EXCEPT ![r] = Push(pending[r], bytes).pending]
        /\ events' = [events EXCEPT ![r] = @ \o Push(pending[r], bytes).events]
    BY <1>4 DEF ReadBytes, ReadDone, Send
  <2> HIDE DEF bytes
  <2>6. /\ Sequence(Push(pending[r], bytes).pending) /\ Sequence(Push(pending[r], bytes).events)
        /\ \A i \in DOMAIN Push(pending[r], bytes).events :
             Made(Push(pending[r], bytes).events[i])
    BY <1>1, <2>4, PushMakes
  <2> QED BY <2>1, <2>3, <2>5, <2>6, ChannelSends DEF Made, Sound
<1>5. CASE ReadEnd(r)
  <2>1. /\ pending' = [pending EXCEPT ![r] = <<>>]
        /\ events' = [events EXCEPT ![r] = @ \o Finish(pending[r])]
        /\ UNCHANGED <<input, position, shut>>
    BY <1>5 DEF ReadEnd, ReadDone, Send
  <2>2. Sequence(<<>>)
    BY DEF Sequence
  <2> QED BY <1>1, <2>1, <2>2, FinishMakes, ChannelSends DEF Made, Sound
<1>6. CASE ReadFails(r)
  <2>1. /\ events' = [events EXCEPT ![r] = @ \o <<Failed>>]
        /\ UNCHANGED <<input, position, pending, shut>>
    BY <1>6 DEF ReadFails, ReadDone, Send
  <2>2. Sound(Failed, r)
    BY DEF Failed, Sound
  <2>3. Sequence(<<Failed>>) /\ \A i \in DOMAIN <<Failed>> : Sound(<<Failed>>[i], r)
    BY <2>2, SingleEvent
  <2> QED BY <1>1, <2>1, <2>3, ChannelSends
<1> QED BY <1>2, <1>3, <1>4, <1>5, <1>6 DEF ReaderThread

\* The Source task takes the oldest event.
LEMMA ChannelReceives ==
  ASSUME ChannelInv, NEW r \in Realizations, TaskReceives(r)
  PROVE  ChannelInv'
<1>1. /\ events[r] # <<>> /\ events' = [events EXCEPT ![r] = Tail(@)]
      /\ UNCHANGED <<input, position, pending, shut>>
  BY DEF TaskReceives, worldVars
<1>2. /\ events'[r] = Tail(events[r]) /\ DOMAIN events' = Realizations
      /\ \A s \in Realizations \ {r} : events'[s] = events[s]
  BY <1>1 DEF ChannelInv
<1>3. Sequence(events[r]) /\ \A i \in DOMAIN events[r] : Sound(events[r][i], r)
  BY DEF ChannelInv, ChannelOf
<1>4. /\ Sequence(Tail(events[r]))
      /\ \A i \in DOMAIN Tail(events[r]) : Sound(Tail(events[r])[i], r)
  BY <1>1, <1>3, SequenceTail
<1>5. ChannelOf(r)'
  BY <1>1, <1>2, <1>4 DEF ChannelInv, ChannelOf, Sound, Sequence
<1>6. \A s \in Realizations \ {r} : ChannelOf(s)'
  BY <1>1, <1>2 DEF ChannelInv, ChannelOf, Sound, Sequence
<1> QED BY <1>1, <1>2, <1>5, <1>6 DEF ChannelInv, Sequence

\* The world writes behind what it wrote, and the mpsc receiver reads on.
LEMMA ChannelWorld ==
  ASSUME ChannelInv, UNCHANGED <<pending, events, shut>>,
         \/ \E byte : WorldWrites(byte)
         \/ \E r \in Realizations : MpscReceives(r)
  PROVE  ChannelInv'
<1>1. Sequence(input) /\ Len(input) \in Nat /\ position \in 0 .. Len(input)
  BY SequenceFacts DEF ChannelInv
<1>2. CASE \E byte : WorldWrites(byte)
  <2>1. PICK byte : input' = Append(input, byte) /\ position' = position
    BY <1>2 DEF WorldWrites
  <2>2. Sequence(input') /\ Len(input') = Len(input) + 1
    <3>1. Sequence(Append(input, byte))
      BY <1>1, SequenceAppend
    <3>2. Len(Append(input, byte)) = Len(input) + 1
      BY <1>1 DEF Sequence
    <3> QED BY <2>1, <3>1, <3>2 DEF Sequence
  <2>3. position' \in 0 .. Len(input')
    BY <1>1, <2>1, <2>2
  <2> QED BY <2>2, <2>3 DEF ChannelInv, ChannelOf, Sound, Sequence
<1>3. CASE \E r \in Realizations : MpscReceives(r)
  <2>1. position < Len(input) /\ position' = position + 1 /\ input' = input
    BY <1>3 DEF MpscReceives
  <2>2. position' \in 0 .. Len(input)
    BY <1>1, <2>1
  <2> QED BY <2>1, <2>2 DEF ChannelInv, ChannelOf, Sound, Sequence
<1> QED BY <1>2, <1>3

\* Every step keeps the channels.
LEMMA ChannelStep ==
  ASSUME ChannelInv, [Next]_vars
  PROVE  ChannelInv'
<1>1. CASE \E r \in Realizations : ReaderThread(r)
  BY <1>1, ChannelThread
<1>2. CASE \E r \in Realizations : TaskReceives(r)
  BY <1>2, ChannelReceives
<1>3. CASE (\E byte \in instance.bytes : WorldWrites(byte)) /\ UNCHANGED readerVars
  BY <1>3, ChannelWorld DEF readerVars
<1>4. CASE (\E r \in Realizations : MpscReceives(r)) /\ UNCHANGED readerVars
  BY <1>4, ChannelWorld DEF readerVars
<1>5. ASSUME NEW r \in Realizations, ReaderStop(r) \/ TaskSeesClosed(r) \/ TaskDropped(r)
      PROVE  ChannelInv'
  <2>1. UNCHANGED <<input, position, pending, events>> /\ shut \subseteq shut'
    BY <1>5 DEF ReaderStop, StopClaimed, ChannelShut, StopWaits, LeaseReturned, StopPublished,
         HookReturned, TaskReturned, TaskSeesClosed, TaskDropped, worldVars, readerVars
  <2> QED BY <2>1, ChannelStutter
<1>6. ASSUME NEW rt \in Runtimes, StdinStarts(rt) \/ StdinRefused(rt) PROVE ChannelInv'
  <2>1. UNCHANGED <<input, position, pending, events, shut>>
    BY <1>6 DEF StdinStarts, StdinRefused, Realize, worldVars, readerVars
  <2> QED BY <2>1, ChannelStutter
<1>7. CASE UNCHANGED vars
  <2>1. UNCHANGED <<input, position, pending, events, shut>>
    BY <1>7 DEF vars, worldVars, readerVars
  <2> QED BY <2>1, ChannelStutter
<1>8. CASE /\ Surroundings /\ UNCHANGED readerVars
           /\ ~\E byte \in instance.bytes : WorldWrites(byte)
  <2>1. UNCHANGED <<input, position, pending, events, shut>>
    BY <1>8 DEF Surroundings, StopGate, CloseScope, DropOwner, RefusalReturned,
         DroppedAtAwait, WorldEnds, worldVars, readerVars
  <2> QED BY <2>1, ChannelStutter
<1>9. CASE /\ StreamSteps /\ UNCHANGED readerVars
           /\ ~\E r \in Realizations : MpscReceives(r)
  <2>1. UNCHANGED <<input, position, pending, events, shut>>
    BY <1>9 DEF StreamSteps, MpscRuns, TcpRuns, Realize, MpscClosed, TcpConnects, TcpFails,
         TcpEnds, TcpReads, worldVars, readerVars
  <2> QED BY <2>1, ChannelStutter
<1> QED BY <1>1, <1>2, <1>3, <1>4, <1>5, <1>6, <1>7, <1>8, <1>9
       DEF Next, StdinSteps, ReaderTask

-----------------------------------------------------------------------------
(***************************************************************************)
(* What goes through the gates.                                            *)
(***************************************************************************)
Working == {"refused", "connecting", "running"}

OwnersOnlyClose == \A rt \in Runtimes : owner'[rt] = "open" => owner[rt] = "open"

\* A realization that no step is about, but that may be stopped, aborted and
\* closed, keeps its part of the invariant.
LEMMA GateKept ==
  ASSUME GateInv, NEW s \in Realizations,
         accepted'[s] = accepted[s], runtime'[s] = runtime[s], task'[s] = task[s],
         gate'[s] \in {gate[s], "Stopped"}, s > realized' => s > realized,
         aborted \subseteq aborted', OwnersOnlyClose,
         s \in shut' => s \in shut \/ gate[s] = "Stopped" \/ task[s] \notin Working
  PROVE  GateOf(s)'
<1>1. GateOf(s) /\ runtime[s] \in Runtimes \cup {0}
  BY DEF GateInv, RealizationTypeOK
<1>2. Sequence(accepted'[s]) /\ EndingSeen(s)' = EndingSeen(s)
  BY <1>1 DEF GateOf, EndingSeen, Sequence
<1>3. task[s] = "leaving" => ~Admits(s)'
  <2>1. task[s] = "leaving" => runtime[s] \in Runtimes /\ ~Admits(s)
    BY <1>1 DEF GateOf
  <2> QED BY <2>1 DEF Admits, OwnersOnlyClose
<1> QED BY <1>1, <1>2, <1>3 DEF GateOf, Working, Sequence

\* Steps that change no gate, task or accepted event, but for gates that are
\* stopped and tasks that are aborted.
LEMMA GateSurroundings ==
  ASSUME GateInv, RealizationTypeOK',
         UNCHANGED <<realized, runtime, task, accepted>>,
         \A s \in Realizations : gate'[s] \in {gate[s], "Stopped"},
         \A rt \in Runtimes : stopping'[rt] # 0 =>
           stopping'[rt] = stopping[rt] \/ gate'[stopping'[rt]] = "Stopped",
         aborted \subseteq aborted', OwnersOnlyClose,
         \A s \in Realizations :
           s \in shut' => s \in shut \/ gate[s] = "Stopped" \/ task[s] \notin Working
  PROVE  GateInv'
<1>1. \A s \in Realizations : GateOf(s)'
  BY GateKept
<1>2. \A rt \in Runtimes : stopping'[rt] # 0 => gate'[stopping'[rt]] = "Stopped"
  <2> SUFFICES ASSUME NEW rt \in Runtimes, stopping'[rt] # 0, stopping'[rt] = stopping[rt]
               PROVE  gate'[stopping'[rt]] = "Stopped"
    OBVIOUS
  <2>1. stopping[rt] \in Realizations
    BY DEF GateInv, RealizationTypeOK
  <2>2. gate[stopping[rt]] = "Stopped"
    BY DEF GateInv
  <2> QED BY <2>1, <2>2
<1>3. (DOMAIN accepted = Realizations)'
  BY DEF GateInv
<1> QED BY <1>1, <1>2, <1>3 DEF GateInv

\* A future moves on without offering anything.
LEMMA GateTaskGoes ==
  ASSUME GateInv, NEW r \in Realizations, NEW state \in TaskState \ {"none"},
         task[r] # "none", task' = [task EXCEPT ![r] = state],
         state = "leaving" => ~Admits(r),
         state = "dropping" => r \in aborted,
         state \in Working => task[r] \in Working,
         UNCHANGED <<ownerVars, gate, hook, aborted, accepted, shut>>
  PROVE  GateInv'
<1>1. task'[r] = state /\ \A s \in Realizations \ {r} : task'[s] = task[s]
  BY DEF GateInv, RealizationTypeOK
<1>2. RealizationTypeOK'
  BY DEF GateInv, RealizationTypeOK, ownerVars
<1>3. \A s \in Realizations \ {r} : GateOf(s)'
  BY <1>1, GateKept DEF OwnersOnlyClose, ownerVars
<1>4. GateOf(r)'
  <2>1. GateOf(r)
    BY DEF GateInv
  <2>2. Admits(r)' = Admits(r) /\ EndingSeen(r)' = EndingSeen(r) /\ Sequence(accepted[r])'
    BY <2>1 DEF Admits, EndingSeen, ownerVars, GateOf, Sequence
  <2> QED BY <1>1, <2>1, <2>2 DEF GateOf, ownerVars, Working, Sequence
<1> QED BY <1>2, <1>3, <1>4 DEF GateInv, ownerVars

\* What a gate that admits is offered is accepted last.
LEMMA OfferAdmitted ==
  ASSUME GateInv, NEW r \in Realizations, NEW event, Offer(r, event), Admits(r)
  PROVE  /\ accepted' = [accepted EXCEPT ![r] = Append(@, event)]
         /\ accepted'[r] = Append(accepted[r], event)
         /\ \A s \in Realizations \ {r} : accepted'[s] = accepted[s]
         /\ Sequence(accepted'[r])
         /\ EndingSeen(r)' = IF IsTerminal(event) THEN event.kind ELSE "none"
         /\ gate' = IF IsTerminal(event) THEN [gate EXCEPT ![r] = "TerminalAccepted"] ELSE gate
<1>1. /\ accepted' = [accepted EXCEPT ![r] = Append(@, event)]
      /\ gate' = IF IsTerminal(event) THEN [gate EXCEPT ![r] = "TerminalAccepted"] ELSE gate
  BY DEF Offer
<1>2. /\ accepted'[r] = Append(accepted[r], event)
      /\ \A s \in Realizations \ {r} : accepted'[s] = accepted[s]
  BY <1>1 DEF GateInv
<1>3. /\ Sequence(Append(accepted[r], event)) /\ Append(accepted[r], event) # <<>>
      /\ Last(Append(accepted[r], event)) = event
  BY SequenceAppend DEF GateInv, GateOf
<1>4. EndingSeen(r)' = IF IsTerminal(event) THEN event.kind ELSE "none"
  BY <1>2, <1>3 DEF EndingSeen
<1> QED BY <1>1, <1>2, <1>3, <1>4 DEF Sequence

\* A future offers an event and moves on; it leaves behind an event that the
\* gate refused or that was terminal.
LEMMA GateOffers ==
  ASSUME GateInv, NEW r \in Realizations, NEW event, Offer(r, event),
         NEW state \in TaskState \ {"none", "dropping"},
         task[r] # "none", task' = [task EXCEPT ![r] = state],
         state = "leaving" => ~Admits(r) \/ IsTerminal(event),
         state \in Working => task[r] \in Working,
         UNCHANGED <<ownerVars, hook, aborted, shut>>
  PROVE  GateInv'
<1>1. CASE ~Admits(r)
  <2>1. UNCHANGED <<gate, accepted>>
    BY <1>1 DEF Offer
  <2> QED BY <1>1, <2>1, GateTaskGoes
<1>2. CASE Admits(r)
  <2>1. task'[r] = state /\ \A s \in Realizations \ {r} : task'[s] = task[s]
    BY DEF GateInv, RealizationTypeOK
  <2>2. /\ accepted' = [accepted EXCEPT ![r] = Append(@, event)]
        /\ \A s \in Realizations \ {r} : accepted'[s] = accepted[s]
        /\ Sequence(accepted'[r])
        /\ EndingSeen(r)' = IF IsTerminal(event) THEN event.kind ELSE "none"
        /\ gate' = IF IsTerminal(event) THEN [gate EXCEPT ![r] = "TerminalAccepted"] ELSE gate
    BY <1>2, OfferAdmitted
  <2>3. RealizationTypeOK'
    BY <2>2 DEF GateInv, RealizationTypeOK, ownerVars
  <2>4. gate[r] = "Active" /\ gate'[r] = IF IsTerminal(event) THEN "TerminalAccepted" ELSE "Active"
    BY <1>2, <2>2 DEF Admits, GateInv, RealizationTypeOK
  <2>5. \A s \in Realizations \ {r} : gate'[s] = gate[s]
    BY <2>2 DEF GateInv, RealizationTypeOK
  <2>6. \A s \in Realizations \ {r} : GateOf(s)'
    BY <2>1, <2>2, <2>5, GateKept DEF OwnersOnlyClose, ownerVars
  <2>7. GateOf(r)'
    <3>1. GateOf(r)
      BY DEF GateInv
    <3>2. state = "leaving" => ~Admits(r)'
      BY <1>2, <2>4 DEF Admits
    <3>3. gate'[r] = "Active" => EndingSeen(r)' = "none"
      BY <2>2, <2>4
    <3>4. (Sequence(accepted[r]))'
      BY <2>2 DEF Sequence
    <3> QED BY <2>1, <2>4, <3>1, <3>2, <3>3, <3>4 DEF GateOf, ownerVars, Working
  <2>8. \A rt \in Runtimes : stopping'[rt] # 0 => gate'[stopping'[rt]] = "Stopped"
    <3> SUFFICES ASSUME NEW rt \in Runtimes, stopping[rt] # 0
                 PROVE  gate'[stopping[rt]] = "Stopped"
      BY DEF ownerVars
    <3>1. stopping[rt] \in Realizations /\ gate[stopping[rt]] = "Stopped"
      BY DEF GateInv, RealizationTypeOK
    <3> QED BY <2>4, <2>5, <3>1
  <2> QED BY <2>2, <2>3, <2>6, <2>7, <2>8 DEF GateInv
<1> QED BY <1>1, <1>2

\* A realization that is made has accepted nothing.
LEMMA GateRealized ==
  ASSUME CutoverInv, GateInv, NEW rt \in Runtimes, NEW state \in Working, NEW hooked \in BOOLEAN,
         Realize(rt, state, hooked), UNCHANGED shut
  PROVE  GateInv'
<1>1. PICK r \in Realizations :
        /\ LeaseInv /\ r = realized + 1 /\ realized' = r /\ realized' \in 0 .. MaxRealizations
        /\ realized \in 0 .. MaxRealizations /\ instance' = instance
  BY RealizeNumbers DEF CutoverInv, LeaseInv
<1>2. /\ runtime' = [runtime EXCEPT ![r] = rt]
      /\ task' = [task EXCEPT ![r] = state]
      /\ hook' = [hook EXCEPT ![r] = hooked]
      /\ UNCHANGED <<instance, owner, stopping, gate, aborted, accepted>>
  BY <1>1 DEF Realize
<1>3. r > realized /\ (\A s \in Realizations : s > r => s > realized)
  BY <1>1 DEF Realizations
<1>4. control[r] = "none" /\ r \notin shut
  BY <1>1, <1>3 DEF LeaseInv, CutoverInv
<1>5. /\ task'[r] = state /\ runtime'[r] = rt
      /\ \A s \in Realizations \ {r} : task'[s] = task[s] /\ runtime'[s] = runtime[s]
  BY <1>1, <1>2 DEF GateInv, RealizationTypeOK
<1>6. RealizationTypeOK'
  BY <1>1, <1>2 DEF GateInv, RealizationTypeOK, TaskState, Working
<1>7. \A s \in Realizations \ {r} : GateOf(s)'
  BY <1>1, <1>2, <1>3, <1>5, GateKept DEF OwnersOnlyClose
<1>8. GateOf(r)'
  <2>1. GateOf(r) /\ gate'[r] = gate[r]
    BY <1>1, <1>2 DEF GateInv
  <2>2. Sequence(accepted'[r]) /\ EndingSeen(r)' = EndingSeen(r)
    BY <1>2, <2>1 DEF GateOf, EndingSeen, Sequence
  <2>3. ~(state = "none") /\ state # "leaving" /\ state # "dropping"
    BY DEF Working
  <2>4. rt # 0
    BY InstancesAssumption DEF Runtimes
  <2>5. ~(r > realized')
    BY <1>1
  <2> QED BY <1>2, <1>4, <1>5, <2>1, <2>2, <2>3, <2>4, <2>5 DEF GateOf, Sequence
<1>9. \A t \in Runtimes : stopping'[t] # 0 => gate'[stopping'[t]] = "Stopped"
  BY <1>2 DEF GateInv
<1>10. (DOMAIN accepted = Realizations)'
  BY <1>2 DEF GateInv
<1> QED BY <1>6, <1>7, <1>8, <1>9, <1>10 DEF GateInv

-----------------------------------------------------------------------------
(***************************************************************************)
(* What the runtime sees of such steps are steps of a SourceDriver.        *)
(***************************************************************************)
Seen == Driver!Next \/ UNCHANGED Driver!vars

\* An owner's scope as SourceDriver has it, for a realization that was made.
LEMMA SeenAdmits ==
  ASSUME NEW r \in Realizations, runtime[r] # 0
  PROVE  Driver!Admits(r) <=> Admits(r)
BY DEF Driver!Admits, Admits, OpenRealizations

\* Owners stop gates, close scopes and abort tasks.
LEMMA SeenSurroundings ==
  ASSUME GateInv, RealizationTypeOK',
         UNCHANGED <<realized, runtime, task, accepted>>,
         \A s \in Realizations : gate'[s] \in {gate[s], "Stopped"},
         aborted \subseteq aborted', OwnersOnlyClose
  PROVE  Seen
<1>1. OpenRealizations' \subseteq OpenRealizations
  <2> SUFFICES ASSUME NEW s \in Realizations, runtime[s] # 0, owner'[runtime[s]] = "open"
               PROVE  owner[runtime[s]] = "open"
    BY DEF OpenRealizations
  <2>1. runtime[s] \in Runtimes
    BY DEF GateInv, RealizationTypeOK
  <2> QED BY <2>1 DEF OwnersOnlyClose
<1>2. gate' = [s \in Realizations |-> gate'[s]]
  BY DEF RealizationTypeOK
<1>3. \A s \in Realizations : /\ TaskSeen(s)' = TaskSeen(s) /\ ItemsSeen(s)' = ItemsSeen(s)
                              /\ EndingSeen(s)' = EndingSeen(s)
  BY DEF TaskSeen, ItemsSeen, EndingSeen
<1>4. Driver!Interferes
  BY <1>1, <1>2, <1>3 DEF Driver!Interferes
<1> QED BY <1>4 DEF Seen, Driver!Next

\* A future moves on: what leaves by itself, ends or is dropped is seen when
\* its task exits.
LEMMA SeenTaskGoes ==
  ASSUME GateInv, NEW r \in Realizations, NEW state \in TaskState \ {"none"},
         task[r] \notin Exited \cup {"none"}, task' = [task EXCEPT ![r] = state],
         state = "ok" => ~Admits(r),
         state = "cancelled" => r \in aborted,
         UNCHANGED <<ownerVars, gate, hook, aborted, accepted, shut>>
  PROVE  Seen
<1>1. /\ TaskSeen(r) = "running"
      /\ TaskSeen(r)' = IF state \in Exited THEN state ELSE "running"
      /\ \A s \in Realizations \ {r} : TaskSeen(s)' = TaskSeen(s)
  BY DEF GateInv, RealizationTypeOK, TaskSeen
<1>2. /\ UNCHANGED <<OpenRealizations, gate, aborted>>
      /\ \A s \in Realizations : ItemsSeen(s)' = ItemsSeen(s) /\ EndingSeen(s)' = EndingSeen(s)
  BY DEF OpenRealizations, ItemsSeen, EndingSeen, ownerVars
<1>3. CASE state \notin Exited
  <2>1. \A s \in Realizations : TaskSeen(s)' = TaskSeen(s)
    BY <1>1, <1>3
  <2> QED BY <1>2, <2>1 DEF Seen, Driver!vars
<1>4. CASE state \in Exited
  <2>1. Driver!TaskGoes(r, state)
    BY <1>1, <1>2, <1>4 DEF Driver!TaskGoes
  <2>2. CASE state = "ok"
    <3>1. runtime[r] # 0
      BY DEF GateInv, GateOf
    <3>2. ~Driver!Admits(r)
      BY <2>2, <3>1, SeenAdmits
    <3>3. Driver!Returns(r)
      BY <1>1, <1>2, <2>1, <2>2, <3>2 DEF Driver!Returns
    <3> QED BY <3>3 DEF Seen, Driver!Next
  <2>3. CASE state = "failed"
    <3>1. Driver!Fails(r)
      BY <1>1, <1>2, <2>1, <2>3 DEF Driver!Fails
    <3> QED BY <3>1 DEF Seen, Driver!Next
  <2>4. CASE state = "cancelled"
    <3>1. Driver!Dropped(r)
      BY <1>1, <1>2, <2>1, <2>4 DEF Driver!Dropped
    <3> QED BY <3>1 DEF Seen, Driver!Next
  <2> QED BY <1>4, <2>2, <2>3, <2>4 DEF Exited
<1> QED BY <1>3, <1>4

\* One more item is accepted unless the event is terminal.
LEMMA SeenItems ==
  ASSUME GateInv, NEW r \in Realizations, NEW event,
         accepted'[r] = Append(accepted[r], event)
  PROVE  ItemsSeen(r)' = IF IsTerminal(event) THEN ItemsSeen(r) ELSE ItemsSeen(r) + 1
<1> DEFINE s == accepted[r]
           t == Append(s, event)
           n == Len(s) + 1
           items == {i \in DOMAIN s : ~IsTerminal(s[i])}
           more == {i \in DOMAIN t : ~IsTerminal(t[i])}
<1>1. Sequence(s)
  BY DEF GateInv, GateOf
<1>2. ItemsSeen(r) = Cardinality(items) /\ ItemsSeen(r)' = Cardinality(more)
  BY DEF ItemsSeen
<1> HIDE DEF s
<1>3. /\ DOMAIN t = DOMAIN s \cup {n} /\ n \notin DOMAIN s /\ t[n] = event
      /\ \A i \in DOMAIN s : t[i] = s[i]
  BY <1>1, SequenceAppend
<1> HIDE DEF t, n
<1>4. more = IF IsTerminal(event) THEN items ELSE items \cup {n}
  BY <1>3
<1>5. n \notin items
  BY <1>3
<1>6. IsFiniteSet(items)
  <2>1. Len(s) \in Nat /\ DOMAIN s = 1 .. Len(s)
    BY <1>1, SequenceFacts
  <2>2. IsFiniteSet(1 .. Len(s))
    BY <2>1, FS_Interval
  <2>3. items \subseteq 1 .. Len(s)
    BY <2>1
  <2> QED BY <2>2, <2>3, FS_Subset
<1> HIDE DEF items, more
<1>7. Cardinality(items \cup {n}) = Cardinality(items) + 1
  BY <1>5, <1>6, FS_AddElement
<1> QED BY <1>2, <1>4, <1>7

\* A future offers an event and moves on; one that returns with the gate
\* still admitting ends its Source in that step.
LEMMA SeenOffers ==
  ASSUME GateInv, NEW r \in Realizations, NEW event, Offer(r, event),
         NEW state \in {"running", "leaving", "ok"},
         task[r] \notin Exited \cup {"none"}, task' = [task EXCEPT ![r] = state],
         state = "ok" => ~Admits(r) \/ IsTerminal(event),
         UNCHANGED <<ownerVars, hook, aborted, shut>>
  PROVE  Seen
<1>1. CASE ~Admits(r)
  <2>1. UNCHANGED <<gate, accepted>>
    BY <1>1 DEF Offer
  <2>2. state \in TaskState \ {"none"} /\ state # "cancelled"
    BY DEF TaskState, Exited
  <2> QED BY <1>1, <2>1, <2>2, SeenTaskGoes
<1>2. CASE Admits(r)
  <2>1. /\ TaskSeen(r) = "running"
        /\ TaskSeen(r)' = IF state = "ok" THEN "ok" ELSE "running"
        /\ \A s \in Realizations \ {r} : TaskSeen(s)' = TaskSeen(s)
    BY DEF GateInv, RealizationTypeOK, TaskSeen, Exited
  <2>2. runtime[r] # 0 /\ UNCHANGED <<OpenRealizations, aborted>>
    BY DEF GateInv, GateOf, OpenRealizations, ownerVars
  <2>3. Driver!Admits(r)
    BY <1>2, <2>2, SeenAdmits
  <2>4. /\ accepted'[r] = Append(accepted[r], event)
        /\ \A s \in Realizations \ {r} : accepted'[s] = accepted[s]
        /\ EndingSeen(r)' = IF IsTerminal(event) THEN event.kind ELSE "none"
        /\ gate' = IF IsTerminal(event) THEN [gate EXCEPT ![r] = "TerminalAccepted"] ELSE gate
    BY <1>2, OfferAdmitted
  <2>5. \A s \in Realizations \ {r} : ItemsSeen(s)' = ItemsSeen(s) /\ EndingSeen(s)' = EndingSeen(s)
    BY <2>4 DEF ItemsSeen, EndingSeen
  <2>6. ItemsSeen(r)' = IF IsTerminal(event) THEN ItemsSeen(r) ELSE ItemsSeen(r) + 1
    BY <2>4, SeenItems
  <2>7. EndingSeen(r) = "none"
    BY <1>2 DEF Admits, GateInv, GateOf
  <2>8. CASE IsTerminal(event)
    <3>1. Driver!AcceptsEnd(r, event.kind) /\ event.kind \in {"Failed", "Ended"}
      BY <2>3, <2>4, <2>5, <2>6, <2>8 DEF Driver!AcceptsEnd, IsTerminal
    <3>2. CASE state = "ok"
      <4>1. Driver!TaskGoes(r, "ok")
        BY <2>1, <2>2, <3>2 DEF Driver!TaskGoes
      <4>2. Driver!Returns(r)
        BY <2>1, <2>3, <3>1, <4>1 DEF Driver!Returns
      <4> QED BY <4>2 DEF Seen, Driver!Next
    <3>3. CASE state # "ok"
      <4>1. \A s \in Realizations : TaskSeen(s)' = TaskSeen(s)
        BY <2>1, <3>3
      <4>2. Driver!Emits(r)
        BY <2>1, <2>2, <3>1, <4>1 DEF Driver!Emits
      <4> QED BY <4>2 DEF Seen, Driver!Next
    <3> QED BY <3>2, <3>3
  <2>9. CASE ~IsTerminal(event)
    <3>1. \A s \in Realizations : TaskSeen(s)' = TaskSeen(s) /\ EndingSeen(s)' = EndingSeen(s)
      BY <1>2, <2>1, <2>4, <2>5, <2>7, <2>9
    <3>2. Driver!AcceptsItem(r)
      BY <2>3, <2>4, <2>5, <2>6, <2>9, <3>1 DEF Driver!AcceptsItem
    <3>3. Driver!Emits(r)
      BY <2>1, <2>2, <3>1, <3>2 DEF Driver!Emits
    <3> QED BY <3>3 DEF Seen, Driver!Next
  <2> QED BY <2>8, <2>9
<1> QED BY <1>1, <1>2

\* A realization is made for an owner whose scope accepts Source events.
LEMMA SeenRealized ==
  ASSUME CutoverInv, GateInv, NEW rt \in Runtimes, NEW state \in Working, NEW hooked \in BOOLEAN,
         Realize(rt, state, hooked)
  PROVE  Seen
<1>1. PICK r \in Realizations :
        /\ r = realized + 1 /\ realized' = r /\ realized \in 0 .. MaxRealizations
  BY RealizeNumbers DEF CutoverInv, LeaseInv
<1>2. /\ owner[rt] = "open"
      /\ runtime' = [runtime EXCEPT ![r] = rt]
      /\ task' = [task EXCEPT ![r] = state]
      /\ UNCHANGED <<owner, gate, aborted, accepted>>
  BY <1>1 DEF Realize
<1>3. task[r] = "none" /\ runtime[r] = 0
  <2>1. r > realized
    BY <1>1
  <2> QED BY <2>1 DEF GateInv, GateOf
<1>4. /\ runtime'[r] = rt /\ \A s \in Realizations \ {r} : runtime'[s] = runtime[s]
      /\ task'[r] = state /\ \A s \in Realizations \ {r} : task'[s] = task[s]
  BY <1>2 DEF GateInv, RealizationTypeOK
<1>5. OpenRealizations' = OpenRealizations
  BY <1>2, <1>3, <1>4 DEF OpenRealizations
<1>6. /\ TaskSeen(r) = "none" /\ TaskSeen(r)' = "running"
      /\ \A s \in Realizations \ {r} : TaskSeen(s)' = TaskSeen(s)
  BY <1>3, <1>4 DEF TaskSeen, Working, Exited
<1>7. \A s \in Realizations : ItemsSeen(s)' = ItemsSeen(s) /\ EndingSeen(s)' = EndingSeen(s)
  BY <1>2 DEF ItemsSeen, EndingSeen
<1>8. Driver!Starts(r)
  BY <1>2, <1>5, <1>6, <1>7 DEF Driver!Starts, Driver!TaskGoes
<1> QED BY <1>8 DEF Seen, Driver!Next

-----------------------------------------------------------------------------
(***************************************************************************)
(* Every action is one of these, so it keeps the invariant and is seen as  *)
(* a step of a SourceDriver.                                               *)
(***************************************************************************)
\* The two lemmas on a future that moves on, together.
LEMMA FutureGoes ==
  ASSUME GateInv, NEW r \in Realizations, NEW state \in TaskState \ {"none"},
         task[r] \notin Exited \cup {"none"}, task' = [task EXCEPT ![r] = state],
         state \in {"ok", "leaving"} => ~Admits(r),
         state \in {"cancelled", "dropping"} => r \in aborted,
         state \in Working => task[r] \in Working,
         UNCHANGED <<ownerVars, gate, hook, aborted, accepted, shut>>
  PROVE  GateInv' /\ Seen
<1>1. GateInv'
  BY GateTaskGoes
<1>2. Seen
  BY SeenTaskGoes
<1> QED BY <1>1, <1>2

\* The two lemmas on a future that offers an event, together.
LEMMA FutureOffers ==
  ASSUME GateInv, NEW r \in Realizations, NEW event, Offer(r, event),
         NEW state \in {"running", "leaving", "ok"},
         task[r] \in Working, task' = [task EXCEPT ![r] = state],
         state # "running" => ~Admits(r) \/ IsTerminal(event),
         UNCHANGED <<ownerVars, hook, aborted, shut>>
  PROVE  GateInv' /\ Seen
<1>1. /\ state \in TaskState \ {"none", "dropping"}
      /\ task[r] \notin Exited \cup {"none"}
  BY DEF TaskState, Working, Exited
<1>2. GateInv'
  BY <1>1, GateOffers
<1>3. Seen
  BY <1>1, SeenOffers
<1> QED BY <1>2, <1>3

\* Owners stop, close and abort; the world writes.
LEMMA GateOwners ==
  ASSUME GateInv, Surroundings, UNCHANGED shut
  PROVE  GateInv' /\ Seen
<1>1. ASSUME NEW rt \in Runtimes, NEW r \in Realizations, StopGate(rt, r) PROVE GateInv' /\ Seen
  <2>1. /\ gate' = [gate EXCEPT ![r] = "Stopped"] /\ hook' = [hook EXCEPT ![r] = FALSE]
        /\ stopping' \in {stopping, [stopping EXCEPT ![rt] = r]}
        /\ aborted' \in {aborted, aborted \cup {r}}
        /\ UNCHANGED <<instance, realized, runtime, owner, task, accepted>>
    BY <1>1 DEF StopGate
  <2>2. RealizationTypeOK'
    BY <2>1 DEF GateInv, RealizationTypeOK
  <2>3. gate'[r] = "Stopped" /\ \A s \in Realizations : gate'[s] \in {gate[s], "Stopped"}
    BY <2>1 DEF GateInv, RealizationTypeOK
  <2>4. \A t \in Runtimes : stopping'[t] \in {stopping[t], r}
    BY <2>1 DEF GateInv, RealizationTypeOK
  <2>5. \A t \in Runtimes : stopping'[t] # 0 =>
          stopping'[t] = stopping[t] \/ gate'[stopping'[t]] = "Stopped"
    BY <2>3, <2>4
  <2> QED BY <2>1, <2>2, <2>3, <2>5, GateSurroundings, SeenSurroundings DEF OwnersOnlyClose
<1>2. ASSUME NEW rt \in Runtimes, CloseScope(rt) \/ DropOwner(rt) PROVE GateInv' /\ Seen
  <2>1. /\ owner' \in {[owner EXCEPT ![rt] = "closed"], [owner EXCEPT ![rt] = "dropped"]}
        /\ aborted \subseteq aborted' /\ aborted' \subseteq aborted \cup Realizations
        /\ UNCHANGED <<instance, realized, runtime, stopping, gate, hook, task, accepted>>
    BY <1>2 DEF CloseScope, DropOwner, realizationVars
  <2>2. RealizationTypeOK' /\ OwnersOnlyClose
    BY <2>1 DEF GateInv, RealizationTypeOK, OwnersOnlyClose
  <2> QED BY <2>1, <2>2, GateSurroundings, SeenSurroundings
<1>3. ASSUME NEW r \in Realizations, RefusalReturned(r) \/ DroppedAtAwait(r) PROVE GateInv' /\ Seen
  <2>1. PICK state \in {"failed", "cancelled"} :
          /\ task[r] \in Working /\ task' = [task EXCEPT ![r] = state]
          /\ state = "cancelled" => r \in aborted
          /\ UNCHANGED <<ownerVars, gate, hook, aborted, accepted, shut>>
    BY <1>3 DEF RefusalReturned, DroppedAtAwait, Working
  <2> QED BY <2>1, FutureGoes DEF TaskState, Exited, Working
<1>4. ASSUME (\E byte \in instance.bytes : WorldWrites(byte)) \/ WorldEnds PROVE GateInv' /\ Seen
  <2>1. UNCHANGED <<ownerVars, realizationVars>>
    BY <1>4 DEF WorldWrites, WorldEnds
  <2>2. RealizationTypeOK'
    BY <2>1 DEF GateInv, RealizationTypeOK, ownerVars, realizationVars
  <2> QED BY <2>1, <2>2, GateSurroundings, SeenSurroundings
          DEF OwnersOnlyClose, ownerVars, realizationVars
<1> QED BY <1>1, <1>2, <1>3, <1>4 DEF Surroundings

\* The reader's own steps, and the stop of it, are no business of the gate;
\* an owner that waits in its hook stopped the gate before.
LEMMA GateReader ==
  ASSUME GateInv, NEW r \in Realizations, ReaderThread(r) \/ ReaderStop(r)
  PROVE  GateInv' /\ Seen
<1>1. ASSUME UNCHANGED <<ownerVars, gate, hook, task, aborted, accepted>>,
             \A s \in Realizations :
               s \in shut' => s \in shut \/ gate[s] = "Stopped" \/ task[s] \notin Working
      PROVE  GateInv' /\ Seen
  <2>1. RealizationTypeOK'
    BY <1>1 DEF GateInv, RealizationTypeOK, ownerVars
  <2> QED BY <1>1, <2>1, GateSurroundings, SeenSurroundings DEF OwnersOnlyClose, ownerVars
<1>2. CASE ReaderThread(r)
  <2>1. UNCHANGED <<ownerVars, gate, hook, task, aborted, accepted, shut>>
    BY <1>2 DEF ReaderThread, PollCancelled, PollReady, PollFails, ReadBytes, ReadEnd,
         ReadAgain, ReadFails, ReadDone, realizationVars
  <2> QED BY <1>1, <2>1
<1>3. CASE \E caller \in Callers : ChannelShut(r, caller)
  <2>1. PICK caller \in Callers : ChannelShut(r, caller)
    BY <1>3
  <2>2. /\ InStop(r, caller) /\ shut' = shut \cup {r}
        /\ UNCHANGED <<ownerVars, gate, hook, task, aborted, accepted>>
    BY <2>1 DEF ChannelShut, realizationVars
  <2>3. gate[r] = "Stopped" \/ task[r] \notin Working
    <3>1. CASE caller = "owner"
      <4>1. PICK rt \in Runtimes : stopping[rt] = r
        BY <2>2, <3>1 DEF InStop
      <4>2. r # 0
        BY InstancesAssumption DEF Realizations
      <4> QED BY <4>1, <4>2 DEF GateInv
    <3>2. CASE caller # "owner"
      BY <2>2, <3>2 DEF InStop, Working
    <3> QED BY <3>1, <3>2
  <2> QED BY <1>1, <2>2, <2>3
<1>4. CASE \/ \E caller \in Callers : StopClaimed(r, caller) \/ StopWaits(r, caller)
           \/ LeaseReturned(r) \/ StopPublished(r)
  <2>1. UNCHANGED <<ownerVars, gate, hook, task, aborted, accepted, shut>>
    BY <1>4 DEF StopClaimed, StopWaits, LeaseReturned, StopPublished, realizationVars
  <2> QED BY <1>1, <2>1
<1>5. CASE HookReturned(r)
  <2>1. /\ stopping' = [stopping EXCEPT ![runtime[r]] = 0] /\ aborted' = aborted \cup {r}
        /\ UNCHANGED <<instance, realized, runtime, owner, gate, hook, task, accepted, shut>>
    BY <1>5 DEF HookReturned, readerVars
  <2>2. RealizationTypeOK'
    BY <2>1 DEF GateInv, RealizationTypeOK
  <2>3. \A rt \in Runtimes : stopping'[rt] # 0 => stopping'[rt] = stopping[rt]
    BY <2>1 DEF GateInv, RealizationTypeOK
  <2> QED BY <2>1, <2>2, <2>3, GateSurroundings, SeenSurroundings DEF OwnersOnlyClose
<1>6. CASE TaskReturned(r)
  <2>1. /\ task[r] \in {"leaving", "broken", "dropping"}
        /\ task' = [task EXCEPT ![r] = TaskOutcome(r)]
        /\ UNCHANGED <<ownerVars, gate, hook, aborted, accepted, shut>>
    BY <1>6 DEF TaskReturned, StopReturns, InStop, readerVars
  <2>2. /\ TaskOutcome(r) \in Exited
        /\ TaskOutcome(r) = "ok" => ~Admits(r)
        /\ TaskOutcome(r) = "cancelled" => r \in aborted
    BY <2>1 DEF TaskOutcome, Exited, GateInv, GateOf
  <2> QED BY <2>1, <2>2, FutureGoes DEF TaskState, Exited, Working
<1> QED BY <1>2, <1>3, <1>4, <1>5, <1>6 DEF ReaderStop

\* The loop of the Source task: a Cancelled is received behind a stopped gate.
LEMMA GateTask ==
  ASSUME ChannelInv, GateInv, NEW r \in Realizations, ReaderTask(r)
  PROVE  GateInv' /\ Seen
<1>1. CASE TaskReceives(r)
  <2> DEFINE event == Head(events[r])
  <2>1. /\ task[r] = "running" /\ events[r] # <<>>
        /\ IF event = Cancelled THEN UNCHANGED <<accepted, gate>> ELSE Offer(r, event)
        /\ task' = IF LoopGoesOn(r, event) THEN task ELSE [task EXCEPT ![r] = "leaving"]
        /\ UNCHANGED <<ownerVars, hook, aborted, shut>>
    BY <1>1 DEF TaskReceives
  <2>2. Sound(event, r)
    <3>1. Sequence(events[r]) /\ \A i \in DOMAIN events[r] : Sound(events[r][i], r)
      BY DEF ChannelInv, ChannelOf
    <3>2. event = events[r][1] /\ 1 \in DOMAIN events[r]
      BY <2>1, <3>1, SequenceTail
    <3> QED BY <3>1, <3>2
  <2> HIDE DEF event
  <2>3. PICK state \in {"running", "leaving"} :
          /\ task' = [task EXCEPT ![r] = state]
          /\ state = "leaving" => event.kind # "Line" \/ ~Admits(r)
    BY <2>1 DEF LoopGoesOn, GateInv, RealizationTypeOK
  <2>4. CASE event = Cancelled
    <3>1. event.kind \notin {"Line", "Failed", "Ended"}
      BY <2>4 DEF Cancelled
    <3>2. gate[r] = "Stopped"
      BY <2>1, <2>2, <3>1 DEF Sound, GateInv, GateOf
    <3>3. ~Admits(r)
      BY <3>2 DEF Admits
    <3> QED BY <2>1, <2>3, <2>4, <3>3, FutureGoes DEF TaskState, Exited, Working
  <2>5. CASE event # Cancelled
    <3>1. event.kind # "Line" => IsTerminal(event)
      BY <2>2, <2>5 DEF Sound, IsTerminal
    <3> QED BY <2>1, <2>3, <2>5, <3>1, FutureOffers DEF Working
  <2> QED BY <2>4, <2>5
<1>2. CASE TaskSeesClosed(r)
  <2>1. /\ task[r] = "running" /\ task' = [task EXCEPT ![r] = "broken"]
        /\ UNCHANGED <<ownerVars, gate, hook, aborted, accepted, shut>>
    BY <1>2 DEF TaskSeesClosed, readerVars
  <2> QED BY <2>1, FutureGoes DEF TaskState, Exited, Working
<1>3. CASE TaskDropped(r)
  <2>1. /\ task[r] = "running" /\ task' = [task EXCEPT ![r] = "dropping"] /\ r \in aborted
        /\ UNCHANGED <<ownerVars, gate, hook, aborted, accepted, shut>>
    BY <1>3 DEF TaskDropped, readerVars
  <2> QED BY <2>1, FutureGoes DEF TaskState, Exited, Working
<1> QED BY <1>1, <1>2, <1>3 DEF ReaderTask

\* The Drivers that return what they read in the step that reads it.
LEMMA GateStreams ==
  ASSUME GateInv, NEW r \in Realizations, UNCHANGED shut,
         \/ MpscReceives(r) \/ MpscClosed(r) \/ TcpConnects(r) \/ TcpFails(r) \/ TcpEnds(r)
         \/ \E byte \in instance.bytes : TcpReads(r, byte)
  PROVE  GateInv' /\ Seen
<1>1. CASE TcpConnects(r)
  <2>1. /\ task[r] = "connecting" /\ task' = [task EXCEPT ![r] = "running"]
        /\ UNCHANGED <<ownerVars, gate, hook, aborted, accepted, shut>>
    BY <1>1 DEF TcpConnects
  <2> QED BY <2>1, FutureGoes DEF TaskState, Exited, Working
<1>2. CASE MpscClosed(r) \/ TcpFails(r) \/ TcpEnds(r)
  <2>1. PICK event : ReturnsAfter(r, event) /\ IsTerminal(event) /\ task[r] \in Working
    BY <1>2 DEF MpscClosed, TcpFails, TcpEnds, IsTerminal, Ended, Failed, Working
  <2>2. PICK state \in {"ok"} :
          /\ Offer(r, event) /\ task' = [task EXCEPT ![r] = state]
          /\ UNCHANGED <<ownerVars, hook, aborted>>
    BY <2>1 DEF ReturnsAfter
  <2> QED BY <2>1, <2>2, FutureOffers
<1>3. CASE MpscReceives(r) \/ \E byte \in instance.bytes : TcpReads(r, byte)
  <2>1. PICK event : EmitsOrReturns(r, event) /\ task[r] = "running"
    BY <1>3 DEF MpscReceives, TcpReads
  <2>2. PICK state \in {"running", "ok"} :
          /\ Offer(r, event) /\ task' = [task EXCEPT ![r] = state]
          /\ state = "ok" => ~Admits(r)
          /\ UNCHANGED <<ownerVars, hook, aborted>>
    BY <2>1 DEF EmitsOrReturns, GateInv, RealizationTypeOK
  <2> QED BY <2>1, <2>2, FutureOffers DEF Working
<1> QED BY <1>1, <1>2, <1>3

\* Every step keeps the gates.
LEMMA GateStep ==
  ASSUME DriverInv, [Next]_vars
  PROVE  GateInv' /\ Seen
<1>1. CutoverInv /\ ChannelInv /\ GateInv
  BY DEF DriverInv
<1>2. CASE UNCHANGED vars
  <2>1. UNCHANGED <<ownerVars, realizationVars, shut>>
    BY <1>2 DEF vars, readerVars
  <2>2. RealizationTypeOK'
    BY <1>1, <2>1 DEF GateInv, RealizationTypeOK, ownerVars, realizationVars
  <2> QED BY <1>1, <2>1, <2>2, GateSurroundings, SeenSurroundings
          DEF OwnersOnlyClose, ownerVars, realizationVars
<1>3. CASE Surroundings /\ UNCHANGED <<readerVars, streamVars>>
  BY <1>1, <1>3, GateOwners DEF readerVars
<1>4. CASE StdinSteps /\ UNCHANGED streamVars
  <2>1. ASSUME NEW rt \in Runtimes, StdinStarts(rt) \/ StdinRefused(rt) PROVE GateInv' /\ Seen
    <3>1. \E state \in Working, hooked \in BOOLEAN : Realize(rt, state, hooked)
      BY <2>1 DEF StdinStarts, StdinRefused, Working
    <3>2. UNCHANGED shut
      BY <2>1 DEF StdinStarts, StdinRefused, readerVars
    <3> QED BY <1>1, <3>1, <3>2, GateRealized, SeenRealized
  <2> QED BY <1>1, <1>4, <2>1, GateReader, GateTask DEF StdinSteps
<1>5. CASE StreamSteps /\ UNCHANGED readerVars
  <2>1. UNCHANGED shut
    BY <1>5 DEF readerVars
  <2>2. ASSUME NEW rt \in Runtimes, MpscRuns(rt) \/ TcpRuns(rt) PROVE GateInv' /\ Seen
    <3>1. \E state \in Working, hooked \in BOOLEAN : Realize(rt, state, hooked)
      BY <2>2 DEF MpscRuns, TcpRuns, Working
    <3> QED BY <1>1, <2>1, <3>1, GateRealized, SeenRealized
  <2> QED BY <1>1, <1>5, <2>1, <2>2, GateStreams DEF StreamSteps
<1> QED BY <1>2, <1>3, <1>4, <1>5 DEF Next

\* The invariant of Drivers, their channels and their gates is inductive.
THEOREM DriverInvariant == Spec => []DriverInv
<1>1. Init => ChannelInv /\ GateInv
  <2> SUFFICES ASSUME Init PROVE ChannelInv /\ GateInv
    OBVIOUS
  <2>1. Sequence(<<>>) /\ Len(<<>>) = 0
    BY DEF Sequence
  <2>2. ChannelInv
    BY <2>1 DEF Init, RealizationInit, ReaderInit, ChannelInv, ChannelOf
  <2>3. RealizationTypeOK
    <3>1. realized \in 0 .. MaxRealizations
      BY InstancesAssumption DEF Init, RealizationInit
    <3> QED BY <3>1 DEF Init, RealizationInit, RealizationTypeOK, TaskState
  <2>4. \A r \in Realizations : GateOf(r)
    BY <2>1 DEF Init, RealizationInit, ReaderInit, GateOf, EndingSeen
  <2> QED BY <2>2, <2>3, <2>4 DEF Init, RealizationInit, GateInv
<1>2. DriverInv /\ [Next]_vars => ChannelInv' /\ GateInv'
  BY ChannelStep, GateStep DEF DriverInv
<1> QED BY <1>1, <1>2, CutoverInvariant, PTL DEF Spec, DriverInv

\* First-party Drivers implement SourceDriver, the Driver that LiveDrivers has
\* in its place: they start once, emit through a gate that admits, end their
\* Source before they return, and are dropped only when they were aborted.
\* That aborted tasks end takes fairness and is model-checked.
THEOREM DriversAreDrivers == Spec => Driver!Spec
<1>1. Init => Driver!Init
  <2> SUFFICES ASSUME Init PROVE Driver!Init
    OBVIOUS
  <2>1. /\ runtime = [r \in Realizations |-> 0] /\ task = [r \in Realizations |-> "none"]
        /\ accepted = [r \in Realizations |-> <<>>] /\ aborted = {}
        /\ gate = [r \in Realizations |-> "Active"]
    BY DEF Init, RealizationInit
  <2>2. OpenRealizations = Realizations
    BY <2>1 DEF OpenRealizations
  <2>3. \A r \in Realizations : TaskSeen(r) = "none" /\ EndingSeen(r) = "none"
    BY <2>1 DEF TaskSeen, EndingSeen
  <2>4. ASSUME NEW r \in Realizations PROVE ItemsSeen(r) = 0
    <3>1. {i \in DOMAIN accepted[r] : ~IsTerminal(accepted[r][i])} = {}
      BY <2>1
    <3> QED BY <3>1, FS_EmptySet DEF ItemsSeen
  <2> QED BY <2>1, <2>2, <2>3, <2>4 DEF Driver!Init
<1>2. DriverInv /\ [Next]_vars => [Driver!Next]_(Driver!vars)
  BY GateStep DEF Seen
<1> QED BY <1>1, <1>2, DriverInvariant, PTL DEF Spec, Driver!Spec

-----------------------------------------------------------------------------
(***************************************************************************)
(* Loops.                                                                  *)
(***************************************************************************)
\* Induction on the passes of a loop.
LEMMA LoopInduction ==
  ASSUME NEW N \in Nat, NEW T, 0 \in T, \A n \in 1 .. N : n - 1 \in T => n \in T
  PROVE  0 .. N \subseteq T
<1> SUFFICES ASSUME (0 .. N) \ T # {} PROVE FALSE
  OBVIOUS
<1>1. PICK n \in (0 .. N) \ T : \A m \in (0 .. N) \ T : n <= m
  <2>1. (0 .. N) \ T \subseteq Nat
    OBVIOUS
  <2> QED BY <2>1, SmallestNumber
<1>2. n # 0 /\ n \in 1 .. N /\ n - 1 \in 0 .. N /\ ~(n <= n - 1)
  BY <1>1
<1> QED BY <1>1, <1>2

\* The states of a loop of N passes.
Passes(f, N, S, base, step) ==
  /\ f \in [0 .. N -> S] /\ f[0] = base
  /\ \A n \in 1 .. N : f[n] = step[<<f[n - 1], n>>]

Steps(S, N) == [S \X (1 .. N) -> S]

\* A loop whose passes stay among given states can be run.
LEMMA LoopExists ==
  ASSUME NEW N \in Nat, NEW S, NEW base \in S, NEW step \in Steps(S, N)
  PROVE  \E f : Passes(f, N, S, base, step)
<1> USE DEF Steps
<1> DEFINE Begun(k, f) == /\ f \in [0 .. k -> S] /\ f[0] = base
                         /\ \A n \in 1 .. k : f[n] = step[<<f[n - 1], n>>]
           T == {k \in 0 .. N : \E f : Begun(k, f)}
<1>1. 0 \in T
  <2>1. Begun(0, [n \in 0 .. 0 |-> base])
    OBVIOUS
  <2>2. 0 \in 0 .. N
    OBVIOUS
  <2> HIDE DEF Begun
  <2> QED BY <2>1, <2>2
<1>2. ASSUME NEW k \in 1 .. N, k - 1 \in T PROVE k \in T
  <2>1. PICK f : Begun(k - 1, f)
    BY <1>2
  <2> DEFINE g == [n \in 0 .. k |-> IF n = k THEN step[<<f[k - 1], k>>] ELSE f[n]]
  <2>2. f[k - 1] \in S /\ step[<<f[k - 1], k>>] \in S
    BY <2>1
  <2>3. g \in [0 .. k -> S] /\ g[0] = base
    BY <2>1, <2>2
  <2>4. ASSUME NEW n \in 1 .. k PROVE g[n] = step[<<g[n - 1], n>>]
    <3>1. n - 1 \in 0 .. k /\ n - 1 # k /\ g[n - 1] = f[n - 1]
      OBVIOUS
    <3>2. CASE n = k
      BY <3>1, <3>2
    <3>3. CASE n # k
      BY <2>1, <3>1, <3>3
    <3> QED BY <3>2, <3>3
  <2>5. Begun(k, g)
    BY <2>3, <2>4
  <2> HIDE DEF g, Begun
  <2> QED BY <2>5
<1>3. N \in T
  <2> HIDE DEF T
  <2>1. 0 .. N \subseteq T
    BY <1>1, <1>2, LoopInduction
  <2> QED BY <2>1
<1>4. PICK f : Begun(N, f)
  BY <1>3
<1> QED BY <1>4 DEF Passes

-----------------------------------------------------------------------------
(***************************************************************************)
(* The line contract of ADR-0009, one datum after the other.               *)
(***************************************************************************)
Contract == [line : Seq(Byte), events : Seq(Event)]
OnlyLastEnds(made) == \A i \in DOMAIN made : IsTerminal(made[i]) => i = Len(made)

\* What is made of one line.
LEMMA DecodedEvent ==
  ASSUME NEW text \in Seq(Byte)
  PROVE  /\ Decoded(WithoutCr(text)) \in Event
         /\ IsTerminal(Decoded(WithoutCr(text))) <=> Decoded(WithoutCr(text)) = Failed
<1> DEFINE t == WithoutCr(text)
<1>1. t \in Seq(Byte)
  <2>1. text # <<>> => Front(text) \in Seq(Byte)
    <3>1. Len(text) \in Nat /\ \A i \in 1 .. Len(text) - 1 : text[i] \in Byte
      OBVIOUS
    <3> QED BY <3>1, SubSeqProperties DEF Front
  <2> QED BY <2>1 DEF WithoutCr
<1>2. <<>> \in Seq(Byte)
  OBVIOUS
<1> HIDE DEF t
<1>3. Line(t) \in Event /\ Failed \in Event
  BY <1>1, <1>2 DEF Line, Failed, Event
<1>4. ~IsTerminal(Line(t)) /\ IsTerminal(Failed) /\ Line(t) # Failed
  BY DEF Line, Failed, IsTerminal
<1>5. Decoded(t) = Line(t) \/ Decoded(t) = Failed
  BY DEF Decoded
<1> QED BY <1>3, <1>4, <1>5 DEF t

\* What is made of the last line, at the end of input.
LEMMA FinishEvents ==
  ASSUME NEW text \in Seq(Byte)
  PROVE  /\ Finish(text) \in Seq(Event) /\ Finish(text) # <<>>
         /\ IsTerminal(Last(Finish(text))) /\ OnlyLastEnds(Finish(text))
<1>1. <<>> \in Seq(Byte)
  OBVIOUS
<1>2. Line(text) \in Event /\ Failed \in Event /\ Ended \in Event
  BY <1>1 DEF Line, Failed, Ended, Event
<1>3. ~IsTerminal(Line(text)) /\ IsTerminal(Failed) /\ IsTerminal(Ended)
  BY DEF Line, Failed, Ended, IsTerminal
<1>4. Finish(text) \in {<<Ended>>, <<Failed>>, <<Line(text), Ended>>}
  BY DEF Finish
<1>5. ASSUME NEW e \in Event, IsTerminal(e), NEW s, s = <<e>> \/ s = <<Line(text), e>>
      PROVE  /\ s \in Seq(Event) /\ s # <<>> /\ IsTerminal(Last(s)) /\ OnlyLastEnds(s)
  <2> HIDE DEF Event, IsTerminal, Line
  <2>1. CASE s = <<e>>
    <3>1. s \in Seq(Event) /\ Len(s) = 1 /\ DOMAIN s = {1} /\ s[1] = e
      BY <2>1
    <3> QED BY <1>5, <2>1, <3>1 DEF Last, OnlyLastEnds
  <2>2. CASE s = <<Line(text), e>>
    <3>1. /\ s \in Seq(Event) /\ Len(s) = 2 /\ DOMAIN s = {1, 2}
          /\ s[1] = Line(text) /\ s[2] = e
      BY <1>2, <2>2
    <3> QED BY <1>3, <1>5, <2>2, <3>1 DEF Last, OnlyLastEnds
  <2> QED BY <1>5, <2>1, <2>2
<1> QED BY <1>2, <1>3, <1>4, <1>5

\* Events put behind others that ended nothing.
LEMMA EndsBehind ==
  ASSUME NEW s \in Seq(Event), NEW t \in Seq(Event), OnlyLastEnds(s), OnlyLastEnds(t),
         s # <<>> => ~IsTerminal(Last(s))
  PROVE  s \o t \in Seq(Event) /\ OnlyLastEnds(s \o t)
<1>1. /\ s \o t \in Seq(Event) /\ Len(s \o t) = Len(s) + Len(t)
      /\ \A i \in 1 .. Len(s) + Len(t) : (s \o t)[i] = IF i <= Len(s) THEN s[i] ELSE t[i - Len(s)]
  BY ConcatProperties
<1>2. /\ Len(s) \in Nat /\ Len(t) \in Nat /\ DOMAIN s = 1 .. Len(s) /\ DOMAIN t = 1 .. Len(t)
      /\ DOMAIN (s \o t) = 1 .. Len(s) + Len(t)
  BY <1>1
<1>3. \A i \in DOMAIN s : ~IsTerminal(s[i])
  <2>1. \A i \in DOMAIN s : s # <<>>
    OBVIOUS
  <2> QED BY <1>2, <2>1 DEF OnlyLastEnds, Last
<1>4. ASSUME NEW i \in DOMAIN (s \o t), IsTerminal((s \o t)[i]) PROVE i = Len(s \o t)
  <2>1. ~(i <= Len(s))
    BY <1>1, <1>2, <1>3, <1>4
  <2>2. i - Len(s) \in DOMAIN t /\ IsTerminal(t[i - Len(s)])
    BY <1>1, <1>2, <1>4, <2>1
  <2>3. i - Len(s) = Len(t)
    BY <2>2 DEF OnlyLastEnds
  <2> QED BY <1>1, <1>2, <1>4, <2>3
<1> QED BY <1>1, <1>4 DEF OnlyLastEnds

\* One datum more.
LEMMA NextByteMakes ==
  ASSUME NEW made \in Contract, NEW datum \in Datum
  PROVE  /\ NextByte(datum, made) \in Contract
         /\ Over(made) => NextByte(datum, made) = made
         /\ ~Over(made) =>
              /\ datum = "lf" => NextByte(datum, made) =
                   [line |-> <<>>, events |-> made.events \o <<Decoded(WithoutCr(made.line))>>]
              /\ datum = "error" => NextByte(datum, made) =
                   [line |-> <<>>, events |-> made.events \o <<Failed>>]
              /\ datum = "eof" => NextByte(datum, made) =
                   [line |-> <<>>, events |-> made.events \o Finish(made.line)]
              /\ datum \in Byte \ {"lf"} => NextByte(datum, made) =
                   [line |-> Append(made.line, datum), events |-> made.events]
         /\ OnlyLastEnds(made.events) => OnlyLastEnds(NextByte(datum, made).events)
<1>1. /\ made.line \in Seq(Byte) /\ made.events \in Seq(Event)
      /\ made = [line |-> made.line, events |-> made.events] /\ <<>> \in Seq(Byte)
  BY DEF Contract
<1>2. ~Over(made) <=> (made.events # <<>> => ~IsTerminal(Last(made.events)))
  BY DEF Over
<1> DEFINE With(more) == [line |-> <<>>, events |-> made.events \o more]
<1>3. ASSUME NEW more \in Seq(Event)
      PROVE  /\ With(more) \in Contract
             /\ ~Over(made) /\ OnlyLastEnds(made.events) /\ OnlyLastEnds(more) =>
                  OnlyLastEnds(With(more).events)
  <2>1. made.events \o more \in Seq(Event)
    BY <1>1, ConcatProperties
  <2>2. With(more) \in Contract
    BY <1>1, <2>1 DEF Contract
  <2> QED BY <1>1, <1>2, <2>2, EndsBehind
<1>4. ASSUME NEW e \in Event PROVE <<e>> \in Seq(Event) /\ OnlyLastEnds(<<e>>)
  BY DEF OnlyLastEnds
<1>5. CASE Over(made)
  BY <1>5 DEF NextByte
<1>6. CASE ~Over(made) /\ datum = "lf"
  <2>1. NextByte(datum, made) = With(<<Decoded(WithoutCr(made.line))>>)
    BY <1>6 DEF NextByte
  <2>2. Decoded(WithoutCr(made.line)) \in Event
    BY <1>1, DecodedEvent
  <2> HIDE DEF With
  <2>3. /\ With(<<Decoded(WithoutCr(made.line))>>) \in Contract
        /\ OnlyLastEnds(made.events) => OnlyLastEnds(NextByte(datum, made).events)
    BY <1>3, <1>4, <1>6, <2>1, <2>2
  <2> QED BY <1>6, <2>1, <2>3 DEF With, Byte
<1>7. CASE ~Over(made) /\ datum = "error"
  <2>1. NextByte(datum, made) = With(<<Failed>>)
    BY <1>7 DEF NextByte
  <2>2. Failed \in Event
    BY <1>1 DEF Failed, Event
  <2> HIDE DEF With
  <2>3. /\ With(<<Failed>>) \in Contract
        /\ OnlyLastEnds(made.events) => OnlyLastEnds(NextByte(datum, made).events)
    BY <1>3, <1>4, <1>7, <2>1, <2>2
  <2> QED BY <1>7, <2>1, <2>3 DEF With, Byte
<1>8. CASE ~Over(made) /\ datum = "eof"
  <2>1. NextByte(datum, made) = With(Finish(made.line))
    BY <1>8 DEF NextByte, Finish
  <2>2. Finish(made.line) \in Seq(Event) /\ OnlyLastEnds(Finish(made.line))
    BY <1>1, FinishEvents
  <2> HIDE DEF With
  <2>3. /\ With(Finish(made.line)) \in Contract
        /\ OnlyLastEnds(made.events) => OnlyLastEnds(NextByte(datum, made).events)
    BY <1>3, <1>8, <2>1, <2>2
  <2> QED BY <1>8, <2>1, <2>3 DEF With, Byte
<1>9. CASE ~Over(made) /\ datum \in Byte \ {"lf"}
  <2>1. datum \notin {"lf", "error", "eof"}
    BY <1>9 DEF Byte
  <2>2. NextByte(datum, made) = [made EXCEPT !.line = Append(@, datum)]
    BY <1>9, <2>1 DEF NextByte
  <2>3. NextByte(datum, made) = [line |-> Append(made.line, datum), events |-> made.events]
    BY <1>1, <2>2
  <2>4. Append(made.line, datum) \in Seq(Byte)
    BY <1>1, <1>9
  <2> QED BY <1>1, <1>9, <2>1, <2>3, <2>4 DEF Contract
<1> QED BY <1>5, <1>6, <1>7, <1>8, <1>9 DEF Datum

\* It is a loop over the data.
Nothing == [line |-> <<>>, events |-> <<>>]

IsReading(f, data) ==
  /\ f \in [0 .. Len(data) -> Contract] /\ f[0] = Nothing
  /\ \A n \in 1 .. Len(data) : f[n] = NextByte(data[n], f[n - 1])

LEMMA MadeLoop ==
  ASSUME NEW data \in Seq(Datum)
  PROVE  \E f : IsReading(f, data) /\ MadeOf(data) = f[Len(data)]
<1> DEFINE N == Len(data)
           step == [p \in Contract \X (1 .. N) |-> NextByte(data[p[2]], p[1])]
           Solves(f) ==
             f = [n \in 0 .. N |-> IF n = 0 THEN [line |-> <<>>, events |-> <<>>]
                                   ELSE NextByte(data[n], f[n - 1])]
<1>1. N \in Nat /\ \A n \in 1 .. N : data[n] \in Datum
  OBVIOUS
<1>2. Nothing \in Contract
  BY DEF Nothing, Contract
<1>3. step \in Steps(Contract, N)
  BY <1>1, NextByteMakes DEF Steps
<1>4. PICK g : Passes(g, N, Contract, Nothing, step)
  <2> HIDE DEF N, step
  <2> QED BY <1>1, <1>2, <1>3, LoopExists
<1>5. \A n \in 1 .. N : step[<<g[n - 1], n>>] = NextByte(data[n], g[n - 1])
  <2>1. \A n \in 1 .. N : n - 1 \in 0 .. N
    BY <1>1
  <2>2. \A n \in 1 .. N : g[n - 1] \in Contract
    BY <1>4, <2>1 DEF Passes
  <2> QED BY <2>2
<1>6. Solves(g)
  <2> DEFINE h == [n \in 0 .. N |-> IF n = 0 THEN [line |-> <<>>, events |-> <<>>]
                                   ELSE NextByte(data[n], g[n - 1])]
  <2>1. ASSUME NEW n \in 0 .. N PROVE g[n] = h[n]
    <3>1. n = 0 \/ n \in 1 .. N
      BY <1>1
    <3> HIDE DEF step
    <3> QED BY <1>1, <1>4, <1>5, <3>1 DEF Passes, Nothing
  <2>2. DOMAIN h = 0 .. N /\ h = [n \in 0 .. N |-> h[n]]
    OBVIOUS
  <2>3. g = h
    <3> HIDE DEF h
    <3> QED BY <1>4, <2>1, <2>2 DEF Passes
  <2> QED BY <2>3
<1> DEFINE f == CHOOSE f : Solves(f)
<1>7. MadeOf(data) = f[N]
  BY DEF MadeOf
<1>8. Solves(f)
  <2> HIDE DEF Solves
  <2> QED BY <1>6
<1> HIDE DEF f
<1>9. f[0] = Nothing /\ \A n \in 1 .. N : f[n] = NextByte(data[n], f[n - 1])
  BY <1>1, <1>8 DEF Nothing
<1>10. f \in [0 .. N -> Contract]
  <2> DEFINE T == {n \in 0 .. N : f[n] \in Contract}
  <2>1. 0 \in T
    BY <1>1, <1>2, <1>9
  <2>2. \A n \in 1 .. N : n - 1 \in T => n \in T
    <3> SUFFICES ASSUME NEW n \in 1 .. N, f[n - 1] \in Contract PROVE f[n] \in Contract
      BY <1>1
    <3>1. NextByte(data[n], f[n - 1]) \in Contract
      BY <1>1, NextByteMakes
    <3> QED BY <1>9, <3>1
  <2> HIDE DEF T
  <2>3. 0 .. N \subseteq T
    BY <1>1, <2>1, <2>2, LoopInduction
  <2>4. \A n \in 0 .. N : f[n] \in Contract
    BY <2>3 DEF T
  <2> QED BY <1>8, <2>4
<1>11. IsReading(f, data)
  BY <1>9, <1>10 DEF IsReading
<1> QED BY <1>7, <1>11

\* Two such loops agree as far as their data do.
LEMMA SameReading ==
  ASSUME NEW f, NEW g, NEW s \in Seq(Datum), NEW t \in Seq(Datum),
         IsReading(f, s), IsReading(g, t), NEW n \in 0 .. Len(s), n <= Len(t),
         \A i \in 1 .. n : s[i] = t[i]
  PROVE  f[n] = g[n]
<1> DEFINE T == {k \in 0 .. n : f[k] = g[k]}
<1>1. n \in Nat /\ Len(s) \in Nat /\ Len(t) \in Nat
  OBVIOUS
<1>2. 0 \in T
  BY <1>1 DEF IsReading
<1>3. ASSUME NEW k \in 1 .. n, k - 1 \in T PROVE k \in T
  <2>1. k \in 1 .. Len(s) /\ k \in 1 .. Len(t) /\ k \in 0 .. n /\ f[k - 1] = g[k - 1]
    BY <1>1, <1>3
  <2>2. f[k] = NextByte(s[k], f[k - 1]) /\ g[k] = NextByte(t[k], g[k - 1])
    BY <2>1 DEF IsReading
  <2> QED BY <2>1, <2>2
<1> HIDE DEF T
<1>4. 0 .. n \subseteq T
  BY <1>1, <1>2, <1>3, LoopInduction
<1>5. n \in T
  BY <1>1, <1>4
<1> QED BY <1>5 DEF T

\* What is made of one datum more.
LEMMA MadeAppend ==
  ASSUME NEW data \in Seq(Datum), NEW datum \in Datum
  PROVE  /\ MadeOf(data) \in Contract /\ OnlyLastEnds(MadeOf(data).events)
         /\ MadeOf(Append(data, datum)) = NextByte(datum, MadeOf(data))
<1> DEFINE n == Len(data)
           more == Append(data, datum)
<1>1. /\ n \in Nat /\ more \in Seq(Datum) /\ Len(more) = n + 1 /\ more[n + 1] = datum
      /\ \A i \in 1 .. n : more[i] = data[i]
  BY AppendProperties
<1>2. PICK f : IsReading(f, data) /\ MadeOf(data) = f[n]
  BY MadeLoop
<1> HIDE DEF more
<1>3. PICK g : IsReading(g, more) /\ MadeOf(more) = g[Len(more)]
  BY <1>1, MadeLoop
<1>4. f[n] = g[n]
  <2>1. n \in 0 .. Len(data) /\ n <= Len(more) /\ \A i \in 1 .. n : data[i] = more[i]
    BY <1>1
  <2> QED BY <1>1, <1>2, <1>3, <2>1, SameReading
<1>5. g[n + 1] = NextByte(datum, g[n])
  <2>1. n + 1 \in 1 .. Len(more) /\ (n + 1) - 1 = n
    BY <1>1
  <2>2. g[n + 1] = NextByte(more[n + 1], g[(n + 1) - 1])
    BY <1>3, <2>1 DEF IsReading
  <2> QED BY <1>1, <2>1, <2>2
<1>6. OnlyLastEnds(f[n].events)
  <2> DEFINE T == {k \in 0 .. n : OnlyLastEnds(f[k].events)}
  <2>1. 0 \in T
    BY <1>1, <1>2 DEF IsReading, Nothing, OnlyLastEnds
  <2>2. ASSUME NEW k \in 1 .. n, k - 1 \in T PROVE k \in T
    <3>1. k \in 0 .. n /\ k - 1 \in 0 .. n /\ data[k] \in Datum
      BY <1>1
    <3>2. f[k - 1] \in Contract /\ f[k] = NextByte(data[k], f[k - 1])
      BY <1>2, <3>1 DEF IsReading
    <3>3. OnlyLastEnds(f[k - 1].events)
      BY <2>2
    <3> QED BY <3>1, <3>2, <3>3, NextByteMakes
  <2> HIDE DEF T
  <2>3. 0 .. n \subseteq T
    BY <1>1, <2>1, <2>2, LoopInduction
  <2>4. n \in T
    BY <1>1, <2>3
  <2> QED BY <2>4 DEF T
<1>7. f[n] \in Contract
  BY <1>1, <1>2 DEF IsReading
<1> QED BY <1>1, <1>2, <1>3, <1>4, <1>5, <1>6, <1>7 DEF more

\* Nothing is made of nothing.
LEMMA MadeOfNothing == MadeOf(<<>>) = Nothing
<1>1. <<>> \in Seq(Datum) /\ Len(<<>>) = 0
  OBVIOUS
<1>2. PICK f : IsReading(f, <<>>) /\ MadeOf(<<>>) = f[Len(<<>>)]
  BY <1>1, MadeLoop
<1> QED BY <1>1, <1>2 DEF IsReading

-----------------------------------------------------------------------------
(***************************************************************************)
(* StdinLineDecoder::push against that contract.                           *)
(***************************************************************************)
\* The places of a finite set of numbers up to one of them.
UpTo(feeds, p) == {j \in feeds : j <= p}

\* Counting them, one number more at a time, gives each of the set its rank.
LEMMA RankOf ==
  ASSUME NEW n \in Nat, NEW feeds \in SUBSET (1 .. n), NEW p \in 1 .. n
  PROVE  /\ Cardinality(UpTo(feeds, p)) \in Nat /\ Cardinality(UpTo(feeds, p - 1)) \in Nat
         /\ Cardinality(UpTo(feeds, p)) =
              Cardinality(UpTo(feeds, p - 1)) + (IF p \in feeds THEN 1 ELSE 0)
         /\ Cardinality(UpTo(feeds, p)) <= Cardinality(feeds) /\ Cardinality(feeds) \in Nat
<1>1. IsFiniteSet(1 .. n)
  BY FS_Interval
<1>2. IsFiniteSet(feeds) /\ IsFiniteSet(UpTo(feeds, p)) /\ IsFiniteSet(UpTo(feeds, p - 1))
  BY <1>1, FS_Subset DEF UpTo
<1>3. /\ Cardinality(UpTo(feeds, p)) \in Nat /\ Cardinality(UpTo(feeds, p - 1)) \in Nat
      /\ Cardinality(feeds) \in Nat
  BY <1>2, FS_CardinalityType
<1>4. UpTo(feeds, p) = UpTo(feeds, p - 1) \cup (IF p \in feeds THEN {p} ELSE {})
      /\ p \notin UpTo(feeds, p - 1) /\ UpTo(feeds, p) \subseteq feeds
  <2>1. \A j \in feeds : j \in Int /\ (j <= p <=> j <= p - 1 \/ j = p) /\ ~(p <= p - 1)
    OBVIOUS
  <2>2. UpTo(feeds, p) \subseteq feeds /\ p \notin UpTo(feeds, p - 1)
    BY <2>1 DEF UpTo
  <2>3. \A j : j \in UpTo(feeds, p) <=> j \in UpTo(feeds, p - 1) \/ (j \in feeds /\ j = p)
    BY <2>1 DEF UpTo
  <2> QED BY <2>2, <2>3
<1>5. Cardinality(UpTo(feeds, p)) <= Cardinality(feeds)
  BY <1>2, <1>4, FS_Subset
<1>6. CASE p \in feeds
  <2>1. UpTo(feeds, p) = UpTo(feeds, p - 1) \cup {p}
    BY <1>4, <1>6
  <2>2. Cardinality(UpTo(feeds, p - 1) \cup {p}) = Cardinality(UpTo(feeds, p - 1)) + 1
    BY <1>2, <1>4, FS_AddElement
  <2> QED BY <1>3, <1>5, <1>6, <2>1, <2>2
<1>7. CASE p \notin feeds
  <2>1. UpTo(feeds, p) = UpTo(feeds, p - 1)
    BY <1>4, <1>7
  <2> QED BY <1>3, <1>5, <1>7, <2>1
<1> QED BY <1>6, <1>7

\* No two of the set have the same rank.
LEMMA RanksDiffer ==
  ASSUME NEW n \in Nat, NEW feeds \in SUBSET (1 .. n), NEW p \in feeds
  PROVE  (CHOOSE i \in feeds : Cardinality({j \in feeds : j <= i}) =
                                 Cardinality(UpTo(feeds, p))) = p
<1>1. ASSUME NEW q \in feeds, NEW r \in feeds, q < r
      PROVE  Cardinality(UpTo(feeds, q)) # Cardinality(UpTo(feeds, r))
  <2>1. r \in 1 .. n /\ q \in 1 .. n
    OBVIOUS
  <2>2. UpTo(feeds, q) \subseteq UpTo(feeds, r - 1)
    <3>1. \A j \in feeds : j \in Int /\ (j <= q => j <= r - 1)
      BY <1>1, <2>1
    <3> QED BY <3>1 DEF UpTo
  <2>3. IsFiniteSet(UpTo(feeds, r - 1))
    <3>1. IsFiniteSet(1 .. n)
      BY FS_Interval
    <3> QED BY <3>1, FS_Subset DEF UpTo
  <2>4. Cardinality(UpTo(feeds, q)) <= Cardinality(UpTo(feeds, r - 1))
    BY <2>2, <2>3, FS_Subset
  <2>5. /\ Cardinality(UpTo(feeds, r)) = Cardinality(UpTo(feeds, r - 1)) + 1
        /\ Cardinality(UpTo(feeds, r - 1)) \in Nat
    BY <2>1, RankOf
  <2>6. Cardinality(UpTo(feeds, q)) \in Nat
    BY <2>1, RankOf
  <2> QED BY <2>4, <2>5, <2>6
<1>2. \A i \in feeds : {j \in feeds : j <= i} = UpTo(feeds, i)
  BY DEF UpTo
<1>3. \A i \in feeds : Cardinality({j \in feeds : j <= i}) = Cardinality(UpTo(feeds, p)) <=> i = p
  <2>1. \A i \in feeds : i = p \/ i < p \/ p < i
    OBVIOUS
  <2> QED BY <1>1, <1>2, <2>1
<1> QED BY <1>3

\* StdinLineDecoder::push, given the line the contract holds back, makes of a
\* chunk what the contract makes of it byte by byte: the same events, and the
\* same line held back unless one of them ended the input.
PushedAsMeant(before, pushed, after) ==
  /\ pushed.pending \in Seq(Byte) /\ pushed.events \in Seq(Event)
  /\ after.events = before.events \o pushed.events
  /\ Over(after) <=> pushed.events # <<>> /\ IsTerminal(Last(pushed.events))
  /\ ~Over(after) => after.line = pushed.pending

LEMMA PushMeans ==
  ASSUME NEW data \in Seq(Datum), NEW bytes \in Seq(Byte), ~Over(MadeOf(data))
  PROVE  PushedAsMeant(MadeOf(data), Push(MadeOf(data).line, bytes), MadeOf(data \o bytes))
<1> SUFFICES ASSUME NEW before, before = MadeOf(data), ~Over(before),
                    NEW pushed, pushed = Push(before.line, bytes),
                    NEW after, after = MadeOf(data \o bytes)
             PROVE  /\ pushed.pending \in Seq(Byte) /\ pushed.events \in Seq(Event)
                    /\ after.events = before.events \o pushed.events
                    /\ Over(after) <=> pushed.events # <<>> /\ IsTerminal(Last(pushed.events))
                    /\ ~Over(after) => after.line = pushed.pending
  BY DEF PushedAsMeant
<1> DEFINE left == before.line
           L == Len(left)
           all == left \o bytes
           feeds == {i \in Len(left) + 1 .. Len(all) : all[i] = "lf"}
           feed(k) == CHOOSE i \in feeds : Cardinality({j \in feeds : j <= i}) = k
           start(k) == IF k = 1 THEN 1 ELSE feed(k - 1) + 1
           event(k) == Decoded(WithoutCr(SubSeq(all, start(k), feed(k) - 1)))
           count == Cardinality(feeds)
           failures == {k \in 1 .. count : event(k) = Failed}
           made == IF failures = {} THEN count ELSE Min(failures)
           Firsts(k) == [j \in 1 .. k |-> event(j)]
           rest == IF feeds = {} THEN all
                   ELSE IF failures # {} THEN <<>>
                   ELSE SubSeq(all, Max(feeds) + 1, Len(all))
<1>1. pushed = [pending |-> rest, events |-> Firsts(made)]
  BY DEF Push
<1>2. /\ before \in Contract /\ left \in Seq(Byte) /\ before.events \in Seq(Event)
      /\ L \in Nat /\ Len(bytes) \in Nat
      /\ before = [line |-> left, events |-> before.events]
  <2>1. before \in Contract
    <3>1. "lf" \in Datum
      BY DEF Datum, Byte
    <3> QED BY <3>1, MadeAppend
  <2> QED BY <2>1 DEF Contract
<1>3. /\ all \in Seq(Byte) /\ Len(all) = L + Len(bytes) /\ Len(all) \in Nat
      /\ \A k \in 1 .. Len(bytes) : all[L + k] = bytes[k] /\ L + k \in 1 .. Len(all)
  <2>1. /\ all \in Seq(Byte) /\ Len(all) = L + Len(bytes)
        /\ \A i \in 1 .. L + Len(bytes) : all[i] = IF i <= L THEN left[i] ELSE bytes[i - L]
    BY <1>2, ConcatProperties
  <2>2. \A k \in 1 .. Len(bytes) :
          L + k \in 1 .. L + Len(bytes) /\ ~(L + k <= L) /\ (L + k) - L = k
    BY <1>2
  <2> HIDE DEF all
  <2> QED BY <1>2, <2>1, <2>2
<1>4. /\ feeds \in SUBSET (1 .. Len(all)) /\ \A i \in feeds : i > L
      /\ \A k \in 1 .. Len(bytes) : L + k \in feeds <=> bytes[k] = "lf"
  <2> HIDE DEF all
  <2> QED BY <1>2, <1>3
<1> DEFINE Read(k) == MadeOf(data \o SubSeq(bytes, 1, k))
           c(p) == Cardinality(UpTo(feeds, p))
           from(p) == IF c(p) = 0 THEN 1 ELSE feed(c(p)) + 1
           Ranked(k) ==
             /\ c(k) \in Nat /\ c(k) <= count
             /\ \A j \in 1 .. c(k) : feed(j) \in feeds /\ feed(j) <= k
             /\ \A i \in feeds : i <= k => c(k) > 0 /\ i <= feed(c(k))
           Good(k) ==
             /\ Ranked(L + k)
             /\ \/ /\ \A j \in 1 .. c(L + k) : event(j) # Failed
                   /\ Read(k) = [line |-> SubSeq(all, from(L + k), L + k),
                                 events |-> before.events \o Firsts(c(L + k))]
                   /\ ~Over(Read(k))
                \/ \E m \in 1 .. c(L + k) :
                     /\ event(m) = Failed /\ \A j \in 1 .. m - 1 : event(j) # Failed
                     /\ Read(k).events = before.events \o Firsts(m)
                     /\ Over(Read(k))
           T == {k \in 0 .. Len(bytes) : Good(k)}
<1> HIDE DEF left, all, feeds, feed
<1>5. ASSUME NEW k \in Nat, \A j \in 1 .. k : feed(j) \in feeds
      PROVE  /\ \A j \in 1 .. k : event(j) \in Event /\ (IsTerminal(event(j)) <=> event(j) = Failed)
             /\ Firsts(k) \in Seq(Event) /\ Len(Firsts(k)) = k
             /\ \A j \in 1 .. k : Firsts(k)[j] = event(j)
  <2>1. ASSUME NEW j \in 1 .. k
        PROVE  event(j) \in Event /\ (IsTerminal(event(j)) <=> event(j) = Failed)
    <3>1. feed(j) \in 1 .. Len(all) /\ start(j) \in Nat \ {0}
      <4>1. j = 1 \/ j - 1 \in 1 .. k
        OBVIOUS
      <4>2. \A i \in 1 .. k : feed(i) \in 1 .. Len(all)
        BY <1>4, <1>5
      <4> QED BY <1>3, <4>1, <4>2
    <3>2. \A i \in start(j) .. feed(j) - 1 : all[i] \in Byte
      <4>1. \A i \in 1 .. Len(all) : all[i] \in Byte
        BY <1>3
      <4> HIDE DEF start
      <4> QED BY <1>3, <3>1, <4>1
    <3>3. SubSeq(all, start(j), feed(j) - 1) \in Seq(Byte)
      <4> HIDE DEF start
      <4> QED BY <1>3, <3>1, <3>2, SubSeqProperties
    <3> HIDE DEF start
    <3> QED BY <3>3, DecodedEvent
  <2> HIDE DEF event
  <2>2. Firsts(k) \in Seq(Event) /\ Len(Firsts(k)) = k
    BY <2>1
  <2>3. \A j \in 1 .. k : Firsts(k)[j] = event(j)
    OBVIOUS
  <2> QED BY <2>1, <2>2, <2>3
<1>6. 0 \in T
  <2>1. Read(0) = before
    <3>1. SubSeq(bytes, 1, 0) = <<>>
      BY SubSeqEmpty
    <3>2. data \o <<>> = data
      BY ConcatEmptySeq
    <3> QED BY <3>1, <3>2
  <2>2. UpTo(feeds, L) = {}
    <3>1. \A i \in feeds : i \in Int /\ ~(i <= L)
      BY <1>2, <1>4
    <3> QED BY <3>1 DEF UpTo
  <2>3. c(L + 0) = 0 /\ from(L + 0) = 1 /\ L + 0 = L
    <3>1. Cardinality({}) = 0
      BY FS_EmptySet
    <3>2. L + 0 = L
      BY <1>2
    <3>3. c(L) = 0
      BY <2>2, <3>1
    <3>4. from(L) = 1
      <4> HIDE DEF c
      <4> QED BY <3>3
    <3> HIDE DEF from, c
    <3> QED BY <3>2, <3>3, <3>4
  <2>4. SubSeq(all, 1, L) = left
    <3>1. CASE L = 0
      BY <1>2, <3>1, SubSeqEmpty
    <3>2. CASE L # 0
      <4>1. 1 \in 1 .. L /\ L \in 1 .. L
        BY <1>2, <3>2
      <4>2. SubSeq(all, 1, L) = SubSeq(left, 1, L)
        BY <1>2, <4>1, SubSeqOfConcat1 DEF all
      <4> QED BY <1>2, <4>2, SubSeqFull
    <3> QED BY <3>1, <3>2
  <2>5. before.events \o Firsts(0) = before.events
    <3>1. Firsts(0) = <<>>
      BY <2>3
    <3> QED BY <1>2, <3>1, ConcatEmptySeq
  <2>6. count \in Nat
    <3>1. IsFiniteSet(1 .. Len(all))
      BY <1>3, FS_Interval
    <3>2. IsFiniteSet(feeds)
      BY <1>4, <3>1, FS_Subset
    <3> QED BY <3>2, FS_CardinalityType
  <2>7. \A i \in feeds : ~(i <= L)
    BY <1>2, <1>4
  <2> HIDE DEF c, from, Read, Firsts, event, count
  <2>8. Good(0)
    BY <1>2, <2>1, <2>3, <2>4, <2>5, <2>6, <2>7
  <2> HIDE DEF Good
  <2> QED BY <1>2, <2>8
<1>7. ASSUME NEW k \in 1 .. Len(bytes), k - 1 \in T PROVE k \in T
  <2> DEFINE p == L + k
             q == L + (k - 1)
  <2>1. /\ p \in 1 .. Len(all) /\ q = p - 1 /\ k \in 0 .. Len(bytes) /\ k \in Nat /\ p \in Nat
        /\ all[p] = bytes[k] /\ bytes[k] \in Byte /\ (p \in feeds <=> bytes[k] = "lf")
    BY <1>2, <1>3, <1>4
  <2>2. Good(k - 1)
    BY <1>7
  <2> HIDE DEF p, q
  <2>3. /\ c(p) \in Nat /\ c(q) \in Nat /\ count \in Nat /\ c(p) <= count
        /\ c(p) = c(q) + (IF p \in feeds THEN 1 ELSE 0)
    BY <1>3, <1>4, <2>1, RankOf
  <2>4. p \in feeds => feed(c(p)) = p
    BY <1>3, <1>4, RanksDiffer DEF feed
  <2>5. Read(k) = NextByte(bytes[k], Read(k - 1)) /\ Read(k - 1) \in Contract
    <3> DEFINE chunk == SubSeq(bytes, 1, k - 1)
               b == bytes[k]
    <3>1. 1 \in 1 .. Len(bytes) /\ k \in 1 .. Len(bytes)
      BY <1>2
    <3>2. SubSeq(bytes, 1, k) = chunk \o <<b>>
      BY <3>1, SubSeqRecursiveSecond
    <3>3. Byte \subseteq Datum
      BY DEF Datum
    <3>4. chunk \in Seq(Datum) /\ b \in Datum
      <4>1. \A i \in 1 .. k - 1 : bytes[i] \in Byte
        BY <1>2
      <4>2. 1 \in Int /\ k - 1 \in Int
        BY <2>1
      <4> QED BY <2>1, <3>3, <4>1, <4>2, SubSeqProperties
    <3> HIDE DEF chunk, b
    <3>5. <<b>> \in Seq(Datum) /\ data \o chunk \in Seq(Datum)
      BY <3>4, ConcatProperties
    <3>6. data \o (chunk \o <<b>>) = Append(data \o chunk, b)
      BY <3>4, <3>5, ConcatAssociative, AppendIsConcat
    <3>7. /\ MadeOf(Append(data \o chunk, b)) = NextByte(b, MadeOf(data \o chunk))
          /\ MadeOf(data \o chunk) \in Contract
      BY <3>4, <3>5, MadeAppend
    <3> QED BY <3>2, <3>6, <3>7 DEF Read, chunk, b
  <2> HIDE DEF c, from, Read, Firsts, event, count
  <2>10. Ranked(q)
    BY <2>2 DEF q
  <2>6. Ranked(p)
    <3>1. CASE p \in feeds
      <4>1. c(p) = c(q) + 1 /\ feed(c(p)) = p
        BY <2>3, <2>4, <3>1
      <4>2. \A j \in 1 .. c(p) : j = c(p) \/ j \in 1 .. c(q)
        BY <2>3, <4>1
      <4>3. \A j \in 1 .. c(p) : feed(j) \in feeds /\ feed(j) <= p
        <5>1. \A j \in 1 .. c(q) : feed(j) \in feeds /\ feed(j) <= q
          BY <2>10
        <5>2. \A i \in feeds : i \in Int /\ (i <= q => i <= p) /\ p <= p
          BY <1>4, <2>1
        <5> QED BY <3>1, <4>1, <4>2, <5>1, <5>2
      <4> QED BY <2>3, <4>1, <4>3
    <3>2. CASE p \notin feeds
      <4>1. c(p) = c(q)
        BY <2>3, <3>2
      <4>2. \A i \in feeds : i \in Int /\ (i <= q <=> i <= p)
        BY <1>4, <2>1, <3>2
      <4> QED BY <2>3, <2>10, <4>1, <4>2
    <3> QED BY <3>1, <3>2
  <2>11. \/ /\ \A j \in 1 .. c(q) : event(j) # Failed
            /\ Read(k - 1) = [line |-> SubSeq(all, from(q), q),
                              events |-> before.events \o Firsts(c(q))]
            /\ ~Over(Read(k - 1))
         \/ \E m \in 1 .. c(q) :
              /\ event(m) = Failed /\ \A j \in 1 .. m - 1 : event(j) # Failed
              /\ Read(k - 1).events = before.events \o Firsts(m)
              /\ Over(Read(k - 1))
    BY <2>2 DEF q
  <2> SUFFICES \/ /\ \A j \in 1 .. c(p) : event(j) # Failed
                  /\ Read(k) = [line |-> SubSeq(all, from(p), p),
                                events |-> before.events \o Firsts(c(p))]
                  /\ ~Over(Read(k))
               \/ \E m \in 1 .. c(p) :
                    /\ event(m) = Failed /\ \A j \in 1 .. m - 1 : event(j) # Failed
                    /\ Read(k).events = before.events \o Firsts(m)
                    /\ Over(Read(k))
    BY <2>1, <2>6 DEF p
  <2> HIDE DEF Ranked
  <2>12. bytes[k] \in Datum
    BY <2>1 DEF Datum
  <2>7. CASE Over(Read(k - 1))
    <3>1. Read(k) = Read(k - 1)
      BY <2>5, <2>7, <2>12, NextByteMakes
    <3>2. \A m \in 1 .. c(q) : m \in 1 .. c(p)
      BY <2>3
    <3> QED BY <2>7, <2>11, <3>1, <3>2
  <2>13. /\ Firsts(c(q)) \in Seq(Event) /\ before.events \o Firsts(c(q)) \in Seq(Event)
    <3>1. \A j \in 1 .. c(q) : feed(j) \in feeds
      BY <2>10 DEF Ranked
    <3>2. Firsts(c(q)) \in Seq(Event)
      BY <1>5, <2>3, <3>1 DEF Firsts, event
    <3> QED BY <1>2, <3>2, ConcatProperties
  <2>14. ~Over(Read(k - 1)) =>
           /\ \A j \in 1 .. c(q) : event(j) # Failed
           /\ Read(k - 1).line = SubSeq(all, from(q), q)
           /\ Read(k - 1).events = before.events \o Firsts(c(q))
    <3> DEFINE s == SubSeq(all, from(q), q)
               t == before.events \o Firsts(c(q))
    <3> HIDE DEF s, t
    <3>1. ~Over(Read(k - 1)) =>
            /\ \A j \in 1 .. c(q) : event(j) # Failed
            /\ Read(k - 1) = [line |-> s, events |-> t]
      BY <2>11 DEF s, t
    <3>2. ~Over(Read(k - 1)) => Read(k - 1).line = s /\ Read(k - 1).events = t
      BY <3>1
    <3> QED BY <3>1, <3>2 DEF s, t
  <2>15. ~Over(Read(k - 1)) =>
           /\ bytes[k] = "lf" => Read(k) =
                [line |-> <<>>,
                 events |-> Read(k - 1).events \o <<Decoded(WithoutCr(Read(k - 1).line))>>]
           /\ bytes[k] # "lf" => Read(k) =
                [line |-> Append(Read(k - 1).line, bytes[k]), events |-> Read(k - 1).events]
    <3> DEFINE b == bytes[k]
               prior == Read(k - 1)
               later == Read(k)
    <3>1. /\ b \in Datum /\ b \in Byte /\ prior \in Contract /\ later = NextByte(b, prior)
      BY <2>1, <2>5, <2>12
    <3> HIDE DEF b, prior, later
    <3>2. ~Over(prior) =>
           /\ b = "lf" => later =
                [line |-> <<>>, events |-> prior.events \o <<Decoded(WithoutCr(prior.line))>>]
           /\ b # "lf" => later = [line |-> Append(prior.line, b), events |-> prior.events]
      BY <3>1, NextByteMakes
    <3> QED BY <3>2 DEF b, prior, later
  <2>8. CASE ~Over(Read(k - 1)) /\ bytes[k] = "lf"
    <3>1. /\ p \in feeds /\ c(p) = c(q) + 1 /\ feed(c(p)) = p /\ c(p) \in Nat \ {0}
          /\ c(p) - 1 = c(q) /\ c(p) \in 1 .. c(p) /\ (c(p) = 1 <=> c(q) = 0)
      BY <2>1, <2>3, <2>4, <2>8
    <3>2. event(c(p)) = Decoded(WithoutCr(SubSeq(all, from(q), q)))
      <4>1. start(c(p)) = from(q)
        BY <3>1 DEF from
      <4>2. feed(c(p)) - 1 = q
        BY <2>1, <3>1
      <4> HIDE DEF start
      <4> QED BY <4>1, <4>2 DEF event
    <3>3. Read(k) = [line |-> <<>>, events |-> (before.events \o Firsts(c(q))) \o <<event(c(p))>>]
      BY <2>8, <2>14, <2>15, <3>2
    <3>4. /\ event(c(p)) \in Event /\ (IsTerminal(event(c(p))) <=> event(c(p)) = Failed)
          /\ Firsts(c(p)) \in Seq(Event) /\ Len(Firsts(c(p))) = c(p)
          /\ \A j \in 1 .. c(p) : Firsts(c(p))[j] = event(j)
      <4>1. \A j \in 1 .. c(p) : feed(j) \in feeds
        BY <2>6 DEF Ranked
      <4> QED BY <1>5, <2>3, <3>1, <4>1 DEF Firsts, event
    <3>5. Firsts(c(p)) = Firsts(c(q)) \o <<event(c(p))>>
      <4> DEFINE s == Firsts(c(p))
                 n == c(p)
      <4>1. /\ s \in Seq(Event) /\ Len(s) = n /\ n \in Nat \ {0} /\ 1 \in 1 .. n /\ n \in 1 .. n
            /\ s[n] = event(n)
        BY <3>1, <3>4
      <4> HIDE DEF s, n
      <4>2. s = SubSeq(s, 1, n - 1) \o <<s[n]>>
        BY <4>1, SubSeqFull, SubSeqRecursiveSecond
      <4>3. SubSeq(s, 1, n - 1) = Firsts(c(q))
        <5>1. n - 1 = c(q) /\ c(q) \in 0 .. Len(s)
          BY <2>3, <3>1, <4>1 DEF n
        <5>2. \A j \in 1 .. c(q) : s[j] = event(j) /\ s[j] \in Event
          BY <3>1, <3>4, <4>1, <5>1 DEF s, n
        <5>3. /\ SubSeq(s, 1, c(q)) \in Seq(Event) /\ Len(SubSeq(s, 1, c(q))) = c(q)
              /\ \A i \in 1 .. c(q) : SubSeq(s, 1, c(q))[i] = s[i]
          BY <2>3, <5>2, SubSeqProperties
        <5>4. Len(Firsts(c(q))) = c(q) /\ \A j \in 1 .. c(q) : Firsts(c(q))[j] = event(j)
          BY <2>3 DEF Firsts
        <5>5. SubSeq(s, 1, c(q)) = Firsts(c(q))
          BY <2>13, <5>2, <5>3, <5>4, SeqEqual
        <5> QED BY <5>1, <5>5
      <4> QED BY <4>1, <4>2, <4>3 DEF s, n
    <3>6. Read(k).events = before.events \o Firsts(c(p)) /\ Read(k).line = <<>>
      <4> DEFINE s == before.events
                 t == Firsts(c(q))
                 u == <<event(c(p))>>
                 v == Firsts(c(p))
      <4>1. /\ s \in Seq(Event) /\ t \in Seq(Event) /\ u \in Seq(Event) /\ v = t \o u
            /\ Read(k) = [line |-> <<>>, events |-> (s \o t) \o u]
        BY <1>2, <2>13, <3>3, <3>4, <3>5
      <4> HIDE DEF s, t, u, v
      <4>2. (s \o t) \o u = s \o v
        BY <4>1, ConcatAssociative
      <4>3. Read(k).events = s \o v /\ Read(k).line = <<>>
        BY <4>1, <4>2
      <4> QED BY <4>3 DEF s, v
    <3>7. Read(k).events # <<>> /\ Last(Read(k).events) = event(c(p))
      <4> DEFINE s == before.events \o Firsts(c(q))
                 e == event(c(p))
      <4>1. s \in Seq(Event) /\ e \in Event /\ Read(k).events = s \o <<e>>
        BY <2>13, <3>3, <3>4
      <4> HIDE DEF s, e
      <4>2. s \o <<e>> = Append(s, e) /\ Append(s, e) # <<>> /\ Last(Append(s, e)) = e
        <5>1. Len(Append(s, e)) = Len(s) + 1 /\ Append(s, e)[Len(s) + 1] = e
          BY <4>1, AppendProperties
        <5> QED BY <4>1, <5>1, AppendIsConcat, AppendProperties DEF Last
      <4> QED BY <4>1, <4>2 DEF e
    <3>8. CASE event(c(p)) = Failed
      <4>1. Over(Read(k))
        BY <3>4, <3>7, <3>8 DEF Over
      <4>2. \A j \in 1 .. c(p) - 1 : event(j) # Failed
        BY <2>8, <2>14, <3>1
      <4> QED BY <3>1, <3>6, <3>8, <4>1, <4>2
    <3>9. CASE event(c(p)) # Failed
      <4>1. ~Over(Read(k))
        BY <3>4, <3>7, <3>9 DEF Over
      <4>2. \A j \in 1 .. c(p) : event(j) # Failed
        <5>1. \A j \in 1 .. c(p) : j = c(p) \/ j \in 1 .. c(q)
          BY <2>3, <3>1
        <5> QED BY <2>8, <2>14, <3>9, <5>1
      <4>3. SubSeq(all, from(p), p) = <<>>
        <5>1. from(p) = p + 1
          BY <3>1 DEF from
        <5> QED BY <2>1, <5>1, SubSeqEmpty
      <4>4. Read(k) = [line |-> <<>>, events |-> Read(k).events]
        BY <3>3
      <4> QED BY <3>6, <4>1, <4>2, <4>3, <4>4
    <3> QED BY <3>8, <3>9
  <2>9. CASE ~Over(Read(k - 1)) /\ bytes[k] # "lf"
    <3>1. p \notin feeds /\ c(p) = c(q) /\ from(p) = from(q)
      <4>1. p \notin feeds /\ c(p) = c(q)
        BY <2>1, <2>3, <2>9
      <4> QED BY <4>1 DEF from
    <3>2. from(q) \in 1 .. p
      <4>1. c(q) = 0 \/ (c(q) \in 1 .. c(q) /\ feed(c(q)) \in feeds /\ feed(c(q)) <= q)
        BY <2>3, <2>10 DEF Ranked
      <4>2. CASE c(q) = 0
        <5>1. from(q) = 1
          BY <4>2 DEF from
        <5> QED BY <2>1, <5>1
      <4>3. CASE c(q) # 0
        <5>1. /\ from(q) = feed(c(q)) + 1 /\ feed(c(q)) \in 1 .. Len(all) /\ feed(c(q)) <= q
          BY <1>4, <4>1, <4>3 DEF from
        <5> QED BY <2>1, <5>1
      <4> QED BY <4>2, <4>3
    <3>3. SubSeq(all, from(p), p) = Append(SubSeq(all, from(q), q), bytes[k])
      <4>1. from(q) \in 1 .. Len(all) /\ p \in from(q) .. Len(all)
        BY <1>3, <2>1, <3>2
      <4>2. SubSeq(all, from(q), p) = SubSeq(all, from(q), p - 1) \o <<all[p]>>
        BY <1>3, <4>1, SubSeqRecursiveSecond
      <4>3. SubSeq(all, from(q), q) \in Seq(Byte)
        <5>1. \A i \in from(q) .. q : all[i] \in Byte
          BY <1>3, <2>1, <4>1
        <5>2. from(q) \in Int /\ q \in Int
          BY <2>1, <4>1
        <5> QED BY <5>1, <5>2, SubSeqProperties
      <4> QED BY <2>1, <3>1, <4>2, <4>3, AppendIsConcat
    <3>4. Read(k) = [line |-> Append(SubSeq(all, from(q), q), bytes[k]),
                     events |-> before.events \o Firsts(c(q))]
      BY <2>9, <2>14, <2>15
    <3>5. ~Over(Read(k))
      <4>1. Read(k).events = Read(k - 1).events
        BY <2>9, <2>15
      <4> QED BY <2>9, <4>1 DEF Over
    <3> QED BY <2>9, <2>14, <3>1, <3>3, <3>4, <3>5
  <2> QED BY <2>7, <2>8, <2>9
<1>8. Good(Len(bytes))
  <2> HIDE DEF T
  <2>1. 0 .. Len(bytes) \subseteq T
    BY <1>2, <1>6, <1>7, LoopInduction
  <2>2. Len(bytes) \in T
    BY <1>2, <2>1
  <2> QED BY <2>2 DEF T
<1>9. Read(Len(bytes)) = after
  BY SubSeqFull
<1>10. /\ count \in Nat /\ Good(Len(bytes)) /\ c(L + Len(bytes)) = count
       /\ L + Len(bytes) = Len(all) /\ IsFiniteSet(feeds)
  <2>1. IsFiniteSet(1 .. Len(all))
    BY <1>3, FS_Interval
  <2>2. IsFiniteSet(feeds)
    BY <1>4, <2>1, FS_Subset
  <2>3. count \in Nat
    BY <2>2, FS_CardinalityType
  <2>4. UpTo(feeds, L + Len(bytes)) = feeds
    <3>1. \A i \in feeds : i <= L + Len(bytes)
      BY <1>3, <1>4
    <3> QED BY <3>1 DEF UpTo
  <2> HIDE DEF Good
  <2> QED BY <1>3, <1>8, <2>2, <2>3, <2>4
<1> HIDE DEF Read, c, from, event, count, T
<1>11. /\ \A j \in 1 .. count : feed(j) \in feeds
       /\ \A i \in feeds : count > 0 /\ i <= feed(count)
       /\ \/ /\ \A j \in 1 .. count : event(j) # Failed
             /\ after = [line |-> SubSeq(all, from(Len(all)), Len(all)),
                         events |-> before.events \o Firsts(count)]
             /\ ~Over(after)
          \/ \E m \in 1 .. count :
               /\ event(m) = Failed /\ \A j \in 1 .. m - 1 : event(j) # Failed
               /\ after.events = before.events \o Firsts(m)
               /\ Over(after)
  <2> HIDE DEF Firsts
  <2>1. Ranked(Len(all))
    BY <1>9, <1>10
  <2>2. \A i \in feeds : i <= Len(all)
    BY <1>3, <1>4
  <2> QED BY <1>9, <1>10, <2>1, <2>2
<1>12. ASSUME NEW m \in 0 .. count
       PROVE  /\ Firsts(m) \in Seq(Event) /\ (Firsts(m) # <<>> <=> m # 0)
              /\ m # 0 => Last(Firsts(m)) = event(m) /\ (IsTerminal(event(m)) <=> event(m) = Failed)
  <2>1. m \in Nat /\ \A j \in 1 .. m : feed(j) \in feeds
    BY <1>10, <1>11
  <2>2. /\ \A j \in 1 .. m : IsTerminal(event(j)) <=> event(j) = Failed
        /\ Firsts(m) \in Seq(Event) /\ Len(Firsts(m)) = m
        /\ \A j \in 1 .. m : Firsts(m)[j] = event(j)
    BY <1>5, <2>1 DEF event
  <2>3. m # 0 => m \in 1 .. m
    BY <2>1
  <2> HIDE DEF Firsts
  <2> QED BY <2>1, <2>2, <2>3 DEF Last
<1>13. pushed.pending = rest /\ pushed.events = Firsts(made)
  <2> HIDE DEF rest, Firsts, made
  <2> QED BY <1>1
<1>14. CASE ~Over(after)
  <2>1. /\ \A j \in 1 .. count : event(j) # Failed
        /\ after.line = SubSeq(all, from(Len(all)), Len(all))
        /\ after.events = before.events \o Firsts(count)
    <3> DEFINE s == SubSeq(all, from(Len(all)), Len(all))
               t == before.events \o Firsts(count)
    <3> HIDE DEF s, t
    <3>1. (\A j \in 1 .. count : event(j) # Failed) /\ after = [line |-> s, events |-> t]
      BY <1>11, <1>14 DEF s, t
    <3>2. after.line = s /\ after.events = t
      BY <3>1
    <3> QED BY <3>1, <3>2 DEF s, t
  <2>2. failures = {} /\ made = count
    BY <2>1
  <2>3. rest = SubSeq(all, from(Len(all)), Len(all)) /\ rest \in Seq(Byte)
    <3>1. CASE feeds = {}
      <4>1. count = 0
        BY <3>1, FS_EmptySet DEF count
      <4>2. from(Len(all)) = 1
        BY <1>3, <1>10, <4>1 DEF from
      <4>3. SubSeq(all, 1, Len(all)) = all
        BY <1>3, SubSeqFull
      <4> QED BY <1>3, <3>1, <4>2, <4>3
    <3>2. CASE feeds # {}
      <4>1. count \in 1 .. count
        BY <1>10, <1>11, <3>2
      <4>2. feed(count) \in feeds /\ \A i \in feeds : i <= feed(count)
        BY <1>11, <4>1
      <4>3. Max(feeds) = feed(count)
        <5>1. feeds \in SUBSET Nat
          BY <1>4
        <5> QED BY <4>2, <5>1, IsMax
      <4>4. from(Len(all)) = Max(feeds) + 1
        BY <1>3, <1>10, <4>1, <4>3 DEF from
      <4>5. SubSeq(all, Max(feeds) + 1, Len(all)) \in Seq(Byte)
        <5>1. Max(feeds) + 1 \in Nat \ {0}
          <6>1. Max(feeds) \in 1 .. Len(all)
            BY <1>4, <4>2, <4>3
          <6> HIDE DEF all
          <6> QED BY <1>3, <6>1
        <5>2. \A i \in Max(feeds) + 1 .. Len(all) : all[i] \in Byte
          BY <1>3, <5>1
        <5> QED BY <1>3, <5>1, <5>2, SubSeqProperties
      <4> HIDE DEF made, failures
      <4> QED BY <2>2, <3>2, <4>4, <4>5
    <3> QED BY <3>1, <3>2
  <2>4. count \in 0 .. count /\ (count # 0 => count \in 1 .. count)
    BY <1>10
  <2>5. Firsts(count) # <<>> => ~IsTerminal(Last(Firsts(count)))
    BY <1>12, <2>1, <2>4
  <2>6. Firsts(count) \in Seq(Event)
    BY <1>12, <2>4
  <2> HIDE DEF rest, Firsts, made
  <2> QED BY <1>13, <1>14, <2>1, <2>2, <2>3, <2>5, <2>6
<1>15. CASE Over(after)
  <2>1. PICK m \in 1 .. count :
          /\ event(m) = Failed /\ \A j \in 1 .. m - 1 : event(j) # Failed
          /\ after.events = before.events \o Firsts(m)
    BY <1>11, <1>15
  <2>2. made = m /\ failures # {}
    <3>1. m \in failures /\ failures \in SUBSET Nat
      BY <1>10, <2>1
    <3>2. \A j \in failures : m <= j
      <4>1. \A j \in 1 .. count : m <= j \/ j \in 1 .. m - 1
        BY <1>10
      <4> QED BY <2>1, <4>1
    <3> HIDE DEF failures
    <3>3. Min(failures) = m
      BY <3>1, <3>2, IsMin
    <3> QED BY <3>1, <3>3
  <2>3. m \in 0 .. count /\ m # 0
    BY <1>10
  <2>4. Firsts(m) \in Seq(Event) /\ Firsts(m) # <<>> /\ IsTerminal(Last(Firsts(m)))
    BY <1>12, <2>1, <2>3
  <2>5. rest = <<>> /\ <<>> \in Seq(Byte)
    <3>1. feeds # {}
      BY <1>11
    <3> HIDE DEF made, failures
    <3> QED BY <2>2, <3>1
  <2> HIDE DEF rest, Firsts, made
  <2> QED BY <1>13, <1>15, <2>1, <2>2, <2>4, <2>5
<1> QED BY <1>14, <1>15

-----------------------------------------------------------------------------
(***************************************************************************)
(* What was accepted of what was read.                                     *)
(***************************************************************************)
\* What is unheard is whatever follows what was accepted.
LEMMA UnheardRest ==
  ASSUME NEW s \in Seq(Event), NEW left \in Seq(Event), NEW m, m = s \o left
  PROVE  left = SubSeq(m, Len(s) + 1, Len(m))
<1> DEFINE t == SubSeq(m, Len(s) + 1, Len(m))
<1>2. /\ m \in Seq(Event) /\ Len(m) = Len(s) + Len(left)
      /\ \A i \in 1 .. Len(s) + Len(left) : m[i] = IF i <= Len(s) THEN s[i] ELSE left[i - Len(s)]
  <2> QED BY ConcatProperties
<1>3. Len(s) \in Nat /\ Len(left) \in Nat
  OBVIOUS
<1>4. /\ t \in Seq(Event) /\ Len(t) = Len(left)
      /\ \A i \in 1 .. Len(left) : t[i] = left[i]
  <2>1. \A i \in Len(s) + 1 .. Len(m) : m[i] \in Event
    BY <1>2, <1>3
  <2>2. Len(s) + 1 \in Int /\ Len(m) \in Int
    BY <1>2, <1>3
  <2>3. /\ t \in Seq(Event)
        /\ Len(t) = IF Len(s) + 1 <= Len(m) THEN Len(m) - (Len(s) + 1) + 1 ELSE 0
        /\ \A i \in 1 .. Len(m) - (Len(s) + 1) + 1 : t[i] = m[(Len(s) + 1) + i - 1]
    BY <2>1, <2>2, SubSeqProperties
  <2>4. \A i \in 1 .. Len(left) :
          /\ i \in 1 .. Len(m) - (Len(s) + 1) + 1
          /\ (Len(s) + 1) + i - 1 \in 1 .. Len(s) + Len(left)
          /\ ~((Len(s) + 1) + i - 1 <= Len(s)) /\ ((Len(s) + 1) + i - 1) - Len(s) = i
    BY <1>2, <1>3
  <2>5. Len(t) = Len(left)
    BY <1>2, <1>3, <2>3
  <2> HIDE DEF t
  <2> QED BY <1>2, <2>3, <2>4, <2>5
<1> HIDE DEF t
<1>5. t = left
  BY <1>4, SeqEqual
<1> QED BY <1>5 DEF t

\* So something unheard stands for it.
LEMMA MeaningMeans ==
  ASSUME NEW r
  PROVE  MeaningOf(r) <=>
           /\ taken[r] \in Seq(Datum) /\ pending[r] \in Seq(Byte)
           /\ accepted[r] \in Seq(Event) /\ events[r] \in Seq(Event)
           /\ \E left : Unheard(r, left)
           /\ IF instance.binding = "stdin" THEN ReaderKeepsUp(r) ELSE events[r] = <<>>
<1>1. ASSUME accepted[r] \in Seq(Event), NEW left, Unheard(r, left)
      PROVE  Unheard(r, SubSeq(Meaning(r), Len(accepted[r]) + 1, Len(Meaning(r))))
  BY <1>1, UnheardRest DEF Unheard
<1> QED BY <1>1 DEF MeaningOf

\* The same after a step.
LEMMA MeaningMeansNext ==
  ASSUME NEW r
  PROVE  MeaningOf(r)' <=>
           /\ taken'[r] \in Seq(Datum) /\ pending'[r] \in Seq(Byte)
           /\ accepted'[r] \in Seq(Event) /\ events'[r] \in Seq(Event)
           /\ \E left : Unheard(r, left)'
           /\ IF instance'.binding = "stdin" THEN ReaderKeepsUp(r)' ELSE events'[r] = <<>>
<1>1. ASSUME accepted'[r] \in Seq(Event), NEW left, Unheard(r, left)'
      PROVE  Unheard(r, SubSeq(Meaning(r), Len(accepted[r]) + 1, Len(Meaning(r))))'
  BY <1>1, UnheardRest DEF Unheard
<1> QED BY <1>1 DEF MeaningOf

\* Steps that leave alone what a realization read and got, but may stop its
\* gate, end its thread or make its task listen no more.
Kept(r) ==
  /\ instance' = instance
  /\ taken'[r] = taken[r] /\ accepted'[r] = accepted[r]
  /\ pending'[r] = pending[r] /\ events'[r] = events[r]
  /\ gate'[r] \in {gate[r], "Stopped"}
  /\ Listens(r)' => Listens(r)
  /\ thread[r] = "done" => thread'[r] = "done"

LEMMA MeaningKept ==
  ASSUME NEW r, MeaningOf(r), Kept(r)
  PROVE  MeaningOf(r)'
<1>1. PICK left : Unheard(r, left)
  BY MeaningMeans
<1>2. Meaning(r)' = Meaning(r)
  BY DEF Meaning, Kept
<1>3. Unheard(r, left)'
  BY <1>1, <1>2 DEF Unheard, Kept
<1>4. /\ taken[r] \in Seq(Datum) /\ pending[r] \in Seq(Byte)
      /\ accepted[r] \in Seq(Event) /\ events[r] \in Seq(Event)
      /\ IF instance.binding = "stdin" THEN ReaderKeepsUp(r) ELSE events[r] = <<>>
  BY MeaningMeans
<1>5. ReaderKeepsUp(r) => ReaderKeepsUp(r)'
  BY DEF ReaderKeepsUp, Kept
<1> QED BY <1>3, <1>4, <1>5, MeaningMeansNext DEF Kept

\* A step at one realization is one of these for every other.
LEMMA MeaningSteps ==
  ASSUME MeaningInv, input' \in Seq(Byte),
         \A r \in Realizations : Kept(r) \/ MeaningOf(r)'
  PROVE  MeaningInv'
BY MeaningKept DEF MeaningInv

\* The last of two sequences of events is the last of the second.
LEMMA LastOfBoth ==
  ASSUME NEW s \in Seq(Event), NEW t \in Seq(Event), t # <<>>
  PROVE  s \o t # <<>> /\ Last(s \o t) = Last(t)
<1>1. /\ s \o t \in Seq(Event) /\ Len(s \o t) = Len(s) + Len(t)
      /\ \A i \in 1 .. Len(s) + Len(t) : (s \o t)[i] = IF i <= Len(s) THEN s[i] ELSE t[i - Len(s)]
  BY ConcatProperties
<1>2. Len(s) \in Nat /\ Len(t) \in Nat \ {0}
  OBVIOUS
<1> DEFINE n == Len(s) + Len(t)
<1>3. n \in 1 .. n /\ ~(n <= Len(s)) /\ n - Len(s) = Len(t)
  BY <1>2
<1>4. (s \o t)[n] = t[Len(t)]
  BY <1>1, <1>3
<1>5. s \o t # <<>>
  BY <1>1, <1>2
<1> QED BY <1>1, <1>4, <1>5 DEF Last

\* The thread read, and its decoder made of it what the contract does.
LEMMA MeaningRead ==
  ASSUME NEW r, MeaningOf(r), instance.binding = "stdin", instance' = instance,
         thread[r] # "done", NEW bytes \in Seq(Datum), NEW made \in Seq(Event),
         taken'[r] = taken[r] \o bytes, events'[r] = events[r] \o made,
         thread'[r] = IF SendsTerminal(made) THEN "done" ELSE "waiting",
         accepted'[r] = accepted[r], gate'[r] = gate[r], task'[r] = task[r],
         pending'[r] \in Seq(Byte), NEW after, after = MadeOf(taken[r] \o bytes),
         after.events = MadeOf(taken[r]).events \o made,
         Over(after) <=> SendsTerminal(made),
         ~Over(after) => after.line = pending'[r]
  PROVE  MeaningOf(r)'
<1>1. PICK left : Unheard(r, left)
  BY MeaningMeans
<1>2. /\ taken[r] \in Seq(Datum) /\ accepted[r] \in Seq(Event) /\ events[r] \in Seq(Event)
      /\ ReaderKeepsUp(r)
  BY MeaningMeans
<1>3. gate[r] # "TerminalAccepted" /\ MadeOf(taken'[r]) = after
  BY <1>2 DEF ReaderKeepsUp
<1>4. ReaderKeepsUp(r)'
  BY <1>3 DEF ReaderKeepsUp
<1>5. taken'[r] \in Seq(Datum) /\ events'[r] \in Seq(Event)
  BY <1>2, ConcatProperties
<1>6. Unheard(r, left \o made)'
  <2>1. left \in Seq(Event) /\ Meaning(r) = accepted[r] \o left
    BY <1>1 DEF Unheard
  <2>2. Meaning(r) = MadeOf(taken[r]).events /\ Meaning(r)' = after.events
    BY <1>3 DEF Meaning, LinesOf
  <2>3. Meaning(r)' = accepted'[r] \o (left \o made)
    <3> DEFINE s == accepted[r]
    <3>1. s \in Seq(Event) /\ left \in Seq(Event) /\ made \in Seq(Event)
      BY <1>2, <2>1
    <3> HIDE DEF s
    <3>3. s \o (left \o made) = (s \o left) \o made
      BY ONLY <3>1, ConcatAssociative
    <3>4. accepted[r] \o (left \o made) = (accepted[r] \o left) \o made
      BY <3>3 DEF s
    <3>2. Meaning(r)' = Meaning(r) \o made
      BY <2>2
    <3> QED BY <2>1, <3>2, <3>4
  <2>4. left \o made \in Seq(Event)
    BY <2>1, ConcatProperties
  <2>5. Listens(r)' => events'[r] = left \o made
    BY <1>1 DEF Unheard, Listens
  <2> QED BY <1>3, <2>3, <2>4, <2>5 DEF Unheard
<1> QED BY <1>2, <1>4, <1>5, <1>6, MeaningMeansNext

\* It read the end of the input, or it failed to read.
LEMMA DatumMeans ==
  ASSUME NEW data \in Seq(Datum), NEW datum \in {"eof", "error"}, ~Over(MadeOf(data)),
         NEW made, made = IF datum = "eof" THEN Finish(MadeOf(data).line) ELSE <<Failed>>,
         NEW after, after = MadeOf(data \o <<datum>>)
  PROVE  /\ <<datum>> \in Seq(Datum) /\ made \in Seq(Event) /\ SendsTerminal(made)
         /\ after.events = MadeOf(data).events \o made /\ Over(after)
<1>1. datum \in Datum /\ <<datum>> \in Seq(Datum)
  BY DEF Datum
<1>2. data \o <<datum>> = Append(data, datum)
  BY <1>1, AppendIsConcat
<1> DEFINE before == MadeOf(data)
<1>3. before \in Contract /\ after = NextByte(datum, before)
  BY <1>1, <1>2, MadeAppend
<1>4. before.line \in Seq(Byte) /\ before.events \in Seq(Event)
  BY <1>3 DEF Contract
<1>5. made \in Seq(Event) /\ made # <<>> /\ IsTerminal(Last(made))
  <2>1. CASE datum = "eof"
    BY <1>4, <2>1, FinishEvents
  <2>2. CASE datum # "eof"
    <3>1. <<>> \in Seq(Byte)
      OBVIOUS
    <3>2. Failed \in Event /\ IsTerminal(Failed)
      BY <3>1 DEF Failed, Event, IsTerminal
    <3>3. <<Failed>> \in Seq(Event) /\ <<Failed>> # <<>> /\ Last(<<Failed>>) = Failed
      BY <3>2 DEF Last
    <3> QED BY <2>2, <3>2, <3>3
  <2> QED BY <2>1, <2>2
<1> HIDE DEF before
<1>6. ~Over(before) /\ (datum = "eof" => made = Finish(before.line))
      /\ (datum = "error" => made = <<Failed>>)
  BY DEF before
<1>7. after = [line |-> <<>>, events |-> before.events \o made]
  BY <1>1, <1>3, <1>6, NextByteMakes
<1>8. after.events = before.events \o made
  <2> DEFINE u == before.events \o made
  <2>1. after = [line |-> <<>>, events |-> u]
    BY <1>7
  <2> HIDE DEF u
  <2>2. after.events = u
    BY <2>1
  <2> QED BY <2>2 DEF u
<1>9. Over(after)
  BY <1>4, <1>5, <1>8, LastOfBoth DEF Over
<1> QED BY <1>1, <1>5, <1>8, <1>9 DEF before, SendsTerminal

\* A terminal event is the last that is unheard when it is first.
LEMMA EndsLast ==
  ASSUME NEW s \in Seq(Event), NEW left \in Seq(Event), left # <<>>,
         OnlyLastEnds(s \o left), IsTerminal(Head(left))
  PROVE  Tail(left) = <<>> /\ s \o left # <<>> /\ IsTerminal(Last(s \o left))
<1>1. /\ s \o left \in Seq(Event) /\ Len(s \o left) = Len(s) + Len(left)
      /\ \A i \in 1 .. Len(s) + Len(left) :
           (s \o left)[i] = IF i <= Len(s) THEN s[i] ELSE left[i - Len(s)]
  BY ConcatProperties
<1>2. Len(s) \in Nat /\ Len(left) \in Nat \ {0} /\ Head(left) = left[1]
  OBVIOUS
<1>3. DOMAIN (s \o left) = 1 .. Len(s) + Len(left)
  BY <1>1
<1> DEFINE n == Len(s) + 1
<1>4. n \in 1 .. Len(s) + Len(left) /\ ~(n <= Len(s)) /\ n - Len(s) = 1
  BY <1>2
<1>5. IsTerminal((s \o left)[n])
  BY <1>1, <1>2, <1>4
<1> HIDE DEF n
<1>6. n = Len(s) + Len(left)
  BY <1>1, <1>3, <1>4, <1>5 DEF OnlyLastEnds
<1>7. Len(left) = 1
  <2>1. Len(s) + 1 = Len(s) + Len(left)
    BY <1>6 DEF n
  <2>2. \A a, b \in Nat : a + 1 = a + b => b = 1
    OBVIOUS
  <2> QED BY <1>2, <2>1, <2>2
<1>8. Tail(left) = <<>>
  <2>1. Tail(left) \in Seq(Event) /\ Len(Tail(left)) = 0
    BY <1>2, <1>7, HeadTailProperties
  <2> DEFINE t == Tail(left)
  <2> HIDE DEF t
  <2>2. t \in Seq(Event) /\ Len(t) = 0
    BY <2>1 DEF t
  <2>3. t = <<>>
    BY <2>2
  <2> QED BY <2>3 DEF t
<1>9. Last(left) = Head(left)
  BY <1>2, <1>7 DEF Last
<1> QED BY <1>8, <1>9, LastOfBoth

\* The head and the tail of two sequences of events are those of the first.
LEMMA ConcatHeadTail ==
  ASSUME NEW s \in Seq(Event), NEW t \in Seq(Event), s # <<>>
  PROVE  Head(s \o t) = Head(s) /\ Tail(s \o t) = Tail(s) \o t
<1>1. /\ s \o t \in Seq(Event) /\ Len(s \o t) = Len(s) + Len(t)
      /\ \A i \in 1 .. Len(s) + Len(t) : (s \o t)[i] = IF i <= Len(s) THEN s[i] ELSE t[i - Len(s)]
  BY ConcatProperties
<1>2. Len(s) \in Nat \ {0} /\ Len(t) \in Nat
  OBVIOUS
<1>3. Head(s \o t) = Head(s)
  <2>1. 1 \in 1 .. Len(s) + Len(t) /\ 1 <= Len(s)
    BY <1>2
  <2>2. (s \o t)[1] = s[1]
    BY <1>1, <2>1
  <2> DEFINE w == s \o t
  <2>3. w \in Seq(Event) /\ w # <<>>
    BY <1>1, <1>2
  <2> HIDE DEF w
  <2>4. Head(w) = w[1] /\ Head(s) = s[1]
    BY <2>3
  <2> QED BY <2>2, <2>4 DEF w
<1> DEFINE u == Tail(s \o t)
           v == Tail(s) \o t
<1>4. /\ u \in Seq(Event) /\ Len(u) = Len(s) + Len(t) - 1
      /\ \A i \in 1 .. Len(u) : u[i] = (s \o t)[i + 1]
  <2> DEFINE w == s \o t
  <2>1. w \in Seq(Event) /\ w # <<>> /\ Len(w) = Len(s) + Len(t)
    BY <1>1, <1>2
  <2> HIDE DEF w
  <2>2. /\ Tail(w) \in Seq(Event) /\ Len(Tail(w)) = Len(w) - 1
        /\ \A i \in 1 .. Len(Tail(w)) : Tail(w)[i] = w[i + 1]
    BY <2>1, HeadTailProperties
  <2> QED BY <2>1, <2>2 DEF w
<1>5. /\ Tail(s) \in Seq(Event) /\ Len(Tail(s)) = Len(s) - 1
      /\ \A i \in 1 .. Len(s) - 1 : Tail(s)[i] = s[i + 1]
  BY HeadTailProperties
<1>6. /\ v \in Seq(Event) /\ Len(v) = Len(s) - 1 + Len(t)
      /\ \A i \in 1 .. Len(s) - 1 + Len(t) :
           v[i] = IF i <= Len(s) - 1 THEN Tail(s)[i] ELSE t[i - (Len(s) - 1)]
  BY <1>5, ConcatProperties
<1> HIDE DEF u, v
<1>7. ASSUME NEW i \in 1 .. Len(s) - 1 + Len(t) PROVE u[i] = v[i]
  <2>1. i + 1 \in 1 .. Len(s) + Len(t) /\ i \in 1 .. Len(u) /\ i + 1 - Len(s) = i - (Len(s) - 1)
    BY <1>2, <1>4
  <2>2. u[i] = IF i + 1 <= Len(s) THEN s[i + 1] ELSE t[i + 1 - Len(s)]
    BY <1>1, <1>4, <2>1
  <2>3. CASE i <= Len(s) - 1
    BY <1>2, <1>5, <1>6, <2>2, <2>3
  <2>4. CASE ~(i <= Len(s) - 1)
    BY <1>2, <1>6, <2>1, <2>2, <2>4
  <2> QED BY <2>3, <2>4
<1>8. u = v
  BY <1>2, <1>4, <1>6, <1>7, SeqEqual
<1> QED BY <1>3, <1>8 DEF u, v

\* A sequence of events is its head before its tail.
LEMMA HeadTailSplit ==
  ASSUME NEW s \in Seq(Event), s # <<>>
  PROVE  Tail(s) \in Seq(Event) /\ s = <<Head(s)>> \o Tail(s)
<1> DEFINE h == <<Head(s)>>
           t == Tail(s)
<1>1. /\ Head(s) = s[1] /\ Head(s) \in Event /\ t \in Seq(Event) /\ Len(t) = Len(s) - 1
      /\ \A i \in 1 .. Len(t) : t[i] = s[i + 1]
  BY HeadTailProperties
<1>2. h \in Seq(Event) /\ Len(h) = 1 /\ h[1] = s[1] /\ Len(s) \in Nat \ {0}
  BY <1>1
<1> HIDE DEF h, t
<1> DEFINE w == h \o t
<1>3. /\ w \in Seq(Event) /\ Len(w) = Len(s)
      /\ \A i \in 1 .. Len(s) : w[i] = IF i <= 1 THEN h[i] ELSE t[i - 1]
  <2>1. Len(h) + Len(t) = Len(s)
    BY <1>1, <1>2
  <2>2. /\ w \in Seq(Event) /\ Len(w) = Len(h) + Len(t)
        /\ \A i \in 1 .. Len(h) + Len(t) : w[i] = IF i <= Len(h) THEN h[i] ELSE t[i - Len(h)]
    BY <1>1, <1>2, ConcatProperties
  <2> HIDE DEF w
  <2> QED BY <1>2, <2>1, <2>2
<1>4. \A i \in 1 .. Len(s) : w[i] = s[i]
  <2>1. ASSUME NEW i \in 1 .. Len(s) PROVE w[i] = s[i]
    <3>1. CASE i = 1
      BY <1>2, <1>3, <3>1
    <3>2. CASE i # 1
      <4>1. i - 1 \in 1 .. Len(t) /\ ~(i <= 1) /\ (i - 1) + 1 = i
        BY <1>1, <1>2, <3>2
      <4> QED BY <1>1, <1>3, <4>1
    <3> QED BY <3>1, <3>2
  <2> QED BY <2>1
<1> HIDE DEF w
<1>5. w = s
  BY <1>3, <1>4, SeqEqual
<1> QED BY <1>1, <1>5 DEF w, h, t

\* The task hears the first event that is unheard.
LEMMA MeaningHeard ==
  ASSUME NEW r, MeaningOf(r), instance.binding = "stdin", instance' = instance,
         Listens(r), events[r] # <<>>, events'[r] = Tail(events[r]),
         UNCHANGED <<taken, pending, thread>>, NEW event, event = Head(events[r]),
         IF event # Cancelled /\ Admits(r)
         THEN /\ accepted'[r] = Append(accepted[r], event)
              /\ gate'[r] = IF IsTerminal(event) THEN "TerminalAccepted" ELSE gate[r]
         ELSE accepted'[r] = accepted[r] /\ gate'[r] = gate[r] /\ ~Listens(r)'
  PROVE  MeaningOf(r)'
<1>1. PICK left : Unheard(r, left)
  BY MeaningMeans
<1>2. /\ taken[r] \in Seq(Datum) /\ accepted[r] \in Seq(Event) /\ events[r] \in Seq(Event)
      /\ pending[r] \in Seq(Byte) /\ ReaderKeepsUp(r)
  BY MeaningMeans
<1>3. Meaning(r)' = Meaning(r) /\ Meaning(r) = MadeOf(taken[r]).events
  BY DEF Meaning, LinesOf
<1>4. left \in Seq(Event) /\ Meaning(r) = accepted[r] \o left
  BY <1>1 DEF Unheard
<1>5. events'[r] \in Seq(Event) /\ event \in Event
  BY <1>2
<1>6. CASE event # Cancelled /\ Admits(r)
  <2>1. /\ accepted'[r] = Append(accepted[r], event) /\ gate[r] = "Active"
        /\ gate'[r] = IF IsTerminal(event) THEN "TerminalAccepted" ELSE gate[r]
    BY <1>6 DEF Admits
  <2>2. events[r] = left \/ (events[r] = left \o <<Cancelled>> /\ thread[r] = "done")
    BY <1>1 DEF Unheard
  <2>3. <<Cancelled>> \in Seq(Event) /\ Cancelled \in Event
    <3>1. <<>> \in Seq(Byte)
      OBVIOUS
    <3> QED BY <3>1 DEF Cancelled, Event
  <2>4. left # <<>>
    <3>1. CASE left = <<>>
      <4>1. events[r] = <<Cancelled>>
        BY <2>2, <2>3, <3>1, ConcatEmptySeq
      <4>2. Head(<<Cancelled>>) = Cancelled
        BY <2>3
      <4> QED BY <1>6, <4>1, <4>2
    <3> QED BY <3>1
  <2>5. /\ event = Head(left)
        /\ \/ events'[r] = Tail(left)
           \/ events'[r] = Tail(left) \o <<Cancelled>> /\ thread[r] = "done"
    <3>1. left \o <<Cancelled>> = Append(left, Cancelled)
      BY <1>4, <2>3, AppendIsConcat
    <3> QED BY <1>4, <2>2, <2>3, <2>4, <3>1, ConcatHeadTail
  <2>6. Tail(left) \in Seq(Event) /\ left = <<event>> \o Tail(left)
    BY <1>4, <2>4, <2>5, HeadTailSplit
  <2>7. Meaning(r) = accepted'[r] \o Tail(left) /\ accepted'[r] \in Seq(Event)
    <3> DEFINE s == accepted[r]
    <3>1. s \in Seq(Event)
      BY <1>2
    <3> HIDE DEF s
    <3>2. /\ <<event>> \in Seq(Event) /\ Append(s, event) = s \o <<event>>
          /\ Append(s, event) \in Seq(Event)
      BY <1>5, <3>1, AppendIsConcat
    <3>3. (s \o <<event>>) \o Tail(left) = s \o (<<event>> \o Tail(left))
      BY <2>6, <3>1, <3>2, ConcatAssociative
    <3>4. Meaning(r) = s \o left /\ accepted'[r] = Append(s, event)
      BY <1>4, <2>1 DEF s
    <3> QED BY <2>6, <3>2, <3>3, <3>4
  <2>8. IsTerminal(event) => Tail(left) = <<>> /\ Over(MadeOf(taken[r]))
    <3>1. "eof" \in Datum
      BY DEF Datum
    <3>2. OnlyLastEnds(MadeOf(taken[r]).events)
      BY <1>2, <3>1, MadeAppend
    <3>3. OnlyLastEnds(accepted[r] \o left) /\ MadeOf(taken[r]).events = accepted[r] \o left
      BY <1>3, <1>4, <3>2
    <3>4. IsTerminal(event) =>
            /\ Tail(left) = <<>> /\ accepted[r] \o left # <<>>
            /\ IsTerminal(Last(accepted[r] \o left))
      BY <1>2, <1>4, <2>4, <2>5, <3>3, EndsLast
    <3> QED BY <3>3, <3>4 DEF Over
  <2>9. Unheard(r, Tail(left))'
    BY <1>3, <2>1, <2>5, <2>6, <2>7, <2>8 DEF Unheard
  <2>10. ReaderKeepsUp(r)'
    BY <1>2, <2>1, <2>8 DEF ReaderKeepsUp
  <2> QED BY <1>2, <1>5, <2>7, <2>9, <2>10, MeaningMeansNext
<1>7. CASE ~(event # Cancelled /\ Admits(r))
  <2>1. accepted'[r] = accepted[r] /\ gate'[r] = gate[r] /\ ~Listens(r)'
    BY <1>7
  <2>2. Unheard(r, left)'
    BY <1>1, <1>3, <2>1 DEF Unheard
  <2>3. ReaderKeepsUp(r)'
    BY <1>2, <2>1 DEF ReaderKeepsUp
  <2> QED BY <1>2, <1>5, <2>1, <2>2, <2>3, MeaningMeansNext
<1> QED BY <1>6, <1>7

\* A Driver of another binding read something and offered it.
LEMMA MeaningOffered ==
  ASSUME NEW r, MeaningOf(r), instance.binding # "stdin", instance' = instance,
         Listens(r), UNCHANGED <<pending, events>>, NEW datum \in Datum,
         taken'[r] = Append(taken[r], datum),
         IF Admits(r)
         THEN /\ accepted'[r] = Append(accepted[r], Told(datum))
              /\ gate'[r] = IF IsTerminal(Told(datum)) THEN "TerminalAccepted" ELSE gate[r]
         ELSE accepted'[r] = accepted[r] /\ gate'[r] = gate[r],
         Listens(r)' => Admits(r) /\ ~IsTerminal(Told(datum))
  PROVE  MeaningOf(r)'
<1>1. PICK left : Unheard(r, left)
  BY MeaningMeans
<1>2. /\ taken[r] \in Seq(Datum) /\ accepted[r] \in Seq(Event) /\ events[r] = <<>>
      /\ pending[r] \in Seq(Byte) /\ events[r] \in Seq(Event)
  BY MeaningMeans
<1>3. /\ left = <<>> /\ gate[r] # "TerminalAccepted" /\ Meaning(r) = accepted[r]
  BY <1>1, <1>2, ConcatEmptySeq DEF Unheard
<1>4. \A d \in Datum : Told(d) \in Event
  <2>1. <<>> \in Seq(Byte) /\ \A d \in Byte : <<d>> \in Seq(Byte)
    OBVIOUS
  <2> QED BY <2>1 DEF Told, Item, Line, Ended, Failed, Event, Datum
<1>5. Meaning(r)' = Append(Meaning(r), Told(datum))
  <2> DEFINE s == taken[r]
             t == Append(s, datum)
             m == [i \in DOMAIN s |-> Told(s[i])]
  <2>1. /\ s \in Seq(Datum) /\ t \in Seq(Datum) /\ Len(t) = Len(s) + 1 /\ t[Len(s) + 1] = datum
        /\ \A i \in 1 .. Len(s) : t[i] = s[i]
    BY <1>2, AppendProperties
  <2>2. Meaning(r) = m /\ Meaning(r)' = [i \in DOMAIN t |-> Told(t[i])]
    BY DEF Meaning
  <2> HIDE DEF s, t
  <2>3. DOMAIN s = 1 .. Len(s) /\ DOMAIN t = 1 .. Len(s) + 1 /\ Len(s) \in Nat
    BY <2>1
  <2>4. \A i \in 1 .. Len(s) : Told(s[i]) \in Event
    BY <1>4, <2>1
  <2>5. m \in Seq(Event) /\ Len(m) = Len(s) /\ \A i \in 1 .. Len(s) : m[i] = Told(s[i])
    BY <2>3, <2>4
  <2> DEFINE e == Told(datum)
             u == Append(m, e)
             v == [i \in DOMAIN t |-> Told(t[i])]
  <2>6. e \in Event
    BY <1>4
  <2>7. \A i \in 1 .. Len(s) + 1 : (i = Len(s) + 1 /\ t[i] = datum) \/ i \in 1 .. Len(s)
    BY <2>1, <2>3
  <2>8. v \in Seq(Event) /\ Len(v) = Len(s) + 1 /\ \A i \in 1 .. Len(s) + 1 : v[i] = Told(t[i])
    <3>1. \A i \in 1 .. Len(s) + 1 : Told(t[i]) \in Event
      BY <2>1, <2>4, <2>6, <2>7
    <3> QED BY <2>3, <3>1
  <2> HIDE DEF m, e, v
  <2>9. u \in Seq(Event) /\ Len(u) = Len(s) + 1 /\ u[Len(s) + 1] = e
        /\ \A i \in 1 .. Len(s) : u[i] = m[i]
    BY <2>5, <2>6, AppendProperties
  <2> HIDE DEF u
  <2>10. \A i \in 1 .. Len(s) + 1 : u[i] = v[i]
    BY <2>1, <2>5, <2>7, <2>8, <2>9 DEF e
  <2>11. u = v
    BY <2>8, <2>9, <2>10, SeqEqual
  <2> QED BY <2>2, <2>11 DEF u, v, e
<1>6. taken'[r] \in Seq(Datum) /\ Append(accepted[r], Told(datum)) \in Seq(Event)
      /\ <<Told(datum)>> \in Seq(Event) /\ <<>> \in Seq(Event)
  BY <1>2, <1>4
<1>7. CASE Admits(r)
  <2>1. accepted'[r] = Meaning(r)' /\ accepted'[r] \in Seq(Event)
    BY <1>3, <1>5, <1>6, <1>7
  <2>2. Meaning(r)' = accepted'[r] \o <<>>
    BY <2>1, ConcatEmptySeq
  <2>3. Listens(r)' => gate'[r] # "TerminalAccepted"
    BY <1>3, <1>7
  <2>4. Unheard(r, <<>>)'
    BY <1>6, <2>2, <2>3 DEF Unheard
  <2> QED BY <1>2, <1>6, <2>1, <2>4, MeaningMeansNext
<1>8. CASE ~Admits(r)
  <2>1. accepted'[r] = accepted[r] /\ gate'[r] = gate[r] /\ ~Listens(r)'
    BY <1>8
  <2>2. Meaning(r)' = accepted'[r] \o <<Told(datum)>>
    BY <1>2, <1>3, <1>4, <1>5, <2>1, AppendIsConcat
  <2>3. Unheard(r, <<Told(datum)>>)'
    BY <1>3, <1>6, <2>1, <2>2 DEF Unheard
  <2> QED BY <1>2, <1>6, <2>1, <2>3, MeaningMeansNext
<1> QED BY <1>7, <1>8

\* Steps that neither read, send nor accept.
LEMMA MeaningQuiet ==
  ASSUME MeaningInv, input' \in Seq(Byte),
         UNCHANGED <<instance, taken, accepted, pending, events>>,
         \A r \in Realizations :
           /\ gate'[r] \in {gate[r], "Stopped"}
           /\ task'[r] = task[r] \/ ~Listens(r)' \/ Listens(r)
           /\ thread[r] = "done" => thread'[r] = "done"
  PROVE  MeaningInv'
<1>1. \A r \in Realizations : Kept(r)
  BY DEF Kept, Listens
<1> QED BY <1>1, MeaningSteps

\* Owners and the world.
LEMMA MeaningSurroundings ==
  ASSUME DriverInv, MeaningInv, Surroundings, UNCHANGED readerVars
  PROVE  MeaningInv'
<1>1. input \in Seq(Byte) /\ instance \in Instances
  BY DEF MeaningInv, DriverInv, GateInv, RealizationTypeOK
<1>2. /\ gate \in [Realizations -> {"Active", "TerminalAccepted", "Stopped"}]
      /\ task \in [Realizations -> TaskState]
  BY DEF DriverInv, GateInv, RealizationTypeOK
<1>3. UNCHANGED <<pending, events, thread>>
  BY DEF readerVars
<1>4. ASSUME NEW rt \in Runtimes, NEW r \in Realizations, StopGate(rt, r) PROVE MeaningInv'
  <2>1. \A s \in Realizations : gate'[s] \in {gate[s], "Stopped"}
    BY <1>2, <1>4 DEF StopGate
  <2> QED BY <1>1, <1>3, <1>4, <2>1, MeaningQuiet DEF StopGate, worldVars
<1>5. ASSUME NEW rt \in Runtimes, CloseScope(rt) \/ DropOwner(rt) PROVE MeaningInv'
  BY <1>1, <1>3, <1>5, MeaningQuiet DEF CloseScope, DropOwner, worldVars, realizationVars
<1>6. ASSUME NEW r \in Realizations, RefusalReturned(r) \/ DroppedAtAwait(r) PROVE MeaningInv'
  <2>1. \A s \in Realizations : task'[s] = task[s] \/ ~Listens(s)'
    BY <1>2, <1>6 DEF RefusalReturned, DroppedAtAwait, Listens
  <2> QED BY <1>1, <1>3, <1>6, <2>1, MeaningQuiet
          DEF RefusalReturned, DroppedAtAwait, ownerVars, worldVars
<1>7. ASSUME NEW byte \in instance.bytes, WorldWrites(byte) PROVE MeaningInv'
  <2>1. byte \in Byte
    BY <1>1, InstancesAssumption
  <2>2. input' \in Seq(Byte)
    BY <1>1, <1>7, <2>1, AppendProperties DEF WorldWrites
  <2> QED BY <1>3, <1>7, <2>2, MeaningQuiet DEF WorldWrites, ownerVars, realizationVars
<1>8. ASSUME WorldEnds PROVE MeaningInv'
  BY <1>1, <1>3, <1>8, MeaningQuiet DEF WorldEnds, ownerVars, realizationVars
<1> QED BY <1>4, <1>5, <1>6, <1>7, <1>8 DEF Surroundings

\* A realization is made: nobody listened before, nothing was read.
LEMMA MeaningRealized ==
  ASSUME DriverInv, MeaningInv, NEW rt, NEW state, NEW hooked, Realize(rt, state, hooked),
         UNCHANGED <<pending, events>>,
         thread' = thread \/ thread' = [thread EXCEPT ![realized + 1] = "waiting"]
  PROVE  MeaningInv'
<1>1. /\ task \in [Realizations -> TaskState]
      /\ thread \in [Realizations -> {"none", "waiting", "reading", "done"}]
      /\ realized \in 0 .. MaxRealizations /\ MaxRealizations \in Nat
  BY InstancesAssumption
     DEF DriverInv, GateInv, RealizationTypeOK, CutoverInv, LeaseInv, ReaderTypeOK
<1>2. realized' = realized + 1 /\ realized' \in Realizations
  BY RealizeNumbers DEF DriverInv, CutoverInv
<1> DEFINE r == realized'
<1>3. task[r] = "none" /\ thread[r] = "none"
  <2>1. r > realized
    BY <1>1, <1>2
  <2> QED BY <1>2, <2>1 DEF DriverInv, GateInv, GateOf, CutoverInv, LeaseInv
<1>4. task' = [task EXCEPT ![r] = state]
  BY DEF Realize
<1>5. thread' = thread \/ thread' = [thread EXCEPT ![r] = "waiting"]
  BY <1>2
<1>6. input' \in Seq(Byte) /\ UNCHANGED <<instance, taken, accepted, gate>>
  BY DEF MeaningInv, Realize, worldVars
<1> HIDE DEF r
<1>7. ASSUME NEW s \in Realizations
      PROVE  /\ task'[s] = task[s] \/ Listens(s)
             /\ thread[s] = "done" => thread'[s] = "done"
  <2>1. CASE s = r
    BY <1>3, <2>1 DEF Listens
  <2>2. CASE s # r
    BY <1>1, <1>4, <1>5, <2>2
  <2> QED BY <2>1, <2>2
<1> QED BY <1>6, <1>7, MeaningQuiet

\* The reader thread.
LEMMA MeaningThread ==
  ASSUME DriverInv, MeaningInv, NEW r \in Realizations, ReaderThread(r)
  PROVE  MeaningInv'
<1>1. /\ thread \in [Realizations -> {"none", "waiting", "reading", "done"}]
      /\ DOMAIN taken = Realizations /\ DOMAIN pending = Realizations
      /\ DOMAIN events = Realizations /\ position \in 0 .. Len(input)
  BY DEF DriverInv, CutoverInv, LeaseInv, ReaderTypeOK, ChannelInv
<1>2. input \in Seq(Byte) /\ \A s \in Realizations : MeaningOf(s)
  BY DEF MeaningInv
<1>3. thread[r] \in {"waiting", "reading"} /\ thread[r] # "done"
  BY DEF ReaderThread, PollCancelled, PollReady, PollFails, ReadBytes, ReadEnd, ReadAgain,
         ReadFails
<1>4. instance.binding = "stdin"
  <2>1. Reads(r)
    BY <1>3 DEF Reads
  <2> QED BY <2>1 DEF DriverInv, CutoverInv, LeaseInv, Holds
<1>5. /\ taken[r] \in Seq(Datum) /\ pending[r] \in Seq(Byte)
      /\ accepted[r] \in Seq(Event) /\ events[r] \in Seq(Event) /\ ReaderKeepsUp(r)
  BY <1>2, <1>4, MeaningMeans
<1>6. ~Over(MadeOf(taken[r])) /\ pending[r] = MadeOf(taken[r]).line
  BY <1>3, <1>5 DEF ReaderKeepsUp
<1>7. CASE PollReady(r) \/ PollFails(r) \/ ReadAgain(r)
  <2>1. /\ input' = input /\ UNCHANGED <<instance, taken, accepted, pending, events, gate, task>>
        /\ \E t : thread' = [thread EXCEPT ![r] = t]
    BY <1>7 DEF PollReady, PollFails, ReadAgain, ownerVars, worldVars, realizationVars
  <2>2. \A s \in Realizations : thread[s] = "done" => thread'[s] = "done"
    BY <1>1, <1>3, <2>1
  <2> QED BY <1>2, <2>1, <2>2, MeaningQuiet
<1>8. CASE PollCancelled(r)
  <2>1. /\ input' = input /\ UNCHANGED <<instance, taken, accepted, pending, gate, task>>
        /\ thread' = [thread EXCEPT ![r] = "done"]
        /\ events' = [events EXCEPT ![r] = @ \o <<Cancelled>>]
    BY <1>8 DEF PollCancelled, Send, ownerVars, worldVars, realizationVars
  <2>2. \A s \in Realizations \ {r} : Kept(s)
    BY <1>1, <2>1 DEF Kept, Listens
  <2>3. MeaningOf(r)'
    <3>1. events'[r] = events[r] \o <<Cancelled>> /\ thread'[r] = "done"
      BY <1>1, <2>1
    <3>2. PICK left : Unheard(r, left)
      BY <1>2, MeaningMeans
    <3>3. Meaning(r)' = Meaning(r)
      BY <2>1 DEF Meaning
    <3>4. Unheard(r, left)'
      BY <1>3, <1>4, <2>1, <3>1, <3>2, <3>3 DEF Unheard, Listens
    <3>5. events'[r] \in Seq(Event)
      <4>1. <<>> \in Seq(Byte)
        OBVIOUS
      <4>2. <<Cancelled>> \in Seq(Event)
        BY <4>1 DEF Cancelled, Event
      <4> QED BY <1>5, <3>1, <4>2, ConcatProperties
    <3>6. ReaderKeepsUp(r)'
      BY <1>5, <2>1, <3>1 DEF ReaderKeepsUp
    <3> QED BY <1>4, <1>5, <2>1, <3>4, <3>5, <3>6, MeaningMeansNext
  <2> QED BY <1>2, <2>1, <2>2, <2>3, MeaningSteps
<1>9. ASSUME NEW bytes \in Seq(Datum), NEW made \in Seq(Event), ReadDone(r, bytes, made),
             NEW line \in Seq(Byte), pending'[r] = line,
             \A s \in Realizations \ {r} : pending'[s] = pending[s],
             NEW after, after = MadeOf(taken[r] \o bytes),
             after.events = MadeOf(taken[r]).events \o made,
             Over(after) <=> SendsTerminal(made), ~Over(after) => after.line = line
      PROVE  MeaningInv'
  <2>1. /\ input' = input /\ UNCHANGED <<instance, accepted, gate, task>>
        /\ thread' = [thread EXCEPT ![r] = IF SendsTerminal(made) THEN "done" ELSE "waiting"]
        /\ events' = [events EXCEPT ![r] = @ \o made]
        /\ taken' = [taken EXCEPT ![r] = @ \o bytes]
    BY <1>9 DEF ReadDone, Send, ownerVars
  <2>2. \A s \in Realizations \ {r} : Kept(s)
    BY <1>1, <1>9, <2>1 DEF Kept, Listens
  <2>3. /\ taken'[r] = taken[r] \o bytes /\ events'[r] = events[r] \o made
        /\ thread'[r] = IF SendsTerminal(made) THEN "done" ELSE "waiting"
    BY <1>1, <2>1
  <2>4. MeaningOf(r)'
    BY <1>2, <1>3, <1>4, <1>9, <2>1, <2>3, MeaningRead
  <2> QED BY <1>2, <2>1, <2>2, <2>4, MeaningSteps
<1>10. CASE ReadBytes(r)
  <2> DEFINE bytes == SubSeq(input, position + 1, position')
             pushed == Push(pending[r], bytes)
  <2>1. ReadDone(r, bytes, pushed.events) /\ pending' = [pending EXCEPT ![r] = pushed.pending]
    BY <1>10 DEF ReadBytes
  <2>2. position < Len(input) /\ position' = Min({position + Chunk, Len(input)})
    BY <1>10 DEF ReadBytes
  <2>3. position' \in 0 .. Len(input)
    <3>1. Len(input) \in Nat /\ position \in Nat /\ position + Chunk \in Nat
      BY <1>1, <1>2, ChunkAssumption
    <3>2. CASE position + Chunk <= Len(input)
      BY <2>2, <3>1, <3>2, IsMin
    <3>3. CASE ~(position + Chunk <= Len(input))
      BY <2>2, <3>1, <3>3, IsMin
    <3> QED BY <3>2, <3>3
  <2>4. bytes \in Seq(Byte) /\ bytes \in Seq(Datum)
    <3>1. \A i \in position + 1 .. position' : input[i] \in Byte
      BY <1>1, <1>2, <2>3
    <3>2. position + 1 \in Int /\ position' \in Int
      BY <1>1, <2>3
    <3>3. Byte \subseteq Datum
      BY DEF Datum
    <3> QED BY <3>1, <3>2, <3>3, SubSeqProperties
  <2> HIDE DEF bytes, pushed
  <2> DEFINE data == taken[r]
             before == MadeOf(data)
             after == MadeOf(data \o bytes)
  <2>5. data \in Seq(Datum) /\ ~Over(before) /\ pushed = Push(before.line, bytes)
    BY <1>5, <1>6 DEF pushed
  <2> HIDE DEF data, before, after
  <2>6. before = MadeOf(data) /\ after = MadeOf(data \o bytes)
    BY DEF before, after
  <2>7. PushedAsMeant(before, pushed, after)
    BY <2>4, <2>5, <2>6, PushMeans
  <2>8. after = MadeOf(taken[r] \o bytes) /\ before = MadeOf(taken[r])
    BY DEF after, before, data
  <2>9. /\ pending'[r] = pushed.pending
        /\ \A s \in Realizations \ {r} : pending'[s] = pending[s]
    BY <1>1, <2>1
  <2> QED BY <1>9, <2>1, <2>4, <2>7, <2>8, <2>9 DEF SendsTerminal, PushedAsMeant
<1>11. ASSUME NEW datum \in {"eof", "error"}, NEW made,
              made = IF datum = "eof" THEN Finish(pending[r]) ELSE <<Failed>>,
              ReadDone(r, <<datum>>, made),
              NEW line \in Seq(Byte), pending'[r] = line,
              \A s \in Realizations \ {r} : pending'[s] = pending[s]
       PROVE  MeaningInv'
  <2> DEFINE data == taken[r]
             before == MadeOf(data)
             after == MadeOf(data \o <<datum>>)
  <2>3. /\ data \in Seq(Datum) /\ ~Over(before)
        /\ made = IF datum = "eof" THEN Finish(before.line) ELSE <<Failed>>
    BY <1>5, <1>6, <1>11
  <2> HIDE DEF data
  <2>1. /\ <<datum>> \in Seq(Datum) /\ made \in Seq(Event) /\ SendsTerminal(made)
        /\ after.events = before.events \o made /\ Over(after)
    BY <1>11, <2>3, DatumMeans
  <2> HIDE DEF after, before
  <2>2. after = MadeOf(taken[r] \o <<datum>>) /\ before = MadeOf(taken[r])
    BY DEF after, before, data
  <2> QED BY <1>9, <1>11, <2>1, <2>2
<1>12. CASE ReadEnd(r)
  <2>1. <<>> \in Seq(Byte)
    OBVIOUS
  <2>2. /\ pending'[r] = <<>> /\ \A s \in Realizations \ {r} : pending'[s] = pending[s]
        /\ ReadDone(r, <<"eof">>, Finish(pending[r]))
    BY <1>1, <1>12 DEF ReadEnd
  <2> QED BY <1>11, <2>1, <2>2
<1>13. CASE ReadFails(r)
  <2>1. pending' = pending
    BY <1>13 DEF ReadFails
  <2> QED BY <1>5, <1>11, <1>13, <2>1 DEF ReadFails
<1> QED BY <1>7, <1>8, <1>10, <1>12, <1>13 DEF ReaderThread

\* The task of a reader, and its stop.
LEMMA MeaningTask ==
  ASSUME DriverInv, MeaningInv, NEW r \in Realizations, ReaderTask(r) \/ ReaderStop(r)
  PROVE  MeaningInv'
<1>1. /\ task \in [Realizations -> TaskState] /\ DOMAIN events = Realizations
      /\ gate \in [Realizations -> {"Active", "TerminalAccepted", "Stopped"}]
      /\ DOMAIN accepted = Realizations
  BY DEF DriverInv, GateInv, RealizationTypeOK, ChannelInv
<1>2. input \in Seq(Byte) /\ \A s \in Realizations : MeaningOf(s)
  BY DEF MeaningInv
<1>3. CASE TaskSeesClosed(r) \/ TaskDropped(r)
  <2>1. \A s \in Realizations : task'[s] = task[s] \/ ~Listens(s)'
    BY <1>1, <1>3 DEF TaskSeesClosed, TaskDropped, Listens
  <2> QED BY <1>2, <1>3, <2>1, MeaningQuiet
          DEF TaskSeesClosed, TaskDropped, ownerVars, worldVars, readerVars
<1>4. CASE ReaderStop(r)
  <2>1. \A s \in Realizations : task'[s] = task[s] \/ ~Listens(s)'
    <3>1. CASE TaskReturned(r)
      BY <1>1, <3>1 DEF TaskReturned, TaskOutcome, Listens
    <3>2. CASE ~TaskReturned(r)
      BY <1>4, <3>2 DEF ReaderStop, StopClaimed, ChannelShut, StopWaits, LeaseReturned, StopPublished,
           HookReturned, realizationVars
    <3> QED BY <3>1, <3>2
  <2>2. /\ input' = input /\ UNCHANGED <<instance, taken, accepted, pending, events, gate, thread>>
    BY <1>4 DEF ReaderStop, StopClaimed, ChannelShut, StopWaits, LeaseReturned, StopPublished,
         HookReturned, TaskReturned, ownerVars, worldVars, realizationVars, readerVars
  <2> QED BY <1>2, <2>1, <2>2, MeaningQuiet
<1>5. CASE TaskReceives(r)
  <2> DEFINE event == Head(events[r])
  <2>1. /\ task[r] = "running" /\ events[r] # <<>> /\ Listens(r)
        /\ events' = [events EXCEPT ![r] = Tail(@)]
        /\ input' = input /\ UNCHANGED <<instance, taken, pending, thread>>
        /\ IF event = Cancelled THEN UNCHANGED <<accepted, gate>> ELSE Offer(r, event)
        /\ task' = IF LoopGoesOn(r, event) THEN task ELSE [task EXCEPT ![r] = "leaving"]
    BY <1>5 DEF TaskReceives, ownerVars, worldVars, Listens
  <2> HIDE DEF event
  <2>2. instance.binding = "stdin"
    BY <1>2, <2>1, MeaningMeans
  <2>3. events'[r] = Tail(events[r])
    BY <1>1, <2>1
  <2>4. IF event # Cancelled /\ Admits(r)
        THEN /\ accepted'[r] = Append(accepted[r], event)
             /\ gate'[r] = IF IsTerminal(event) THEN "TerminalAccepted" ELSE gate[r]
        ELSE accepted'[r] = accepted[r] /\ gate'[r] = gate[r] /\ ~Listens(r)'
    <3>1. CASE event # Cancelled /\ Admits(r)
      BY <1>1, <2>1, <3>1 DEF Offer
    <3>2. CASE ~(event # Cancelled /\ Admits(r))
      <4>1. ~LoopGoesOn(r, event)
        BY <3>2 DEF LoopGoesOn, Cancelled
      <4>2. task'[r] = "leaving"
        BY <1>1, <2>1, <4>1
      <4> QED BY <2>1, <3>2, <4>2 DEF Offer, Listens
    <3> QED BY <3>1, <3>2
  <2>5. MeaningOf(r)'
    BY <1>2, <2>1, <2>2, <2>3, <2>4, MeaningHeard DEF event
  <2>6. \A s \in Realizations \ {r} : Kept(s)
    <3>1. \A s \in Realizations \ {r} :
            /\ events'[s] = events[s] /\ accepted'[s] = accepted[s] /\ gate'[s] = gate[s]
            /\ task'[s] = task[s]
      BY <1>1, <2>1 DEF Offer
    <3> QED BY <2>1, <3>1 DEF Kept, Listens
  <2> QED BY <1>2, <2>1, <2>5, <2>6, MeaningSteps
<1> QED BY <1>3, <1>4, <1>5 DEF ReaderTask

\* The Drivers of the other bindings.
LEMMA MeaningStreams ==
  ASSUME DriverInv, MeaningInv, UNCHANGED readerVars, NEW r \in Realizations,
         \/ MpscReceives(r) \/ MpscClosed(r)
         \/ TcpConnects(r) \/ TcpFails(r) \/ TcpEnds(r)
         \/ \E byte \in instance.bytes : TcpReads(r, byte)
  PROVE  MeaningInv'
<1>1. /\ task \in [Realizations -> TaskState] /\ DOMAIN taken = Realizations
      /\ gate \in [Realizations -> {"Active", "TerminalAccepted", "Stopped"}]
      /\ DOMAIN accepted = Realizations /\ instance \in Instances
      /\ position \in 0 .. Len(input)
  BY DEF DriverInv, GateInv, RealizationTypeOK, CutoverInv, ChannelInv
<1>2. input \in Seq(Byte) /\ \A s \in Realizations : MeaningOf(s)
  BY DEF MeaningInv
<1>3. UNCHANGED <<pending, events, thread>>
  BY DEF readerVars
<1>4. CASE TcpConnects(r)
  <2>1. \A s \in Realizations : task'[s] = task[s] \/ Listens(s)
    BY <1>1, <1>4 DEF TcpConnects, Listens
  <2> QED BY <1>2, <1>3, <1>4, <2>1, MeaningQuiet DEF TcpConnects, ownerVars, worldVars
<1>5. ASSUME NEW datum \in Datum, NEW event, event = Told(datum),
             instance.binding # "stdin", task[r] \in {"connecting", "running"},
             input' = input, taken' = [taken EXCEPT ![r] = Append(@, datum)],
             \/ EmitsOrReturns(r, event) /\ ~IsTerminal(event)
             \/ ReturnsAfter(r, event)
      PROVE  MeaningInv'
  <2>1. instance' = instance /\ Offer(r, event)
    BY <1>5 DEF EmitsOrReturns, ReturnsAfter, ownerVars
  <2>2. taken'[r] = Append(taken[r], datum)
    BY <1>1, <1>5
  <2>3. IF Admits(r)
        THEN /\ accepted'[r] = Append(accepted[r], event)
             /\ gate'[r] = IF IsTerminal(event) THEN "TerminalAccepted" ELSE gate[r]
        ELSE accepted'[r] = accepted[r] /\ gate'[r] = gate[r]
    BY <1>1, <2>1 DEF Offer
  <2>4. Listens(r)' => Admits(r) /\ ~IsTerminal(event)
    BY <1>1, <1>5 DEF EmitsOrReturns, ReturnsAfter, Listens
  <2>5. Listens(r)
    BY <1>5 DEF Listens
  <2>6. MeaningOf(r)'
    BY <1>2, <1>3, <1>5, <2>1, <2>2, <2>3, <2>4, <2>5, MeaningOffered
  <2>7. \A s \in Realizations \ {r} : Kept(s)
    <3>1. \A s \in Realizations \ {r} :
            /\ taken'[s] = taken[s] /\ accepted'[s] = accepted[s] /\ gate'[s] = gate[s]
            /\ task'[s] = task[s]
      BY <1>1, <1>5, <2>1 DEF Offer, EmitsOrReturns, ReturnsAfter
    <3> QED BY <1>3, <2>1, <3>1 DEF Kept, Listens
  <2> QED BY <1>2, <1>5, <2>6, <2>7, MeaningSteps
<1>6. ASSUME NEW byte \in Byte
      PROVE  byte \in Datum /\ Item(byte) = Told(byte) /\ ~IsTerminal(Item(byte))
  BY DEF Byte, Datum, Told, Item, Line, IsTerminal
<1>7. /\ "eof" \in Datum /\ "error" \in Datum
      /\ Told("eof") = Ended /\ Told("error") = Failed
  BY DEF Datum, Told
<1>8. CASE MpscReceives(r)
  <2> DEFINE byte == input[position']
  <2>1. byte \in Byte
    BY <1>1, <1>2, <1>8 DEF MpscReceives
  <2>2. /\ instance.binding # "stdin" /\ task[r] = "running" /\ input' = input
        /\ taken' = [taken EXCEPT ![r] = Append(@, byte)] /\ EmitsOrReturns(r, Item(byte))
    BY <1>8 DEF MpscReceives
  <2> HIDE DEF byte
  <2> QED BY <1>5, <1>6, <2>1, <2>2
<1>9. CASE MpscClosed(r)
  BY <1>5, <1>7, <1>9 DEF MpscClosed, worldVars
<1>10. CASE TcpFails(r)
  BY <1>5, <1>7, <1>10 DEF TcpFails, worldVars
<1>11. CASE TcpEnds(r)
  BY <1>5, <1>7, <1>11 DEF TcpEnds, worldVars
<1>12. ASSUME NEW byte \in instance.bytes, TcpReads(r, byte) PROVE MeaningInv'
  <2>1. byte \in Byte
    BY <1>1, InstancesAssumption
  <2> QED BY <1>5, <1>6, <1>12, <2>1 DEF TcpReads, worldVars
<1> QED BY <1>4, <1>8, <1>9, <1>10, <1>11, <1>12

\* Every step keeps what was accepted in line with what was read.
LEMMA MeaningStep ==
  ASSUME DriverInv, MeaningInv, [Next]_vars
  PROVE  MeaningInv'
<1>1. CASE UNCHANGED vars
  <2>1. /\ input' = input
        /\ UNCHANGED <<instance, taken, accepted, pending, events, gate, task, thread>>
    BY <1>1 DEF vars, ownerVars, worldVars, realizationVars, readerVars
  <2> QED BY <2>1, MeaningQuiet DEF MeaningInv
<1>2. CASE Surroundings /\ UNCHANGED <<readerVars, streamVars>>
  BY <1>2, MeaningSurroundings
<1>3. CASE StdinSteps /\ UNCHANGED streamVars
  <2>1. ASSUME NEW rt \in Runtimes, StdinStarts(rt) PROVE MeaningInv'
    BY <2>1, MeaningRealized DEF StdinStarts
  <2>2. ASSUME NEW rt \in Runtimes, StdinRefused(rt) PROVE MeaningInv'
    BY <2>2, MeaningRealized DEF StdinRefused, readerVars
  <2> QED BY <1>3, <2>1, <2>2, MeaningThread, MeaningTask DEF StdinSteps
<1>4. CASE StreamSteps /\ UNCHANGED readerVars
  <2>1. ASSUME NEW rt \in Runtimes, MpscRuns(rt) \/ TcpRuns(rt) PROVE MeaningInv'
    <3>1. UNCHANGED <<pending, events, thread>>
      BY <1>4 DEF readerVars
    <3>2. \E state : Realize(rt, state, FALSE)
      BY <2>1 DEF MpscRuns, TcpRuns
    <3> QED BY <3>1, <3>2, MeaningRealized
  <2> QED BY <1>4, <2>1, MeaningStreams DEF StreamSteps
<1> QED BY <1>1, <1>2, <1>3, <1>4 DEF Next

\* Nothing was read at first.
LEMMA MeaningStarts == ASSUME Init PROVE MeaningInv
<1> SUFFICES ASSUME NEW r \in Realizations PROVE MeaningOf(r)
  <2>1. input = <<>>
    BY DEF Init, RealizationInit
  <2> QED BY <2>1 DEF MeaningInv
<1>1. /\ taken[r] = <<>> /\ accepted[r] = <<>> /\ events[r] = <<>> /\ pending[r] = <<>>
      /\ gate[r] = "Active" /\ thread[r] = "none"
  BY DEF Init, RealizationInit, ReaderInit
<1>2. <<>> \in Seq(Datum) /\ <<>> \in Seq(Byte) /\ <<>> \in Seq(Event)
  OBVIOUS
<1>3. Meaning(r) = <<>>
  <2>1. CASE instance.binding = "stdin"
    BY <1>1, <2>1, MadeOfNothing DEF Meaning, LinesOf, Nothing
  <2>2. CASE instance.binding # "stdin"
    <3>1. DOMAIN taken[r] = {}
      BY <1>1
    <3>2. Meaning(r) = [i \in {} |-> Told(taken[r][i])]
      BY <2>2, <3>1 DEF Meaning
    <3> QED BY <3>2
  <2> QED BY <2>1, <2>2
<1>4. Unheard(r, <<>>)
  BY <1>1, <1>2, <1>3, ConcatEmptySeq DEF Unheard
<1>5. ReaderKeepsUp(r)
  BY <1>1, MadeOfNothing DEF ReaderKeepsUp, Nothing, Over
<1> QED BY <1>1, <1>2, <1>4, <1>5, MeaningMeans

\* The invariant of what was read is inductive, beside that of the Drivers.
THEOREM MeaningInvariant == Spec => []MeaningInv
<1>1. Init => MeaningInv
  BY MeaningStarts
<1>2. DriverInv /\ MeaningInv /\ [Next]_vars => MeaningInv'
  BY MeaningStep
<1> QED BY <1>1, <1>2, DriverInvariant, PTL DEF Spec

\* What each realization got accepted is a prefix of what its own reads mean
\* under the line contract of ADR-0009, however StdinLineDecoder::push was
\* given the bytes, and all of it once the Driver ended its Source itself.
THEOREM ReadsAreMeant == Spec => []AcceptedIsWhatWasRead
<1>1. MeaningInv => AcceptedIsWhatWasRead
  <2> SUFFICES ASSUME MeaningInv, NEW r \in Realizations
               PROVE  /\ IsPrefix(accepted[r], Meaning(r))
                      /\ gate[r] = "TerminalAccepted" => accepted[r] = Meaning(r)
    BY DEF AcceptedIsWhatWasRead
  <2>1. accepted[r] \in Seq(Event) /\ \E left : Unheard(r, left)
    BY MeaningMeans DEF MeaningInv
  <2>2. PICK left : Unheard(r, left)
    BY <2>1
  <2> DEFINE s == accepted[r]
             m == Meaning(r)
  <2>3. s \in Seq(Event) /\ left \in Seq(Event) /\ m = s \o left
    BY <2>1, <2>2 DEF Unheard
  <2>4. gate[r] = "TerminalAccepted" => left = <<>>
    BY <2>2 DEF Unheard
  <2> HIDE DEF s, m
  <2>5. left = <<>> => s = m
    BY <2>3, ConcatEmptySeq
  <2>6. Len(s) <= Len(m) /\ SubSeq(s, 1, Len(s)) = SubSeq(m, 1, Len(s))
    <3>1. Len(m) = Len(s) + Len(left) /\ Len(s) \in Nat /\ Len(left) \in Nat
      BY <2>3, ConcatProperties
    <3>2. CASE s = <<>>
      <4>1. Len(s) = 0
        BY <3>2
      <4> QED BY <3>1, <4>1, SubSeqEmpty
    <3>3. CASE s # <<>>
      <4>1. 1 \in 1 .. Len(s) /\ Len(s) \in 1 .. Len(s)
        BY <2>3, <3>3
      <4>2. SubSeq(m, 1, Len(s)) = SubSeq(s, 1, Len(s))
        BY <2>3, <4>1, SubSeqOfConcat1
      <4> QED BY <3>1, <4>2
    <3> QED BY <3>2, <3>3
  <2>7. IsPrefix(s, m)
    BY <2>6 DEF IsPrefix
  <2> QED BY <2>4, <2>5, <2>7 DEF s, m
<1> QED BY <1>1, MeaningInvariant, PTL
==============================================================================
