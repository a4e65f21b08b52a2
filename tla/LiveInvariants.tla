---------------------------- MODULE LiveInvariants ----------------------------
(***************************************************************************)
(* The inductive invariant behind the theorems of LiveProofs.  Each part   *)
(* says what the owner knows at its position, or where a piece of admitted *)
(* work is to be found.                                                    *)
(***************************************************************************)
EXTENDS LiveProperties, TurnInvariants

\* The positions of a turn, between a committed Model and its last declaration.
TurnPosition == {"committed", "reconcile", "apply", "change", "interpret", "issue"}

\* What each position of the owner guarantees about its locals.
PositionInv ==
  /\ pc \in {"start", "initialize"} => cursor = 1
  /\ pc = "next_component" => cursor \in Components
  /\ pc \in TurnPosition => component \in Components
  /\ pc = "issue" => commands # <<>>
  /\ pc \in {"dispatch", "push"} => current \in Event
  /\ pc = "push" => current.type = "SourceEvent" /\ outer # <<>>

\* The bounds of the model are never exceeded by work in flight.
BoundInv ==
  /\ declared + Len(commands) <= MaxDeclarations
  /\ \A g \in Generations : emitted[g] <= MaxItems + (IF gate[g] = "Active" THEN 0 ELSE 1)
  /\ pc = "push" => produced[current.item[2]] + Len(outer) <= MaxFrames

\* A Source task runs for a realization whose key is known.
RealizedInv == \A g \in Generations : task[SourceTask(g)] # "none" => KeyOf(g) \in Keys

\* Cancel leaves the owner at most the work it had already decided on.
CancelInv ==
  /\ late <= 1
  /\ phase \in {"Running", "Draining"} => late = 0
  /\ phase = "Cancelling" /\ late = 1 => pc \notin {"dispatch", "issue"}

\* A host Request that still waits is queued, being dispatched or outstanding.
IsAsk(event, h) == event.type = "PortRequest" /\ event.item = AskItem(h)

WaiterInv ==
  \A h \in Asks : asks[h] = "waiting" =>
    \/ AskItem(h) \in requests
    \/ \E i \in 1 .. Len(queue) : IsAsk(queue[i], h)
    \/ pc \in {"dispatch", "cancel"} /\ IsAsk(current, h)

\* Once the owner has ended the channel is closed and empty, and after a
\* normal end nothing it spawned is left.
EndInv ==
  /\ pc \in OwnerEnded <=> ~receiver
  /\ pc \in OwnerEnded => queue = <<>>
  /\ pc \in OwnerEnded \cup {"joining"} => requests = {}
  /\ pc \in {"clean", "faulted"} => AllJoined

\* The strengthening that every step of the live runtime scope preserves.
LiveInv ==
  /\ TypeOK /\ PositionInv /\ BoundInv /\ RealizedInv
  /\ CancelInv /\ WaiterInv /\ EndInv

-----------------------------------------------------------------------------
(***************************************************************************)
(* What the promises of LiveProperties rest on, beyond LiveInv.            *)
(***************************************************************************)

\* The positions at which the owner drives the application, and those of an
\* orderly Cancel before anything is aborted.
Driving ==
  {"start", "initialize", "next_component", "loop", "select", "dispatch", "push"} \cup TurnPosition
Cancelling == {"cancel", "cancel_join", "cancel_stop"}

\* The events sent and not yet received, and the one being dispatched.
QueuedEvents == {queue[i] : i \in DOMAIN queue}
InHand == IF pc = "dispatch" THEN {current} ELSE {}
Pending == QueuedEvents \cup InHand

IsMarker(event) == event.type \in {"Drain", "Cancel"}

\* Which phases go with which positions, and which markers may be under way.
PhaseInv ==
  /\ phase = "Closed" <=> pc = "clean"
  /\ phase = "Faulted" => pc \in {"cleanup", "joining", "faulted", "aborted"}
  /\ pc \in Cancelling => phase = "Cancelling"
  /\ pc \in {"cleanup", "joining"} => phase \in {"Cancelling", "Faulted"}
  /\ draining => phase \in {"Draining", "Faulted", "Closed"}
  /\ \A event \in Pending :
       /\ event.type = "Drain" => phase \notin {"Running", "Cancelling"}
       /\ event.type = "Cancel" => phase \notin {"Running", "Draining"}

\* Numbers not handed out yet name no work: a task, a declared item or a
\* generation is used for one thing only.
FreshInv ==
  /\ \A t \in EffectItem \cup TimerItem : declared < t[2] => task[t] = "none"
  /\ \A t, u \in EffectItem :
       task[t] # "none" /\ task[u] # "none" /\ t[2] = u[2] => t = u
  /\ \A g \in Generations : next_generation < g =>
       /\ task[SourceTask(g)] = "none"
       /\ g \notin sources \cup terminal_observed \cup finished
       /\ produced[g] = 0 /\ delivered[g] = 0

\* The owner's list of Sources: one entry of each Subscription, and after the
\* Drain cutoff exactly the entries retained for it.
EntryInv ==
  /\ OneEntryEach
  /\ \A g \in sources : realized[g] \in Keys \X Descriptors
  /\ ~draining => drain_retained = {}
  /\ pc \in Driving /\ draining => drain_retained = sources
  /\ pc \in Driving \cup {"cancel", "cancel_join"} =>
       sources \subseteq running \cup terminal_observed \cup drain_retained
  /\ pc \in {"joining"} \cup OwnerEnded => sources = {}
  /\ pc = "push" => current.item[2] \in sources

\* While the scope runs, its Sources are those its Components desire, or the
\* changes that will make them so are being applied.
Applying == pc \in {"apply", "change"}
DesiredInv ==
  phase = "Running" /\ pc \in Driving => IF Applying THEN Reconciling ELSE Reconciled

\* A failure in time is joined before the scope may close, and one that was
\* joined without a fault is of a Source whose stream had ended.
FaultInv ==
  /\ \A t \in failed_in_time : task[t] \in {"failed", "joined"}
  /\ phase # "Faulted" /\ pc \notin {"fault", "aborted", "panicked"} =>
       \A t \in failed_in_time : task[t] = "joined" =>
         Kind(t) = "run" /\ (t[2] \notin sources \/ t[2] \in terminal_observed)
  /\ phase # "Faulted" /\ pc \in {"cancel_stop", "cleanup", "joining"} =>
       \A t \in failed_in_time : task[t] = "joined"

\* However the owner ends, even unwound or with its RuntimeTask dropped, no
\* Driver task is left running that nobody asked to stop.
NoDetachedTasks ==
  pc \in OwnerEnded => \A t \in TaskId : task[t] = "running" => t \in aborted

\* Request tokens handed out: declared, or of a host that asked.
Issued(token) ==
  IF Kind(token) = "ask" THEN asks[token[2]] # "idle" ELSE token[2] <= declared

\* A ReplyTo token is in one place, the event that carries it, a Component or
\* a declaration about to be interpreted, and names an outstanding Request
\* unless the host's event that will make one of it is still to be dispatched.
TokenInv ==
  pc \in Driving =>
    /\ TokensOnce
    /\ held \cup Replying \subseteq requests
    /\ \A event \in Pending : event.item \notin held \cup Replying
    /\ \A i \in DOMAIN queue : queue[i].item \in Correlation =>
         /\ \A event \in InHand : event.item # queue[i].item
         /\ \A j \in DOMAIN queue : queue[j].item = queue[i].item => i = j
    /\ \A event \in Pending : event.item \in Correlation =>
         Issued(event.item) /\ (event.type = "Message" => event.item \in requests)
    /\ \A token \in requests : Issued(token)

\* Admitted work that is still open while the scope drives the application;
\* none is when it closed after a Drain.
LedgerInv ==
  /\ phase \in {"Running", "Draining"} /\ pc \in Driving =>
       open \subseteq {event.item : event \in Pending} \cup effects \cup timers
  /\ pc = "clean" /\ draining => open = {}

\* The events whose outcome is still to be mapped: an owner that sees Cancel as
\* it receives one keeps it as the current event.
Owed == Pending \cup (IF pc = "cancel" THEN {current} ELSE {})

\* An outcome accepted is on its way to the owner until its mapper ran.
OutcomeInv ==
  /\ pc = "start" => current = NoEvent
  /\ \A e \in outcomes : task[e] \notin {"none", "running"}
  /\ \A e \in effects : task[e] # "none" /\ mapped[e[2]] = 0
  /\ \A event \in Owed : event.type = "EffectOutcome" => event.item \in outcomes
  /\ \A k \in Declared :
       /\ mapped[k] \in {0, 1}
       /\ mapped[k] = 1 => \E e \in outcomes : Kind(e) = "effect" /\ e[2] = k
  /\ pc \in Driving \cup {"cancel"} =>
       /\ \A e \in EffectItem : task[e] = "running" => e \in effects
       /\ \A e \in outcomes :
            IF e \in effects THEN \E event \in Owed : event.type = "EffectOutcome" /\ event.item = e
                             ELSE Kind(e) = "effect" => mapped[e[2]] = 1
  /\ \/ pc \in {"cancel_join", "cancel_stop", "clean"}
     \/ pc \in {"cleanup", "joining"} /\ phase # "Faulted"
     => \A e \in outcomes : Kind(e) = "effect" => mapped[e[2]] = 1

\* Frames of the Sources listed travel in order, without a gap, and only the
\* last one that will be made of a Source's events is an end.
FrameOf(event, g) == event.type = "Message" /\ Kind(event.item) = "frame" /\ event.item[2] = g
WillBeMade(g) == produced[g] + IF pc = "push" /\ current.item[2] = g THEN Len(outer) ELSE 0

FramesMade ==
  \A g \in Generations :
    /\ delivered[g] <= produced[g]
    /\ \A event \in Pending : FrameOf(event, g) => event.item[3] <= produced[g]

FramesInOrder ==
  \A i, j \in DOMAIN queue : \A g \in Generations :
    FrameOf(queue[i], g) /\ FrameOf(queue[j], g) /\ i < j => queue[i].item[3] < queue[j].item[3]

\* What is pending of a Source was not delivered yet; what is in hand is next.
Undelivered(g) ==
  \A event \in Pending : FrameOf(event, g) =>
    /\ delivered[g] < event.item[3]
    /\ event.terminal <=> g \in terminal_observed /\ event.item[3] = WillBeMade(g)
NextInHand(g) ==
  pc = "dispatch" /\ FrameOf(current, g) =>
    /\ current.item[3] = delivered[g] + 1
    /\ \A event \in QueuedEvents : FrameOf(event, g) => event.item[3] # current.item[3]
\* Nothing made is lost while the scope drives the application.
Accounted(g) ==
  phase \in {"Running", "Draining"} =>
    \A n \in 1 .. produced[g] : delivered[g] < n =>
      \E event \in Pending : FrameOf(event, g) /\ event.item[3] = n

OuterInv ==
  pc = "push" =>
    \A i \in DOMAIN outer : outer[i] <=> i = Len(outer) /\ current.item[2] \in terminal_observed

StreamInv ==
  /\ FramesMade /\ FramesInOrder /\ OuterInv
  /\ pc \in Driving => \A g \in sources : Undelivered(g) /\ NextInHand(g) /\ Accounted(g)

PromiseInv ==
  /\ LiveInv /\ PhaseInv /\ FreshInv /\ EntryInv /\ DesiredInv /\ FaultInv
  /\ NoDetachedTasks /\ TokenInv /\ LedgerInv /\ OutcomeInv

\* The whole of it, of a scope whose plans end last: every promise of
\* LiveProperties that is not about fairness follows from it.
InductiveInv == PromiseInv /\ StreamInv
==============================================================================
