# Samara: verification project

Samara runs programs of Components: pure state machines whose `update` returns
Commands (finite work) and whose `subscriptions` describe the Sources they
want.  Two runtimes execute a Program: the live one (Tokio, concurrent Drivers,
host handles, Drain and Cancel) and the controlled one (a deterministic
harness with logical time).  This directory models them in TLA+, model-checks
small instances with TLC and proves theorems about the models with TLAPS.

Line numbers below are of `src/src/live_runtime.rs` unless another file is
named.  `PROJECT.json` holds the machine-readable side: components, runs,
mutants, the line map of every definition, hazards, findings and theorems.

## 1. Inventory

| Part | Source | State | Operations | Where |
|---|---|---|---|---|
| Live scope | 1208–1318 | phase and channel sender under one mutex | `accept_ingress`, `accept_source`, `accept_finite`, `begin_shutdown`, `fault`, `close` | `LiveScope` |
| Source gates | 1114–1206 | Active, TerminalAccepted or Stopped; a stop hook | `accept`, `stop`, `install_stop_hook` | `LiveDrivers`, `LiveTurn` |
| Driver tasks | 70–284, 1648–1663 | one task each in the owner's `JoinSet` | emit, end, return, complete, elapse, panic, be aborted | `LiveDrivers` |
| Live owner | 1559–2713 | receiver, sources, effects, requests, timers, draining | `initialize`, turns, event loop, `begin_drain`, `finish_cancel`, `cleanup_abort` | `LiveTurn`, `LiveOwner` |
| Host handles | `lib.rs` 4480–4620 | none of their own | `send`, `notify`, `request` | `LiveRuntime` |
| Runtime task | `lib.rs` 4620–4697 | join handle, kept completion | `run_forever`, `shutdown`, drop | `LiveRuntime`, `RuntimeTask` |
| Reconciler | `declarative_work.rs` 57–119 | active descriptors | `reconcile` | `SubscriptionReconciler`, `ReconcilerProofs` |
| Component kernel | `component_kernel.rs` | Model, initial Command, reconciler | `transition`, `take_initial_command`, `reconcile_subscriptions` | `Turn` |
| Source plans, framing Layers | `lib.rs` 473–481, 2993–3126 | one decoder state per Layer | `map_event` | `SourceLayers`, `SourcePlan`, `PlanProofs` |
| Controlled runtime | `controlled_runtime.rs` | logical time, scheduled work, effects, requests, sources, fault | `send`, `emit_*`, `next_effect`, `complete`, `run_until_idle`, `advance`, `advance_to_next`, `cancel` | `ControlledRuntime` |
| Stdin reader | 286–770 | process lease, reader thread, control, line decoder | `acquire`, `stop_and_join`, the reader's loop, drop | `StdinLines`, `StdinReader` |
| Stream Drivers | 211–284, 772–934 | one-shot receiver, TCP connection | `run` | `StreamDrivers` |
| Program assembly | `lib.rs` 3822–4037, 4256–4465, 4931–4970; 936–1104; `controlled_runtime.rs` 245–319 | components, ports, bindings, capabilities, registrations | `ProgramBuilder`, both runtime builders, their checks and the lookups made later | `Assembly` |
| Effect mechanisms | 772–934 | HTTP client, stdout and stderr locks | I/O | not modelled |
| Derives, examples, docs | `lib.rs`, `examples/`, `docs/` | none | | not modelled |

How they interact.  Host handles, Driver tasks and the live owner meet at the
scope's mutex and its channel.  The owner spawns Driver tasks and joins them;
a Source task reaches the channel through its gate, which the owner may stop
at any moment; effect and timer tasks send directly.  Shutdown is a phase
change and a queued marker in one critical section.  A Request of the host
rests in the channel, then in the owner's list, until its oneshot is used or
dropped.  The controlled runtime has none of that: its host calls it, and each
call runs turns until nothing is due.  Both runtimes run the same turn (kernel,
reconciler, changes, declarations) and map Source events through the same plan.

What is hard.  Deliveries of an old realization after it was replaced; end of
a Source seen twice; the Drain cutoff seen ahead of its marker, with accepted
deliveries to preserve; the Cancel cutoff between a committed Model and its
projected work; outcomes accepted before Cancel; faults racing Cancel; tasks
that outlive a dropped owner; half-applied change sets; tokens of Requests
that are gone; decoders called behind a failure; the order of work that is
scheduled while work runs; timers between two instants of an `advance`; events
the host enqueued behind a close.  `PROJECT.json` lists each at its line under
`hazards`; so are standard input shared by competing realizations, a reader
that three parties may stop at once, lines cut anywhere, a host that gives up
waiting and waits again, and lookups that compare other things than the checks
made when a Program was assembled.

What makes each part correct.  A turn realizes exactly the desired
Subscriptions.  A Source reaches its Component in order, from its current
realization only, and ends once.  Accepted finite work reaches its end exactly
once, or is discarded by a Cancel or a fault and nothing else.  A Request is
answered, or whoever waits learns why not.  Shutdown ends and leaves nothing
behind.  A controlled run is determined by its inputs.  One thread at a time
reads standard input, and lines are what the bytes say.  A host is told the
owner's own end.  What a builder lets through resolves, once, at run time.

## 2. What the runtimes share

| Module | Models |
|---|---|
| `Work` | Components, Subscriptions, declarations, and the identity (`Item`) of every piece of work |
| `Reconciliation` | the meaning of a reconciliation: the difference of two maps (`Changes`) |
| `SubscriptionReconciler`, `MCReconciler`, `ReconcilerProofs` | `reconcile` as the code computes it: a scan of the active list in place |
| `SourceLayers` | what a plan of Layers may make of one raw event |
| `SourcePlan`, `PlanProofs` | one active Source: the fold over the Layers, its decoders, and when it ends |
| `Turn` | a Component's turn, the reconcilers' bookkeeping, and how Sources are found by stamp |
| `TurnInvariants` | what both runtimes keep true of a turn: one entry of each Subscription, the changes that are owed, where ReplyTo tokens are |
| `TurnTheorems` | lemmas about `Work` and `Turn` that both runtimes' proofs cite |
| `SourceStream` | the abstract specification both runtimes implement: what a Subscription's Component may hear |

Component code is the environment: any batch of declarations, any desired
Subscriptions.  A payload is the `Item` of the work it belongs to.  A plan is a
constant of the runtimes' models, `PlanOutputs`: for a raw event that is or is
not terminal, the sequences the plan may make of it, by whether each member is
terminal.  `SourceLayers` computes it for no Layer (`Direct`) and one
(`Framed`), with at most `MaxBurst` frames of one call.

`SourcePlan` is shown to make what `SourceLayers` says (`MakesWhatLayersSay`),
as `SubscriptionReconciler` is shown to answer `Changes` (`AnswerIsChanges`),
both by TLC on the instances below and by proof for all; that is what lets the
runtimes' models use the short definitions.  The two runs of `SourcePlan` say
`CHECK_DEADLOCK FALSE`: a Source that ended, or mapped its last raw event, does
nothing more.

| Run | Instance | Shows |
|---|---|---|
| `MCReconciler` | all desired lists up to length 3 of 3 identities and 2 descriptors, repeats included, one after the other | `AnswerIsChanges`: the active list has one entry of each identity, and the answer is the difference of two maps, or the refusal of a repeat with nothing changed |
| `MCPlan` | 2 Layers, 2 raw events, up to 2 frames of a call | the decoder next to the Source is not called behind its failure or its `finish`; a normal end finishes every decoder once, behind its last push; `MakesWhatLayersSay` |
| `MCNestedDecoder` | 2 Layers | violates `DecoderSpent`, see below |

Two Layers are enough for everything that happens between Layers: a Layer sees
only the list of the one below.  Two raw events and two frames of a call give
pushes before and behind a failure, and an end behind a push.

`PlanProofs` proves `InnermostDecoderSpent` and `NormalEndFinishesAll` for every
number of Layers, of raw events and of frames.  Neither is inductive; `PlanInv`
is (TLC agrees when it is added to `MCPlan`).  `PassInv` says that only the last
raw event may be terminal and that nothing is left over between two of them.
`SpentInv` says that once the innermost decoder failed or was finished an end is
among the events on their way to the runtime, which therefore stops the Source;
an outer Layer cannot swallow it, because a Layer passes an end on or replaces it
by a failure.  `FinishInv` follows the end of a Source without failures: it
travels last, behind items only, and the decoders it has passed are exactly the
finished ones.

`LayersAreMeant` is `Spec => MakesWhatLayersSay`, for any number of Layers and of
frames.  The code maps one event and one Layer at a time; `PlanMakes` says what
a whole plan may make.  The invariant between them is `LayerInv`: what a Layer
was given is something the Layers below may make, and its outputs so far are
something it may make of the events it has mapped.  `FlattenSeq` and `PlanMakes`
are recursive functions, so their definitions are unfolded first: each is the
last state of a loop (`FlattenLoop`, `PlanLoop`), a loop is determined by its
passes (`SameLoop`), and one event or one Layer more is one pass more
(`ThroughOneMore`, `PlanOneMore`).

`OneLayerEndsLast` says that `Direct` and `Framed` are plans such as
`WorkAssumption` and `PlansEndLast` ask for, whatever `MaxBurst` is: the theorems
about the runtimes' streams that assume `PlansEndLast` hold of every Program
whose Sources have at most one Layer.

`ReconcilerProofs` proves `AnswersAreChanges`, `Spec => []AnswerIsChanges`, for
lists of any length and any identities and descriptors.  The code's two loops,
over the desired list and then over the active one, are recursive functions of
the number of passes.  Induction on the passes uses that every set of numbers
has a least one, a fact about sets that the provers can take from the library;
each loop has an invariant that says which identities have been dealt with
(`ScanMeans`, `SweepMeans`).  That no identity is active twice (`Distinct`) is the
part of the invariant that the edits in place rely on.

### The promise both runtimes keep

`SourceStream` says what a Component is promised of its Subscriptions, without
gates, queues, stamps, shutdown or logical time.  Each realization is a stream.
`Begin` starts one and silences the earlier stream of the same Subscription;
`Withdraw` silences any others; `Make` makes events of the stream's Source, the
last one closing it; `Hear` gives the Component the next one.  A silenced stream
never speaks again, what is heard has no gap and no repetition, and the end is
heard once, as the last event.  Any suffix may go unheard: that is all that
Drain, Cancel, faults and panics may do to a stream.

`LiveProperties` and `ControlledProperties` each instantiate it with a
refinement mapping, and `ImplementsSourceStream` is the abstract `Spec`:

| `SourceStream` | live | controlled |
|---|---|---|
| `begun`, `subscriber` | `next_generation`, the key of each realization | the same |
| `entitled` | `sources`, the owner's entries | `sources` |
| `closed` | `terminal_observed` entries, except the one whose Messages are just being sent | entries no longer `running` |
| `made`, `heard`, `ended` | `produced`, `delivered`, `finished` | the same |

The two mappings of `closed` differ because the code does: the live owner sends
the Messages of one raw event in several critical sections and marks the entry
first, the controlled runtime schedules them in one call.  Because both
implement one specification, a test in logical time and a live scope agree on
what a Component can hear.  That they do is proved of both, for plans that end
last (`LivePromises!StreamsAreKept`, `ControlledProofs!StreamsAreKept`).  The specification has no fairness: neither runtime
promises that a Source says anything.

### Finding: a nested decoder is called behind its failure

`SourcePlan::map_event` (`lib.rs` 473–481) gives an outer Layer every event the
inner one made of one raw event.  If the inner decoder makes frames of the end,
the outer decoder may reject one of them and is still given the others and
asked to `finish`.  The contract of `Decoder::finish` (`lib.rs` 3015–3019) says
an earlier decode failure does not call it.  `MCNestedDecoder` is that trace.
The same fold may hand the Component events behind the outer decoder's failure,
where `docs/api-guidance.md` 585–587 speaks of one terminal event.  Neither can
happen with one Layer, because the runtime stops a Source behind the first event
that ends it: `InnermostDecoderSpent` (`MCPlan`), `ImplementsSourceStream` (`MCSources`).
The runtimes' runs use plans of at most one Layer.

## 3. The live runtime scope

### Modules and the code

`LiveScope` → `LiveState` → `LiveDrivers` → `LiveTurn` → `LiveOwner` →
`LiveRuntime` is one chain of `EXTENDS` on top of `Turn`: each adds state or
actions to the one before.  `LiveProperties` states what the scope promises, `LiveInvariants` the
inductive invariant, `MCLive` instantiates all of it for TLC, and `LiveProofs`
and `LivePromises` hold the theorems, the second extending the first.

* `LiveScope` is `ScopeState` behind its mutex.  Each of its operators is one
  critical section.  `queue` is what was sent on the unbounded channel and not
  received; `receiver` says whether the owner still holds the other end.
* `LiveState` declares everything else: the owner's position `pc` and locals
  (`component`, `desired`, `changes`, `commands`: the turn in hand), the
  reconcilers' bookkeeping (`active`), the realizations (`realized`, `sources`,
  `running`, `terminal_observed`, `drain_retained`, `gate`), the owner's lists
  (`effects`, `timers`, `requests`), the tasks of the `JoinSet` (`task`,
  `aborted`) and the host (`ingress`, `asks`, `handle`).  The history variables
  (`open`, `stale`, `emitted`, ...) are written and never read by an action.
* `LiveDrivers` holds what Driver tasks do: emit through a gate, return,
  complete, elapse, fail, be cancelled at an await.
* `LiveTurn` is what follows a committed transition: reconcile, apply the
  changes one at a time in `SubscriptionId` order, interpret the declarations.
* `LiveOwner` interprets one declaration (`Issue*`), runs the event loop
  (`Loop`, `JoinTask`, `Receive`, the dispatch actions), Drain's end
  (`FinishDrain`), `finish_cancel` (`RetainOutcomes`, `JoinBeforeCancel`,
  `StopBeforeCancel`) and `cleanup_abort` (`CleanupAbort`, `FinishCleanup`).
* `LiveRuntime` adds the host and the fairness.

The grain of atomicity is the scope's mutex.  The owner is one task, and
between two acquisitions of that mutex nothing it does can be observed by a
host or a Driver; so each action of the owner runs up to the next place where
it reads the phase, sends an event or awaits.  `pc` names those places.

### Abstractions

* Component code is the environment: a turn desires any map of Subscriptions
  to descriptors and returns any batch of declarations, within the bounds.
  A Component replies with tokens it holds, each at most once, because
  `ReplyTo` is neither `Clone` nor reusable.
* A payload is the identity of the work it belongs to (`Item`).  One counter
  numbers all declarations; the code's counters are used only for identity.
* A raw Source event becomes the Messages of one output of its plan
  (`PlanOutputs`), queued one critical section at a time (`PushMapped`), because
  Drain or Cancel may come between two of them.
* Abort is a request: the aborted task may go on until it next awaits, or
  complete.  A timer's or an effect's task does not await after its send.
* The biased `select!` polls `join_next` first, but a task can finish between
  the two polls, so joining and receiving are both possible.  Fault order in
  the model is therefore a superset of the code's.
* A stop hook succeeds or fails (mishap `stop_hook`) and runs at most once.
* User code that panics is a mishap: `mapper`, `transition`, `driver`,
  `conversion`; `activation` and `foreign` are refused capabilities,
  `duplicate` a repeated Subscription identity.  A panic of `subscriptions`
  is not modelled; it unwinds the owner just as a conversion does.
* Dropping the future of a host Request only stops that host from waiting and
  is not modelled.  `RuntimeTask` (section 5) adds the host's own state.

### What the runs show

Every run instantiates `MCLive` and says `CHECK_DEADLOCK FALSE`: an idle
running scope, and one whose owner has ended, really stops.

| Run | Instance | Shows |
|---|---|---|
| `MCSources` | 1 Component, 2 Subscriptions, 2 descriptors (symmetric), 2 realizations, 1 item each, one Framed Layer that collects, failing hooks, refused activations, Drain and Cancel | `StreamInv`; `SourcesMatchDesired`; `ImplementsSourceStream`; `DrainLosesNothing`, `DrainKeepsAcceptedDeliveries` |
| `MCWork` | 2 declarations of effect, discard, send, after; fairness | outcomes mapped once; `CancelStopsDriving`; `CancelEnds`; `DrainEnds`; `AdmittedWorkIsDone` |
| `MCMishaps` | 1 Source, 1 declaration of effect, notify, request or reply, 1 host Request, every mishap, all three ways to stop | `InductiveInv`, the invariant of the proofs; `CleanCloseOwnsNothing`; `FaultNotHidden`; `DrainSeesFaults` |
| `MCConversion` | 1 notify, 1 host Request, a panicking conversion | violates `WaitersLearnWhy`, see the finding |

Bounds.  Two realizations suffice for every stale-delivery case: an old and a
new one of one Subscription, or one each of two, of which a change set that
fails half way has handled one.  No host message is needed in `MCSources`: each
delivered event is a turn that may desire something else.  One item and the
terminal event, through a decoder that gives a frame at the end only or fails
before (`Collecting`), give the orders item/end, failure/end, and a frame and an
end made of one event, between whose deliveries a stop may come; `MCStreams`
has decoders that give a frame of any event.  Two declarations give an effect and a timer, or two
of a kind.  The queue is unbounded; it stays short because its
producers are bounded.  Each mishap is enabled in the runs whose properties
it can touch, rather than everywhere, to keep state spaces small.

Fairness (`Fairness` in `LiveRuntime`).  The owner is one Tokio task, polled
while it is ready: weak fairness of `Owner`.  An abort of the owner takes effect
when it awaits: weak fairness of `OwnerAborted`.  Effects and sleeps end, tasks
that sent their event return, and aborted tasks are dropped at an await: weak
fairness for each.  Nothing is assumed of the host, of open Sources, of
failures, nor of Components: `DrainEnds` says that a Component that keeps a
`ReplyTo` token for ever may keep Drain pending, as `lib.rs` 4598–4604 does.

### Finding: a conversion panic loses the fault

`interpret_command` calls `binding.convert` for a Component's own Notify (1980)
and Request (2016) outside `catch_unwind`, unlike `process_port_ingress`.  The
panic unwinds the owner: no fault is recorded, the phase stays `Running`, and a
host Request that waits is told "live runtime ended before a reply"
(`request_ended_error`, 1262).  `docs/adr/0006-live-port-ingress.md` 165–173
promises the scope's preserved fault.  `MCConversion` is that trace.

### What is proved

Every theorem is for all values of the constants that `WorkAssumption` and
`ModesAssumption` allow.  Four have a hypothesis of their own, below.

| Theorem | States |
|---|---|
| `LiveProofs!TypeCorrect` | `TypeOK` |
| `LiveProofs!CancelCutoff` | `CancelStopsDriving` |
| `LiveProofs!CloseOwnsNothing` | `CleanCloseOwnsNothing` |
| `LivePromises!DrainIsLossless` | `DrainLosesNothing` |
| `LivePromises!SourcesAreDesired` | `SourcesMatchDesired` |
| `LivePromises!RetainedIsHeard` | `DrainKeepsAcceptedDeliveries` |
| `LivePromises!RepliesFindRequests` | `TokensNameRequests` |
| `LivePromises!MappersRunOnce` | `OutcomesMappedOnce` |
| `LivePromises!CancelHidesNoFault`, `DrainHidesNoFault` | `FaultNotHidden`, `DrainSeesFaults` |
| `LivePromises!WaitersAreTold` | `WaitersLearnWhy`, if no conversion panics |
| `LivePromises!StreamInvariant` | `InductiveInv`, if plans end last |
| `LivePromises!FramesArePlaced` | `StreamInv`, if plans end last |
| `LivePromises!StreamsAreKept` | `ImplementsSourceStream`, if plans end last |

`DrainKeepsAcceptedDeliveries` is ADR-0004 (70–76) for what happens behind the
cutoff: a Source that `begin_drain` retained stays retained, none of its stamped
Messages is discarded, the ones sent before its end included, and only its raw
events behind that end are ignored.  Its mutant forgets a retained Source once
it ended; a turn that then drops the Subscription loses the Messages still queued.

`WaitersAreTold` assumes `~Mishap("conversion")`: with it the property is false,
which is the finding above, and the theorem says that the finding is the only
way.  `PlansEndLast` says that an end is the last event of a plan's output
and that a raw end is made into one.  It holds of plans of at most one Layer
(`PlanProofs!OneLayerEndsLast`; `MCLive` has TLC evaluate it for the plans of its
runs); nested decoders break it (section 2), so `SourceStream` is promised of the
others only.  `LivePromises` also holds the theorems about the host's calls
(section 5).

None of these is inductive.  The inductive invariant (`LiveInvariants`) says at
every position of the owner what it knows there and where a piece of work is to
be found:

* `LiveInv` (`LiveProofs`): types; the owner's locals
  (`PositionInv`), the bounds of work in flight (`BoundInv`), a key for every
  Source task (`RealizedInv`), one piece of work after Cancel (`CancelInv`),
  where a waiting host Request is (`WaiterInv`), what an ended owner left
  (`EndInv`).
* `PhaseInv`: which phases go with which positions, and which shutdown markers
  may still travel.
* `FreshInv`: numbers not handed out yet name no work.
* `EntryInv`: one entry of each Subscription; after the Drain cutoff the entries
  are those retained.
* `DesiredInv`: a Subscription matches its bookkeeping, or the change that will
  make it match is still in the turn's change set.  Gives `SourcesMatchDesired`.
* `FaultInv`: a failure in time is joined before the scope closes, and was of a
  stream that had ended if it was joined without a fault.
* `TokenInv`: a token is in one place, an event, a Component or a declaration,
  and names an outstanding Request.
* `LedgerInv`: open work is pending in the channel or in hand, an effect, or a
  timer.  Gives `DrainLosesNothing`.
* `OutcomeInv`: an outcome accepted is on its way until its mapper ran.
* `StreamInv`: the frames of a listed Source travel in order, none is missing
  between those delivered and those made, the one in hand is the next, and only
  the last is an end.  Gives the refinement, with `EntryInv` and `DesiredInv`
  for the steps that begin a stream.

`LivePromises` first proves facts that many steps share: which actions write
which variables (`Writers`), how the owner comes to a position
(`PositionMoves`), what a step does to the channel (`QueueMoves`,
`PendingMoves`), which tokens move (`TokensMove`).  Then it has one theorem per part
of the invariant, with one step per action that can disturb it.  The
refinement maps each action of the scope to one of `SourceStream`: `Change` begins or
withdraws a stream (`ChangeBegins`), the owner's ends withdraw all of them,
`PushMapped` makes an event, `MapSourceEvent` may close a stream, `Transition` is
heard, and every other action leaves the streams alone.

TLC checked every part before it was proved: `MCMishaps` has the whole
`InductiveInv`, `MCSources` the part on streams where two realizations compete.

Only model-checked: the properties that need fairness.

## 4. The controlled runtime

### Module and the code

`ControlledRuntime` (on `Turn`) is `ControlledCore`, line by line of
`controlled_runtime.rs`.  The host is one thread: it calls, and the call runs to
its end.  `pc` is `"host"` between calls; a call is a series of steps through the
positions `run` (pop the next work that is due), `reconcile`, `apply`, `interpret`
(the turn of a transition), `next_component` (the loop of `initialize`).  Nothing
can interleave inside a call, so the steps are only finer than the code, which
lets properties speak of what happens inside one.

* `scheduled` is the list of `ScheduledWork`: deadline, ticket, what it is, its
  target, and whether it is a terminal event.  `NextDue`/`Before` is
  `pop_next_due`; `Process` is the match of `run_until_idle`.
* `Return`, `Advance`, `AdvanceToNext` are the loops of the three driving calls
  once nothing is due.  `target` is where `advance` goes.
* `Send`, `EmitSource`, `EmitStream` (and `close_stream`), `NextEffect`,
  `Complete`, `Drive` and `Cancel` are the host's calls.  A call the code refuses
  with a harness error changes nothing and is no action.
* `SetFault` is `set_fault`: the first fault sticks and every later call but
  `cancel` returns it.
* `popped`, `emitted`, `produced`, `delivered` and `finished` are history.

Left out: the trace, error texts, and panics of application code, which end the
host's test.  The end of `Duration` is `MaxTime`.

### What the runs show

Both runs say `CHECK_DEADLOCK FALSE`: after `cancel` nothing is left to do.

| Run | Instance | Shows |
|---|---|---|
| `MCStreams` | 2 Subscriptions, 2 descriptors (symmetric), 2 realizations, 1 item and an end each, one Framed Layer, 2 host sends, refused activations, repeated identities | `InductiveInv`, `SourcesMatchDesired` between calls, `ImplementsSourceStream`, `QuietMeansIdle` |
| `MCTimers` | 2 Components, 2 declarations of every kind; delays 0, 1, 2 and the end of time at 3; foreign capabilities; fairness | `TypeOK`, `WorkRunsAtItsInstant`, `WorkRunsInOrder`, `RequestsHaveHolders`, `CallsReturn` |

Two realizations give a restart, and a Source that stays while the other starts.
Two declarations with delays up to 2 give a timer that declares another one
inside an `advance`, two timers of one instant, and, at the end, one that does
not fit before the end of time.  `MCTimers` assumes weak fairness of the core (`Core`): the
host's thread is inside the call and does nothing else.  Nothing is assumed of
the host.  `CallsReturn` holds because the declarations are bounded; a program
whose Components send to each other for ever keeps `run_until_idle` busy, as the
code does.

### What is proved

`ControlledProofs`, for every value of the constants that `WorkAssumption` and
`TimeAssumption` allow:

| Theorem | States |
|---|---|
| `QueueInvariant` | `QueueInv` |
| `AtItsInstant` | `WorkRunsAtItsInstant` |
| `InOrder` | `WorkRunsInOrder` |
| `ControlledInvariant` | `ControlledInv`, the invariant behind the next four |
| `ControlledTypes` | `TypeOK` |
| `DesiredAreRealized` | `SourcesMatchDesired` |
| `RepliesMeetRequests` | `RequestsHaveHolders` |
| `NothingPendingIsIdle` | `QuietMeansIdle` |
| `StreamInvariant` | `InductiveInv`, if plans end last |
| `StreamsAreKept` | `ImplementsSourceStream`, if plans end last |

`PlansEndLast` is the hypothesis of section 3, and `MCControlled` has TLC
evaluate it for the plans of its runs.

The order of work.  The two action properties say nothing inductive: that the
next work is due now needs that nothing scheduled is in the past, and that it
comes behind the last one needs that whatever shares the last one's instant has
a later ticket.  `QueueInv` is that.  A step leaves the clock and the schedule
alone, or schedules more (`MoreWork`), or takes the next work (`WorkTaken`), or
moves the clock to an instant no scheduled work precedes (`ClockMoves`).

The rest.  `ControlledInvariants` has the other parts, and each needs its own:

* `PositionInv`: a call that met a fault has returned, and only a turn has
  declarations left.  Without it a step outside a turn could leave a token behind
  in `commands`.
* `EntryInv`: one entry of each Subscription, and nothing made or delivered yet
  of a generation that was not handed out.
* `DesiredInv`: while changes are applied, each Subscription is as its bookkeeping
  says or the one change that will make it so is left (`Reconciling` of
  `TurnInvariants`, which the live runtime shares).  Gives `SourcesMatchDesired`.
* `TokenInv`: a token is in one place.  Gives `RequestsHaveHolders`; that no token
  is in two places is what keeps the invariant when one of them is used up.
* `SourceEventInv`: the events of Sources are due at once, none is left when a call
  returns, and the host adds them to running Sources only.  Gives
  `QuietMeansIdle`: a report that counts running Sources in their place is right.
* `StreamInv`: the frames of a stream are in the schedule in the order of their
  tickets, none is missing between those delivered and those made, and only the
  last made of a Source that stopped is an end.  With `QueueInv` it follows that
  the frame that is next is the one after the last delivered (`NextFrame`), which
  is `Hear` of `SourceStream`.

`MCStreams` checks `InductiveInv`, which is all of it; `MCTimers`, which has no
Subscriptions, checks what it implies of time, tokens and types.

Only model-checked: `CallsReturn`, which needs fairness.

## 5. The host's RuntimeTask

`LiveRuntime` lets a host act on the scope in any order.  `RuntimeTask` adds the
handle through which it really acts (`lib.rs` 4620–4697): the call under way, the
`JoinHandle` (`join`), the completion kept from an earlier call (`completion`), and
what `begin_shutdown` answered (`cutoff`).  `answers` is history.

* `RunForever` and `StopsObserving`: a future that may be dropped at any moment,
  as by a `select!`, and made again.
* `Shutdown(mode)`: consumes the task; the cutoff is made, or refused, before the
  wait.  `DropTask` also drops a `shutdown` future that waits.
* `CallReturns`: `await_completion`, and how `shutdown` chooses between the
  owner's error, its cutoff's error and the report.

| Run | Instance | Shows |
|---|---|---|
| `MCRequests` | 2 Components, 2 declarations of request, reply, notify, 1 host Request, all three ways to stop, panicking mappers and transitions, any number of calls; fairness | `OneDiagnosis`; `ReportIsEarned`; `TokensNameRequests`; `WaitersLearnWhy`; `ShutdownReturns` |

Two declarations give a Request and its Reply, of a Component or of the host, and
a notification behind either.  The calls need no bound: the state after a call
that was given up is one that occurred before it.  Fairness is the live scope's
(section 3), and that the host polls the future it awaits (`CallReturns`).

`LivePromises` (its last section) proves `OneDiagnosisHolds`, `TaskSpec => []OneDiagnosis`, and
`ReportsAreTrue`, `TaskSpec => []ReportIsEarned`.  `OneDiagnosis` is not
inductive: that the completion kept is the owner's end needs that an owner which
ended stays where it ended, and that nothing else consumed the `JoinHandle`;
`HostTaskInv` says so, together with which phase and which marker of the channel
belong to the call under way, because an owner aborted by Drop ends in its own
way.  `ReportIsEarned` needs `EarnedInv` beside it: a report is the answer to a
shutdown that made its cutoff.  That it is true comes from `PromiseInv`, which
the scope keeps under the host's handle too (`HostTaskInvariant`).  `HostTaskImplementsHost`
is `TaskSpec => Spec`: a `RuntimeTask` only takes steps that `LiveRuntime` leaves to any
host, so that `TokensNameRequests` and `WaitersLearnWhy`, proved of `Spec` in section 3, hold
of it as well.

## 6. First-party Source Drivers

### Modules and the code

`SourceDriver` is what the live runtime takes for granted of a Driver: it may
emit while its gate admits, ends once, returns only behind an end, and goes when
it is aborted.  `LiveDrivers` has these steps; here the Drivers of this crate
are shown to take no others.

* `StdinLines` is `StdinLineDecoder`, on four kinds of bytes (the two halves of a
  character, CR, LF), and `LinesOf`, the line contract of ADR-0009 byte by byte.
* `SourceRealizations` is what surrounds a Driver: runtimes that realize
  Sources, stop their gates, close, and are dropped; the bytes the world writes.
* `StdinReader` is the reader: the process-wide `lease`, the reader thread
  (`wait_for_stdin`, one read at a time, decode, send), the Source task, and
  `stop_and_join`, called by the owner's hook and by the task that leaves or is
  dropped.  Its lock is held only between waits, so each of its critical
  sections is one action, and so is each step between them: the winner marks
  the reader as stopping, shuts the cancellation channel once it let the lock
  go, joins, returns the lease and publishes the result; `asleep` are the
  callers on the condition variable.
* `StreamDrivers` has the mpsc and TCP Drivers, which do not await between reading
  and offering.
* `SourceDrivers` composes them and states the properties.

A read announced by the wait may block, because two runtimes may poll one
descriptor, or be interrupted and wait again (`ReadAgain`: EINTR, EAGAIN).  The poll and read system calls, the network and the writer of a
channel are the environment.

### What the run shows

`MCDrivers` explores, in one run, six instances (`Small`); it says
`CHECK_DEADLOCK FALSE`, as realizations and input run out.

| Instance | What it is for |
|---|---|
| stdin, 1 realization, 3 bytes of all kinds, chunks of 2 | every cut: CR and LF apart, half a character at a chunk's end, a last line without LF, an invalid line with lines behind it |
| stdin, 1 realization, 2 bytes, failures | failing waits and reads, a thread that does not start |
| stdin, 2 realizations of one runtime | cutover: the next reader while the old one is stopped |
| stdin, 2 runtimes | two owners competing for the process's lease |
| mpsc, 2 realizations | the one receiver taken twice |
| TCP, failures | failing connects and reads, each realization with its own connection |

`OneReader`: at most one thread may read, it holds the lease, and no lease is
left behind.  `AcceptedIsWhatWasRead`: what a realization got accepted is a prefix
of what its bytes mean, and all of it when it ended itself.  `CutoverStopsReading`:
behind a stop at most the one read that was already announced.  `StopsReturn`: no
caller of `stop_and_join` waits for ever.  `ImplementsDriver`: the refinement of
`SourceDriver`, and that aborted tasks end.

Fairness: a runnable thread runs, a caller of `stop_and_join` too, Tokio polls
tasks that were woken and drops aborted ones at an await.  The world owes
nothing.  A read that blocks because another process took the bytes would make a
stop wait, in the code as in the model; the model has no such reader outside
Samara.  Reads that are interrupted for ever do not keep a stop waiting: once the
channel is shut, the next wait is cancelled.

`DriverProofs` proves `OneReaderHolds`, `Spec => []OneReader`, for any number of
runtimes and realizations and any input.  The inductive invariant is `LeaseInv`:
a realization that was not made has no reader, a thread that may read was not
released, and whoever is not released holds the lease, alone.

`CutoverReadsNothing` is `Spec => CutoverStopsReading`.  The invariant is
`CutoverInv`: on top of the lease, only a stop that began has its reader's
channel shut, only one whose thread was joined went further, and a thread that
read once with its channel shut does not read again.

`DriversAreDrivers` is `Spec => Driver!Spec`, the safety half of
`ImplementsDriver`: every step of every binding is a step of `SourceDriver` or a
stutter, under a mapping that forgets lease, thread, channel and bytes.  It
needs `DriverInv`, which adds to `CutoverInv` what a step of the environment must
not be mistaken for: a reader's channel holds a `Cancelled` only if it was told
to stop (`ChannelInv`), whoever told it is an owner that had stopped the gate,
a gate that admits has accepted no end, and a task that left its loop finds its
gate shut (`GateInv`).  Without the first two a Driver might leave on a `Cancelled`
while its gate still admits, so that its Source never ends.  `SourceDriver` counts accepted
items, so the proof also shows that what is accepted grows by one event at a
time.  That aborted tasks end, the other half, needs fairness and stays with
TLC, as `StopsReturn` does.

`ReadsAreMeant` is `Spec => []AcceptedIsWhatWasRead`, for any input, cut into
chunks of any size, and for any number of competing realizations.  The
invariant is `MeaningInv`: what a realization read means what it got accepted
and, behind that, what is unheard.  While the task listens, the unheard part is
what its channel holds, but for the `Cancelled` of a thread that is done; once
the gate took an end nothing is unheard; and while the thread goes on, its
decoder holds back the same line as the contract (`ReaderKeepsUp`).  Its heart is
`PushMeans`: pushing a chunk, in which the code looks for line feeds and cuts
between them, comes to the same as giving the contract one byte after the other.
That is shown by induction on the bytes of the chunk; the contract is the
recursive function `MadeOf`, unfolded as a loop (`MadeLoop`, `MadeAppend`).

An observation that no run states: a Subscription turn applies its changes in
`SubscriptionId` order (`declarative_work.rs` 26–28 calls them one step).  When a
Component moves its one stdin capability from one Subscription identity to
another in one turn, the new one is started before the old one is cancelled if
its identity sorts first; its lease is then refused and the runtime faults.

## 7. Program assembly

`Assembly` models the builders: `ProgramBuilder` (`component`, `port`, `bind_port`,
`effect`, `source`, `BuildProgram`), `LiveRuntimeBuilder` and
`ControlledRuntimeBuilder` (`bind_*`, `control_*`, `BuildLive`, `BuildControlled`) and the
two lookups a host makes (`Handle`, `PortHandle`).  Actions have the source's names.
The program that calls them is the environment and may pass any handle, of this
builder or of another (`Elsewhere`).  A refusal ends in phase `refused`; which
error is returned when several apply is left out.

What could be wrong is that checks and lookups differ.  `build` compares Program,
identity and Component type; the running owner finds a Component by identity and
Message type and a binding by protocol and name, never by Program.  A runtime
builder checks `satisfies` and `conflicts`; the owner looks up with `matches`.

* `PortsResolve`: in a closed Program every Port leads to exactly one Component,
  the one some `bind_port` named; every live handle too.
* `CapabilitiesResolve`: in a running runtime every declared capability, and
  everything the initial Commands and Subscriptions use, finds exactly one
  Driver or controlled behaviour, and no binding serves a foreign capability.

`MCAssembly` uses two Component types with one Message type, a stream descriptor
taken raw and framed, and stdin.  Its four scopes bound the calls: two
Components, Ports and bindings (wiring); two capabilities and three registrations
(missing, doubled, conflicting and foreign bindings); one of everything; and one
Component with two initial declarations.  It says `CHECK_DEADLOCK FALSE`: a
program that was refused, or runs, does nothing more.

`AssemblyProofs` proves `PortsResolveHolds` and `CapabilitiesResolveHolds` for any
number of calls.  Neither property is inductive: they speak of a closed Program,
whose shape `build` saw once.  `AssemblyInv` says that in later phases what
`ProgramClosed` checked still holds and that the handles given out came from it;
`CapabilityInv` that every declared token is of this Program, that a typed binding
has the shape its builder call gave it, and
that a running runtime has passed its profile's checks.

## 8. What is left

Every property of the passing runs that needs no fairness is also proved, for
all values of the constants.  Out of the prover's reach, and left to TLC, are
the properties that need fairness: `CancelEnds`, `DrainEnds`, `AdmittedWorkIsDone`,
`ShutdownReturns`, `CallsReturn`, `StopsReturn`, and the half of `ImplementsDriver`
that says aborted tasks end.  Some theorems about the runtimes have a hypothesis
of their own, no panicking conversion or plans that end last; the first is a
finding, the second is proved of plans of at most one Layer.

Not modelled: HTTP requests, TCP dialling and writing, and printing (their state is
the outside world; what the runtime sees is an outcome, or a task that fails, in
`LiveDrivers`); `SerializedComponent` (neither runtime uses it); the
controlled runtime's trace and all error texts; derive macros, the typed
constructors of the public vocabulary and the examples (no state).

