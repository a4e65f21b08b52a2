------------------------- MODULE ControlledProperties -------------------------
(***************************************************************************)
(* What the controlled runtime promises (docs/adr/0003), stated over       *)
(* ControlledRuntime.                                                      *)
(***************************************************************************)
EXTENDS ControlledRuntime

Undisturbed == ~fault /\ pc # "cancelled"

\* Scheduled work is done at its own logical instant, never late: advance
\* stops at every instant that has work, including work scheduled on the way
\* by what ran before it.
WorkRunsAtItsInstant ==
  [][popped' # popped => popped'.deadline = now]_vars

\* Two runs of one program do the same in the same order: work is done by
\* deadline and, at one instant, in the order it was accepted, whatever is
\* accepted meanwhile.
WorkRunsInOrder ==
  [][popped' # popped =>
       \/ popped.deadline < popped'.deadline
       \/ popped.deadline = popped'.deadline /\ popped.ticket < popped'.ticket]_vars

\* The Sources of this runtime, seen as the streams of SourceStream: an entry
\* that is no longer running has had its last event made.
Stream == INSTANCE SourceStream WITH
  Subscribers <- Keys, Nobody <- NoKey, MaxStreams <- MaxGenerations, MaxMade <- MaxFrames,
  begun <- next_generation, subscriber <- [g \in Generations |-> KeyOf(g)],
  entitled <- sources, closed <- sources \ running,
  made <- produced, heard <- delivered, ended <- finished

\* The controlled runtime keeps the same promise as the live one, although
\* its host may enqueue events, ends included, faster than they are
\* processed: a test in logical time hears what a live scope may deliver.
ImplementsSourceStream == Stream!Spec

\* Between calls, a runtime without a fault realizes exactly the Subscriptions
\* its Components' committed Models desire, with the desired descriptors.
SourcesMatchDesired ==
  pc = "host" /\ ~fault =>
    \A k \in Keys :
      IF active[k] = NoDescriptor
      THEN Realizations(k) = {}
      ELSE \E g \in sources : Realizations(k) = {g} /\ realized[g][2] = active[k]

\* Every Request outstanding has its ReplyTo token somewhere, in the Message
\* that carries it, with the provider or in a reply about to be interpreted,
\* and a token somewhere names a Request outstanding: a reply never faults.
RequestsHaveHolders ==
  Undisturbed =>
    requests = held \cup Tokens(commands)
                 \cup {w.item : w \in {v \in scheduled : v.item \in Correlation}}

PendingNow == {w \in scheduled : Kind(w.item) # "source" /\ w.deadline <= now}
FutureTimers == {w \in scheduled : Kind(w.item) # "source" /\ w.deadline > now}

\* When pending_work reports nothing now and nothing later, nothing is left
\* to do, although it does not count the Source events that are scheduled.
QuietMeansIdle ==
  pc = "host" /\ ~fault /\ PendingNow = {} /\ FutureTimers = {}
    /\ effects = {} /\ running = {} /\ requests = {} =>
  scheduled = {}

\* Every call of the host returns, provided the Components declare only
\* finitely much work.
CallsReturn == pc # "host" ~> pc \in {"host", "cancelled"}
-----------------------------------------------------------------------------
\* The inductive invariant behind the order of work: nothing scheduled is in
\* the past, and what is scheduled for the instant of the work done last was
\* accepted after it.
QueueInv ==
  /\ now \in Nat /\ next_ticket \in Nat /\ target \in Nat
  /\ call = "advance" => now <= target
  /\ popped.deadline \in Nat /\ popped.ticket \in Int
  /\ popped.deadline <= now /\ popped.ticket < next_ticket
  /\ \A w \in scheduled :
       /\ w.deadline \in Nat /\ w.ticket \in Nat /\ w.terminal \in BOOLEAN
       /\ now <= w.deadline /\ w.ticket < next_ticket
       /\ w.deadline = popped.deadline => popped.ticket < w.ticket
==============================================================================
