------------------------- MODULE ControlledInvariants -------------------------
(***************************************************************************)
(* The inductive invariant behind the theorems of ControlledProofs: what a *)
(* call knows at its position, where the tokens of Requests are, and where *)
(* the events of a stream wait in the schedule.                            *)
(***************************************************************************)
EXTENDS ControlledProperties, TurnInvariants

\* The positions of a turn.
Turning == pc \in {"reconcile", "apply", "interpret"}

\* What each position of a call guarantees about its locals: a call that met a
\* fault has returned, and only a turn has declarations left to interpret.
PositionInv ==
  /\ fault => pc \in {"host", "cancelled"}
  /\ Turning => component \in Components /\ declared + Len(commands) <= MaxDeclarations
  /\ ~Turning /\ ~fault => commands = <<>>
  /\ pc = "next_component" => call = "new"
  /\ requests \subseteq {"request"} \X Declared \X Components

\* The list of Sources: one entry of each Subscription, and nothing yet of a
\* generation that was not handed out.
EntryInv ==
  /\ OneEntryEach
  /\ \A g \in sources : realized[g] \in Keys \X Descriptors
  /\ \A g \in Generations : next_generation < g =>
       g \notin sources \cup finished /\ produced[g] = 0 /\ delivered[g] = 0

\* Without a fault, the Sources are those the Components desire, or the changes
\* that will make them so are being applied.
DesiredInv == Undisturbed => IF pc = "apply" THEN Reconciling ELSE Reconciled

\* A ReplyTo token is in one place, and names a Request that is outstanding.
Carried == {w.item : w \in {v \in scheduled : v.item \in Correlation}}

TokenInv ==
  Undisturbed =>
    /\ TokensOnce
    /\ requests = HeldOrReplying \cup Carried
    /\ HeldOrReplying \cap Carried = {}
    /\ \A v, w \in scheduled : v.item \in Correlation /\ v.item = w.item => v = w
    /\ \A token \in requests : token[2] <= declared

\* The events of Sources are due at once.  The host's calls find every one of
\* them processed, and the host accepts one of a running Source only.
SourceEventInv ==
  Undisturbed =>
    \A w \in scheduled : Kind(w.item) = "source" =>
      /\ w.deadline <= now
      /\ pc # "host" => call # "new"
      /\ pc = "host" => w.item[2] \in running

-----------------------------------------------------------------------------
(***************************************************************************)
(* The events made of a stream, for plans that end last.                   *)
(***************************************************************************)
FrameOf(w, g) == Kind(w.item) = "frame" /\ w.item[2] = g

\* No two works have one ticket, and those of one stream are due at once and
\* have their tickets in the order they were made in.
FramesInOrder ==
  \A v, w \in scheduled :
    /\ v.ticket = w.ticket => v = w
    /\ IsFrame(v.item) => v.deadline <= now
    /\ \A g \in Generations :
         FrameOf(v, g) /\ FrameOf(w, g) /\ v.ticket < w.ticket => v.item[3] < w.item[3]

FramesMade ==
  \A g \in Generations :
    /\ delivered[g] <= produced[g]
    /\ \A w \in scheduled : FrameOf(w, g) => w.item[3] <= produced[g]

\* What is scheduled of an entry's stream was not delivered yet, and only the
\* last event that will be made of it is its end.
Undelivered(g) ==
  \A w \in scheduled : FrameOf(w, g) =>
    /\ delivered[g] < w.item[3]
    /\ w.terminal <=> g \notin running /\ w.item[3] = produced[g]

\* Nothing that was made of it is lost.
Accounted(g) ==
  \A n \in 1 .. produced[g] :
    delivered[g] < n => \E w \in scheduled : FrameOf(w, g) /\ w.item[3] = n

StreamInv ==
  /\ FramesInOrder /\ FramesMade
  /\ \A g \in sources : Undelivered(g) /\ Accounted(g)

-----------------------------------------------------------------------------
ControlledInv ==
  /\ TypeOK /\ QueueInv /\ PositionInv
  /\ EntryInv /\ DesiredInv /\ TokenInv /\ SourceEventInv

\* The whole of it, of a runtime whose Sources' plans end last.
InductiveInv == ControlledInv /\ StreamInv
==============================================================================
