--------------------------- MODULE LiveProperties ---------------------------
(***************************************************************************)
(* What the live runtime promises (docs/adr/0004, docs/adr/0006), stated   *)
(* over LiveRuntime.                                                       *)
(***************************************************************************)
EXTENDS LiveRuntime

\* A Drain that reports a clean close has lost nothing: every piece of
\* admitted work was delivered, mapped or superseded, no Request is still
\* outstanding and no host still waits for a reply.
DrainLosesNothing ==
  pc = "clean" /\ draining =>
    /\ open = {}
    /\ requests = {}
    /\ \A h \in Asks : asks[h] # "waiting"

\* Whatever way the owner ends normally, it leaves nothing it owns: no task
\* that was not joined, no event, and no host Request still waiting.
CleanCloseOwnsNothing ==
  pc \in {"clean", "faulted"} =>
    /\ AllJoined
    /\ queue = <<>>
    /\ \A h \in Asks : asks[h] # "waiting"

\* The Sources this scope realizes, seen as the streams of SourceStream: a
\* stream is closed when its end was observed and all of its Messages are
\* sent, which takes several critical sections of the scope's mutex.
Pushing == IF pc = "push" THEN {current.item[2]} ELSE {}

Stream == INSTANCE SourceStream WITH
  Subscribers <- Keys, Nobody <- NoKey, MaxStreams <- MaxGenerations, MaxMade <- MaxFrames,
  begun <- next_generation, subscriber <- [g \in Generations |-> KeyOf(g)],
  entitled <- sources, closed <- (terminal_observed \cap sources) \ Pushing,
  made <- produced, heard <- delivered, ended <- finished

\* The live runtime keeps SourceStream's promise through restarts, Drain,
\* Cancel, faults and panics: a Component hears one realization of each
\* Subscription at a time, in order, gapless, its end once and last.  (Of
\* plans with at most one Layer: SourcePlan says what more of them do.)
ImplementsSourceStream == Stream!Spec

\* Once the owner observed the Drain cutoff, no later transition, whatever
\* Subscription it drops or changes, loses a delivery of a Source retained
\* for the Drain: the Source stays retained, process_message discards none of
\* its stamped Messages as stale, those sent before its end included, and
\* process_source_event ignores only a raw event behind its end.
DrainKeepsAcceptedDeliveries ==
  [][draining =>
       /\ drain_retained \subseteq drain_retained'
       /\ \A item \in stale' \ stale :
            item[2] \in drain_retained => ~IsFrame(item) /\ item[2] \in terminal_observed]_vars

\* Between two turns of a running scope, the realized Sources are exactly
\* the desired ones, with the descriptors that are desired.
SourcesMatchDesired ==
  pc = "select" /\ phase = "Running" =>
    \A k \in Keys :
      active[k] = IF Realizations(k) = {} THEN NoDescriptor
                  ELSE realized[First(Realizations(k))][2]

\* An outcome accepted from an effect's Driver has its mapper called once
\* before the scope closes cleanly, Cancel included; never more than once,
\* and never without an outcome.
OutcomesMappedOnce ==
  \A k \in Declared :
    /\ mapped[k] <= Cardinality({e \in outcomes : e[2] = k})
    /\ pc = "clean" =>
         mapped[k] = Cardinality({e \in outcomes : e[2] = k /\ Kind(e) = "effect"})

\* Cancel is a cutoff for driving the application: of the transitions and
\* declarations the owner had not started when Cancel came, at most the one
\* it had already decided on is started.
CancelStopsDriving ==
  late <= 1

\* A clean close never hides the failure of a Driver that failed before
\* Cancel: an effect's at all, a Source's while its realization was still
\* current and had not ended.
FaultNotHidden ==
  (pc = "clean" \/ pc = "cleanup") /\ phase # "Faulted" =>
    \A t \in failed_in_time :
      /\ Kind(t) = "run"
      /\ t[2] \notin sources \/ t[2] \in terminal_observed

\* The same for Drain, which clears its Sources as it closes.
DrainSeesFaults ==
  [][pc' = "clean" /\ draining =>
       \A g \in sources :
         SourceTask(g) \in failed_in_time => g \in terminal_observed]_vars

\* A ReplyTo token a Component holds or is about to reply with names an
\* outstanding Request as long as the owner drives Components, so a reply
\* to a Request of this scope never faults it.
TokensNameRequests ==
  pc \notin {"cancel", "cancel_join", "cancel_stop", "fault", "cleanup", "joining"}
    /\ pc \notin OwnerEnded =>
  held \cup Tokens(commands) \subseteq requests

\* A host Request that ends without a reply finds the reason in the scope's
\* phase: it is never woken while the scope still looks healthy.
WaitersLearnWhy ==
  [][\A h \in Asks : asks[h] = "waiting" /\ asks'[h] = "dropped" =>
       phase \in {"Faulted", "Cancelling"} \/ handle = "dropped"]_vars

-----------------------------------------------------------------------------
\* Cancel always ends the owner.
CancelEnds == phase = "Cancelling" ~> pc \in OwnerEnded

\* Drain ends the owner, unless a Component keeps a ReplyTo token for ever:
\* Drain waits for the Requests it admitted to be answered.
DrainEnds == (phase = "Draining" ~> pc \in OwnerEnded) \/ <>[](held # {})

\* Work the scope admitted is eventually dealt with, or the scope stops.
AdmittedWorkIsDone ==
  \A n \in 1 .. HostSends :
    <<"ingress", n, 0>> \in open ~>
      (<<"ingress", n, 0>> \notin open \/ phase \notin {"Running", "Draining"})
==============================================================================
