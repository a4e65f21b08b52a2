-------------------------- MODULE ControlledRuntime --------------------------
(***************************************************************************)
(* The controlled runtime (ControlledCore, src/src/controlled_runtime.rs): *)
(* one thread, logical time, and a host that injects inputs, decides when  *)
(* effects complete and when time passes.  A call of the host runs to its  *)
(* end before the next; here it is a series of steps, one per change,      *)
(* declaration or scheduled work.  Uncaught panics of application code     *)
(* end the host's test and are left out.                                   *)
(***************************************************************************)
EXTENDS Turn, Integers

CONSTANTS
  MaxTime, \* Duration::MAX, the end of logical time
  Delays   \* the durations of `after` and `advance`

ASSUME TimeAssumption == MaxTime \in Nat /\ Delays \subseteq Nat

VARIABLES
  pc, call, target, \* where the current call is, which it is, where advance goes
  cursor,           \* the initialize loop
  now, scheduled, next_ticket,
  claimed,          \* effects the host took with next_effect
  fault,            \* whether ControlledCore::fault is set
  ingress,          \* Messages the host sent
  \* History, read by properties only.
  popped, emitted, produced, delivered, finished

scopeVars == <<pc, call, target, cursor, fault>>
queueVars == <<now, scheduled, next_ticket>>
sourceVars == <<next_generation, realized, sources, running>>
workVars == <<effects, claimed, requests, held, declared>>
deliveryHistory == <<emitted, produced, delivered, finished>>
history == <<popped, deliveryHistory>>
vars == <<scopeVars, queueVars, turnVars, active, sourceVars, workVars, ingress, history>>

Time == 0 .. MaxTime
Earliest == [deadline |-> 0, ticket |-> -1]

ScheduledWork ==
  [deadline : Time, ticket : Nat, item : Item, target : Components, terminal : BOOLEAN]

\* Type correctness of the controlled runtime: whatever is scheduled, pending
\* or outstanding names work that was accepted, at a time that exists.
TypeOK ==
  /\ pc \in {"next_component", "reconcile", "apply", "interpret", "run", "host", "cancelled"}
  /\ call \in {"new", "run", "advance", "advance_to_next"} /\ target \in Time
  /\ cursor \in 1 .. NumComponents + 1 /\ fault \in BOOLEAN
  /\ now \in Time /\ scheduled \subseteq ScheduledWork /\ next_ticket \in Nat
  /\ TurnTypeOK
  /\ next_generation \in 0 .. MaxGenerations
  /\ realized \in [Generations -> (Keys \cup {NoKey}) \X (Descriptors \cup {NoDescriptor})]
  /\ sources \subseteq Generations /\ running \subseteq sources
  /\ effects \subseteq EffectItem /\ claimed \subseteq effects
  /\ requests \subseteq Correlation /\ held \subseteq Correlation
  /\ declared \in 0 .. MaxDeclarations /\ ingress \in 0 .. HostSends
  /\ emitted \in [Generations -> Nat] /\ produced \in [Generations -> Nat]
  /\ delivered \in [Generations -> Nat] /\ finished \subseteq Generations

Init ==
  /\ TurnInit
  /\ pc = "next_component" /\ call = "new" /\ target = 0 /\ cursor = 1 /\ fault = FALSE
  /\ now = 0 /\ scheduled = {} /\ next_ticket = 0
  /\ claimed = {} /\ ingress = 0
  /\ popped = Earliest
  /\ emitted = [g \in Generations |-> 0] /\ produced = [g \in Generations |-> 0]
  /\ delivered = [g \in Generations |-> 0] /\ finished = {}

-----------------------------------------------------------------------------
Goto(next) == pc' = next /\ UNCHANGED <<call, target, cursor, fault>>
GotoWithin(next) == pc' = next /\ UNCHANGED <<call, target, fault>>

\* set_fault: the call returns the error, every later one does at its start.
SetFault == pc' = "host" /\ fault' = TRUE /\ UNCHANGED <<call, target, cursor>>

\* A Message or Source event to schedule, and several, in order, at a deadline.
Delivery(item, component_, terminal) ==
  [item |-> item, target |-> component_, terminal |-> terminal]

Schedule(left, deliveries, deadline) ==
  /\ scheduled' = left \cup
       {[deadline |-> deadline, ticket |-> next_ticket + i - 1, item |-> deliveries[i].item,
         target |-> deliveries[i].target, terminal |-> deliveries[i].terminal] :
          i \in DOMAIN deliveries}
  /\ next_ticket' = next_ticket + Len(deliveries)
  /\ UNCHANGED now

-----------------------------------------------------------------------------
(***************************************************************************)
(* A turn: initialize takes the Components in ComponentId order.           *)
(***************************************************************************)
NextComponent ==
  /\ pc = "next_component"
  /\ IF cursor > NumComponents
     THEN GotoWithin("host") /\ UNCHANGED <<cursor, turnVars, held>>
     ELSE /\ cursor' = cursor + 1
          /\ Project(cursor, held)
          /\ GotoWithin("reconcile")
  /\ UNCHANGED <<queueVars, active, sourceVars, effects, claimed, requests, declared, ingress,
                 history>>

\* A list that repeats an identity is refused before anything changes.
Reconcile ==
  /\ pc = "reconcile"
  /\ IF duplicate
     THEN SetFault /\ UNCHANGED <<changes, active>>
     ELSE /\ changes' = Changes(Bookkept(component), desired)
          /\ active' = BookkeptAfter(component)
          /\ Goto("apply")
  /\ UNCHANGED <<queueVars, component, desired, duplicate, commands, sourceVars, workVars,
                 ingress, history>>

\* activate_source, after the entries in S were removed.
Activate(key, S) ==
  \/ LET g == next_generation + 1
     IN  /\ g \in Generations
         /\ next_generation' = g
         /\ realized' = [realized EXCEPT ![g] = <<key, desired[key[2]]>>]
         /\ sources' = (sources \ S) \cup {g}
         /\ running' = (running \ S) \cup {g}
         /\ Goto("apply")
  \/ /\ Mishap("activation")
     /\ sources' = sources \ S /\ running' = running \ S
     /\ UNCHANGED <<next_generation, realized>>
     /\ SetFault

\* apply_subscription_changes, one change, in SubscriptionId order.
Change ==
  /\ pc = "apply"
  /\ \E change \in changes :
       LET key == <<component, change.id>>
           S == Removed(change, Entry(key))
       IN  /\ \A other \in changes : change.id <= other.id
           /\ changes' = changes \ {change}
           /\ IF change.kind \in {"Start", "Replace"}
              THEN Activate(key, S)
              ELSE /\ sources' = sources \ S /\ running' = running \ S
                   /\ UNCHANGED <<next_generation, realized>>
                   /\ Goto("apply")
  /\ UNCHANGED <<queueVars, component, desired, duplicate, commands, active, workVars, ingress,
                 history>>

Applied ==
  /\ pc = "apply"
  /\ changes = {}
  /\ Goto("interpret")
  /\ UNCHANGED <<queueVars, turnVars, active, sourceVars, workVars, ingress, history>>

-----------------------------------------------------------------------------
(***************************************************************************)
(* interpret_command, one declaration at a time.                           *)
(***************************************************************************)
Issuing(kinds) == pc = "interpret" /\ commands # <<>> /\ Head(commands).kind \in kinds

IssueFrame ==
  /\ commands' = Tail(commands)
  /\ declared' = declared + 1
  /\ UNCHANGED <<component, desired, duplicate, changes, active, sourceVars, claimed, held,
                 ingress, history>>

IssueEffect ==
  /\ Issuing({"effect", "discard"})
  /\ effects' = effects \cup {NewItem(Head(commands).kind)}
  /\ Goto("interpret")
  /\ IssueFrame
  /\ UNCHANGED <<queueVars, requests>>

IssueSend ==
  /\ Issuing({"send", "notify"})
  /\ LET d == Head(commands)
         receiver == IF d.kind = "send" THEN d.target ELSE Provider
     IN  Schedule(scheduled, <<Delivery(NewItem("send"), receiver, FALSE)>>, now)
  /\ Goto("interpret")
  /\ IssueFrame
  /\ UNCHANGED <<effects, requests>>

\* Wrong variant: a Request is sent without being recorded.
Unrecorded(c) == requests

Outstanding(c) == requests \cup {c}

IssueRequest ==
  /\ Issuing({"request"})
  /\ LET c == NewItem("request")
     IN  /\ requests' = Outstanding(c)
         /\ Schedule(scheduled, <<Delivery(c, Provider, FALSE)>>, now)
  /\ Goto("interpret")
  /\ IssueFrame
  /\ UNCHANGED effects

\* The Request is removed and its mapper's Message goes to the requester.
IssueReply ==
  /\ Issuing({"reply"})
  /\ LET token == Head(commands).token
     IN  /\ requests' = requests \ {token}
         /\ IF token \in requests
            THEN /\ Schedule(scheduled, <<Delivery(NewItem("reply"), OwnerOf(token), FALSE)>>, now)
                 /\ Goto("interpret")
            ELSE SetFault /\ UNCHANGED queueVars
  /\ IssueFrame
  /\ UNCHANGED effects

\* Wrong variant: the deadline is not checked against the end of time.
AnyTime(t) == TRUE

Representable(t) == t \in Time

\* A timer's deadline is computed in logical time, which may not reach it.
IssueAfter ==
  /\ Issuing({"after"})
  /\ \E delay \in Delays :
       IF Representable(now + delay)
       THEN /\ Schedule(scheduled, <<Delivery(NewItem("after"), component, FALSE)>>, now + delay)
            /\ Goto("interpret")
       ELSE SetFault /\ UNCHANGED queueVars
  /\ IssueFrame
  /\ UNCHANGED <<effects, requests>>

\* A declaration with a foreign or unbound capability.
IssueRefused ==
  /\ Issuing({"effect", "discard", "send", "notify", "request"})
  /\ Mishap("foreign")
  /\ SetFault
  /\ IssueFrame
  /\ UNCHANGED <<queueVars, effects, requests>>

Issue ==
  \/ IssueEffect
  \/ IssueSend
  \/ IssueRequest
  \/ IssueReply
  \/ IssueAfter
  \/ IssueRefused

\* The turn is over: back to initialize or to run_until_idle.
Interpreted ==
  /\ pc = "interpret"
  /\ commands = <<>>
  /\ Goto(IF call = "new" THEN "next_component" ELSE "run")
  /\ UNCHANGED <<queueVars, turnVars, active, sourceVars, workVars, ingress, history>>

-----------------------------------------------------------------------------
(***************************************************************************)
(* pop_next_due: of the work that is due, the least deadline and then the  *)
(* least ticket.                                                           *)
(***************************************************************************)
Due == {w \in scheduled : w.deadline <= now}

\* Wrong variant: the work accepted last is done first.
After(v, w) == v.ticket > w.ticket

Before(v, w) ==
  v.deadline < w.deadline \/ (v.deadline = w.deadline /\ v.ticket < w.ticket)

NextDue == {w \in Due : \A other \in Due \ {w} : Before(w, other)}

\* Wrong variant: the work found is left where it was.
NothingTaken(w) == scheduled

Without(w) == scheduled \ {w}

Pop(w, kinds) ==
  /\ pc = "run"
  /\ Kind(w.item) \in kinds
  /\ popped' = [deadline |-> w.deadline, ticket |-> w.ticket]
  /\ UNCHANGED <<active, sources, realized, next_generation, effects, claimed, requests,
                 declared, ingress, emitted>>

SourceEventRelevant(g) == Entry(KeyOf(g)) = {g} /\ g \in running

DropSourceEvent(w) ==
  /\ Pop(w, {"source"})
  /\ ~SourceEventRelevant(w.item[2])
  /\ Schedule(Without(w), <<>>, now)
  /\ Goto("run")
  /\ UNCHANGED <<turnVars, running, held, produced, delivered, finished>>

Outputs(g, raw_terminal) ==
  {output \in PlanOutputs[raw_terminal] : produced[g] + Len(output) <= MaxFrames}

\* process_source_event: plan and mapper, then one stamped Message of each event.
MapSourceEvent(w) ==
  /\ Pop(w, {"source"})
  /\ LET g == w.item[2]
         Frame(output, i) == Delivery(<<"frame", g, produced[g] + i>>, w.target, output[i])
     IN  /\ SourceEventRelevant(g)
         /\ \E output \in Outputs(g, w.terminal) :
              /\ running' = IF EndsSource(w.terminal, output) THEN running \ {g} ELSE running
              /\ produced' = [produced EXCEPT ![g] = @ + Len(output)]
              /\ Schedule(Without(w), [i \in 1 .. Len(output) |-> Frame(output, i)], now)
  /\ Goto("run")
  /\ UNCHANGED <<turnVars, held, delivered, finished>>

MessageKinds == {"send", "request", "reply", "after", "effect", "frame", "ingress"}

DropStaleMessage(w) ==
  /\ Pop(w, {"frame"})
  /\ ~StampIsCurrent(w.item[2])
  /\ Schedule(Without(w), <<>>, now)
  /\ Goto("run")
  /\ UNCHANGED <<turnVars, running, held, produced, delivered, finished>>

\* process_message: the kernel's transition, whose turn follows.
Transition(w) ==
  /\ Pop(w, MessageKinds)
  /\ LET item == w.item
     IN  /\ IsFrame(item) => StampIsCurrent(item[2])
         /\ delivered' = IF IsFrame(item) THEN [delivered EXCEPT ![item[2]] = item[3]]
                         ELSE delivered
         /\ finished' = IF IsFrame(item) /\ w.terminal THEN finished \cup {item[2]}
                        ELSE finished
         /\ Project(w.target, HeldWith(item))
  /\ Schedule(Without(w), <<>>, now)
  /\ Goto("reconcile")
  /\ UNCHANGED <<running, produced>>

Process(w) ==
  \/ DropSourceEvent(w)
  \/ MapSourceEvent(w)
  \/ DropStaleMessage(w)
  \/ Transition(w)

-----------------------------------------------------------------------------
(***************************************************************************)
(* run_until_idle found nothing due.  advance goes on at the next instant  *)
(* that has work, up to its target; advance_to_next at the next one.       *)
(***************************************************************************)
Later(limit) == {w.deadline : w \in {v \in scheduled : now < v.deadline /\ v.deadline <= limit}}

\* Wrong variant: advance goes straight to its target.
Target(limit) == {limit}

NextInstant(limit) ==
  IF Later(limit) = {} THEN {limit} ELSE {t \in Later(limit) : \A u \in Later(limit) : t <= u}

Idle == pc = "run" /\ Due = {}

IdleFrame ==
  UNCHANGED <<cursor, fault, target, scheduled, next_ticket, turnVars, active, sourceVars,
              workVars, ingress, history>>

\* The call returns a report, or advance_to_next that no future work exists.
Return ==
  /\ Idle
  /\ \/ call = "run"
     \/ call = "advance" /\ now = target
     \/ call = "advance_to_next" /\ Later(MaxTime) = {}
  /\ pc' = "host"
  /\ UNCHANGED <<call, now>>
  /\ IdleFrame

Advance ==
  /\ Idle
  /\ call = "advance" /\ now # target
  /\ now' \in NextInstant(target)
  /\ UNCHANGED <<pc, call>>
  /\ IdleFrame

AdvanceToNext ==
  /\ Idle
  /\ call = "advance_to_next" /\ Later(MaxTime) # {}
  /\ now' \in NextInstant(MaxTime)
  /\ call' = "run"
  /\ UNCHANGED pc
  /\ IdleFrame

-----------------------------------------------------------------------------
(***************************************************************************)
(* The host.  Every call but cancel first checks for a fault; calls that   *)
(* are refused for another reason change nothing.                          *)
(***************************************************************************)
Calling == pc = "host" /\ ~fault

HostFrame == UNCHANGED <<cursor, fault, turnVars, active, sourceVars, requests, held, declared>>

Send(c) ==
  /\ Calling
  /\ ingress < HostSends
  /\ ingress' = ingress + 1
  /\ Schedule(scheduled, <<Delivery(<<"ingress", ingress + 1, 0>>, c, FALSE)>>, now)
  /\ HostFrame
  /\ UNCHANGED <<pc, call, target, effects, claimed, history>>

\* Wrong variant: a Source that ended still takes events.
InputToAny(g) == TRUE

TakesInput(g) == g \in running

EnqueueSourceEvent(g, terminal) ==
  /\ TakesInput(g)
  /\ emitted[g] < IF terminal THEN MaxItems + 1 ELSE MaxItems
  /\ emitted' = [emitted EXCEPT ![g] = @ + 1]
  /\ Schedule(scheduled,
              <<Delivery(<<"source", g, emitted[g] + 1>>, KeyOf(g)[1], terminal)>>, now)
  /\ HostFrame
  /\ UNCHANGED <<pc, call, target, effects, claimed, ingress, popped, produced, delivered,
                 finished>>

\* emit_source names the Subscription.
EmitSource(key, terminal) ==
  /\ Calling
  /\ \E g \in Entry(key) : EnqueueSourceEvent(g, terminal)

\* emit_stream and close_stream name a capability only one Source may have.
EmitStream(d, terminal) ==
  /\ Calling
  /\ \E g \in running :
       /\ {h \in running : realized[h][2] = d} = {g}
       /\ EnqueueSourceEvent(g, terminal)

NextEffect(e) ==
  /\ Calling
  /\ e \in effects \ claimed
  /\ claimed' = claimed \cup {e}
  /\ HostFrame
  /\ UNCHANGED <<pc, call, target, queueVars, effects, ingress, history>>

\* complete: the entry goes and its mapper's Message, if any, is scheduled.
Complete(e) ==
  /\ Calling
  /\ e \in claimed
  /\ effects' = effects \ {e} /\ claimed' = claimed \ {e}
  /\ Schedule(scheduled,
              IF Kind(e) = "effect" THEN <<Delivery(e, OwnerOf(e), FALSE)>> ELSE <<>>, now)
  /\ HostFrame
  /\ UNCHANGED <<pc, call, target, ingress, history>>

\* run_until_idle, advance and advance_to_next begin.
Drive ==
  /\ Calling
  /\ pc' = "run"
  /\ \/ call' \in {"run", "advance_to_next"} /\ UNCHANGED target
     \/ /\ call' = "advance"
        /\ target' \in {now + d : d \in Delays} \cap Time
  /\ HostFrame
  /\ UNCHANGED <<queueVars, effects, claimed, ingress, history>>

\* cancel consumes the runtime, faulted or not.
Cancel ==
  /\ pc = "host"
  /\ pc' = "cancelled"
  /\ scheduled' = {} /\ effects' = {} /\ claimed' = {} /\ requests' = {}
  /\ sources' = {} /\ running' = {}
  /\ UNCHANGED <<call, target, cursor, fault, now, next_ticket, turnVars, active,
                 next_generation, realized, held, declared, ingress, history>>

Host ==
  \/ \E c \in Components : Send(c)
  \/ \E key \in Keys, terminal \in BOOLEAN : EmitSource(key, terminal)
  \/ \E d \in Descriptors, terminal \in BOOLEAN : EmitStream(d, terminal)
  \/ \E e \in EffectItem : NextEffect(e)
  \/ \E e \in EffectItem : Complete(e)
  \/ Drive
  \/ Cancel

Core ==
  \/ NextComponent \/ Reconcile \/ Change \/ Applied \/ Issue \/ Interpreted
  \/ \E w \in NextDue : Process(w)
  \/ Return \/ Advance \/ AdvanceToNext

Next == Host \/ Core

Spec == Init /\ [][Next]_vars

\* A call is synchronous: the host's thread does nothing else until it returns.
FairSpec == Spec /\ WF_vars(Core)
==============================================================================
