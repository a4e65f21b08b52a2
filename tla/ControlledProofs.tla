--------------------------- MODULE ControlledProofs ---------------------------
(***************************************************************************)
(* What the controlled runtime promises, for every instance.               *)
(*                                                                         *)
(* First the order of its work.  QueueInv is inductive by itself: each     *)
(* step leaves the clock and the schedule alone, or schedules more, or     *)
(* takes the next work that is due, or moves the clock to an instant no    *)
(* scheduled work precedes.  Then the other parts of ControlledInv, one    *)
(* theorem after the other: types, the position of a call, the list of     *)
(* Sources, what is desired of it, the tokens of Requests, the events of   *)
(* Sources.  At the end, for plans that end last, where the events of a    *)
(* stream wait, and that the runtime implements SourceStream.              *)
(***************************************************************************)
EXTENDS ControlledInvariants, TurnTheorems

\* Work newly scheduled is at its deadline and has a ticket of its own, behind
\* those given before.
LEMMA Scheduling ==
  ASSUME QueueInv,
         NEW left \in SUBSET scheduled,
         NEW deliveries, Len(deliveries) \in Nat, DOMAIN deliveries = 1 .. Len(deliveries),
         \A i \in DOMAIN deliveries : deliveries[i].terminal \in BOOLEAN,
         NEW deadline \in Nat,
         Schedule(left, deliveries, deadline)
  PROVE  /\ now' = now
         /\ next_ticket' \in Nat /\ next_ticket <= next_ticket'
         /\ \A w \in scheduled' :
              \/ w \in left
              \/ /\ w.deadline = deadline /\ w.terminal \in BOOLEAN
                 /\ w.ticket \in Nat /\ next_ticket <= w.ticket /\ w.ticket < next_ticket'
<1>1. next_ticket \in Nat
  BY DEF QueueInv
<1>2. ASSUME NEW i \in DOMAIN deliveries
      PROVE  /\ next_ticket + i - 1 \in Nat /\ next_ticket <= next_ticket + i - 1
             /\ next_ticket + i - 1 < next_ticket + Len(deliveries)
  BY <1>1, <1>2
<1> QED
  BY <1>1, <1>2 DEF Schedule

\* More work at an instant that is not past keeps the invariant.
LEMMA MoreWork ==
  ASSUME QueueInv,
         NEW deliveries, Len(deliveries) \in Nat, DOMAIN deliveries = 1 .. Len(deliveries),
         \A i \in DOMAIN deliveries : deliveries[i].terminal \in BOOLEAN,
         NEW deadline \in Nat, now <= deadline,
         Schedule(scheduled, deliveries, deadline),
         UNCHANGED <<call, target, popped>>
  PROVE  QueueInv'
<1>1. /\ now' = now
      /\ next_ticket' \in Nat /\ next_ticket <= next_ticket'
      /\ \A w \in scheduled' :
           \/ w \in scheduled
           \/ /\ w.deadline = deadline /\ w.terminal \in BOOLEAN
              /\ w.ticket \in Nat /\ next_ticket <= w.ticket /\ w.ticket < next_ticket'
  BY Scheduling
<1>2. ASSUME NEW w \in scheduled'
      PROVE  /\ w.deadline \in Nat /\ w.ticket \in Nat /\ w.terminal \in BOOLEAN
             /\ now <= w.deadline /\ w.ticket < next_ticket'
             /\ w.deadline = popped.deadline => popped.ticket < w.ticket
  BY <1>1, <1>2 DEF QueueInv
<1> QED
  BY <1>1, <1>2 DEF QueueInv

\* A sequence of one delivery.
LEMMA OneDelivery ==
  ASSUME NEW item, NEW component_, NEW terminal \in BOOLEAN
  PROVE  LET deliveries == <<Delivery(item, component_, terminal)>>
         IN  /\ Len(deliveries) \in Nat /\ DOMAIN deliveries = 1 .. Len(deliveries)
             /\ \A i \in DOMAIN deliveries : deliveries[i].terminal \in BOOLEAN
  BY DEF Delivery

\* The work that is done next is due now, and what else is due now comes later.
LEMMA NextIsNow ==
  ASSUME QueueInv, NEW w \in NextDue
  PROVE  /\ w \in scheduled /\ w.deadline = now
         /\ \A other \in scheduled \ {w} : other.deadline = now => w.ticket < other.ticket
<1>1. w \in scheduled /\ w.deadline <= now /\ now <= w.deadline
  BY DEF NextDue, Due, QueueInv
<1>2. now \in Nat /\ w.deadline \in Nat
  BY <1>1 DEF QueueInv
<1>3. w.deadline = now
  BY <1>1, <1>2
<1>4. ASSUME NEW other \in scheduled \ {w}, other.deadline = now
      PROVE  w.ticket < other.ticket
  BY <1>2, <1>3, <1>4 DEF NextDue, Due, Before
<1> QED
  BY <1>1, <1>3, <1>4

\* Taking the next work that is due, and scheduling what comes of it at once.
LEMMA WorkTaken ==
  ASSUME QueueInv, NEW w \in NextDue,
         NEW deliveries, Len(deliveries) \in Nat, DOMAIN deliveries = 1 .. Len(deliveries),
         \A i \in DOMAIN deliveries : deliveries[i].terminal \in BOOLEAN,
         Schedule(Without(w), deliveries, now),
         popped' = [deadline |-> w.deadline, ticket |-> w.ticket],
         UNCHANGED <<call, target>>
  PROVE  QueueInv'
<1>1. /\ w \in scheduled /\ w.deadline = now
      /\ \A other \in scheduled \ {w} : other.deadline = now => w.ticket < other.ticket
  BY NextIsNow
<1>2. /\ now \in Nat /\ next_ticket \in Nat /\ target \in Nat
      /\ w.ticket \in Nat /\ w.ticket < next_ticket
      /\ call = "advance" => now <= target
  BY <1>1 DEF QueueInv
<1>3. /\ now' = now
      /\ next_ticket' \in Nat /\ next_ticket <= next_ticket'
      /\ \A v \in scheduled' :
           \/ v \in Without(w)
           \/ /\ v.deadline = now /\ v.terminal \in BOOLEAN
              /\ v.ticket \in Nat /\ next_ticket <= v.ticket /\ v.ticket < next_ticket'
  BY <1>2, Scheduling DEF Without
<1>4. popped'.deadline = now /\ popped'.ticket = w.ticket
  BY <1>1
<1>5. ASSUME NEW v \in scheduled'
      PROVE  /\ v.deadline \in Nat /\ v.ticket \in Nat /\ v.terminal \in BOOLEAN
             /\ now <= v.deadline /\ v.ticket < next_ticket'
             /\ v.deadline = now => w.ticket < v.ticket
  <2>1. CASE v \in scheduled \ {w}
    BY <1>1, <1>2, <1>3, <2>1 DEF QueueInv
  <2>2. CASE v \notin scheduled \ {w}
    BY <1>2, <1>3, <1>5, <2>2 DEF Without
  <2> QED
    BY <2>1, <2>2
<1>6. w.ticket < next_ticket' /\ now <= now /\ w.ticket \in Int
  BY <1>2, <1>3
<1> QED
  BY <1>2, <1>3, <1>4, <1>5, <1>6 DEF QueueInv

\* The clock goes to an instant that no scheduled work precedes.
LEMMA ClockMoves ==
  ASSUME QueueInv, Due = {},
         NEW limit \in Nat, now <= limit,
         now' \in NextInstant(limit)
  PROVE  /\ now' \in Nat /\ now <= now' /\ now' <= limit
         /\ \A w \in scheduled : now' <= w.deadline
<1>1. now \in Nat /\ \A w \in scheduled : w.deadline \in Nat /\ now < w.deadline
  BY DEF QueueInv, Due
<1>2. CASE Later(limit) = {}
  <2>1. now' = limit
    BY <1>2 DEF NextInstant
  <2>2. ASSUME NEW w \in scheduled
        PROVE  limit <= w.deadline
    BY <1>1, <1>2, <2>2 DEF Later
  <2> QED
    BY <2>1, <2>2
<1>3. CASE Later(limit) # {}
  <2>1. now' \in Later(limit) /\ \A t \in Later(limit) : now' <= t
    BY <1>3 DEF NextInstant
  <2>2. now' \in Nat /\ now < now' /\ now' <= limit
    BY <1>1, <2>1 DEF Later
  <2>3. ASSUME NEW w \in scheduled
        PROVE  now' <= w.deadline
    BY <1>1, <2>1, <2>2, <2>3 DEF Later
  <2> QED
    BY <1>1, <2>2, <2>3
<1> QED
  BY <1>2, <1>3
-----------------------------------------------------------------------------
\* Nothing is scheduled before the first call.
THEOREM QueueInit == Init => QueueInv
  BY DEF Init, Earliest, QueueInv

\* What the plan makes of an event is a sequence to schedule.
LEMMA OutputType ==
  ASSUME NEW raw_terminal \in BOOLEAN, NEW g, NEW output \in Outputs(g, raw_terminal)
  PROVE  Len(output) \in Nat /\ \A i \in 1 .. Len(output) : output[i] \in BOOLEAN
<1>1. PlanOutputs[raw_terminal] \in SUBSET Seq(BOOLEAN)
  BY WorkAssumption, Zenon
<1>2. output \in Seq(BOOLEAN)
  BY <1>1 DEF Outputs
<1> QED
  BY <1>2

\* Every call and every piece of work keeps QueueInv: what is scheduled is never
\* in the past, and comes behind what is scheduled for the same instant.
THEOREM QueueStep ==
  ASSUME QueueInv, [Next]_vars
  PROVE  QueueInv'
<1>0. now \in Nat /\ now <= now
  BY DEF QueueInv
<1>1. CASE UNCHANGED vars
  BY <1>1 DEF vars, scopeVars, queueVars, history, QueueInv
<1>2. CASE NextComponent \/ Reconcile \/ Change \/ Applied \/ Interpreted
  BY <1>2 DEF NextComponent, Reconcile, Change, Activate, Applied, Interpreted, Goto, GotoWithin,
         SetFault, queueVars, history, QueueInv
<1>3. CASE Issue
  <2>1. CASE IssueEffect \/ IssueRefused
    BY <2>1 DEF IssueEffect, IssueRefused, IssueFrame, Goto, SetFault, queueVars, history, QueueInv
  <2>2. CASE IssueSend
    BY <1>0, <2>2, OneDelivery, MoreWork DEF IssueSend, IssueFrame, Goto, history
  <2>3. CASE IssueRequest
    BY <1>0, <2>3, OneDelivery, MoreWork DEF IssueRequest, IssueFrame, Goto, history
  <2>4. CASE IssueReply
    BY <1>0, <2>4, OneDelivery, MoreWork DEF IssueReply, IssueFrame, Goto, SetFault, history,
           queueVars, QueueInv
  <2>5. CASE IssueAfter
    <3>1. UNCHANGED <<call, target, popped>>
      BY <2>5 DEF IssueAfter, IssueFrame, Goto, SetFault, history
    <3>2. PICK delay \in Delays :
            \/ Schedule(scheduled, <<Delivery(NewItem("after"), component, FALSE)>>, now + delay)
            \/ UNCHANGED queueVars
      BY <2>5 DEF IssueAfter
    <3>3. now + delay \in Nat /\ now <= now + delay
      BY <1>0, TimeAssumption
    <3>4. CASE UNCHANGED queueVars
      BY <3>1, <3>4 DEF queueVars, QueueInv
    <3> QED
      BY <3>1, <3>2, <3>3, <3>4, OneDelivery, MoreWork
  <2> QED
    BY <1>3, <2>1, <2>2, <2>3, <2>4, <2>5 DEF Issue
<1>4. ASSUME NEW w \in NextDue, Process(w)
      PROVE  QueueInv'
  <2>1. w.terminal \in BOOLEAN
    BY DEF NextDue, Due, QueueInv
  <2>2. CASE DropSourceEvent(w) \/ DropStaleMessage(w)
    <3>1. /\ Schedule(Without(w), <<>>, now)
          /\ popped' = [deadline |-> w.deadline, ticket |-> w.ticket]
          /\ UNCHANGED <<call, target>>
      BY <2>2 DEF DropSourceEvent, DropStaleMessage, Pop, Goto
    <3> QED
      BY <3>1, WorkTaken
  <2>3. CASE Transition(w)
    <3>1. /\ Schedule(Without(w), <<>>, now)
          /\ popped' = [deadline |-> w.deadline, ticket |-> w.ticket]
          /\ UNCHANGED <<call, target>>
      BY <2>3 DEF Transition, Pop, Goto
    <3> QED
      BY <3>1, WorkTaken
  <2>4. CASE MapSourceEvent(w)
    <3> DEFINE g == w.item[2]
               Frame(output, i) ==
                 Delivery(<<"frame", g, produced[g] + i>>, w.target, output[i])
    <3>1. /\ popped' = [deadline |-> w.deadline, ticket |-> w.ticket]
          /\ UNCHANGED <<call, target>>
      BY <2>4 DEF MapSourceEvent, Pop, Goto
    <3>2. PICK output \in Outputs(g, w.terminal) :
            Schedule(Without(w), [i \in 1 .. Len(output) |-> Frame(output, i)], now)
      BY <2>4 DEF MapSourceEvent
    <3>3. /\ Len(output) \in Nat
          /\ \A i \in 1 .. Len(output) : Frame(output, i).terminal \in BOOLEAN
      BY <2>1, OutputType DEF Delivery
    <3> HIDE DEF Frame
    <3> DEFINE deliveries == [i \in 1 .. Len(output) |-> Frame(output, i)]
    <3>4. /\ Len(deliveries) \in Nat /\ DOMAIN deliveries = 1 .. Len(deliveries)
          /\ \A i \in DOMAIN deliveries : deliveries[i].terminal \in BOOLEAN
      BY <3>3
    <3> HIDE DEF deliveries
    <3>5. Schedule(Without(w), deliveries, now)
      BY <3>2 DEF deliveries
    <3> QED
      BY <3>1, <3>4, <3>5, WorkTaken
  <2> QED
    BY <1>4, <2>2, <2>3, <2>4 DEF Process
<1>5. CASE Return
  BY <1>5 DEF Return, IdleFrame, history, QueueInv
<1>6. CASE Advance
  <2>1. /\ UNCHANGED <<call, target, popped, scheduled, next_ticket>>
        /\ Due = {} /\ call = "advance" /\ now' \in NextInstant(target)
    BY <1>6 DEF Advance, Idle, IdleFrame, history
  <2>2. target \in Nat /\ now <= target
    BY <2>1 DEF QueueInv
  <2>3. /\ now' \in Nat /\ now <= now' /\ now' <= target
        /\ \A w \in scheduled : now' <= w.deadline
    BY <2>1, <2>2, ClockMoves
  <2> QED
    BY <2>1, <2>3 DEF QueueInv
<1>7. CASE AdvanceToNext
  <2>1. /\ UNCHANGED <<target, popped, scheduled, next_ticket>>
        /\ Due = {} /\ call' = "run" /\ now' \in NextInstant(MaxTime)
        /\ Later(MaxTime) # {}
    BY <1>7 DEF AdvanceToNext, Idle, IdleFrame, history
  <2>2. MaxTime \in Nat
    BY TimeAssumption
  <2>3. PICK w \in scheduled : now < w.deadline /\ w.deadline <= MaxTime
    BY <2>1 DEF Later
  <2>4. now <= MaxTime
    BY <2>2, <2>3 DEF QueueInv
  <2>5. /\ now' \in Nat /\ now <= now'
        /\ \A v \in scheduled : now' <= v.deadline
    BY <2>1, <2>2, <2>4, ClockMoves
  <2> QED
    BY <2>1, <2>5 DEF QueueInv
<1>8. CASE Host
  <2>1. ASSUME NEW c \in Components, Send(c)
        PROVE  QueueInv'
    BY <1>0, <2>1, OneDelivery, MoreWork DEF Send, history
  <2>2. ASSUME NEW g, NEW terminal \in BOOLEAN, EnqueueSourceEvent(g, terminal)
        PROVE  QueueInv'
    BY <1>0, <2>2, OneDelivery, MoreWork DEF EnqueueSourceEvent
  <2>3. ASSUME NEW e \in EffectItem, NextEffect(e)
        PROVE  QueueInv'
    BY <2>3 DEF NextEffect, queueVars, history, QueueInv
  <2>4. ASSUME NEW e \in EffectItem, Complete(e)
        PROVE  QueueInv'
    <3>1. UNCHANGED <<call, target, popped>>
      BY <2>4 DEF Complete, history
    <3>2. CASE Kind(e) = "effect"
      BY <1>0, <2>4, <3>1, <3>2, OneDelivery, MoreWork DEF Complete
    <3>3. CASE Kind(e) # "effect"
      BY <1>0, <2>4, <3>1, <3>3, MoreWork DEF Complete
    <3> QED
      BY <3>2, <3>3
  <2>5. CASE Drive
    <3>1. UNCHANGED <<now, scheduled, next_ticket, popped>>
      BY <2>5 DEF Drive, queueVars, history
    <3>2. target' \in Nat /\ (call' = "advance" => now <= target')
      <4>1. CASE call' # "advance"
        BY <2>5, <4>1 DEF Drive, QueueInv
      <4>2. CASE call' = "advance"
        <5>1. PICK d \in Delays : target' = now + d
          BY <2>5, <4>2 DEF Drive
        <5>2. d \in Nat
          BY TimeAssumption
        <5> QED
          BY <1>0, <5>1, <5>2
      <4> QED
        BY <4>1, <4>2
    <3> QED
      BY <3>1, <3>2 DEF QueueInv
  <2>6. CASE Cancel
    BY <2>6 DEF Cancel, history, QueueInv
  <2> QED
    BY <1>8, <2>1, <2>2, <2>3, <2>4, <2>5, <2>6 DEF Host, EmitSource, EmitStream
<1> QED
  BY <1>1, <1>2, <1>3, <1>4, <1>5, <1>6, <1>7, <1>8 DEF Next, Core

-----------------------------------------------------------------------------
\* Nothing scheduled is ever in the past, and work accepted earlier for one
\* instant is done earlier.
THEOREM QueueInvariant == Spec => []QueueInv
<1>1. QueueInv /\ [Next]_vars => QueueInv'
  BY QueueStep
<1> QED
  BY QueueInit, <1>1, PTL DEF Spec

\* Only the work that is next changes the record of what was done last.
LEMMA OnlyPopped ==
  ASSUME [Next]_vars, popped' # popped
  PROVE  \E w \in NextDue : popped' = [deadline |-> w.deadline, ticket |-> w.ticket]
<1>1. ~UNCHANGED vars
  BY DEF vars, history
<1>2. ~Host
  BY DEF Host, Send, EmitSource, EmitStream, EnqueueSourceEvent, NextEffect, Complete, Drive,
         Cancel, history
<1>3. ~(NextComponent \/ Reconcile \/ Change \/ Applied \/ Interpreted)
  BY DEF NextComponent, Reconcile, Change, Applied, Interpreted, history
<1>4. ~Issue
  BY DEF Issue, IssueEffect, IssueSend, IssueRequest, IssueReply, IssueAfter, IssueRefused,
         IssueFrame, history
<1>5. ~(Return \/ Advance \/ AdvanceToNext)
  BY DEF Return, Advance, AdvanceToNext, IdleFrame, history
<1>6. PICK w \in NextDue : Process(w)
  BY <1>1, <1>2, <1>3, <1>4, <1>5 DEF Next, Core
<1> QED
  BY <1>6 DEF Process, DropSourceEvent, MapSourceEvent, DropStaleMessage, Transition, Pop

\* run_until_idle, advance and advance_to_next do every work at the instant it
\* is scheduled for.
THEOREM AtItsInstant == Spec => WorkRunsAtItsInstant
<1>1. QueueInv /\ [Next]_vars => [popped' # popped => popped'.deadline = now]_vars
  BY OnlyPopped, NextIsNow
<1> QED
  BY QueueInvariant, <1>1, PTL DEF Spec, WorkRunsAtItsInstant

\* pop_next_due hands out work by deadline and then in the order accepted.
THEOREM InOrder == Spec => WorkRunsInOrder
<1>1. ASSUME QueueInv, [Next]_vars, popped' # popped
      PROVE  \/ popped.deadline < popped'.deadline
             \/ popped.deadline = popped'.deadline /\ popped.ticket < popped'.ticket
  <2>1. PICK w \in NextDue : popped' = [deadline |-> w.deadline, ticket |-> w.ticket]
    BY <1>1, OnlyPopped
  <2>2. w \in scheduled /\ w.deadline = now
    BY <1>1, NextIsNow
  <2> QED
    BY <1>1, <2>1, <2>2 DEF QueueInv
<1>2. QueueInv /\ [Next]_vars =>
        [popped' # popped =>
           \/ popped.deadline < popped'.deadline
           \/ popped.deadline = popped'.deadline /\ popped.ticket < popped'.ticket]_vars
  BY <1>1
<1> QED
  BY QueueInvariant, <1>2, PTL DEF Spec, WorkRunsInOrder

-----------------------------------------------------------------------------
(***************************************************************************)
(* What Schedule does.                                                     *)
(***************************************************************************)
Accepted(delivery, deadline, ticket) ==
  [deadline |-> deadline, ticket |-> ticket, item |-> delivery.item,
   target |-> delivery.target, terminal |-> delivery.terminal]

\* Work is only taken away.
LEMMA ScheduleNone ==
  ASSUME next_ticket \in Nat, NEW left, NEW deadline, Schedule(left, <<>>, deadline)
  PROVE  scheduled' = left /\ next_ticket' = next_ticket /\ now' = now
BY DEF Schedule

\* One piece of work is accepted.
LEMMA ScheduleOne ==
  ASSUME next_ticket \in Nat, NEW left, NEW deadline, NEW item, NEW component_, NEW terminal,
         Schedule(left, <<Delivery(item, component_, terminal)>>, deadline)
  PROVE  /\ scheduled' = left \cup {Accepted(Delivery(item, component_, terminal), deadline, next_ticket)}
         /\ next_ticket' = next_ticket + 1 /\ now' = now
<1> DEFINE deliveries == <<Delivery(item, component_, terminal)>>
<1>1. DOMAIN deliveries = {1} /\ deliveries[1] = Delivery(item, component_, terminal)
      /\ Len(deliveries) = 1 /\ next_ticket + 1 - 1 = next_ticket
  OBVIOUS
<1> QED
  BY <1>1 DEF Schedule, Accepted

Accepts(item, component_, terminal, deadline) ==
  /\ scheduled' = scheduled \cup
       {Accepted(Delivery(item, component_, terminal), deadline, next_ticket)}
  /\ next_ticket' = next_ticket + 1 /\ now' = now

\* It is of the item that was given.
LEMMA AcceptsOne ==
  ASSUME NEW item, NEW component_, NEW terminal, NEW deadline,
         Accepts(item, component_, terminal, deadline)
  PROVE  \E new : /\ scheduled' = scheduled \cup {new}
                  /\ new.item = item /\ new.deadline = deadline /\ new.ticket = next_ticket
                  /\ new.target = component_ /\ new.terminal = terminal
<1> DEFINE new == Accepted(Delivery(item, component_, terminal), deadline, next_ticket)
<1>1. /\ new.item = item /\ new.deadline = deadline /\ new.ticket = next_ticket
      /\ new.target = component_ /\ new.terminal = terminal
  BY DEF Accepted, Delivery
<1>2. scheduled' = scheduled \cup {new}
  BY DEF Accepts
<1> HIDE DEF new
<1> QED
  BY <1>1, <1>2

\* One more piece of work is accepted.
LEMMA ScheduleMore ==
  ASSUME next_ticket \in Nat, NEW deadline, NEW item, NEW component_, NEW terminal,
         Schedule(scheduled, <<Delivery(item, component_, terminal)>>, deadline)
  PROVE  Accepts(item, component_, terminal, deadline)
BY ScheduleOne DEF Accepts

\* Each of several pieces of work has a ticket of its own, in their order.
LEMMA ScheduleMany ==
  ASSUME next_ticket \in Nat, NEW left, NEW deadline, NEW n \in Nat, NEW deliveries,
         DOMAIN deliveries = 1 .. n, Len(deliveries) = n,
         Schedule(left, deliveries, deadline)
  PROVE  /\ scheduled' =
              left \cup {Accepted(deliveries[i], deadline, next_ticket + i - 1) : i \in 1 .. n}
         /\ next_ticket' = next_ticket + n /\ now' = now
BY DEF Schedule, Accepted

\* What is accepted is typed if it is of a work, for a Component, at a time.
LEMMA AcceptedType ==
  ASSUME NEW item \in Item, NEW component_ \in Components, NEW terminal \in BOOLEAN,
         NEW deadline \in Time, NEW ticket \in Nat
  PROVE  Accepted(Delivery(item, component_, terminal), deadline, ticket) \in ScheduledWork
BY DEF Accepted, Delivery, ScheduledWork

-----------------------------------------------------------------------------
(***************************************************************************)
(* TypeOK                                                                  *)
(***************************************************************************)

\* Where a call is, and the clock.
LEMMA PlaceTyped ==
  ASSUME TypeOK, [Next]_vars
  PROVE  /\ pc' \in {"next_component", "reconcile", "apply", "interpret", "run", "host", "cancelled"}
         /\ call' \in {"new", "run", "advance", "advance_to_next"} /\ target' \in Time
         /\ cursor' \in 1 .. NumComponents + 1 /\ fault' \in BOOLEAN
         /\ now' \in Time
<1>0. NumComponents \in Nat /\ MaxTime \in Nat /\ now \in Nat /\ now \in Time
  BY WorkAssumption, TimeAssumption DEF TypeOK, Time
<1> USE DEF TypeOK, Goto, GotoWithin, SetFault
<1>1. CASE UNCHANGED vars
  BY <1>1 DEF vars, scopeVars, queueVars
<1>2. CASE NextComponent
  BY <1>0, <1>2 DEF NextComponent, queueVars
<1>3. CASE Reconcile \/ Change \/ Applied \/ Interpreted
  BY <1>3 DEF Reconcile, Change, Activate, Applied, Interpreted, queueVars
<1>4. CASE Issue
  BY <1>4 DEF Issue, IssueEffect, IssueSend, IssueRequest, IssueReply, IssueAfter, IssueRefused,
     Schedule, queueVars
<1>5. ASSUME NEW w \in NextDue, Process(w)
      PROVE  pc' \in {"run", "reconcile"} /\ UNCHANGED <<call, target, cursor, fault, now>>
  BY <1>5 DEF Process, DropSourceEvent, MapSourceEvent, DropStaleMessage, Transition, Schedule
<1>6. CASE Return
  BY <1>6 DEF Return, IdleFrame
<1>7. CASE Advance \/ AdvanceToNext
  <2>1. MaxTime \in Time /\ \A limit : Later(limit) \subseteq Time
    BY <1>0 DEF Later, Time, ScheduledWork
  <2>2. now' \in Time
    BY <1>7, <2>1 DEF Advance, AdvanceToNext, NextInstant
  <2> QED
    BY <1>7, <2>2 DEF Advance, AdvanceToNext, Idle, IdleFrame
<1>8. CASE Host
  <2>1. CASE Drive
    BY <2>1 DEF Drive, HostFrame, queueVars
  <2>2. CASE Cancel
    BY <2>2 DEF Cancel
  <2>3. CASE Host /\ ~Drive /\ ~Cancel
    BY <2>3 DEF Host, Send, EmitSource, EmitStream, EnqueueSourceEvent, NextEffect, Complete,
       HostFrame, Schedule, queueVars
  <2> QED
    BY <1>8, <2>1, <2>2, <2>3
<1> QED
  BY <1>1, <1>2, <1>3, <1>4, <1>5, <1>6, <1>7, <1>8 DEF Next, Core

\* The turn in hand and the reconcilers.
LEMMA TurnTyped ==
  ASSUME TypeOK, PositionInv, [Next]_vars
  PROVE  TurnTypeOK'
<1>0. TurnTypeOK /\ held \in SUBSET Correlation /\ declared \in Nat
  BY WorkAssumption DEF TypeOK
<1>1. CASE UNCHANGED <<turnVars, active>>
  BY <1>0, <1>1 DEF turnVars, TurnTypeOK
<1>2. CASE NextComponent
  <2>1. CASE Project(cursor, held) /\ UNCHANGED active /\ cursor <= NumComponents
    <3>1. cursor \in Components
      BY <2>1, WorkAssumption DEF TypeOK, Components
    <3> QED
      BY <1>0, <2>1, <3>1, ProjectType DEF TurnTypeOK
  <2> QED
    BY <1>1, <1>2, <2>1, WorkAssumption DEF NextComponent, TypeOK
<1>3. CASE Reconcile
  <2>1. changes' \in SUBSET [kind : ChangeKind, id : Subscriptions]
    <3>1. DOMAIN desired = Subscriptions
      BY <1>0 DEF TurnTypeOK
    <3>2. changes' = changes \/ changes' = Changes(Bookkept(component), desired)
      BY <1>3 DEF Reconcile
    <3> QED
      BY <1>0, <3>1, <3>2, ChangesType DEF TurnTypeOK
  <2>2. BookkeptAfter(component) \in [Keys -> Descriptors \cup {NoDescriptor}]
    BY <1>0 DEF BookkeptAfter, TurnTypeOK, Keys
  <2> QED
    BY <1>0, <1>3, <2>1, <2>2 DEF Reconcile, TurnTypeOK
<1>4. CASE Change
  BY <1>0, <1>4 DEF Change, TurnTypeOK
<1>5. CASE Issue
  <2>1. commands \in Seq(Declaration) /\ commands # <<>> /\ commands' = Tail(commands)
        /\ UNCHANGED <<component, desired, duplicate, changes, active>>
    BY <1>0, <1>5 DEF Issue, IssueEffect, IssueSend, IssueRequest, IssueReply, IssueAfter,
       IssueRefused, IssueFrame, Issuing, TurnTypeOK
  <2> QED
    BY <1>0, <2>1, TailDomain DEF TurnTypeOK
<1>6. ASSUME NEW w \in NextDue, Process(w)
      PROVE  TurnTypeOK'
  <2>1. CASE Transition(w)
    <3>1. w.target \in Components
      BY DEF NextDue, Due, TypeOK, ScheduledWork
    <3>2. HeldWith(w.item) \in SUBSET Correlation
      BY <1>0 DEF HeldWith
    <3>3. Project(w.target, HeldWith(w.item)) /\ UNCHANGED active
      BY <2>1 DEF Transition, Pop
    <3> QED
      BY <1>0, <3>1, <3>2, <3>3, ProjectType DEF TurnTypeOK
  <2> QED
    BY <1>1, <1>6, <2>1 DEF Process, DropSourceEvent, MapSourceEvent, DropStaleMessage, Pop
<1>7. CASE \/ Applied \/ Interpreted \/ Return \/ Advance \/ AdvanceToNext \/ Host
           \/ UNCHANGED vars
  BY <1>1, <1>7 DEF Applied, Interpreted, Return, Advance, AdvanceToNext, IdleFrame, Host, Send,
     EmitSource, EmitStream, EnqueueSourceEvent, NextEffect, Complete, Drive, Cancel, HostFrame, vars
<1> QED
  BY <1>1, <1>2, <1>3, <1>4, <1>5, <1>6, <1>7 DEF Next, Core

\* interpret_command is at a declaration of the Component whose turn it is, and
\* there is a number left for it.
LEMMA IssueType ==
  ASSUME TypeOK, PositionInv, Issue
  PROVE  /\ declared + 1 \in Declared /\ component \in Components
         /\ Head(commands) \in Declaration /\ Len(Tail(commands)) = Len(commands) - 1
         /\ Len(commands) \in Nat /\ declared \in Nat
         /\ pc = "interpret" /\ commands \in Seq(Declaration) /\ commands # <<>>
         /\ commands' = Tail(commands) /\ declared' = declared + 1
<1>1. /\ pc = "interpret" /\ commands # <<>>
      /\ commands' = Tail(commands) /\ declared' = declared + 1
  BY DEF Issue, IssueEffect, IssueSend, IssueRequest, IssueReply, IssueAfter, IssueRefused,
     IssueFrame, Issuing
<1>2. /\ commands \in Seq(Declaration) /\ component \in Components
      /\ declared + Len(commands) <= MaxDeclarations /\ declared \in Nat
  BY <1>1, WorkAssumption DEF TypeOK, TurnTypeOK, PositionInv, Turning
<1>3. Len(commands) \in Nat \ {0}
  BY <1>1, <1>2
<1>4. declared + 1 \in Declared
  BY <1>2, <1>3, WorkAssumption DEF Declared
<1> QED
  BY <1>1, <1>2, <1>3, <1>4

\* What a declaration is issued as.
LEMMA NewItemType ==
  ASSUME TypeOK, PositionInv, Issue
  PROVE  /\ \A kind \in {"effect", "discard", "send", "request", "reply", "after"} :
              NewItem(kind) \in Item
         /\ \A kind \in {"effect", "discard"} : NewItem(kind) \in EffectItem
         /\ NewItem("request") \in {"request"} \X Declared \X Components
         /\ NewItem("request") \in Correlation
BY IssueType DEF NewItem, EffectItem, Correlation, Item, DeclaredItem

\* The events a plan made fit the numbers left for its Source.
LEMMA OutputFits ==
  ASSUME NEW raw_terminal \in BOOLEAN, NEW g, produced[g] \in Nat,
         NEW output \in Outputs(g, raw_terminal)
  PROVE  /\ output \in PlanOutputs[raw_terminal] /\ Len(output) \in Nat
         /\ output \in Seq(BOOLEAN) /\ DOMAIN output = 1 .. Len(output)
         /\ \A i \in 1 .. Len(output) :
              output[i] \in BOOLEAN /\ produced[g] + i \in 1 .. MaxFrames
<1>1. PlanOutputs[raw_terminal] \in SUBSET Seq(BOOLEAN)
  BY WorkAssumption, Zenon
<1>2. output \in Seq(BOOLEAN) /\ produced[g] + Len(output) <= MaxFrames
      /\ output \in PlanOutputs[raw_terminal]
  BY <1>1 DEF Outputs
<1>3. MaxFrames \in Nat
  BY WorkAssumption
<1> QED
  BY <1>2, <1>3

\* process_source_event schedules a Message of each event its plan made.
LEMMA MapSchedules ==
  ASSUME TypeOK, NEW w \in NextDue, MapSourceEvent(w)
  PROVE  LET g == w.item[2]
             Frame(output, i) == Delivery(<<"frame", g, produced[g] + i>>, w.target, output[i])
         IN  /\ w \in scheduled /\ w.deadline <= now /\ w \in ScheduledWork
             /\ g \in Generations /\ produced[g] \in Nat /\ SourceEventRelevant(g)
             /\ \E output \in Outputs(g, w.terminal) :
                  /\ running' = IF EndsSource(w.terminal, output) THEN running \ {g} ELSE running
                  /\ produced' = [produced EXCEPT ![g] = @ + Len(output)]
                  /\ scheduled' = Without(w) \cup
                       {Accepted(Frame(output, i), now, next_ticket + i - 1) : i \in 1 .. Len(output)}
                  /\ next_ticket' = next_ticket + Len(output) /\ now' = now
<1> DEFINE g == w.item[2]
           Frame(output, i) == Delivery(<<"frame", g, produced[g] + i>>, w.target, output[i])
<1>1. w \in scheduled /\ w.deadline <= now /\ w \in ScheduledWork /\ w.item \in Item
      /\ w.terminal \in BOOLEAN
  BY DEF NextDue, Due, TypeOK, ScheduledWork
<1>2. w.item[1] = "source"
  BY DEF MapSourceEvent, Pop, Kind
<1>3. g \in Generations
  BY <1>1, <1>2 DEF Item, SourceItem, DeclaredItem, FrameItem, HostItem
<1>4. produced[g] \in Nat /\ next_ticket \in Nat
  BY <1>3 DEF TypeOK
<1>5. PICK output \in Outputs(g, w.terminal) :
         /\ running' = IF EndsSource(w.terminal, output) THEN running \ {g} ELSE running
         /\ produced' = [produced EXCEPT ![g] = @ + Len(output)]
         /\ Schedule(Without(w), [i \in 1 .. Len(output) |-> Frame(output, i)], now)
  BY DEF MapSourceEvent
<1>6. Len(output) \in Nat
  BY <1>1, <1>4, OutputFits
<1> HIDE DEF Frame
<1> DEFINE deliveries == [i \in 1 .. Len(output) |-> Frame(output, i)]
<1>7. DOMAIN deliveries = 1 .. Len(output) /\ Len(deliveries) = Len(output)
      /\ \A i \in 1 .. Len(output) : deliveries[i] = Frame(output, i)
  BY <1>6
<1> HIDE DEF deliveries
<1>8. Schedule(Without(w), deliveries, now)
  BY <1>5 DEF deliveries
<1>9. /\ scheduled' = Without(w) \cup
           {Accepted(deliveries[i], now, next_ticket + i - 1) : i \in 1 .. Len(output)}
      /\ next_ticket' = next_ticket + Len(output) /\ now' = now
  BY <1>4, <1>6, <1>7, <1>8, ScheduleMany
<1>10. {Accepted(deliveries[i], now, next_ticket + i - 1) : i \in 1 .. Len(output)}
         = {Accepted(Frame(output, i), now, next_ticket + i - 1) : i \in 1 .. Len(output)}
  BY <1>7
<1>11. SourceEventRelevant(g)
  BY DEF MapSourceEvent
<1> USE DEF Frame
<1> QED
  BY <1>1, <1>3, <1>4, <1>5, <1>9, <1>10, <1>11

\* What interpret_command schedules, if anything: one delivery to a Component.
LEMMA IssueSchedules ==
  ASSUME TypeOK, PositionInv, Issue
  PROVE  \/ scheduled' = scheduled /\ next_ticket' = next_ticket /\ now' = now
         \/ \E item \in Item, target_ \in Components, deadline \in Time :
              /\ \/ IssueRequest /\ item = NewItem("request")
                 \/ ~IssueRequest /\ Kind(item) \in {"send", "reply", "after"}
              /\ Accepts(item, target_, FALSE, deadline)
<1>0. next_ticket \in Nat /\ now \in Time /\ now \in Nat
  BY TimeAssumption DEF TypeOK, Time
<1>1. CASE IssueEffect \/ IssueRefused
  BY <1>1 DEF IssueEffect, IssueRefused, queueVars
<1>2. CASE IssueSend
  <2> DEFINE target_ == IF Head(commands).kind = "send" THEN Head(commands).target ELSE Provider
  <2>1. target_ \in Components
    BY <1>2, IssueType, WorkAssumption DEF Declaration, Declarations
  <2>2. Accepts(NewItem("send"), target_, FALSE, now)
    BY <1>0, <1>2, ScheduleMore DEF IssueSend
  <2>3. NewItem("send") \in Item /\ Kind(NewItem("send")) = "send" /\ ~IssueRequest
    BY <1>2, NewItemType DEF NewItem, Kind, IssueSend, IssueRequest, Issuing
  <2> HIDE DEF target_
  <2> QED
    BY <1>0, <2>1, <2>2, <2>3
<1>3. CASE IssueRequest
  <2>1. Accepts(NewItem("request"), Provider, FALSE, now)
    BY <1>0, <1>3, ScheduleMore DEF IssueRequest
  <2>2. NewItem("request") \in Item /\ Provider \in Components
    BY NewItemType, WorkAssumption
  <2> QED
    BY <1>0, <1>3, <2>1, <2>2
<1>4. CASE IssueReply
  <2> DEFINE token == Head(commands).token
  <2>1. CASE token \in requests
    <3>1. OwnerOf(token) \in Components
      BY <2>1 DEF PositionInv, OwnerOf
    <3>2. Accepts(NewItem("reply"), OwnerOf(token), FALSE, now)
      BY <1>0, <1>4, <2>1, ScheduleMore DEF IssueReply
    <3>3. NewItem("reply") \in Item /\ Kind(NewItem("reply")) = "reply" /\ ~IssueRequest
      BY <1>4, NewItemType DEF NewItem, Kind, IssueReply, IssueRequest, Issuing
    <3> QED
      BY <1>0, <3>1, <3>2, <3>3
  <2>2. CASE token \notin requests
    BY <1>4, <2>2 DEF IssueReply, queueVars
  <2> QED
    BY <2>1, <2>2
<1>5. CASE IssueAfter
  <2>1. PICK delay \in Delays :
          \/ /\ now + delay \in Time
             /\ Accepts(NewItem("after"), component, FALSE, now + delay)
          \/ UNCHANGED queueVars
    BY <1>0, <1>5, ScheduleMore DEF IssueAfter, Representable
  <2>2. NewItem("after") \in Item /\ Kind(NewItem("after")) = "after" /\ ~IssueRequest
        /\ component \in Components
    BY <1>5, NewItemType, IssueType DEF NewItem, Kind, IssueAfter, IssueRequest, Issuing
  <2> QED
    BY <2>1, <2>2 DEF queueVars
<1> QED
  BY <1>1, <1>2, <1>3, <1>4, <1>5 DEF Issue

\* What a call of the host schedules, if anything: one delivery, due at once.
LEMMA HostSchedules ==
  ASSUME TypeOK, EntryInv, Host, ~Cancel
  PROVE  \/ scheduled' = scheduled /\ next_ticket' = next_ticket /\ now' = now
         \/ \E item \in Item, target_ \in Components, terminal \in BOOLEAN :
              /\ pc = "host" /\ ~fault /\ UNCHANGED <<pc, call>>
              /\ \/ Kind(item) \in {"ingress", "effect"}
                 \/ Kind(item) = "source" /\ item[2] \in running
              /\ Accepts(item, target_, terminal, now)
<1>0. next_ticket \in Nat /\ now \in Time
  BY DEF TypeOK
<1>1. ASSUME NEW c \in Components, Send(c)
      PROVE  \E item \in Item : /\ Kind(item) = "ingress"
                                /\ Accepts(item, c, FALSE, now)
  <2> DEFINE item == <<"ingress", ingress + 1, 0>>
  <2>1. item \in Item /\ Kind(item) = "ingress"
    BY <1>1, WorkAssumption DEF Send, TypeOK, Item, HostItem, Kind
  <2> QED
    BY <1>0, <1>1, <2>1, ScheduleMore DEF Send
<1>2. ASSUME NEW g \in running, NEW terminal \in BOOLEAN, EnqueueSourceEvent(g, terminal)
      PROVE  \E item \in Item, target_ \in Components :
               /\ Kind(item) = "source" /\ item[2] = g
               /\ Accepts(item, target_, terminal, now)
  <2> DEFINE item == <<"source", g, emitted[g] + 1>>
  <2>1. g \in Generations /\ g \in sources
    BY DEF TypeOK
  <2>2. emitted[g] + 1 \in 1 .. MaxItems + 1
    <3>1. emitted[g] \in Nat /\ MaxItems \in Nat
      BY <2>1, WorkAssumption DEF TypeOK
    <3>2. emitted[g] < MaxItems + 1
      BY <1>2, <3>1 DEF EnqueueSourceEvent
    <3> QED
      BY <3>1, <3>2
  <2>3. item \in Item /\ Kind(item) = "source" /\ item[2] = g
    BY <2>1, <2>2 DEF Item, SourceItem, Kind
  <2>4. KeyOf(g)[1] \in Components
    BY <2>1 DEF EntryInv, KeyOf, Keys
  <2> QED
    BY <1>0, <1>2, <2>3, <2>4, ScheduleMore DEF EnqueueSourceEvent
<1>3. ASSUME NEW e \in EffectItem, Complete(e)
      PROVE  \/ Schedule(scheduled, <<>>, now)
             \/ \E target_ \in Components :
                  /\ e \in Item /\ Kind(e) = "effect"
                  /\ Accepts(e, target_, FALSE, now)
  <2>1. OwnerOf(e) \in Components /\ e \in Item
    BY DEF EffectItem, OwnerOf, Item, DeclaredItem
  <2> QED
    BY <1>0, <1>3, <2>1, ScheduleMore DEF Complete
<1>4. CASE \E c \in Components : Send(c)
  <2>1. pc = "host" /\ ~fault /\ UNCHANGED <<pc, call>>
    BY <1>4 DEF Send, Calling
  <2> QED
    BY <1>1, <1>4, <2>1
<1>5. CASE \/ \E key \in Keys, terminal \in BOOLEAN : EmitSource(key, terminal)
           \/ \E d \in Descriptors, terminal \in BOOLEAN : EmitStream(d, terminal)
  <2>1. PICK g \in running, terminal \in BOOLEAN : EnqueueSourceEvent(g, terminal)
    BY <1>5 DEF EmitSource, EmitStream, EnqueueSourceEvent, TakesInput
  <2>2. pc = "host" /\ ~fault /\ UNCHANGED <<pc, call>>
    BY <1>5 DEF EmitSource, EmitStream, EnqueueSourceEvent, Calling
  <2> QED
    BY <1>2, <2>1, <2>2
<1>6. CASE \E e \in EffectItem : Complete(e)
  <2>1. PICK e \in EffectItem : Complete(e)
    BY <1>6
  <2>2. pc = "host" /\ ~fault /\ UNCHANGED <<pc, call>>
    BY <2>1 DEF Complete, Calling
  <2>3. CASE Schedule(scheduled, <<>>, now)
    BY <1>0, <2>3, ScheduleNone
  <2>4. CASE \E target_ \in Components :
               /\ e \in Item /\ Kind(e) = "effect"
               /\ Accepts(e, target_, FALSE, now)
    BY <2>2, <2>4
  <2> QED
    BY <1>3, <2>1, <2>3, <2>4
<1>7. CASE (\E e \in EffectItem : NextEffect(e)) \/ Drive
  BY <1>7 DEF NextEffect, Drive, queueVars
<1> QED
  BY <1>4, <1>5, <1>6, <1>7 DEF Host

\* What becomes of the schedule as the work that is next is taken from it.
LEMMA ProcessSchedules ==
  ASSUME TypeOK, NEW w \in NextDue, Process(w)
  PROVE  /\ w \in scheduled /\ w \in ScheduledWork /\ w.deadline <= now /\ now' = now
         /\ pc = "run"
         /\ \/ MapSourceEvent(w)
            \/ ~MapSourceEvent(w) /\ scheduled' = scheduled \ {w} /\ next_ticket' = next_ticket
<1>1. w \in scheduled /\ w \in ScheduledWork /\ w.deadline <= now /\ next_ticket \in Nat
  BY DEF NextDue, Due, TypeOK
<1>2. now' = now /\ pc = "run"
  BY DEF Process, DropSourceEvent, MapSourceEvent, DropStaleMessage, Transition, Schedule, Pop
<1>3. CASE ~MapSourceEvent(w)
  <2>1. Schedule(Without(w), <<>>, now)
    BY <1>3 DEF Process, DropSourceEvent, DropStaleMessage, Transition
  <2> QED
    BY <1>1, <1>2, <1>3, <2>1, ScheduleNone DEF Without
<1> QED
  BY <1>1, <1>2, <1>3

\* The schedule.
LEMMA QueueTyped ==
  ASSUME TypeOK, PositionInv, EntryInv, [Next]_vars
  PROVE  scheduled' \subseteq ScheduledWork /\ next_ticket' \in Nat
<1>0. scheduled \subseteq ScheduledWork /\ next_ticket \in Nat /\ now \in Time
  BY DEF TypeOK
<1>1. CASE UNCHANGED queueVars
  BY <1>0, <1>1 DEF queueVars
<1>2. ASSUME NEW item \in Item, NEW target_ \in Components, NEW terminal \in BOOLEAN,
             NEW deadline \in Time, Accepts(item, target_, terminal, deadline)
      PROVE  scheduled' \subseteq ScheduledWork /\ next_ticket' \in Nat
  BY <1>0, <1>2, AcceptedType DEF Accepts
<1>3. CASE Issue
  BY <1>0, <1>2, <1>3, IssueSchedules
<1>4. CASE Cancel
  BY <1>0, <1>4 DEF Cancel
<1>5. CASE Host /\ ~Cancel
  BY <1>0, <1>2, <1>5, HostSchedules
<1>6. ASSUME NEW w \in NextDue, Process(w)
      PROVE  scheduled' \subseteq ScheduledWork /\ next_ticket' \in Nat
  <2>1. CASE ~MapSourceEvent(w)
    BY <1>0, <1>6, <2>1, ProcessSchedules
  <2>2. CASE MapSourceEvent(w)
    <3> DEFINE g == w.item[2]
               Frame(output, i) == Delivery(<<"frame", g, produced[g] + i>>, w.target, output[i])
    <3>1. /\ w \in ScheduledWork /\ g \in Generations /\ produced[g] \in Nat
          /\ \E output \in Outputs(g, w.terminal) :
               /\ scheduled' = Without(w) \cup
                    {Accepted(Frame(output, i), now, next_ticket + i - 1) : i \in 1 .. Len(output)}
               /\ next_ticket' = next_ticket + Len(output)
      BY <2>2, MapSchedules
    <3>2. PICK output \in Outputs(g, w.terminal) :
            /\ scheduled' = Without(w) \cup
                 {Accepted(Frame(output, i), now, next_ticket + i - 1) : i \in 1 .. Len(output)}
            /\ next_ticket' = next_ticket + Len(output)
      BY <3>1
    <3>3. w.terminal \in BOOLEAN /\ w.target \in Components
      BY <3>1 DEF ScheduledWork
    <3>4. Len(output) \in Nat /\ \A i \in 1 .. Len(output) :
            output[i] \in BOOLEAN /\ produced[g] + i \in 1 .. MaxFrames
      BY <3>1, <3>3, OutputFits
    <3>5. ASSUME NEW i \in 1 .. Len(output)
          PROVE  Accepted(Frame(output, i), now, next_ticket + i - 1) \in ScheduledWork
      <4>1. <<"frame", g, produced[g] + i>> \in Item
        BY <3>1, <3>4 DEF Item, FrameItem
      <4>2. next_ticket + i - 1 \in Nat
        BY <1>0, <3>4
      <4> QED
        BY <1>0, <3>3, <3>4, <4>1, <4>2, AcceptedType
    <3> HIDE DEF Frame
    <3>6. {Accepted(Frame(output, i), now, next_ticket + i - 1) : i \in 1 .. Len(output)}
            \subseteq ScheduledWork
      BY <3>5
    <3>7. next_ticket + Len(output) \in Nat
      BY <1>0, <3>4
    <3> QED
      BY <1>0, <3>2, <3>6, <3>7 DEF Without
  <2> QED
    BY <2>1, <2>2
<1>7. CASE Advance \/ AdvanceToNext
  BY <1>0, <1>7 DEF Advance, AdvanceToNext, IdleFrame
<1>8. CASE \/ NextComponent \/ Reconcile \/ Change \/ Applied \/ Interpreted \/ Return
           \/ UNCHANGED vars
  BY <1>0, <1>1, <1>8 DEF NextComponent, Reconcile, Change, Applied, Interpreted, Return, IdleFrame,
     vars
<1> QED
  BY <1>3, <1>4, <1>5, <1>6, <1>7, <1>8 DEF Next, Core

\* The ways one change of apply_subscription_changes can end: the realization
\* is begun, or the entry kept or removed, or the activation is refused.
LEMMA ChangeCases ==
  ASSUME TypeOK, PositionInv, EntryInv, DesiredInv, Change
  PROVE  /\ pc = "apply" /\ ~fault /\ Reconciling /\ component \in Components
         /\ \E change \in changes :
              LET key == <<component, change.id>>
                  S == Removed(change, Entry(key))
                  g == next_generation + 1
              IN  /\ changes' = changes \ {change} /\ Owing(change)
                  /\ key \in Keys /\ S \subseteq {h \in sources : KeyOf(h) = key}
                  /\ \/ /\ change.kind \in {"Start", "Replace"} /\ g \in Generations \ sources
                        /\ next_generation' = g
                        /\ realized' = [realized EXCEPT ![g] = <<key, desired[change.id]>>]
                        /\ sources' = (sources \ S) \cup {g} /\ running' = (running \ S) \cup {g}
                        /\ pc' = "apply" /\ fault' = fault
                     \/ /\ change.kind \in {"Retain", "Cancel"}
                        /\ UNCHANGED <<next_generation, realized>>
                        /\ sources' = sources \ S /\ running' = running \ S
                        /\ pc' = "apply" /\ fault' = fault
                     \/ /\ UNCHANGED <<next_generation, realized>>
                        /\ sources' = sources \ S /\ running' = running \ S
                        /\ pc' = "host" /\ fault'
<1>1. pc = "apply" /\ ~fault /\ Reconciling /\ component \in Components
  BY DEF Change, PositionInv, DesiredInv, Turning, Undisturbed
<1>2. PICK change \in changes :
        LET key == <<component, change.id>>
            S == Removed(change, Entry(key))
        IN  /\ changes' = changes \ {change}
            /\ IF change.kind \in {"Start", "Replace"}
               THEN Activate(key, S)
               ELSE /\ sources' = sources \ S /\ running' = running \ S
                    /\ UNCHANGED <<next_generation, realized>>
                    /\ Goto("apply")
  BY DEF Change
<1> DEFINE key == <<component, change.id>>
           S == Removed(change, Entry(key))
           g == next_generation + 1
<1>3. change.kind \in ChangeKind /\ sources \subseteq Generations /\ next_generation \in Nat
      /\ TurnTypeOK /\ OneEntryEach
  BY WorkAssumption DEF TypeOK, TurnTypeOK, EntryInv
<1>4. Owing(change)
  BY <1>1 DEF Reconciling
<1>5. key \in Keys /\ S \subseteq {h \in sources : KeyOf(h) = key} /\ key[2] = change.id
  BY <1>1, <1>3, <1>4, Replaces
<1>6. g \in Generations => g \notin sources
  BY <1>3 DEF EntryInv
<1>7. CASE change.kind \in {"Start", "Replace"}
  <2>1. Activate(key, S)
    BY <1>2, <1>7
  <2> QED
    BY <1>1, <1>2, <1>4, <1>5, <1>6, <1>7, <2>1 DEF Activate, Goto, SetFault
<1>8. CASE change.kind \in {"Retain", "Cancel"}
  BY <1>1, <1>2, <1>4, <1>5, <1>8 DEF Goto
<1> QED
  BY <1>3, <1>7, <1>8 DEF ChangeKind

\* Sources are realized and removed by the changes of a turn only, and stop
\* running as their last event is made; cancel removes them all.
LEMMA SourcesWritten ==
  ASSUME [Next]_vars, ~Change, ~Cancel
  PROVE  /\ UNCHANGED <<next_generation, realized, sources>>
         /\ running' = running \/ \E w \in NextDue : MapSourceEvent(w)
<1>1. CASE \/ NextComponent \/ Reconcile \/ Applied \/ Interpreted \/ Return \/ Advance
           \/ AdvanceToNext \/ UNCHANGED vars
  BY <1>1 DEF NextComponent, Reconcile, Applied, Interpreted, Return, Advance, AdvanceToNext,
     IdleFrame, sourceVars, vars
<1>2. CASE Issue
  BY <1>2 DEF Issue, IssueEffect, IssueSend, IssueRequest, IssueReply, IssueAfter, IssueRefused,
     IssueFrame, sourceVars
<1>3. ASSUME NEW w \in NextDue, Process(w)
      PROVE  /\ UNCHANGED <<next_generation, realized, sources>>
             /\ running' = running \/ MapSourceEvent(w)
  BY <1>3 DEF Process, DropSourceEvent, MapSourceEvent, DropStaleMessage, Transition, Pop
<1>4. CASE Host
  BY <1>4 DEF Host, Send, EmitSource, EmitStream, EnqueueSourceEvent, NextEffect, Complete, Drive,
     HostFrame, sourceVars
<1> QED
  BY <1>1, <1>2, <1>3, <1>4 DEF Next, Core

\* The Sources.
LEMMA SourcesTyped ==
  ASSUME TypeOK, PositionInv, EntryInv, DesiredInv, [Next]_vars
  PROVE  /\ next_generation' \in 0 .. MaxGenerations
         /\ realized' \in [Generations -> (Keys \cup {NoKey}) \X (Descriptors \cup {NoDescriptor})]
         /\ sources' \subseteq Generations /\ running' \subseteq sources'
<1>0. /\ next_generation \in 0 .. MaxGenerations
      /\ realized \in [Generations -> (Keys \cup {NoKey}) \X (Descriptors \cup {NoDescriptor})]
      /\ sources \subseteq Generations /\ running \subseteq sources
  BY DEF TypeOK
<1>1. CASE Change
  <2>1. PICK change \in changes :
          LET key == <<component, change.id>>
              S == Removed(change, Entry(key))
              g == next_generation + 1
          IN  /\ key \in Keys /\ Owing(change)
              /\ \/ /\ change.kind \in {"Start", "Replace"} /\ g \in Generations
                    /\ next_generation' = g
                    /\ realized' = [realized EXCEPT ![g] = <<key, desired[change.id]>>]
                    /\ sources' = (sources \ S) \cup {g} /\ running' = (running \ S) \cup {g}
                 \/ /\ UNCHANGED <<next_generation, realized>>
                    /\ sources' = sources \ S /\ running' = running \ S
    BY <1>1, ChangeCases
  <2> DEFINE key == <<component, change.id>>
             S == Removed(change, Entry(key))
             g == next_generation + 1
  <2>2. desired[change.id] \in Descriptors \cup {NoDescriptor} /\ key \in Keys
    BY <2>1 DEF TypeOK, TurnTypeOK
  <2>3. g \in Generations => g \in 0 .. MaxGenerations
    BY WorkAssumption DEF Generations
  <2> QED
    BY <1>0, <2>1, <2>2, <2>3
<1>2. CASE Cancel
  BY <1>0, <1>2 DEF Cancel
<1>3. CASE ~Change /\ ~Cancel
  <2>1. running' \subseteq running
    BY <1>3, SourcesWritten DEF MapSourceEvent
  <2> QED
    BY <1>0, <1>3, <2>1, SourcesWritten
<1> QED
  BY <1>1, <1>2, <1>3

\* The effects and Requests, and the bounds of what was declared and sent.
LEMMA WorkTyped ==
  ASSUME TypeOK, PositionInv, [Next]_vars
  PROVE  /\ effects' \subseteq EffectItem /\ claimed' \subseteq effects'
         /\ requests' \subseteq {"request"} \X Declared \X Components /\ requests' \subseteq Correlation
         /\ held' \subseteq Correlation
         /\ declared' \in 0 .. MaxDeclarations /\ ingress' \in 0 .. HostSends
<1>0. /\ effects \subseteq EffectItem /\ claimed \subseteq effects /\ requests \subseteq Correlation
      /\ requests \subseteq {"request"} \X Declared \X Components
      /\ held \subseteq Correlation /\ declared \in 0 .. MaxDeclarations /\ ingress \in 0 .. HostSends
      /\ held \in SUBSET Correlation /\ declared \in Nat
  BY WorkAssumption DEF TypeOK, PositionInv
<1>1. CASE UNCHANGED <<workVars, ingress>>
  BY <1>0, <1>1 DEF workVars
<1>2. CASE NextComponent
  <2>1. CASE Project(cursor, held) /\ cursor <= NumComponents
    <3>1. cursor \in Components
      BY <2>1, WorkAssumption DEF TypeOK, Components
    <3>2. held' \in SUBSET Correlation
      BY <1>0, <2>1, <3>1, ProjectType
    <3> QED
      BY <1>0, <1>2, <3>2 DEF NextComponent
  <2> QED
    BY <1>0, <1>2, <2>1, WorkAssumption DEF NextComponent, TypeOK
<1>3. CASE Issue
  <2>1. UNCHANGED <<claimed, held, ingress>> /\ declared' = declared + 1
    BY <1>3 DEF Issue, IssueEffect, IssueSend, IssueRequest, IssueReply, IssueAfter, IssueRefused,
       IssueFrame, history
  <2>2. declared + 1 \in 0 .. MaxDeclarations
    BY <1>3, IssueType DEF Declared
  <2>3. effects' = effects \/ (IssueEffect /\ effects' = effects \cup {NewItem(Head(commands).kind)})
    BY <1>3 DEF Issue, IssueEffect, IssueSend, IssueRequest, IssueReply, IssueAfter, IssueRefused
  <2>4. effects' \subseteq EffectItem /\ effects \subseteq effects'
    BY <1>0, <1>3, <2>3, NewItemType DEF IssueEffect, Issuing
  <2>5. requests' \subseteq requests \cup {NewItem("request")}
    BY <1>3 DEF Issue, IssueEffect, IssueSend, IssueRequest, IssueReply, IssueAfter, IssueRefused,
       Outstanding
  <2> QED
    BY <1>0, <1>3, <2>1, <2>2, <2>4, <2>5, NewItemType
<1>4. ASSUME NEW w \in NextDue, Transition(w)
      PROVE  held' \subseteq Correlation /\ UNCHANGED <<effects, claimed, requests, declared, ingress>>
  <2>1. w.target \in Components
    BY DEF NextDue, Due, TypeOK, ScheduledWork
  <2>2. HeldWith(w.item) \in SUBSET Correlation
    BY <1>0 DEF HeldWith
  <2>3. Project(w.target, HeldWith(w.item)) /\ UNCHANGED <<effects, claimed, requests, declared, ingress>>
    BY <1>4 DEF Transition, Pop
  <2> QED
    BY <1>0, <2>1, <2>2, <2>3, ProjectType
<1>5. ASSUME NEW w \in NextDue, Process(w), ~Transition(w)
      PROVE  UNCHANGED <<workVars, ingress>>
  BY <1>5 DEF Process, DropSourceEvent, MapSourceEvent, DropStaleMessage, Pop, workVars
<1>6. CASE Host
  <2>1. ASSUME NEW c \in Components, Send(c)
        PROVE  ingress' \in 0 .. HostSends
    BY <1>0, <2>1, WorkAssumption DEF Send
  <2>2. ASSUME NEW c \in Components, Send(c)
        PROVE  UNCHANGED <<effects, claimed, requests, held, declared>>
    BY <2>2 DEF Send, HostFrame
  <2>3. ASSUME NEW e \in EffectItem, NextEffect(e) \/ Complete(e)
        PROVE  /\ effects' \subseteq EffectItem /\ claimed' \subseteq effects'
               /\ UNCHANGED <<requests, held, declared, ingress>>
    BY <1>0, <2>3 DEF NextEffect, Complete, HostFrame
  <2>4. CASE Cancel
    BY <1>0, <2>4 DEF Cancel
  <2>5. CASE \/ \E key \in Keys, terminal \in BOOLEAN : EmitSource(key, terminal)
             \/ \E d \in Descriptors, terminal \in BOOLEAN : EmitStream(d, terminal)
             \/ Drive
    BY <1>1, <2>5 DEF EmitSource, EmitStream, EnqueueSourceEvent, Drive, HostFrame, workVars
  <2> QED
    BY <1>0, <1>6, <2>1, <2>2, <2>3, <2>4, <2>5 DEF Host
<1>7. CASE \/ Reconcile \/ Change \/ Applied \/ Interpreted \/ Return \/ Advance \/ AdvanceToNext
           \/ UNCHANGED vars
  BY <1>1, <1>7 DEF Reconcile, Change, Applied, Interpreted, Return, Advance, AdvanceToNext,
     IdleFrame, vars
<1> QED
  BY <1>0, <1>2, <1>3, <1>4, <1>5, <1>6, <1>7, <1>1 DEF Next, Core

\* The history.
LEMMA HistoryTyped ==
  ASSUME TypeOK, [Next]_vars
  PROVE  /\ emitted' \in [Generations -> Nat] /\ produced' \in [Generations -> Nat]
         /\ delivered' \in [Generations -> Nat] /\ finished' \subseteq Generations
<1>0. /\ emitted \in [Generations -> Nat] /\ produced \in [Generations -> Nat]
      /\ delivered \in [Generations -> Nat] /\ finished \subseteq Generations
  BY DEF TypeOK
<1>1. CASE UNCHANGED deliveryHistory
  BY <1>0, <1>1 DEF deliveryHistory
<1>2. ASSUME NEW w \in NextDue, Process(w)
      PROVE  /\ emitted' \in [Generations -> Nat] /\ produced' \in [Generations -> Nat]
             /\ delivered' \in [Generations -> Nat] /\ finished' \subseteq Generations
  <2>1. CASE MapSourceEvent(w)
    <3> DEFINE g == w.item[2]
    <3>1. g \in Generations /\ w.terminal \in BOOLEAN
          /\ \E output \in Outputs(g, w.terminal) : produced' = [produced EXCEPT ![g] = @ + Len(output)]
      BY <2>1, MapSchedules DEF ScheduledWork
    <3>2. PICK output \in Outputs(g, w.terminal) : produced' = [produced EXCEPT ![g] = @ + Len(output)]
      BY <3>1
    <3>3. Len(output) \in Nat
      BY <3>1, OutputType
    <3>4. produced[g] + Len(output) \in Nat
      BY <1>0, <3>1, <3>3
    <3> QED
      BY <1>0, <2>1, <3>2, <3>4 DEF MapSourceEvent, Pop
  <2>2. CASE Transition(w)
    <3>1. w.item \in Item
      BY DEF NextDue, Due, TypeOK, ScheduledWork
    <3>2. IsFrame(w.item) => w.item[2] \in Generations /\ w.item[3] \in Nat
      BY <3>1, WorkAssumption DEF IsFrame, Kind, Item, FrameItem, DeclaredItem, SourceItem, HostItem
    <3> QED
      BY <1>0, <2>2, <3>2 DEF Transition, Pop
  <2>3. CASE DropSourceEvent(w) \/ DropStaleMessage(w)
    BY <1>0, <2>3 DEF DropSourceEvent, DropStaleMessage, Pop
  <2> QED
    BY <1>2, <2>1, <2>2, <2>3 DEF Process
<1>3. CASE Host
  <2>1. ASSUME NEW g \in running, NEW terminal \in BOOLEAN, EnqueueSourceEvent(g, terminal)
        PROVE  emitted' \in [Generations -> Nat] /\ UNCHANGED <<produced, delivered, finished>>
    BY <1>0, <2>1 DEF EnqueueSourceEvent, TypeOK
  <2>2. CASE \/ \E key \in Keys, terminal \in BOOLEAN : EmitSource(key, terminal)
             \/ \E d \in Descriptors, terminal \in BOOLEAN : EmitStream(d, terminal)
    <3>1. PICK g \in running, terminal \in BOOLEAN : EnqueueSourceEvent(g, terminal)
      BY <2>2 DEF EmitSource, EmitStream, EnqueueSourceEvent, TakesInput
    <3> QED
      BY <1>0, <2>1, <3>1
  <2> QED
    BY <1>1, <1>3, <2>2 DEF Host, Send, NextEffect, Complete, Drive, Cancel, history
<1>4. CASE Issue
  BY <1>1, <1>4 DEF Issue, IssueEffect, IssueSend, IssueRequest, IssueReply, IssueAfter,
     IssueRefused, IssueFrame, history
<1>5. CASE \/ NextComponent \/ Reconcile \/ Change \/ Applied \/ Interpreted \/ Return \/ Advance
           \/ AdvanceToNext \/ UNCHANGED vars
  BY <1>1, <1>5 DEF NextComponent, Reconcile, Change, Applied, Interpreted, Return, Advance,
     AdvanceToNext, IdleFrame, vars, history
<1> QED
  BY <1>2, <1>3, <1>4, <1>5 DEF Next, Core

\* Every step keeps the state typed.
LEMMA TypeStep ==
  ASSUME TypeOK, PositionInv, EntryInv, DesiredInv, [Next]_vars
  PROVE  TypeOK'
BY PlaceTyped, TurnTyped, QueueTyped, SourcesTyped, WorkTyped, HistoryTyped DEF TypeOK

-----------------------------------------------------------------------------
(***************************************************************************)
(* The positions of a call, and the list of Sources.                       *)
(***************************************************************************)

\* A fault and a cancelled runtime stay.
LEMMA StillUndisturbed ==
  ASSUME [Next]_vars, Undisturbed'
  PROVE  Undisturbed
<1>1. CASE UNCHANGED vars
  BY <1>1 DEF vars, scopeVars, Undisturbed
<1>2. CASE NextComponent \/ Reconcile \/ Change \/ Applied \/ Interpreted
  <2>1. pc \in {"next_component", "reconcile", "apply", "interpret"} /\ (UNCHANGED fault \/ fault')
    BY <1>2 DEF NextComponent, Reconcile, Change, Activate, Applied, Interpreted, Goto, GotoWithin,
       SetFault
  <2> QED
    BY <2>1 DEF Undisturbed
<1>3. CASE Issue
  BY <1>3 DEF Issue, IssueEffect, IssueSend, IssueRequest, IssueReply, IssueAfter, IssueRefused,
     Issuing, Goto, SetFault, Undisturbed
<1>4. ASSUME NEW w \in NextDue, Process(w)
      PROVE  Undisturbed
  BY <1>4 DEF Process, DropSourceEvent, MapSourceEvent, DropStaleMessage, Transition, Pop, Goto,
     Undisturbed
<1>5. CASE Return \/ Advance \/ AdvanceToNext
  BY <1>5 DEF Return, Advance, AdvanceToNext, Idle, IdleFrame, Undisturbed
<1>6. CASE Host
  BY <1>6 DEF Host, Send, EmitSource, EmitStream, EnqueueSourceEvent, NextEffect, Complete, Drive,
     Cancel, Calling, HostFrame, Undisturbed
<1> QED
  BY <1>1, <1>2, <1>3, <1>4, <1>5, <1>6 DEF Next, Core

\* Every step knows its locals.
LEMMA PositionStep ==
  ASSUME TypeOK, PositionInv, [Next]_vars
  PROVE  PositionInv'
<1>0. requests' \subseteq {"request"} \X Declared \X Components
  BY WorkTyped
<1>1. CASE UNCHANGED <<pc, call, fault, component, commands, declared>>
  BY <1>0, <1>1 DEF PositionInv, Turning
<1>2. CASE NextComponent
  <2>1. pc = "next_component" /\ ~fault /\ UNCHANGED <<call, fault, declared>> /\ declared \in Nat
    BY <1>2, WorkAssumption DEF NextComponent, Goto, GotoWithin, PositionInv, TypeOK
  <2>2. CASE cursor > NumComponents
    BY <1>0, <1>2, <2>1, <2>2 DEF NextComponent, GotoWithin, PositionInv, Turning, turnVars
  <2>3. CASE ~(cursor > NumComponents)
    <3>1. cursor \in Components /\ Project(cursor, held) /\ pc' = "reconcile"
      BY <1>2, <2>3, WorkAssumption DEF NextComponent, GotoWithin, TypeOK, Components
    <3>2. component' = cursor /\ declared + Len(commands') <= MaxDeclarations
      BY <2>1, <3>1, ProjectType DEF TypeOK
    <3> QED
      BY <1>0, <2>1, <3>1, <3>2 DEF PositionInv, Turning
  <2> QED
    BY <2>2, <2>3
<1>3. CASE Reconcile \/ Change \/ Applied
  <2>1. /\ UNCHANGED <<call, component, commands, declared>> /\ Turning
        /\ \/ UNCHANGED fault /\ Turning'
           \/ fault' /\ pc' = "host"
    BY <1>3 DEF Reconcile, Change, Activate, Applied, Goto, SetFault, turnVars, workVars, Turning
  <2>2. ~fault
    BY <2>1 DEF PositionInv, Turning
  <2>3. pc' # "next_component"
    BY <2>1 DEF Turning
  <2> QED
    BY <1>0, <2>1, <2>2, <2>3 DEF PositionInv, Turning
<1>4. CASE Issue
  <2>1. pc = "interpret" /\ component \in Components /\ ~fault
        /\ declared + Len(commands) <= MaxDeclarations
    BY <1>4, IssueType DEF PositionInv, Turning
  <2>2. /\ UNCHANGED component
        /\ (pc' = "interpret" /\ UNCHANGED fault) \/ (pc' = "host" /\ fault')
    BY <1>4 DEF Issue, IssueEffect, IssueSend, IssueRequest, IssueReply, IssueAfter, IssueRefused,
       IssueFrame, Goto, SetFault
  <2>3. declared' + Len(commands') <= MaxDeclarations
    BY <1>4, <2>1, IssueType, WorkAssumption
  <2> QED
    BY <1>0, <2>1, <2>2, <2>3 DEF PositionInv, Turning
<1>5. CASE Interpreted
  BY <1>0, <1>5 DEF Interpreted, Goto, PositionInv, Turning, turnVars, workVars
<1>6. ASSUME NEW w \in NextDue, Process(w)
      PROVE  PositionInv'
  <2>1. pc = "run" /\ UNCHANGED <<call, fault, declared>> /\ ~fault /\ declared \in Nat
    BY <1>6, WorkAssumption DEF Process, DropSourceEvent, MapSourceEvent, DropStaleMessage,
       Transition, Pop, Goto, PositionInv, TypeOK
  <2>2. CASE Transition(w)
    <3>1. w.target \in Components /\ HeldWith(w.item) \in SUBSET Correlation
      BY DEF NextDue, Due, TypeOK, ScheduledWork, HeldWith
    <3>2. Project(w.target, HeldWith(w.item)) /\ pc' = "reconcile"
      BY <2>2 DEF Transition, Goto
    <3>3. component' = w.target /\ declared + Len(commands') <= MaxDeclarations
      BY <2>1, <3>1, <3>2, ProjectType
    <3> QED
      BY <1>0, <2>1, <3>1, <3>2, <3>3 DEF PositionInv, Turning
  <2>3. CASE ~Transition(w)
    <3>1. UNCHANGED commands /\ pc' = "run"
      BY <1>6, <2>3 DEF Process, DropSourceEvent, MapSourceEvent, DropStaleMessage, Goto, turnVars
    <3> QED
      BY <1>0, <2>1, <3>1 DEF PositionInv, Turning
  <2> QED
    BY <2>2, <2>3
<1>7. CASE Return \/ Advance \/ AdvanceToNext
  BY <1>0, <1>7 DEF Return, Advance, AdvanceToNext, Idle, IdleFrame, PositionInv, Turning, turnVars,
     workVars
<1>8. CASE Drive \/ Cancel
  BY <1>0, <1>8 DEF Drive, Cancel, Calling, HostFrame, PositionInv, Turning, turnVars
<1>9. CASE Host /\ ~Drive /\ ~Cancel
  BY <1>1, <1>9 DEF Host, Send, EmitSource, EmitStream, EnqueueSourceEvent, NextEffect, Complete,
     HostFrame, turnVars
<1>10. CASE UNCHANGED vars
  BY <1>1, <1>10 DEF vars, scopeVars, turnVars, workVars
<1> QED
  BY <1>2, <1>3, <1>4, <1>5, <1>6, <1>7, <1>8, <1>9, <1>10 DEF Next, Core

\* Events are made and delivered of the Sources that are entries only.
LEMMA HistoryOfEntries ==
  ASSUME TypeOK, EntryInv, [Next]_vars, NEW g \in Generations \ sources
  PROVE  /\ produced'[g] = produced[g] /\ delivered'[g] = delivered[g]
         /\ g \in finished' <=> g \in finished
<1>1. CASE UNCHANGED <<produced, delivered, finished>>
  BY <1>1
<1>2. ASSUME NEW w \in NextDue, Process(w)
      PROVE  /\ produced'[g] = produced[g] /\ delivered'[g] = delivered[g]
             /\ g \in finished' <=> g \in finished
  <2>1. CASE MapSourceEvent(w)
    <3>1. w.item[2] \in Generations /\ w.item[2] \in running
      BY <2>1, MapSchedules DEF SourceEventRelevant
    <3>2. w.item[2] # g
      BY <3>1 DEF TypeOK
    <3> QED
      BY <2>1, <3>2 DEF MapSourceEvent, TypeOK
  <2>2. CASE Transition(w)
    <3>1. w.item \in Item
      BY DEF NextDue, Due, TypeOK, ScheduledWork
    <3>2. IsFrame(w.item) => w.item[2] \in Generations
      BY <3>1 DEF IsFrame, Kind, Item, FrameItem, DeclaredItem, SourceItem, HostItem
    <3>3. IsFrame(w.item) => w.item[2] \in sources
      BY <2>2, <3>2, OnlyEntry DEF Transition, EntryInv, TypeOK
    <3> QED
      BY <2>2, <3>3 DEF Transition, TypeOK
  <2>3. CASE DropSourceEvent(w) \/ DropStaleMessage(w)
    BY <1>1, <2>3 DEF DropSourceEvent, DropStaleMessage
  <2> QED
    BY <1>2, <2>1, <2>2, <2>3 DEF Process
<1>3. CASE Host
  BY <1>1, <1>3 DEF Host, Send, EmitSource, EmitStream, EnqueueSourceEvent, NextEffect, Complete,
     Drive, Cancel, history, deliveryHistory
<1>4. CASE Issue
  BY <1>1, <1>4 DEF Issue, IssueEffect, IssueSend, IssueRequest, IssueReply, IssueAfter,
     IssueRefused, IssueFrame, history, deliveryHistory
<1>5. CASE \/ NextComponent \/ Reconcile \/ Change \/ Applied \/ Interpreted \/ Return \/ Advance
           \/ AdvanceToNext \/ UNCHANGED vars
  BY <1>1, <1>5 DEF NextComponent, Reconcile, Change, Applied, Interpreted, Return, Advance,
     AdvanceToNext, IdleFrame, vars, history, deliveryHistory
<1> QED
  BY <1>2, <1>3, <1>4, <1>5 DEF Next, Core

\* The list of Sources keeps one entry of each Subscription.
LEMMA EntryStep ==
  ASSUME TypeOK, PositionInv, EntryInv, DesiredInv, [Next]_vars
  PROVE  EntryInv'
<1>0. /\ OneEntryEach /\ \A g \in sources : realized[g] \in Keys \X Descriptors
      /\ sources \subseteq Generations /\ next_generation \in Nat
      /\ \A g \in Generations : g \in Nat
  BY WorkAssumption DEF EntryInv, TypeOK, Generations
<1>1. /\ next_generation <= next_generation' /\ next_generation' \in Nat
      /\ \A g \in sources' : g \in sources \/ g <= next_generation'
      /\ OneEntryEach' /\ \A g \in sources' : realized'[g] \in Keys \X Descriptors
  <2>1. CASE UNCHANGED realized /\ next_generation' = next_generation /\ sources' \subseteq sources
    BY <1>0, <2>1 DEF OneEntryEach, KeyOf
  <2>2. CASE Change
    <3>1. PICK change \in changes :
            LET key == <<component, change.id>>
                S == Removed(change, Entry(key))
                g == next_generation + 1
            IN  /\ Owing(change)
                /\ \/ /\ change.kind \in {"Start", "Replace"} /\ g \in Generations \ sources
                      /\ next_generation' = g
                      /\ realized' = [realized EXCEPT ![g] = <<key, desired[change.id]>>]
                      /\ sources' = (sources \ S) \cup {g}
                   \/ UNCHANGED <<next_generation, realized>> /\ sources' = sources \ S
      BY <2>2, ChangeCases
    <3> DEFINE key == <<component, change.id>>
               S == Removed(change, Entry(key))
               g == next_generation + 1
    <3>2. CASE UNCHANGED <<next_generation, realized>> /\ sources' = sources \ S
      BY <2>1, <3>2
    <3>3. CASE /\ change.kind \in {"Start", "Replace"} /\ g \in Generations \ sources
               /\ next_generation' = g
               /\ realized' = [realized EXCEPT ![g] = <<key, desired[change.id]>>]
               /\ sources' = (sources \ S) \cup {g}
      <4>1. TurnTypeOK /\ component \in Components
            /\ realized \in [Generations -> (Keys \cup {NoKey}) \X (Descriptors \cup {NoDescriptor})]
        BY <2>2, ChangeCases DEF TypeOK
      <4>2. OneEntryEach' /\ \A h \in sources' : realized'[h] \in Keys \X Descriptors
        BY <1>0, <3>1, <3>3, <4>1, OneEntryStays
      <4> QED
        BY <1>0, <3>3, <4>2
    <3> QED
      BY <3>1, <3>2, <3>3
  <2>3. CASE Cancel
    BY <2>1, <2>3 DEF Cancel
  <2>4. CASE ~Change /\ ~Cancel
    BY <2>1, <2>4, SourcesWritten
  <2> QED
    BY <2>2, <2>3, <2>4
<1>2. ASSUME NEW g \in Generations, next_generation' < g
      PROVE  g \notin sources' \cup finished' /\ produced'[g] = 0 /\ delivered'[g] = 0
  <2>1. next_generation < g /\ g \in Generations \ sources
    BY <1>0, <1>1, <1>2 DEF EntryInv
  <2>2. g \notin finished /\ produced[g] = 0 /\ delivered[g] = 0
    BY <2>1 DEF EntryInv
  <2> QED
    BY <1>0, <1>1, <1>2, <2>1, <2>2, HistoryOfEntries
<1> QED
  BY <1>1, <1>2 DEF EntryInv

-----------------------------------------------------------------------------
(***************************************************************************)
(* The Sources are those desired.                                          *)
(***************************************************************************)

\* What a Component desires is written by its own turn only.
LEMMA DesiredWritten ==
  ASSUME [Next]_vars, ~Change, ~Reconcile, Undisturbed'
  PROVE  /\ pc # "apply" \/ Applied \/ UNCHANGED vars
         /\ pc' = "apply" => UNCHANGED vars
         /\ UNCHANGED active
<1>1. CASE \/ NextComponent \/ Applied \/ Interpreted \/ Return \/ Advance \/ AdvanceToNext
           \/ UNCHANGED vars
  BY <1>1 DEF NextComponent, Applied, Interpreted, Return, Advance, AdvanceToNext, Idle, IdleFrame,
     Goto, GotoWithin, vars, scopeVars
<1>2. CASE Issue
  BY <1>2 DEF Issue, IssueEffect, IssueSend, IssueRequest, IssueReply, IssueAfter, IssueRefused,
     Issuing, IssueFrame, Goto, SetFault
<1>3. ASSUME NEW w \in NextDue, Process(w)
      PROVE  pc = "run" /\ pc' # "apply" /\ UNCHANGED active
  BY <1>3 DEF Process, DropSourceEvent, MapSourceEvent, DropStaleMessage, Transition, Pop, Goto
<1>4. CASE Host
  BY <1>4 DEF Host, Send, EmitSource, EmitStream, EnqueueSourceEvent, NextEffect, Complete, Drive,
     Cancel, Calling, HostFrame
<1> QED
  BY <1>1, <1>2, <1>3, <1>4 DEF Next, Core

\* Each change brings the list of Sources nearer to what is desired.
LEMMA DesiredStep ==
  ASSUME TypeOK, PositionInv, EntryInv, DesiredInv, [Next]_vars
  PROVE  DesiredInv'
<1> SUFFICES ASSUME Undisturbed'
             PROVE  IF pc' = "apply" THEN Reconciling' ELSE Reconciled'
  BY DEF DesiredInv
<1>0. /\ Undisturbed /\ ~fault
      /\ pc = "apply" => Reconciling
      /\ pc # "apply" => Reconciled
  BY StillUndisturbed DEF DesiredInv, Undisturbed
<1>1. CASE Change
  <2>1. pc' = "apply" \/ fault'
    BY <1>1, ChangeCases
  <2>2. pc' = "apply" /\ ~fault'
    BY <2>1 DEF Undisturbed
  <2>3. /\ component \in Components /\ TurnTypeOK /\ sources \subseteq Generations /\ OneEntryEach
        /\ realized \in [Generations -> (Keys \cup {NoKey}) \X (Descriptors \cup {NoDescriptor})]
        /\ Reconciling /\ UNCHANGED <<component, desired, active>>
    BY <1>1, ChangeCases DEF TypeOK, EntryInv, Change
  <2>4. PICK change \in changes :
          LET key == <<component, change.id>>
              S == Removed(change, Entry(key))
              g == next_generation + 1
          IN  /\ changes' = changes \ {change}
              /\ \/ /\ change.kind \in {"Start", "Replace"} /\ g \in Generations \ sources
                    /\ realized' = [realized EXCEPT ![g] = <<key, desired[change.id]>>]
                    /\ sources' = (sources \ S) \cup {g}
                 \/ /\ change.kind \in {"Retain", "Cancel"}
                    /\ UNCHANGED realized /\ sources' = sources \ S
    BY <1>1, <2>2, ChangeCases
  <2> DEFINE key == <<component, change.id>>
             S == Removed(change, Entry(key))
             g == next_generation + 1
  <2>5. Applies(change, key, S, g)
    BY <2>3, <2>4 DEF Applies
  <2> HIDE DEF key, S, g
  <2>6. Reconciling'
    BY <2>3, <2>4, <2>5, OneChangeLess
  <2> QED
    BY <2>2, <2>6
<1>2. CASE Reconcile
  <2>1. /\ pc = "reconcile" /\ pc' = "apply"
        /\ changes' = Changes(Bookkept(component), desired) /\ active' = BookkeptAfter(component)
        /\ UNCHANGED <<component, desired, sources, realized>>
    BY <1>2 DEF Reconcile, SetFault, Goto, Undisturbed, sourceVars
  <2>2. TurnTypeOK /\ component \in Components
    BY <2>1 DEF TypeOK, PositionInv, Turning
  <2> QED
    BY <1>0, <2>1, <2>2, Decides
<1>3. CASE ~Change /\ ~Reconcile
  <2>1. ~Cancel
    BY DEF Undisturbed, Cancel
  <2>2. UNCHANGED <<realized, sources, active>>
    BY <1>3, <2>1, SourcesWritten, DesiredWritten
  <2>3. CASE UNCHANGED vars
    <3>1. UNCHANGED <<pc, component, changes, desired>>
      BY <2>3 DEF vars, scopeVars, turnVars
    <3>2. \A k : Matched(k)' <=> Matched(k)
      BY <2>2 DEF Matched, KeyOf
    <3>3. \A change : Owing(change)' <=> Owing(change)
      BY <2>2, <3>1, <3>2 DEF Owing, KeyOf
    <3> QED
      BY <1>0, <3>1, <3>2, <3>3 DEF Reconciled, Reconciling
  <2>4. CASE ~UNCHANGED vars
    <3>1. Reconciled
      BY <1>0, <1>3, <2>4, DesiredWritten DEF Applied, Reconciling, Reconciled
    <3>2. pc' # "apply"
      BY <1>3, <2>4, DesiredWritten
    <3> QED
      BY <2>2, <3>1, <3>2 DEF Reconciled, Matched, KeyOf
  <2> QED
    BY <2>3, <2>4
<1> QED
  BY <1>1, <1>2, <1>3

-----------------------------------------------------------------------------
(***************************************************************************)
(* Where the tokens of Requests are.                                       *)
(***************************************************************************)

\* Work that is not a Request's Message carries no token.
CarriesNothing(item) == item \notin Correlation

LEMMA OtherKinds ==
  /\ \A item : Kind(item) \in {"source", "frame", "ingress", "effect", "send", "reply", "after"} =>
       CarriesNothing(item)
  /\ \A g, n : CarriesNothing(<<"frame", g, n>>)
  /\ NoItem \notin Correlation
BY DEF CarriesNothing, Correlation, Kind, NoItem

\* Nothing happens to the tokens.
LEMMA TokensStay ==
  ASSUME TokenInv, Undisturbed, UNCHANGED <<commands, held, requests, declared>>,
         {v \in scheduled' : v.item \in Correlation} = {v \in scheduled : v.item \in Correlation}
  PROVE  TokenInv'
<1> DEFINE Carrying == {v \in scheduled : v.item \in Correlation}
<1>1. Carried' = Carried
  BY DEF Carried
<1>2. /\ TokensOnce' /\ HeldOrReplying' = HeldOrReplying
  BY DEF TokenInv, TokensOnce, Replying, HeldOrReplying
<1>3. /\ requests' = HeldOrReplying' \cup Carried' /\ HeldOrReplying' \cap Carried' = {}
      /\ \A token \in requests' : token[2] <= declared'
  BY <1>1, <1>2 DEF TokenInv
<1>4. \A v, w \in scheduled' : v.item \in Correlation /\ v.item = w.item => v = w
  <2>1. \A v, w \in Carrying : v.item = w.item => v = w
    BY DEF TokenInv
  <2>2. \A v \in scheduled' : v.item \in Correlation => v \in Carrying
    OBVIOUS
  <2> QED
    BY <2>1, <2>2
<1> QED
  BY <1>2, <1>3, <1>4 DEF TokenInv

\* A declaration is interpreted.
LEMMA TokenIssue ==
  ASSUME TypeOK, PositionInv, TokenInv, Undisturbed, Undisturbed', Issue
  PROVE  TokenInv'
<1> DEFINE token == Head(commands).token
<1>0. /\ commands \in Seq(Declaration) /\ commands # <<>> /\ commands' = Tail(commands)
      /\ Head(commands) \in Declaration /\ declared' = declared + 1 /\ declared \in Nat
      /\ next_ticket \in Nat /\ now \in Nat
      /\ requests \subseteq {"request"} \X Declared \X Components
  BY IssueType, TimeAssumption DEF TypeOK, PositionInv, Time
<1>1. held' = held /\ ~fault'
  BY DEF Issue, IssueEffect, IssueSend, IssueRequest, IssueReply, IssueAfter, IssueRefused,
     IssueFrame, Undisturbed
<1>2. /\ TokensOnce /\ requests = HeldOrReplying \cup Carried /\ HeldOrReplying \cap Carried = {}
      /\ \A v, w \in scheduled : v.item \in Correlation /\ v.item = w.item => v = w
      /\ \A c \in requests : c[2] <= declared
  BY DEF TokenInv
<1>3. /\ TokensOnce' /\ Replying' = Replying \ {token}
      /\ token # NoItem => token \in Replying /\ token \notin HeldOrReplying'
  BY <1>0, <1>1, <1>2, IssueTokens
<1>4. HeldOrReplying' = HeldOrReplying \ {token}
  <2>1. NoItem \notin HeldOrReplying
    BY OtherKinds DEF HeldOrReplying, Replying, Tokens, TypeOK
  <2>2. CASE token = NoItem
    BY <1>1, <1>3, <2>1, <2>2 DEF HeldOrReplying
  <2>3. CASE token # NoItem
    BY <1>1, <1>3, <2>3 DEF HeldOrReplying
  <2> QED
    BY <2>2, <2>3
<1>5. \A c \in requests : c[2] \in Nat /\ c[2] <= declared'
  <2>1. \A c \in requests : c[2] \in Nat
    BY <1>0, WorkAssumption DEF Declared
  <2> QED
    BY <1>0, <1>2, <2>1
<1>6. CASE IssueRequest
  <2> DEFINE c == NewItem("request")
  <2>1. /\ requests' = requests \cup {c} /\ token = NoItem
        /\ Schedule(scheduled, <<Delivery(c, Provider, FALSE)>>, now)
    BY <1>0, <1>6 DEF IssueRequest, Outstanding, Issuing, Declaration, Declarations
  <2>2. c \in Correlation /\ c[2] = declared + 1
    BY NewItemType DEF NewItem
  <2>3. c \notin requests
    BY <1>0, <1>2, <1>5, <2>2
  <2>4. PICK new : scheduled' = scheduled \cup {new} /\ new.item = c
    <3>1. Accepts(c, Provider, FALSE, now)
      BY <1>0, <2>1, ScheduleMore
    <3> HIDE DEF c
    <3> QED
      BY <3>1, AcceptsOne
  <2> HIDE DEF c
  <2>5. Carried' = Carried \cup {c}
    BY <2>2, <2>4 DEF Carried
  <2>6. HeldOrReplying' = HeldOrReplying
    BY <1>4, <2>1, OtherKinds DEF HeldOrReplying, Replying, Tokens, TypeOK
  <2>7. \A v, w \in scheduled' : v.item \in Correlation /\ v.item = w.item => v = w
    <3>1. \A v \in scheduled : v.item # c
      BY <1>2, <2>2, <2>3 DEF Carried
    <3> QED
      BY <1>2, <2>4, <3>1
  <2>8. \A d \in requests' : d[2] <= declared'
    BY <1>0, <1>5, <2>1, <2>2
  <2> QED
    BY <1>2, <1>3, <2>1, <2>3, <2>5, <2>6, <2>7, <2>8 DEF TokenInv
<1>7. CASE ~IssueRequest
  <2>1. {v \in scheduled' : v.item \in Correlation} = {v \in scheduled : v.item \in Correlation}
    <3>1. scheduled' = scheduled \/ \E new : scheduled' = scheduled \cup {new} /\ new.item \notin Correlation
      <4>1. CASE scheduled' = scheduled
        BY <4>1
      <4>2. CASE scheduled' # scheduled
        <5>1. PICK item \in Item, target_ \in Components, deadline \in Time :
                /\ Kind(item) \in {"send", "reply", "after"}
                /\ Accepts(item, target_, FALSE, deadline)
          BY <1>7, <4>2, IssueSchedules
        <5>2. item \notin Correlation
          BY <5>1, OtherKinds DEF CarriesNothing
        <5>3. \E new : scheduled' = scheduled \cup {new} /\ new.item = item
          BY <5>1, AcceptsOne
        <5> QED
          BY <5>2, <5>3
      <4> QED
        BY <4>1, <4>2
    <3> QED
      BY <3>1
  <2>2. Carried' = Carried
    BY <2>1 DEF Carried
  <2>3. \A v, w \in scheduled' : v.item \in Correlation /\ v.item = w.item => v = w
    <3> DEFINE Carrying == {v \in scheduled : v.item \in Correlation}
    <3>1. \A v \in scheduled' : v.item \in Correlation => v \in Carrying
      BY <2>1
    <3> QED
      BY <1>2, <3>1
  <2>4. requests' = requests \ {token} /\ (token # NoItem => token \in requests)
    <3>1. CASE IssueReply
      <4>1. token # NoItem
        BY <1>0, <3>1, OtherKinds DEF IssueReply, Issuing, Declaration, Declarations
      <4> QED
        BY <1>2, <1>3, <3>1, <4>1 DEF IssueReply, HeldOrReplying
    <3>2. CASE ~IssueReply
      <4>1. requests' = requests
        BY <1>7, <3>2 DEF Issue, IssueEffect, IssueSend, IssueAfter, IssueRefused
      <4>2. token = NoItem
        BY <1>0, <1>7, <3>2 DEF Issue, IssueEffect, IssueSend, IssueAfter, IssueRefused, Issuing,
           Declaration, Declarations
      <4>3. NoItem \notin requests
        BY OtherKinds DEF TypeOK
      <4> QED
        BY <4>1, <4>2, <4>3
    <3> QED
      BY <3>1, <3>2
  <2>5. token \notin Carried
    <3>1. NoItem \notin Carried
      BY OtherKinds DEF Carried
    <3> QED
      BY <1>2, <1>3, <3>1 DEF HeldOrReplying
  <2>6. requests' = HeldOrReplying' \cup Carried' /\ HeldOrReplying' \cap Carried' = {}
    BY <1>2, <1>4, <2>2, <2>4, <2>5
  <2>7. \A d \in requests' : d[2] <= declared'
    BY <1>5, <2>4
  <2> QED
    BY <1>3, <2>3, <2>6, <2>7 DEF TokenInv
<1> QED
  BY <1>6, <1>7

\* The work that is next is taken: a Request's Message gives its token to the
\* provider.
LEMMA TokenProcess ==
  ASSUME TypeOK, PositionInv, TokenInv, Undisturbed, NEW w \in NextDue, Process(w)
  PROVE  TokenInv'
<1> DEFINE Carrying == {v \in scheduled : v.item \in Correlation}
<1>0. /\ w \in scheduled /\ pc = "run" /\ commands = <<>>
      /\ \A v, u \in scheduled : v.item \in Correlation /\ v.item = u.item => v = u
  BY ProcessSchedules DEF PositionInv, Turning, Undisturbed, TokenInv
<1>1. CASE MapSourceEvent(w)
  <2> DEFINE g == w.item[2]
             Frame(output, i) == Delivery(<<"frame", g, produced[g] + i>>, w.target, output[i])
             New(output) == {Accepted(Frame(output, i), now, next_ticket + i - 1) : i \in 1 .. Len(output)}
  <2>1. PICK output \in Outputs(g, w.terminal) : scheduled' = Without(w) \cup New(output)
    BY <1>1, MapSchedules
  <2>2. \A i \in 1 .. Len(output) :
          Accepted(Frame(output, i), now, next_ticket + i - 1).item \notin Correlation
    BY OtherKinds DEF CarriesNothing, Accepted, Delivery
  <2>3. \A v \in New(output) : v.item \notin Correlation
    BY <2>2
  <2>4. w.item \notin Correlation
    BY <1>1, OtherKinds DEF MapSourceEvent, Pop, CarriesNothing
  <2> HIDE DEF New
  <2>5. {v \in scheduled' : v.item \in Correlation} = {v \in scheduled : v.item \in Correlation}
    BY <2>1, <2>3, <2>4 DEF Without
  <2> QED
    BY <1>1, <2>5, TokensStay DEF MapSourceEvent, Pop, turnVars
<1>2. CASE DropSourceEvent(w) \/ DropStaleMessage(w)
  <2>1. w.item \notin Correlation
    BY <1>2, OtherKinds DEF DropSourceEvent, DropStaleMessage, Pop, CarriesNothing
  <2>2. ~MapSourceEvent(w)
    BY <1>2 DEF DropSourceEvent, DropStaleMessage, MapSourceEvent, Pop
  <2>3. {v \in scheduled' : v.item \in Correlation} = {v \in scheduled : v.item \in Correlation}
    BY <2>1, <2>2, ProcessSchedules
  <2> QED
    BY <1>2, <2>3, TokensStay DEF DropSourceEvent, DropStaleMessage, Pop, turnVars
<1>3. CASE Transition(w)
  <2>1. /\ Project(w.target, HeldWith(w.item)) /\ HeldWith(w.item) \in SUBSET Correlation
        /\ UNCHANGED <<requests, declared>> /\ ~MapSourceEvent(w)
    BY <1>3 DEF Transition, MapSourceEvent, Pop, MessageKinds, HeldWith, TypeOK
  <2>2. TokensOnce' /\ HeldOrReplying' = HeldWith(w.item)
    BY <2>1, ProjectTokens
  <2>3. HeldOrReplying = held
    BY <1>0 DEF HeldOrReplying, Replying, Tokens
  <2>4. scheduled' = scheduled \ {w}
    BY <1>3, <2>1, ProcessSchedules
  <2>5. \A v, u \in scheduled' : v.item \in Correlation /\ v.item = u.item => v = u
    BY <1>0, <2>4
  <2>6. requests' = HeldOrReplying' \cup Carried' /\ HeldOrReplying' \cap Carried' = {}
    <3>1. CASE w.item \in Correlation
      <4>1. Carried' = Carried \ {w.item} /\ w.item \in Carried
        BY <1>0, <2>4, <3>1 DEF Carried
      <4> QED
        BY <2>1, <2>2, <2>3, <3>1, <4>1 DEF TokenInv, HeldWith
    <3>2. CASE w.item \notin Correlation
      <4>1. Carried' = Carried
        BY <2>4, <3>2 DEF Carried
      <4> QED
        BY <2>1, <2>2, <2>3, <3>2, <4>1 DEF TokenInv, HeldWith
    <3> QED
      BY <3>1, <3>2
  <2> QED
    BY <2>1, <2>2, <2>5, <2>6 DEF TokenInv
<1> QED
  BY <1>1, <1>2, <1>3 DEF Process

\* The host neither issues nor takes a token.
LEMMA TokenHost ==
  ASSUME TypeOK, EntryInv, TokenInv, Undisturbed, Undisturbed', Host
  PROVE  TokenInv'
<1>0. ~Cancel
  BY DEF Cancel, Undisturbed
<1>1. UNCHANGED <<commands, held, requests, declared>>
  BY <1>0 DEF Host, Send, EmitSource, EmitStream, EnqueueSourceEvent, NextEffect, Complete, Drive,
     HostFrame, turnVars
<1>2. {v \in scheduled' : v.item \in Correlation} = {v \in scheduled : v.item \in Correlation}
  <2>1. CASE scheduled' = scheduled
    BY <2>1
  <2>2. CASE scheduled' # scheduled
    <3>1. PICK item \in Item, target_ \in Components, terminal \in BOOLEAN :
            /\ Kind(item) \in {"ingress", "effect", "source"}
            /\ Accepts(item, target_, terminal, now)
      BY <1>0, <2>2, HostSchedules
    <3>2. item \notin Correlation
      BY <3>1, OtherKinds DEF CarriesNothing
    <3>3. \E new : scheduled' = scheduled \cup {new} /\ new.item = item
      BY <3>1, AcceptsOne
    <3> QED
      BY <3>2, <3>3
  <2> QED
    BY <2>1, <2>2
<1> QED
  BY <1>1, <1>2, TokensStay

\* A token stays in one place, and names a Request that is outstanding.
LEMMA TokenStep ==
  ASSUME TypeOK, PositionInv, EntryInv, TokenInv, [Next]_vars
  PROVE  TokenInv'
<1> SUFFICES ASSUME Undisturbed'
             PROVE  TokenInv'
  BY DEF TokenInv
<1>0. Undisturbed
  BY StillUndisturbed
<1>1. CASE NextComponent /\ cursor <= NumComponents
  <2>1. /\ pc = "next_component" /\ Project(cursor, held) /\ UNCHANGED <<scheduled, requests, declared>>
        /\ held \in SUBSET Correlation
    BY <1>1, WorkAssumption DEF NextComponent, queueVars, TypeOK
  <2>2. HeldOrReplying = held
    BY <1>0, <2>1 DEF HeldOrReplying, Replying, Tokens, PositionInv, Turning, Undisturbed
  <2>3. TokensOnce' /\ HeldOrReplying' = held
    BY <2>1, ProjectTokens
  <2>4. Carried' = Carried
    BY <2>1 DEF Carried
  <2> QED
    BY <1>0, <2>1, <2>2, <2>3, <2>4 DEF TokenInv
<1>2. CASE \/ NextComponent /\ ~(cursor <= NumComponents)
           \/ Reconcile \/ Change \/ Applied \/ Interpreted \/ Return \/ Advance \/ AdvanceToNext
           \/ UNCHANGED vars
  <2>1. UNCHANGED <<commands, held, requests, declared, scheduled>>
    <3>1. CASE NextComponent /\ ~(cursor <= NumComponents)
      <4>1. cursor > NumComponents
        BY <3>1, WorkAssumption DEF TypeOK
      <4> QED
        BY <3>1, <4>1 DEF NextComponent, turnVars, queueVars
    <3> QED
      BY <1>2, <3>1 DEF Reconcile, Change, Applied, Interpreted, Return, Advance, AdvanceToNext,
         IdleFrame, turnVars, workVars, queueVars, vars
  <2> QED
    BY <1>0, <2>1, TokensStay
<1> QED
  BY <1>0, <1>1, <1>2, TokenIssue, TokenProcess, TokenHost DEF Next, Core

-----------------------------------------------------------------------------
(***************************************************************************)
(* The events of Sources, and the whole invariant.                         *)
(***************************************************************************)

\* The call in hand is the first one until the host makes another.
LEMMA CallsFollow ==
  ASSUME PositionInv, [Next]_vars, Undisturbed'
  PROVE  /\ call # "new" => call' # "new"
         /\ pc = "host" => pc' = "host" \/ call' # "new"
         /\ pc' = "host" =>
              \/ pc = "host" /\ UNCHANGED running
              \/ pc = "next_component" /\ UNCHANGED scheduled
              \/ Return
         /\ now' # now => Idle /\ pc' = "run" /\ UNCHANGED scheduled
<1>1. CASE UNCHANGED vars
  BY <1>1 DEF vars, scopeVars, queueVars, sourceVars
<1>2. CASE NextComponent \/ Reconcile \/ Change \/ Applied \/ Interpreted
  <2>1. /\ pc # "host" /\ UNCHANGED <<call, now, scheduled>>
        /\ NextComponent \/ pc' # "host"
    BY <1>2 DEF NextComponent, Reconcile, Change, Activate, Applied, Interpreted, Goto, GotoWithin,
       SetFault, queueVars, Undisturbed
  <2> QED
    BY <2>1 DEF NextComponent
<1>3. CASE Issue
  BY <1>3 DEF Issue, IssueEffect, IssueSend, IssueRequest, IssueReply, IssueAfter, IssueRefused,
     Issuing, Goto, SetFault, Undisturbed, queueVars, Schedule
<1>4. ASSUME NEW w \in NextDue, Process(w)
      PROVE  pc = "run" /\ pc' # "host" /\ UNCHANGED <<call, now>>
  BY <1>4 DEF Process, DropSourceEvent, MapSourceEvent, DropStaleMessage, Transition, Pop, Goto,
     Schedule
<1>5. CASE Return \/ Advance \/ AdvanceToNext
  BY <1>5 DEF Return, Advance, AdvanceToNext, Idle, IdleFrame
<1>6. CASE Host
  <2>1. CASE Drive
    BY <2>1 DEF Drive, HostFrame, queueVars, sourceVars
  <2>2. CASE ~Drive
    <3>1. pc = "host" /\ UNCHANGED <<pc, call, now, running>>
      BY <1>6, <2>2 DEF Host, Send, EmitSource, EmitStream, EnqueueSourceEvent, NextEffect,
         Complete, Cancel, Calling, HostFrame, Schedule, queueVars, sourceVars, Undisturbed
    <3> QED
      BY <3>1
  <2> QED
    BY <2>1, <2>2
<1> QED
  BY <1>1, <1>2, <1>3, <1>4, <1>5, <1>6 DEF Next, Core

\* Only the host schedules the events of Sources.
LEMMA SourceEventsScheduled ==
  ASSUME TypeOK, PositionInv, EntryInv, [Next]_vars, NEW w \in scheduled', Kind(w.item) = "source"
  PROVE  \/ w \in scheduled
         \/ w.deadline = now /\ pc = "host" /\ pc' = "host" /\ w.item[2] \in running
<1>1. CASE UNCHANGED scheduled
  BY <1>1
<1>2. CASE Issue
  <2>1. CASE \E item \in Item, target_ \in Components, deadline \in Time :
               Kind(item) # "source" /\ Accepts(item, target_, FALSE, deadline)
    <3>1. PICK item \in Item, target_ \in Components, deadline \in Time :
            Kind(item) # "source" /\ Accepts(item, target_, FALSE, deadline)
      BY <2>1
    <3>2. \E new : scheduled' = scheduled \cup {new} /\ new.item = item
      BY <3>1, AcceptsOne
    <3> QED
      BY <3>1, <3>2
  <2> QED
    BY <1>1, <1>2, <2>1, IssueSchedules DEF NewItem, Kind
<1>3. ASSUME NEW v \in NextDue, Process(v)
      PROVE  w \in scheduled
  <2>1. CASE MapSourceEvent(v)
    <3> DEFINE g == v.item[2]
               Frame(output, i) == Delivery(<<"frame", g, produced[g] + i>>, v.target, output[i])
               New(output) == {Accepted(Frame(output, i), now, next_ticket + i - 1) : i \in 1 .. Len(output)}
    <3>1. PICK output \in Outputs(g, v.terminal) : scheduled' = Without(v) \cup New(output)
      BY <2>1, MapSchedules
    <3>2. \A i \in 1 .. Len(output) :
            Kind(Accepted(Frame(output, i), now, next_ticket + i - 1).item) = "frame"
      BY DEF Accepted, Delivery, Kind
    <3>3. \A u \in New(output) : Kind(u.item) = "frame"
      BY <3>2
    <3> HIDE DEF New
    <3> QED
      BY <3>1, <3>3 DEF Without
  <2>2. CASE ~MapSourceEvent(v)
    BY <1>3, <2>2, ProcessSchedules
  <2> QED
    BY <2>1, <2>2
<1>4. CASE Host /\ ~Cancel
  <2>1. CASE \E item \in Item, target_ \in Components, terminal \in BOOLEAN :
               /\ pc = "host" /\ pc' = pc
               /\ Kind(item) = "source" => item[2] \in running
               /\ Accepts(item, target_, terminal, now)
    <3>1. PICK item \in Item, target_ \in Components, terminal \in BOOLEAN :
            /\ pc = "host" /\ pc' = pc
            /\ Kind(item) = "source" => item[2] \in running
            /\ Accepts(item, target_, terminal, now)
      BY <2>1
    <3>2. \E new : scheduled' = scheduled \cup {new} /\ new.item = item /\ new.deadline = now
      BY <3>1, AcceptsOne
    <3> QED
      BY <3>1, <3>2
  <2> QED
    BY <1>1, <1>4, <2>1, HostSchedules
<1>5. CASE Cancel
  BY <1>5 DEF Cancel
<1>6. CASE \/ NextComponent \/ Reconcile \/ Change \/ Applied \/ Interpreted \/ Return \/ Advance
           \/ AdvanceToNext \/ UNCHANGED vars
  BY <1>1, <1>6 DEF NextComponent, Reconcile, Change, Applied, Interpreted, Return, Advance,
     AdvanceToNext, IdleFrame, queueVars, vars
<1> QED
  BY <1>2, <1>3, <1>4, <1>5, <1>6 DEF Next, Core

\* A call returns with the events of Sources processed.
LEMMA SourceEventStep ==
  ASSUME TypeOK, QueueInv, PositionInv, EntryInv, SourceEventInv, [Next]_vars
  PROVE  SourceEventInv'
<1> SUFFICES ASSUME Undisturbed', NEW w \in scheduled', Kind(w.item) = "source"
             PROVE  /\ w.deadline <= now'
                    /\ pc' # "host" => call' # "new"
                    /\ pc' = "host" => w.item[2] \in running'
  BY DEF SourceEventInv
<1>0. Undisturbed /\ now \in Nat
  BY StillUndisturbed DEF QueueInv
<1>1. CASE w \in scheduled
  <2>1. /\ w.deadline <= now /\ (pc # "host" => call # "new") /\ (pc = "host" => w.item[2] \in running)
    BY <1>0, <1>1 DEF SourceEventInv
  <2>2. ~Idle
    BY <1>1, <2>1 DEF Idle, Due
  <2>3. now' = now /\ ~Return
    BY <2>2, CallsFollow DEF Return
  <2>4. pc = "next_component" => call = "new"
    BY DEF PositionInv
  <2> QED
    BY <2>1, <2>3, <2>4, CallsFollow
<1>2. CASE w \notin scheduled
  <2>1. w.deadline = now /\ pc = "host" /\ pc' = "host" /\ w.item[2] \in running
    BY <1>2, SourceEventsScheduled
  <2>2. now' = now /\ UNCHANGED running
    BY <1>2, <2>1, CallsFollow DEF Return, Idle
  <2> QED
    BY <1>0, <2>1, <2>2
<1> QED
  BY <1>1, <1>2

-----------------------------------------------------------------------------
\* Before the first call nothing is desired, scheduled or outstanding.
LEMMA ControlledInit ==
  ASSUME Init
  PROVE  ControlledInv
<1>0. /\ 1 \in 1 .. NumComponents + 1 /\ 0 \in Time /\ 0 \in 0 .. MaxGenerations
      /\ 0 \in 0 .. MaxDeclarations /\ 0 \in 0 .. HostSends
  BY WorkAssumption, TimeAssumption DEF Time
<1>1. /\ TurnTypeOK /\ commands = <<>> /\ changes = {} /\ held = {} /\ requests = {}
      /\ sources = {} /\ active = [k \in Keys |-> NoDescriptor]
  BY EmptySeq DEF Init, TurnInit, TurnTypeOK
<1>2. TypeOK
  BY <1>0, <1>1 DEF Init, TurnInit, TypeOK
<1>3. QueueInv /\ PositionInv
  BY <1>1, QueueInit DEF Init, PositionInv, Turning
<1>4. EntryInv
  BY <1>1 DEF Init, TurnInit, EntryInv, OneEntryEach
<1>5. DesiredInv
  BY <1>1 DEF Init, DesiredInv, Reconciled, Matched
<1>6. TokenInv
  <2>1. Replying = {} /\ Carried = {}
    BY <1>1 DEF Init, Replying, Tokens, Carried
  <2> QED
    BY <1>1, <2>1 DEF Init, TokenInv, TokensOnce, HeldOrReplying
<1>7. SourceEventInv
  BY DEF Init, SourceEventInv
<1> QED
  BY <1>2, <1>3, <1>4, <1>5, <1>6, <1>7 DEF ControlledInv

\* Each step of a call and of its host keeps the whole invariant.
LEMMA ControlledStep == ControlledInv /\ [Next]_vars => ControlledInv'
  BY QueueStep, TypeStep, PositionStep, EntryStep, DesiredStep, TokenStep, SourceEventStep
     DEF ControlledInv

\* The controlled runtime keeps its invariant, whatever its Components, its
\* plans and its host do.
THEOREM ControlledInvariant == Spec => []ControlledInv
  BY ControlledInit, ControlledStep, PTL DEF Spec

\* Whatever is scheduled, pending or outstanding names work that was accepted.
THEOREM ControlledTypes == Spec => []TypeOK
<1>1. ControlledInv => TypeOK
  BY DEF ControlledInv
<1> QED
  BY ControlledInvariant, <1>1, PTL

\* Between calls the runtime realizes the Subscriptions its Components desire.
THEOREM DesiredAreRealized == Spec => []SourcesMatchDesired
<1>1. ControlledInv => SourcesMatchDesired
  <2> SUFFICES ASSUME ControlledInv, pc = "host", ~fault, NEW k \in Keys
               PROVE  IF active[k] = NoDescriptor
                      THEN Realizations(k) = {}
                      ELSE \E g \in sources : Realizations(k) = {g} /\ realized[g][2] = active[k]
    BY DEF SourcesMatchDesired
  <2>1. Matched(k) /\ OneEntryEach
    BY DEF ControlledInv, DesiredInv, Undisturbed, Reconciled, EntryInv
  <2>2. CASE active[k] = NoDescriptor
    BY <2>1, <2>2 DEF Matched, Realizations
  <2>3. CASE active[k] # NoDescriptor
    <3>1. PICK g \in sources : realized[g] = <<k, active[k]>>
      BY <2>1, <2>3 DEF Matched
    <3>2. KeyOf(g) = k /\ realized[g][2] = active[k]
      BY <3>1 DEF KeyOf
    <3>3. Realizations(k) = {g}
      BY <2>1, <3>2 DEF Realizations, OneEntryEach
    <3> QED
      BY <2>3, <3>2, <3>3
  <2> QED
    BY <2>2, <2>3
<1> QED
  BY ControlledInvariant, <1>1, PTL

\* A reply never meets a Request that is not outstanding, and none is lost.
THEOREM RepliesMeetRequests == Spec => []RequestsHaveHolders
<1>1. ControlledInv => RequestsHaveHolders
  BY DEF ControlledInv, TokenInv, RequestsHaveHolders, HeldOrReplying, Replying, Carried
<1> QED
  BY ControlledInvariant, <1>1, PTL

\* A host that sees no pending work may conclude that no work is scheduled.
THEOREM NothingPendingIsIdle == Spec => []QuietMeansIdle
<1>1. ControlledInv => QuietMeansIdle
  <2> SUFFICES ASSUME ControlledInv, pc = "host", ~fault, PendingNow = {}, FutureTimers = {},
                      running = {}, NEW w \in scheduled
               PROVE  FALSE
    BY DEF QuietMeansIdle
  <2>1. w.deadline \in Nat /\ now \in Nat
    BY DEF ControlledInv, QueueInv
  <2>2. Kind(w.item) = "source"
    BY <2>1 DEF PendingNow, FutureTimers
  <2> QED
    BY <2>2 DEF ControlledInv, SourceEventInv, Undisturbed
<1> QED
  BY ControlledInvariant, <1>1, PTL

-----------------------------------------------------------------------------
(***************************************************************************)
(* The events made of a stream, for plans that end last.                   *)
(***************************************************************************)

\* The event of a stream names a realization and a number it was made under.
LEMMA FrameTyped ==
  ASSUME TypeOK, NEW w \in scheduled, IsFrame(w.item)
  PROVE  /\ w.item[2] \in Generations /\ w.item[3] \in Nat \ {0} /\ w.ticket \in Nat
         /\ FrameOf(w, w.item[2]) /\ \A g : FrameOf(w, g) => g = w.item[2]
<1>1. w \in ScheduledWork
  BY DEF TypeOK
<1>2. w.item \in Item /\ w.ticket \in Nat
  BY <1>1 DEF ScheduledWork
<1>3. w.item \in FrameItem
  BY <1>2 DEF IsFrame, Kind, Item, FrameItem, DeclaredItem, SourceItem, HostItem
<1>4. w.item[2] \in Generations /\ w.item[3] \in 1 .. MaxFrames
  BY <1>3 DEF FrameItem
<1>5. MaxFrames \in Nat
  BY WorkAssumption
<1> QED
  BY <1>2, <1>4, <1>5 DEF FrameOf, IsFrame

\* What process_source_event schedules is the next events of its stream.
MadeOf(v, g, i, output, receiver) ==
  v = Accepted(Delivery(<<"frame", g, produced[g] + i>>, receiver, output[i]), now, next_ticket + i - 1)

LEMMA MadeFields ==
  ASSUME NEW v, NEW g, NEW i, NEW output, NEW receiver, MadeOf(v, g, i, output, receiver)
  PROVE  /\ FrameOf(v, g) /\ IsFrame(v.item) /\ (\A h : FrameOf(v, h) => h = g)
         /\ v.item[3] = produced[g] + i
         /\ v.terminal = output[i] /\ v.ticket = next_ticket + i - 1 /\ v.deadline = now
BY DEF MadeOf, Accepted, Delivery, FrameOf, IsFrame, Kind

LEMMA MapMakes ==
  ASSUME TypeOK, NEW w \in NextDue, MapSourceEvent(w)
  PROVE  \E g \in running : \E output \in Outputs(g, w.terminal) :
           /\ w.terminal \in BOOLEAN /\ ~IsFrame(w.item) /\ Len(output) \in Nat
           /\ g \in Generations /\ g \in sources /\ produced[g] \in Nat
           /\ running' = IF EndsSource(w.terminal, output) THEN running \ {g} ELSE running
           /\ produced' = [produced EXCEPT ![g] = @ + Len(output)]
           /\ next_ticket' = next_ticket + Len(output) /\ now' = now
           /\ UNCHANGED <<sources, realized, next_generation, delivered, finished>>
           /\ scheduled \ {w} \subseteq scheduled'
           /\ \A v \in scheduled' :
                v \in scheduled \ {w} \/ \E i \in 1 .. Len(output) : MadeOf(v, g, i, output, w.target)
           /\ \A i \in 1 .. Len(output) : \E v \in scheduled' : MadeOf(v, g, i, output, w.target)
<1> DEFINE g == w.item[2]
           Frame(output, i) == Delivery(<<"frame", g, produced[g] + i>>, w.target, output[i])
           New(output) == {Accepted(Frame(output, i), now, next_ticket + i - 1) : i \in 1 .. Len(output)}
<1>1. /\ w \in ScheduledWork /\ g \in Generations /\ produced[g] \in Nat /\ SourceEventRelevant(g)
  BY MapSchedules
<1>2. PICK output \in Outputs(g, w.terminal) :
        /\ running' = IF EndsSource(w.terminal, output) THEN running \ {g} ELSE running
        /\ produced' = [produced EXCEPT ![g] = @ + Len(output)]
        /\ scheduled' = Without(w) \cup New(output)
        /\ next_ticket' = next_ticket + Len(output) /\ now' = now
  BY MapSchedules
<1>3. w.terminal \in BOOLEAN
  BY <1>1 DEF ScheduledWork
<1>4. Len(output) \in Nat
  BY <1>3, OutputType
<1>5. \A v : v \in New(output) <=> \E i \in 1 .. Len(output) : MadeOf(v, g, i, output, w.target)
  BY DEF MadeOf
<1>6. \A i \in 1 .. Len(output) : \E v : MadeOf(v, g, i, output, w.target)
  BY DEF MadeOf
<1>7. g \in running /\ g \in sources
  BY <1>1 DEF SourceEventRelevant, TypeOK
<1>8. ~IsFrame(w.item) /\ UNCHANGED <<sources, realized, next_generation, delivered, finished>>
  BY DEF MapSourceEvent, Pop, IsFrame
<1>9. /\ scheduled \ {w} \subseteq scheduled'
      /\ \A v \in scheduled' :
           v \in scheduled \ {w} \/ \E i \in 1 .. Len(output) : MadeOf(v, g, i, output, w.target)
      /\ \A i \in 1 .. Len(output) : \E v \in scheduled' : MadeOf(v, g, i, output, w.target)
  <2> HIDE DEF New
  <2> QED
    BY <1>2, <1>5, <1>6 DEF Without
<1> HIDE DEF New
<1> QED
  BY <1>1, <1>2, <1>3, <1>4, <1>7, <1>8, <1>9

\* Any other step takes one work away or all, or adds one that is no event of
\* a stream; the clock moves when nothing is due.
LEMMA ScheduleMoves ==
  ASSUME TypeOK, PositionInv, EntryInv, [Next]_vars
  PROVE  \/ \E w \in NextDue : MapSourceEvent(w)
         \/ \E w \in NextDue : Process(w) /\ ~MapSourceEvent(w) /\ scheduled' = scheduled \ {w} /\ now' = now
         \/ /\ ~\E w \in NextDue : Process(w)
            /\ \/ scheduled' = scheduled /\ (now' = now \/ Due = {})
               \/ Cancel
               \/ /\ now' = now
                  /\ \E new : /\ scheduled' = scheduled \cup {new} /\ new.ticket = next_ticket
                              /\ ~IsFrame(new.item)
<1>1. CASE UNCHANGED queueVars
  BY <1>1, ProcessSchedules DEF queueVars
<1>0. ASSUME NEW item, NEW target_, NEW terminal, NEW deadline, ~IsFrame(item), pc # "run",
             Accepts(item, target_, terminal, deadline)
      PROVE  /\ ~\E w \in NextDue : Process(w)
             /\ now' = now
             /\ \E new : /\ scheduled' = scheduled \cup {new} /\ new.ticket = next_ticket
                         /\ ~IsFrame(new.item)
  <2>1. \E new : scheduled' = scheduled \cup {new} /\ new.item = item /\ new.ticket = next_ticket
    BY <1>0, AcceptsOne
  <2>2. now' = now
    BY <1>0 DEF Accepts
  <2> QED
    BY <1>0, <2>1, <2>2, ProcessSchedules
<1>2. CASE Issue
  <2>1. pc # "run"
    BY <1>2, IssueType
  <2>2. \/ UNCHANGED <<scheduled, now>>
        \/ \E item, target_, terminal, deadline :
             ~IsFrame(item) /\ Accepts(item, target_, terminal, deadline)
    BY <1>2, IssueSchedules DEF NewItem, IsFrame, Kind
  <2> QED
    BY <1>0, <2>1, <2>2, ProcessSchedules
<1>3. ASSUME NEW w \in NextDue, Process(w)
      PROVE  MapSourceEvent(w) \/ (~MapSourceEvent(w) /\ scheduled' = scheduled \ {w} /\ now' = now)
  BY <1>3, ProcessSchedules
<1>4. CASE Host /\ ~Cancel
  <2>1. pc # "run"
    BY <1>4 DEF Host, Send, EmitSource, EmitStream, NextEffect, Complete, Drive, Calling
  <2>2. \/ UNCHANGED <<scheduled, now>>
        \/ \E item, target_, terminal, deadline :
             ~IsFrame(item) /\ Accepts(item, target_, terminal, deadline)
    BY <1>4, HostSchedules DEF IsFrame
  <2> QED
    BY <1>0, <2>1, <2>2, ProcessSchedules
<1>5. CASE Cancel
  BY <1>5, ProcessSchedules DEF Cancel
<1>6. CASE Return \/ Advance \/ AdvanceToNext
  <2>1. scheduled' = scheduled /\ Due = {}
    BY <1>6 DEF Return, Advance, AdvanceToNext, Idle, IdleFrame
  <2>2. NextDue = {}
    BY <2>1 DEF NextDue
  <2> QED
    BY <2>1, <2>2
<1>7. CASE \/ NextComponent \/ Reconcile \/ Change \/ Applied \/ Interpreted \/ UNCHANGED vars
  BY <1>1, <1>7 DEF NextComponent, Reconcile, Change, Applied, Interpreted, vars
<1> QED
  BY <1>2, <1>3, <1>4, <1>5, <1>6, <1>7 DEF Next, Core


\* The event that is next of an entry's stream is the one after the last
\* delivered.
LEMMA NextFrame ==
  ASSUME TypeOK, QueueInv, StreamInv, NEW w \in NextDue, NEW g \in sources, FrameOf(w, g)
  PROVE  w.item[3] = delivered[g] + 1 /\ w.item[3] <= produced[g]
<1>1. /\ w \in scheduled /\ w.deadline = now
      /\ \A other \in scheduled \ {w} : other.deadline = now => w.ticket < other.ticket
  BY NextIsNow
<1>2. g \in Generations /\ delivered[g] \in Nat /\ produced[g] \in Nat /\ w.item[3] \in Nat
  BY <1>1, FrameTyped DEF TypeOK, FrameOf, IsFrame
<1>3. delivered[g] < w.item[3] /\ w.item[3] <= produced[g]
  BY <1>1, <1>2 DEF StreamInv, Undelivered, FramesMade
<1>4. ASSUME delivered[g] + 1 < w.item[3]
      PROVE  FALSE
  <2>1. delivered[g] + 1 \in 1 .. produced[g]
    BY <1>2, <1>3, <1>4
  <2>2. PICK v \in scheduled : FrameOf(v, g) /\ v.item[3] = delivered[g] + 1
    BY <1>2, <2>1 DEF StreamInv, Accounted
  <2>3. v \in scheduled \ {w}
    BY <1>2, <1>4, <2>2
  <2>4. v.deadline = now
    <3>1. v.deadline <= now /\ now <= v.deadline /\ v.deadline \in Nat /\ now \in Nat
      BY <2>2 DEF StreamInv, FramesInOrder, FrameOf, IsFrame, QueueInv
    <3> QED
      BY <3>1
  <2>5. w.item[3] < v.item[3]
    BY <1>1, <1>2, <2>2, <2>3, <2>4 DEF StreamInv, FramesInOrder
  <2> QED
    BY <1>2, <1>4, <2>2, <2>5
<1> QED
  BY <1>2, <1>3, <1>4

\* What becomes of the work that is next, when it is no raw event to map: the
\* next event of an entry's stream is delivered, or no stream's.
LEMMA TakenCases ==
  ASSUME TypeOK, QueueInv, EntryInv, StreamInv, NEW w \in NextDue, Process(w), ~MapSourceEvent(w)
  PROVE  /\ UNCHANGED <<sources, running, realized, next_generation, produced>>
         /\ \/ \E g \in sources :
                 /\ FrameOf(w, g) /\ w.item[3] = delivered[g] + 1 /\ w.item[3] <= produced[g]
                 /\ delivered' = [delivered EXCEPT ![g] = @ + 1]
                 /\ finished' = IF w.terminal THEN finished \cup {g} ELSE finished
            \/ /\ UNCHANGED <<delivered, finished>>
               /\ \A g \in sources : ~FrameOf(w, g)
<1>0. w \in scheduled /\ sources \subseteq Generations /\ OneEntryEach
  BY ProcessSchedules DEF TypeOK, EntryInv
<1>1. UNCHANGED <<sources, running, realized, next_generation, produced>>
  BY DEF Process, DropSourceEvent, DropStaleMessage, Transition, Pop
<1>2. CASE Transition(w) /\ IsFrame(w.item)
  <2> DEFINE g == w.item[2]
  <2>1. g \in Generations /\ StampIsCurrent(g) /\ FrameOf(w, g)
    BY <1>0, <1>2, FrameTyped DEF Transition
  <2>2. g \in sources
    BY <1>0, <2>1, OnlyEntry
  <2>3. w.item[3] = delivered[g] + 1 /\ w.item[3] <= produced[g]
    BY <2>1, <2>2, NextFrame
  <2>4. /\ delivered' = [delivered EXCEPT ![g] = @ + 1]
        /\ finished' = IF w.terminal THEN finished \cup {g} ELSE finished
    BY <1>2, <2>3 DEF Transition
  <2> QED
    BY <1>1, <2>1, <2>2, <2>3, <2>4
<1>3. CASE Transition(w) /\ ~IsFrame(w.item)
  BY <1>1, <1>3 DEF Transition, FrameOf, IsFrame
<1>4. CASE DropSourceEvent(w)
  BY <1>1, <1>4 DEF DropSourceEvent, Pop, FrameOf
<1>5. CASE DropStaleMessage(w)
  <2>1. /\ IsFrame(w.item) /\ ~StampIsCurrent(w.item[2]) /\ UNCHANGED <<delivered, finished>>
    BY <1>5 DEF DropStaleMessage, Pop, IsFrame
  <2>2. w.item[2] \notin sources /\ \A g : FrameOf(w, g) => g = w.item[2]
    BY <1>0, <2>1, FrameTyped, OnlyEntry
  <2> QED
    BY <1>1, <2>1, <2>2
<1> QED
  BY <1>2, <1>3, <1>4, <1>5 DEF Process

\* The host and the turns write no history of a stream.
LEMMA HistoryStays ==
  ASSUME [Next]_vars, ~\E w \in NextDue : Process(w)
  PROVE  UNCHANGED <<produced, delivered, finished>>
<1>1. CASE Host
  BY <1>1 DEF Host, Send, EmitSource, EmitStream, EnqueueSourceEvent, NextEffect, Complete,
     Drive, Cancel, history, deliveryHistory
<1>2. CASE Issue
  BY <1>2 DEF Issue, IssueEffect, IssueSend, IssueRequest, IssueReply, IssueAfter, IssueRefused,
     IssueFrame, history, deliveryHistory
<1>3. CASE \/ NextComponent \/ Reconcile \/ Change \/ Applied \/ Interpreted \/ Return \/ Advance
           \/ AdvanceToNext \/ UNCHANGED vars
  BY <1>3 DEF NextComponent, Reconcile, Change, Applied, Interpreted, Return, Advance,
     AdvanceToNext, IdleFrame, vars, history, deliveryHistory
<1> QED
  BY <1>1, <1>2, <1>3 DEF Next, Core

\* The schedule keeps the events of each stream in their order.
LEMMA FramesInOrderStep ==
  ASSUME TypeOK, QueueInv, PositionInv, EntryInv, StreamInv, [Next]_vars
  PROVE  FramesInOrder'
<1>0. /\ \A v \in scheduled : v.ticket \in Nat /\ v.ticket < next_ticket
      /\ next_ticket \in Nat /\ FramesInOrder /\ FramesMade
  BY DEF QueueInv, StreamInv
<1>1. CASE scheduled' \subseteq scheduled /\ now' = now
  BY <1>0, <1>1 DEF FramesInOrder
<1>2. ASSUME NEW w \in NextDue, MapSourceEvent(w)
      PROVE  FramesInOrder'
  <2>1. PICK g \in running : \E output \in Outputs(g, w.terminal) :
          /\ Len(output) \in Nat /\ g \in Generations /\ produced[g] \in Nat /\ now' = now
          /\ \A v \in scheduled' :
               v \in scheduled \ {w} \/ \E i \in 1 .. Len(output) : MadeOf(v, g, i, output, w.target)
    BY <1>2, MapMakes
  <2>2. PICK output \in Outputs(g, w.terminal) :
          /\ Len(output) \in Nat /\ g \in Generations /\ produced[g] \in Nat /\ now' = now
          /\ \A v \in scheduled' :
               v \in scheduled \ {w} \/ \E i \in 1 .. Len(output) : MadeOf(v, g, i, output, w.target)
    BY <2>1
  <2>3. ASSUME NEW v \in scheduled', NEW u \in scheduled'
        PROVE  /\ v.ticket = u.ticket => v = u
               /\ IsFrame(v.item) => v.deadline <= now
               /\ \A h \in Generations :
                    FrameOf(v, h) /\ FrameOf(u, h) /\ v.ticket < u.ticket => v.item[3] < u.item[3]
    <3>1. CASE v \in scheduled /\ u \in scheduled
      BY <1>0, <3>1 DEF FramesInOrder
    <3>2. CASE v \in scheduled /\ u \notin scheduled
      <4>1. PICK i \in 1 .. Len(output) : MadeOf(u, g, i, output, w.target)
        BY <2>2, <3>2
      <4>2. /\ (\A h : FrameOf(u, h) => h = g) /\ u.item[3] = produced[g] + i
            /\ u.ticket = next_ticket + i - 1
        BY <4>1, MadeFields
      <4>3. v.ticket # u.ticket /\ (IsFrame(v.item) => v.deadline <= now)
        BY <1>0, <2>2, <3>2, <4>2 DEF FramesInOrder
      <4>4. ASSUME NEW h \in Generations, FrameOf(v, h), FrameOf(u, h)
            PROVE  v.item[3] < u.item[3]
        <5>1. h = g /\ v.item[3] <= produced[g] /\ v.item[3] \in Nat
          BY <1>0, <3>2, <4>2, <4>4, FrameTyped DEF FramesMade, FrameOf, IsFrame
        <5> QED
          BY <2>2, <4>2, <5>1
      <4> QED
        BY <4>3, <4>4
    <3>3. CASE v \notin scheduled /\ u \in scheduled
      <4>1. PICK i \in 1 .. Len(output) : MadeOf(v, g, i, output, w.target)
        BY <2>2, <3>3
      <4>2. v.ticket = next_ticket + i - 1 /\ v.deadline = now
        BY <4>1, MadeFields
      <4>3. u.ticket < v.ticket /\ u.ticket \in Nat /\ v.ticket \in Nat
        BY <1>0, <2>2, <3>3, <4>2
      <4>4. now \in Nat
        BY DEF QueueInv
      <4> QED
        BY <4>2, <4>3, <4>4
    <3>4. CASE v \notin scheduled /\ u \notin scheduled
      <4>1. PICK i \in 1 .. Len(output) : MadeOf(v, g, i, output, w.target)
        BY <2>2, <3>4
      <4>2. PICK j \in 1 .. Len(output) : MadeOf(u, g, j, output, w.target)
        BY <2>2, <3>4
      <4>3. /\ v.item[3] = produced[g] + i /\ v.ticket = next_ticket + i - 1 /\ v.deadline = now
            /\ u.item[3] = produced[g] + j /\ u.ticket = next_ticket + j - 1
        BY <4>1, <4>2, MadeFields
      <4>4. /\ v.ticket = u.ticket => i = j
            /\ v.ticket < u.ticket => v.item[3] < u.item[3]
        BY <1>0, <2>2, <4>3
      <4>5. i = j => v = u
        BY <4>1, <4>2 DEF MadeOf
      <4>6. now \in Nat
        BY DEF QueueInv
      <4> QED
        BY <4>3, <4>4, <4>5, <4>6
    <3> QED
      BY <3>1, <3>2, <3>3, <3>4
  <2> QED
    BY <2>2, <2>3 DEF FramesInOrder
<1>3. CASE /\ now' = now
           /\ \E new : /\ scheduled' = scheduled \cup {new} /\ new.ticket = next_ticket
                       /\ ~IsFrame(new.item)
  <2>1. PICK new : scheduled' = scheduled \cup {new} /\ new.ticket = next_ticket /\ ~IsFrame(new.item)
    BY <1>3
  <2>2. \A h \in Generations : ~FrameOf(new, h)
    BY <2>1 DEF FrameOf, IsFrame
  <2> QED
    BY <1>0, <1>3, <2>1, <2>2 DEF FramesInOrder
<1>4. CASE Due = {} /\ scheduled' = scheduled
  <2>1. \A v \in scheduled : ~IsFrame(v.item)
    BY <1>0, <1>4 DEF FramesInOrder, Due
  <2> QED
    BY <1>0, <1>4, <2>1 DEF FramesInOrder
<1>5. CASE Cancel
  BY <1>5 DEF Cancel, FramesInOrder
<1> QED
  BY <1>1, <1>2, <1>3, <1>4, <1>5, ScheduleMoves


\* No more is delivered or scheduled of a stream than was made.
LEMMA FramesMadeStep ==
  ASSUME TypeOK, QueueInv, PositionInv, EntryInv, StreamInv, [Next]_vars
  PROVE  FramesMade'
<1>0. /\ \A g \in Generations : produced[g] \in Nat /\ delivered[g] \in Nat
      /\ sources \subseteq Generations /\ FramesMade
      /\ produced \in [Generations -> Nat] /\ delivered \in [Generations -> Nat]
  BY DEF TypeOK, StreamInv
<1>1. ASSUME NEW w \in NextDue, MapSourceEvent(w)
      PROVE  FramesMade'
  <2>1. PICK g \in running : \E output \in Outputs(g, w.terminal) :
          /\ Len(output) \in Nat /\ g \in Generations
          /\ produced' = [produced EXCEPT ![g] = @ + Len(output)] /\ UNCHANGED delivered
          /\ \A v \in scheduled' :
               v \in scheduled \ {w} \/ \E i \in 1 .. Len(output) : MadeOf(v, g, i, output, w.target)
    BY <1>1, MapMakes
  <2>2. PICK output \in Outputs(g, w.terminal) :
          /\ Len(output) \in Nat /\ g \in Generations
          /\ produced' = [produced EXCEPT ![g] = @ + Len(output)] /\ UNCHANGED delivered
          /\ \A v \in scheduled' :
               v \in scheduled \ {w} \/ \E i \in 1 .. Len(output) : MadeOf(v, g, i, output, w.target)
    BY <2>1
  <2>3. ASSUME NEW h \in Generations
        PROVE  produced[h] <= produced'[h] /\ delivered'[h] <= produced'[h] /\ produced'[h] \in Nat
    BY <1>0, <2>2, <2>3 DEF FramesMade
  <2>4. ASSUME NEW h \in Generations, NEW v \in scheduled', FrameOf(v, h)
        PROVE  v.item[3] <= produced'[h]
    <3>1. CASE v \in scheduled
      <4>1. v.item[3] <= produced[h] /\ v.item[3] \in Nat
        BY <1>0, <2>4, <3>1, FrameTyped DEF FramesMade, FrameOf, IsFrame
      <4> QED
        BY <1>0, <2>3, <4>1
    <3>2. CASE v \notin scheduled
      <4>1. PICK i \in 1 .. Len(output) : MadeOf(v, g, i, output, w.target)
        BY <2>2, <3>2
      <4>2. h = g /\ v.item[3] = produced[g] + i
        BY <2>4, <4>1, MadeFields
      <4> QED
        BY <1>0, <2>2, <4>2
    <3> QED
      BY <3>1, <3>2
  <2> QED
    BY <2>3, <2>4 DEF FramesMade
<1>2. ASSUME NEW w \in NextDue, Process(w), ~MapSourceEvent(w), scheduled' = scheduled \ {w}
      PROVE  FramesMade'
  <2>1. /\ produced' = produced
        /\ \/ \E g \in sources :
                /\ FrameOf(w, g) /\ w.item[3] = delivered[g] + 1 /\ w.item[3] <= produced[g]
                /\ delivered' = [delivered EXCEPT ![g] = @ + 1]
           \/ UNCHANGED delivered
    BY <1>2, TakenCases
  <2>2. \A g \in Generations : delivered'[g] <= produced[g]
    BY <1>0, <2>1 DEF FramesMade
  <2> QED
    BY <1>0, <1>2, <2>1, <2>2 DEF FramesMade
<1>3. ASSUME ~\E w \in NextDue : Process(w),
             \A v \in scheduled' : v \in scheduled \/ ~IsFrame(v.item)
      PROVE  FramesMade'
  <2>1. UNCHANGED <<produced, delivered>>
    BY <1>3, HistoryStays
  <2> QED
    BY <1>0, <1>3, <2>1 DEF FramesMade, FrameOf, IsFrame
<1> QED
  BY <1>1, <1>2, <1>3, ScheduleMoves DEF Cancel

\* Outside a turn an entry's stream goes on; within one it may be removed, or
\* begun, when nothing was made of it.
LEMMA EntriesGoOn ==
  ASSUME TypeOK, PositionInv, EntryInv, DesiredInv, FramesMade, [Next]_vars,
         ~\E w \in NextDue : Process(w), NEW g \in sources'
  PROVE  /\ UNCHANGED <<produced, delivered>>
         /\ g \in Generations
         /\ \/ g \in sources /\ (g \in running' <=> g \in running)
            \/ produced[g] = 0 /\ \A w \in scheduled : ~FrameOf(w, g)
<1>1. UNCHANGED <<produced, delivered>>
  BY HistoryStays
<1>2. CASE Change
  <2>1. PICK change \in changes :
          LET S == Removed(change, Entry(<<component, change.id>>))
              h == next_generation + 1
          IN  \/ /\ h \in Generations
                 /\ sources' = (sources \ S) \cup {h} /\ running' = (running \ S) \cup {h}
              \/ sources' = sources \ S /\ running' = running \ S
    BY <1>2, ChangeCases
  <2> DEFINE S == Removed(change, Entry(<<component, change.id>>))
             h == next_generation + 1
  <2>2. h \in Generations => produced[h] = 0 /\ \A w \in scheduled : ~FrameOf(w, h)
    <3>1. next_generation < h /\ next_generation \in Nat
      BY WorkAssumption DEF TypeOK
    <3>2. h \in Generations => produced[h] = 0
      BY <3>1 DEF EntryInv
    <3>3. ASSUME h \in Generations, NEW w \in scheduled, FrameOf(w, h)
          PROVE  FALSE
      <4>1. w.item[3] \in Nat \ {0} /\ w.item[3] <= produced[h]
        BY <3>3, FrameTyped DEF FramesMade, FrameOf, IsFrame
      <4> QED
        BY <3>2, <3>3, <4>1
    <3> QED
      BY <3>2, <3>3
  <2>3. sources \subseteq Generations
    BY DEF TypeOK
  <2>4. g \in sources \/ (g = h /\ h \in Generations)
    BY <2>1
  <2>5. CASE g # h
    BY <1>1, <2>1, <2>3, <2>4, <2>5
  <2>6. CASE g = h
    <3>1. g \in Generations
      BY <2>3, <2>4
    <3> QED
      BY <1>1, <2>2, <2>6, <3>1
  <2> QED
    BY <2>5, <2>6
<1>3. CASE ~Change
  <2>1. ~Cancel
    BY DEF Cancel
  <2>2. sources' = sources /\ running' = running
    BY <1>3, <2>1, SourcesWritten DEF Process
  <2> QED
    BY <1>1, <2>2 DEF TypeOK
<1> QED
  BY <1>2, <1>3

\* A plan that ends last makes the end of a stream its last event, and closes
\* the Source with it.
LEMMA EndsWithLast ==
  ASSUME PlansEndLast, NEW raw_terminal \in BOOLEAN, NEW g, produced[g] \in Nat,
         NEW output \in Outputs(g, raw_terminal)
  PROVE  /\ Len(output) \in Nat
         /\ EndsSource(raw_terminal, output) => Len(output) # 0
         /\ \A i \in 1 .. Len(output) :
              output[i] <=> EndsSource(raw_terminal, output) /\ i = Len(output)
<1>1. /\ output \in PlanOutputs[raw_terminal] /\ Len(output) \in Nat /\ DOMAIN output = 1 .. Len(output)
      /\ output \in Seq(BOOLEAN) /\ \A i \in 1 .. Len(output) : output[i] \in BOOLEAN
  BY OutputFits
<1>2. /\ \A i \in 1 .. Len(output) : output[i] => i = Len(output)
      /\ raw_terminal => output # <<>> /\ output[Len(output)]
  BY <1>1 DEF PlansEndLast, EndsLast
<1>3. output # <<>> => Len(output) # 0
  BY <1>1
<1>4. EndsSource(raw_terminal, output) => Len(output) # 0 /\ output[Len(output)]
  <2>1. CASE raw_terminal
    BY <1>2, <1>3, <2>1
  <2>2. ASSUME NEW i \in 1 .. Len(output), output[i]
        PROVE  Len(output) # 0 /\ output[Len(output)]
    <3>1. i = Len(output)
      BY <1>2, <2>2, Zenon
    <3>2. i # 0
      BY <1>1
    <3> QED
      BY <2>2, <3>1, <3>2
  <2> QED
    BY <1>1, <2>1, <2>2 DEF EndsSource
<1>5. \A i \in 1 .. Len(output) : output[i] => EndsSource(raw_terminal, output)
  BY <1>1 DEF EndsSource
<1> QED
  BY <1>1, <1>2, <1>4, <1>5


\* The events made of a raw one go behind those of their stream that are
\* scheduled, and the last one ends it.
LEMMA MapKeepsStreams ==
  ASSUME TypeOK, StreamInv, PlansEndLast, NEW w \in NextDue, MapSourceEvent(w), NEW h \in sources
  PROVE  Undelivered(h)' /\ Accounted(h)'
<1>0. /\ h \in Generations /\ produced[h] \in Nat /\ delivered[h] \in Nat
      /\ produced \in [Generations -> Nat]
      /\ Undelivered(h) /\ Accounted(h) /\ FramesMade /\ delivered[h] <= produced[h]
  BY DEF TypeOK, StreamInv, FramesMade
<1>1. PICK g \in running : \E output \in Outputs(g, w.terminal) :
        /\ w.terminal \in BOOLEAN /\ ~IsFrame(w.item)
        /\ g \in Generations /\ produced[g] \in Nat
        /\ running' = IF EndsSource(w.terminal, output) THEN running \ {g} ELSE running
        /\ produced' = [produced EXCEPT ![g] = @ + Len(output)]
        /\ UNCHANGED <<sources, delivered>>
        /\ scheduled \ {w} \subseteq scheduled'
        /\ \A v \in scheduled' :
             v \in scheduled \ {w} \/ \E i \in 1 .. Len(output) : MadeOf(v, g, i, output, w.target)
        /\ \A i \in 1 .. Len(output) : \E v \in scheduled' : MadeOf(v, g, i, output, w.target)
  BY MapMakes
<1>2. PICK output \in Outputs(g, w.terminal) :
        /\ w.terminal \in BOOLEAN /\ ~IsFrame(w.item)
        /\ g \in Generations /\ produced[g] \in Nat
        /\ running' = IF EndsSource(w.terminal, output) THEN running \ {g} ELSE running
        /\ produced' = [produced EXCEPT ![g] = @ + Len(output)]
        /\ UNCHANGED <<sources, delivered>>
        /\ scheduled \ {w} \subseteq scheduled'
        /\ \A v \in scheduled' :
             v \in scheduled \ {w} \/ \E i \in 1 .. Len(output) : MadeOf(v, g, i, output, w.target)
        /\ \A i \in 1 .. Len(output) : \E v \in scheduled' : MadeOf(v, g, i, output, w.target)
  BY <1>1
<1> DEFINE ends == EndsSource(w.terminal, output)
<1>3. /\ Len(output) \in Nat /\ (ends => Len(output) # 0)
      /\ \A i \in 1 .. Len(output) : output[i] <=> ends /\ i = Len(output)
  BY <1>2, EndsWithLast
<1> HIDE DEF ends
<1>4. /\ running' = IF ends THEN running \ {g} ELSE running
      /\ produced'[g] = produced[g] + Len(output)
      /\ h # g => produced'[h] = produced[h] /\ (h \in running' <=> h \in running)
  BY <1>0, <1>2 DEF ends
<1>5. \A v \in scheduled : FrameOf(v, h) =>
        v \in scheduled' /\ v.item[3] \in Nat /\ v.item[3] <= produced[h]
  BY <1>0, <1>2, FrameTyped DEF FrameOf, IsFrame, FramesMade
<1>6. Undelivered(h)'
  <2> SUFFICES ASSUME NEW v \in scheduled', FrameOf(v, h)
               PROVE  /\ delivered'[h] < v.item[3]
                      /\ v.terminal <=> h \notin running' /\ v.item[3] = produced'[h]
    BY DEF Undelivered, FrameOf
  <2>1. CASE v \in scheduled
    <3>1. /\ delivered[h] < v.item[3] /\ v.item[3] \in Nat /\ v.item[3] <= produced[h]
          /\ v.terminal <=> h \notin running /\ v.item[3] = produced[h]
      BY <1>0, <1>5, <2>1 DEF Undelivered
    <3>2. CASE h # g
      BY <1>2, <1>4, <3>1, <3>2
    <3>3. CASE h = g
      <4>1. h \in running /\ ~v.terminal
        BY <3>1, <3>3
      <4>2. h \notin running' => v.item[3] # produced'[h]
        BY <1>0, <1>3, <1>4, <3>1, <3>3
      <4> QED
        BY <1>2, <3>1, <4>1, <4>2
    <3> QED
      BY <3>2, <3>3
  <2>2. CASE v \notin scheduled
    <3>1. PICK i \in 1 .. Len(output) : MadeOf(v, g, i, output, w.target)
      BY <1>2, <2>2
    <3>2. h = g /\ v.item[3] = produced[g] + i /\ v.terminal = output[i]
      BY <3>1, MadeFields
    <3>3. delivered'[h] < v.item[3] /\ (v.item[3] = produced'[h] <=> i = Len(output))
      BY <1>0, <1>2, <1>3, <1>4, <3>2
    <3>4. h \notin running' <=> ends
      BY <1>4, <3>2
    <3> QED
      BY <1>3, <3>2, <3>3, <3>4
  <2> QED
    BY <2>1, <2>2
<1>7. Accounted(h)'
  <2> SUFFICES ASSUME NEW n \in 1 .. produced'[h], delivered'[h] < n
               PROVE  \E v \in scheduled' : FrameOf(v, h) /\ v.item[3] = n
    BY DEF Accounted, FrameOf
  <2>1. CASE n \in 1 .. produced[h]
    <3>1. PICK v \in scheduled : FrameOf(v, h) /\ v.item[3] = n
      BY <1>0, <1>2, <2>1 DEF Accounted
    <3> QED
      BY <1>5, <3>1
  <2>2. CASE n \notin 1 .. produced[h]
    <3>1. h = g /\ n - produced[g] \in 1 .. Len(output)
      BY <1>0, <1>2, <1>3, <1>4, <2>2
    <3>2. PICK v \in scheduled' : MadeOf(v, g, n - produced[g], output, w.target)
      BY <1>2, <3>1
    <3>3. FrameOf(v, h) /\ v.item[3] = n
      BY <1>0, <3>1, <3>2, MadeFields
    <3> QED
      BY <3>3
  <2> QED
    BY <2>1, <2>2
<1> QED
  BY <1>6, <1>7

\* The events of a stream that was not removed are delivered in their turn.
LEMMA TakenKeepsStreams ==
  ASSUME TypeOK, QueueInv, EntryInv, StreamInv, NEW w \in NextDue, Process(w), ~MapSourceEvent(w),
         scheduled' = scheduled \ {w}, NEW h \in sources
  PROVE  Undelivered(h)' /\ Accounted(h)'
<1>0. /\ h \in Generations /\ produced[h] \in Nat /\ delivered[h] \in Nat
      /\ delivered \in [Generations -> Nat] /\ sources \subseteq Generations
      /\ Undelivered(h) /\ Accounted(h)
  BY DEF TypeOK, StreamInv
<1>1. UNCHANGED <<running, produced>>
  BY TakenCases
<1>2. CASE ~FrameOf(w, h)
  <2>1. delivered'[h] = delivered[h]
    <3>1. \A g \in sources : FrameOf(w, g) => g # h
      BY <1>2
    <3> QED
      BY <1>0, <3>1, TakenCases
  <2>2. Undelivered(h)'
    BY <1>0, <1>1, <2>1 DEF Undelivered, FrameOf
  <2>3. Accounted(h)'
    <3> SUFFICES ASSUME NEW n \in 1 .. produced[h], delivered[h] < n
                 PROVE  \E v \in scheduled' : FrameOf(v, h) /\ v.item[3] = n
      BY <1>1, <2>1 DEF Accounted, FrameOf
    <3>1. PICK v \in scheduled : FrameOf(v, h) /\ v.item[3] = n
      BY <1>0 DEF Accounted
    <3> QED
      BY <1>2, <3>1
  <2> QED
    BY <2>2, <2>3
<1>3. CASE FrameOf(w, h)
  <2>1. delivered'[h] = delivered[h] + 1 /\ w.item[3] = delivered[h] + 1
    <3>1. PICK g \in sources : /\ FrameOf(w, g) /\ w.item[3] = delivered[g] + 1
                               /\ delivered' = [delivered EXCEPT ![g] = @ + 1]
      BY <1>3, TakenCases
    <3>2. g = h
      BY <1>3, <3>1 DEF FrameOf
    <3> QED
      BY <1>0, <3>1, <3>2
  <2>2. ASSUME NEW v \in scheduled', FrameOf(v, h)
        PROVE  delivered'[h] < v.item[3] /\ v.item[3] \in Nat
    <3>1. v \in scheduled \ {w} /\ w \in scheduled /\ w.deadline = now
      BY <2>2, NextIsNow
    <3>2. v.deadline = now
      <4>1. v.deadline <= now /\ now <= v.deadline /\ v.deadline \in Nat /\ now \in Nat
        BY <2>2, <3>1 DEF StreamInv, FramesInOrder, FrameOf, IsFrame, QueueInv
      <4> QED
        BY <4>1
    <3>3. w.ticket < v.ticket
      BY <3>1, <3>2, NextIsNow
    <3>4. w.item[3] < v.item[3]
      BY <1>0, <1>3, <2>2, <3>1, <3>3 DEF StreamInv, FramesInOrder
    <3>5. v.item[3] \in Nat
      BY <2>2, <3>1, FrameTyped DEF FrameOf, IsFrame
    <3> QED
      BY <2>1, <3>4, <3>5
  <2>3. Undelivered(h)'
    BY <1>0, <1>1, <2>2 DEF Undelivered, FrameOf
  <2>4. Accounted(h)'
    <3> SUFFICES ASSUME NEW n \in 1 .. produced[h], delivered[h] + 1 < n
                 PROVE  \E v \in scheduled' : FrameOf(v, h) /\ v.item[3] = n
      BY <1>1, <2>1 DEF Accounted, FrameOf
    <3>1. PICK v \in scheduled : FrameOf(v, h) /\ v.item[3] = n
      <4>1. delivered[h] < n
        BY <1>0
      <4> QED
        BY <1>0, <4>1 DEF Accounted
    <3>2. v # w
      BY <1>0, <2>1, <3>1
    <3> QED
      BY <3>1, <3>2
  <2> QED
    BY <2>3, <2>4
<1> QED
  BY <1>2, <1>3


\* Every step keeps the streams' events where they are accounted for.
LEMMA StreamStep ==
  ASSUME PlansEndLast, TypeOK, QueueInv, PositionInv, EntryInv, DesiredInv, StreamInv, [Next]_vars
  PROVE  StreamInv'
<1>1. FramesInOrder' /\ FramesMade'
  BY FramesInOrderStep, FramesMadeStep
<1>2. ASSUME NEW g \in sources'
      PROVE  Undelivered(g)' /\ Accounted(g)'
  <2>1. ASSUME NEW w \in NextDue, MapSourceEvent(w)
        PROVE  Undelivered(g)' /\ Accounted(g)'
    <3>1. g \in sources
      BY <1>2, <2>1, MapMakes
    <3> QED
      BY <2>1, <3>1, MapKeepsStreams
  <2>2. ASSUME NEW w \in NextDue, Process(w), ~MapSourceEvent(w), scheduled' = scheduled \ {w}
        PROVE  Undelivered(g)' /\ Accounted(g)'
    <3>1. g \in sources
      BY <1>2, <2>2, TakenCases
    <3> QED
      BY <2>2, <3>1, TakenKeepsStreams
  <2>3. ASSUME ~\E w \in NextDue : Process(w)
        PROVE  Undelivered(g)' /\ Accounted(g)'
    <3>1. ~Cancel
      BY <1>2 DEF Cancel
    <3>2. \A h : \A v : FrameOf(v, h) => (v \in scheduled' <=> v \in scheduled)
      BY <2>3, <3>1, ScheduleMoves DEF FrameOf, IsFrame, Process
    <3>3. /\ UNCHANGED <<produced, delivered>> /\ g \in Generations
          /\ \/ g \in sources /\ (g \in running' <=> g \in running)
             \/ produced[g] = 0 /\ \A w \in scheduled : ~FrameOf(w, g)
      BY <1>2, <2>3, EntriesGoOn DEF StreamInv
    <3>4. CASE g \in sources /\ (g \in running' <=> g \in running)
      <4>1. Undelivered(g) /\ Accounted(g)
        BY <3>4 DEF StreamInv
      <4>2. Undelivered(g)'
        BY <3>2, <3>3, <3>4, <4>1 DEF Undelivered, FrameOf
      <4>3. Accounted(g)'
        BY <3>2, <3>3, <4>1 DEF Accounted, FrameOf
      <4> QED
        BY <4>2, <4>3
    <3>5. CASE produced[g] = 0 /\ \A w \in scheduled : ~FrameOf(w, g)
      <4>1. \A w \in scheduled' : ~FrameOf(w, g)
        BY <3>2, <3>5
      <4>2. 1 .. produced'[g] = {}
        BY <3>3, <3>5
      <4> QED
        BY <4>1, <4>2 DEF Undelivered, Accounted, FrameOf
    <3> QED
      BY <3>3, <3>4, <3>5
  <2> QED
    BY <2>1, <2>2, <2>3, ScheduleMoves
<1> QED
  BY <1>1, <1>2 DEF StreamInv

\* No event was made before the first call.
LEMMA StreamInit == Init => StreamInv
<1> SUFFICES ASSUME Init
             PROVE  StreamInv
  OBVIOUS
<1>1. /\ scheduled = {} /\ sources = {}
      /\ \A g \in Generations : produced[g] = 0 /\ delivered[g] = 0
  BY DEF Init, TurnInit
<1> QED
  BY <1>1 DEF StreamInv, FramesInOrder, FramesMade

\* With plans whose end is their last event, every event made of a Source that
\* was not removed waits in the schedule until it is delivered, in its order,
\* and the end of its stream is the last.
THEOREM StreamInvariant ==
  ASSUME PlansEndLast
  PROVE  Spec => []InductiveInv
<1>1. Init => InductiveInv
  BY ControlledInit, StreamInit DEF InductiveInv
<1>2. InductiveInv /\ [Next]_vars => InductiveInv'
  BY ControlledStep, StreamStep DEF InductiveInv, ControlledInv
<1> QED
  BY <1>1, <1>2, PTL DEF Spec

-----------------------------------------------------------------------------
(***************************************************************************)
(* The Sources of the controlled runtime are the streams of SourceStream.  *)
(***************************************************************************)
Closed == sources \ running
StreamVars ==
  <<next_generation, [g \in Generations |-> KeyOf(g)], sources, Closed, produced, delivered, finished>>

\* A change of a turn begins a stream in the place of another, or withdraws one.
LEMMA ChangeBegins ==
  ASSUME ControlledInv, [Next]_vars, Change
  PROVE  \/ \E key \in Keys : Stream!Begin(key)
         \/ \E S \in SUBSET sources : Stream!Withdraw(S)
<1>1. PICK change \in changes :
        LET key == <<component, change.id>>
            S == Removed(change, Entry(key))
            g == next_generation + 1
        IN  /\ Owing(change) /\ key \in Keys /\ S \subseteq {h \in sources : KeyOf(h) = key}
            /\ \/ /\ change.kind \in {"Start", "Replace"} /\ g \in Generations \ sources
                  /\ next_generation' = g
                  /\ realized' = [realized EXCEPT ![g] = <<key, desired[change.id]>>]
                  /\ sources' = (sources \ S) \cup {g} /\ running' = (running \ S) \cup {g}
               \/ /\ UNCHANGED <<next_generation, realized>>
                  /\ sources' = sources \ S /\ running' = running \ S
  BY ChangeCases DEF ControlledInv
<1> DEFINE key == <<component, change.id>>
           S == Removed(change, Entry(key))
           g == next_generation + 1
<1>2. UNCHANGED <<produced, delivered, finished>>
  BY DEF Change, history, deliveryHistory
<1>3. /\ sources \subseteq Generations /\ running \subseteq sources /\ OneEntryEach /\ TurnTypeOK
      /\ realized \in [Generations -> (Keys \cup {NoKey}) \X (Descriptors \cup {NoDescriptor})]
      /\ component \in Components
  BY ChangeCases DEF ControlledInv, TypeOK, EntryInv
<1>4. CASE UNCHANGED <<next_generation, realized>> /\ sources' = sources \ S /\ running' = running \ S
  <2>1. Stream!Withdraw(S)
    BY <1>2, <1>3, <1>4 DEF Stream!Withdraw, KeyOf
  <2> QED
    BY <1>1, <2>1
<1>5. CASE /\ change.kind \in {"Start", "Replace"} /\ g \in Generations \ sources
           /\ next_generation' = g
           /\ realized' = [realized EXCEPT ![g] = <<key, desired[change.id]>>]
           /\ sources' = (sources \ S) \cup {g} /\ running' = (running \ S) \cup {g}
  <2>1. \A h \in sources \ S : KeyOf(h) # key
    BY <1>1, <1>3, <1>5, Replaces
  <2>2. {h \in sources : [x \in Generations |-> KeyOf(x)][h] # key} = sources \ S
    BY <1>1, <1>3, <2>1
  <2>3. \A h \in Generations : realized'[h][1] = IF h = g THEN key ELSE realized[h][1]
    BY <1>3, <1>5
  <2>4. [h \in Generations |-> KeyOf(h)]' = [[h \in Generations |-> KeyOf(h)] EXCEPT ![g] = key]
    BY <2>3 DEF KeyOf
  <2>5. sources' \ running' = (sources \ running) \cap (sources \ S)
    BY <1>3, <1>5
  <2>6. Stream!Begin(key)
    BY <1>2, <1>5, <2>2, <2>4, <2>5 DEF Stream!Begin, Stream!Streams, Generations
  <2> QED
    BY <1>1, <2>6
<1> QED
  BY <1>1, <1>4, <1>5

\* The host's cancel withdraws every stream.
LEMMA CancelWithdraws ==
  ASSUME Cancel
  PROVE  Stream!Withdraw(sources)
BY DEF Cancel, Stream!Withdraw, KeyOf, history, deliveryHistory

\* A raw event is made into the next events of its stream.
LEMMA MapMakesOf ==
  ASSUME TypeOK, NEW w \in NextDue, MapSourceEvent(w)
  PROVE  \E g \in Generations, n \in 0 .. MaxFrames, last \in BOOLEAN : Stream!Make(g, n, last)
<1>1. PICK g \in running : \E output \in Outputs(g, w.terminal) :
        /\ w.terminal \in BOOLEAN
        /\ g \in Generations /\ g \in sources /\ produced[g] \in Nat
        /\ running' = IF EndsSource(w.terminal, output) THEN running \ {g} ELSE running
        /\ produced' = [produced EXCEPT ![g] = @ + Len(output)]
        /\ UNCHANGED <<sources, realized, next_generation, delivered, finished>>
  BY MapMakes
<1>2. PICK output \in Outputs(g, w.terminal) :
        /\ w.terminal \in BOOLEAN
        /\ g \in Generations /\ g \in sources /\ produced[g] \in Nat
        /\ running' = IF EndsSource(w.terminal, output) THEN running \ {g} ELSE running
        /\ produced' = [produced EXCEPT ![g] = @ + Len(output)]
        /\ UNCHANGED <<sources, realized, next_generation, delivered, finished>>
  BY <1>1
<1> DEFINE ends == EndsSource(w.terminal, output)
           last == IF ends THEN TRUE ELSE FALSE
<1>3. Len(output) \in 0 .. MaxFrames
  <2>1. Len(output) \in Nat /\ produced[g] + Len(output) <= MaxFrames /\ MaxFrames \in Nat
    BY <1>2, OutputType, WorkAssumption DEF Outputs
  <2> QED
    BY <1>2, <2>1
<1>4. last \in BOOLEAN /\ (last <=> ends)
  OBVIOUS
<1>5. running' = IF ends THEN running \ {g} ELSE running
  BY <1>2
<1> HIDE DEF ends, last
<1>6. (sources \ running)' = IF last THEN (sources \ running) \cup {g} ELSE sources \ running
  BY <1>2, <1>4, <1>5
<1>7. Stream!Make(g, Len(output), last)
  BY <1>2, <1>6 DEF Stream!Make, KeyOf
<1> QED
  BY <1>2, <1>3, <1>4, <1>7

\* The event that is next is heard of its stream, or nothing is.
LEMMA TakenIsHeard ==
  ASSUME TypeOK, QueueInv, EntryInv, StreamInv, NEW w \in NextDue, Process(w), ~MapSourceEvent(w)
  PROVE  (\E g \in Generations : Stream!Hear(g)) \/ UNCHANGED StreamVars
<1>1. UNCHANGED <<sources, running, realized, next_generation, produced>>
  BY TakenCases
<1>2. /\ [h \in Generations |-> KeyOf(h)]' = [h \in Generations |-> KeyOf(h)]
      /\ Closed' = Closed
  BY <1>1 DEF KeyOf, Closed
<1>3. CASE UNCHANGED <<delivered, finished>>
  BY <1>1, <1>2, <1>3 DEF StreamVars
<1>4. ASSUME NEW g \in sources,
             FrameOf(w, g), w.item[3] = delivered[g] + 1, w.item[3] <= produced[g],
             delivered' = [delivered EXCEPT ![g] = @ + 1],
             finished' = IF w.terminal THEN finished \cup {g} ELSE finished
      PROVE  g \in Generations /\ Stream!Hear(g)
  <2>1. /\ g \in Generations /\ delivered[g] \in Nat /\ produced[g] \in Nat
        /\ delivered \in [Generations -> Nat] /\ w \in scheduled
    BY DEF TypeOK, NextDue, Due
  <2>2. delivered'[g] = w.item[3] /\ delivered[g] < produced[g]
    BY <1>4, <2>1
  <2>3. w.terminal <=> g \in Closed /\ delivered'[g] = produced[g]
    BY <1>4, <2>1, <2>2 DEF StreamInv, Undelivered, Closed
  <2> QED
    BY <1>1, <1>2, <1>4, <2>1, <2>2, <2>3 DEF Stream!Hear, Closed
<1> QED
  BY <1>3, <1>4, TakenCases

\* Nothing else concerns the streams.
LEMMA StreamsStay ==
  ASSUME [Next]_vars, ~\E w \in NextDue : Process(w), ~Change, ~Cancel
  PROVE  UNCHANGED StreamVars
<1>1. UNCHANGED <<next_generation, realized, sources, running>>
  BY SourcesWritten DEF Process
<1>2. UNCHANGED <<produced, delivered, finished>>
  BY HistoryStays
<1> QED
  BY <1>1, <1>2 DEF StreamVars, Closed, KeyOf

\* The runtime starts without a stream.
LEMMA StreamsInit == Init => Stream!Init
<1> SUFFICES ASSUME Init
             PROVE  Stream!Init
  OBVIOUS
<1>1. /\ next_generation = 0 /\ sources = {} /\ running = {} /\ finished = {}
      /\ \A g \in Generations : KeyOf(g) = NoKey
      /\ produced = [g \in Generations |-> 0] /\ delivered = [g \in Generations |-> 0]
  BY DEF Init, TurnInit, KeyOf
<1> QED
  BY <1>1 DEF Stream!Init, Stream!Streams, Generations

\* With plans whose end is their last event the controlled runtime implements
\* SourceStream, however far its host's injections run ahead of what is
\* processed (activate_source, process_source_event, process_message, cancel).
THEOREM StreamsAreKept ==
  ASSUME PlansEndLast
  PROVE  Spec => ImplementsSourceStream
<1>1. ASSUME InductiveInv, [Next]_vars
      PROVE  [Stream!Next]_(Stream!vars)
  <2>0. /\ ControlledInv /\ TypeOK /\ QueueInv /\ EntryInv /\ StreamInv
    BY <1>1 DEF InductiveInv, ControlledInv
  <2>1. Stream!Streams = Generations /\ Stream!vars = StreamVars
    BY DEF Stream!Streams, Stream!vars, StreamVars, Generations, Closed
  <2>2. CASE Cancel
    BY <2>2, CancelWithdraws DEF Stream!Next
  <2>3. CASE Change
    BY <1>1, <2>0, <2>3, ChangeBegins DEF Stream!Next
  <2>4. ASSUME NEW w \in NextDue, MapSourceEvent(w)
        PROVE  Stream!Next
    BY <2>0, <2>1, <2>4, MapMakesOf DEF Stream!Next
  <2>5. ASSUME NEW w \in NextDue, Process(w), ~MapSourceEvent(w)
        PROVE  [Stream!Next]_(Stream!vars)
    BY <2>0, <2>1, <2>5, TakenIsHeard DEF Stream!Next, Stream!vars, StreamVars, Closed
  <2>6. CASE ~Change /\ ~Cancel /\ ~\E w \in NextDue : Process(w)
    BY <1>1, <2>6, StreamsStay DEF Stream!vars, StreamVars, Closed
  <2> QED
    BY <2>2, <2>3, <2>4, <2>5, <2>6
<1>2. InductiveInv /\ [Next]_vars => [Stream!Next]_(Stream!vars)
  BY <1>1
<1> QED
  BY <1>2, StreamsInit, StreamInvariant, PTL DEF Spec, ImplementsSourceStream, Stream!Spec
==============================================================================
