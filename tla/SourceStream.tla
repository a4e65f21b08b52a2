----------------------------- MODULE SourceStream -----------------------------
(***************************************************************************)
(* What Subscriptions promise a Component, whichever runtime realizes them *)
(* (docs/adr/0003, docs/adr/0004): each realization is a stream of events. *)
(* At most one stream of a Subscription may speak at a time; what is made  *)
(* of its Source's events is heard in order, without a gap or a            *)
(* repetition; its end is heard once, last, and nothing after it; and a    *)
(* stream that was replaced or removed is never heard again, whatever was  *)
(* under way.  How events travel, wait or are discarded is left open: any  *)
(* suffix of what was made may go unheard.                                 *)
(*                                                                         *)
(*   begun       how many streams there have been                          *)
(*   subscriber  the Subscription each stream was begun for                *)
(*   entitled    the streams that may speak                                *)
(*   closed      those of them whose last event has been made              *)
(*   made        how many events were made of each stream's Source         *)
(*   heard       how many of them its Component was given                  *)
(*   ended       the streams whose end its Component was given             *)
(***************************************************************************)
EXTENDS Naturals

CONSTANTS
  Subscribers, Nobody, \* Subscription identities, and none
  MaxStreams,          \* bound: streams
  MaxMade              \* bound: events made of one stream

VARIABLES begun, subscriber, entitled, closed, made, heard, ended

vars == <<begun, subscriber, entitled, closed, made, heard, ended>>

Streams == 1 .. MaxStreams

Init ==
  /\ begun = 0
  /\ subscriber = [g \in Streams |-> Nobody]
  /\ entitled = {} /\ closed = {}
  /\ made = [g \in Streams |-> 0] /\ heard = [g \in Streams |-> 0]
  /\ ended = {}

\* A Subscription is started or replaced: its earlier stream falls silent.
Begin(key) ==
  LET g == begun + 1
      others == {h \in entitled : subscriber[h] # key}
  IN  /\ g \in Streams
      /\ begun' = g
      /\ subscriber' = [subscriber EXCEPT ![g] = key]
      /\ entitled' = others \cup {g}
      /\ closed' = closed \cap others
      /\ UNCHANGED <<made, heard, ended>>

\* Subscriptions are dropped, or a replacement is not begun, or the scope ends.
Withdraw(S) ==
  /\ entitled' = entitled \ S
  /\ closed' = closed \ S
  /\ UNCHANGED <<begun, subscriber, made, heard, ended>>

\* The next n events of a stream are made; with its last one it is closed.
Make(g, n, last) ==
  /\ g \in entitled \ closed
  /\ made' = [made EXCEPT ![g] = @ + n]
  /\ closed' = IF last THEN closed \cup {g} ELSE closed
  /\ UNCHANGED <<begun, subscriber, entitled, heard, ended>>

\* The Component is given the next event made; the last one is the end.
Hear(g) ==
  /\ g \in entitled
  /\ heard[g] < made[g]
  /\ heard' = [heard EXCEPT ![g] = @ + 1]
  /\ ended' = IF g \in closed /\ heard'[g] = made[g] THEN ended \cup {g} ELSE ended
  /\ UNCHANGED <<begun, subscriber, entitled, closed, made>>

Next ==
  \/ \E key \in Subscribers : Begin(key)
  \/ \E S \in SUBSET entitled : Withdraw(S)
  \/ \E g \in Streams, n \in 0 .. MaxMade, last \in BOOLEAN : Make(g, n, last)
  \/ \E g \in Streams : Hear(g)

Spec == Init /\ [][Next]_vars
==============================================================================
