------------------------- MODULE SubscriptionReconciler -------------------------
(***************************************************************************)
(* SubscriptionReconciler::reconcile as the code computes it               *)
(* (src/src/declarative_work.rs): one scan over the desired list that      *)
(* edits the active list in place, then one over the active list.  The     *)
(* runtimes' models use its meaning, Reconciliation!Changes, instead.      *)
(***************************************************************************)
EXTENDS Reconciliation, Naturals, Sequences, FiniteSets, Functions

CONSTANTS
  Identities,  \* SubscriptionIds of one Component
  Descriptors, \* capability and descriptor data, compared for equality
  MaxDesired   \* bound: length of a desired list

ASSUME ReconcilerAssumption == MaxDesired \in Nat /\ NoDescriptor \notin Descriptors

Entry == [id : Identities, descriptor : Descriptors]
DesiredLists == UNION {[1 .. n -> Entry] : n \in 0 .. MaxDesired}

VARIABLES
  active, \* SubscriptionReconciler::active, in the order of the Vec
  before, \* history: active as it was before the last call
  desired,\* history: the list of the last call
  answer  \* the changes it returned, or the repeated identity

vars == <<active, before, desired, answer>>

Init == active = <<>> /\ before = <<>> /\ desired = <<>> /\ answer = [changes |-> <<>>]

-----------------------------------------------------------------------------
Ids(list) == {list[i].id : i \in DOMAIN list}

\* Where an identity is seen again; desired_ids.insert fails first at the least.
Repeats(list) == {j \in DOMAIN list : \E i \in 1 .. j - 1 : list[i].id = list[j].id}

At(entries, id) == {i \in DOMAIN entries : entries[i].id = id}

\* One desired Subscription against the active entry of its identity, if any.
Take(scan, wanted) ==
  LET at == At(scan.active, wanted.id)
      Said(kind) == Append(scan.changes, [kind |-> kind, id |-> wanted.id])
  IN  IF at = {} THEN [active |-> Append(scan.active, wanted), changes |-> Said("Start")]
      ELSE LET i == CHOOSE i \in at : \A j \in at : i <= j IN
           IF scan.active[i] = wanted THEN [scan EXCEPT !.changes = Said("Retain")]
           ELSE [active |-> [scan.active EXCEPT ![i] = wanted], changes |-> Said("Replace")]

Scanned(list) ==
  LET scan[n \in 0 .. Len(list)] ==
        IF n = 0 THEN [active |-> active, changes |-> <<>>] ELSE Take(scan[n - 1], list[n])
  IN  scan[Len(list)]

\* Wrong variant: an entry that is no longer desired stays active.
KeepAll(scan, entry, list) == [scan EXCEPT !.active = Append(@, entry)]

\* One active entry, once the whole desired list was scanned.
Sweep(scan, entry, list) ==
  IF entry.id \in Ids(list) THEN [scan EXCEPT !.active = Append(@, entry)]
  ELSE [scan EXCEPT !.changes = Append(@, [kind |-> "Cancel", id |-> entry.id])]

Swept(scan, list) ==
  LET swept[n \in 0 .. Len(scan.active)] ==
        IF n = 0 THEN [scan EXCEPT !.active = <<>>]
        ELSE Sweep(swept[n - 1], scan.active[n], list)
  IN  swept[Len(scan.active)]

ReconcileList(list) ==
  /\ before' = active /\ desired' = list
  /\ IF Repeats(list) # {}
     THEN /\ answer' = [repeated |-> list[CHOOSE j \in Repeats(list) :
                                            \A k \in Repeats(list) : j <= k].id]
          /\ UNCHANGED active
     ELSE LET swept == Swept(Scanned(list), list)
          IN  active' = swept.active /\ answer' = [changes |-> swept.changes]

Next == \E list \in DesiredLists : ReconcileList(list)

Spec == Init /\ [][Next]_vars

-----------------------------------------------------------------------------
MapOf(entries) ==
  [id \in Identities |->
     IF At(entries, id) = {} THEN NoDescriptor
     ELSE entries[CHOOSE i \in At(entries, id) : TRUE].descriptor]

\* A list of distinct identities becomes the bookkeeping, and the changes
\* returned are the difference of the two maps, one per identity; a list
\* that repeats one is refused and leaves the bookkeeping alone.  The active
\* list, edited in place, never holds two entries of one identity: `find`
\* and the mutable descriptor rely on it.
AnswerIsChanges ==
  /\ Len(active) = Cardinality(Ids(active))
  /\ IF Len(desired) = Cardinality(Ids(desired))
     THEN /\ MapOf(active) = MapOf(desired)
          /\ Range(answer.changes) = Changes(MapOf(before), MapOf(desired))
          /\ Len(answer.changes) = Cardinality(Range(answer.changes))
     ELSE active = before /\ answer.repeated \in Ids(desired)
==============================================================================
