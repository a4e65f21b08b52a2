---------------------------- MODULE Reconciliation ----------------------------
(***************************************************************************)
(* What a reconciliation of Subscriptions decides                          *)
(* (src/src/declarative_work.rs), as a function of what is active and what *)
(* is desired.  Both are maps from Subscription identities to descriptors; *)
(* NoDescriptor marks an identity that is absent.                          *)
(***************************************************************************)
CONSTANT NoDescriptor

ChangeKind == {"Start", "Retain", "Replace", "Cancel"}

\* Wrong variant: a Source whose descriptor changed is taken for a retained one.
ChangesWithoutReplace(before, after) ==
  {[kind |-> IF after[s] = NoDescriptor THEN "Cancel"
             ELSE IF before[s] = NoDescriptor THEN "Start" ELSE "Retain", id |-> s] :
     s \in {s \in DOMAIN after : {before[s], after[s]} # {NoDescriptor}}}

Changes(before, after) ==
  LET Is(s, kind) == [kind |-> kind, id |-> s]
      was == {s \in DOMAIN after : before[s] # NoDescriptor}
      wanted == {s \in DOMAIN after : after[s] # NoDescriptor}
  IN  {Is(s, "Start") : s \in wanted \ was}
      \cup {Is(s, "Retain") : s \in {s \in wanted \cap was : before[s] = after[s]}}
      \cup {Is(s, "Replace") : s \in {s \in wanted \cap was : before[s] # after[s]}}
      \cup {Is(s, "Cancel") : s \in was \ wanted}
==============================================================================
