---------------------------- MODULE TurnInvariants ----------------------------
(***************************************************************************)
(* What both runtimes keep true of a turn: the parts of their inductive    *)
(* invariants that speak of the state of Turn only.                        *)
(***************************************************************************)
EXTENDS Turn

\* The runtime's list of Sources has one entry of each Subscription at most.
OneEntryEach == \A g, h \in sources : KeyOf(g) = KeyOf(h) => g = h

\* A Subscription's entry is as its bookkeeping says.
Matched(k) ==
  IF active[k] = NoDescriptor THEN \A g \in sources : KeyOf(g) # k
                              ELSE \E g \in sources : realized[g] = <<k, active[k]>>

\* A change still to be applied fits the entry it finds and the bookkeeping.
Owing(change) ==
  LET k == <<component, change.id>>
  IN  /\ change.kind = "Start" => \A g \in sources : KeyOf(g) # k
      /\ change.kind = "Retain" => Matched(k)
      /\ change.kind \in {"Start", "Replace"} =>
           active[k] = desired[change.id] /\ active[k] # NoDescriptor
      /\ change.kind = "Cancel" => active[k] = NoDescriptor

\* Every entry is as its bookkeeping says, or, while changes are applied, the
\* one change that will make it so is still to be applied.
Reconciled == \A k \in Keys : Matched(k)
Reconciling ==
  /\ \A change \in changes :
       /\ Owing(change)
       /\ \A other \in changes : other.id = change.id => other = change
  /\ \A k \in Keys : Matched(k) \/ (k[1] = component /\ \E change \in changes : change.id = k[2])

\* The tokens in the declarations about to be interpreted: each is replied to
\* once, and the Component holds it no more.
Replying == Tokens(commands)
HeldOrReplying == held \cup Replying
TokensOnce ==
  /\ \A i, j \in DOMAIN commands :
       commands[i].token = commands[j].token /\ commands[i].token # NoItem => i = j
  /\ held \cap Replying = {}

\* The plans for which SourceStream is implemented: an end is a plan's last
\* event, and a raw end is made into one (a plan of at most one Layer).
EndsLast(output) == \A i \in DOMAIN output : output[i] => i = Len(output)
PlansEndLast ==
  \A terminal \in BOOLEAN : \A output \in PlanOutputs[terminal] :
    EndsLast(output) /\ (terminal => output # <<>> /\ output[Len(output)])
==============================================================================
