--------------------------------- MODULE Turn ---------------------------------
(***************************************************************************)
(* A Component's turn, common to both runtimes: its kernel runs update,    *)
(* commits the Model and reconciles its desired Subscriptions              *)
(* (src/src/component_kernel.rs, src/src/declarative_work.rs); the runtime *)
(* looks Sources up by key and stamp (source_index and                     *)
(* source_stamp_is_current of src/src/live_runtime.rs and                  *)
(* src/src/controlled_runtime.rs).                                         *)
(***************************************************************************)
EXTENDS Work

VARIABLES
  \* The turn in hand: whose it is, the Subscriptions it desires (a map, or a
  \* list that repeats an identity), the changes and declarations left to do.
  component, desired, duplicate, changes, commands,
  \* Each Component's SubscriptionReconciler.
  active,
  \* The Sources realized, by generation: key and descriptor of each, the
  \* runtime's list of entries, and which entries are marked running.
  next_generation, realized, sources, running,
  \* The runtime's effects and Requests, the ReplyTo tokens Components hold,
  \* and how many declarations were interpreted.
  effects, requests, held, declared

turnVars == <<component, desired, duplicate, changes, commands>>

TurnTypeOK ==
  /\ component \in Components \cup {0}
  /\ desired \in [Subscriptions -> Descriptors \cup {NoDescriptor}]
  /\ duplicate \in BOOLEAN
  /\ changes \subseteq [kind : ChangeKind, id : Subscriptions]
  /\ commands \in Seq(Declaration)
  /\ active \in [Keys -> Descriptors \cup {NoDescriptor}]

TurnInit ==
  /\ component = 0 /\ desired = [s \in Subscriptions |-> NoDescriptor]
  /\ duplicate = FALSE /\ changes = {} /\ commands = <<>>
  /\ active = [k \in Keys |-> NoDescriptor]
  /\ next_generation = 0
  /\ realized = [g \in Generations |-> <<NoKey, NoDescriptor>>]
  /\ sources = {} /\ running = {}
  /\ effects = {} /\ requests = {} /\ held = {} /\ declared = 0

-----------------------------------------------------------------------------
(***************************************************************************)
(* source_index finds the first entry with the stamp's key; entries are    *)
(* pushed in generation order.                                             *)
(***************************************************************************)
KeyOf(g) == realized[g][1]
Realizations(key) == {g \in sources : KeyOf(g) = key}
First(S) == CHOOSE g \in S : \A h \in S : g <= h

\* The entry source_index(key) names, if there is one.
Entry(key) == IF Realizations(key) = {} THEN {} ELSE {First(Realizations(key))}

\* Wrong variant: any realization of the key is taken for the stamped one.
KeyIsCurrent(g) == Realizations(KeyOf(g)) # {}

StampIsCurrent(g) ==
  LET R == Realizations(KeyOf(g)) IN R # {} /\ First(R) = g

\* Wrong variant: a Source is replaced without removing the old realization.
LeaveEntry(change, S) == {}

\* Replace and Cancel remove the Source's entry.
Removed(change, S) == IF change.kind \in {"Replace", "Cancel"} THEN S ELSE {}

-----------------------------------------------------------------------------
(***************************************************************************)
(* What a Component's update and subscriptions functions may project: any  *)
(* desired map (or one that repeats an identity) and any batch of          *)
(* declarations, replying with tokens it holds, each at most once.         *)
(***************************************************************************)
Restarted(c, map) ==
  {s \in Subscriptions : map[s] # NoDescriptor /\ map[s] # active[<<c, s>>]}

DesiredMaps(c) ==
  {map \in [Subscriptions -> Descriptors \cup {NoDescriptor}] :
     next_generation + Cardinality(Restarted(c, map)) <= MaxGenerations}

\* Component c projects its turn, given the tokens it may reply with.
Project(c, tokens) ==
  /\ component' = c
  /\ changes' = {}
  /\ desired' \in DesiredMaps(c)
  /\ duplicate' \in IF Mishap("duplicate") THEN BOOLEAN ELSE {FALSE}
  /\ \E batch \in Batches(tokens, MaxDeclarations - declared) :
       /\ commands' = batch
       /\ held' = tokens \ Tokens(batch)

\* The Component's SubscriptionReconciler, before and after a turn.
Bookkept(c) == [s \in Subscriptions |-> active[<<c, s>>]]
BookkeptAfter(c) == [k \in Keys |-> IF k[1] = c THEN desired[k[2]] ELSE active[k]]

\* The tokens held once a request's Message has been delivered.
HeldWith(item) == IF item \in Correlation THEN held \cup {item} ELSE held

(***************************************************************************)
(* What a declaration is issued as.  Ids are drawn from one counter: the   *)
(* code's separate counters are used only for identity.                    *)
(***************************************************************************)
NewItem(kind) == <<kind, declared + 1, component>>
==============================================================================
