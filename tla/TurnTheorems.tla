----------------------------- MODULE TurnTheorems -----------------------------
(***************************************************************************)
(* Facts about the vocabulary and the turn of both runtimes, used by their *)
(* proofs.                                                                 *)
(***************************************************************************)
EXTENDS TurnInvariants, Integers, WellFoundedInduction, TLAPS

\* The empty sequence is a sequence over any set.
LEMMA EmptySeq ==
  ASSUME NEW S
  PROVE  <<>> \in Seq(S)
OBVIOUS

\* What Tail leaves of a sequence.
LEMMA TailDomain ==
  ASSUME NEW S, NEW q \in Seq(S), q # <<>>
  PROVE  /\ Head(q) = q[1] /\ 1 \in DOMAIN q /\ Tail(q) \in Seq(S)
         /\ \A i \in DOMAIN Tail(q) : i + 1 \in DOMAIN q /\ Tail(q)[i] = q[i + 1]
         /\ \A i \in DOMAIN q : i # 1 => i - 1 \in DOMAIN Tail(q) /\ Tail(q)[i - 1] = q[i]
<1>1. Len(q) \in Nat \ {0} /\ DOMAIN q = 1 .. Len(q)
  OBVIOUS
<1>2. Len(Tail(q)) = Len(q) - 1 /\ DOMAIN Tail(q) = 1 .. (Len(q) - 1)
  BY <1>1
<1>3. \A i \in 1 .. (Len(q) - 1) : Tail(q)[i] = q[i + 1]
  BY <1>1, <1>2
<1>4. \A i \in DOMAIN q : i # 1 => i - 1 \in 1 .. (Len(q) - 1) /\ (i - 1) + 1 = i
  BY <1>1
<1> QED
  BY <1>1, <1>2, <1>3, <1>4

\* A reconciliation decides about desired identities only.
LEMMA ChangesType ==
  ASSUME NEW before, NEW after
  PROVE  Changes(before, after) \subseteq [kind : ChangeKind, id : DOMAIN after]
<1> DEFINE was == {s \in DOMAIN after : before[s] # NoDescriptor}
           wanted == {s \in DOMAIN after : after[s] # NoDescriptor}
<1>1. SUFFICES ASSUME NEW change \in Changes(before, after)
               PROVE  \E kind \in ChangeKind, s \in DOMAIN after :
                        change = [kind |-> kind, id |-> s]
  OBVIOUS
<1>2. was \subseteq DOMAIN after /\ wanted \subseteq DOMAIN after
  OBVIOUS
<1>3. \/ \E s \in wanted \ was : change = [kind |-> "Start", id |-> s]
      \/ \E s \in wanted : change = [kind |-> "Retain", id |-> s]
      \/ \E s \in wanted : change = [kind |-> "Replace", id |-> s]
      \/ \E s \in was \ wanted : change = [kind |-> "Cancel", id |-> s]
  BY <1>1 DEF Changes
<1> QED
  BY <1>2, <1>3 DEF ChangeKind

\* A Command of a Component that holds these tokens is a typed sequence of
\* declarations, and short enough.
LEMMA BatchType ==
  ASSUME NEW tokens \in SUBSET Correlation, NEW left \in Int, NEW batch \in Batches(tokens, left)
  PROVE  batch \in Seq(Declaration) /\ Len(batch) \in Nat /\ Len(batch) <= left
<1>1. Declarations(tokens) \subseteq Declaration
  BY DEF Declaration, Declarations
<1>2. PICK n \in 0 .. MaxBatch : batch \in [1 .. n -> Declarations(tokens)]
  BY DEF Batches
<1>3. batch \in Seq(Declaration)
  BY <1>1, <1>2, WorkAssumption
<1> QED
  BY <1>3 DEF Batches

\* Whatever a Component projects is a typed turn.
LEMMA ProjectType ==
  ASSUME NEW c \in Components, NEW tokens \in SUBSET Correlation, declared \in Nat,
         Project(c, tokens)
  PROVE  /\ component' = c /\ changes' = {} /\ duplicate' \in BOOLEAN
         /\ desired' \in [Subscriptions -> Descriptors \cup {NoDescriptor}]
         /\ commands' \in Seq(Declaration)
         /\ declared + Len(commands') <= MaxDeclarations
         /\ held' \in SUBSET Correlation
<1>1. PICK batch \in Batches(tokens, MaxDeclarations - declared) :
        commands' = batch /\ held' = tokens \ Tokens(batch)
  BY DEF Project
<1>2. MaxDeclarations - declared \in Int
  BY WorkAssumption
<1>3. batch \in Seq(Declaration) /\ Len(batch) \in Nat /\ Len(batch) <= MaxDeclarations - declared
  BY <1>1, <1>2, BatchType
<1>4. declared + Len(batch) <= MaxDeclarations
  BY <1>2, <1>3, WorkAssumption
<1> QED
  BY <1>1, <1>3, <1>4 DEF Project, DesiredMaps

\* First is well defined on every set of generations.
LEMMA SmallestGeneration ==
  ASSUME NEW S \in SUBSET Generations, S # {}
  PROVE  First(S) \in S /\ \A h \in S : First(S) <= h
<1> DEFINE R == {p \in Nat \X Nat : p[1] < p[2]}
<1>1. S \subseteq Nat
  BY WorkAssumption DEF Generations
<1>2. IsWellFoundedOn(R, Nat)
  BY NatLessThanWellFounded DEF OpToRel
<1>3. PICK g \in S : \A h \in S : ~ (<<h, g>> \in R)
  BY <1>1, <1>2, WFMin, Zenon
<1>4. ASSUME NEW h \in S
      PROVE  g <= h
  <2>1. h \in Nat /\ g \in Nat /\ ~ (<<h, g>> \in R)
    BY <1>1, <1>3
  <2>2. <<h, g>> \in Nat \X Nat /\ <<h, g>>[1] = h /\ <<h, g>>[2] = g
    BY <2>1
  <2>3. ~ (h < g)
    BY <2>1, <2>2
  <2> QED
    BY <2>1, <2>3
<1> QED
  BY <1>4 DEF First

-----------------------------------------------------------------------------
(***************************************************************************)
(* source_index and source_stamp_is_current, while a Subscription has at   *)
(* most one entry.                                                         *)
(***************************************************************************)
LEMMA OnlyEntry ==
  ASSUME sources \subseteq Generations, OneEntryEach
  PROVE  /\ \A g \in Generations : StampIsCurrent(g) <=> g \in sources
         /\ \A key : Entry(key) = Realizations(key)
<1>1. ASSUME NEW key, Realizations(key) # {}
      PROVE  /\ First(Realizations(key)) \in Realizations(key)
             /\ Realizations(key) = {First(Realizations(key))}
  <2>1. Realizations(key) \in SUBSET Generations
    BY DEF Realizations
  <2>2. First(Realizations(key)) \in Realizations(key)
    BY <1>1, <2>1, SmallestGeneration
  <2> QED
    BY <2>2 DEF Realizations, OneEntryEach
<1>2. ASSUME NEW g \in Generations
      PROVE  StampIsCurrent(g) <=> g \in sources
  <2>1. StampIsCurrent(g) <=>
          Realizations(KeyOf(g)) # {} /\ First(Realizations(KeyOf(g))) = g
    BY DEF StampIsCurrent
  <2>2. g \in sources <=> g \in Realizations(KeyOf(g))
    BY DEF Realizations
  <2> QED
    BY <1>1, <2>1, <2>2
<1>3. ASSUME NEW key
      PROVE  Entry(key) = Realizations(key)
  BY <1>1 DEF Entry
<1> QED
  BY <1>2, <1>3

\* Which entry a change removes, and what an activation puts in its place.
LEMMA Replaces ==
  ASSUME TurnTypeOK, component \in Components, sources \subseteq Generations, OneEntryEach,
         NEW change \in changes, Owing(change)
  PROVE  LET key == <<component, change.id>>
             S == Removed(change, Entry(key))
         IN  /\ key \in Keys /\ key[2] = change.id /\ S \subseteq {h \in sources : KeyOf(h) = key}
             /\ change.kind = "Cancel" => S = {h \in sources : KeyOf(h) = key}
             /\ change.kind \in {"Start", "Replace"} =>
                  /\ desired[change.id] \in Descriptors /\ active[key] = desired[change.id]
                  /\ \A h \in sources \ S : KeyOf(h) # key
<1> DEFINE key == <<component, change.id>>
           S == Removed(change, Entry(key))
<1>1. change.id \in Subscriptions /\ key \in Keys /\ key[2] = change.id
  BY DEF TurnTypeOK, Keys
<1>2. S = IF change.kind \in {"Replace", "Cancel"} THEN {h \in sources : KeyOf(h) = key} ELSE {}
  BY OnlyEntry DEF Removed, Realizations
<1>3. ASSUME change.kind \in {"Start", "Replace"}
      PROVE  desired[change.id] \in Descriptors /\ active[key] = desired[change.id]
  <2>1. active[key] = desired[change.id] /\ desired[change.id] # NoDescriptor
    BY <1>3 DEF Owing
  <2> QED
    BY <1>1, <2>1 DEF TurnTypeOK
<1>4. ASSUME change.kind \in {"Start", "Replace"}
      PROVE  \A h \in sources \ S : KeyOf(h) # key
  BY <1>2, <1>4 DEF Owing
<1> QED
  BY <1>1, <1>2, <1>3, <1>4

-----------------------------------------------------------------------------
(***************************************************************************)
(* The entries against the bookkeeping.                                    *)
(***************************************************************************)

\* What a reconciliation decides for a Component that was as its bookkeeping
\* said.
LEMMA Decides ==
  ASSUME TurnTypeOK, component \in Components, Reconciled,
         changes' = Changes(Bookkept(component), desired), active' = BookkeptAfter(component),
         UNCHANGED <<component, desired, sources, realized>>
  PROVE  Reconciling'
<1>0. /\ desired \in [Subscriptions -> Descriptors \cup {NoDescriptor}]
      /\ active \in [Keys -> Descriptors \cup {NoDescriptor}]
  BY DEF TurnTypeOK
<1> DEFINE was(s) == active[<<component, s>>]
<1>1. \A s \in Subscriptions : /\ <<component, s>> \in Keys /\ Bookkept(component)[s] = was(s)
                             /\ active'[<<component, s>>] = desired[s]
  BY <1>0 DEF Keys, Bookkept, BookkeptAfter
<1>2. \A k \in Keys : k[1] # component => active'[k] = active[k]
  BY <1>0 DEF BookkeptAfter
<1>3. ASSUME NEW change \in changes'
      PROVE  /\ change.id \in Subscriptions
             /\ change.kind = IF desired[change.id] = NoDescriptor THEN "Cancel"
                              ELSE IF was(change.id) = NoDescriptor THEN "Start"
                              ELSE IF was(change.id) = desired[change.id] THEN "Retain"
                              ELSE "Replace"
             /\ change = [kind |-> change.kind, id |-> change.id]
  BY <1>0, <1>1, <1>3 DEF Changes
<1>4. ASSUME NEW s \in Subscriptions, was(s) # NoDescriptor \/ desired[s] # NoDescriptor
      PROVE  \E change \in changes' : change.id = s
  <2>1. \E kind \in ChangeKind : [kind |-> kind, id |-> s] \in changes'
    BY <1>0, <1>1, <1>4 DEF Changes, ChangeKind
  <2> QED
    BY <2>1
<1>5. ASSUME NEW change \in changes'
      PROVE  Owing(change)'
  <2> DEFINE k == <<component, change.id>>
  <2>1. /\ change.id \in Subscriptions /\ k \in Keys /\ active'[k] = desired[change.id]
        /\ Matched(k)
    BY <1>1, <1>3 DEF Reconciled
  <2>2. change.kind = "Start" => \A g \in sources' : KeyOf(g)' # k
    <3>1. change.kind = "Start" => active[k] = NoDescriptor
      BY <1>3
    <3> QED
      BY <2>1, <3>1 DEF Matched, KeyOf
  <2>3. change.kind = "Retain" => Matched(k)'
    <3>1. change.kind = "Retain" => active'[k] = active[k]
      BY <1>3, <2>1
    <3>2. k' = k
      OBVIOUS
    <3> HIDE DEF k
    <3> QED
      BY <2>1, <3>1, <3>2 DEF Matched, KeyOf
  <2>4. change.kind \in {"Start", "Replace"} =>
          active'[k] = desired'[change.id] /\ active'[k] # NoDescriptor
    BY <1>0, <1>3, <2>1
  <2>5. change.kind = "Cancel" => active'[k] = NoDescriptor
    BY <1>3, <2>1
  <2> QED
    BY <2>2, <2>3, <2>4, <2>5 DEF Owing
<1>6. ASSUME NEW change \in changes', NEW other \in changes', other.id = change.id
      PROVE  other = change
  BY <1>3, <1>6
<1>7. ASSUME NEW k \in Keys
      PROVE  Matched(k)' \/ (k[1] = component' /\ \E change \in changes' : change.id = k[2])
  <2>1. CASE active'[k] = active[k]
    BY <2>1 DEF Matched, KeyOf, Reconciled
  <2>2. CASE active'[k] # active[k]
    <3>1. k[1] = component /\ k[2] \in Subscriptions /\ k = <<component, k[2]>>
      BY <1>2, <2>2 DEF Keys
    <3> QED
      BY <1>0, <1>1, <1>4, <2>2, <3>1
  <2> QED
    BY <2>1, <2>2
<1> QED
  BY <1>5, <1>6, <1>7 DEF Reconciling

\* A change applied as apply_subscription_changes does when nothing fails: the
\* entry is kept or removed, or the new realization takes its place.
Applies(change, key, S, g) ==
  /\ key = <<component, change.id>> /\ S = Removed(change, Entry(key))
  /\ \/ change.kind \in {"Retain", "Cancel"} /\ UNCHANGED realized /\ sources' = sources \ S
     \/ /\ change.kind \in {"Start", "Replace"} /\ g \in Generations \ sources
        /\ realized' = [realized EXCEPT ![g] = <<key, desired[change.id]>>]
        /\ sources' = (sources \ S) \cup {g}
  /\ UNCHANGED <<component, desired, active>>

\* It makes its Subscription's entry as the bookkeeping says and disturbs no
\* other.
LEMMA ChangeMatches ==
  ASSUME TurnTypeOK, component \in Components, sources \subseteq Generations, OneEntryEach,
         realized \in [Generations -> (Keys \cup {NoKey}) \X (Descriptors \cup {NoDescriptor})],
         NEW change \in changes, Owing(change),
         NEW key, NEW S, NEW g, Applies(change, key, S, g)
  PROVE  /\ key \in Keys /\ Matched(key)'
         /\ \A k \in Keys \ {key} :
              /\ Matched(k)' <=> Matched(k)
              /\ (\A h \in sources : KeyOf(h) # k) => \A h \in sources' : KeyOf(h)' # k
<1>1. /\ key = <<component, change.id>> /\ S = Removed(change, Entry(key))
      /\ UNCHANGED <<component, desired, active>>
  BY DEF Applies
<1>2. /\ key \in Keys /\ S \subseteq {h \in sources : KeyOf(h) = key}
      /\ change.kind = "Cancel" => S = {h \in sources : KeyOf(h) = key}
      /\ change.kind \in {"Start", "Replace"} =>
           /\ desired[change.id] \in Descriptors /\ active[key] = desired[change.id]
           /\ \A h \in sources \ S : KeyOf(h) # key
  BY <1>1, Replaces
<1>3. CASE change.kind = "Retain"
  <2>1. UNCHANGED <<sources, realized>> /\ Matched(key)
    BY <1>1, <1>3 DEF Applies, Removed, Owing
  <2>2. \A k : Matched(k)' <=> Matched(k)
    BY <1>1, <2>1 DEF Matched, KeyOf
  <2>3. Matched(key)'
    BY <1>1, <2>1 DEF Matched, KeyOf
  <2> QED
    BY <1>2, <2>1, <2>2, <2>3 DEF KeyOf
<1>4. CASE change.kind \in {"Start", "Replace"}
  <2>1. /\ g \in Generations \ sources
        /\ realized' = [realized EXCEPT ![g] = <<key, desired[change.id]>>]
        /\ sources' = (sources \ S) \cup {g}
    BY <1>4 DEF Applies
  <2>2. realized'[g] = <<key, active[key]>> /\ \A h \in sources : realized'[h] = realized[h]
    BY <1>2, <1>4, <2>1
  <2>3. active[key] # NoDescriptor
    BY <1>2, <1>4, WorkAssumption
  <2>4. Matched(key)'
    BY <1>1, <2>1, <2>2, <2>3 DEF Matched
  <2>5. ASSUME NEW k \in Keys, k # key
        PROVE  /\ \A h \in sources' : KeyOf(h)' = k <=> (h \in sources /\ KeyOf(h) = k)
               /\ \A h \in sources : KeyOf(h) = k => h \in sources' /\ realized'[h] = realized[h]
               /\ \A h \in sources : realized[h][1] = KeyOf(h)
               /\ \A h \in sources' : realized'[h][1] = k => h \in sources /\ realized'[h] = realized[h]
    <3>1. \A h \in sources' : h = g \/ h \in sources
      BY <2>1
    <3>2. realized'[g][1] = key
      BY <2>2
    <3> QED
      BY <1>2, <2>1, <2>2, <2>5, <3>1, <3>2 DEF KeyOf
  <2>6. ASSUME NEW k \in Keys, k # key
        PROVE  Matched(k)' <=> Matched(k)
    <3>1. \A d : <<k, d>>[1] = k
      OBVIOUS
    <3> QED
      BY <1>1, <2>5, <2>6, <3>1 DEF Matched, KeyOf
  <2> QED
    BY <1>2, <2>4, <2>5, <2>6
<1>5. CASE change.kind = "Cancel"
  <2>1. UNCHANGED realized /\ sources' = {h \in sources : KeyOf(h) # key}
    BY <1>2, <1>5 DEF Applies
  <2>2. Matched(key)'
    BY <1>1, <1>5, <2>1 DEF Matched, Owing, KeyOf
  <2>3. ASSUME NEW k \in Keys, k # key
        PROVE  Matched(k)' <=> Matched(k)
    <3>1. /\ \A h \in sources : KeyOf(h) = k => h \in sources'
          /\ \A h \in sources' : h \in sources /\ KeyOf(h)' = KeyOf(h)
      BY <2>1, <2>3 DEF KeyOf
    <3>2. \A d : \A h : realized[h] = <<k, d>> => KeyOf(h) = k
      BY DEF KeyOf
    <3> QED
      BY <1>1, <2>1, <3>1, <3>2 DEF Matched
  <2> QED
    BY <1>2, <2>1, <2>2, <2>3 DEF KeyOf
<1> QED
  BY <1>3, <1>4, <1>5 DEF Applies

\* It is one change less to apply.
LEMMA OneChangeLess ==
  ASSUME TurnTypeOK, component \in Components, sources \subseteq Generations, OneEntryEach,
         realized \in [Generations -> (Keys \cup {NoKey}) \X (Descriptors \cup {NoDescriptor})],
         Reconciling, NEW change \in changes, changes' = changes \ {change},
         NEW key, NEW S, NEW g, Applies(change, key, S, g)
  PROVE  Reconciling'
<1>1. /\ Owing(change) /\ key = <<component, change.id>>
      /\ UNCHANGED <<component, desired, active>>
  BY DEF Reconciling, Applies
<1>2. /\ key \in Keys /\ Matched(key)'
      /\ \A k \in Keys \ {key} :
           /\ Matched(k)' <=> Matched(k)
           /\ (\A h \in sources : KeyOf(h) # k) => \A h \in sources' : KeyOf(h)' # k
  BY <1>1, ChangeMatches
<1>3. ASSUME NEW other \in changes'
      PROVE  /\ Owing(other)'
             /\ \A third \in changes' : third.id = other.id => third = other
  <2>1. Owing(other) /\ other.id # change.id
        /\ \A third \in changes' : third.id = other.id => third = other
    BY DEF Reconciling
  <2>2. <<component, other.id>> \in Keys \ {key}
    BY <1>1, <2>1 DEF TurnTypeOK, Keys
  <2> QED
    BY <1>1, <1>2, <2>1, <2>2 DEF Owing
<1>4. ASSUME NEW k \in Keys
      PROVE  Matched(k)' \/ (k[1] = component' /\ \E other \in changes' : other.id = k[2])
  <2>1. CASE k = key
    BY <1>2, <2>1
  <2>2. CASE k # key /\ Matched(k)
    BY <1>2, <2>2
  <2>3. CASE k # key /\ ~Matched(k)
    <3>1. k[1] = component /\ \E other \in changes : other.id = k[2]
      BY <2>3 DEF Reconciling
    <3>2. k = <<k[1], k[2]>>
      BY DEF Keys
    <3> QED
      BY <1>1, <2>3, <3>1, <3>2
  <2> QED
    BY <2>1, <2>2, <2>3
<1> QED
  BY <1>3, <1>4 DEF Reconciling

\* A realization put in the place of the one that was removed is the only one
\* of its Subscription.
LEMMA OneEntryStays ==
  ASSUME TurnTypeOK, component \in Components, sources \subseteq Generations, OneEntryEach,
         realized \in [Generations -> (Keys \cup {NoKey}) \X (Descriptors \cup {NoDescriptor})],
         NEW change \in changes, Owing(change), change.kind \in {"Start", "Replace"},
         NEW g \in Generations \ sources,
         LET key == <<component, change.id>>
         IN  /\ realized' = [realized EXCEPT ![g] = <<key, desired[change.id]>>]
             /\ sources' = (sources \ Removed(change, Entry(key))) \cup {g}
  PROVE  /\ OneEntryEach'
         /\ (\A h \in sources : realized[h] \in Keys \X Descriptors) =>
              \A h \in sources' : realized'[h] \in Keys \X Descriptors
<1> DEFINE key == <<component, change.id>>
           S == Removed(change, Entry(key))
<1>1. /\ key \in Keys /\ desired[change.id] \in Descriptors
      /\ \A h \in sources \ S : KeyOf(h) # key
  BY Replaces
<1>2. /\ \A h \in sources \ S : realized'[h] = realized[h]
      /\ realized'[g] = <<key, desired[change.id]>> /\ sources' = (sources \ S) \cup {g}
  OBVIOUS
<1> HIDE DEF S, key
<1> QED
  BY <1>1, <1>2 DEF OneEntryEach, KeyOf

-----------------------------------------------------------------------------
(***************************************************************************)
(* The ReplyTo tokens.                                                     *)
(***************************************************************************)

\* What a turn's batch of declarations does with the tokens it was given: the
\* Component keeps those it does not reply with.
LEMMA ProjectTokens ==
  ASSUME NEW c, NEW tokens \in SUBSET Correlation, Project(c, tokens)
  PROVE  TokensOnce' /\ HeldOrReplying' = tokens
<1>1. PICK batch \in Batches(tokens, MaxDeclarations - declared) :
        commands' = batch /\ held' = tokens \ Tokens(batch)
  BY DEF Project
<1>2. PICK n \in 0 .. MaxBatch : batch \in [1 .. n -> Declarations(tokens)]
  BY DEF Batches
<1>3. \A i \in DOMAIN batch : batch[i].token \in tokens \cup {NoItem}
  BY <1>2 DEF Declarations
<1>4. Tokens(batch) \subseteq tokens
  BY <1>3 DEF Tokens
<1>5. Replying' = Tokens(batch)
  BY <1>1 DEF Replying
<1> QED
  BY <1>1, <1>4, <1>5 DEF Batches, TokensOnce, HeldOrReplying

\* What interpreting one declaration does with the tokens left.
LEMMA IssueTokens ==
  ASSUME commands \in Seq(Declaration), commands # <<>>, TokensOnce,
         commands' = Tail(commands), held' = held
  PROVE  /\ TokensOnce' /\ Replying' = Replying \ {Head(commands).token}
         /\ Head(commands).token # NoItem =>
              Head(commands).token \in Replying /\ Head(commands).token \notin HeldOrReplying'
<1>1. /\ Head(commands) = commands[1] /\ 1 \in DOMAIN commands /\ DOMAIN commands \subseteq Nat
      /\ \A i \in DOMAIN commands' : /\ i + 1 \in DOMAIN commands
                                     /\ commands'[i] = commands[i + 1] /\ i \in Nat /\ i # 0
      /\ \A i \in DOMAIN commands : i # 1 =>
           i - 1 \in DOMAIN commands' /\ commands'[i - 1] = commands[i]
  <2>1. /\ Head(commands) = commands[1] /\ 1 \in DOMAIN commands
        /\ \A i \in DOMAIN Tail(commands) : i + 1 \in DOMAIN commands /\ Tail(commands)[i] = commands[i + 1]
        /\ Tail(commands) \in Seq(Declaration)
        /\ \A i \in DOMAIN commands : i # 1 =>
             i - 1 \in DOMAIN Tail(commands) /\ Tail(commands)[i - 1] = commands[i]
    BY TailDomain
  <2> QED
    BY <2>1
<1>2. ASSUME NEW i \in DOMAIN commands', NEW j \in DOMAIN commands',
             commands'[i].token = commands'[j].token, commands'[i].token # NoItem
      PROVE  i = j
  <2>1. i + 1 = j + 1 /\ i \in Nat /\ j \in Nat
    BY <1>1, <1>2 DEF TokensOnce
  <2> QED
    BY <2>1
<1>3. Replying' \subseteq Replying
  BY <1>1 DEF Replying, Tokens
<1>4. Head(commands).token \notin Replying'
  <2>1. SUFFICES ASSUME NEW i \in DOMAIN commands', commands'[i].token = commands[1].token,
                        commands[1].token # NoItem
                 PROVE  FALSE
    BY <1>1 DEF Replying, Tokens
  <2>2. i + 1 = 1 /\ i \in Nat /\ i # 0
    BY <1>1, <2>1 DEF TokensOnce
  <2> QED
    BY <2>2
<1>5. \A token \in Replying : token = Head(commands).token \/ token \in Replying'
  <2>1. SUFFICES ASSUME NEW i \in DOMAIN commands, commands[i].token # NoItem, i # 1
                 PROVE  commands[i].token \in Replying'
    BY <1>1 DEF Replying, Tokens
  <2> QED
    BY <1>1, <2>1 DEF Replying, Tokens
<1>6. Head(commands).token # NoItem => Head(commands).token \in Replying
  BY <1>1 DEF Replying, Tokens
<1> QED
  BY <1>2, <1>3, <1>4, <1>5, <1>6 DEF TokensOnce, HeldOrReplying
==============================================================================
