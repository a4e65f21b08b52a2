--------------------------- MODULE ReconcilerProofs ---------------------------
(***************************************************************************)
(* The reconciler's two loops over lists edited in place compute the       *)
(* difference of two maps, for lists of any length.  The loops are         *)
(* recursive functions; what they compute follows by induction on the      *)
(* number of entries looked at.                                            *)
(***************************************************************************)
EXTENDS SubscriptionReconciler, Integers, FiniteSetTheorems, WellFoundedInduction, TLAPS

Change == [kind : ChangeKind, id : Identities]
Distinct(list) == \A i, j \in DOMAIN list : list[i].id = list[j].id => i = j

-----------------------------------------------------------------------------
(***************************************************************************)
(* Numbers, loops and lists.                                               *)
(***************************************************************************)
\* A nonempty set of numbers has a smallest one.
LEMMA SmallestNumber ==
  ASSUME NEW T, T \subseteq Nat, T # {}
  PROVE  \E n \in T : \A m \in T : n <= m
<1> DEFINE R == OpToRel(<, Nat)
<1>1. IsWellFoundedOn(R, Nat)
  BY NatLessThanWellFounded DEF OpToRel
<1>2. PICK n \in T : \A m \in T : ~(<<m, n>> \in R)
  BY <1>1, WFMin, Zenon
<1>3. \A m \in T : ~(m < n)
  BY <1>2 DEF OpToRel
<1> QED BY <1>3

\* Induction on the passes of a loop.
LEMMA LoopInduction ==
  ASSUME NEW N \in Nat, NEW T, 0 \in T, \A n \in 1 .. N : n - 1 \in T => n \in T
  PROVE  0 .. N \subseteq T
<1> SUFFICES ASSUME (0 .. N) \ T # {} PROVE FALSE
  OBVIOUS
<1>1. PICK n \in (0 .. N) \ T : \A m \in (0 .. N) \ T : n <= m
  <2>1. (0 .. N) \ T \subseteq Nat
    OBVIOUS
  <2> QED BY <2>1, SmallestNumber
<1>2. n # 0 /\ n \in 1 .. N /\ n - 1 \in 0 .. N /\ ~(n <= n - 1)
  BY <1>1
<1> QED BY <1>1, <1>2

\* The states of a loop of N passes.
Passes(f, N, S, base, step) ==
  /\ f \in [0 .. N -> S] /\ f[0] = base
  /\ \A n \in 1 .. N : f[n] = step[<<f[n - 1], n>>]

Steps(S, N) == [S \X (1 .. N) -> S]

\* A loop whose passes stay among given states can be run.
LEMMA LoopExists ==
  ASSUME NEW N \in Nat, NEW S, NEW base \in S, NEW step \in Steps(S, N)
  PROVE  \E f : Passes(f, N, S, base, step)
<1> USE DEF Steps
<1> DEFINE Made(k, f) == /\ f \in [0 .. k -> S] /\ f[0] = base
                         /\ \A n \in 1 .. k : f[n] = step[<<f[n - 1], n>>]
           T == {k \in 0 .. N : \E f : Made(k, f)}
<1>1. 0 \in T
  <2>1. Made(0, [n \in 0 .. 0 |-> base])
    OBVIOUS
  <2>2. 0 \in 0 .. N
    OBVIOUS
  <2> HIDE DEF Made
  <2> QED BY <2>1, <2>2
<1>2. ASSUME NEW k \in 1 .. N, k - 1 \in T PROVE k \in T
  <2>1. PICK f : Made(k - 1, f)
    BY <1>2
  <2> DEFINE g == [n \in 0 .. k |-> IF n = k THEN step[<<f[k - 1], k>>] ELSE f[n]]
  <2>2. f[k - 1] \in S /\ step[<<f[k - 1], k>>] \in S
    BY <2>1
  <2>3. g \in [0 .. k -> S] /\ g[0] = base
    BY <2>1, <2>2
  <2>4. ASSUME NEW n \in 1 .. k PROVE g[n] = step[<<g[n - 1], n>>]
    <3>1. n - 1 \in 0 .. k /\ n - 1 # k /\ g[n - 1] = f[n - 1]
      OBVIOUS
    <3>2. CASE n = k
      BY <3>1, <3>2
    <3>3. CASE n # k
      BY <2>1, <3>1, <3>3
    <3> QED BY <3>2, <3>3
  <2>5. Made(k, g)
    BY <2>3, <2>4
  <2> HIDE DEF g, Made
  <2> QED BY <2>5
<1>3. N \in T
  <2> HIDE DEF T
  <2>1. 0 .. N \subseteq T
    BY <1>1, <1>2, LoopInduction
  <2> QED BY <2>1
<1>4. PICK f : Made(N, f)
  BY <1>3
<1> QED BY <1>4 DEF Passes

\* A list has as many entries as identities just when none is repeated.
LEMMA CountsDistinct ==
  ASSUME NEW n \in Nat, NEW s, DOMAIN s = 1 .. n
  PROVE  Cardinality({s[i].id : i \in DOMAIN s}) = n <=> Distinct(s)
<1> DEFINE T == {s[i].id : i \in DOMAIN s}
           f == [i \in 1 .. n |-> s[i].id]
<1>1. f \in Surjection(1 .. n, T)
  BY DEF Surjection
<1>2. IsFiniteSet(1 .. n) /\ Cardinality(1 .. n) = n
  BY FS_Interval
<1>3. Cardinality(T) = n <=> f \in Injection(1 .. n, T)
  BY <1>1, <1>2, FS_Surjection
<1>4. f \in Injection(1 .. n, T) <=> Distinct(s)
  BY DEF Injection, IsInjective, Distinct
<1> QED BY <1>3, <1>4

-----------------------------------------------------------------------------
(***************************************************************************)
(* A list without repeats as a map.                                        *)
(***************************************************************************)
\* One entry put behind a list.
LEMMA Appended ==
  ASSUME NEW S, NEW s \in Seq(S), NEW e \in S
  PROVE  /\ Append(s, e) \in Seq(S) /\ Len(s) \in Nat /\ DOMAIN s = 1 .. Len(s)
         /\ Len(Append(s, e)) = Len(s) + 1 /\ DOMAIN Append(s, e) = 1 .. Len(s) + 1
         /\ Append(s, e)[Len(s) + 1] = e
         /\ \A i \in DOMAIN s : i \in DOMAIN Append(s, e) /\ Append(s, e)[i] = s[i]
         /\ \A i \in DOMAIN Append(s, e) : i \in DOMAIN s \/ i = Len(s) + 1
         /\ Range(Append(s, e)) = Range(s) \cup {e}
<1>1. /\ Append(s, e) \in Seq(S) /\ Len(s) \in Nat /\ DOMAIN s = 1 .. Len(s)
      /\ Len(Append(s, e)) = Len(s) + 1 /\ DOMAIN Append(s, e) = 1 .. Len(s) + 1
      /\ Append(s, e)[Len(s) + 1] = e
      /\ \A i \in 1 .. Len(s) : Append(s, e)[i] = s[i]
  OBVIOUS
<1>2. /\ \A i \in DOMAIN s : i \in DOMAIN Append(s, e) /\ Append(s, e)[i] = s[i]
      /\ \A i \in DOMAIN Append(s, e) : i \in DOMAIN s \/ i = Len(s) + 1
      /\ Len(s) + 1 \in DOMAIN Append(s, e)
  BY <1>1
<1>3. Range(Append(s, e)) = Range(s) \cup {e}
  BY <1>1, <1>2 DEF Range
<1> QED BY <1>1, <1>2, <1>3

\* An identity has at most one descriptor, that of its only entry.
LEMMA MapOfDistinct ==
  ASSUME NEW s \in Seq(Entry), Distinct(s), NEW id \in Identities
  PROVE  /\ \A e \in Range(s) : e.id = id => MapOf(s)[id] = e.descriptor
         /\ id \in Ids(s) => MapOf(s)[id] # NoDescriptor
         /\ id \notin Ids(s) => MapOf(s)[id] = NoDescriptor
<1>1. MapOf(s)[id] = IF At(s, id) = {} THEN NoDescriptor
                     ELSE s[CHOOSE i \in At(s, id) : TRUE].descriptor
  BY DEF MapOf
<1>2. At(s, id) = {} <=> id \notin Ids(s)
  BY DEF At, Ids
<1>3. ASSUME NEW e \in Range(s), e.id = id PROVE MapOf(s)[id] = e.descriptor
  <2>1. PICK i \in DOMAIN s : s[i] = e
    BY DEF Range
  <2>2. At(s, id) = {i}
    BY <1>3, <2>1 DEF At, Distinct
  <2> QED BY <1>1, <2>1, <2>2
<1>4. ASSUME id \in Ids(s) PROVE MapOf(s)[id] # NoDescriptor
  <2>1. PICK i \in DOMAIN s : s[i].id = id
    BY <1>4 DEF Ids
  <2>2. s[i] \in Range(s) /\ s[i] \in Entry
    BY <2>1 DEF Range
  <2> QED BY <1>3, <2>1, <2>2, ReconcilerAssumption DEF Entry
<1> QED BY <1>1, <1>2, <1>3, <1>4

-----------------------------------------------------------------------------
(***************************************************************************)
(* The scan over the desired list.                                         *)
(***************************************************************************)
Scan == [active : Seq(Entry), changes : Seq(Change)]

\* What is decided of one desired Subscription.
Verdict(map, wanted) ==
  [kind |-> IF map[wanted.id] = NoDescriptor THEN "Start"
            ELSE IF map[wanted.id] = wanted.descriptor THEN "Retain" ELSE "Replace",
   id |-> wanted.id]

\* One pass of it.
LEMMA TakeOne ==
  ASSUME NEW scan \in Scan, NEW wanted \in Entry
  PROVE  /\ Take(scan, wanted) \in Scan
         /\ Distinct(scan.active) =>
              /\ Distinct(Take(scan, wanted).active)
              /\ Range(Take(scan, wanted).active) =
                   {e \in Range(scan.active) : e.id # wanted.id} \cup {wanted}
              /\ Take(scan, wanted).changes =
                   Append(scan.changes, Verdict(MapOf(scan.active), wanted))
<1> DEFINE A == scan.active
           at == At(A, wanted.id)
           Said(kind) == Append(scan.changes, [kind |-> kind, id |-> wanted.id])
           i == CHOOSE i \in at : \A j \in at : i <= j
<1>1. /\ A \in Seq(Entry) /\ scan.changes \in Seq(Change) /\ wanted.id \in Identities
      /\ wanted.descriptor \in Descriptors /\ scan = [active |-> A, changes |-> scan.changes]
  BY DEF Scan, Entry
<1>2. \A kind \in ChangeKind : Said(kind) \in Seq(Change)
  BY <1>1 DEF Change
<1>3. at \subseteq DOMAIN A /\ at \subseteq Nat
  BY <1>1 DEF At
<1>4. Take(scan, wanted) =
        IF at = {} THEN [active |-> Append(A, wanted), changes |-> Said("Start")]
        ELSE IF A[i] = wanted THEN [scan EXCEPT !.changes = Said("Retain")]
        ELSE [active |-> [A EXCEPT ![i] = wanted], changes |-> Said("Replace")]
  BY DEF Take
<1>5. at # {} => i \in at
  BY <1>3, SmallestNumber
<1>6. Distinct(A) => /\ at = {} => MapOf(A)[wanted.id] = NoDescriptor
                     /\ at # {} => MapOf(A)[wanted.id] = A[i].descriptor
  <2> SUFFICES ASSUME Distinct(A)
               PROVE  /\ at = {} => MapOf(A)[wanted.id] = NoDescriptor
                      /\ at # {} => MapOf(A)[wanted.id] = A[i].descriptor
    OBVIOUS
  <2>1. at = {} => wanted.id \notin Ids(A)
    BY DEF At, Ids
  <2>2. at # {} => A[i] \in Range(A) /\ A[i].id = wanted.id
    BY <1>5 DEF At, Range
  <2> HIDE DEF at, i, A
  <2> QED BY <1>1, <2>1, <2>2, MapOfDistinct
<1>7. at # {} => A[i].id = wanted.id /\ i \in DOMAIN A /\ A[i] \in Entry
  BY <1>1, <1>5 DEF At
<1> HIDE DEF i
<1>8. CASE at = {}
  <2>1. Take(scan, wanted) = [active |-> Append(A, wanted), changes |-> Said("Start")]
    BY <1>4, <1>8
  <2>2. Take(scan, wanted) \in Scan
    BY <1>1, <1>2, <2>1 DEF Scan, ChangeKind
  <2>3. ASSUME Distinct(A)
        PROVE  /\ Distinct(Append(A, wanted))
               /\ Range(Append(A, wanted)) = {e \in Range(A) : e.id # wanted.id} \cup {wanted}
    <3>1. \A j \in DOMAIN A : A[j].id # wanted.id
      BY <1>8 DEF At
    <3>2. Distinct(Append(A, wanted))
      BY <1>1, <2>3, <3>1, Appended DEF Distinct
    <3>3. Range(A) = {e \in Range(A) : e.id # wanted.id}
      BY <3>1 DEF Range
    <3> QED BY <1>1, <3>2, <3>3, Appended
  <2>4. Distinct(A) => Said("Start") = Append(scan.changes, Verdict(MapOf(A), wanted))
    BY <1>6, <1>8 DEF Verdict
  <2> QED BY <2>1, <2>2, <2>3, <2>4
<1>9. CASE at # {} /\ A[i] = wanted
  <2>1. Take(scan, wanted) = [active |-> A, changes |-> Said("Retain")]
    BY <1>1, <1>4, <1>9
  <2>2. Take(scan, wanted) \in Scan
    BY <1>1, <1>2, <2>1 DEF Scan, ChangeKind
  <2>3. Distinct(A) => Range(A) = {e \in Range(A) : e.id # wanted.id} \cup {wanted}
    BY <1>7, <1>9 DEF Range, Distinct
  <2>4. Distinct(A) => Said("Retain") = Append(scan.changes, Verdict(MapOf(A), wanted))
    BY <1>1, <1>6, <1>9, ReconcilerAssumption DEF Verdict
  <2> QED BY <2>1, <2>2, <2>3, <2>4
<1>10. CASE at # {} /\ A[i] # wanted
  <2> DEFINE B == [A EXCEPT ![i] = wanted]
  <2>1. Take(scan, wanted) = [active |-> B, changes |-> Said("Replace")]
    BY <1>4, <1>10
  <2>2. B \in Seq(Entry) /\ DOMAIN B = DOMAIN A /\ B[i] = wanted
        /\ \A j \in DOMAIN A : j # i => B[j] = A[j]
    BY <1>1, <1>7, <1>10
  <2>3. Take(scan, wanted) \in Scan
    BY <1>1, <1>2, <2>1, <2>2 DEF Scan, ChangeKind
  <2> HIDE DEF B
  <2>4. ASSUME Distinct(A)
        PROVE  /\ Distinct(B)
               /\ Range(B) = {e \in Range(A) : e.id # wanted.id} \cup {wanted}
    <3>1. \A j \in DOMAIN A : j # i => A[j].id # wanted.id
      BY <1>7, <1>10, <2>4 DEF Distinct
    <3>2. \A j \in DOMAIN B : B[j].id = A[j].id
      BY <1>7, <1>10, <2>2
    <3>3. Distinct(B)
      BY <2>2, <2>4, <3>2 DEF Distinct
    <3> QED BY <1>7, <1>10, <2>2, <3>1, <3>3 DEF Range
  <2>5. Distinct(A) => Said("Replace") = Append(scan.changes, Verdict(MapOf(A), wanted))
    <3>1. A[i].descriptor # wanted.descriptor
      BY <1>7, <1>10 DEF Entry
    <3>2. A[i].descriptor # NoDescriptor
      BY <1>7, <1>10, ReconcilerAssumption DEF Entry
    <3> QED BY <1>6, <1>10, <3>1, <3>2 DEF Verdict
  <2> QED BY <2>1, <2>3, <2>4, <2>5
<1> QED BY <1>8, <1>9, <1>10

\* The loop's equation.
LEMMA ScanLoop ==
  ASSUME active \in Seq(Entry), NEW list \in Seq(Entry)
  PROVE  \E f \in [0 .. Len(list) -> Scan] :
           /\ Scanned(list) = f[Len(list)]
           /\ f[0] = [active |-> active, changes |-> <<>>]
           /\ \A n \in 1 .. Len(list) : f[n] = Take(f[n - 1], list[n])
<1> DEFINE N == Len(list)
           base == [active |-> active, changes |-> <<>>]
           step == [p \in Scan \X (1 .. N) |-> Take(p[1], list[p[2]])]
           Solves(f) == f = [n \in 0 .. N |-> IF n = 0 THEN base ELSE Take(f[n - 1], list[n])]
<1>1. N \in Nat /\ base \in Scan /\ \A n \in 1 .. N : list[n] \in Entry
  BY DEF Scan
<1>2. step \in Steps(Scan, N)
  BY <1>1, TakeOne DEF Steps
<1>3. PICK g : Passes(g, N, Scan, base, step)
  <2> HIDE DEF N, base, step
  <2>1. N \in Nat /\ base \in Scan /\ step \in Steps(Scan, N)
    BY <1>1, <1>2
  <2> QED BY <2>1, LoopExists
<1>4. \A n \in 1 .. N : step[<<g[n - 1], n>>] = Take(g[n - 1], list[n])
  <2>1. \A n \in 1 .. N : n - 1 \in 0 .. N
    BY <1>1
  <2>2. \A n \in 1 .. N : g[n - 1] \in Scan
    BY <1>3, <2>1 DEF Passes
  <2> QED BY <2>2
<1>5. Solves(g)
  <2> DEFINE h == [n \in 0 .. N |-> IF n = 0 THEN base ELSE Take(g[n - 1], list[n])]
  <2>1. ASSUME NEW n \in 0 .. N PROVE g[n] = h[n]
    <3>1. n = 0 \/ n \in 1 .. N
      BY <1>1
    <3> HIDE DEF base, step
    <3> QED BY <1>1, <1>3, <1>4, <3>1 DEF Passes
  <2>2. DOMAIN h = 0 .. N /\ h = [n \in 0 .. N |-> h[n]]
    OBVIOUS
  <2>3. g = h
    <3> HIDE DEF h
    <3> QED BY <1>3, <2>1, <2>2 DEF Passes
  <2> QED BY <2>3
<1> DEFINE f == CHOOSE f : Solves(f)
<1>6. Scanned(list) = f[N]
  BY DEF Scanned
<1>7. Solves(f)
  <2> HIDE DEF Solves
  <2> QED BY <1>5
<1> HIDE DEF f
<1>8. f[0] = base /\ \A n \in 1 .. N : f[n] = Take(f[n - 1], list[n])
  BY <1>1, <1>7
<1>9. f \in [0 .. N -> Scan]
  <2> DEFINE T == {n \in 0 .. N : f[n] \in Scan}
  <2>1. 0 \in T
    BY <1>1, <1>8
  <2>2. \A n \in 1 .. N : n - 1 \in T => n \in T
    <3> SUFFICES ASSUME NEW n \in 1 .. N, f[n - 1] \in Scan PROVE f[n] \in Scan
      BY <1>1
    <3>1. Take(f[n - 1], list[n]) \in Scan
      BY <1>1, TakeOne
    <3> QED BY <1>8, <3>1
  <2> HIDE DEF T
  <2>3. 0 .. N \subseteq T
    BY <1>1, <2>1, <2>2, LoopInduction
  <2>4. \A n \in 0 .. N : f[n] \in Scan
    BY <2>3 DEF T
  <2> QED BY <1>7, <2>4
<1> QED BY <1>6, <1>8, <1>9

\* Behind it the active list holds what is desired and what is not but was
\* active, and each desired Subscription has its verdict, in its order.
LEMMA ScanMeans ==
  ASSUME active \in Seq(Entry), Distinct(active),
         NEW list \in Seq(Entry), Distinct(list)
  PROVE  /\ Scanned(list) \in Scan
         /\ Distinct(Scanned(list).active)
         /\ Range(Scanned(list).active) =
              {e \in Range(active) : e.id \notin Ids(list)} \cup Range(list)
         /\ Len(Scanned(list).changes) = Len(list)
         /\ \A i \in DOMAIN list : Scanned(list).changes[i] = Verdict(MapOf(active), list[i])
<1> DEFINE N == Len(list)
<1>0. N \in Nat /\ DOMAIN list = 1 .. N /\ \A n \in 1 .. N : list[n] \in Entry
  OBVIOUS
<1>1. PICK f \in [0 .. N -> Scan] :
        /\ Scanned(list) = f[N]
        /\ f[0] = [active |-> active, changes |-> <<>>]
        /\ \A n \in 1 .. N : f[n] = Take(f[n - 1], list[n])
  BY ScanLoop
<1> DEFINE Seen(n) == {list[i] : i \in 1 .. n}
           Good(n) == /\ Distinct(f[n].active)
                      /\ Range(f[n].active) =
                           {e \in Range(active) : \A w \in Seen(n) : e.id # w.id} \cup Seen(n)
                      /\ Len(f[n].changes) = n
                      /\ \A i \in 1 .. n : f[n].changes[i] = Verdict(MapOf(active), list[i])
           T == {n \in 0 .. N : Good(n)}
<1>2. 0 \in T
  <2>1. f[0].active = active /\ f[0].changes = <<>> /\ Seen(0) = {}
    BY <1>1
  <2>2. 0 \in 0 .. N
    BY <1>0
  <2> QED BY <2>1, <2>2
<1>3. ASSUME NEW n \in 1 .. N, n - 1 \in T PROVE n \in T
  <2> DEFINE scan == f[n - 1]
             wanted == list[n]
  <2>1. /\ scan \in Scan /\ wanted \in Entry /\ f[n] = Take(scan, wanted)
        /\ n \in Nat /\ n - 1 \in Nat /\ n - 1 \in 0 .. N /\ n \in 0 .. N
    BY <1>0, <1>1
  <2>2. Good(n - 1)
    BY <1>3
  <2>3. Seen(n) = Seen(n - 1) \cup {wanted}
    <3>1. 1 .. n = (1 .. n - 1) \cup {n}
      BY <2>1
    <3> QED BY <3>1
  <2>4. \A w \in Seen(n - 1) : w.id # wanted.id
    <3>1. \A i \in 1 .. n - 1 : i \in DOMAIN list /\ i # n /\ n \in DOMAIN list
      BY <1>0
    <3> QED BY <3>1 DEF Distinct
  <2>5. /\ f[n] \in Scan /\ Distinct(f[n].active)
        /\ Range(f[n].active) = {e \in Range(scan.active) : e.id # wanted.id} \cup {wanted}
        /\ f[n].changes = Append(scan.changes, Verdict(MapOf(scan.active), wanted))
    BY <2>1, <2>2, TakeOne
  <2>6. Range(f[n].active) =
          {e \in Range(active) : \A w \in Seen(n) : e.id # w.id} \cup Seen(n)
    <3> HIDE DEF Seen
    <3> QED BY <2>2, <2>3, <2>4, <2>5
  <2>7. MapOf(scan.active)[wanted.id] = MapOf(active)[wanted.id]
    <3>1. wanted.id \in Identities /\ scan.active \in Seq(Entry)
      BY <2>1 DEF Entry, Scan
    <3>2. wanted.id \in Ids(scan.active) <=> \E e \in Range(scan.active) : e.id = wanted.id
      BY DEF Ids, Range
    <3>3. wanted.id \in Ids(active) <=> \E e \in Range(active) : e.id = wanted.id
      BY DEF Ids, Range
    <3>4. \A e : e.id = wanted.id => (e \in Range(scan.active) <=> e \in Range(active))
      <4> HIDE DEF Seen, scan, wanted
      <4>1. Range(scan.active) =
              {e \in Range(active) : \A w \in Seen(n - 1) : e.id # w.id} \cup Seen(n - 1)
        BY <2>2 DEF scan
      <4> QED BY <2>4, <4>1
    <3>5. Distinct(scan.active)
      BY <2>2
    <3> HIDE DEF scan, wanted, Good
    <3> QED BY <3>1, <3>2, <3>3, <3>4, <3>5, MapOfDistinct
  <2>8. Verdict(MapOf(scan.active), wanted) = Verdict(MapOf(active), wanted)
    BY <2>7 DEF Verdict
  <2>9. /\ Len(f[n].changes) = n
        /\ \A i \in 1 .. n : f[n].changes[i] = Verdict(MapOf(active), list[i])
    <3> DEFINE c == scan.changes
               v == Verdict(MapOf(active), wanted)
    <3>1. c \in Seq(Change) /\ Len(c) = n - 1 /\ f[n].changes = Append(c, v)
      BY <2>1, <2>2, <2>5, <2>8 DEF Scan
    <3>2. Len(Append(c, v)) = n /\ Append(c, v)[n] = v /\ \A i \in 1 .. n - 1 : Append(c, v)[i] = c[i]
      <4> HIDE DEF c, v
      <4> QED BY <2>1, <3>1
    <3>3. \A i \in 1 .. n - 1 : c[i] = Verdict(MapOf(active), list[i])
      BY <2>2
    <3>4. \A i \in 1 .. n : i = n \/ i \in 1 .. n - 1
      BY <2>1
    <3> QED BY <3>1, <3>2, <3>3, <3>4
  <2> HIDE DEF Seen, scan, wanted
  <2> QED BY <2>1, <2>5, <2>6, <2>9
<1>4. Good(N)
  <2> HIDE DEF T, N
  <2>1. 0 .. N \subseteq T
    BY <1>0, <1>2, <1>3, LoopInduction
  <2>2. N \in T
    BY <1>0, <2>1
  <2> QED BY <2>2 DEF T
<1>5. Seen(N) = Range(list)
  BY <1>0 DEF Range
<1>6. Ids(list) = {w.id : w \in Seen(N)}
  BY <1>0 DEF Ids
<1>7. Range(f[N].active) = {e \in Range(active) : e.id \notin Ids(list)} \cup Range(list)
  <2> HIDE DEF Seen
  <2> QED BY <1>4, <1>5, <1>6
<1>8. f[N] \in Scan
  BY <1>0
<1> HIDE DEF Seen
<1> QED BY <1>0, <1>1, <1>4, <1>7, <1>8

-----------------------------------------------------------------------------
(***************************************************************************)
(* The sweep over the active list.                                         *)
(***************************************************************************)
Cancel(e) == [kind |-> "Cancel", id |-> e.id]

\* One pass of it.
LEMMA SweepOne ==
  ASSUME NEW scan \in Scan, NEW entry \in Entry, NEW list
  PROVE  /\ Sweep(scan, entry, list) \in Scan
         /\ entry.id \in Ids(list) =>
              Sweep(scan, entry, list) =
                [active |-> Append(scan.active, entry), changes |-> scan.changes]
         /\ entry.id \notin Ids(list) =>
              Sweep(scan, entry, list) =
                [active |-> scan.active, changes |-> Append(scan.changes, Cancel(entry))]
<1>1. /\ scan.active \in Seq(Entry) /\ scan.changes \in Seq(Change)
      /\ scan = [active |-> scan.active, changes |-> scan.changes]
  BY DEF Scan
<1>2. Cancel(entry) \in Change
  BY DEF Cancel, Change, ChangeKind, Entry
<1>3. Append(scan.active, entry) \in Seq(Entry) /\ Append(scan.changes, Cancel(entry)) \in Seq(Change)
  BY <1>1, <1>2
<1> QED BY <1>1, <1>3 DEF Sweep, Cancel, Scan

\* The loop's equation.
IsSweep(f, scan, list) ==
  /\ f \in [0 .. Len(scan.active) -> Scan]
  /\ Swept(scan, list) = f[Len(scan.active)]
  /\ f[0] = [active |-> <<>>, changes |-> scan.changes]
  /\ \A n \in 1 .. Len(scan.active) : f[n] = Sweep(f[n - 1], scan.active[n], list)

LEMMA SweepLoop ==
  ASSUME NEW scan \in Scan, NEW list
  PROVE  \E f : IsSweep(f, scan, list)
<1> DEFINE N == Len(scan.active)
           base == [scan EXCEPT !.active = <<>>]
           step == [p \in Scan \X (1 .. N) |-> Sweep(p[1], scan.active[p[2]], list)]
           Solves(f) ==
             f = [n \in 0 .. N |-> IF n = 0 THEN base ELSE Sweep(f[n - 1], scan.active[n], list)]
<1>1. /\ N \in Nat /\ base \in Scan /\ base = [active |-> <<>>, changes |-> scan.changes]
      /\ \A n \in 1 .. N : scan.active[n] \in Entry
  <2>1. /\ scan.active \in Seq(Entry) /\ scan.changes \in Seq(Change)
        /\ scan = [active |-> scan.active, changes |-> scan.changes]
    BY DEF Scan
  <2>2. <<>> \in Seq(Entry)
    OBVIOUS
  <2>3. base = [active |-> <<>>, changes |-> scan.changes]
    BY <2>1
  <2>4. base \in Scan
    <3> HIDE DEF base
    <3> QED BY <2>1, <2>2, <2>3 DEF Scan
  <2>5. N \in Nat /\ \A n \in 1 .. N : scan.active[n] \in Entry
    BY <2>1
  <2> QED BY <2>3, <2>4, <2>5
<1>2. step \in Steps(Scan, N)
  BY <1>1, SweepOne DEF Steps
<1>3. PICK g : Passes(g, N, Scan, base, step)
  <2> HIDE DEF N, base, step
  <2>1. N \in Nat /\ base \in Scan /\ step \in Steps(Scan, N)
    BY <1>1, <1>2
  <2> QED BY <2>1, LoopExists
<1>4. \A n \in 1 .. N : step[<<g[n - 1], n>>] = Sweep(g[n - 1], scan.active[n], list)
  <2>1. \A n \in 1 .. N : n - 1 \in 0 .. N
    BY <1>1
  <2>2. \A n \in 1 .. N : g[n - 1] \in Scan
    BY <1>3, <2>1 DEF Passes
  <2> QED BY <2>2
<1>5. Solves(g)
  <2> DEFINE h == [n \in 0 .. N |-> IF n = 0 THEN base ELSE Sweep(g[n - 1], scan.active[n], list)]
  <2>1. ASSUME NEW n \in 0 .. N PROVE g[n] = h[n]
    <3>1. n = 0 \/ n \in 1 .. N
      BY <1>1
    <3> HIDE DEF base, step
    <3> QED BY <1>1, <1>3, <1>4, <3>1 DEF Passes
  <2>2. DOMAIN h = 0 .. N /\ h = [n \in 0 .. N |-> h[n]]
    OBVIOUS
  <2>3. g = h
    <3> HIDE DEF h
    <3> QED BY <1>3, <2>1, <2>2 DEF Passes
  <2> QED BY <2>3
<1> DEFINE f == CHOOSE f : Solves(f)
<1>6. Swept(scan, list) = f[N]
  BY DEF Swept
<1>7. Solves(f)
  <2> HIDE DEF Solves
  <2> QED BY <1>5
<1> HIDE DEF f
<1>8. f[0] = base /\ \A n \in 1 .. N : f[n] = Sweep(f[n - 1], scan.active[n], list)
  BY <1>1, <1>7
<1>9. f \in [0 .. N -> Scan]
  <2> DEFINE T == {n \in 0 .. N : f[n] \in Scan}
  <2>1. 0 \in T
    BY <1>1, <1>8
  <2>2. \A n \in 1 .. N : n - 1 \in T => n \in T
    <3> SUFFICES ASSUME NEW n \in 1 .. N, f[n - 1] \in Scan PROVE f[n] \in Scan
      BY <1>1
    <3>1. Sweep(f[n - 1], scan.active[n], list) \in Scan
      BY <1>1, SweepOne
    <3> QED BY <1>8, <3>1
  <2> HIDE DEF T
  <2>3. 0 .. N \subseteq T
    BY <1>1, <2>1, <2>2, LoopInduction
  <2>4. \A n \in 0 .. N : f[n] \in Scan
    BY <2>3 DEF T
  <2> QED BY <1>7, <2>4
<1>10. IsSweep(f, scan, list)
  BY <1>1, <1>6, <1>8, <1>9 DEF IsSweep
<1> QED BY <1>10

\* Behind it the active list holds what is desired, and what is not was
\* cancelled, behind the other changes.
LEMMA SweepMeans ==
  ASSUME NEW scan \in Scan, Distinct(scan.active), Distinct(scan.changes),
         NEW list, Ids(scan.changes) \subseteq Ids(list)
  PROVE  /\ Swept(scan, list) \in Scan
         /\ Distinct(Swept(scan, list).active)
         /\ Range(Swept(scan, list).active) = {e \in Range(scan.active) : e.id \in Ids(list)}
         /\ Distinct(Swept(scan, list).changes)
         /\ Range(Swept(scan, list).changes) =
              Range(scan.changes)
                \cup {Cancel(e) : e \in {e \in Range(scan.active) : e.id \notin Ids(list)}}
<1> DEFINE A == scan.active
           N == Len(A)
<1>0. /\ A \in Seq(Entry) /\ N \in Nat /\ DOMAIN A = 1 .. N
      /\ \A n \in 1 .. N : A[n] \in Entry
  BY DEF Scan
<1>1. PICK f : IsSweep(f, scan, list)
  BY SweepLoop, Zenon
<1>2. /\ f \in [0 .. N -> Scan]
      /\ Swept(scan, list) = f[N]
      /\ f[0] = [active |-> <<>>, changes |-> scan.changes]
      /\ \A n \in 1 .. N : f[n] = Sweep(f[n - 1], A[n], list)
  BY <1>1 DEF IsSweep
<1> DEFINE Seen(n) == {A[i] : i \in 1 .. n}
           Good(n) == /\ Distinct(f[n].active)
                      /\ Range(f[n].active) = {e \in Seen(n) : e.id \in Ids(list)}
                      /\ Distinct(f[n].changes)
                      /\ Range(f[n].changes) =
                           Range(scan.changes) \cup {Cancel(e) : e \in {e \in Seen(n) : e.id \notin Ids(list)}}
           T == {n \in 0 .. N : Good(n)}
<1>3. 0 \in T
  <2>1. f[0].active = <<>> /\ f[0].changes = scan.changes /\ Seen(0) = {} /\ 0 \in 0 .. N
    BY <1>0, <1>2
  <2> HIDE DEF Seen
  <2> QED BY <2>1 DEF Distinct, Range
<1>4. ASSUME NEW n \in 1 .. N, n - 1 \in T PROVE n \in T
  <2> DEFINE s == f[n - 1]
             entry == A[n]
  <2>1. /\ s \in Scan /\ entry \in Entry /\ f[n] = Sweep(s, entry, list)
        /\ n \in Nat /\ n - 1 \in 0 .. N /\ n \in 0 .. N
        /\ s.active \in Seq(Entry) /\ s.changes \in Seq(Change)
    <3>1. n \in Nat /\ n - 1 \in 0 .. N /\ n \in 0 .. N
      BY <1>0
    <3>2. s \in Scan
      BY <1>2, <3>1
    <3>3. s.active \in Seq(Entry) /\ s.changes \in Seq(Change)
      BY <3>2 DEF Scan
    <3> QED BY <1>0, <1>2, <3>1, <3>2, <3>3
  <2>2. Good(n - 1)
    BY <1>4
  <2>3. Seen(n) = Seen(n - 1) \cup {entry}
    <3>1. 1 .. n = (1 .. n - 1) \cup {n}
      BY <2>1
    <3> QED BY <3>1
  <2>4. \A e \in Seen(n - 1) : e.id # entry.id
    <3>1. \A i \in 1 .. n - 1 : i \in DOMAIN A /\ i # n /\ n \in DOMAIN A
      BY <1>0
    <3> QED BY <3>1 DEF Distinct
  <2> HIDE DEF s, entry, Seen
  <2>5. CASE entry.id \in Ids(list)
    <3>1. f[n].active = Append(s.active, entry) /\ f[n].changes = s.changes
      BY <2>1, <2>5, SweepOne
    <3>2. Range(f[n].active) = {e \in Seen(n) : e.id \in Ids(list)}
      BY <2>1, <2>2, <2>3, <2>5, <3>1, Appended DEF s
    <3>3. Distinct(f[n].active)
      <4>1. \A i \in DOMAIN s.active : s.active[i].id # entry.id
        BY <2>2, <2>4 DEF s, Range
      <4> QED BY <2>1, <2>2, <3>1, <4>1, Appended DEF Distinct, s
    <3>4. {e \in Seen(n) : e.id \notin Ids(list)} = {e \in Seen(n - 1) : e.id \notin Ids(list)}
      BY <2>3, <2>5
    <3> QED BY <2>1, <2>2, <3>1, <3>2, <3>3, <3>4 DEF s
  <2>6. CASE entry.id \notin Ids(list)
    <3>1. f[n].active = s.active /\ f[n].changes = Append(s.changes, Cancel(entry))
      BY <2>1, <2>6, SweepOne
    <3>2. {e \in Seen(n) : e.id \in Ids(list)} = {e \in Seen(n - 1) : e.id \in Ids(list)}
      BY <2>3, <2>6
    <3>3. Cancel(entry) \in Change /\ Cancel(entry).id = entry.id
      BY <2>1 DEF Cancel, Change, ChangeKind, Entry
    <3>4. Range(f[n].changes) = Range(s.changes) \cup {Cancel(entry)}
      BY <2>1, <3>1, <3>3, Appended
    <3>5. Range(f[n].changes) =
            Range(scan.changes) \cup {Cancel(e) : e \in {e \in Seen(n) : e.id \notin Ids(list)}}
      BY <2>2, <2>3, <2>6, <3>4 DEF s
    <3>6. \A i \in DOMAIN s.changes : s.changes[i].id # entry.id
      <4>1. \A c \in Range(scan.changes) : c.id \in Ids(list)
        BY DEF Ids, Range
      <4>2. \A e : Cancel(e).id = e.id
        BY DEF Cancel
      <4>3. \A c \in Range(s.changes) : c.id # entry.id
        BY <2>2, <2>4, <2>6, <4>1, <4>2 DEF s
      <4> QED BY <4>3 DEF Range
    <3>7. Distinct(f[n].changes)
      BY <2>1, <2>2, <3>1, <3>3, <3>6, Appended DEF Distinct, s
    <3> QED BY <2>1, <2>2, <3>1, <3>2, <3>5, <3>7 DEF s
  <2> QED BY <2>5, <2>6
<1>5. Good(N)
  <2> HIDE DEF T, N
  <2>1. 0 .. N \subseteq T
    BY <1>0, <1>3, <1>4, LoopInduction
  <2>2. N \in T
    BY <1>0, <2>1
  <2> QED BY <2>2 DEF T
<1>6. Seen(N) = Range(A)
  BY <1>0 DEF Range
<1>7. f[N] \in Scan
  BY <1>0, <1>2
<1> HIDE DEF Seen
<1> QED BY <1>2, <1>5, <1>6, <1>7

-----------------------------------------------------------------------------
(***************************************************************************)
(* What a call answers.                                                    *)
(***************************************************************************)
\* The changes of two maps, one identity at a time.
LEMMA ChangesOne ==
  ASSUME NEW was, NEW wanted, NEW c
  PROVE  c \in Changes(was, wanted) <=>
           /\ c.id \in DOMAIN wanted /\ c = [kind |-> c.kind, id |-> c.id]
           /\ \/ /\ wanted[c.id] # NoDescriptor
                 /\ c.kind = IF was[c.id] = NoDescriptor THEN "Start"
                             ELSE IF was[c.id] = wanted[c.id] THEN "Retain" ELSE "Replace"
              \/ /\ wanted[c.id] = NoDescriptor /\ was[c.id] # NoDescriptor
                 /\ c.kind = "Cancel"
BY DEF Changes

\* A list without repeats leaves itself as the bookkeeping, and answers the
\* difference, one change per identity.
LEMMA ReconciledMeans ==
  ASSUME active \in Seq(Entry), Distinct(active),
         NEW list \in Seq(Entry), Distinct(list),
         NEW swept, swept = Swept(Scanned(list), list)
  PROVE  /\ swept \in Scan /\ Distinct(swept.active) /\ Distinct(swept.changes)
         /\ Range(swept.active) = Range(list)
         /\ Range(swept.changes) = Changes(MapOf(active), MapOf(list))
<1> DEFINE scan == Scanned(list)
           old == MapOf(active)
           new == MapOf(list)
<1>1. /\ scan \in Scan /\ Distinct(scan.active) /\ Len(scan.changes) = Len(list)
      /\ Range(scan.active) =
           {e \in Range(active) : e.id \notin Ids(list)} \cup Range(list)
      /\ \A i \in DOMAIN list : scan.changes[i] = Verdict(old, list[i])
  BY ScanMeans
<1>2. scan.changes \in Seq(Change)
  BY <1>1 DEF Scan
<1> HIDE DEF scan, old, new
<1>3. DOMAIN scan.changes = DOMAIN list
  BY <1>1, <1>2
<1>4. \A i \in DOMAIN list : scan.changes[i].id = list[i].id
  <2>1. \A e : Verdict(old, e).id = e.id
    BY DEF Verdict
  <2> QED BY <1>1, <2>1
<1>5. Distinct(scan.changes) /\ Ids(scan.changes) \subseteq Ids(list)
  BY <1>3, <1>4 DEF Distinct, Ids
<1>6. Range(scan.changes) = {Verdict(old, e) : e \in Range(list)}
  BY <1>1, <1>3 DEF Range
<1>7. /\ swept \in Scan /\ Distinct(swept.active) /\ Distinct(swept.changes)
      /\ Range(swept.active) = {e \in Range(scan.active) : e.id \in Ids(list)}
      /\ Range(swept.changes) =
           Range(scan.changes)
             \cup {Cancel(e) : e \in {e \in Range(scan.active) : e.id \notin Ids(list)}}
  BY <1>1, <1>5, SweepMeans DEF scan
<1>8. \A e \in Range(list) : e.id \in Ids(list) /\ e \in Entry
  BY DEF Range, Ids
<1>9. \A e \in Range(active) : e \in Entry /\ e.id \in Ids(active)
  BY DEF Range, Ids
<1>10. Range(swept.active) = Range(list)
  BY <1>1, <1>7, <1>8
<1>11. {e \in Range(scan.active) : e.id \notin Ids(list)} =
         {e \in Range(active) : e.id \notin Ids(list)}
  BY <1>1, <1>8
<1>12. \A id \in Identities :
         /\ \A e \in Range(list) : e.id = id => new[id] = e.descriptor
         /\ id \in Ids(list) => new[id] # NoDescriptor
         /\ id \notin Ids(list) => new[id] = NoDescriptor
         /\ id \in Ids(active) => old[id] # NoDescriptor
         /\ id \notin Ids(active) => old[id] = NoDescriptor
  BY MapOfDistinct DEF new, old
<1>13. DOMAIN new = Identities
  BY DEF new, MapOf
<1>14. \A id : /\ id \in Ids(list) <=> \E e \in Range(list) : e.id = id
               /\ id \in Ids(active) <=> \E e \in Range(active) : e.id = id
  BY DEF Ids, Range
<1>15. \A c : c \in Range(swept.changes) <=>
         \/ \E e \in Range(list) : c = Verdict(old, e)
         \/ \E e \in Range(active) : e.id \notin Ids(list) /\ c = Cancel(e)
  BY <1>6, <1>7, <1>11
<1>16. ASSUME NEW c, c \in Range(swept.changes) PROVE c \in Changes(old, new)
  <2>1. CASE \E e \in Range(list) : c = Verdict(old, e)
    <3>1. PICK e \in Range(list) : c = Verdict(old, e)
      BY <2>1
    <3>2. e.id \in Identities /\ c.id = e.id /\ new[e.id] = e.descriptor /\ new[e.id] # NoDescriptor
      BY <1>8, <1>12, <3>1 DEF Verdict, Entry
    <3> QED BY <1>13, <3>1, <3>2, ChangesOne DEF Verdict
  <2>2. CASE \E e \in Range(active) : e.id \notin Ids(list) /\ c = Cancel(e)
    <3>1. PICK e \in Range(active) : e.id \notin Ids(list) /\ c = Cancel(e)
      BY <2>2
    <3>2. e.id \in Identities /\ c.id = e.id /\ new[e.id] = NoDescriptor /\ old[e.id] # NoDescriptor
      BY <1>9, <1>12, <3>1 DEF Cancel, Entry
    <3> QED BY <1>13, <3>1, <3>2, ChangesOne DEF Cancel
  <2> QED BY <1>15, <1>16, <2>1, <2>2
<1>17. ASSUME NEW c, c \in Changes(old, new) PROVE c \in Range(swept.changes)
  <2>1. /\ c.id \in Identities /\ c = [kind |-> c.kind, id |-> c.id]
        /\ \/ /\ new[c.id] # NoDescriptor
              /\ c.kind = IF old[c.id] = NoDescriptor THEN "Start"
                          ELSE IF old[c.id] = new[c.id] THEN "Retain" ELSE "Replace"
           \/ new[c.id] = NoDescriptor /\ old[c.id] # NoDescriptor /\ c.kind = "Cancel"
    BY <1>13, <1>17, ChangesOne
  <2>2. CASE new[c.id] # NoDescriptor
    <3>1. PICK e \in Range(list) : e.id = c.id
      BY <1>12, <1>14, <2>1, <2>2
    <3>2. new[c.id] = e.descriptor
      BY <1>12, <2>1, <3>1
    <3>3. c = Verdict(old, e)
      BY <2>1, <2>2, <3>1, <3>2 DEF Verdict
    <3> QED BY <1>15, <3>1, <3>3
  <2>3. CASE new[c.id] = NoDescriptor
    <3>1. PICK e \in Range(active) : e.id = c.id
      BY <1>12, <1>14, <2>1, <2>3
    <3>2. e.id \notin Ids(list)
      BY <1>12, <2>1, <2>3, <3>1
    <3>3. c = Cancel(e)
      BY <2>1, <2>3, <3>1 DEF Cancel
    <3> QED BY <1>15, <3>1, <3>2, <3>3
  <2> QED BY <2>2, <2>3
<1>18. Range(swept.changes) = Changes(old, new)
  BY <1>16, <1>17
<1> QED BY <1>7, <1>10, <1>18 DEF old, new

\* Two lists of the same entries, neither with a repeat, are the same map.
LEMMA SameMap ==
  ASSUME NEW s \in Seq(Entry), NEW t \in Seq(Entry), Distinct(s), Distinct(t),
         Range(s) = Range(t)
  PROVE  MapOf(s) = MapOf(t)
<1>1. ASSUME NEW id \in Identities PROVE MapOf(s)[id] = MapOf(t)[id]
  <2>1. /\ id \in Ids(s) <=> \E e \in Range(s) : e.id = id
        /\ id \in Ids(t) <=> \E e \in Range(t) : e.id = id
    BY DEF Ids, Range
  <2>2. /\ \A e \in Range(s) : e.id = id => MapOf(s)[id] = e.descriptor
        /\ id \notin Ids(s) => MapOf(s)[id] = NoDescriptor
        /\ \A e \in Range(t) : e.id = id => MapOf(t)[id] = e.descriptor
        /\ id \notin Ids(t) => MapOf(t)[id] = NoDescriptor
    BY MapOfDistinct
  <2> QED BY <2>1, <2>2
<1> QED BY <1>1 DEF MapOf

\* A list repeats an identity just when it is not without repeats.
LEMMA RepeatsMeans ==
  ASSUME NEW list \in Seq(Entry)
  PROVE  Repeats(list) = {} <=> Distinct(list)
<1>1. DOMAIN list \subseteq Nat /\ \A j \in DOMAIN list : 1 .. j - 1 \subseteq DOMAIN list
  OBVIOUS
<1>2. ASSUME Distinct(list), NEW j \in Repeats(list) PROVE FALSE
  <2>1. PICK i \in 1 .. j - 1 : list[i].id = list[j].id
    BY <1>2 DEF Repeats
  <2>2. j \in DOMAIN list /\ i \in DOMAIN list /\ i # j
    BY <1>1, <1>2 DEF Repeats
  <2> QED BY <1>2, <2>1, <2>2 DEF Distinct
<1>3. ASSUME Repeats(list) = {}, NEW i \in DOMAIN list, NEW j \in DOMAIN list,
             list[i].id = list[j].id
      PROVE  i = j
  <2>1. ~(i < j) /\ ~(j < i)
    BY <1>1, <1>3 DEF Repeats
  <2> QED BY <1>1, <2>1
<1> QED BY <1>2, <1>3 DEF Distinct

\* Changes of different identities are different.
LEMMA CountsChanges ==
  ASSUME NEW s \in Seq(Change), Distinct(s)
  PROVE  Len(s) = Cardinality(Range(s))
<1> DEFINE n == Len(s)
<1>1. n \in Nat /\ DOMAIN s = 1 .. n
  OBVIOUS
<1>2. s \in Surjection(1 .. n, Range(s))
  BY <1>1 DEF Surjection, Range
<1>3. s \in Injection(1 .. n, Range(s))
  BY <1>1, <1>2 DEF Injection, IsInjective, Distinct, Surjection
<1>4. IsFiniteSet(1 .. n) /\ Cardinality(1 .. n) = n
  BY <1>1, FS_Interval
<1> QED BY <1>2, <1>3, <1>4, FS_Surjection

-----------------------------------------------------------------------------
(***************************************************************************)
(* The reconciler.                                                         *)
(***************************************************************************)
\* The inductive invariant: the bookkeeping is a list without repeats.
ReconcilerInv ==
  /\ active \in Seq(Entry) /\ Distinct(active)
  /\ desired \in Seq(Entry)
  /\ AnswerIsChanges

\* A list counts its identities just when it repeats none.
LEMMA CountsIds ==
  ASSUME NEW s \in Seq(Entry)
  PROVE  Len(s) = Cardinality(Ids(s)) <=> Distinct(s)
<1>1. Len(s) \in Nat /\ DOMAIN s = 1 .. Len(s)
  OBVIOUS
<1>2. Cardinality(Ids(s)) = Len(s) <=> Distinct(s)
  BY <1>1, CountsDistinct DEF Ids
<1> QED BY <1>2

\* Nothing is active or desired at first.
LEMMA ReconcilerInit == Init => ReconcilerInv
<1> SUFFICES ASSUME Init PROVE ReconcilerInv
  OBVIOUS
<1>1. active = <<>> /\ before = <<>> /\ desired = <<>> /\ answer.changes = <<>>
  BY DEF Init
<1>2. active \in Seq(Entry) /\ desired \in Seq(Entry) /\ Distinct(active)
  BY <1>1 DEF Distinct
<1>3. Range(answer.changes) = {} /\ Len(answer.changes) = 0
  BY <1>1 DEF Range
<1>4. Cardinality({}) = 0
  BY FS_EmptySet
<1>5. MapOf(active) = [id \in Identities |-> NoDescriptor]
  BY <1>1 DEF MapOf, At
<1>6. Changes(MapOf(before), MapOf(desired)) = {}
  <2>1. \A c : c \notin Changes(MapOf(before), MapOf(desired))
    BY <1>1, <1>5, ChangesOne
  <2> QED BY <2>1
<1>7. AnswerIsChanges
  <2>1. Len(active) = Cardinality(Ids(active))
    BY <1>2, CountsIds
  <2> QED BY <1>1, <1>3, <1>4, <1>6, <2>1 DEF AnswerIsChanges
<1> QED BY <1>2, <1>7 DEF ReconcilerInv

\* A call keeps it, whether the list is reconciled or refused.
LEMMA ReconcilerNext ==
  ASSUME ReconcilerInv, NEW list \in Seq(Entry), ReconcileList(list)
  PROVE  ReconcilerInv'
<1>1. active \in Seq(Entry) /\ Distinct(active) /\ before' = active /\ desired' = list
  BY DEF ReconcilerInv, ReconcileList
<1>2. CASE Repeats(list) = {}
  <2> DEFINE swept == Swept(Scanned(list), list)
  <2>1. active' = swept.active /\ answer' = [changes |-> swept.changes]
    BY <1>2 DEF ReconcileList
  <2>2. Distinct(list) /\ Len(list) = Cardinality(Ids(list))
    BY <1>2, RepeatsMeans, CountsIds
  <2>3. /\ swept \in Scan /\ Distinct(swept.active) /\ Distinct(swept.changes)
        /\ Range(swept.active) = Range(list)
        /\ Range(swept.changes) = Changes(MapOf(active), MapOf(list))
    BY <1>1, <2>2, ReconciledMeans
  <2>4. swept.active \in Seq(Entry) /\ swept.changes \in Seq(Change)
    BY <2>3 DEF Scan
  <2> HIDE DEF swept
  <2>5. MapOf(swept.active) = MapOf(list)
    BY <2>2, <2>3, <2>4, SameMap
  <2>6. Len(swept.active) = Cardinality(Ids(swept.active))
    BY <2>3, <2>4, CountsIds
  <2>7. Len(swept.changes) = Cardinality(Range(swept.changes))
    BY <2>3, <2>4, CountsChanges
  <2>8. /\ MapOf(active)' = MapOf(swept.active) /\ MapOf(desired)' = MapOf(list)
        /\ MapOf(before)' = MapOf(active) /\ Ids(active)' = Ids(swept.active)
        /\ Ids(desired)' = Ids(list) /\ Distinct(active)' = Distinct(swept.active)
    BY <1>1, <2>1 DEF MapOf, At, Ids, Distinct
  <2>9. answer'.changes = swept.changes
    BY <2>1
  <2>10. AnswerIsChanges'
    BY <1>1, <2>1, <2>2, <2>3, <2>5, <2>6, <2>7, <2>8, <2>9 DEF AnswerIsChanges
  <2> QED BY <1>1, <2>1, <2>3, <2>4, <2>8, <2>10 DEF ReconcilerInv
<1>3. CASE Repeats(list) # {}
  <2> DEFINE j == CHOOSE j \in Repeats(list) : \A k \in Repeats(list) : j <= k
  <2>1. active' = active /\ answer' = [repeated |-> list[j].id]
    BY <1>3 DEF ReconcileList
  <2>2. j \in DOMAIN list
    <3>1. Repeats(list) \subseteq DOMAIN list /\ DOMAIN list \subseteq Nat
      BY DEF Repeats
    <3> QED BY <1>3, <3>1, SmallestNumber
  <2> HIDE DEF j
  <2>3. answer'.repeated \in Ids(list)
    BY <2>1, <2>2 DEF Ids
  <2>4. Len(list) # Cardinality(Ids(list))
    BY <1>3, RepeatsMeans, CountsIds
  <2>5. Len(active) = Cardinality(Ids(active))
    BY <1>1, CountsIds
  <2>6. Ids(active)' = Ids(active) /\ Ids(desired)' = Ids(list) /\ Distinct(active)' = Distinct(active)
    BY <1>1, <2>1 DEF Ids, Distinct
  <2>7. AnswerIsChanges'
    BY <1>1, <2>1, <2>3, <2>4, <2>5, <2>6 DEF AnswerIsChanges
  <2> QED BY <1>1, <2>1, <2>6, <2>7 DEF ReconcilerInv
<1> QED BY <1>2, <1>3

\* It holds throughout.
LEMMA ReconcilerInvariant == Spec => []ReconcilerInv
<1>1. ASSUME ReconcilerInv, [Next]_vars PROVE ReconcilerInv'
  <2>1. CASE UNCHANGED vars
    <3>1. /\ active' = active /\ before' = before /\ desired' = desired /\ answer' = answer
      BY <2>1 DEF vars
    <3>2. /\ MapOf(active)' = MapOf(active) /\ MapOf(before)' = MapOf(before)
          /\ MapOf(desired)' = MapOf(desired)
      BY <3>1 DEF MapOf, At
    <3>3. /\ Ids(active)' = Ids(active) /\ Ids(desired)' = Ids(desired)
          /\ Distinct(active)' = Distinct(active)
      BY <3>1 DEF Ids, Distinct
    <3>4. AnswerIsChanges'
      BY <1>1, <3>1, <3>2, <3>3 DEF ReconcilerInv, AnswerIsChanges
    <3> QED BY <1>1, <3>1, <3>3, <3>4 DEF ReconcilerInv
  <2>2. CASE Next
    <3>1. PICK list \in DesiredLists : ReconcileList(list)
      BY <2>2 DEF Next
    <3>2. list \in Seq(Entry)
      BY DEF DesiredLists
    <3> QED BY <1>1, <3>1, <3>2, ReconcilerNext
  <2> QED BY <1>1, <2>1, <2>2
<1> QED BY <1>1, ReconcilerInit, PTL DEF Spec

\* SubscriptionReconciler::reconcile answers the difference of what was
\* active and what is desired, one change per identity, and keeps what is
\* desired without repeats; a list that repeats an identity is refused and
\* changes nothing.
THEOREM AnswersAreChanges == Spec => []AnswerIsChanges
<1>1. ReconcilerInv => AnswerIsChanges
  BY DEF ReconcilerInv
<1> QED BY <1>1, ReconcilerInvariant, PTL
==============================================================================
