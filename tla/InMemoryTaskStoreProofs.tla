------------------------ MODULE InMemoryTaskStoreProofs ------------------------
(***************************************************************************)
(* The in-process attribution store forgets, keeps and claims as a plain   *)
(* queue of live associations does, for any number of keys and any         *)
(* capacity.  Both directions rest on one fact about the queue (Sound):    *)
(* its generations increase, and every live association has its entry in   *)
(* it.  What an operation makes of the live entries is told by giving an   *)
(* enumeration of their positions (Enumerates), which determines the       *)
(* sequence that Retain picks (EnumerationDecides).                        *)
(***************************************************************************)
EXTENDS InMemoryTaskStore, FiniteSetTheorems, TLAPS

(***************************************************************************)
(* Sets of positions, in order.                                            *)
(***************************************************************************)
\* f lists the n elements of ps in increasing order.
Enumerates(f, n, ps) ==
  /\ f \in [1..n -> ps]
  /\ \A i, j \in 1..n : i < j => f[i] < f[j]
  /\ \A p \in ps : \E i \in 1..n : f[i] = p

\* An increasing list of a set has its cardinality as its length.
LEMMA EnumerationCounts ==
  ASSUME NEW ps \in SUBSET Nat, NEW n \in Nat, NEW f, Enumerates(f, n, ps)
  PROVE  IsFiniteSet(ps) /\ Cardinality(ps) = n
<1>1. f \in [1..n -> ps] /\ \A i \in 1..n : f[i] \in Nat
  BY DEF Enumerates
<1>2. \A i, j \in 1..n : f[i] = f[j] => i = j
  <2> SUFFICES ASSUME NEW i \in 1..n, NEW j \in 1..n, f[i] = f[j] PROVE i = j
    OBVIOUS
  <2>1. ~(i < j) /\ ~(j < i)
    BY <1>1 DEF Enumerates
  <2> QED BY <2>1
<1>3. f \in Bijection(1..n, ps)
  BY <1>1, <1>2 DEF Enumerates, Bijection, Injection, Surjection, IsInjective
<1>4. ExistsBijection(1..n, ps)
  BY <1>3 DEF ExistsBijection
<1> QED BY <1>4, FS_NatBijection, FS_CountingElements

\* It lists the elements where Nth finds them.
LEMMA EnumerationIsNth ==
  ASSUME NEW ps \in SUBSET Nat, NEW n \in Nat, NEW f, Enumerates(f, n, ps), NEW i \in 1..n
  PROVE  Nth(ps, i) = f[i]
<1> DEFINE upto(p) == {q \in ps : q <= p}
<1>1. f \in [1..n -> ps] /\ \A j \in 1..n : f[j] \in Nat
  BY DEF Enumerates
<1>2. ASSUME NEW k \in 1..n PROVE Cardinality(upto(f[k])) = k
  <2> DEFINE g == [j \in 1..k |-> f[j]]
  <2>1. \A j \in 1..k : j \in 1..n /\ (j < k \/ j = k)
    BY <1>2
  <2>2. \A j \in 1..k : f[j] \in upto(f[k])
    BY <1>1, <1>2, <2>1 DEF Enumerates
  <2>3. \A p \in upto(f[k]) : \E j \in 1..k : f[j] = p
    <3> SUFFICES ASSUME NEW p \in upto(f[k]) PROVE \E j \in 1..k : f[j] = p
      OBVIOUS
    <3>1. PICK j \in 1..n : f[j] = p
      BY DEF Enumerates
    <3>2. ~(k < j)
      BY <1>1, <1>2, <3>1 DEF Enumerates
    <3> QED BY <1>2, <3>1, <3>2
  <2>4. \A a, b \in 1..k : a < b => g[a] < g[b]
    BY <2>1 DEF Enumerates
  <2>5. Enumerates(g, k, upto(f[k]))
    BY <2>2, <2>3, <2>4 DEF Enumerates
  <2>6. upto(f[k]) \in SUBSET Nat /\ k \in Nat
    <3>1. \A x \in upto(f[k]) : x \in Nat
      OBVIOUS
    <3>2. k \in Nat
      BY <1>2
    <3> HIDE DEF upto
    <3> QED BY <3>1, <3>2
  <2> HIDE DEF g, upto
  <2> QED BY <2>5, <2>6, EnumerationCounts
<1>3. f[i] \in ps /\ Cardinality(upto(f[i])) = i
  BY <1>1, <1>2
<1>4. ASSUME NEW p \in ps, Cardinality(upto(p)) = i PROVE p = f[i]
  <2>1. PICK k \in 1..n : f[k] = p
    BY DEF Enumerates
  <2> HIDE DEF upto
  <2> QED BY <1>2, <1>4, <2>1
<1> QED BY <1>3, <1>4 DEF Nth

\* Nth lists every finite set of positions.
LEMMA NthEnumerates ==
  ASSUME NEW ps \in SUBSET Nat, IsFiniteSet(ps)
  PROVE  /\ Cardinality(ps) \in Nat
         /\ Enumerates([n \in 1..Cardinality(ps) |-> Nth(ps, n)], Cardinality(ps), ps)
<1> DEFINE size == Cardinality(ps)
           upto(p) == {q \in ps : q <= p}
           rank == [p \in ps |-> Cardinality(upto(p))]
<1>1. size \in Nat
  BY FS_CardinalityType
<1>2. ASSUME NEW p \in ps
      PROVE  IsFiniteSet(upto(p)) /\ rank[p] \in 1..size
  <2>1. upto(p) \in SUBSET ps /\ p \in upto(p)
    OBVIOUS
  <2>2. IsFiniteSet(upto(p)) /\ Cardinality(upto(p)) <= size
    BY <2>1, FS_Subset
  <2>3. Cardinality(upto(p)) \in Nat /\ Cardinality(upto(p)) # 0
    BY <2>1, <2>2, FS_CardinalityType, FS_EmptySet
  <2> HIDE DEF upto
  <2> QED BY <1>1, <2>2, <2>3
<1>3. ASSUME NEW p \in ps, NEW q \in ps, p < q PROVE rank[p] < rank[q]
  <2>1. upto(p) \in SUBSET upto(q) /\ q \in upto(q) /\ q \notin upto(p)
    <3>1. p \in Nat /\ q \in Nat /\ \A x \in ps : x \in Nat
      OBVIOUS
    <3>2. \A x \in upto(p) : x \in upto(q)
      BY <1>3, <3>1
    <3>3. q \in upto(q) /\ q \notin upto(p)
      BY <1>3, <3>1
    <3> HIDE DEF upto
    <3> QED BY <3>2, <3>3
  <2>2. /\ Cardinality(upto(p)) <= Cardinality(upto(q))
        /\ Cardinality(upto(q)) # Cardinality(upto(p))
    BY <1>2, <2>1, FS_Subset
  <2>3. Cardinality(upto(p)) \in Nat /\ Cardinality(upto(q)) \in Nat
    BY <1>2
  <2> HIDE DEF upto
  <2> QED BY <2>2, <2>3
<1>4. \A p, q \in ps : rank[p] = rank[q] => p = q
  <2> SUFFICES ASSUME NEW p \in ps, NEW q \in ps, rank[p] = rank[q] PROVE p = q
    OBVIOUS
  <2>1. ~(p < q) /\ ~(q < p)
    BY <1>2, <1>3
  <2> QED BY <2>1
<1>5. rank \in [ps -> 1..size]
  BY <1>2
<1> HIDE DEF rank
<1>6. rank \in Injection(ps, 1..size)
  BY <1>4, <1>5 DEF Injection, IsInjective
<1>7. IsFiniteSet(1..size) /\ Cardinality(1..size) = size
  BY <1>1, FS_Interval
<1>8. rank \in Surjection(ps, 1..size)
  BY <1>6, <1>7, FS_Injection
<1>9. ASSUME NEW n \in 1..size PROVE Nth(ps, n) \in ps /\ rank[Nth(ps, n)] = n
  <2>1. \E p \in ps : rank[p] = n
    BY <1>8 DEF Surjection
  <2>2. \A p \in ps : rank[p] = Cardinality({j \in ps : j <= p})
    BY DEF rank
  <2> QED BY <2>1, <2>2 DEF Nth
<1> DEFINE f == [n \in 1..size |-> Nth(ps, n)]
<1>10. f \in [1..size -> ps]
  BY <1>9
<1>11. \A i, j \in 1..size : i < j => f[i] < f[j]
  <2> SUFFICES ASSUME NEW i \in 1..size, NEW j \in 1..size, i < j PROVE f[i] < f[j]
    OBVIOUS
  <2>1. f[i] \in ps /\ f[j] \in ps /\ rank[f[i]] = i /\ rank[f[j]] = j
    BY <1>9
  <2> HIDE DEF f
  <2>2. f[i] \in Nat /\ f[j] \in Nat
    BY <2>1
  <2> HIDE DEF size
  <2>3. f[j] < f[i] => rank[f[j]] < rank[f[i]]
    BY <1>3, <2>1
  <2> QED BY <1>1, <2>1, <2>2, <2>3
<1>12. \A p \in ps : \E i \in 1..size : f[i] = p
  <2> SUFFICES ASSUME NEW p \in ps PROVE f[rank[p]] = p
    BY <1>5
  <2>1. rank[p] \in 1..size
    BY <1>5
  <2>2. Nth(ps, rank[p]) \in ps /\ rank[Nth(ps, rank[p])] = rank[p]
    BY <1>9, <2>1
  <2> QED BY <1>4, <2>1, <2>2
<1> QED BY <1>1, <1>10, <1>11, <1>12 DEF Enumerates
-------------------------------------------------------------------------------
(***************************************************************************)
(* Table and queue.                                                        *)
(***************************************************************************)
Entry == [key : Keys, generation : Nat]
Association == [attribution : Attributions, generation : Nat]

\* The queue is in the order of its generations and has the live ones.
Sound(table, queue, next) ==
  /\ table \in [DOMAIN table -> Association] /\ DOMAIN table \subseteq Keys
  /\ queue \in Seq(Entry) /\ next \in Nat
  /\ \A i \in DOMAIN queue : queue[i].generation < next
  /\ \A i, j \in DOMAIN queue : i < j => queue[i].generation < queue[j].generation
  /\ \A k \in DOMAIN table :
       \E i \in DOMAIN queue : queue[i].key = k /\ queue[i].generation = table[k].generation

\* What is read of a sound queue at a position.
LEMMA QueueEntries ==
  ASSUME NEW table, NEW queue, NEW next, Sound(table, queue, next)
  PROVE  /\ Len(queue) \in Nat /\ DOMAIN queue = 1..Len(queue)
         /\ \A i \in DOMAIN queue : queue[i] \in Entry
BY DEF Sound

\* Each live association has one position, and these can be listed.
LEMMA PositionsListed ==
  ASSUME NEW table, NEW queue, NEW next, Sound(table, queue, next)
  PROVE  /\ CurrentIn(table, queue) \in SUBSET Nat
         /\ IsFiniteSet(DOMAIN table) /\ Cardinality(DOMAIN table) \in Nat
         /\ \A i, j \in CurrentIn(table, queue) : queue[i].key = queue[j].key => i = j
         /\ \A k \in DOMAIN table : \E i \in CurrentIn(table, queue) : queue[i].key = k
         /\ \E f : Enumerates(f, Cardinality(DOMAIN table), CurrentIn(table, queue))
<1> DEFINE ps == CurrentIn(table, queue)
           g == [i \in ps |-> queue[i].key]
<1>1. /\ Len(queue) \in Nat /\ DOMAIN queue = 1..Len(queue)
      /\ \A i \in DOMAIN queue : queue[i] \in Entry
  BY QueueEntries
<1>2. ps \in SUBSET (1..Len(queue)) /\ ps \in SUBSET Nat
  BY <1>1 DEF CurrentIn
<1>3. IsFiniteSet(ps)
  <2>1. IsFiniteSet(1..Len(queue))
    BY <1>1, FS_Interval
  <2> HIDE DEF ps
  <2> QED BY <1>2, <2>1, FS_Subset
<1>4. \A i \in ps : /\ queue[i].key \in DOMAIN table
                    /\ queue[i].generation = table[queue[i].key].generation
  BY DEF CurrentIn, Current
<1>5. \A i, j \in ps : queue[i].key = queue[j].key => i = j
  <2> SUFFICES ASSUME NEW i \in ps, NEW j \in ps, queue[i].key = queue[j].key PROVE i = j
    OBVIOUS
  <2>1. /\ queue[i].generation = queue[j].generation /\ queue[i].generation \in Nat
        /\ i \in DOMAIN queue /\ j \in DOMAIN queue /\ i \in Nat /\ j \in Nat
    BY <1>1, <1>2, <1>4 DEF Entry
  <2>2. ~(i < j) /\ ~(j < i)
    BY <2>1 DEF Sound
  <2> QED BY <2>1, <2>2
<1>6. \A k \in DOMAIN table : \E i \in ps : queue[i].key = k
  BY DEF Sound, CurrentIn, Current
<1> HIDE DEF ps
<1>7. g \in Bijection(ps, DOMAIN table)
  BY <1>4, <1>5, <1>6 DEF Bijection, Injection, Surjection, IsInjective
<1>8. IsFiniteSet(DOMAIN table) /\ Cardinality(DOMAIN table) = Cardinality(ps)
  BY <1>3, <1>7, FS_Bijection DEF ExistsBijection
<1>9. /\ Cardinality(ps) \in Nat
      /\ \E f : Enumerates(f, Cardinality(ps), ps)
  BY <1>2, <1>3, NthEnumerates
<1> QED BY <1>2, <1>5, <1>6, <1>8, <1>9 DEF ps

\* What Retain and LiveIn make of a list of the positions.
LEMMA RetainIs ==
  ASSUME NEW ps \in SUBSET Nat, NEW n \in Nat, NEW f, Enumerates(f, n, ps), NEW s
  PROVE  Retain(s, ps) = [i \in 1..n |-> s[f[i]]]
BY EnumerationCounts, EnumerationIsNth DEF Retain

LEMMA LiveInIs ==
  ASSUME NEW table, NEW queue, NEW n \in Nat, NEW f,
         CurrentIn(table, queue) \in SUBSET Nat, Enumerates(f, n, CurrentIn(table, queue))
  PROVE  LiveIn(table, queue) =
           [i \in 1..n |-> [key |-> queue[f[i]].key,
                            attribution |-> table[queue[f[i]].key].attribution]]
<1> DEFINE ps == CurrentIn(table, queue)
<1>1. ps \in SUBSET Nat /\ Enumerates(f, n, ps)
  OBVIOUS
<1> HIDE DEF ps
<1>2. Retain(queue, ps) = [i \in 1..n |-> queue[f[i]]]
  BY <1>1, RetainIs
<1> QED BY <1>2 DEF LiveIn, ps

\* The live associations, each once.
LEMMA LiveInHolds ==
  ASSUME NEW table, NEW queue, NEW next, Sound(table, queue, next)
  PROVE  /\ LiveIn(table, queue) \in Seq([key : Keys, attribution : Attributions])
         /\ Len(LiveIn(table, queue)) = Cardinality(DOMAIN table)
         /\ \A i \in DOMAIN LiveIn(table, queue) :
              /\ LiveIn(table, queue)[i].key \in DOMAIN table
              /\ LiveIn(table, queue)[i].attribution = table[LiveIn(table, queue)[i].key].attribution
         /\ \A i, j \in DOMAIN LiveIn(table, queue) :
              LiveIn(table, queue)[i].key = LiveIn(table, queue)[j].key => i = j
         /\ \A k \in DOMAIN table :
              \E i \in DOMAIN LiveIn(table, queue) : LiveIn(table, queue)[i].key = k
<1> DEFINE ps == CurrentIn(table, queue)
           n == Cardinality(DOMAIN table)
           l == LiveIn(table, queue)
<1>1. /\ ps \in SUBSET Nat /\ n \in Nat
      /\ \A i, j \in ps : queue[i].key = queue[j].key => i = j
      /\ \A k \in DOMAIN table : \E i \in ps : queue[i].key = k
  BY PositionsListed
<1>2. PICK f : Enumerates(f, n, ps)
  BY PositionsListed
<1>3. l = [i \in 1..n |-> [key |-> queue[f[i]].key,
                           attribution |-> table[queue[f[i]].key].attribution]]
  BY <1>1, <1>2, LiveInIs
<1>4. /\ \A i \in 1..n : f[i] \in ps /\ f[i] \in Nat
      /\ \A i, j \in 1..n : i < j => f[i] < f[j]
      /\ \A p \in ps : \E i \in 1..n : f[i] = p
  BY <1>1, <1>2 DEF Enumerates
<1>5. \A i \in ps : queue[i].key \in DOMAIN table
  BY DEF CurrentIn, Current
<1>6. \A k \in DOMAIN table : k \in Keys /\ table[k].attribution \in Attributions
  BY DEF Sound, Association
<1> HIDE DEF ps, n, l
<1>7. l \in Seq([key : Keys, attribution : Attributions]) /\ Len(l) = n
  <2> DEFINE R == [key : Keys, attribution : Attributions]
  <2>1. ASSUME NEW i \in 1..n PROVE l[i] \in R
    BY <1>3, <1>4, <1>5, <1>6
  <2>2. DOMAIN l = 1..n /\ l = [i \in 1..n |-> l[i]]
    BY <1>3
  <2> HIDE DEF R
  <2>3. l \in [1..n -> R]
    BY <2>1, <2>2
  <2>4. l \in Seq(R) /\ Len(l) = n
    BY <1>1, <2>3
  <2> QED BY <2>4 DEF R
<1>8. \A i \in DOMAIN l : /\ l[i].key \in DOMAIN table
                          /\ l[i].attribution = table[l[i].key].attribution
  BY <1>3, <1>4, <1>5
<1>9. \A i, j \in DOMAIN l : l[i].key = l[j].key => i = j
  <2> SUFFICES ASSUME NEW i \in 1..n, NEW j \in 1..n, l[i].key = l[j].key PROVE i = j
    BY <1>3
  <2>1. f[i] = f[j]
    BY <1>1, <1>3, <1>4
  <2>2. ~(i < j) /\ ~(j < i)
    BY <1>4, <2>1
  <2> QED BY <1>1, <2>2
<1>10. \A k \in DOMAIN table : \E i \in DOMAIN l : l[i].key = k
  <2> SUFFICES ASSUME NEW k \in DOMAIN table PROVE \E i \in DOMAIN l : l[i].key = k
    OBVIOUS
  <2>1. PICK p \in ps : queue[p].key = k
    BY <1>1
  <2>2. PICK i \in 1..n : f[i] = p
    BY <1>4
  <2> QED BY <1>3, <2>1, <2>2
<1> QED BY <1>7, <1>8, <1>9, <1>10 DEF l, n
-------------------------------------------------------------------------------
(***************************************************************************)
(* Operations on table and queue.                                          *)
(***************************************************************************)
\* An association without another one.
LEMMA RestrictedIs ==
  ASSUME NEW table, NEW queue, NEW next, Sound(table, queue, next), NEW key
  PROVE  LET rest == Restrict(table, DOMAIN table \ {key}) IN
         /\ DOMAIN rest = DOMAIN table \ {key}
         /\ \A k \in DOMAIN table : k # key => rest[k] = table[k]
         /\ rest \in [DOMAIN rest -> Association]
         /\ Cardinality(DOMAIN rest) =
              IF key \in DOMAIN table THEN Cardinality(DOMAIN table) - 1 ELSE Cardinality(DOMAIN table)
         /\ key \notin DOMAIN table => rest = table
<1> DEFINE rest == Restrict(table, DOMAIN table \ {key})
<1>1. /\ DOMAIN rest = DOMAIN table \ {key}
      /\ \A k \in DOMAIN table : k # key => rest[k] = table[k]
      /\ rest \in [DOMAIN rest -> Association]
      /\ key \notin DOMAIN table => rest = table
  BY DEF Restrict, Sound
<1>2. IsFiniteSet(DOMAIN table)
  BY PositionsListed
<1>3. Cardinality(DOMAIN table \ {key}) =
        IF key \in DOMAIN table THEN Cardinality(DOMAIN table) - 1 ELSE Cardinality(DOMAIN table)
  BY <1>2, FS_RemoveElement
<1> QED BY <1>1, <1>3

\* A table that has less goes with the same queue.
LEMMA SmallerTable ==
  ASSUME NEW table, NEW queue, NEW next, Sound(table, queue, next),
         NEW rest, rest \in [DOMAIN rest -> Association], DOMAIN rest \subseteq DOMAIN table,
         \A k \in DOMAIN rest : rest[k] = table[k]
  PROVE  Sound(rest, queue, next)
BY DEF Sound

\* A removal leaves a stale entry behind.
LEMMA RemovedIs ==
  ASSUME NEW table, NEW queue, NEW next, Sound(table, queue, next), NEW key \in DOMAIN table,
         NEW at \in DOMAIN LiveIn(table, queue), LiveIn(table, queue)[at].key = key
  PROVE  LET rest == Restrict(table, DOMAIN table \ {key})
             live == LiveIn(table, queue)
         IN  /\ Sound(rest, queue, next)
             /\ LiveIn(rest, queue) = SubSeq(live, 1, at - 1) \o SubSeq(live, at + 1, Len(live))
<1> DEFINE rest == Restrict(table, DOMAIN table \ {key})
           live == LiveIn(table, queue)
           ps == CurrentIn(table, queue)
           ps2 == CurrentIn(rest, queue)
           n == Cardinality(DOMAIN table)
<1>1. /\ ps \in SUBSET Nat /\ n \in Nat
      /\ \A i, j \in ps : queue[i].key = queue[j].key => i = j
  BY PositionsListed
<1>2. PICK f : Enumerates(f, n, ps)
  BY PositionsListed
<1>3. live = [i \in 1..n |-> [key |-> queue[f[i]].key,
                              attribution |-> table[queue[f[i]].key].attribution]]
  BY <1>1, <1>2, LiveInIs
<1>4. /\ DOMAIN rest = DOMAIN table \ {key}
      /\ \A k \in DOMAIN table : k # key => rest[k] = table[k]
      /\ rest \in [DOMAIN rest -> Association]
  BY RestrictedIs
<1>5. Sound(rest, queue, next)
  <2>1. DOMAIN rest \subseteq DOMAIN table /\ \A k \in DOMAIN rest : rest[k] = table[k]
    BY <1>4
  <2> HIDE DEF rest
  <2> QED BY <1>4, <2>1, SmallerTable
<1>6. /\ \A i \in 1..n : f[i] \in ps /\ f[i] \in Nat
      /\ \A i, j \in 1..n : i < j => f[i] < f[j]
      /\ \A p \in ps : \E i \in 1..n : f[i] = p
  BY <1>1, <1>2 DEF Enumerates
<1>7. at \in 1..n /\ queue[f[at]].key = key
  BY <1>3
<1>8. ps2 = ps \ {f[at]}
  <2>1. \A i \in ps : i # f[at] <=> queue[i].key # key
    BY <1>1, <1>6, <1>7
  <2>2. \A i \in DOMAIN queue : Current(rest, queue[i]) <=> Current(table, queue[i]) /\ queue[i].key # key
    BY <1>4 DEF Current
  <2> QED BY <2>1, <2>2 DEF CurrentIn
<1>9. \A k \in ps : queue[k].key \in DOMAIN table
  BY DEF CurrentIn, Current
<1> HIDE DEF rest, live, ps, ps2, n
<1> DEFINE f2 == [i \in 1..(n - 1) |-> IF i < at THEN f[i] ELSE f[i + 1]]
<1>10. /\ n - 1 \in Nat
       /\ \A i \in 1..(n - 1) : i \in 1..n /\ i + 1 \in 1..n /\ i \in Nat
  BY <1>1, <1>7
<1>11. Enumerates(f2, n - 1, ps2)
  <2>1. \A i \in 1..n : f[i] = f[at] => i = at
    <3> SUFFICES ASSUME NEW i \in 1..n, f[i] = f[at] PROVE i = at
      OBVIOUS
    <3>1. ~(i < at) /\ ~(at < i)
      BY <1>6, <1>7
    <3> QED BY <1>7, <3>1
  <2>2. \A i \in 1..(n - 1) : f2[i] \in ps2
    BY <1>6, <1>7, <1>8, <1>10, <2>1
  <2>3. \A i, j \in 1..(n - 1) : i < j => f2[i] < f2[j]
    <3> SUFFICES ASSUME NEW i \in 1..(n - 1), NEW j \in 1..(n - 1), i < j PROVE f2[i] < f2[j]
      OBVIOUS
    <3>1. CASE j < at
      BY <1>6, <1>7, <1>10, <3>1
    <3>2. CASE ~(i < at)
      BY <1>6, <1>7, <1>10, <3>2
    <3>3. CASE i < at /\ ~(j < at)
      BY <1>6, <1>7, <1>10, <3>3
    <3> QED BY <1>7, <3>1, <3>2, <3>3
  <2>4. \A p \in ps2 : \E i \in 1..(n - 1) : f2[i] = p
    <3> SUFFICES ASSUME NEW p \in ps2 PROVE \E i \in 1..(n - 1) : f2[i] = p
      OBVIOUS
    <3>1. PICK i \in 1..n : f[i] = p /\ i # at
      BY <1>6, <1>8
    <3>2. CASE i < at
      <4>1. i \in 1..(n - 1) /\ f2[i] = p
        BY <1>1, <1>7, <3>1, <3>2
      <4> QED BY <4>1
    <3>3. CASE ~(i < at)
      <4>1. i - 1 \in 1..(n - 1) /\ ~(i - 1 < at) /\ (i - 1) + 1 = i
        BY <1>1, <1>7, <3>1, <3>3
      <4>2. f2[i - 1] = p
        BY <3>1, <4>1
      <4> QED BY <4>1, <4>2
    <3> QED BY <3>2, <3>3
  <2>5. f2 \in [1..(n - 1) -> ps2]
    BY <2>2
  <2> HIDE DEF f2
  <2> QED BY <2>3, <2>4, <2>5 DEF Enumerates
<1>12. LiveIn(rest, queue) = [i \in 1..(n - 1) |-> [key |-> queue[f2[i]].key,
                                                   attribution |-> rest[queue[f2[i]].key].attribution]]
  <2>1. ps2 \in SUBSET Nat
    BY <1>1, <1>8
  <2> HIDE DEF f2
  <2> QED BY <1>10, <1>11, <2>1, LiveInIs DEF ps2
<1>13. ASSUME NEW i \in 1..(n - 1)
       PROVE  LiveIn(rest, queue)[i] = IF i < at THEN live[i] ELSE live[i + 1]
  <2>1. f2[i] \in ps2 /\ queue[f2[i]].key # key /\ queue[f2[i]].key \in DOMAIN table
    <3>1. f2[i] \in ps2 /\ f2[i] \in ps /\ f2[i] # f[at]
      BY <1>8, <1>11, <1>13 DEF Enumerates
    <3> HIDE DEF f2
    <3> QED BY <1>1, <1>6, <1>7, <1>9, <3>1
  <2>2. LiveIn(rest, queue)[i] = [key |-> queue[f2[i]].key,
                                  attribution |-> table[queue[f2[i]].key].attribution]
    <3> HIDE DEF f2
    <3> QED BY <1>4, <1>12, <1>13, <2>1
  <2>3. f2[i] = IF i < at THEN f[i] ELSE f[i + 1]
    BY <1>13
  <2> HIDE DEF f2
  <2> QED BY <1>3, <1>10, <1>13, <2>2, <2>3
<1>14. live \in Seq([key : Keys, attribution : Attributions]) /\ Len(live) = n
  BY LiveInHolds DEF live, n
<1>15. LiveIn(rest, queue) = SubSeq(live, 1, at - 1) \o SubSeq(live, at + 1, Len(live))
  <2> DEFINE parts == SubSeq(live, 1, at - 1) \o SubSeq(live, at + 1, Len(live))
  <2>1. /\ SubSeq(live, 1, at - 1) = [i \in 1..(at - 1) |-> live[i]]
        /\ SubSeq(live, at + 1, Len(live)) = [i \in 1..(n - at) |-> live[i + at]]
    BY <1>1, <1>7, <1>14
  <2>2. /\ DOMAIN parts = 1..(n - 1)
        /\ parts = [i \in 1..(n - 1) |-> parts[i]]
        /\ \A i \in 1..(n - 1) : parts[i] = IF i < at THEN live[i] ELSE live[i + 1]
    BY <1>1, <1>7, <1>14, <2>1
  <2> HIDE DEF parts
  <2>3. DOMAIN LiveIn(rest, queue) = 1..(n - 1) /\ LiveIn(rest, queue) = [i \in 1..(n - 1) |-> LiveIn(rest, queue)[i]]
    BY <1>12
  <2>4. \A i \in 1..(n - 1) : LiveIn(rest, queue)[i] = parts[i]
    BY <1>13, <2>2
  <2>5. LiveIn(rest, queue) = parts
    BY <2>2, <2>3, <2>4
  <2> QED BY <2>5 DEF parts
<1> QED BY <1>5, <1>15 DEF rest, live

\* Making room drops the oldest association and the entries up to its own.
LEMMA EvictedIs ==
  ASSUME NEW table, NEW queue, NEW next, Sound(table, queue, next),
         NEW first \in CurrentIn(table, queue), \A j \in CurrentIn(table, queue) : first <= j
  PROVE  LET rest == Restrict(table, DOMAIN table \ {queue[first].key})
             later == SubSeq(queue, first + 1, Len(queue))
         IN  /\ Sound(rest, later, next)
             /\ LiveIn(rest, later) = Tail(LiveIn(table, queue))
             /\ LiveIn(table, queue) # <<>>
             /\ Cardinality(DOMAIN rest) = Cardinality(DOMAIN table) - 1
             /\ Len(later) \in Nat /\ Len(later) <= Len(queue) - 1
<1> DEFINE key == queue[first].key
           rest == Restrict(table, DOMAIN table \ {key})
           later == SubSeq(queue, first + 1, Len(queue))
           live == LiveIn(table, queue)
           ps == CurrentIn(table, queue)
           ps2 == CurrentIn(rest, later)
           n == Cardinality(DOMAIN table)
<1>1. /\ ps \in SUBSET Nat /\ n \in Nat
      /\ \A i, j \in ps : queue[i].key = queue[j].key => i = j
  BY PositionsListed
<1>2. PICK f : Enumerates(f, n, ps)
  BY PositionsListed
<1>3. live = [i \in 1..n |-> [key |-> queue[f[i]].key,
                              attribution |-> table[queue[f[i]].key].attribution]]
  BY <1>1, <1>2, LiveInIs
<1>4. /\ DOMAIN rest = DOMAIN table \ {key}
      /\ \A k \in DOMAIN table : k # key => rest[k] = table[k]
      /\ rest \in [DOMAIN rest -> Association]
      /\ key \in DOMAIN table
      /\ Cardinality(DOMAIN rest) = n - 1
  <2>1. key \in DOMAIN table
    BY DEF CurrentIn, Current
  <2> HIDE DEF key
  <2> QED BY <2>1, RestrictedIs
<1>5. /\ Len(queue) \in Nat /\ DOMAIN queue = 1..Len(queue)
      /\ \A i \in DOMAIN queue : queue[i] \in Entry
      /\ queue \in Seq(Entry) /\ first \in 1..Len(queue)
  BY QueueEntries DEF CurrentIn, Sound
<1>6. /\ later \in Seq(Entry) /\ Len(later) = Len(queue) - first
      /\ DOMAIN later = 1..(Len(queue) - first)
      /\ \A i \in 1..(Len(queue) - first) : later[i] = queue[i + first]
  BY <1>5
<1>7. /\ \A i \in 1..n : f[i] \in ps /\ f[i] \in Nat
      /\ \A i, j \in 1..n : i < j => f[i] < f[j]
      /\ \A p \in ps : \E i \in 1..n : f[i] = p
  BY <1>1, <1>2 DEF Enumerates
<1>8. \A i \in ps : i \in DOMAIN queue /\ Current(table, queue[i]) /\ queue[i].key \in DOMAIN table
  BY DEF CurrentIn, Current
<1>9. \A k \in DOMAIN table :
        \E i \in ps : queue[i].key = k /\ queue[i].generation = table[k].generation
  BY DEF CurrentIn, Current, Sound
<1>10. \A i \in ps : i # first => queue[i].key # key /\ i - first \in 1..(Len(queue) - first)
  BY <1>1, <1>5, <1>8
<1>11. Sound(rest, queue, next)
  <2>1. DOMAIN rest \subseteq DOMAIN table /\ \A k \in DOMAIN rest : rest[k] = table[k]
    BY <1>4
  <2> HIDE DEF rest
  <2> QED BY <1>4, <2>1, SmallerTable
<1> HIDE DEF rest, later, live
<1>12. Sound(rest, later, next)
  <2>1. /\ \A i \in DOMAIN later : later[i].generation < next
        /\ \A i, j \in DOMAIN later : i < j => later[i].generation < later[j].generation
    <3>1. \A i \in 1..(Len(queue) - first) : i + first \in DOMAIN queue /\ i \in Nat
      BY <1>5
    <3>2. \A i, j \in 1..(Len(queue) - first) : i < j => i + first < j + first
      BY <1>5
    <3> QED BY <1>6, <3>1, <3>2 DEF Sound
  <2>2. ASSUME NEW k \in DOMAIN rest
        PROVE  \E i \in DOMAIN later : later[i].key = k /\ later[i].generation = rest[k].generation
    <3>1. k \in DOMAIN table /\ k # key /\ rest[k] = table[k]
      BY <1>4
    <3>2. PICK i \in ps : queue[i].key = k /\ queue[i].generation = table[k].generation
      BY <1>9, <3>1
    <3>3. i - first \in DOMAIN later /\ later[i - first] = queue[i]
      <4>1. i - first \in 1..(Len(queue) - first) /\ (i - first) + first = i
        BY <1>1, <1>5, <1>10, <3>1, <3>2
      <4> QED BY <1>6, <4>1
    <3> QED BY <3>1, <3>2, <3>3
  <2> QED BY <1>6, <1>11, <2>1, <2>2 DEF Sound
<1>13. /\ \A i \in ps2 : i \in 1..(Len(queue) - first) /\ i + first \in ps
       /\ \A i \in 1..(Len(queue) - first) : i + first \in ps => i \in ps2
  <2>1. \A i \in 1..(Len(queue) - first) : i + first \in DOMAIN queue /\ i + first # first
    BY <1>5
  <2>2. \A i \in 1..(Len(queue) - first) :
          i + first \in ps => Current(rest, later[i])
    BY <1>4, <1>6, <1>8, <1>10, <2>1 DEF Current
  <2>3. \A i \in 1..(Len(queue) - first) :
          Current(rest, later[i]) => i + first \in ps
    BY <1>4, <1>6, <2>1 DEF Current, CurrentIn
  <2> QED BY <1>6, <2>2, <2>3 DEF CurrentIn
<1> HIDE DEF ps, ps2, n, key
<1>14. 1 \in 1..n /\ f[1] = first
  <2>1. PICK j \in 1..n : f[j] = first
    BY <1>7 DEF ps
  <2>2. 1 \in 1..n /\ (j = 1 \/ 1 < j)
    BY <1>1
  <2>3. f[1] \in ps /\ f[1] \in Nat /\ first <= f[1] /\ first \in Nat
    BY <1>5, <1>7, <2>2 DEF ps
  <2>4. 1 < j => f[1] < first
    BY <1>7, <2>1, <2>2
  <2> QED BY <2>1, <2>2, <2>3, <2>4
<1> DEFINE f2 == [i \in 1..(n - 1) |-> f[i + 1] - first]
<1>15. n - 1 \in Nat /\ \A i \in 1..(n - 1) : i + 1 \in 1..n /\ 1 < i + 1
  BY <1>1, <1>14
<1>16. \A i \in 1..(n - 1) : f2[i] \in Nat /\ f2[i] \in ps2 /\ f2[i] + first = f[i + 1]
  <2> SUFFICES ASSUME NEW i \in 1..(n - 1)
               PROVE  f2[i] \in Nat /\ f2[i] \in ps2 /\ f2[i] + first = f[i + 1]
    OBVIOUS
  <2>1. f[i + 1] \in ps /\ f[i + 1] \in Nat /\ first < f[i + 1] /\ first \in Nat
    BY <1>5, <1>7, <1>14, <1>15
  <2>2. f[i + 1] - first \in 1..(Len(queue) - first) /\ (f[i + 1] - first) + first = f[i + 1]
    BY <1>5, <1>10, <2>1
  <2>3. f2[i] = f[i + 1] - first
    OBVIOUS
  <2> HIDE DEF f2
  <2> QED BY <1>13, <2>1, <2>2, <2>3
<1>17. Enumerates(f2, n - 1, ps2)
  <2>1. \A i, j \in 1..(n - 1) : i < j => f2[i] < f2[j]
    <3> SUFFICES ASSUME NEW i \in 1..(n - 1), NEW j \in 1..(n - 1), i < j PROVE f2[i] < f2[j]
      OBVIOUS
    <3>1. f[i + 1] < f[j + 1]
      BY <1>7, <1>15
    <3>2. f2[i] \in Nat /\ f2[j] \in Nat /\ f2[i] + first = f[i + 1] /\ f2[j] + first = f[j + 1]
      BY <1>16
    <3> HIDE DEF f2
    <3> QED BY <1>5, <3>1, <3>2
  <2>2. \A p \in ps2 : \E i \in 1..(n - 1) : f2[i] = p
    <3> SUFFICES ASSUME NEW p \in ps2 PROVE \E i \in 1..(n - 1) : f2[i] = p
      OBVIOUS
    <3>1. p + first \in ps /\ p \in Nat /\ p # 0
      BY <1>5, <1>13
    <3>2. PICK i \in 1..n : f[i] = p + first
      BY <1>7, <3>1
    <3>3. i # 1
      BY <1>5, <1>14, <3>1, <3>2
    <3>4. i - 1 \in 1..(n - 1) /\ (i - 1) + 1 = i
      BY <1>1, <3>3
    <3>5. f2[i - 1] + first = p + first /\ f2[i - 1] \in Nat
      BY <1>16, <3>2, <3>4
    <3> HIDE DEF f2
    <3> QED BY <1>5, <3>1, <3>4, <3>5
  <2>3. f2 \in [1..(n - 1) -> ps2]
    BY <1>16
  <2> HIDE DEF f2
  <2> QED BY <2>1, <2>2, <2>3 DEF Enumerates
<1>18. LiveIn(rest, later) = [i \in 1..(n - 1) |-> [key |-> later[f2[i]].key,
                                                   attribution |-> rest[later[f2[i]].key].attribution]]
  <2>1. ps2 \in SUBSET Nat
    <3>1. \A i \in ps2 : i \in Nat
      BY <1>13
    <3> QED BY <3>1
  <2> HIDE DEF f2
  <2> QED BY <1>15, <1>17, <2>1, LiveInIs DEF ps2
<1>19. ASSUME NEW i \in 1..(n - 1)
       PROVE  LiveIn(rest, later)[i] = live[i + 1]
  <2>1. later[f2[i]] = queue[f[i + 1]]
    <3>1. f2[i] \in 1..(Len(queue) - first) /\ f2[i] + first = f[i + 1]
      BY <1>13, <1>16
    <3> HIDE DEF f2
    <3> QED BY <1>6, <3>1
  <2>2. queue[f[i + 1]].key \in DOMAIN table /\ queue[f[i + 1]].key # key
    <3>1. f[i + 1] \in ps /\ f[i + 1] # first
      BY <1>5, <1>7, <1>14, <1>15
    <3> QED BY <1>8, <1>10, <3>1
  <2>3. LiveIn(rest, later)[i] = [key |-> queue[f[i + 1]].key,
                                  attribution |-> table[queue[f[i + 1]].key].attribution]
    <3> HIDE DEF f2
    <3> QED BY <1>4, <1>18, <2>1, <2>2
  <2> HIDE DEF f2
  <2> QED BY <1>3, <1>15, <2>3
<1>20. live \in Seq([key : Keys, attribution : Attributions]) /\ Len(live) = n
  BY LiveInHolds DEF live, n
<1>21. LiveIn(rest, later) = Tail(live)
  <2>1. Tail(live) = [i \in 1..(n - 1) |-> live[i + 1]]
    <3>1. live # <<>>
      BY <1>1, <1>14, <1>20
    <3>2. Tail(live) \in Seq([key : Keys, attribution : Attributions]) /\ Len(Tail(live)) = n - 1
      BY <1>20, <3>1
    <3>3. \A i \in 1..(n - 1) : Tail(live)[i] = live[i + 1]
      BY <1>20, <3>1
    <3>4. Tail(live) = [i \in 1..Len(Tail(live)) |-> Tail(live)[i]]
      <4> DEFINE t == Tail(live)
                 R == [key : Keys, attribution : Attributions]
      <4>1. t \in Seq(R)
        BY <3>2
      <4> HIDE DEF t, R
      <4>2. t = [i \in 1..Len(t) |-> t[i]]
        BY <4>1
      <4> QED BY <4>2 DEF t
    <3> QED BY <3>2, <3>3, <3>4
  <2>2. LiveIn(rest, later) = [i \in 1..(n - 1) |-> LiveIn(rest, later)[i]]
    <3> HIDE DEF f2
    <3> QED BY <1>18
  <2> HIDE DEF f2
  <2> QED BY <1>19, <2>1, <2>2
<1>22. live # <<>> /\ Len(later) \in Nat /\ Len(later) <= Len(queue) - 1
  <2>1. live # <<>>
    BY <1>1, <1>14, <1>20
  <2>2. Len(later) \in Nat /\ Len(later) <= Len(queue) - 1
    BY <1>5, <1>6
  <2> QED BY <2>1, <2>2
<1> QED BY <1>4, <1>12, <1>21, <1>22 DEF rest, later, live, n, key

\* A new association goes to the end.
LEMMA EnteredIs ==
  ASSUME NEW table, NEW queue, NEW next, Sound(table, queue, next),
         NEW key \in Keys, key \notin DOMAIN table, NEW attribution \in Attributions
  PROVE  LET more == With(table, key, [attribution |-> attribution, generation |-> next])
             longer == Append(queue, [key |-> key, generation |-> next])
         IN  /\ Sound(more, longer, next + 1)
             /\ LiveIn(more, longer) =
                  Append(LiveIn(table, queue), [key |-> key, attribution |-> attribution])
             /\ Cardinality(DOMAIN more) = Cardinality(DOMAIN table) + 1
             /\ Len(longer) = Len(queue) + 1
<1> DEFINE entry == [attribution |-> attribution, generation |-> next]
           last == [key |-> key, generation |-> next]
           more == With(table, key, entry)
           longer == Append(queue, last)
           live == LiveIn(table, queue)
           ps == CurrentIn(table, queue)
           ps2 == CurrentIn(more, longer)
           n == Cardinality(DOMAIN table)
           m == Len(queue) + 1
<1>1. ps \in SUBSET Nat /\ n \in Nat /\ IsFiniteSet(DOMAIN table)
  BY PositionsListed
<1>2. PICK f : Enumerates(f, n, ps)
  BY PositionsListed
<1>3. live = [i \in 1..n |-> [key |-> queue[f[i]].key,
                              attribution |-> table[queue[f[i]].key].attribution]]
  BY <1>1, <1>2, LiveInIs
<1>4. /\ Len(queue) \in Nat /\ DOMAIN queue = 1..Len(queue) /\ queue \in Seq(Entry)
      /\ \A i \in DOMAIN queue : queue[i] \in Entry /\ queue[i].generation \in Nat
      /\ next \in Nat /\ last \in Entry /\ entry \in Association
  BY QueueEntries DEF Sound, Entry, Association
<1>5. /\ longer \in Seq(Entry) /\ Len(longer) = m /\ DOMAIN longer = 1..m /\ longer[m] = last
      /\ \A i \in 1..Len(queue) : longer[i] = queue[i]
  BY <1>4
<1>6. /\ DOMAIN more = DOMAIN table \cup {key} /\ more[key] = entry
      /\ \A k \in DOMAIN table : more[k] = table[k]
      /\ more \in [DOMAIN more -> Association]
  BY <1>4 DEF Sound, With
<1>7. Cardinality(DOMAIN more) = n + 1
  BY <1>1, <1>6, FS_AddElement
<1>8. \A i \in 1..m : i \in 1..Len(queue) \/ i = m
  BY <1>4
<1>9. /\ \A i \in DOMAIN queue : queue[i].generation < next
      /\ \A i, j \in DOMAIN queue : i < j => queue[i].generation < queue[j].generation
      /\ \A k \in DOMAIN table :
           \E i \in DOMAIN queue : queue[i].key = k /\ queue[i].generation = table[k].generation
      /\ DOMAIN table \subseteq Keys
  BY DEF Sound
<1> HIDE DEF more, longer, live
<1>10. Sound(more, longer, next + 1)
  <2>1. \A i \in DOMAIN longer : longer[i].generation < next + 1
    BY <1>4, <1>5, <1>8, <1>9
  <2>2. \A i, j \in DOMAIN longer : i < j => longer[i].generation < longer[j].generation
    <3> SUFFICES ASSUME NEW i \in 1..m, NEW j \in 1..m, i < j
                 PROVE  longer[i].generation < longer[j].generation
      BY <1>5
    <3>1. i \in 1..Len(queue) /\ longer[i] = queue[i]
      BY <1>4, <1>5
    <3>2. CASE j = m
      BY <1>4, <1>5, <1>9, <3>1, <3>2
    <3>3. CASE j \in 1..Len(queue)
      BY <1>4, <1>5, <1>9, <3>1, <3>3
    <3> QED BY <1>8, <3>2, <3>3
  <2>3. ASSUME NEW k \in DOMAIN more
        PROVE  \E i \in DOMAIN longer :
                 longer[i].key = k /\ longer[i].generation = more[k].generation
    <3>1. CASE k = key
      <4>1. m \in DOMAIN longer /\ longer[m].key = k /\ longer[m].generation = more[k].generation
        BY <1>4, <1>5, <1>6, <3>1
      <4> QED BY <4>1
    <3>2. CASE k # key
      <4>1. k \in DOMAIN table /\ more[k] = table[k]
        BY <1>6, <3>2
      <4>2. PICK i \in DOMAIN queue : queue[i].key = k /\ queue[i].generation = table[k].generation
        BY <1>9, <4>1
      <4>3. i \in DOMAIN longer /\ longer[i] = queue[i]
        BY <1>4, <1>5
      <4> QED BY <4>1, <4>2, <4>3
    <3> QED BY <3>1, <3>2
  <2>4. next + 1 \in Nat /\ DOMAIN more \subseteq Keys
    BY <1>4, <1>6, <1>9
  <2> QED BY <1>5, <1>6, <2>1, <2>2, <2>3, <2>4 DEF Sound
<1>11. ps2 = ps \cup {m}
  <2>1. \A i \in 1..Len(queue) : Current(more, longer[i]) <=> Current(table, queue[i])
    <3> SUFFICES ASSUME NEW i \in 1..Len(queue)
                 PROVE  Current(more, queue[i]) <=> Current(table, queue[i])
      BY <1>5
    <3>1. queue[i].generation # next
      BY <1>4, <1>9
    <3> QED BY <1>6, <3>1 DEF Current
  <2>2. Current(more, longer[m]) /\ m \in 1..m
    BY <1>4, <1>5, <1>6 DEF Current
  <2>3. \A i \in 1..Len(queue) : i \in 1..m
    BY <1>4
  <2> QED BY <1>4, <1>5, <1>8, <2>1, <2>2, <2>3 DEF CurrentIn
<1>12. \A i \in ps : i \in 1..Len(queue) /\ i < m /\ queue[i].key \in DOMAIN table
  BY <1>4 DEF CurrentIn, Current
<1>13. /\ \A i \in 1..n : f[i] \in ps /\ f[i] \in Nat
       /\ \A i, j \in 1..n : i < j => f[i] < f[j]
       /\ \A p \in ps : \E i \in 1..n : f[i] = p
  BY <1>1, <1>2 DEF Enumerates
<1> HIDE DEF ps, ps2, n
<1> DEFINE f2 == [i \in 1..(n + 1) |-> IF i = n + 1 THEN m ELSE f[i]]
<1>14. /\ n + 1 \in Nat /\ m \in Nat
       /\ \A i \in 1..(n + 1) : i = n + 1 \/ (i \in 1..n /\ i # n + 1)
       /\ \A i \in 1..n : i \in 1..(n + 1) /\ i # n + 1
  BY <1>1, <1>4
<1> HIDE DEF m
<1>15. Enumerates(f2, n + 1, ps2)
  <2>1. f2 \in [1..(n + 1) -> ps2]
    BY <1>11, <1>13, <1>14
  <2>2. \A i, j \in 1..(n + 1) : i < j => f2[i] < f2[j]
    <3> SUFFICES ASSUME NEW i \in 1..(n + 1), NEW j \in 1..(n + 1), i < j PROVE f2[i] < f2[j]
      OBVIOUS
    <3>1. i \in 1..n /\ f2[i] = f[i]
      BY <1>1, <1>14
    <3>2. CASE j = n + 1
      BY <1>12, <1>13, <3>1, <3>2
    <3>3. CASE j \in 1..n
      BY <1>13, <1>14, <3>1, <3>3
    <3> QED BY <1>14, <3>2, <3>3
  <2>3. \A p \in ps2 : \E i \in 1..(n + 1) : f2[i] = p
    <3> SUFFICES ASSUME NEW p \in ps2 PROVE \E i \in 1..(n + 1) : f2[i] = p
      OBVIOUS
    <3>1. CASE p = m
      <4>1. n + 1 \in 1..(n + 1) /\ f2[n + 1] = p
        BY <1>1, <3>1
      <4> QED BY <4>1
    <3>2. CASE p \in ps
      <4>1. PICK i \in 1..n : f[i] = p
        BY <1>13, <3>2
      <4>2. i \in 1..(n + 1) /\ f2[i] = p
        BY <1>14, <4>1
      <4> QED BY <4>2
    <3> QED BY <1>11, <3>1, <3>2
  <2> HIDE DEF f2
  <2> QED BY <2>1, <2>2, <2>3 DEF Enumerates
<1>16. LiveIn(more, longer) = [i \in 1..(n + 1) |-> [key |-> longer[f2[i]].key,
                                                    attribution |-> more[longer[f2[i]].key].attribution]]
  <2>1. ps2 \in SUBSET Nat
    BY <1>1, <1>11, <1>14
  <2> HIDE DEF f2
  <2> QED BY <1>14, <1>15, <2>1, LiveInIs DEF ps2
<1>17. ASSUME NEW i \in 1..(n + 1)
       PROVE  LiveIn(more, longer)[i] =
                IF i = n + 1 THEN [key |-> key, attribution |-> attribution] ELSE live[i]
  <2>1. f2[i] = IF i = n + 1 THEN m ELSE f[i]
    OBVIOUS
  <2>2. LiveIn(more, longer)[i] = [key |-> longer[f2[i]].key,
                                   attribution |-> more[longer[f2[i]].key].attribution]
    <3> HIDE DEF f2
    <3> QED BY <1>16
  <2> HIDE DEF f2
  <2>3. CASE i = n + 1
    BY <1>5, <1>6, <2>1, <2>2, <2>3
  <2>4. CASE i \in 1..n /\ i # n + 1
    <3>1. f[i] \in 1..Len(queue) /\ queue[f[i]].key \in DOMAIN table
      BY <1>12, <1>13, <2>4
    <3> QED BY <1>3, <1>5, <1>6, <2>1, <2>2, <2>4, <3>1
  <2> QED BY <1>14, <2>3, <2>4
<1>18. live \in Seq([key : Keys, attribution : Attributions]) /\ Len(live) = n
  BY LiveInHolds DEF live, n
<1>19. LiveIn(more, longer) = Append(live, [key |-> key, attribution |-> attribution])
  <2> DEFINE a == [key |-> key, attribution |-> attribution]
             end == Append(live, a)
  <2>1. DOMAIN end = 1..(n + 1) /\ end = [i \in 1..(n + 1) |-> end[i]]
    BY <1>1, <1>18
  <2>2. \A i \in 1..(n + 1) : end[i] = IF i = n + 1 THEN a ELSE live[i]
    BY <1>1, <1>14, <1>18
  <2>3. LiveIn(more, longer) = [i \in 1..(n + 1) |-> LiveIn(more, longer)[i]]
    <3> HIDE DEF f2
    <3> QED BY <1>16
  <2> HIDE DEF f2, end
  <2>4. \A i \in 1..(n + 1) : LiveIn(more, longer)[i] = end[i]
    BY <1>17, <2>2
  <2>5. LiveIn(more, longer) = end
    BY <2>1, <2>3, <2>4
  <2> QED BY <2>5 DEF end
<1> QED BY <1>5, <1>7, <1>10, <1>19 DEF more, longer, live, n, m

\* Compaction keeps the live entries, in their order.
LEMMA CompactedIs ==
  ASSUME NEW table, NEW queue, NEW next, Sound(table, queue, next)
  PROVE  LET kept == Retain(queue, CurrentIn(table, queue)) IN
         /\ Sound(table, kept, next)
         /\ LiveIn(table, kept) = LiveIn(table, queue)
         /\ Len(kept) = Cardinality(DOMAIN table)
<1> DEFINE kept == Retain(queue, CurrentIn(table, queue))
           ps == CurrentIn(table, queue)
           ps2 == CurrentIn(table, kept)
           n == Cardinality(DOMAIN table)
<1>1. ps \in SUBSET Nat /\ n \in Nat
  BY PositionsListed
<1>2. PICK f : Enumerates(f, n, ps)
  BY PositionsListed
<1>3. LiveIn(table, queue) =
        [i \in 1..n |-> [key |-> queue[f[i]].key,
                         attribution |-> table[queue[f[i]].key].attribution]]
  BY <1>1, <1>2, LiveInIs
<1>4. kept = [i \in 1..n |-> queue[f[i]]]
  <2> HIDE DEF ps, n
  <2> QED BY <1>1, <1>2, RetainIs DEF ps
<1>5. /\ \A i \in 1..n : f[i] \in ps /\ f[i] \in Nat
      /\ \A i, j \in 1..n : i < j => f[i] < f[j]
      /\ \A p \in ps : \E i \in 1..n : f[i] = p
  BY <1>1, <1>2 DEF Enumerates
<1>6. \A p \in ps : p \in DOMAIN queue /\ queue[p] \in Entry /\ Current(table, queue[p])
  BY QueueEntries DEF CurrentIn
<1>7. \A k \in DOMAIN table :
        \E i \in ps : queue[i].key = k /\ queue[i].generation = table[k].generation
  BY DEF CurrentIn, Current, Sound
<1>8. /\ \A i \in DOMAIN queue : queue[i].generation < next
      /\ \A i, j \in DOMAIN queue : i < j => queue[i].generation < queue[j].generation
  BY DEF Sound
<1> HIDE DEF kept, ps, n
<1>9. kept \in Seq(Entry) /\ Len(kept) = n /\ DOMAIN kept = 1..n
  <2>1. \A i \in 1..n : kept[i] \in Entry
    BY <1>4, <1>5, <1>6
  <2>2. kept \in [1..n -> Entry]
    BY <1>4, <2>1
  <2> QED BY <1>1, <2>2
<1>10. Sound(table, kept, next)
  <2>1. /\ \A i \in 1..n : kept[i].generation < next
        /\ \A i, j \in 1..n : i < j => kept[i].generation < kept[j].generation
    BY <1>4, <1>5, <1>6, <1>8
  <2>2. \A k \in DOMAIN table :
          \E i \in 1..n : kept[i].key = k /\ kept[i].generation = table[k].generation
    <3> SUFFICES ASSUME NEW k \in DOMAIN table
                 PROVE  \E i \in 1..n : kept[i].key = k /\ kept[i].generation = table[k].generation
      OBVIOUS
    <3>1. PICK p \in ps : queue[p].key = k /\ queue[p].generation = table[k].generation
      BY <1>7
    <3>2. PICK i \in 1..n : f[i] = p
      BY <1>5
    <3>3. kept[i] = queue[p]
      BY <1>4, <3>2
    <3> QED BY <3>1, <3>3
  <2> QED BY <1>9, <2>1, <2>2 DEF Sound
<1>11. ps2 = 1..n
  <2>1. \A i \in 1..n : Current(table, kept[i])
    BY <1>4, <1>5, <1>6
  <2> QED BY <1>9, <2>1 DEF CurrentIn
<1> DEFINE same == [i \in 1..n |-> i]
<1>12. Enumerates(same, n, ps2)
  BY <1>11 DEF Enumerates
<1>13. LiveIn(table, kept) =
         [i \in 1..n |-> [key |-> kept[same[i]].key,
                          attribution |-> table[kept[same[i]].key].attribution]]
  <2>1. ps2 \in SUBSET Nat
    BY <1>1, <1>11
  <2> HIDE DEF same
  <2> QED BY <1>1, <1>12, <2>1, LiveInIs DEF ps2
<1>14. LiveIn(table, kept) = LiveIn(table, queue)
  BY <1>3, <1>4, <1>13
<1> QED BY <1>9, <1>10, <1>14 DEF kept, n
-------------------------------------------------------------------------------
(***************************************************************************)
(* The store.                                                              *)
(***************************************************************************)
StoreInv ==
  /\ Sound(tasks, insertion_order, next_generation)
  /\ Cardinality(Live) <= Capacity
  /\ OrderBounded

\* What the plain store reads of the live associations.
LEMMA PromiseReads ==
  ASSUME Sound(tasks, insertion_order, next_generation), NEW key
  PROVE  /\ Promise!Has(key) <=> key \in Live
         /\ Promise!Origin(key) = Origin(key)
         /\ Len(LiveInOrder) = Cardinality(Live)
<1> DEFINE l == LiveInOrder
<1>1. /\ l \in Seq([key : Keys, attribution : Attributions])
      /\ Len(l) = Cardinality(Live)
      /\ \A i \in DOMAIN l : l[i].key \in Live /\ l[i].attribution = tasks[l[i].key].attribution
      /\ \A k \in Live : \E i \in DOMAIN l : l[i].key = k
  <2> DEFINE m == LiveIn(tasks, insertion_order)
  <2>1. /\ m \in Seq([key : Keys, attribution : Attributions])
        /\ Len(m) = Cardinality(DOMAIN tasks)
    BY LiveInHolds
  <2>3. \A i \in DOMAIN m :
          m[i].key \in DOMAIN tasks /\ m[i].attribution = tasks[m[i].key].attribution
    BY LiveInHolds
  <2>4. \A k \in DOMAIN tasks : \E i \in DOMAIN m : m[i].key = k
    BY LiveInHolds
  <2> HIDE DEF m
  <2>2. l = m
    BY DEF LiveInOrder, m
  <2> QED BY <2>1, <2>2, <2>3, <2>4 DEF Live
<1> HIDE DEF l
<1>2. Promise!Has(key) <=> key \in Live
  BY <1>1 DEF Promise!Has, l
<1>3. ASSUME key \in Live PROVE Promise!Origin(key) = tasks[key].attribution
  <2>1. \E e \in {l[i] : i \in DOMAIN l} : e.key = key
    BY <1>1, <1>3
  <2>2. \A e \in {l[i] : i \in DOMAIN l} : e.key = key => e.attribution = tasks[key].attribution
    BY <1>1
  <2>3. (CHOOSE e \in {l[i] : i \in DOMAIN l} : e.key = key).attribution = tasks[key].attribution
    BY <2>1, <2>2
  <2> QED BY <1>2, <1>3, <2>3 DEF Promise!Origin, l
<1>4. key \notin Live => Promise!Origin(key) = Origin(key)
  BY <1>2 DEF Promise!Origin, Origin, Promise!Nothing, Nothing
<1> QED BY <1>1, <1>2, <1>3, <1>4 DEF Origin, l

LEMMA InitStore == StoreInit => StoreInv
<1> SUFFICES ASSUME StoreInit PROVE StoreInv
  OBVIOUS
<1>1. tasks = <<>> /\ insertion_order = <<>> /\ next_generation = 0
  BY DEF StoreInit
<1>2. Live = {} /\ Cardinality(Live) = 0 /\ DOMAIN tasks = {}
  BY <1>1, FS_EmptySet DEF Live
<1>3. Sound(tasks, insertion_order, next_generation)
  <2>1. tasks \in [DOMAIN tasks -> Association] /\ insertion_order \in Seq(Entry)
    BY <1>1, <1>2
  <2>2. DOMAIN insertion_order = {}
    BY <1>1
  <2> QED BY <1>1, <1>2, <2>1, <2>2 DEF Sound
<1> QED BY <1>1, <1>2, <1>3, StoreAssumption DEF StoreInv, OrderBounded

\* An association that is new to the store goes where the plain store puts it.
LEMMA EnterStep ==
  ASSUME StoreInv, NEW key \in Keys, key \notin Live, NEW attribution \in Attributions,
         Capacity # 0, Enter(key, attribution)
  PROVE  /\ StoreInv'
         /\ LiveInOrder' = Append(Promise!Room, [key |-> key, attribution |-> attribution])
<1>1. /\ Sound(tasks, insertion_order, next_generation)
      /\ Cardinality(Live) <= Capacity /\ Cardinality(Live) \in Nat /\ Capacity \in Nat
      /\ Len(insertion_order) <= 2 * Capacity + Cardinality(Live)
      /\ Len(insertion_order) \in Nat
  BY PositionsListed, QueueEntries, StoreAssumption DEF StoreInv, OrderBounded, Live
<1>2. \E t, q : /\ Room = [table |-> t, order |-> q]
                /\ Sound(t, q, next_generation) /\ key \notin DOMAIN t
                /\ Cardinality(DOMAIN t) \in Nat /\ Cardinality(DOMAIN t) <= Capacity - 1
                /\ Len(q) \in Nat /\ Len(q) <= 2 * Capacity + Cardinality(DOMAIN t)
                /\ LiveIn(t, q) = Promise!Room
  <2>1. CASE Cardinality(Live) >= Capacity
    <3> DEFINE ps == CurrentIn(tasks, insertion_order)
               first == CHOOSE i \in ps : \A j \in ps : i <= j
               t == Restrict(tasks, DOMAIN tasks \ {insertion_order[first].key})
               q == SubSeq(insertion_order, first + 1, Len(insertion_order))
    <3>1. Cardinality(Live) = Capacity
      BY <1>1, <2>1
    <3>2. \E i \in ps : \A j \in ps : i <= j
      <4>1. /\ ps \in SUBSET Nat
            /\ \E f : Enumerates(f, Cardinality(Live), ps)
        BY <1>1, PositionsListed DEF Live
      <4>2. PICK f : Enumerates(f, Cardinality(Live), ps)
        BY <4>1
      <4> HIDE DEF ps
      <4>3. 1 \in 1..Cardinality(Live)
        BY <1>1, <3>1
      <4>4. f[1] \in ps /\ f[1] \in Nat
        BY <4>1, <4>2, <4>3 DEF Enumerates
      <4>5. ASSUME NEW j \in ps PROVE f[1] <= j
        <5>1. PICK i \in 1..Cardinality(Live) : f[i] = j
          BY <4>2 DEF Enumerates
        <5>2. i = 1 \/ 1 < i
          BY <1>1
        <5>3. 1 < i => f[1] < f[i]
          BY <4>2, <4>3 DEF Enumerates
        <5>4. j \in Nat
          BY <4>1
        <5> QED BY <4>4, <5>1, <5>2, <5>3, <5>4
      <4> QED BY <4>4, <4>5
    <3>3. first \in ps /\ \A j \in ps : first <= j
      BY <3>2
    <3> HIDE DEF first
    <3>4. /\ Sound(t, q, next_generation)
          /\ LiveIn(t, q) = Tail(LiveInOrder)
          /\ Cardinality(DOMAIN t) = Cardinality(Live) - 1
          /\ Len(q) \in Nat /\ Len(q) <= Len(insertion_order) - 1
      BY <1>1, <3>3, EvictedIs DEF LiveInOrder, Live
    <3>5. DOMAIN t \subseteq Live
      BY DEF Restrict, Live
    <3>6. Room = [table |-> t, order |-> q]
      BY <2>1, <3>3 DEF Room, Evict, first, Live
    <3>7. Promise!Room = Tail(LiveInOrder)
      BY <1>1, <3>1, PromiseReads DEF Promise!Room
    <3> HIDE DEF t, q, ps
    <3>8. /\ Cardinality(DOMAIN t) \in Nat /\ Cardinality(DOMAIN t) <= Capacity - 1
          /\ Len(q) <= 2 * Capacity + Cardinality(DOMAIN t) /\ key \notin DOMAIN t
      BY <1>1, <3>1, <3>4, <3>5
    <3> QED BY <3>4, <3>6, <3>7, <3>8
  <2>2. CASE ~(Cardinality(Live) >= Capacity)
    <3>1. Room = [table |-> tasks, order |-> insertion_order]
      BY <2>2 DEF Room
    <3>2. Promise!Room = LiveIn(tasks, insertion_order)
      BY <1>1, <2>2, PromiseReads DEF Promise!Room, LiveInOrder
    <3>3. Cardinality(Live) <= Capacity - 1
      BY <1>1, <2>2
    <3> QED BY <1>1, <3>1, <3>2, <3>3 DEF Live
  <2> QED BY <2>1, <2>2
<1>3. PICK t, q : /\ Room = [table |-> t, order |-> q]
                  /\ Sound(t, q, next_generation) /\ key \notin DOMAIN t
                  /\ Cardinality(DOMAIN t) \in Nat /\ Cardinality(DOMAIN t) <= Capacity - 1
                  /\ Len(q) \in Nat /\ Len(q) <= 2 * Capacity + Cardinality(DOMAIN t)
                  /\ LiveIn(t, q) = Promise!Room
  BY <1>2
<1> DEFINE more == With(t, key, [attribution |-> attribution, generation |-> next_generation])
           longer == Append(q, [key |-> key, generation |-> next_generation])
<1>4. /\ Sound(more, longer, next_generation + 1)
      /\ LiveIn(more, longer) = Append(LiveIn(t, q), [key |-> key, attribution |-> attribution])
      /\ Cardinality(DOMAIN more) = Cardinality(DOMAIN t) + 1
      /\ Len(longer) = Len(q) + 1
  <2>1. Sound(t, q, next_generation) /\ key \notin DOMAIN t
    BY <1>3
  <2> QED BY <2>1, EnteredIs
<1>5. Room.table = t /\ Room.order = q
  BY <1>3
<1>6. tasks' = more /\ insertion_order' = longer /\ next_generation' = next_generation + 1
  BY <1>5 DEF Enter
<1> HIDE DEF more, longer
<1>7. StoreInv'
  <2>1. /\ Cardinality(DOMAIN more) <= Capacity
        /\ Len(longer) <= 2 * Capacity + Cardinality(DOMAIN more)
    BY <1>1, <1>3, <1>4
  <2> QED BY <1>4, <1>6, <2>1 DEF StoreInv, OrderBounded, Live
<1>8. LiveInOrder' = LiveIn(more, longer)
  BY <1>6 DEF LiveInOrder
<1> QED BY <1>3, <1>4, <1>7, <1>8

\* A claim or a removal takes the association out, wherever it is.
LEMMA ForgetStep ==
  ASSUME StoreInv, NEW key, Forget(key), next_generation' = next_generation
  PROVE  StoreInv' /\ LiveInOrder' = Promise!Without(key)
<1> DEFINE rest == Restrict(tasks, DOMAIN tasks \ {key})
           kept == Retain(insertion_order, CurrentIn(rest, insertion_order))
<1>1. /\ Sound(tasks, insertion_order, next_generation)
      /\ Cardinality(Live) <= Capacity /\ Cardinality(Live) \in Nat /\ Capacity \in Nat
      /\ Len(insertion_order) <= 2 * Capacity + Cardinality(Live)
      /\ Len(insertion_order) \in Nat
  BY PositionsListed, QueueEntries, StoreAssumption DEF StoreInv, OrderBounded, Live
<1>2. /\ tasks' = rest
      /\ insertion_order' = IF Len(insertion_order) > 2 * Capacity THEN kept ELSE insertion_order
  BY DEF Forget, Compacted, Live
<1>3. /\ Cardinality(DOMAIN rest) =
           IF key \in Live THEN Cardinality(Live) - 1 ELSE Cardinality(Live)
      /\ key \notin Live => rest = tasks
  BY <1>1, RestrictedIs DEF Live
<1>4. Sound(rest, insertion_order, next_generation) /\ LiveIn(rest, insertion_order) = Promise!Without(key)
  <2>1. CASE key \notin Live
    BY <1>1, <1>3, <2>1, PromiseReads DEF Promise!Without, LiveInOrder
  <2>2. CASE key \in Live
    <3> DEFINE l == LiveInOrder
               at == CHOOSE i \in DOMAIN l : l[i].key = key
    <3>1. Promise!Has(key)
      BY <1>1, <2>2, PromiseReads
    <3>2. at \in DOMAIN l /\ l[at].key = key
      BY <3>1 DEF Promise!Has
    <3>3. Promise!Without(key) = SubSeq(l, 1, at - 1) \o SubSeq(l, at + 1, Len(l))
      BY <3>1 DEF Promise!Without
    <3> HIDE DEF at
    <3> QED BY <1>1, <2>2, <3>2, <3>3, RemovedIs DEF LiveInOrder, Live
  <2> QED BY <2>1, <2>2
<1>5. /\ Sound(rest, kept, next_generation)
      /\ LiveIn(rest, kept) = LiveIn(rest, insertion_order)
      /\ Len(kept) = Cardinality(DOMAIN rest)
  BY <1>4, CompactedIs
<1> HIDE DEF rest, kept
<1>6. Cardinality(DOMAIN rest) \in Nat /\ Cardinality(DOMAIN rest) <= Capacity
  <2>1. Cardinality(DOMAIN rest) \in Nat
    BY <1>4, PositionsListed
  <2> QED BY <1>1, <1>3, <2>1
<1>7. CASE Len(insertion_order) > 2 * Capacity
  <2>1. tasks' = rest /\ insertion_order' = kept
    BY <1>2, <1>7
  <2>2. Len(kept) <= 2 * Capacity + Cardinality(DOMAIN rest)
    BY <1>1, <1>5, <1>6
  <2> QED BY <1>4, <1>5, <1>6, <2>1, <2>2 DEF StoreInv, OrderBounded, Live, LiveInOrder
<1>8. CASE ~(Len(insertion_order) > 2 * Capacity)
  <2>1. tasks' = rest /\ insertion_order' = insertion_order
    BY <1>2, <1>8
  <2>2. Len(insertion_order) <= 2 * Capacity + Cardinality(DOMAIN rest)
    BY <1>1, <1>6, <1>8
  <2> QED BY <1>4, <1>6, <2>1, <2>2 DEF StoreInv, OrderBounded, Live, LiveInOrder
<1> QED BY <1>7, <1>8

\* Every step keeps the queue, and is a step of the plain store.
LEMMA StoreStep ==
  ASSUME StoreInv, [StoreNext]_storeVars
  PROVE  StoreInv' /\ [Promise!OriginNext]_<<LiveInOrder, answer>>
<1>1. Sound(tasks, insertion_order, next_generation)
  BY DEF StoreInv
<1>2. ASSUME UNCHANGED <<tasks, insertion_order, next_generation>>
      PROVE  StoreInv' /\ UNCHANGED LiveInOrder
  BY <1>2 DEF StoreInv, OrderBounded, Live, LiveInOrder
<1>3. ASSUME NEW key \in Keys, NEW attribution \in Attributions, Insert(key, attribution)
      PROVE  StoreInv' /\ Promise!Insert(key, attribution)
  <2>1. Promise!Has(key) <=> key \in Live
    BY <1>1, PromiseReads
  <2>2. answer' = Promise!Nothing
    BY <1>3 DEF Insert, Nothing, Promise!Nothing
  <2>3. CASE Capacity = 0 \/ key \in Live
    <3>1. UNCHANGED <<tasks, insertion_order, next_generation>>
      BY <1>3, <2>3 DEF Insert
    <3> QED BY <1>2, <2>1, <2>2, <2>3, <3>1 DEF Promise!Insert
  <2>4. CASE Capacity # 0 /\ key \notin Live
    <3>1. Enter(key, attribution)
      BY <1>3, <2>4 DEF Insert
    <3>2. /\ StoreInv'
          /\ LiveInOrder' = Append(Promise!Room, [key |-> key, attribution |-> attribution])
      BY <2>4, <3>1, EnterStep
    <3> QED BY <2>1, <2>2, <2>4, <3>2 DEF Promise!Insert
  <2> QED BY <2>3, <2>4
<1>4. ASSUME NEW key \in Keys, Get(key)
      PROVE  StoreInv' /\ Promise!Get(key)
  <2>1. answer' = Promise!Origin(key)
    BY <1>1, <1>4, PromiseReads DEF Get
  <2> QED BY <1>2, <1>4, <2>1 DEF Get, Promise!Get
<1>5. ASSUME NEW key \in Keys, Claim(key)
      PROVE  StoreInv' /\ Promise!Claim(key)
  <2>1. answer' = Promise!Origin(key)
    BY <1>1, <1>5, PromiseReads DEF Claim
  <2>2. StoreInv' /\ LiveInOrder' = Promise!Without(key)
    <3>1. CASE key \in Live
      BY <1>5, <3>1, ForgetStep DEF Claim
    <3>2. CASE key \notin Live
      <4>1. Promise!Without(key) = LiveInOrder
        BY <1>1, <3>2, PromiseReads DEF Promise!Without
      <4> QED BY <1>2, <1>5, <3>2, <4>1 DEF Claim
    <3> QED BY <3>1, <3>2
  <2> QED BY <2>1, <2>2 DEF Promise!Claim
<1>6. ASSUME NEW key \in Keys, Remove(key)
      PROVE  StoreInv' /\ Promise!Remove(key)
  <2>1. answer' = Promise!Nothing
    BY <1>6 DEF Remove, Nothing, Promise!Nothing
  <2>2. StoreInv' /\ LiveInOrder' = Promise!Without(key)
    BY <1>6, ForgetStep DEF Remove
  <2> QED BY <2>1, <2>2 DEF Promise!Remove
<1>7. CASE UNCHANGED storeVars
  BY <1>2, <1>7 DEF storeVars
<1> QED BY <1>3, <1>4, <1>5, <1>6, <1>7 DEF StoreNext, Promise!OriginNext

LEMMA StoreInvHolds == StoreSpec => []StoreInv
BY InitStore, StoreStep, PTL DEF StoreSpec

(***************************************************************************)
(* Stale entries do not pile up, whatever is claimed and removed in        *)
(* whatever order: compact_order_if_needed() runs on claims and removals   *)
(* only, and an insertion that adds an entry adds an association with it.  *)
(***************************************************************************)
THEOREM QueueStaysBounded == StoreSpec => []OrderBounded
<1>1. StoreInv => OrderBounded
  BY DEF StoreInv
<1> QED BY <1>1, StoreInvHolds, PTL

(***************************************************************************)
(* The store is the plain one: a task's first origin stays, a full store   *)
(* forgets the oldest live task and no other, and a claim hands an origin  *)
(* to one caller.  insert, get, claim, remove.                             *)
(***************************************************************************)
THEOREM StoreKeepsOrigins == StoreSpec => ImplementsOriginStore
<1>1. StoreInit => Promise!OriginInit
  <2> SUFFICES ASSUME StoreInit PROVE Promise!OriginInit
    OBVIOUS
  <2>1. Len(LiveInOrder) = Cardinality(Live) /\ LiveInOrder \in Seq([key : Keys, attribution : Attributions])
    BY InitStore, LiveInHolds DEF StoreInv, LiveInOrder, Live
  <2>2. Cardinality(Live) = 0
    BY FS_EmptySet DEF StoreInit, Live
  <2>3. LiveInOrder = <<>>
    BY <2>1, <2>2
  <2> QED BY <2>3 DEF StoreInit, Promise!OriginInit, Nothing, Promise!Nothing
<1>2. StoreInv /\ [StoreNext]_storeVars => [Promise!OriginNext]_<<LiveInOrder, answer>>
  BY StoreStep
<1> QED BY <1>1, <1>2, StoreInvHolds, PTL DEF StoreSpec, ImplementsOriginStore, Promise!OriginSpec
================================================================================
