----------------------------- MODULE GraphProofs -----------------------------
(***************************************************************************)
(* Proofs about GraphSearch, for any finite graph; about Queries, for any  *)
(* finite graphs and vocabularies and queries of any length; about         *)
(* GraphStore, for any number of writers, readers, graphs and seconds; and *)
(* about GraphQueries, which runs the searches on what a reader has loaded.*)
(***************************************************************************)
EXTENDS GraphQueries, Queries, FiniteSetTheorems, WellFoundedInduction, TLAPS

(***************************************************************************)
(* Numbers, lists and loops                                                *)
(***************************************************************************)
LEMMA Least ==
    ASSUME NEW S \in SUBSET Nat, S # {}
    PROVE  \E m \in S : \A n \in S : m <= n
<1>1. PICK m \in S : \A n \in S : <<n, m>> \notin OpToRel(<, Nat)
  BY NatLessThanWellFounded, WFMin
<1>2. OpToRel(<, Nat) = {p \in Nat \X Nat : p[1] < p[2]}
  BY DEF OpToRel
<1>3. ASSUME NEW n \in S PROVE m <= n
  <2>1. ~(n < m)
    BY <1>1, <1>2
  <2> QED BY <2>1
<1> QED BY <1>3

\* A set that has 0 and with a number the next has all numbers.
LEMMA CountUp ==
    ASSUME NEW Q, 0 \in Q, \A n \in Nat : n \in Q => n + 1 \in Q
    PROVE  \A n \in Nat : n \in Q
<1> SUFFICES ASSUME NEW k \in Nat, k \notin Q PROVE FALSE
  OBVIOUS
<1>1. PICK m \in Nat \ Q : \A n \in Nat \ Q : m <= n
  <2>1. Nat \ Q \in SUBSET Nat /\ Nat \ Q # {}
    OBVIOUS
  <2> QED BY <2>1, Least
<1>2. m - 1 \in Nat /\ m - 1 \in Q
  BY <1>1
<1> QED BY <1>1, <1>2

\* A loop of n rounds on values of V: what it leaves after each round is a function.
Loops(n, base, step, f) == f = [i \in 0 .. n |-> IF i = 0 THEN base ELSE step[<<i, f[i - 1]>>]]

LEMMA LoopsExist ==
    ASSUME NEW n \in Nat, NEW V, NEW base \in V, NEW step \in [(1 .. n) \X V -> V]
    PROVE  \E f \in [0 .. n -> V] : Loops(n, base, step, f)
<1>1. PICK Q : Q = {m \in Nat : m <= n => \E f \in [0 .. m -> V] : Loops(m, base, step, f)}
  OBVIOUS
<1>2. 0 \in Q
  <2>1. PICK f : f = [i \in 0 .. 0 |-> base]
    OBVIOUS
  <2>2. f \in [0 .. 0 -> V] /\ f = [i \in 0 .. 0 |-> IF i = 0 THEN base ELSE step[<<i, f[i - 1]>>]]
    BY <2>1
  <2> QED BY <1>1, <2>2 DEF Loops
<1>3. ASSUME NEW m \in Nat, m \in Q PROVE m + 1 \in Q
  <2>1. SUFFICES ASSUME m + 1 <= n
                 PROVE  \E f \in [0 .. m + 1 -> V] : Loops(m + 1, base, step, f)
    BY <1>1
  <2>2. PICK f \in [0 .. m -> V] : f = [i \in 0 .. m |-> IF i = 0 THEN base ELSE step[<<i, f[i - 1]>>]]
    BY <1>1, <1>3, <2>1 DEF Loops
  <2>3. PICK last : last = step[<<m + 1, f[m]>>]
    OBVIOUS
  <2>4. last \in V
    <3>1. <<m + 1, f[m]>> \in (1 .. n) \X V
      BY <2>1, <2>2
    <3> QED BY <2>3, <3>1
  <2>5. PICK g : g = [i \in 0 .. m + 1 |-> IF i = m + 1 THEN last ELSE f[i]]
    OBVIOUS
  <2>6. g \in [0 .. m + 1 -> V]
    <3>1. \A i \in 0 .. m + 1 : i # m + 1 => i \in 0 .. m
      OBVIOUS
    <3> QED BY <2>2, <2>4, <2>5, <3>1
  <2>7. ASSUME NEW i \in 0 .. m + 1
        PROVE  g[i] = IF i = 0 THEN base ELSE step[<<i, g[i - 1]>>]
    <3>1. CASE i = m + 1
      <4>1. g[i] = last /\ g[i - 1] = f[m] /\ i # 0
        <5>1. i - 1 = m /\ m \in 0 .. m + 1 /\ m # m + 1
          BY <3>1
        <5> QED BY <2>5, <3>1, <5>1
      <4> QED BY <2>3, <3>1, <4>1
    <3>2. CASE i # m + 1
      <4>1. i \in 0 .. m /\ g[i] = f[i]
        BY <2>5, <3>2
      <4>2. i # 0 => g[i - 1] = f[i - 1]
        <5>1. i # 0 => i - 1 \in 0 .. m + 1 /\ i - 1 # m + 1
          BY <4>1
        <5> QED BY <2>5, <5>1
      <4> QED BY <2>2, <4>1, <4>2
    <3> QED BY <3>1, <3>2
  <2>8. g = [i \in 0 .. m + 1 |-> IF i = 0 THEN base ELSE step[<<i, g[i - 1]>>]]
    BY <2>5, <2>7
  <2> QED BY <2>6, <2>8 DEF Loops
<1>4. n \in Q
  BY <1>2, <1>3, CountUp
<1> QED BY <1>1, <1>4

(***************************************************************************)
(* Sets in the order of their ranks                                        *)
(***************************************************************************)
\* All of S, each once.
Lists(seq, S) ==
    /\ seq \in Seq(S)
    /\ \A i, j \in 1 .. Len(seq) : i # j => seq[i] # seq[j]
    /\ \A x \in S : \E i \in 1 .. Len(seq) : seq[i] = x

Ranked(rank, S) == \A x, y \in S : rank[x] \in Nat /\ (rank[x] = rank[y] => x = y)
Rising(rank, seq) == \A i, j \in DOMAIN seq : i < j => rank[seq[i]] < rank[seq[j]]
Sortable(rank, S) == \E seq \in SetToSeqs(S) : Rising(rank, seq)

\* Some element has the least rank.
LEMMA LeastRanked ==
    ASSUME NEW rank, NEW S, Ranked(rank, S), S # {}
    PROVE  \E x \in S : \A y \in S : rank[x] <= rank[y]
<1>1. PICK R : R = {rank[x] : x \in S}
  OBVIOUS
<1>2. R \in SUBSET Nat /\ R # {}
  BY <1>1 DEF Ranked
<1>3. PICK m \in R : \A n \in R : m <= n
  BY <1>2, Least
<1> QED BY <1>1, <1>3

\* With an element of least rank put before it, a longer list is in order.
LEMMA SortedLonger ==
    ASSUME NEW rank, NEW T, Ranked(rank, T), IsFiniteSet(T), NEW x \in T,
           \A y \in T : rank[x] <= rank[y], Sortable(rank, T \ {x})
    PROVE  Sortable(rank, T)
<1>1. PICK U : U = T \ {x}
  OBVIOUS
<1>2. PICK n \in Nat : n = Cardinality(U) /\ Cardinality(T) = n + 1
  <2>1. IsFiniteSet(U) /\ Cardinality(U) = Cardinality(T) - 1
    BY <1>1, FS_RemoveElement
  <2>2. Cardinality(U) \in Nat /\ Cardinality(T) \in Nat
    BY <2>1, FS_CardinalityType
  <2> QED BY <2>1, <2>2
<1>3. PICK seq \in SetToSeqs(U) : Rising(rank, seq)
  BY <1>1 DEF Sortable
<1>4. /\ seq \in [1 .. n -> U] /\ DOMAIN seq = 1 .. n
      /\ \A i, j \in 1 .. n : i < j => rank[seq[i]] < rank[seq[j]]
  BY <1>2, <1>3 DEF SetToSeqs, Rising
<1>5. PICK longer : longer = [i \in 1 .. n + 1 |-> IF i = 1 THEN x ELSE seq[i - 1]]
  OBVIOUS
<1>6. ASSUME NEW i \in 1 .. n + 1
      PROVE  /\ i = 1 => longer[i] = x
             /\ i # 1 => i - 1 \in 1 .. n /\ longer[i] = seq[i - 1] /\ longer[i] \in U
  BY <1>4, <1>5
<1>7. longer \in [1 .. n + 1 -> T]
  BY <1>1, <1>5, <1>6
<1>8. ASSUME NEW i \in 1 .. n + 1, NEW j \in 1 .. n + 1, i < j
      PROVE  rank[longer[i]] < rank[longer[j]]
  <2>1. j # 1 /\ longer[j] = seq[j - 1] /\ longer[j] \in U /\ j - 1 \in 1 .. n
    BY <1>6, <1>8
  <2>2. CASE i = 1
    <3>1. PICK y \in T : y = longer[j] /\ y # x
      BY <1>1, <2>1
    <3>2. rank[x] \in Nat /\ rank[y] \in Nat /\ rank[x] # rank[y] /\ rank[x] <= rank[y]
      BY <3>1 DEF Ranked
    <3> QED BY <1>6, <2>2, <3>1, <3>2
  <2>3. CASE i # 1
    <3>1. i - 1 \in 1 .. n /\ longer[i] = seq[i - 1] /\ i - 1 < j - 1
      BY <1>6, <1>8, <2>3
    <3> QED BY <1>4, <2>1, <3>1
  <2> QED BY <2>2, <2>3
<1>9. \A i, j \in 1 .. n + 1 : i # j => longer[i] # longer[j]
  <2>1. \A i \in 1 .. n + 1 : rank[longer[i]] \in Nat
    BY <1>7 DEF Ranked
  <2>2. SUFFICES ASSUME NEW i \in 1 .. n + 1, NEW j \in 1 .. n + 1, i # j PROVE longer[i] # longer[j]
    OBVIOUS
  <2>3. i < j \/ j < i
    BY <2>2
  <2>4. rank[longer[i]] < rank[longer[j]] \/ rank[longer[j]] < rank[longer[i]]
    BY <1>8, <2>3
  <2> QED BY <2>1, <2>4
<1>10. longer \in SetToSeqs(T) /\ Rising(rank, longer)
  BY <1>2, <1>7, <1>8, <1>9 DEF SetToSeqs, Rising
<1> QED BY <1>10 DEF Sortable

\* A finite set that has ranks can be put in their order.
LEMMA SortedExists ==
    ASSUME NEW rank, NEW S, Ranked(rank, S), IsFiniteSet(S)
    PROVE  Sortable(rank, S)
<1>1. PICK Q : Q = {n \in Nat : \A T \in SUBSET S : Cardinality(T) = n => Sortable(rank, T)}
  OBVIOUS
<1>2. 0 \in Q
  <2>1. SUFFICES ASSUME NEW T \in SUBSET S, Cardinality(T) = 0 PROVE Sortable(rank, T)
    BY <1>1
  <2>2. T = {}
    BY <2>1, FS_EmptySet, FS_Subset
  <2>3. PICK empty : empty = [i \in 1 .. 0 |-> 0]
    OBVIOUS
  <2>4. empty \in SetToSeqs(T) /\ Rising(rank, empty)
    BY <2>1, <2>2, <2>3 DEF SetToSeqs, Rising
  <2> QED BY <2>4 DEF Sortable
<1>3. ASSUME NEW n \in Nat, n \in Q PROVE n + 1 \in Q
  <2>1. SUFFICES ASSUME NEW T \in SUBSET S, Cardinality(T) = n + 1 PROVE Sortable(rank, T)
    BY <1>1
  <2>2. IsFiniteSet(T) /\ Ranked(rank, T)
    BY FS_Subset DEF Ranked
  <2>3. T # {}
    BY <2>1, FS_EmptySet
  <2>4. PICK x \in T : \A y \in T : rank[x] <= rank[y]
    BY <2>2, <2>3, LeastRanked
  <2>5. Cardinality(T \ {x}) = n
    <3>1. Cardinality(T \ {x}) = Cardinality(T) - 1
      BY <2>2, FS_RemoveElement
    <3> QED BY <2>1, <3>1
  <2>6. Sortable(rank, T \ {x})
    BY <1>1, <1>3, <2>5
  <2> QED BY <2>2, <2>4, <2>6, SortedLonger
<1>4. Cardinality(S) \in Q
  BY <1>2, <1>3, CountUp, FS_CardinalityType
<1> QED BY <1>1, <1>4

\* InRankOrder lists the set.
LEMMA InRankOrderLists ==
    ASSUME NEW rank, NEW S, Ranked(rank, S), IsFiniteSet(S)
    PROVE  Lists(InRankOrder(rank, S), S)
<1>1. PICK seq : seq = InRankOrder(rank, S)
  OBVIOUS
<1>2. seq \in SetToSeqs(S)
  BY <1>1, SortedExists DEF InRankOrder, Sortable, Rising
<1>3. PICK n \in Nat : n = Cardinality(S)
  BY FS_CardinalityType
<1>4. seq \in [1 .. n -> S] /\ \A i, j \in 1 .. n : i # j => seq[i] # seq[j]
  BY <1>2, <1>3 DEF SetToSeqs
<1>5. seq \in Seq(S) /\ Len(seq) = n
  BY <1>4
<1>6. seq \in Injection(1 .. n, S)
  BY <1>4 DEF Injection, IsInjective
<1>7. Cardinality(1 .. n) = n
  BY FS_Interval
<1>8. seq \in Surjection(1 .. n, S)
  BY <1>3, <1>6, <1>7, FS_Injection
<1>9. \A x \in S : \E i \in 1 .. n : seq[i] = x
  BY <1>8 DEF Surjection
<1> QED BY <1>1, <1>4, <1>5, <1>9 DEF Lists

\* The neighbours of a node are the nodes that an edge joins to it.
IsGraph(g) == g.nodes \subseteq AllNodes /\ g.edges \subseteq AllEdges

LEMMA AdjacencyTells ==
    ASSUME NEW g, IsGraph(g), NEW v \in AllNodes
    PROVE  /\ Adjacency(g, v) \in Seq(AllNodes)
           /\ \A j \in 1 .. Len(Adjacency(g, v)) : Joined(g, v, Adjacency(g, v)[j])
           /\ \A b \in AllNodes : Joined(g, v, b) => \E j \in 1 .. Len(Adjacency(g, v)) : Adjacency(g, v)[j] = b
<1>1. PICK E : E = EdgesAt(g, v)
  OBVIOUS
<1>2. E \subseteq AllEdges /\ IsFiniteSet(E)
  <2>1. E \subseteq AllEdges
    BY <1>1 DEF EdgesAt, IsGraph
  <2> QED BY <2>1, FS_Subset, SearchAssumption
<1>3. Ranked(EdgeRank, E)
  BY <1>2, SearchAssumption DEF Ranked
<1>4. PICK here : here = InRankOrder(EdgeRank, E)
  OBVIOUS
<1>5. Lists(here, E)
  BY <1>2, <1>3, <1>4, InRankOrderLists
<1>6. PICK n \in Nat : n = Len(here) /\ DOMAIN here = 1 .. n /\ \A j \in 1 .. n : here[j] \in E
  BY <1>5 DEF Lists
<1>7. PICK next : next = [k \in 1 .. n |-> IF here[k].from = v THEN here[k].to ELSE here[k].from]
  OBVIOUS
<1>8. Adjacency(g, v) = next
  BY <1>1, <1>4, <1>6, <1>7 DEF Adjacency
<1>9. ASSUME NEW j \in 1 .. n
      PROVE  next[j] \in AllNodes /\ Joined(g, v, next[j])
  <2>1. PICK e \in E : e = here[j] /\ e \in g.edges /\ v \in {e.from, e.to}
    BY <1>1, <1>6 DEF EdgesAt
  <2>2. e.from \in AllNodes /\ e.to \in AllNodes
    BY <1>2, SearchAssumption
  <2>3. next[j] = IF e.from = v THEN e.to ELSE e.from
    BY <1>7, <2>1
  <2>4. {e.from, e.to} = {v, next[j]}
    BY <2>1, <2>3
  <2> QED BY <2>1, <2>2, <2>3, <2>4 DEF Joined
<1>10. next \in [1 .. n -> AllNodes]
  BY <1>7, <1>9
<1>11. next \in Seq(AllNodes) /\ Len(next) = n
  BY <1>10
<1>12. ASSUME NEW b \in AllNodes, Joined(g, v, b)
       PROVE  \E j \in 1 .. n : next[j] = b
  <2>1. PICK e \in g.edges : {e.from, e.to} = {v, b}
    BY <1>12 DEF Joined
  <2>2. e \in E
    BY <1>1, <2>1 DEF EdgesAt
  <2>3. PICK j \in 1 .. n : here[j] = e
    BY <1>5, <1>6, <2>2 DEF Lists
  <2>4. next[j] = b
    BY <1>7, <2>1, <2>3
  <2> QED BY <2>4
<1> QED BY <1>8, <1>9, <1>11, <1>12

(***************************************************************************)
(* The queue of a search                                                   *)
(***************************************************************************)
Entries == [node : AllNodes, via : Nat, depth : Nat]
Distinct(queue) == \A i, j \in 1 .. Len(queue) : queue[i].node = queue[j].node => i = j

\* What is appended to a queue that has not got it.
LEMMA EntryAppended ==
    ASSUME NEW queue \in Seq(Entries), Distinct(queue), NEW e \in Entries, ~Visited(queue, e.node)
    PROVE  /\ Append(queue, e) \in Seq(Entries) /\ Len(Append(queue, e)) = Len(queue) + 1
           /\ \A i \in 1 .. Len(queue) : Append(queue, e)[i] = queue[i]
           /\ Append(queue, e)[Len(queue) + 1] = e
           /\ Distinct(Append(queue, e))
<1>1. PICK n \in Nat : n = Len(queue) /\ DOMAIN queue = 1 .. n
  OBVIOUS
<1>2. PICK longer : longer = Append(queue, e)
  OBVIOUS
<1>3. /\ longer \in Seq(Entries) /\ Len(longer) = n + 1
      /\ \A i \in 1 .. n : longer[i] = queue[i]
      /\ longer[n + 1] = e
  BY <1>1, <1>2
<1>4. ASSUME NEW i \in 1 .. n + 1, NEW j \in 1 .. n + 1, longer[i].node = longer[j].node
      PROVE  i = j
  <2>1. \A h \in 1 .. n : queue[h].node # e.node
    BY <1>1 DEF Visited
  <2>2. CASE i = n + 1 /\ j = n + 1
    BY <2>2
  <2>3. CASE i \in 1 .. n /\ j = n + 1
    BY <1>3, <1>4, <2>1, <2>3
  <2>4. CASE i = n + 1 /\ j \in 1 .. n
    BY <1>3, <1>4, <2>1, <2>4
  <2>5. CASE i \in 1 .. n /\ j \in 1 .. n
    BY <1>1, <1>3, <1>4, <2>5 DEF Distinct
  <2> QED BY <2>2, <2>3, <2>4, <2>5
<1>5. Distinct(longer)
  BY <1>3, <1>4 DEF Distinct
<1> QED BY <1>1, <1>2, <1>3, <1>5

\* r is the queue with what was new among the first j of next.
Enqueued(queue, k, next, j, r) ==
    /\ r \in Seq(Entries) /\ Len(queue) <= Len(r) /\ Distinct(r)
    /\ \A i \in 1 .. Len(queue) : r[i] = queue[i]
    /\ \A i \in Len(queue) + 1 .. Len(r) :
          r[i].via = k /\ r[i].depth = queue[k].depth + 1 /\ \E h \in 1 .. j : r[i].node = next[h]
    /\ \A h \in 1 .. j : \E i \in 1 .. Len(r) : r[i].node = next[h]

LEMMA EnqueuedOne ==
    ASSUME NEW queue \in Seq(Entries), NEW k \in 1 .. Len(queue), NEW next \in Seq(AllNodes),
           NEW j \in Nat, j + 1 <= Len(next), NEW r, Enqueued(queue, k, next, j, r),
           NEW s, s = IF Visited(r, next[j + 1]) THEN r
                      ELSE Append(r, Entry(next[j + 1], k, queue[k].depth + 1))
    PROVE  Enqueued(queue, k, next, j + 1, s)
<1>1. PICK l \in Nat, m \in Nat : l = Len(queue) /\ m = Len(r) /\ l <= m /\ DOMAIN r = 1 .. m
  BY DEF Enqueued
<1>2. /\ r \in Seq(Entries) /\ Distinct(r)
      /\ \A i \in 1 .. l : r[i] = queue[i]
      /\ \A i \in l + 1 .. m : r[i].via = k /\ r[i].depth = queue[k].depth + 1 /\ \E h \in 1 .. j : r[i].node = next[h]
      /\ \A h \in 1 .. j : \E i \in 1 .. m : r[i].node = next[h]
  BY <1>1 DEF Enqueued
<1>3. \A h \in 1 .. j + 1 : h = j + 1 \/ h \in 1 .. j
  OBVIOUS
<1>4. \A h \in 1 .. j : h \in 1 .. j + 1
  OBVIOUS
<1>5. CASE Visited(r, next[j + 1])
  <2>1. s = r
    BY <1>5
  <2>2. PICK i \in 1 .. m : r[i].node = next[j + 1]
    BY <1>1, <1>5 DEF Visited
  <2>3. \A h \in 1 .. j + 1 : \E i1 \in 1 .. m : r[i1].node = next[h]
    BY <1>2, <1>3, <2>2
  <2>4. \A i1 \in l + 1 .. m : r[i1].via = k /\ r[i1].depth = queue[k].depth + 1 /\ \E h \in 1 .. j + 1 : r[i1].node = next[h]
    BY <1>2, <1>4
  <2> QED BY <1>1, <1>2, <2>1, <2>3, <2>4 DEF Enqueued
<1>6. CASE ~Visited(r, next[j + 1])
  <2>1. PICK e : e = Entry(next[j + 1], k, queue[k].depth + 1)
    OBVIOUS
  <2>2. e \in Entries /\ e.node = next[j + 1] /\ e.via = k /\ e.depth = queue[k].depth + 1
    <3>1. next[j + 1] \in AllNodes /\ queue[k] \in Entries /\ k \in Nat
      <4>1. j + 1 \in 1 .. Len(next)
        OBVIOUS
      <4> QED BY <4>1
    <3> QED BY <2>1, <3>1 DEF Entries, Entry
  <2>3. s = Append(r, e)
    BY <1>6, <2>1
  <2>4. /\ s \in Seq(Entries) /\ Len(s) = m + 1 /\ Distinct(s)
        /\ \A i \in 1 .. m : s[i] = r[i]
        /\ s[m + 1] = e
    BY <1>1, <1>2, <1>6, <2>2, <2>3, EntryAppended
  <2>5. \A i \in 1 .. l : s[i] = queue[i]
    BY <1>1, <1>2, <2>4
  <2>6. ASSUME NEW i \in l + 1 .. m + 1
        PROVE  s[i].via = k /\ s[i].depth = queue[k].depth + 1 /\ \E h \in 1 .. j + 1 : s[i].node = next[h]
    <3>1. CASE i = m + 1
      <4>1. j + 1 \in 1 .. j + 1
        OBVIOUS
      <4> QED BY <2>2, <2>4, <3>1, <4>1
    <3>2. CASE i # m + 1
      <4>1. i \in l + 1 .. m /\ i \in 1 .. m
        BY <1>1, <3>2
      <4> QED BY <1>2, <1>4, <2>4, <4>1
    <3> QED BY <3>1, <3>2
  <2>7. ASSUME NEW h \in 1 .. j + 1
        PROVE  \E i \in 1 .. m + 1 : s[i].node = next[h]
    <3>1. CASE h = j + 1
      <4>1. m + 1 \in 1 .. m + 1
        BY <1>1
      <4> QED BY <2>2, <2>4, <3>1, <4>1
    <3>2. CASE h \in 1 .. j
      <4>1. PICK i \in 1 .. m : r[i].node = next[h]
        BY <1>2, <3>2
      <4>2. i \in 1 .. m + 1
        OBVIOUS
      <4> QED BY <2>4, <4>1, <4>2
    <3> QED BY <1>3, <3>1, <3>2
  <2>8. l <= m + 1
    BY <1>1
  <2> QED BY <1>1, <2>4, <2>5, <2>6, <2>7, <2>8 DEF Enqueued
<1> QED BY <1>5, <1>6

LEMMA EnqueueNewTells ==
    ASSUME NEW g, IsGraph(g), NEW queue \in Seq(Entries), Distinct(queue), NEW k \in 1 .. Len(queue)
    PROVE  Enqueued(queue, k, Adjacency(g, queue[k].node), Len(Adjacency(g, queue[k].node)), EnqueueNew(g, queue, k))
<1>1. queue[k] \in Entries /\ queue[k].node \in AllNodes /\ queue[k].depth + 1 \in Nat /\ k \in Nat
  <2>1. queue[k] \in Entries
    OBVIOUS
  <2> QED BY <2>1 DEF Entries
<1>2. PICK next : next = Adjacency(g, queue[k].node)
  OBVIOUS
<1>3. next \in Seq(AllNodes)
  BY <1>1, <1>2, AdjacencyTells
<1>4. PICK n \in Nat : n = Len(next)
  BY <1>3
<1>5. PICK V : V = Seq(Entries)
  OBVIOUS
<1>6. PICK step : step = [p \in (1 .. n) \X V |->
                            IF Visited(p[2], next[p[1]]) THEN p[2]
                            ELSE Append(p[2], Entry(next[p[1]], k, queue[k].depth + 1))]
  OBVIOUS
<1>7. step \in [(1 .. n) \X V -> V]
  <2>1. ASSUME NEW j \in 1 .. n, NEW r \in V
        PROVE  Append(r, Entry(next[j], k, queue[k].depth + 1)) \in V
    <3>1. next[j] \in AllNodes
      BY <1>3, <1>4
    <3>2. Entry(next[j], k, queue[k].depth + 1) \in Entries
      BY <1>1, <3>1 DEF Entries, Entry
    <3> QED BY <1>5, <3>2
  <2> QED BY <1>6, <2>1
<1>8. PICK f \in [0 .. n -> V] : f = [i \in 0 .. n |-> IF i = 0 THEN queue ELSE step[<<i, f[i - 1]>>]]
  <2>1. queue \in V
    BY <1>5
  <2>2. \E f \in [0 .. n -> V] : Loops(n, queue, step, f)
    BY <1>4, <1>7, <2>1, LoopsExist
  <2> QED BY <2>2 DEF Loops
<1>9. f = [j \in 0 .. n |-> IF j = 0 THEN queue
                            ELSE IF Visited(f[j - 1], next[j]) THEN f[j - 1]
                            ELSE Append(f[j - 1], Entry(next[j], k, queue[k].depth + 1))]
  <2>1. ASSUME NEW j \in 0 .. n, j # 0
        PROVE  step[<<j, f[j - 1]>>] = IF Visited(f[j - 1], next[j]) THEN f[j - 1]
                                       ELSE Append(f[j - 1], Entry(next[j], k, queue[k].depth + 1))
    <3>1. <<j, f[j - 1]>> \in (1 .. n) \X V
      BY <1>8, <2>1
    <3> QED BY <1>6, <3>1
  <2> QED BY <1>8, <2>1
<1>10. PICK w : w = CHOOSE h : h = [j \in 0 .. n |-> IF j = 0 THEN queue
                            ELSE IF Visited(h[j - 1], next[j]) THEN h[j - 1]
                            ELSE Append(h[j - 1], Entry(next[j], k, queue[k].depth + 1))]
  OBVIOUS
<1>11. w = [j \in 0 .. n |-> IF j = 0 THEN queue
                            ELSE IF Visited(w[j - 1], next[j]) THEN w[j - 1]
                            ELSE Append(w[j - 1], Entry(next[j], k, queue[k].depth + 1))]
  BY <1>9, <1>10
<1>12. EnqueueNew(g, queue, k) = w[n]
  BY <1>2, <1>4, <1>10 DEF EnqueueNew
<1>13. PICK Q : Q = {j \in Nat : j <= n => Enqueued(queue, k, next, j, w[j])}
  OBVIOUS
<1>14. 0 \in Q
  <2>1. w[0] = queue
    BY <1>11
  <2>2. Enqueued(queue, k, next, 0, queue)
    BY DEF Enqueued
  <2> QED BY <1>13, <2>1, <2>2
<1>15. ASSUME NEW j \in Nat, j \in Q PROVE j + 1 \in Q
  <2>1. SUFFICES ASSUME j + 1 <= n PROVE Enqueued(queue, k, next, j + 1, w[j + 1])
    BY <1>13
  <2>2. Enqueued(queue, k, next, j, w[j])
    BY <1>13, <1>15, <2>1
  <2>3. w[j + 1] = IF Visited(w[j], next[j + 1]) THEN w[j]
                   ELSE Append(w[j], Entry(next[j + 1], k, queue[k].depth + 1))
    <3>1. j + 1 \in 0 .. n /\ j + 1 # 0 /\ (j + 1) - 1 = j
      BY <2>1
    <3> QED BY <1>11, <3>1
  <2> QED BY <1>3, <1>4, <2>1, <2>2, <2>3, EnqueuedOne
<1>16. n \in Q
  BY <1>14, <1>15, CountUp
<1> QED BY <1>2, <1>4, <1>12, <1>13, <1>16

LEMMA EntryTells ==
    ASSUME NEW node, NEW via, NEW depth
    PROVE  Entry(node, via, depth).node = node /\ Entry(node, via, depth).via = via /\ Entry(node, via, depth).depth = depth
BY DEF Entry

\* What a search has after k rounds: each entry was found from an earlier one, one edge
\* closer; depths never fall; and what is joined to an entry that had its round is there.
Earlier(g, k, q, i) ==
    /\ q[i].via \in 1 .. i - 1 /\ q[i].via <= k
    /\ q[i].depth = q[q[i].via].depth + 1
    /\ Joined(g, q[q[i].via].node, q[i].node)

Searched(g, seeds, d, k, q) ==
    /\ q \in Seq(Entries) /\ Distinct(q) /\ Len(seeds) <= Len(q)
    /\ \A i \in 1 .. Len(seeds) : q[i] = Entry(seeds[i], 0, 0)
    /\ \A i \in Len(seeds) + 1 .. Len(q) : Earlier(g, k, q, i)
    /\ \A i \in 1 .. Len(q) : q[i].depth < i /\ q[i].depth <= d
    /\ \A i, j \in 1 .. Len(q) : i <= j => q[i].depth <= q[j].depth
    /\ \A i \in 1 .. Len(q) : i <= k /\ q[i].depth < d =>
          \A b \in AllNodes : Joined(g, q[i].node, b) =>
              \E j \in 1 .. Len(q) : q[j].node = b /\ q[j].depth <= q[i].depth + 1

SeedList(seeds) == seeds \in Seq(AllNodes) /\ \A i, j \in 1 .. Len(seeds) : seeds[i] = seeds[j] => i = j

LEMMA SearchStarts ==
    ASSUME NEW g, NEW seeds, SeedList(seeds), NEW d \in Nat,
           NEW q, q = [i \in DOMAIN seeds |-> Entry(seeds[i], 0, 0)]
    PROVE  Searched(g, seeds, d, 0, q)
<1>1. PICK l \in Nat : l = Len(seeds) /\ DOMAIN seeds = 1 .. l /\ \A i \in 1 .. l : seeds[i] \in AllNodes
  BY DEF SeedList
<1>2. \A i \in 1 .. l : q[i] = Entry(seeds[i], 0, 0) /\ q[i] \in Entries
  BY <1>1 DEF Entry, Entries
<1>3. q \in [1 .. l -> Entries]
  BY <1>1, <1>2
<1>4. q \in Seq(Entries) /\ Len(q) = l
  BY <1>3
<1>5. \A i \in 1 .. l : q[i].node = seeds[i] /\ q[i].depth = 0
  BY <1>2, EntryTells
<1>6. Distinct(q)
  BY <1>1, <1>4, <1>5 DEF Distinct, SeedList
<1>7. \A i \in l + 1 .. l : FALSE
  OBVIOUS
<1>8. \A i \in 1 .. l : q[i].depth < i /\ q[i].depth <= d
  BY <1>5
<1>9. \A i, j \in 1 .. l : q[i].depth <= q[j].depth
  BY <1>5
<1>10. \A i \in 1 .. l : ~(i <= 0)
  OBVIOUS
<1> QED BY <1>1, <1>2, <1>4, <1>6, <1>7, <1>8, <1>9, <1>10 DEF Searched

\* No entry is more than one edge further than the one whose round comes next.
LEMMA NoneFurther ==
    ASSUME NEW g, NEW seeds, SeedList(seeds), NEW d \in Nat, NEW k \in Nat, NEW q,
           Searched(g, seeds, d, k, q), k + 1 <= Len(q)
    PROVE  \A i \in 1 .. Len(q) : q[i].depth <= q[k + 1].depth + 1
<1>1. PICK l \in Nat, m \in Nat : l = Len(seeds) /\ m = Len(q) /\ l <= m /\ k + 1 <= m
  BY DEF Searched, SeedList
<1>2. \A i \in 1 .. m : q[i].depth \in Nat
  <2>1. \A i \in 1 .. m : q[i] \in Entries
    BY <1>1 DEF Searched
  <2> QED BY <2>1 DEF Entries
<1> SUFFICES ASSUME NEW i \in 1 .. m PROVE q[i].depth <= q[k + 1].depth + 1
  BY <1>1
<1>3. k + 1 \in 1 .. m
  BY <1>1
<1>4. CASE i \in 1 .. l
  <2>1. q[i].depth = 0
    <3>1. q[i] = Entry(seeds[i], 0, 0)
      BY <1>1, <1>4 DEF Searched
    <3> QED BY <3>1, EntryTells
  <2> QED BY <1>2, <1>3, <2>1
<1>5. CASE i \notin 1 .. l
  <2>1. i \in l + 1 .. m
    BY <1>1, <1>5
  <2>2. Earlier(g, k, q, i)
    BY <1>1, <2>1 DEF Searched
  <2>3. PICK v \in 1 .. i - 1 : v = q[i].via /\ v <= k /\ q[i].depth = q[v].depth + 1
    BY <2>2 DEF Earlier
  <2>4. v \in 1 .. m /\ v <= k + 1
    BY <2>3
  <2>5. q[v].depth <= q[k + 1].depth
    <3>1. \A x, y \in 1 .. m : x <= y => q[x].depth <= q[y].depth
      BY <1>1 DEF Searched
    <3>2. PICK z \in 1 .. m : z = k + 1
      BY <1>3
    <3>3. v <= z
      BY <2>4, <3>2
    <3>4. q[v].depth <= q[z].depth
      BY <2>4, <3>1, <3>3
    <3> QED BY <3>2, <3>4
  <2>6. PICK x \in Nat, y \in Nat : x = q[v].depth /\ y = q[k + 1].depth
    BY <1>2, <1>3, <2>4
  <2>7. x + 1 <= y + 1
    BY <2>5, <2>6
  <2> QED BY <2>3, <2>6, <2>7
<1> QED BY <1>4, <1>5

\* A round that finds no entry, or one at the depth of the search, leaves all as it is.
LEMMA IdleRound ==
    ASSUME NEW g, NEW seeds, SeedList(seeds), NEW d \in Nat, NEW k \in Nat, NEW q,
           Searched(g, seeds, d, k, q), k + 1 > Len(q) \/ q[k + 1].depth >= d
    PROVE  Searched(g, seeds, d, k + 1, q)
<1>1. PICK l \in Nat, m \in Nat : l = Len(seeds) /\ m = Len(q) /\ l <= m
  BY DEF Searched, SeedList
<1>2. \A i \in 1 .. m : q[i].depth \in Nat /\ q[i].via \in Nat
  <2>1. \A i \in 1 .. m : q[i] \in Entries
    BY <1>1 DEF Searched
  <2> QED BY <2>1 DEF Entries
<1>3. ASSUME NEW i \in l + 1 .. m
      PROVE  Earlier(g, k + 1, q, i)
  <2>1. Earlier(g, k, q, i)
    BY <1>1 DEF Searched
  <2>2. q[i].via <= k + 1
    <3>1. q[i].via \in Nat /\ q[i].via <= k
      BY <1>1, <1>2, <2>1 DEF Earlier
    <3> QED BY <3>1
  <2> QED BY <2>1, <2>2 DEF Earlier
<1>4. ASSUME NEW i \in 1 .. m, i <= k + 1, q[i].depth < d
      PROVE  i <= k
  <2>1. i # k + 1
    BY <1>1, <1>2, <1>4
  <2> QED BY <1>4, <2>1
<1> QED BY <1>1, <1>3, <1>4 DEF Searched

LEMMA BusyRound ==
    ASSUME NEW g, IsGraph(g), NEW seeds, SeedList(seeds), NEW d \in Nat, NEW k \in Nat, NEW q,
           Searched(g, seeds, d, k, q), k + 1 <= Len(q), q[k + 1].depth < d
    PROVE  Searched(g, seeds, d, k + 1, EnqueueNew(g, q, k + 1))
<1>1. PICK l \in Nat, m \in Nat : l = Len(seeds) /\ m = Len(q) /\ l <= m /\ k + 1 <= m /\ q \in Seq(Entries)
  BY DEF Searched, SeedList
<1>2. \A i \in 1 .. m : q[i] \in Entries
  BY <1>1
<1>3. PICK c \in Nat : c = q[k + 1].depth /\ c < d /\ c < k + 1
  <2>1. k + 1 \in 1 .. m
    BY <1>1
  <2> QED BY <1>1, <1>2, <2>1 DEF Searched, Entries
<1>4. PICK next : next = Adjacency(g, q[k + 1].node)
  OBVIOUS
<1>5. q[k + 1].node \in AllNodes
  BY <1>1, <1>2 DEF Entries
<1>6. PICK r : r = EnqueueNew(g, q, k + 1)
  OBVIOUS
<1>7. Enqueued(q, k + 1, next, Len(next), r)
  <2>1. Distinct(q) /\ k + 1 \in 1 .. Len(q)
    BY <1>1 DEF Searched
  <2> QED BY <1>1, <1>4, <1>6, <2>1, EnqueueNewTells
<1>8. PICK n \in Nat :
        /\ n = Len(r) /\ m <= n /\ r \in Seq(Entries) /\ Distinct(r)
        /\ \A i \in 1 .. m : r[i] = q[i]
        /\ \A i \in m + 1 .. n : r[i].via = k + 1 /\ r[i].depth = c + 1 /\ \E h \in 1 .. Len(next) : r[i].node = next[h]
        /\ \A h \in 1 .. Len(next) : \E i \in 1 .. n : r[i].node = next[h]
  <2>1. PICK n \in Nat : n = Len(r)
    BY <1>7 DEF Enqueued
  <2>2. m <= n /\ r \in Seq(Entries) /\ Distinct(r) /\ \A i \in 1 .. m : r[i] = q[i]
    BY <1>1, <1>7, <2>1 DEF Enqueued
  <2>3. \A i \in m + 1 .. n : r[i].via = k + 1 /\ r[i].depth = c + 1 /\ \E h \in 1 .. Len(next) : r[i].node = next[h]
    BY <1>1, <1>3, <1>7, <2>1 DEF Enqueued
  <2>4. \A h \in 1 .. Len(next) : \E i \in 1 .. n : r[i].node = next[h]
    BY <1>7, <2>1 DEF Enqueued
  <2> QED BY <2>1, <2>2, <2>3, <2>4
<1>9. \A i \in 1 .. n : i \in 1 .. m \/ i \in m + 1 .. n
  BY <1>1, <1>8
<1>10. \A i \in 1 .. m : r[i].depth \in Nat /\ r[i].depth <= c + 1 /\ r[i].depth < i /\ r[i].depth <= d
  <2>1. \A i \in 1 .. m : q[i].depth <= c + 1 /\ q[i].depth < i /\ q[i].depth <= d
    <3>1. \A i \in 1 .. m : q[i].depth <= c + 1
      BY <1>1, <1>3, NoneFurther
    <3>2. \A i \in 1 .. m : q[i].depth < i /\ q[i].depth <= d
      BY <1>1 DEF Searched
    <3> QED BY <3>1, <3>2
  <2>2. \A i \in 1 .. m : q[i].depth \in Nat
    BY <1>2 DEF Entries
  <2> QED BY <1>8, <2>1, <2>2
<1>11. \A i \in m + 1 .. n : r[i].depth < i /\ r[i].depth <= d
  <2>1. \A i \in m + 1 .. n : c + 1 < i /\ c + 1 <= d
    BY <1>1, <1>3
  <2> QED BY <1>8, <2>1
<1>12. ASSUME NEW i \in l + 1 .. n
       PROVE  Earlier(g, k + 1, r, i)
  <2>1. CASE i \in 1 .. m
    <3>1. Earlier(g, k, q, i)
      <4>1. i \in l + 1 .. m
        BY <2>1
      <4> QED BY <1>1, <4>1 DEF Searched
    <3>2. PICK v \in 1 .. i - 1 : v = q[i].via /\ v <= k /\ q[i].depth = q[v].depth + 1 /\ Joined(g, q[v].node, q[i].node)
      BY <3>1 DEF Earlier
    <3>3. v \in 1 .. m /\ v <= k + 1
      BY <2>1, <3>2
    <3>4. r[i] = q[i] /\ r[v] = q[v]
      BY <1>8, <2>1, <3>3
    <3> QED BY <3>2, <3>3, <3>4 DEF Earlier
  <2>2. CASE i \in m + 1 .. n
    <3>1. r[i].via = k + 1 /\ r[i].depth = c + 1 /\ r[k + 1] = q[k + 1]
      <4>1. k + 1 \in 1 .. m
        BY <1>1
      <4> QED BY <1>8, <2>2, <4>1
    <3>2. k + 1 \in 1 .. i - 1
      BY <1>1, <2>2
    <3>3. Joined(g, q[k + 1].node, r[i].node)
      <4>1. PICK h \in 1 .. Len(next) : r[i].node = next[h]
        BY <1>8, <2>2
      <4> QED BY <1>4, <1>5, <4>1, AdjacencyTells
    <3> QED BY <1>3, <3>1, <3>2, <3>3 DEF Earlier
  <2>3. i \in 1 .. n
    BY <1>1
  <2> QED BY <1>9, <2>1, <2>2, <2>3
<1>13. ASSUME NEW i \in 1 .. n, NEW j \in 1 .. n, i <= j
       PROVE  r[i].depth <= r[j].depth
  <2>1. CASE j \in 1 .. m
    <3>1. i \in 1 .. m
      BY <1>13, <2>1
    <3>2. q[i].depth <= q[j].depth
      BY <1>1, <1>13, <2>1, <3>1 DEF Searched
    <3> QED BY <1>8, <2>1, <3>1, <3>2
  <2>2. CASE j \in m + 1 .. n
    <3>1. r[j].depth = c + 1
      BY <1>8, <2>2
    <3>2. r[i].depth <= c + 1
      <4>1. CASE i \in 1 .. m
        BY <1>10, <4>1
      <4>2. CASE i \in m + 1 .. n
        BY <1>8, <1>3, <4>2
      <4> QED BY <1>9, <4>1, <4>2
    <3> QED BY <3>1, <3>2
  <2> QED BY <1>9, <2>1, <2>2
<1>14. ASSUME NEW i \in 1 .. n, i <= k + 1, r[i].depth < d,
              NEW b \in AllNodes, Joined(g, r[i].node, b)
       PROVE  \E j \in 1 .. n : r[j].node = b /\ r[j].depth <= r[i].depth + 1
  <2>1. i \in 1 .. m /\ r[i] = q[i]
    <3>1. i \in 1 .. m
      BY <1>1, <1>14
    <3> QED BY <1>8, <3>1
  <2>2. CASE i = k + 1
    <3>1. PICK h \in 1 .. Len(next) : next[h] = b
      <4>1. Joined(g, q[k + 1].node, b)
        BY <1>14, <2>1, <2>2
      <4>2. \A x \in AllNodes : Joined(g, q[k + 1].node, x) => \E h \in 1 .. Len(next) : next[h] = x
        BY <1>4, <1>5, AdjacencyTells
      <4> QED BY <1>14, <4>1, <4>2
    <3>2. PICK j \in 1 .. n : r[j].node = b
      BY <1>8, <3>1
    <3>3. r[j].depth <= c + 1
      <4>1. CASE j \in 1 .. m
        BY <1>10, <4>1
      <4>2. CASE j \in m + 1 .. n
        BY <1>3, <1>8, <4>2
      <4> QED BY <1>9, <4>1, <4>2
    <3>4. r[i].depth = c
      BY <1>3, <2>1, <2>2
    <3> QED BY <3>2, <3>3, <3>4
  <2>3. CASE i # k + 1
    <3>1. i <= k
      BY <1>14, <2>3
    <3>2. PICK j \in 1 .. m : q[j].node = b /\ q[j].depth <= q[i].depth + 1
      BY <1>1, <1>14, <2>1, <3>1 DEF Searched
    <3>3. j \in 1 .. n /\ r[j] = q[j]
      BY <1>8, <3>2
    <3> QED BY <2>1, <3>2, <3>3
  <2> QED BY <2>2, <2>3
<1>15. \A i \in 1 .. l : r[i] = Entry(seeds[i], 0, 0)
  <2>1. \A i \in 1 .. l : q[i] = Entry(seeds[i], 0, 0) /\ i \in 1 .. m
    BY <1>1 DEF Searched
  <2> QED BY <1>8, <2>1
<1>16. \A i \in 1 .. n : r[i].depth < i /\ r[i].depth <= d
  BY <1>9, <1>10, <1>11
<1>17. l <= n
  BY <1>1, <1>8
<1>18. Searched(g, seeds, d, k + 1, r)
  BY <1>1, <1>8, <1>12, <1>13, <1>14, <1>15, <1>16, <1>17 DEF Searched
<1> QED BY <1>6, <1>18

LEMMA SearchTells ==
    ASSUME NEW g, IsGraph(g), NEW seeds, SeedList(seeds), NEW d \in Nat
    PROVE  Searched(g, seeds, d, Furthest, Search(g, seeds, d))
<1>1. PICK n \in Nat : n = Cardinality(AllNodes)
  BY SearchAssumption, FS_CardinalityType
<1>2. PICK V : V = {q \in Seq(Entries) : Distinct(q)}
  OBVIOUS
<1>3. PICK base : base = [i \in DOMAIN seeds |-> Entry(seeds[i], 0, 0)]
  OBVIOUS
<1>4. Searched(g, seeds, d, 0, base)
  BY <1>3, SearchStarts
<1>5. PICK step : step = [p \in (1 .. n) \X V |-> IF p[1] > Len(p[2]) \/ p[2][p[1]].depth >= d THEN p[2]
                                                  ELSE EnqueueNew(g, p[2], p[1])]
  OBVIOUS
<1>6. step \in [(1 .. n) \X V -> V]
  <2>1. ASSUME NEW k \in 1 .. n, NEW q \in V, ~(k > Len(q))
        PROVE  EnqueueNew(g, q, k) \in V
    <3>1. q \in Seq(Entries) /\ Distinct(q) /\ k \in 1 .. Len(q)
      BY <1>2, <2>1
    <3> QED BY <1>2, <3>1, EnqueueNewTells DEF Enqueued
  <2> QED BY <1>5, <2>1
<1>7. PICK f \in [0 .. n -> V] : f = [i \in 0 .. n |-> IF i = 0 THEN base ELSE step[<<i, f[i - 1]>>]]
  <2>1. base \in V
    BY <1>2, <1>4 DEF Searched
  <2>2. \E f \in [0 .. n -> V] : Loops(n, base, step, f)
    BY <1>1, <1>6, <2>1, LoopsExist
  <2> QED BY <2>2 DEF Loops
<1>8. f = [k \in 0 .. n |-> IF k = 0 THEN base
                            ELSE IF k > Len(f[k - 1]) \/ f[k - 1][k].depth >= d THEN f[k - 1]
                            ELSE EnqueueNew(g, f[k - 1], k)]
  <2>1. ASSUME NEW k \in 0 .. n, k # 0
        PROVE  step[<<k, f[k - 1]>>] = IF k > Len(f[k - 1]) \/ f[k - 1][k].depth >= d THEN f[k - 1]
                                       ELSE EnqueueNew(g, f[k - 1], k)
    <3>1. <<k, f[k - 1]>> \in (1 .. n) \X V
      BY <1>7, <2>1
    <3> QED BY <1>5, <3>1
  <2> QED BY <1>7, <2>1
<1>9. PICK w : w = CHOOSE h : h = [k \in 0 .. n |-> IF k = 0 THEN base
                            ELSE IF k > Len(h[k - 1]) \/ h[k - 1][k].depth >= d THEN h[k - 1]
                            ELSE EnqueueNew(g, h[k - 1], k)]
  OBVIOUS
<1>10. w = [k \in 0 .. n |-> IF k = 0 THEN base
                            ELSE IF k > Len(w[k - 1]) \/ w[k - 1][k].depth >= d THEN w[k - 1]
                            ELSE EnqueueNew(g, w[k - 1], k)]
  BY <1>8, <1>9
<1>11. Search(g, seeds, d) = w[n]
  BY <1>1, <1>3, <1>9 DEF Search
<1>12. PICK Q : Q = {k \in Nat : k <= n => Searched(g, seeds, d, k, w[k])}
  OBVIOUS
<1>13. 0 \in Q
  <2>1. w[0] = base
    BY <1>10
  <2> QED BY <1>4, <1>12, <2>1
<1>14. ASSUME NEW k \in Nat, k \in Q PROVE k + 1 \in Q
  <2>1. SUFFICES ASSUME k + 1 <= n PROVE Searched(g, seeds, d, k + 1, w[k + 1])
    BY <1>12
  <2>2. Searched(g, seeds, d, k, w[k])
    BY <1>12, <1>14, <2>1
  <2>3. PICK q : q = w[k]
    OBVIOUS
  <2>4. w[k + 1] = IF k + 1 > Len(q) \/ q[k + 1].depth >= d THEN q ELSE EnqueueNew(g, q, k + 1)
    <3>1. k + 1 \in 0 .. n /\ k + 1 # 0 /\ (k + 1) - 1 = k
      BY <2>1
    <3> QED BY <1>10, <2>3, <3>1
  <2>5. CASE k + 1 > Len(q) \/ q[k + 1].depth >= d
    <3>1. Searched(g, seeds, d, k + 1, q)
      BY <2>2, <2>3, <2>5, IdleRound
    <3> QED BY <2>4, <2>5, <3>1
  <2>6. CASE ~(k + 1 > Len(q) \/ q[k + 1].depth >= d)
    <3>1. k + 1 <= Len(q) /\ q[k + 1].depth < d
      <4>1. q \in Seq(Entries)
        BY <2>2, <2>3 DEF Searched
      <4>2. Len(q) \in Nat
        BY <4>1
      <4>3. k + 1 <= Len(q)
        BY <2>6, <4>2
      <4>4. q[k + 1] \in Entries
        BY <4>1, <4>2, <4>3
      <4> QED BY <2>6, <4>3, <4>4 DEF Entries
    <3>2. Searched(g, seeds, d, k + 1, EnqueueNew(g, q, k + 1))
      BY <2>2, <2>3, <3>1, BusyRound
    <3> QED BY <2>4, <2>6, <3>2
  <2> QED BY <2>5, <2>6
<1>15. n \in Q
  BY <1>13, <1>14, CountUp
<1> QED BY <1>1, <1>11, <1>12, <1>15 DEF Furthest

\* There are no more entries than nodes, so that each entry had its round.
LEMMA AllHadTheirRound ==
    ASSUME NEW q \in Seq(Entries), Distinct(q)
    PROVE  Furthest \in Nat /\ Len(q) \in Nat /\ Len(q) <= Furthest
<1>1. PICK m \in Nat : m = Len(q)
  OBVIOUS
<1>2. Furthest \in Nat
  BY SearchAssumption, FS_CardinalityType DEF Furthest
<1>3. PICK f : f = [i \in 1 .. m |-> q[i].node]
  OBVIOUS
<1>4. \A i \in 1 .. m : f[i] = q[i].node /\ f[i] \in AllNodes
  <2>1. \A i \in 1 .. m : q[i] \in Entries
    BY <1>1
  <2> QED BY <1>3, <2>1 DEF Entries
<1>5. f \in [1 .. m -> AllNodes]
  BY <1>3, <1>4
<1>6. \A i, j \in 1 .. m : f[i] = f[j] => i = j
  BY <1>1, <1>4 DEF Distinct
<1>7. f \in Injection(1 .. m, AllNodes)
  BY <1>5, <1>6 DEF Injection, IsInjective
<1>8. Cardinality(1 .. m) = m
  BY FS_Interval
<1>9. Cardinality(1 .. m) <= Cardinality(AllNodes)
  BY <1>7, SearchAssumption, FS_Injection
<1> QED BY <1>1, <1>2, <1>8, <1>9 DEF Furthest

(***************************************************************************)
(* Balls                                                                   *)
(***************************************************************************)
Neighbours(g, S) == {b \in AllNodes : \E a \in S : Joined(g, a, b)}

Balls(g, S, d, w) == w = [k \in 0 .. d |-> IF k = 0 THEN S ELSE w[k - 1] \cup Neighbours(g, w[k - 1])]

LEMMA BallsExist ==
    ASSUME NEW g, NEW S \in SUBSET AllNodes, NEW d \in Nat
    PROVE  \E w \in [0 .. d -> SUBSET AllNodes] : Balls(g, S, d, w) /\ Ball(g, S, d) = w[d]
<1>1. PICK V : V = SUBSET AllNodes
  OBVIOUS
<1>2. PICK step : step = [p \in (1 .. d) \X V |-> p[2] \cup Neighbours(g, p[2])]
  OBVIOUS
<1>3. step \in [(1 .. d) \X V -> V]
  <2>1. \A T \in V : T \cup Neighbours(g, T) \in V
    BY <1>1 DEF Neighbours
  <2> QED BY <1>2, <2>1
<1>4. PICK f \in [0 .. d -> V] : f = [i \in 0 .. d |-> IF i = 0 THEN S ELSE step[<<i, f[i - 1]>>]]
  <2>1. \E f \in [0 .. d -> V] : Loops(d, S, step, f)
    BY <1>1, <1>3, LoopsExist
  <2> QED BY <2>1 DEF Loops
<1>5. ASSUME NEW k \in 0 .. d, k # 0
      PROVE  step[<<k, f[k - 1]>>] = f[k - 1] \cup Neighbours(g, f[k - 1])
  <2>1. <<k, f[k - 1]>> \in (1 .. d) \X V
    BY <1>4, <1>5
  <2> QED BY <1>2, <2>1
<1>6. f = [k \in 0 .. d |-> IF k = 0 THEN S ELSE f[k - 1] \cup Neighbours(g, f[k - 1])]
  BY <1>4, <1>5
<1>7. PICK w : w = CHOOSE h : h = [k \in 0 .. d |-> IF k = 0 THEN S ELSE h[k - 1] \cup Neighbours(g, h[k - 1])]
  OBVIOUS
<1>8. w = [k \in 0 .. d |-> IF k = 0 THEN S ELSE w[k - 1] \cup Neighbours(g, w[k - 1])]
  BY <1>6, <1>7
<1>9. Ball(g, S, d) = w[d]
  BY <1>7 DEF Ball, Neighbours
<1>10. PICK Q : Q = {k \in Nat : k <= d => w[k] \in V}
  OBVIOUS
<1>11. 0 \in Q
  BY <1>1, <1>8, <1>10
<1>12. ASSUME NEW k \in Nat, k \in Q PROVE k + 1 \in Q
  <2>1. SUFFICES ASSUME k + 1 <= d PROVE w[k + 1] \in V
    BY <1>10
  <2>2. w[k] \in V
    BY <1>10, <1>12, <2>1
  <2>3. w[k + 1] = w[k] \cup Neighbours(g, w[k])
    <3>1. k + 1 \in 0 .. d /\ k + 1 # 0 /\ (k + 1) - 1 = k
      BY <2>1
    <3> QED BY <1>8, <3>1
  <2> QED BY <1>1, <2>2, <2>3 DEF Neighbours
<1>13. \A k \in Nat : k \in Q
  BY <1>11, <1>12, CountUp
<1>14. \A k \in 0 .. d : w[k] \in V
  BY <1>10, <1>13
<1>15. w \in [0 .. d -> SUBSET AllNodes]
  BY <1>1, <1>8, <1>14
<1> QED BY <1>8, <1>9, <1>15 DEF Balls

LEMMA BallStarts ==
    ASSUME NEW g, NEW S \in SUBSET AllNodes
    PROVE  Ball(g, S, 0) = S
<1>1. PICK w : Balls(g, S, 0, w) /\ Ball(g, S, 0) = w[0]
  BY BallsExist
<1> QED BY <1>1 DEF Balls

LEMMA BallGrows ==
    ASSUME NEW g, NEW S \in SUBSET AllNodes, NEW d \in Nat
    PROVE  Ball(g, S, d + 1) = Ball(g, S, d) \cup Neighbours(g, Ball(g, S, d))
<1>1. PICK w \in [0 .. d -> SUBSET AllNodes] : Balls(g, S, d, w) /\ Ball(g, S, d) = w[d]
  BY BallsExist
<1>2. PICK v : Balls(g, S, d + 1, v) /\ Ball(g, S, d + 1) = v[d + 1]
  <2>1. d + 1 \in Nat
    OBVIOUS
  <2> QED BY <2>1, BallsExist
<1>3. PICK Q : Q = {k \in Nat : k <= d => v[k] = w[k]}
  OBVIOUS
<1>4. 0 \in Q
  BY <1>1, <1>2, <1>3 DEF Balls
<1>5. ASSUME NEW k \in Nat, k \in Q PROVE k + 1 \in Q
  <2>1. SUFFICES ASSUME k + 1 <= d PROVE v[k + 1] = w[k + 1]
    BY <1>3
  <2>2. v[k] = w[k]
    BY <1>3, <1>5, <2>1
  <2>3. k + 1 \in 0 .. d /\ k + 1 \in 0 .. d + 1 /\ k + 1 # 0 /\ (k + 1) - 1 = k
    BY <2>1
  <2>4. v[k + 1] = v[k] \cup Neighbours(g, v[k])
    BY <1>2, <2>3 DEF Balls
  <2>5. w[k + 1] = w[k] \cup Neighbours(g, w[k])
    BY <1>1, <2>3 DEF Balls
  <2> QED BY <2>2, <2>4, <2>5
<1>6. d \in Q
  BY <1>4, <1>5, CountUp
<1>7. v[d] = w[d]
  BY <1>3, <1>6
<1>8. v[d + 1] = v[d] \cup Neighbours(g, v[d])
  <2>1. d + 1 \in 0 .. d + 1 /\ d + 1 # 0 /\ (d + 1) - 1 = d
    OBVIOUS
  <2> QED BY <1>2, <2>1 DEF Balls
<1> QED BY <1>1, <1>2, <1>7, <1>8

\* What is within j edges of the seeds is what has an entry of at most that depth.
LEMMA EntriesTellBalls ==
    ASSUME NEW g, IsGraph(g), NEW seeds, SeedList(seeds), NEW d \in Nat,
           NEW q, Searched(g, seeds, d, Furthest, q), NEW j \in 0 .. d
    PROVE  Ball(g, ToSet(seeds), j) = {x \in AllNodes : \E i \in 1 .. Len(q) : q[i].node = x /\ q[i].depth <= j}
<1>1. PICK l \in Nat, m \in Nat : l = Len(seeds) /\ m = Len(q) /\ l <= m /\ m <= Furthest /\ Furthest \in Nat /\ DOMAIN seeds = 1 .. l
  <2>1. q \in Seq(Entries) /\ Distinct(q) /\ Len(seeds) <= Len(q)
    BY DEF Searched
  <2>2. Furthest \in Nat /\ Len(q) \in Nat /\ Len(q) <= Furthest
    BY <2>1, AllHadTheirRound
  <2>3. Len(seeds) \in Nat /\ DOMAIN seeds = 1 .. Len(seeds)
    BY DEF SeedList
  <2> QED BY <2>1, <2>2, <2>3
<1>2. \A i \in 1 .. m : q[i].depth \in Nat /\ q[i].node \in AllNodes
  <2>1. \A i \in 1 .. m : q[i] \in Entries
    BY <1>1 DEF Searched
  <2> QED BY <2>1 DEF Entries
<1>3. PICK S : S = ToSet(seeds)
  OBVIOUS
<1>4. S = {seeds[i] : i \in 1 .. l} /\ S \in SUBSET AllNodes
  <2>1. \A i \in 1 .. l : seeds[i] \in AllNodes
    BY <1>1 DEF SeedList
  <2> QED BY <1>1, <1>3, <2>1 DEF ToSet
<1>5. \A i \in 1 .. l : q[i].node = seeds[i] /\ q[i].depth = 0
  <2>1. \A i \in 1 .. l : q[i] = Entry(seeds[i], 0, 0)
    BY <1>1 DEF Searched
  <2> QED BY <2>1, EntryTells
<1>6. \A i \in l + 1 .. m : \E v \in 1 .. i - 1 : q[i].depth = q[v].depth + 1 /\ Joined(g, q[v].node, q[i].node)
  BY <1>1 DEF Searched, Earlier
<1>7. \A i \in 1 .. m : i \in 1 .. l \/ i \in l + 1 .. m
  BY <1>1
<1>8. PICK Q : Q = {h \in Nat : h <= d => Ball(g, S, h) = {x \in AllNodes : \E i \in 1 .. m : q[i].node = x /\ q[i].depth <= h}}
  OBVIOUS
<1>9. 0 \in Q
  <2>1. \A x \in S : \E i \in 1 .. m : q[i].node = x /\ q[i].depth <= 0
    <3>1. \A i \in 1 .. l : i \in 1 .. m
      BY <1>1
    <3> QED BY <1>4, <1>5, <3>1
  <2>2. ASSUME NEW i \in 1 .. m, q[i].depth <= 0
        PROVE  q[i].node \in S
    <3>1. CASE i \in 1 .. l
      BY <1>4, <1>5, <3>1
    <3>2. CASE i \in l + 1 .. m
      <4>1. PICK v \in 1 .. i - 1 : q[i].depth = q[v].depth + 1
        BY <1>6, <3>2
      <4>2. v \in 1 .. m
        BY <1>1, <3>2
      <4>3. PICK y \in Nat : y = q[v].depth
        BY <1>2, <4>2
      <4>4. ~(y + 1 <= 0)
        OBVIOUS
      <4> QED BY <2>2, <4>1, <4>3, <4>4
    <3> QED BY <1>7, <3>1, <3>2
  <2>3. Ball(g, S, 0) = S
    BY <1>4, BallStarts
  <2> QED BY <1>4, <1>8, <2>1, <2>2, <2>3
<1>10. ASSUME NEW h \in Nat, h \in Q PROVE h + 1 \in Q
  <2>1. SUFFICES ASSUME h + 1 <= d
                 PROVE  Ball(g, S, h + 1) = {x \in AllNodes : \E i \in 1 .. m : q[i].node = x /\ q[i].depth <= h + 1}
    BY <1>8
  <2>2. PICK B : B = Ball(g, S, h)
    OBVIOUS
  <2>3. B = {x \in AllNodes : \E i \in 1 .. m : q[i].node = x /\ q[i].depth <= h}
    BY <1>8, <1>10, <2>1, <2>2
  <2>4. Ball(g, S, h + 1) = B \cup Neighbours(g, B)
    <3>1. S \in SUBSET AllNodes
      BY <1>4
    <3>2. Ball(g, S, h + 1) = Ball(g, S, h) \cup Neighbours(g, Ball(g, S, h))
      BY <3>1, BallGrows
    <3> QED BY <2>2, <3>2
  <2>5. ASSUME NEW x \in B PROVE \E i \in 1 .. m : q[i].node = x /\ q[i].depth <= h + 1
    <3>1. PICK i \in 1 .. m : q[i].node = x /\ q[i].depth <= h
      BY <2>3
    <3>2. q[i].depth <= h + 1
      BY <1>2, <3>1
    <3> QED BY <3>1, <3>2
  <2>6. ASSUME NEW x \in Neighbours(g, B) PROVE \E i \in 1 .. m : q[i].node = x /\ q[i].depth <= h + 1
    <3>1. PICK a \in B : Joined(g, a, x)
      BY DEF Neighbours
    <3>2. PICK v \in 1 .. m : q[v].node = a /\ q[v].depth <= h
      BY <2>3
    <3>3. PICK y \in Nat : y = q[v].depth
      BY <1>2
    <3>4. v <= Furthest /\ q[v].depth < d
      BY <1>1, <2>1, <3>2, <3>3
    <3>5. PICK i \in 1 .. m : q[i].node = x /\ q[i].depth <= q[v].depth + 1
      BY <1>1, <3>1, <3>2, <3>4 DEF Searched, Neighbours
    <3>6. q[i].depth <= h + 1
      BY <1>2, <3>2, <3>3, <3>5
    <3> QED BY <3>5, <3>6
  <2>7. ASSUME NEW i \in 1 .. m, q[i].depth <= h + 1
        PROVE  q[i].node \in B \cup Neighbours(g, B)
    <3>1. CASE q[i].depth <= h
      BY <1>2, <2>3, <3>1
    <3>2. CASE i \in 1 .. l
      <4>1. q[i].depth <= h
        BY <1>5, <3>2
      <4> QED BY <1>2, <2>3, <4>1
    <3>3. CASE i \in l + 1 .. m
      <4>1. PICK v \in 1 .. i - 1 : q[i].depth = q[v].depth + 1 /\ Joined(g, q[v].node, q[i].node)
        BY <1>6, <3>3
      <4>2. v \in 1 .. m
        BY <1>1, <3>3
      <4>3. PICK y \in Nat : y = q[v].depth
        BY <1>2, <4>2
      <4>4. y <= h
        BY <2>7, <4>1, <4>3
      <4>5. q[v].node \in B
        BY <1>2, <2>3, <4>2, <4>3, <4>4
      <4> QED BY <1>2, <4>1, <4>5 DEF Neighbours
    <3> QED BY <1>7, <3>2, <3>3
  <2>8. B \cup Neighbours(g, B) \in SUBSET AllNodes
    BY <2>3 DEF Neighbours
  <2> QED BY <2>4, <2>5, <2>6, <2>7, <2>8
<1>11. j \in Q
  BY <1>9, <1>10, CountUp
<1> QED BY <1>1, <1>3, <1>8, <1>11

\* What a search finds.
LEMMA SearchFindsBall ==
    ASSUME NEW g, IsGraph(g), NEW seeds, SeedList(seeds), NEW d \in Nat
    PROVE  {Search(g, seeds, d)[k].node : k \in DOMAIN Search(g, seeds, d)} = Ball(g, ToSet(seeds), d)
<1>1. PICK q : q = Search(g, seeds, d)
  OBVIOUS
<1>2. Searched(g, seeds, d, Furthest, q)
  BY <1>1, SearchTells
<1>3. PICK m \in Nat : m = Len(q) /\ DOMAIN q = 1 .. m
  BY <1>2 DEF Searched
<1>4. \A i \in 1 .. m : q[i].depth <= d /\ q[i].node \in AllNodes
  <2>1. \A i \in 1 .. m : q[i] \in Entries
    BY <1>2, <1>3 DEF Searched
  <2>2. \A i \in 1 .. m : q[i].depth <= d
    BY <1>2, <1>3 DEF Searched
  <2> QED BY <2>1, <2>2 DEF Entries
<1>5. d \in 0 .. d
  OBVIOUS
<1>6. Ball(g, ToSet(seeds), d) = {x \in AllNodes : \E i \in 1 .. m : q[i].node = x /\ q[i].depth <= d}
  BY <1>2, <1>3, <1>5, EntriesTellBalls
<1>7. {q[k].node : k \in 1 .. m} = {x \in AllNodes : \E i \in 1 .. m : q[i].node = x /\ q[i].depth <= d}
  BY <1>4
<1> QED BY <1>1, <1>3, <1>6, <1>7

LEMMA SeedsInOrder ==
    ASSUME NEW S \in SUBSET AllNodes
    PROVE  SeedList(InOrder(S)) /\ ToSet(InOrder(S)) = S
<1>1. Ranked(NodeRank, S) /\ IsFiniteSet(S)
  BY FS_Subset, SearchAssumption DEF Ranked
<1>2. PICK seq : seq = InOrder(S)
  OBVIOUS
<1>3. Lists(seq, S)
  BY <1>1, <1>2, InRankOrderLists DEF InOrder
<1>4. seq \in Seq(S) /\ DOMAIN seq = 1 .. Len(seq)
  BY <1>3 DEF Lists
<1>5. SeedList(seq)
  BY <1>3, <1>4 DEF SeedList, Lists
<1>6. ToSet(seq) = S
  BY <1>3, <1>4 DEF ToSet, Lists
<1> QED BY <1>2, <1>5, <1>6

LEMMA NeighborsFound ==
    ASSUME NEW g, IsGraph(g)
    PROVE  FindsNeighbors(g)
<1> SUFFICES ASSUME NEW d \in 1 .. 2, NEW seeds \in SUBSET g.nodes
             PROVE  /\ NeighborsQuery(g, InOrder(seeds), d) = (Ball(g, seeds, d) \cap g.nodes) \ seeds
                    /\ FilterQuery(g, InOrder(seeds), d) = Ball(g, seeds, d) \cap g.nodes
  BY DEF FindsNeighbors
<1>1. seeds \in SUBSET AllNodes /\ d \in Nat /\ d > 0
  BY DEF IsGraph
<1>2. PICK list : list = InOrder(seeds)
  OBVIOUS
<1>3. SeedList(list) /\ ToSet(list) = seeds
  BY <1>1, <1>2, SeedsInOrder
<1>4. {Search(g, list, d)[k].node : k \in DOMAIN Search(g, list, d)} = Ball(g, seeds, d)
  BY <1>1, <1>3, SearchFindsBall
<1>5. Expand(g, list, d, TRUE) = Ball(g, seeds, d) \ seeds /\ Expand(g, list, d, FALSE) = Ball(g, seeds, d)
  BY <1>3, <1>4 DEF Expand
<1> QED BY <1>1, <1>2, <1>5 DEF NeighborsQuery, FilterQuery

(***************************************************************************)
(* Paths                                                                   *)
(***************************************************************************)
Backs(q, m, f) ==
    f = [k \in 1 .. m |-> IF q[k].via = 0 THEN <<q[k].node>> ELSE Append(f[q[k].via], q[k].node)]

LEMMA BacksExist ==
    ASSUME NEW m \in Nat, NEW q, \A k \in 1 .. m : q[k].node \in AllNodes /\ q[k].via \in 0 .. k - 1
    PROVE  \E f : Backs(q, m, f)
<1>1. PICK Q : Q = {n \in Nat : n <= m => \E f : Backs(q, n, f)}
  OBVIOUS
<1>2. 0 \in Q
  <2>1. PICK f : f = [k \in 1 .. 0 |-> <<>>]
    OBVIOUS
  <2>2. f = [k \in 1 .. 0 |-> IF q[k].via = 0 THEN <<q[k].node>> ELSE Append(f[q[k].via], q[k].node)]
    BY <2>1
  <2> QED BY <1>1, <2>2 DEF Backs
<1>3. ASSUME NEW n \in Nat, n \in Q PROVE n + 1 \in Q
  <2>1. SUFFICES ASSUME n + 1 <= m PROVE \E f : Backs(q, n + 1, f)
    BY <1>1
  <2>2. PICK f : f = [k \in 1 .. n |-> IF q[k].via = 0 THEN <<q[k].node>> ELSE Append(f[q[k].via], q[k].node)]
    <3>1. n <= m
      BY <2>1
    <3>2. \E f : Backs(q, n, f)
      BY <1>1, <1>3, <3>1
    <3> QED BY <3>2 DEF Backs
  <2>3. PICK last : last = IF q[n + 1].via = 0 THEN <<q[n + 1].node>> ELSE Append(f[q[n + 1].via], q[n + 1].node)
    OBVIOUS
  <2>4. PICK h : h = [k \in 1 .. n + 1 |-> IF k = n + 1 THEN last ELSE f[k]]
    OBVIOUS
  <2>5. \A k \in 1 .. n : h[k] = f[k]
    BY <2>4
  <2>6. ASSUME NEW k \in 1 .. n + 1, q[k].via # 0
        PROVE  h[q[k].via] = f[q[k].via]
    <3>1. k \in 1 .. m
      BY <2>1
    <3>2. q[k].via \in 1 .. n
      BY <2>6, <3>1
    <3> QED BY <2>5, <3>2
  <2>7. ASSUME NEW k \in 1 .. n + 1
        PROVE  h[k] = IF q[k].via = 0 THEN <<q[k].node>> ELSE Append(h[q[k].via], q[k].node)
    <3>1. CASE k = n + 1
      <4>1. h[k] = last
        BY <2>4, <3>1
      <4> QED BY <2>3, <2>6, <3>1, <4>1
    <3>2. CASE k # n + 1
      <4>1. k \in 1 .. n
        BY <3>2
      <4> QED BY <2>2, <2>5, <2>6, <4>1
    <3> QED BY <3>1, <3>2
  <2>8. h = [k \in 1 .. n + 1 |-> IF q[k].via = 0 THEN <<q[k].node>> ELSE Append(h[q[k].via], q[k].node)]
    BY <2>4, <2>7
  <2> QED BY <2>8 DEF Backs
<1>4. m \in Q
  BY <1>2, <1>3, CountUp
<1> QED BY <1>1, <1>4

\* A path of n edges.
PathOf(g, from, to, n, p) ==
    /\ p \in Seq(AllNodes) /\ Len(p) = n + 1
    /\ p[1] = from /\ p[n + 1] = to
    /\ \A i \in 1 .. n : Joined(g, p[i], p[i + 1])

LEMMA PathAppended ==
    ASSUME NEW g, NEW from, NEW to, NEW n \in Nat, NEW p, PathOf(g, from, to, n, p),
           NEW x \in AllNodes, Joined(g, to, x)
    PROVE  PathOf(g, from, x, n + 1, Append(p, x))
<1>1. PICK r : r = Append(p, x)
  OBVIOUS
<1>2. r \in Seq(AllNodes) /\ Len(r) = n + 2 /\ \A i \in 1 .. n + 1 : r[i] = p[i]
  BY <1>1 DEF PathOf
<1>3. r[n + 2] = x
  BY <1>1 DEF PathOf
<1>4. r[1] = from /\ r[n + 1] = to
  <2>1. 1 \in 1 .. n + 1 /\ n + 1 \in 1 .. n + 1
    OBVIOUS
  <2> QED BY <1>2, <2>1 DEF PathOf
<1>5. ASSUME NEW i \in 1 .. n + 1 PROVE Joined(g, r[i], r[i + 1])
  <2>1. CASE i = n + 1
    BY <1>3, <1>4, <2>1
  <2>2. CASE i # n + 1
    <3>1. i \in 1 .. n /\ i \in 1 .. n + 1 /\ i + 1 \in 1 .. n + 1
      BY <2>2
    <3>2. Joined(g, p[i], p[i + 1])
      BY <3>1 DEF PathOf
    <3> QED BY <1>2, <3>1, <3>2
  <2> QED BY <2>1, <2>2
<1>6. (n + 1) + 1 = n + 2
  OBVIOUS
<1> QED BY <1>1, <1>2, <1>3, <1>4, <1>5, <1>6 DEF PathOf

LEMMA BacksArePaths ==
    ASSUME NEW g, NEW from \in AllNodes, NEW d \in Nat, NEW q, Searched(g, <<from>>, d, Furthest, q),
           NEW w, Backs(q, Len(q), w), NEW k \in 1 .. Len(q)
    PROVE  PathOf(g, from, q[k].node, q[k].depth, w[k])
<1>1. PICK m \in Nat : m = Len(q)
  BY DEF Searched
<1>2. \A i \in 1 .. m : q[i].depth \in Nat /\ q[i].node \in AllNodes
  <2>1. \A i \in 1 .. m : q[i] \in Entries
    BY <1>1 DEF Searched
  <2> QED BY <2>1 DEF Entries
<1>3. q[1] = Entry(from, 0, 0)
  <2>1. Len(<<from>>) = 1 /\ <<from>>[1] = from /\ 1 \in 1 .. 1
    OBVIOUS
  <2> QED BY <2>1 DEF Searched
<1>4. \A i \in 1 .. m : i # 1 => Earlier(g, Furthest, q, i)
  <2>1. Len(<<from>>) = 1 /\ \A i \in 1 .. m : i # 1 => i \in 2 .. m
    OBVIOUS
  <2> QED BY <1>1, <2>1 DEF Searched
<1>5. w = [i \in 1 .. m |-> IF q[i].via = 0 THEN <<q[i].node>> ELSE Append(w[q[i].via], q[i].node)]
  BY <1>1 DEF Backs
<1>6. PICK Q : Q = {n \in Nat : \A i \in 1 .. m : i <= n => PathOf(g, from, q[i].node, q[i].depth, w[i])}
  OBVIOUS
<1>7. 0 \in Q
  BY <1>6
<1>8. ASSUME NEW n \in Nat, n \in Q PROVE n + 1 \in Q
  <2>1. SUFFICES ASSUME NEW i \in 1 .. m, i = n + 1
                 PROVE  PathOf(g, from, q[i].node, q[i].depth, w[i])
    <3>1. \A i \in 1 .. m : i <= n + 1 => i <= n \/ i = n + 1
      OBVIOUS
    <3> QED BY <1>6, <1>8, <3>1
  <2>2. w[i] = IF q[i].via = 0 THEN <<q[i].node>> ELSE Append(w[q[i].via], q[i].node)
    BY <1>5
  <2>3. CASE i = 1
    <3>1. q[i].node = from /\ q[i].via = 0 /\ q[i].depth = 0
      BY <1>3, <2>3, EntryTells
    <3>2. w[i] = <<from>>
      BY <2>2, <3>1
    <3>3. PathOf(g, from, from, 0, <<from>>)
      BY DEF PathOf
    <3> QED BY <3>1, <3>2, <3>3
  <2>4. CASE i # 1
    <3>1. PICK v \in 1 .. i - 1 : v = q[i].via /\ q[i].depth = q[v].depth + 1 /\ Joined(g, q[v].node, q[i].node)
      BY <1>4, <2>4 DEF Earlier
    <3>2. v \in 1 .. m /\ v <= n /\ v # 0
      BY <2>1
    <3>3. PathOf(g, from, q[v].node, q[v].depth, w[v])
      BY <1>6, <1>8, <3>2
    <3>4. PathOf(g, from, q[i].node, q[v].depth + 1, Append(w[v], q[i].node))
      BY <1>2, <3>1, <3>2, <3>3, PathAppended
    <3>5. w[i] = Append(w[v], q[i].node)
      BY <2>2, <3>1, <3>2
    <3> QED BY <3>1, <3>4, <3>5
  <2> QED BY <2>3, <2>4
<1>9. k \in Q
  BY <1>7, <1>8, CountUp
<1> QED BY <1>1, <1>6, <1>9

\* A path goes to what was visited, as deep as its entry.
LEMMA PathFollowsEntries ==
    ASSUME NEW g, IsGraph(g), NEW from \in AllNodes, NEW to \in AllNodes
    PROVE  LET q == Search(g, <<from>>, Furthest)
           IN  /\ Searched(g, <<from>>, Furthest, Furthest, q)
               /\ ~Visited(q, to) => ShortestPath(g, from, to) = NoPath
               /\ Visited(q, to) => \E k \in 1 .. Len(q) :
                      q[k].node = to /\ PathOf(g, from, to, q[k].depth, ShortestPath(g, from, to))
<1>1. PICK q : q = Search(g, <<from>>, Furthest)
  OBVIOUS
<1>2. Furthest \in Nat
  BY SearchAssumption, FS_CardinalityType DEF Furthest
<1>3. SeedList(<<from>>)
  BY DEF SeedList
<1>4. Searched(g, <<from>>, Furthest, Furthest, q)
  BY <1>1, <1>2, <1>3, SearchTells
<1>5. PICK m \in Nat : m = Len(q) /\ DOMAIN q = 1 .. m
  BY <1>4 DEF Searched
<1>6. ASSUME NEW i \in 1 .. m PROVE q[i].node \in AllNodes /\ q[i].via \in 0 .. i - 1
  <2>1. q[i] \in Entries
    BY <1>4, <1>5 DEF Searched
  <2>2. CASE i = 1
    <3>1. Len(<<from>>) = 1 /\ <<from>>[1] = from /\ 1 \in 1 .. 1
      OBVIOUS
    <3>2. q[1] = Entry(from, 0, 0)
      BY <1>4, <3>1 DEF Searched
    <3>3. q[i].via = 0
      BY <2>2, <3>2, EntryTells
    <3> QED BY <2>1, <2>2, <3>3 DEF Entries
  <2>3. CASE i # 1
    <3>1. Len(<<from>>) = 1 /\ i \in 2 .. m
      BY <2>3
    <3>2. q[i].via \in 1 .. i - 1
      BY <1>4, <1>5, <3>1 DEF Searched, Earlier
    <3> QED BY <2>1, <3>2 DEF Entries
  <2> QED BY <2>2, <2>3
<1>7. PICK w : w = CHOOSE h : h = [k \in DOMAIN q |-> IF q[k].via = 0 THEN <<q[k].node>>
                                                      ELSE Append(h[q[k].via], q[k].node)]
  OBVIOUS
<1>8. Backs(q, m, w)
  <2>1. \E f : f = [k \in 1 .. m |-> IF q[k].via = 0 THEN <<q[k].node>> ELSE Append(f[q[k].via], q[k].node)]
    BY <1>6, BacksExist DEF Backs
  <2> QED BY <1>5, <1>7, <2>1 DEF Backs
<1>9. ShortestPath(g, from, to) = IF Visited(q, to) THEN w[CHOOSE k \in DOMAIN q : q[k].node = to] ELSE NoPath
  BY <1>1, <1>7 DEF ShortestPath, Furthest
<1>10. ASSUME Visited(q, to)
       PROVE  \E k \in 1 .. m : q[k].node = to /\ PathOf(g, from, to, q[k].depth, ShortestPath(g, from, to))
  <2>1. PICK k : k = CHOOSE i \in DOMAIN q : q[i].node = to
    OBVIOUS
  <2>2. k \in 1 .. m /\ q[k].node = to
    BY <1>5, <1>10, <2>1 DEF Visited
  <2>3. PathOf(g, from, q[k].node, q[k].depth, w[k])
    BY <1>2, <1>4, <1>5, <1>8, <2>2, BacksArePaths
  <2> QED BY <1>9, <1>10, <2>1, <2>2, <2>3
<1> QED BY <1>1, <1>4, <1>5, <1>9, <1>10

LEMMA ShortestPathsFound ==
    ASSUME NEW g, IsGraph(g)
    PROVE  FindsShortestPaths(g)
<1> SUFFICES ASSUME NEW from \in g.nodes, NEW to \in g.nodes,
                    NEW path, path = ShortestPath(g, from, to)
             PROVE  IF path = NoPath THEN to \notin Ball(g, {from}, Furthest)
                    ELSE /\ path[1] = from
                         /\ path[Len(path)] = to
                         /\ \A k \in 1 .. Len(path) - 1 : Joined(g, path[k], path[k + 1])
                         /\ (Len(path) > 1 => to \notin Ball(g, {from}, Len(path) - 2))
  BY DEF FindsShortestPaths
<1>1. from \in AllNodes /\ to \in AllNodes
  BY DEF IsGraph
<1>2. PICK q : q = Search(g, <<from>>, Furthest)
  OBVIOUS
<1>3. /\ Searched(g, <<from>>, Furthest, Furthest, q)
      /\ ~Visited(q, to) => path = NoPath
      /\ Visited(q, to) => \E k \in 1 .. Len(q) : q[k].node = to /\ PathOf(g, from, to, q[k].depth, path)
  BY <1>1, <1>2, PathFollowsEntries
<1>4. PICK m \in Nat : m = Len(q) /\ DOMAIN q = 1 .. m
  BY <1>3 DEF Searched
<1>5. \A i \in 1 .. m : q[i].depth \in Nat /\ q[i].depth <= Furthest
  <2>1. \A i \in 1 .. m : q[i] \in Entries /\ q[i].depth <= Furthest
    BY <1>3, <1>4 DEF Searched
  <2> QED BY <2>1 DEF Entries
<1>6. Furthest \in Nat
  BY SearchAssumption, FS_CardinalityType DEF Furthest
<1>7. SeedList(<<from>>) /\ ToSet(<<from>>) = {from}
  BY <1>1 DEF SeedList, ToSet
<1>8. ASSUME NEW j \in 0 .. Furthest, to \in Ball(g, {from}, j)
      PROVE  \E i \in 1 .. m : q[i].node = to /\ q[i].depth <= j
  <2>1. Ball(g, {from}, j) = {x \in AllNodes : \E i \in 1 .. Len(q) : q[i].node = x /\ q[i].depth <= j}
    <3>1. SeedList(<<from>>)
      BY <1>7
    <3>2. Ball(g, ToSet(<<from>>), j) = {x \in AllNodes : \E i \in 1 .. Len(q) : q[i].node = x /\ q[i].depth <= j}
      BY <1>3, <1>6, <3>1, EntriesTellBalls
    <3> QED BY <1>7, <3>2
  <2> QED BY <1>4, <1>8, <2>1
<1>9. CASE ~Visited(q, to)
  <2>1. Furthest \in 0 .. Furthest
    BY <1>6
  <2>2. to \notin Ball(g, {from}, Furthest)
    BY <1>4, <1>8, <1>9, <2>1 DEF Visited
  <2> QED BY <1>3, <1>9, <2>2
<1>10. CASE Visited(q, to)
  <2>1. PICK k \in 1 .. m : q[k].node = to /\ PathOf(g, from, to, q[k].depth, path)
    BY <1>3, <1>4, <1>10
  <2>2. PICK n \in Nat : n = q[k].depth /\ n <= Furthest
    BY <1>5
  <2>3. Len(path) = n + 1 /\ path[1] = from /\ path[n + 1] = to /\ \A i \in 1 .. n : Joined(g, path[i], path[i + 1])
    BY <2>1, <2>2 DEF PathOf
  <2>4. path # NoPath
    BY <2>3 DEF NoPath
  <2>5. ASSUME n > 0 PROVE to \notin Ball(g, {from}, n - 1)
    <3>1. SUFFICES ASSUME to \in Ball(g, {from}, n - 1) PROVE FALSE
      OBVIOUS
    <3>2. n - 1 \in 0 .. Furthest
      BY <1>6, <2>2, <2>5
    <3>3. PICK i \in 1 .. m : q[i].node = to /\ q[i].depth <= n - 1
      BY <1>8, <3>1, <3>2
    <3>4. i = k
      BY <1>3, <1>4, <2>1, <3>3 DEF Searched, Distinct
    <3> QED BY <2>2, <3>3, <3>4
  <2>6. Len(path) - 1 = n /\ Len(path) - 2 = n - 1 /\ (Len(path) > 1 => n > 0)
    BY <2>3
  <2> QED BY <2>3, <2>4, <2>5, <2>6
<1> QED BY <1>9, <1>10

\* Nodes that are there are all matches, in their order.
LEMMA MatchesAll ==
    ASSUME NEW g, NEW n \in Nat, NEW ids, ids \in Seq(g.nodes), Len(ids) = n
    PROVE  Matches(g, ids) = ids
<1>1. PICK f : f = [k \in 0 .. n |-> [i \in 1 .. k |-> ids[i]]]
  OBVIOUS
<1>2. \A i \in 1 .. n : ids[i] \in g.nodes
  OBVIOUS
<1>3. ASSUME NEW k \in 0 .. n, k # 0
      PROVE  k \in 1 .. n /\ f[k] = Append(f[k - 1], ids[k])
  <2>1. PICK j \in Nat : j = k - 1 /\ k = j + 1 /\ j \in 0 .. n
    BY <1>3
  <2>2. PICK s : s = [i \in 1 .. j |-> ids[i]]
    OBVIOUS
  <2>3. s \in [1 .. j -> g.nodes]
    BY <1>2, <2>1, <2>2
  <2>4. s \in Seq(g.nodes) /\ Len(s) = j
    BY <2>1, <2>3
  <2>5. Append(s, ids[k]) = [i \in 1 .. j + 1 |-> IF i = j + 1 THEN ids[k] ELSE s[i]]
    BY <2>4 DEF Append
  <2>6. \A i \in 1 .. j + 1 : (IF i = j + 1 THEN ids[k] ELSE s[i]) = ids[i]
    BY <2>1, <2>2
  <2>7. f[k] = [i \in 1 .. j + 1 |-> ids[i]] /\ f[k - 1] = s
    BY <1>1, <2>1, <2>2
  <2> QED BY <1>3, <2>5, <2>6, <2>7
<1>4. f = [k \in 0 .. n |-> IF k = 0 THEN <<>>
                            ELSE IF ids[k] \in g.nodes THEN Append(f[k - 1], ids[k]) ELSE f[k - 1]]
  <2>1. f[0] = <<>>
    BY <1>1
  <2> QED BY <1>1, <1>2, <1>3, <2>1
<1>5. PICK w : w = CHOOSE h : h = [k \in 0 .. n |-> IF k = 0 THEN <<>>
                            ELSE IF ids[k] \in g.nodes THEN Append(h[k - 1], ids[k]) ELSE h[k - 1]]
  OBVIOUS
<1>6. w = [k \in 0 .. n |-> IF k = 0 THEN <<>>
                            ELSE IF ids[k] \in g.nodes THEN Append(w[k - 1], ids[k]) ELSE w[k - 1]]
  BY <1>4, <1>5
<1>7. Matches(g, ids) = w[n]
  BY <1>5 DEF Matches
<1>8. PICK Q : Q = {k \in Nat : k <= n => w[k] = f[k]}
  OBVIOUS
<1>9. 0 \in Q
  <2>1. w[0] = <<>> /\ f[0] = <<>>
    BY <1>4, <1>6
  <2> QED BY <1>8, <2>1
<1>10. ASSUME NEW k \in Nat, k \in Q PROVE k + 1 \in Q
  <2>1. SUFFICES ASSUME k + 1 <= n PROVE w[k + 1] = f[k + 1]
    BY <1>8
  <2>2. w[k] = f[k]
    BY <1>8, <1>10, <2>1
  <2>3. k + 1 \in 0 .. n /\ k + 1 # 0 /\ (k + 1) - 1 = k
    BY <2>1
  <2>4. f[k + 1] = IF ids[k + 1] \in g.nodes THEN Append(f[k], ids[k + 1]) ELSE f[k]
    BY <1>4, <2>3
  <2>5. w[k + 1] = IF ids[k + 1] \in g.nodes THEN Append(w[k], ids[k + 1]) ELSE w[k]
    BY <1>6, <2>3
  <2> QED BY <2>2, <2>4, <2>5
<1>11. n \in Q
  BY <1>9, <1>10, CountUp
<1>12. f[n] = ids
  <2>1. f[n] = [i \in 1 .. n |-> ids[i]]
    BY <1>1
  <2> QED BY <2>1
<1> QED BY <1>7, <1>8, <1>11, <1>12

HasEnds(g) == \A e \in g.edges : {e.from, e.to} \subseteq g.nodes
Connected(g) ==
    \A part \in SUBSET g.nodes :
       (part # {} /\ \A a \in part, b \in g.nodes : Joined(g, a, b) => b \in part) => part = g.nodes

\* A search of a connected graph gets everywhere.
LEMMA EverythingVisited ==
    ASSUME NEW g, IsGraph(g), Connected(g), NEW from \in g.nodes, NEW to \in g.nodes
    PROVE  Visited(Search(g, <<from>>, Furthest), to)
<1>1. from \in AllNodes /\ to \in AllNodes
  BY DEF IsGraph
<1>2. PICK q : q = Search(g, <<from>>, Furthest)
  OBVIOUS
<1>3. Searched(g, <<from>>, Furthest, Furthest, q)
  BY <1>1, <1>2, PathFollowsEntries
<1>4. PICK m \in Nat : m = Len(q) /\ DOMAIN q = 1 .. m /\ m <= Furthest /\ Furthest \in Nat
  <2>1. q \in Seq(Entries) /\ Distinct(q)
    BY <1>3 DEF Searched
  <2> QED BY <2>1, AllHadTheirRound
<1>5. PICK part : part = {x \in g.nodes : \E i \in 1 .. m : q[i].node = x}
  OBVIOUS
<1>6. from \in part
  <2>1. Len(<<from>>) = 1 /\ <<from>>[1] = from /\ 1 \in 1 .. 1
    OBVIOUS
  <2>2. q[1] = Entry(from, 0, 0) /\ 1 <= m
    BY <1>3, <1>4, <2>1 DEF Searched
  <2>3. q[1].node = from /\ 1 \in 1 .. m
    BY <1>4, <2>2, EntryTells
  <2> QED BY <1>5, <2>3
<1>7. ASSUME NEW a \in part, NEW b \in g.nodes, Joined(g, a, b)
      PROVE  b \in part
  <2>1. PICK i \in 1 .. m : q[i].node = a
    BY <1>5
  <2>2. q[i].depth < i
    BY <1>3, <1>4 DEF Searched
  <2>3. q[i].depth \in Nat
    <3>1. q[i] \in Entries
      BY <1>3, <1>4 DEF Searched
    <3> QED BY <3>1 DEF Entries
  <2>4. q[i].depth < Furthest /\ i <= Furthest
    BY <1>4, <2>2, <2>3
  <2>5. b \in AllNodes
    BY DEF IsGraph
  <2>6. PICK j \in 1 .. m : q[j].node = b
    BY <1>3, <1>4, <1>7, <2>1, <2>4, <2>5 DEF Searched
  <2> QED BY <1>5, <2>6
<1>8. part = g.nodes
  <2>1. part \in SUBSET g.nodes
    BY <1>5
  <2> QED BY <1>6, <1>7, <2>1 DEF Connected
<1>9. to \in part
  BY <1>8
<1> QED BY <1>2, <1>4, <1>5, <1>9 DEF Visited

LEMMA NoGaps ==
    ASSUME NEW g, IsGraph(g), HasEnds(g), Connected(g)
    PROVE  AnswersWithoutGaps(g)
<1> SUFFICES ASSUME NEW a, NEW b, NEW from \in Resolve(g, a), NEW to \in Resolve(g, b),
                    NEW answer, answer = PathQuery(g, from, to)
             PROVE  /\ answer # NoPath
                    /\ Label[answer[1]] = a
                    /\ Label[answer[Len(answer)]] = b
                    /\ \A k \in 1 .. Len(answer) - 1 : Joined(g, answer[k], answer[k + 1])
  BY DEF AnswersWithoutGaps
<1>1. from \in g.nodes /\ to \in g.nodes /\ Label[from] = a /\ Label[to] = b
  BY DEF Resolve
<1>2. from \in AllNodes /\ to \in AllNodes
  BY <1>1 DEF IsGraph
<1>3. PICK path : path = ShortestPath(g, from, to)
  OBVIOUS
<1>4. PICK q : q = Search(g, <<from>>, Furthest)
  OBVIOUS
<1>5. Visited(q, to)
  BY <1>1, <1>4, EverythingVisited
<1>6. /\ Searched(g, <<from>>, Furthest, Furthest, q)
      /\ \E k \in 1 .. Len(q) : q[k].node = to /\ PathOf(g, from, to, q[k].depth, path)
  BY <1>2, <1>3, <1>4, <1>5, PathFollowsEntries
<1>7. PICK n \in Nat : PathOf(g, from, to, n, path)
  <2>1. PICK k \in 1 .. Len(q) : PathOf(g, from, to, q[k].depth, path)
    BY <1>6
  <2>2. q[k] \in Entries
    BY <1>6 DEF Searched
  <2> QED BY <2>1, <2>2 DEF Entries
<1>8. path \in Seq(AllNodes) /\ Len(path) = n + 1 /\ path[1] = from /\ path[n + 1] = to
      /\ \A i \in 1 .. n : Joined(g, path[i], path[i + 1])
  BY <1>7 DEF PathOf
<1>9. ASSUME NEW i \in 1 .. n PROVE path[i] \in g.nodes /\ path[i + 1] \in g.nodes
  <2>1. PICK e \in g.edges : {e.from, e.to} = {path[i], path[i + 1]}
    BY <1>8 DEF Joined
  <2>2. {e.from, e.to} \subseteq g.nodes
    BY DEF HasEnds
  <2> QED BY <2>1, <2>2
<1>10. \A i \in 1 .. n + 1 : path[i] \in g.nodes
  <2>1. \A i \in 1 .. n + 1 : i = n + 1 \/ i \in 1 .. n
    OBVIOUS
  <2> QED BY <1>1, <1>8, <1>9, <2>1
<1>11. path \in Seq(g.nodes)
  <2>1. path = [i \in 1 .. n + 1 |-> path[i]]
    BY <1>8
  <2>2. path \in [1 .. n + 1 -> g.nodes]
    BY <1>10, <2>1
  <2>3. n + 1 \in Nat
    OBVIOUS
  <2> QED BY <2>2, <2>3
<1>12. answer = path
  <2>1. n + 1 \in Nat
    OBVIOUS
  <2>2. Matches(g, path) = path
    BY <1>8, <1>11, <2>1, MatchesAll
  <2> QED BY <1>3, <2>2 DEF PathQuery
<1>13. answer # NoPath
  BY <1>8, <1>12 DEF NoPath
<1>14. Len(answer) = n + 1 /\ Len(answer) - 1 = n
  BY <1>8, <1>12
<1> QED BY <1>1, <1>8, <1>12, <1>13, <1>14

(***************************************************************************)
(* Expressions of queries                                                  *)
(***************************************************************************)
\* The items of a node, of which there are some, end among the m nodes before it.
Reaches(back, m) == back \in Seq(1 .. m) /\ Len(back) >= 1

\* An expression has its clauses and connectives each behind its items; a list of
\* items to be joined knows where each of them ends.
Connectives == {"not", "and", "or"}
IsNode(node, m) == IF node.op = "clause" THEN node.back = <<>> ELSE node.op \in Connectives /\ Reaches(node.back, m)
IsExpr(e) ==
    /\ \E S : e \in Seq(S)
    /\ Len(e) >= 1
    /\ \A k \in 1 .. Len(e) : IsNode(e[k], k - 1)
IsList(l) == IsExpr(l.nodes) /\ Reaches(l.back, Len(l.nodes))

LEMMA ExprDomain ==
    ASSUME NEW e, IsExpr(e)
    PROVE  e # NoExpr /\ Len(e) \in Nat /\ DOMAIN e = 1 .. Len(e) /\ Len(e) \in DOMAIN e
<1>1. PICK S : e \in Seq(S)
  BY DEF IsExpr
<1>2. Len(e) \in Nat /\ Len(e) >= 1 /\ DOMAIN e = 1 .. Len(e)
  BY <1>1 DEF IsExpr
<1> QED BY <1>2 DEF NoExpr

\* What holds of a place whenever it holds of all before it holds of every place.
LEMMA OneAfterTheOther ==
    ASSUME NEW m \in Nat, NEW Q, \A k \in 1 .. m : (\A j \in 1 .. k - 1 : j \in Q) => k \in Q
    PROVE  \A k \in 1 .. m : k \in Q
<1>1. PICK Below : Below = {n \in Nat : \A k \in 1 .. m : k <= n => k \in Q}
  OBVIOUS
<1>2. 0 \in Below
  BY <1>1
<1>3. ASSUME NEW n \in Nat, n \in Below PROVE n + 1 \in Below
  <2>1. SUFFICES ASSUME NEW k \in 1 .. m, k = n + 1 PROVE k \in Q
    BY <1>1, <1>3
  <2>2. \A j \in 1 .. k - 1 : j \in Q
    BY <1>1, <1>3, <2>1
  <2> QED BY <2>2
<1>4. m \in Below
  BY <1>2, <1>3, CountUp
<1> QED BY <1>1, <1>4

LEMMA ItemsBefore ==
    ASSUME NEW e, IsExpr(e), NEW k \in 1 .. Len(e), NEW i \in DOMAIN e[k].back
    PROVE  k - e[k].back[i] \in 1 .. k - 1
<1>1. Len(e) \in Nat
  BY ExprDomain
<1>2. e[k].back # <<>>
  OBVIOUS
<1>3. e[k].back \in Seq(1 .. k - 1)
  BY <1>2 DEF IsExpr, IsNode, Reaches
<1>4. PICK b : b = e[k].back[i]
  OBVIOUS
<1>5. b \in 1 .. k - 1
  BY <1>3, <1>4
<1> QED BY <1>1, <1>4, <1>5

\* A value for each node, made of those of its items.
Folds(e, m, step, f) == f = [k \in 1 .. m |-> step[<<k, Items(f, e, k)>>]]

LEMMA FoldsExist ==
    ASSUME NEW e, IsExpr(e), NEW V, NEW step \in [(1 .. Len(e)) \X Seq(V) -> V]
    PROVE  \E f \in [1 .. Len(e) -> V] : Folds(e, Len(e), step, f)
<1>1. PICK m \in Nat : m = Len(e)
  BY ExprDomain
<1>2. PICK Q : Q = {n \in Nat : n <= m => \E f \in [1 .. n -> V] : Folds(e, n, step, f)}
  OBVIOUS
<1>3. 0 \in Q
  <2>1. PICK f : f = [k \in 1 .. 0 |-> step[<<k, <<>>>>]]
    OBVIOUS
  <2>2. f \in [1 .. 0 -> V] /\ f = [k \in 1 .. 0 |-> step[<<k, Items(f, e, k)>>]]
    BY <2>1
  <2> QED BY <1>2, <2>2 DEF Folds
<1>4. ASSUME NEW n \in Nat, n \in Q PROVE n + 1 \in Q
  <2>1. SUFFICES ASSUME n + 1 <= m PROVE \E f \in [1 .. n + 1 -> V] : Folds(e, n + 1, step, f)
    BY <1>2
  <2>2. PICK f \in [1 .. n -> V] : f = [k \in 1 .. n |-> step[<<k, Items(f, e, k)>>]]
    <3>1. \E f \in [1 .. n -> V] : Folds(e, n, step, f)
      BY <1>2, <1>4, <2>1
    <3> QED BY <3>1 DEF Folds
  <2>3. PICK last : last = step[<<n + 1, Items(f, e, n + 1)>>]
    OBVIOUS
  <2>4. PICK h : h = [k \in 1 .. n + 1 |-> IF k = n + 1 THEN last ELSE f[k]]
    OBVIOUS
  <2>5. \A k \in 1 .. n : h[k] = f[k] /\ h[k] \in V
    BY <2>2, <2>4
  <2>6. ASSUME NEW k \in 1 .. n + 1
        PROVE  Items(h, e, k) = Items(f, e, k) /\ Items(f, e, k) \in Seq(V)
    <3>1. k \in 1 .. Len(e)
      BY <1>1, <2>1
    <3>2. \A i \in DOMAIN e[k].back : h[k - e[k].back[i]] = f[k - e[k].back[i]] /\ f[k - e[k].back[i]] \in V
      <4> SUFFICES ASSUME NEW i \in DOMAIN e[k].back
                   PROVE  h[k - e[k].back[i]] = f[k - e[k].back[i]] /\ f[k - e[k].back[i]] \in V
        OBVIOUS
      <4>1. PICK j : j = k - e[k].back[i]
        OBVIOUS
      <4>2. j \in 1 .. k - 1
        BY <3>1, <4>1, ItemsBefore
      <4>3. j \in 1 .. n
        BY <4>2
      <4> QED BY <2>5, <4>1, <4>3
    <3>3. PICK size \in Nat : DOMAIN e[k].back = 1 .. size
      BY <3>1 DEF IsExpr, IsNode, Reaches
    <3>4. Items(f, e, k) \in Seq(V)
      BY <3>2, <3>3 DEF Items
    <3>5. Items(h, e, k) = Items(f, e, k)
      BY <3>2 DEF Items
    <3> QED BY <3>4, <3>5
  <2>7. last \in V
    <3>1. Items(f, e, n + 1) \in Seq(V)
      BY <2>6
    <3>2. <<n + 1, Items(f, e, n + 1)>> \in (1 .. Len(e)) \X Seq(V)
      BY <1>1, <2>1, <3>1
    <3> QED BY <2>3, <3>2
  <2>8. h \in [1 .. n + 1 -> V]
    BY <2>4, <2>5, <2>7
  <2>9. ASSUME NEW k \in 1 .. n + 1
        PROVE  h[k] = step[<<k, Items(h, e, k)>>]
    <3>1. CASE k = n + 1
      BY <2>3, <2>4, <2>6, <3>1
    <3>2. CASE k # n + 1
      <4>1. k \in 1 .. n
        BY <3>2
      <4>2. h[k] = f[k] /\ f[k] = step[<<k, Items(f, e, k)>>]
        BY <2>2, <2>5, <4>1
      <4> QED BY <2>6, <4>2
    <3> QED BY <3>1, <3>2
  <2>10. h = [k \in 1 .. n + 1 |-> step[<<k, Items(h, e, k)>>]]
    BY <2>4, <2>9
  <2> QED BY <2>8, <2>10 DEF Folds
<1>5. m \in Q
  BY <1>3, <1>4, CountUp
<1> QED BY <1>1, <1>2, <1>5

LEMMA SeqOfMore ==
    ASSUME NEW S, NEW T, S \subseteq T, NEW seq \in Seq(S)
    PROVE  seq \in Seq(T)
  OBVIOUS

LEMMA ClauseIsExpr ==
    ASSUME NEW field, NEW cmp, NEW value
    PROVE  IsExpr(ClauseOf(field, cmp, value))
<1>1. PICK c : c = [op |-> "clause", back |-> <<>>, field |-> Head(field), cmp |-> cmp, value |-> Literal(value)]
  OBVIOUS
<1>2. c.op = "clause" /\ c.back = <<>>
  BY <1>1
<1>3. PICK e : e = <<c>>
  OBVIOUS
<1>4. IsExpr(e)
  <2>1. e \in Seq({c}) /\ Len(e) = 1 /\ \A k \in 1 .. 1 : e[k] = c
    BY <1>3
  <2>2. \A k \in 1 .. 1 : IsNode(e[k], k - 1)
    BY <1>2, <2>1 DEF IsNode
  <2> QED BY <2>1, <2>2 DEF IsExpr
<1> QED BY <1>1, <1>3, <1>4 DEF ClauseOf

\* An expression with an operator behind it is one.
LEMMA OperatorBehind ==
    ASSUME NEW e, IsExpr(e), NEW op \in Connectives, NEW back, Reaches(back, Len(e))
    PROVE  IsExpr(Append(e, [op |-> op, back |-> back]))
<1>1. PICK S : e \in Seq(S)
  BY DEF IsExpr
<1>2. PICK m \in Nat : m = Len(e) /\ m >= 1
  BY ExprDomain DEF IsExpr
<1>3. PICK node : node = [op |-> op, back |-> back]
  OBVIOUS
<1>4. PICK f : f = Append(e, node)
  OBVIOUS
<1>5. f \in Seq(S \cup {node}) /\ Len(f) = m + 1 /\ f[m + 1] = node /\ \A k \in 1 .. m : f[k] = e[k]
  BY <1>1, <1>2, <1>4
<1>6. ASSUME NEW k \in 1 .. m + 1
      PROVE  IsNode(f[k], k - 1)
  <2>1. CASE k = m + 1
    <3>1. f[k].op = op /\ f[k].back = back /\ k - 1 = m
      BY <1>3, <1>5, <2>1
    <3>2. op # "clause"
      BY DEF Connectives
    <3> QED BY <1>2, <3>1, <3>2 DEF IsNode
  <2>2. CASE k # m + 1
    <3>1. k \in 1 .. m /\ f[k] = e[k]
      BY <1>5, <2>2
    <3> QED BY <1>2, <3>1 DEF IsExpr
  <2> QED BY <2>1, <2>2
<1> QED BY <1>2, <1>3, <1>4, <1>5, <1>6 DEF IsExpr

LEMMA NotIsExpr ==
    ASSUME NEW e, IsExpr(e)
    PROVE  IsExpr(NotOf(e))
<1>1. Len(e) \in Nat /\ Len(e) >= 1
  BY ExprDomain DEF IsExpr
<1>2. Reaches(<<1>>, Len(e))
  BY <1>1 DEF Reaches
<1>3. "not" \in Connectives
  BY DEF Connectives
<1> QED BY <1>2, <1>3, OperatorBehind DEF NotOf

LEMMA OneIsList ==
    ASSUME NEW e, IsExpr(e)
    PROVE  IsList(One(e))
<1>1. Len(e) \in Nat /\ Len(e) >= 1
  BY ExprDomain DEF IsExpr
<1>2. Reaches(<<1>>, Len(e))
  BY <1>1 DEF Reaches
<1> QED BY <1>2 DEF One, IsList

\* Of two expressions behind each other each is as it was.
LEMMA ExprsJoined ==
    ASSUME NEW d, IsExpr(d), NEW e, IsExpr(e)
    PROVE  IsExpr(d \o e) /\ Len(d \o e) = Len(d) + Len(e)
<1>1. PICK S : d \in Seq(S)
  BY DEF IsExpr
<1>2. PICK T : e \in Seq(T)
  BY DEF IsExpr
<1>3. PICK m \in Nat : m = Len(d) /\ m >= 1
  BY ExprDomain DEF IsExpr
<1>4. PICK n \in Nat : n = Len(e) /\ n >= 1
  BY ExprDomain DEF IsExpr
<1>5. PICK U : U = S \cup T
  OBVIOUS
<1>6. d \in Seq(U) /\ e \in Seq(U)
  BY <1>1, <1>2, <1>5
<1>7. PICK f : f = d \o e
  OBVIOUS
<1>8. f \in Seq(U) /\ Len(f) = m + n
  BY <1>3, <1>4, <1>6, <1>7
<1>9. \A k \in 1 .. m : f[k] = d[k]
  BY <1>3, <1>6, <1>7
<1>10. \A k \in 1 .. n : f[m + k] = e[k]
  BY <1>3, <1>4, <1>6, <1>7
<1>11. ASSUME NEW k \in 1 .. m + n
       PROVE  IsNode(f[k], k - 1)
  <2>1. CASE k <= m
    <3>1. k \in 1 .. m /\ f[k] = d[k]
      BY <1>9, <2>1
    <3> QED BY <1>3, <3>1 DEF IsExpr
  <2>2. CASE k > m
    <3>1. PICK j \in 1 .. n : k = m + j
      <4>1. k - m \in 1 .. n /\ k = m + (k - m)
        BY <2>2
      <4> QED BY <4>1
    <3>2. f[k] = e[j]
      BY <1>10, <3>1
    <3>3. IsNode(f[k], j - 1)
      BY <1>4, <3>2 DEF IsExpr
    <3>4. ASSUME Reaches(f[k].back, j - 1) PROVE Reaches(f[k].back, k - 1)
      <4>1. 1 .. j - 1 \subseteq 1 .. k - 1
        BY <3>1
      <4>2. f[k].back \in Seq(1 .. j - 1) /\ Len(f[k].back) >= 1
        BY <3>4 DEF Reaches
      <4>3. f[k].back \in Seq(1 .. k - 1)
        BY <4>1, <4>2, SeqOfMore
      <4> QED BY <4>2, <4>3 DEF Reaches
    <3> QED BY <3>3, <3>4 DEF IsNode
  <2> QED BY <2>1, <2>2
<1>12. \A k \in 1 .. Len(f) : IsNode(f[k], k - 1)
  BY <1>8, <1>11
<1>13. IsExpr(f)
  BY <1>3, <1>4, <1>8, <1>12 DEF IsExpr
<1> QED BY <1>3, <1>4, <1>7, <1>8, <1>13

LEMMA OneMoreIsList ==
    ASSUME NEW e, IsExpr(e), NEW l, IsList(l)
    PROVE  IsList(OneMore(e, l))
<1>1. IsExpr(l.nodes) /\ Reaches(l.back, Len(l.nodes))
  BY DEF IsList
<1>2. PICK m \in Nat : m = Len(e) /\ m >= 1
  BY ExprDomain DEF IsExpr
<1>3. PICK n \in Nat : n = Len(l.nodes)
  BY <1>1, ExprDomain
<1>4. IsExpr(e \o l.nodes) /\ Len(e \o l.nodes) = m + n
  BY <1>1, <1>2, <1>3, ExprsJoined
<1>5. Reaches(<<n + 1>> \o l.back, m + n)
  <2>1. l.back \in Seq(1 .. n) /\ Len(l.back) \in Nat
    BY <1>1, <1>3 DEF Reaches
  <2>2. l.back \in Seq(1 .. m + n) /\ <<n + 1>> \in Seq(1 .. m + n)
    BY <1>2, <2>1
  <2> QED BY <2>1, <2>2 DEF Reaches
<1> QED BY <1>3, <1>4, <1>5 DEF OneMore, IsList

LEMMA SeveralIsExpr ==
    ASSUME NEW l, IsList(l), NEW op \in Connectives
    PROVE  IsExpr(Several(op, l))
  BY OperatorBehind DEF IsList, Several

(***************************************************************************)
(* The parser: what it reads is an expression, and it comes to an end      *)
(***************************************************************************)
\* What is read at i fails, or is an expression, or a list of them, and ends behind i.
Fails(p) == p \in {Ended, Wrong}
ReadsExpr(ts, i, p) == Fails(p) \/ (p.next \in i + 1 .. Len(ts) + 1 /\ IsExpr(p.what))
ReadsList(ts, i, p) == Fails(p) \/ (p.next \in i + 1 .. Len(ts) + 1 /\ IsList(p.what))
ReadsAt(ts, At, i) ==
    /\ ReadsExpr(ts, i, At[<<"not", i>>])
    /\ ReadsList(ts, i, At[<<"and", i>>])
    /\ ReadsList(ts, i, At[<<"or", i>>])

LEMMA FailsFailed ==
    ASSUME NEW p, Fails(p)
    PROVE  Failed(p)
  BY DEF Fails, Failed, Ended, Wrong, Got

LEMMA TextReads ==
    ASSUME NEW ts \in Seq(Tokens), NEW i \in Nat
    PROVE  Fails(Text(ts, i)) \/ (i <= Len(ts) /\ Text(ts, i).next = i + 1)
<1>1. Len(ts) \in Nat
  OBVIOUS
<1> QED BY <1>1 DEF Text, Fails, Got

LEMMA ClauseReads ==
    ASSUME NEW ts \in Seq(Tokens), NEW i \in 1 .. Len(ts)
    PROVE  ReadsExpr(ts, i, ParseClause(ts, i))
<1>1. Len(ts) \in Nat /\ i \in Nat
  OBVIOUS
<1>2. ASSUME NEW field, NEW cmp, NEW value, NEW next \in i + 1 .. Len(ts) + 1
      PROVE  ReadsExpr(ts, i, MakeClause(field, cmp, value, next))
  BY ClauseIsExpr DEF MakeClause, ReadsExpr, Fails, Got
<1>3. PICK t : t = Text(ts, i + 1)
  OBVIOUS
<1>4. PICK u : u = Text(ts, i + 2)
  OBVIOUS
<1>5. (Fails(t) \/ t.next \in i + 1 .. Len(ts) + 1) /\ (Fails(u) \/ u.next \in i + 1 .. Len(ts) + 1)
  <2>1. Fails(t) \/ (i + 1 <= Len(ts) /\ t.next = i + 2)
    <3>1. i + 1 \in Nat /\ (i + 1) + 1 = i + 2
      BY <1>1
    <3> QED BY <1>3, <3>1, TextReads
  <2>2. Fails(u) \/ (i + 2 <= Len(ts) /\ u.next = i + 3)
    <3>1. i + 2 \in Nat /\ (i + 2) + 1 = i + 3
      BY <1>1
    <3> QED BY <1>4, <3>1, TextReads
  <2> QED BY <1>1, <2>1, <2>2
<1>6. ASSUME NEW field, NEW cmp
      PROVE  ReadsExpr(ts, i, IF Failed(t) THEN t ELSE MakeClause(field, cmp, t.what, t.next))
  <2>1. CASE Failed(t)
    <3>1. Fails(t)
      BY <1>1, <1>5, <2>1 DEF Failed
    <3> QED BY <2>1, <3>1 DEF ReadsExpr
  <2>2. CASE ~Failed(t)
    BY <1>2, <1>5, <2>2, FailsFailed
  <2> QED BY <2>1, <2>2
<1>7. ASSUME NEW field
      PROVE  ReadsExpr(ts, i, IF Failed(t) THEN t ELSE IF Failed(u) THEN u
                              ELSE MakeClause(field, t.what, u.what, u.next))
  <2>1. CASE Failed(t)
    <3>1. Fails(t)
      BY <1>1, <1>5, <2>1 DEF Failed
    <3> QED BY <2>1, <3>1 DEF ReadsExpr
  <2>2. CASE ~Failed(t) /\ Failed(u)
    <3>1. Fails(u)
      BY <1>1, <1>5, <2>2 DEF Failed
    <3> QED BY <2>2, <3>1 DEF ReadsExpr
  <2>3. CASE ~Failed(t) /\ ~Failed(u)
    BY <1>2, <1>5, <2>3, FailsFailed
  <2> QED BY <2>1, <2>2, <2>3
<1>8. ReadsExpr(ts, i, Wrong)
  BY DEF ReadsExpr, Fails
<1>9. i + 1 \in i + 1 .. Len(ts) + 1
  BY <1>1
<1>10. PICK first : first = ts[i].text
  OBVIOUS
<1>11. CASE Splits(first, FALSE) # {}
  <2>1. PICK s : s = Split(first, FALSE)
    OBVIOUS
  <2>2. ParseClause(ts, i) = MakeClause(s.field, s.cmp, s.value, i + 1)
    BY <1>10, <1>11, <2>1 DEF ParseClause
  <2> QED BY <1>2, <1>9, <2>2
<1>12. CASE Splits(first, FALSE) = {} /\ Splits(first, TRUE) # {}
  <2>1. PICK s : s = Split(first, TRUE)
    OBVIOUS
  <2>2. ParseClause(ts, i) = IF Failed(t) THEN t ELSE MakeClause(s.field, s.cmp, t.what, t.next)
    BY <1>3, <1>10, <1>12, <2>1 DEF ParseClause, Then
  <2> QED BY <1>6, <2>2
<1>13. CASE Splits(first, FALSE) = {} /\ Splits(first, TRUE) = {} /\ ~IsField(first)
  BY <1>8, <1>10, <1>13 DEF ParseClause
<1>14. CASE Splits(first, FALSE) = {} /\ Splits(first, TRUE) = {} /\ IsField(first)
  <2>1. ParseClause(ts, i)
          = IF Failed(t) THEN t ELSE IF Failed(u) THEN u ELSE MakeClause(first, t.what, u.what, u.next)
    BY <1>3, <1>4, <1>10, <1>14 DEF ParseClause, Then
  <2> QED BY <1>7, <2>1
<1> QED BY <1>11, <1>12, <1>13, <1>14

LEMMA NotReads ==
    ASSUME NEW ts \in Seq(Tokens), NEW i \in 1 .. Len(ts) + 1, NEW At,
           \A j \in i + 1 .. Len(ts) + 1 : ReadsAt(ts, At, j)
    PROVE  ReadsExpr(ts, i, ParseNot(ts, At, i))
<1>1. PICK n \in Nat : n = Len(ts)
  OBVIOUS
<1>2. CASE i > n
  BY <1>1, <1>2 DEF ParseNot, ReadsExpr, Fails
<1>3. CASE i <= n
  <2>1. ReadsAt(ts, At, i + 1)
    BY <1>1, <1>3
  <2>2. ReadsExpr(ts, i, ParseClause(ts, i))
    BY <1>1, <1>3, ClauseReads
  <2>3. ReadsExpr(ts, i, Wrong)
    BY DEF ReadsExpr, Fails
  <2>4. ReadsExpr(ts, i, Then(At[<<"not", i + 1>>], LAMBDA p : Got(NotOf(p.what), p.next)))
    <3>1. PICK p : p = At[<<"not", i + 1>>]
      OBVIOUS
    <3>2. Fails(p) \/ (p.next \in i + 2 .. n + 1 /\ IsExpr(p.what))
      <4>1. ReadsExpr(ts, i + 1, p) /\ (i + 1) + 1 = i + 2
        BY <2>1, <3>1 DEF ReadsAt
      <4> QED BY <1>1, <4>1 DEF ReadsExpr
    <3>3. CASE Fails(p)
      BY <3>1, <3>3, FailsFailed DEF Then, ReadsExpr
    <3>4. CASE ~Fails(p)
      <4>1. p.next \in i + 1 .. n + 1 /\ ~Failed(p) /\ IsExpr(NotOf(p.what))
        BY <3>2, <3>4, NotIsExpr DEF Failed
      <4> QED BY <1>1, <3>1, <4>1 DEF Then, ReadsExpr, Got
    <3> QED BY <3>3, <3>4
  <2>5. ReadsExpr(ts, i, Then(At[<<"or", i + 1>>], LAMBDA p : Closed(ts, p)))
    <3>1. PICK p : p = At[<<"or", i + 1>>]
      OBVIOUS
    <3>2. Fails(p) \/ (p.next \in i + 2 .. n + 1 /\ IsList(p.what))
      <4>1. ReadsList(ts, i + 1, p) /\ (i + 1) + 1 = i + 2
        BY <2>1, <3>1 DEF ReadsAt
      <4> QED BY <1>1, <4>1 DEF ReadsList
    <3>3. CASE Fails(p)
      BY <3>1, <3>3, FailsFailed DEF Then, ReadsExpr
    <3>4. CASE ~Fails(p)
      <4>1. p.next \in i + 1 .. n + 1 /\ ~Failed(p) /\ IsExpr(Several("or", p.what))
        BY <3>2, <3>4, SeveralIsExpr DEF Connectives, Failed
      <4>2. p.next <= n => p.next + 1 \in i + 1 .. n + 1
        BY <4>1
      <4>3. ReadsExpr(ts, i, Closed(ts, p))
        BY <1>1, <4>1, <4>2 DEF Closed, ReadsExpr, Fails, Got
      <4> QED BY <3>1, <4>1, <4>3 DEF Then
    <3> QED BY <3>3, <3>4
  <2> QED BY <1>1, <1>3, <2>2, <2>3, <2>4, <2>5 DEF ParseNot
<1> QED BY <1>1, <1>2, <1>3

LEMMA AndReads ==
    ASSUME NEW ts \in Seq(Tokens), NEW i \in 1 .. Len(ts) + 1, NEW At,
           \A j \in i + 1 .. Len(ts) + 1 : ReadsAt(ts, At, j),
           ReadsExpr(ts, i, At[<<"not", i>>])
    PROVE  ReadsList(ts, i, ParseAnd(ts, At, i))
<1>1. PICK n \in Nat : n = Len(ts)
  OBVIOUS
<1>2. PICK p : p = At[<<"not", i>>]
  OBVIOUS
<1>3. CASE Fails(p)
  BY <1>2, <1>3, FailsFailed DEF ParseAnd, Then, ReadsList
<1>4. CASE ~Fails(p)
  <2>1. p.next \in i + 1 .. n + 1 /\ IsExpr(p.what) /\ ~Failed(p)
    BY <1>1, <1>2, <1>4 DEF ReadsExpr, Failed
  <2>2. CASE EndsExpression(ts, p.next) \/ Keyword(ts, p.next, "OR")
    <3>1. ParseAnd(ts, At, i) = Got(One(p.what), p.next)
      BY <1>2, <2>1, <2>2 DEF ParseAnd, Then
    <3>2. IsList(One(p.what))
      BY <2>1, OneIsList
    <3> QED BY <1>1, <2>1, <3>1, <3>2 DEF ReadsList, Got
  <2>3. CASE ~(EndsExpression(ts, p.next) \/ Keyword(ts, p.next, "OR"))
    <3>1. PICK next : next = IF Keyword(ts, p.next, "AND") THEN p.next + 1 ELSE p.next
      OBVIOUS
    <3>2. next \in i + 1 .. n + 1
      BY <1>1, <2>1, <2>3, <3>1 DEF EndsExpression
    <3>3. PICK q : q = At[<<"and", next>>]
      OBVIOUS
    <3>4. ParseAnd(ts, At, i) = IF Failed(q) THEN q ELSE Got(OneMore(p.what, q.what), q.next)
      BY <1>2, <2>1, <2>3, <3>1, <3>3 DEF ParseAnd, Then
    <3>5. Fails(q) \/ (q.next \in i + 1 .. n + 1 /\ IsList(q.what))
      <4>1. ReadsList(ts, next, q)
        BY <1>1, <3>2, <3>3 DEF ReadsAt
      <4> QED BY <1>1, <3>2, <4>1 DEF ReadsList
    <3>6. CASE Fails(q)
      BY <3>4, <3>6, FailsFailed DEF ReadsList
    <3>7. CASE ~Fails(q)
      <4>1. q.next \in i + 1 .. n + 1 /\ ~Failed(q) /\ IsList(OneMore(p.what, q.what))
        BY <2>1, <3>5, <3>7, OneMoreIsList DEF Failed
      <4> QED BY <1>1, <3>4, <4>1 DEF ReadsList, Got
    <3> QED BY <3>6, <3>7
  <2> QED BY <2>2, <2>3
<1> QED BY <1>3, <1>4

LEMMA OrReads ==
    ASSUME NEW ts \in Seq(Tokens), NEW i \in 1 .. Len(ts) + 1, NEW At,
           \A j \in i + 1 .. Len(ts) + 1 : ReadsAt(ts, At, j),
           ReadsList(ts, i, At[<<"and", i>>])
    PROVE  ReadsList(ts, i, ParseOr(ts, At, i))
<1>1. PICK n \in Nat : n = Len(ts)
  OBVIOUS
<1>2. PICK p : p = At[<<"and", i>>]
  OBVIOUS
<1>3. CASE Fails(p)
  BY <1>2, <1>3, FailsFailed DEF ParseOr, Then, ReadsList
<1>4. CASE ~Fails(p)
  <2>1. p.next \in i + 1 .. n + 1 /\ IsExpr(Several("and", p.what)) /\ ~Failed(p)
    BY <1>1, <1>2, <1>4, SeveralIsExpr DEF Connectives, ReadsList, Failed
  <2>2. CASE ~Keyword(ts, p.next, "OR")
    <3>1. ParseOr(ts, At, i) = Got(One(Several("and", p.what)), p.next)
      BY <1>2, <2>1, <2>2 DEF ParseOr, Then
    <3>2. IsList(One(Several("and", p.what)))
      BY <2>1, OneIsList
    <3> QED BY <1>1, <2>1, <3>1, <3>2 DEF ReadsList, Got
  <2>3. CASE Keyword(ts, p.next, "OR")
    <3>1. p.next + 1 \in i + 1 .. n + 1
      BY <1>1, <2>1, <2>3 DEF Keyword, IsAt
    <3>2. PICK q : q = At[<<"or", p.next + 1>>]
      OBVIOUS
    <3>3. ParseOr(ts, At, i) = IF Failed(q) THEN q ELSE Got(OneMore(Several("and", p.what), q.what), q.next)
      BY <1>2, <2>1, <2>3, <3>2 DEF ParseOr, Then
    <3>4. Fails(q) \/ (q.next \in i + 1 .. n + 1 /\ IsList(q.what))
      <4>1. ReadsList(ts, p.next + 1, q)
        BY <1>1, <3>1, <3>2 DEF ReadsAt
      <4> QED BY <1>1, <3>1, <4>1 DEF ReadsList
    <3>5. CASE Fails(q)
      BY <3>3, <3>5, FailsFailed DEF ReadsList
    <3>6. CASE ~Fails(q)
      <4>1. q.next \in i + 1 .. n + 1 /\ ~Failed(q) /\ IsList(OneMore(Several("and", p.what), q.what))
        BY <2>1, <3>4, <3>6, OneMoreIsList DEF Failed
      <4> QED BY <1>1, <3>3, <4>1 DEF ReadsList, Got
    <3> QED BY <3>5, <3>6
  <2> QED BY <2>2, <2>3
<1> QED BY <1>3, <1>4

\* The parser looks at nothing before the place it reads at.
Levels == {"not", "and", "or"}
SameBehind(ts, f, h, i) == \A level \in Levels : \A j \in i + 1 .. Len(ts) + 1 : f[<<level, j>>] = h[<<level, j>>]

LEMMA LooksBehind ==
    ASSUME NEW ts \in Seq(Tokens), NEW i \in 1 .. Len(ts) + 1, NEW f, NEW h, SameBehind(ts, f, h, i)
    PROVE  /\ ParseNot(ts, f, i) = ParseNot(ts, h, i)
           /\ f[<<"not", i>>] = h[<<"not", i>>] /\ ReadsExpr(ts, i, f[<<"not", i>>]) => ParseAnd(ts, f, i) = ParseAnd(ts, h, i)
           /\ f[<<"and", i>>] = h[<<"and", i>>] /\ ReadsList(ts, i, f[<<"and", i>>]) => ParseOr(ts, f, i) = ParseOr(ts, h, i)
<1>1. PICK n \in Nat : n = Len(ts)
  OBVIOUS
<1>2. \A j \in i + 1 .. n + 1 : /\ f[<<"not", j>>] = h[<<"not", j>>]
                                /\ f[<<"and", j>>] = h[<<"and", j>>]
                                /\ f[<<"or", j>>] = h[<<"or", j>>]
  BY <1>1 DEF SameBehind, Levels
<1>3. ParseNot(ts, f, i) = ParseNot(ts, h, i)
  <2>1. CASE i > n
    BY <1>1, <2>1 DEF ParseNot
  <2>2. CASE i <= n
    <3>1. f[<<"not", i + 1>>] = h[<<"not", i + 1>>] /\ f[<<"or", i + 1>>] = h[<<"or", i + 1>>]
      <4>1. i + 1 \in i + 1 .. n + 1
        BY <1>1, <2>2
      <4> QED BY <1>2, <4>1
    <3> QED BY <3>1 DEF ParseNot, Then
  <2> QED BY <2>1, <2>2
<1>4. ASSUME f[<<"not", i>>] = h[<<"not", i>>], ReadsExpr(ts, i, f[<<"not", i>>])
      PROVE  ParseAnd(ts, f, i) = ParseAnd(ts, h, i)
  <2>1. PICK p : p = f[<<"not", i>>]
    OBVIOUS
  <2>2. CASE Fails(p)
    BY <1>4, <2>1, <2>2, FailsFailed DEF ParseAnd, Then
  <2>3. CASE ~Fails(p)
    <3>1. p.next \in i + 1 .. n + 1
      BY <1>1, <1>4, <2>1, <2>3 DEF ReadsExpr
    <3>2. CASE EndsExpression(ts, p.next) \/ Keyword(ts, p.next, "OR")
      BY <1>4, <2>1, <3>2 DEF ParseAnd, Then
    <3>3. CASE ~(EndsExpression(ts, p.next) \/ Keyword(ts, p.next, "OR"))
      <4>1. PICK next : next = IF Keyword(ts, p.next, "AND") THEN p.next + 1 ELSE p.next
        OBVIOUS
      <4>2. f[<<"and", next>>] = h[<<"and", next>>]
        <5>1. next \in i + 1 .. n + 1
          BY <1>1, <3>1, <3>3, <4>1 DEF EndsExpression
        <5> QED BY <1>2, <5>1
      <4> QED BY <1>4, <2>1, <3>3, <4>1, <4>2 DEF ParseAnd, Then
    <3> QED BY <3>2, <3>3
  <2> QED BY <2>2, <2>3
<1>5. ASSUME f[<<"and", i>>] = h[<<"and", i>>], ReadsList(ts, i, f[<<"and", i>>])
      PROVE  ParseOr(ts, f, i) = ParseOr(ts, h, i)
  <2>1. PICK p : p = f[<<"and", i>>]
    OBVIOUS
  <2>2. CASE Fails(p)
    BY <1>5, <2>1, <2>2, FailsFailed DEF ParseOr, Then
  <2>3. CASE ~Fails(p)
    <3>1. p.next \in i + 1 .. n + 1
      BY <1>1, <1>5, <2>1, <2>3 DEF ReadsList
    <3>2. Keyword(ts, p.next, "OR") => f[<<"or", p.next + 1>>] = h[<<"or", p.next + 1>>]
      <4>1. Keyword(ts, p.next, "OR") => p.next + 1 \in i + 1 .. n + 1
        BY <1>1, <3>1 DEF Keyword, IsAt
      <4> QED BY <1>2, <4>1
    <3> QED BY <1>5, <2>1, <3>2 DEF ParseOr, Then
  <2> QED BY <2>2, <2>3
<1> QED BY <1>3, <1>4, <1>5

\* The parser is a recursive function of the place and of what binds how tightly:
\* what it reads at a place is made of what it reads behind it.
Step(ts, f, at) ==
    CASE at[1] = "not" -> ParseNot(ts, f, at[2])
      [] at[1] = "and" -> ParseAnd(ts, f, at[2])
      [] at[1] = "or" -> ParseOr(ts, f, at[2])
StepsAt(ts, f, i) == \A level \in Levels : f[<<level, i>>] = Step(ts, f, <<level, i>>)
Parses(ts, f) ==
    f = [at \in {"not", "and", "or"} \X (1 .. Len(ts) + 1) |->
            CASE at[1] = "not" -> ParseNot(ts, f, at[2])
              [] at[1] = "and" -> ParseAnd(ts, f, at[2])
              [] at[1] = "or" -> ParseOr(ts, f, at[2])]

LEMMA StepsOfLevels ==
    ASSUME NEW ts, NEW f, NEW i
    PROVE  StepsAt(ts, f, i) <=> /\ f[<<"not", i>>] = ParseNot(ts, f, i)
                                 /\ f[<<"and", i>>] = ParseAnd(ts, f, i)
                                 /\ f[<<"or", i>>] = ParseOr(ts, f, i)
<1>1. /\ Step(ts, f, <<"not", i>>) = ParseNot(ts, f, i)
      /\ Step(ts, f, <<"and", i>>) = ParseAnd(ts, f, i)
      /\ Step(ts, f, <<"or", i>>) = ParseOr(ts, f, i)
  BY DEF Step
<1> QED BY <1>1 DEF StepsAt, Levels

LEMMA StepReads ==
    ASSUME NEW ts \in Seq(Tokens), NEW i \in 1 .. Len(ts) + 1, NEW At,
           \A j \in i + 1 .. Len(ts) + 1 : ReadsAt(ts, At, j), StepsAt(ts, At, i)
    PROVE  ReadsAt(ts, At, i)
<1>1. ReadsExpr(ts, i, At[<<"not", i>>])
  BY NotReads, StepsOfLevels
<1>2. ReadsList(ts, i, At[<<"and", i>>])
  BY <1>1, AndReads, StepsOfLevels
<1>3. ReadsList(ts, i, At[<<"or", i>>])
  BY <1>2, OrReads, StepsOfLevels
<1> QED BY <1>1, <1>2, <1>3 DEF ReadsAt

\* From the end of the tokens back to the first.
LEMMA ReadsEverywhere ==
    ASSUME NEW ts \in Seq(Tokens), NEW At, NEW first \in 1 .. Len(ts) + 1,
           \A i \in first .. Len(ts) + 1 : StepsAt(ts, At, i)
    PROVE  \A i \in first .. Len(ts) + 1 : ReadsAt(ts, At, i)
<1>1. PICK n \in Nat : n = Len(ts)
  OBVIOUS
<1>2. PICK Q : Q = {m \in Nat : \A i \in first .. n + 1 : n + 1 - i < m => ReadsAt(ts, At, i)}
  OBVIOUS
<1>3. 0 \in Q
  BY <1>2
<1>4. ASSUME NEW m \in Nat, m \in Q PROVE m + 1 \in Q
  <2>1. SUFFICES ASSUME NEW i \in first .. n + 1, n + 1 - i = m PROVE ReadsAt(ts, At, i)
    BY <1>2, <1>4
  <2>2. \A j \in i + 1 .. n + 1 : ReadsAt(ts, At, j)
    BY <1>1, <1>2, <1>4, <2>1
  <2> QED BY <1>1, <2>2, StepReads
<1>5. n + 1 \in Q
  BY <1>2, <1>3, <1>4, CountUp
<1> QED BY <1>1, <1>2, <1>5

LEMMA SameReads ==
    ASSUME NEW ts, NEW f, NEW h, NEW i, \A level \in Levels : f[<<level, i>>] = h[<<level, i>>], ReadsAt(ts, f, i)
    PROVE  ReadsAt(ts, h, i)
  BY DEF ReadsAt, Levels

\* With the places behind i read, those at i can be.
LEMMA StepAdded ==
    ASSUME NEW ts \in Seq(Tokens), NEW i \in 1 .. Len(ts) + 1, NEW f,
           \A j \in i + 1 .. Len(ts) + 1 : StepsAt(ts, f, j)
    PROVE  \E h : \A j \in i .. Len(ts) + 1 : StepsAt(ts, h, j)
<1>1. PICK n \in Nat : n = Len(ts)
  OBVIOUS
<1>2. PICK D : D = Levels \X (1 .. n + 1)
  OBVIOUS
<1>3. \A level \in Levels : \A j \in 1 .. n + 1 : <<level, j>> \in D
  BY <1>2
<1>4. \A j \in i + 1 .. n + 1 : ReadsAt(ts, f, j)
  <2>1. CASE i = n + 1
    BY <1>1, <2>1
  <2>2. CASE i # n + 1
    <3>1. i + 1 \in 1 .. Len(ts) + 1
      BY <1>1, <2>2
    <3> QED BY <1>1, <3>1, ReadsEverywhere
  <2> QED BY <2>1, <2>2
<1>5. PICK nots : nots = ParseNot(ts, f, i)
  OBVIOUS
<1>6. ReadsExpr(ts, i, nots)
  BY <1>1, <1>4, <1>5, NotReads
<1>7. PICK h1 : h1 = [at \in D |-> IF at = <<"not", i>> THEN nots ELSE f[at]]
  OBVIOUS
<1>8. SameBehind(ts, f, h1, i) /\ h1[<<"not", i>>] = nots
  <2>1. <<"not", i>> \in D
    BY <1>1, <1>3 DEF Levels
  <2>2. ASSUME NEW level \in Levels, NEW j \in i + 1 .. n + 1 PROVE f[<<level, j>>] = h1[<<level, j>>]
    <3>1. <<level, j>> \in D /\ <<level, j>> # <<"not", i>>
      BY <1>1, <1>3
    <3> QED BY <1>7, <3>1
  <2> QED BY <1>1, <1>7, <2>1, <2>2 DEF SameBehind
<1>9. PICK ands : ands = ParseAnd(ts, h1, i)
  OBVIOUS
<1>10. \A j \in i + 1 .. n + 1 : ReadsAt(ts, h1, j)
  BY <1>1, <1>4, <1>8, SameReads DEF SameBehind
<1>11. ReadsList(ts, i, ands)
  BY <1>1, <1>6, <1>8, <1>9, <1>10, AndReads
<1>12. PICK h2 : h2 = [at \in D |-> IF at = <<"and", i>> THEN ands ELSE h1[at]]
  OBVIOUS
<1>13. SameBehind(ts, h1, h2, i) /\ h2[<<"not", i>>] = nots /\ h2[<<"and", i>>] = ands
  <2>1. <<"not", i>> \in D /\ <<"and", i>> \in D /\ <<"not", i>> # <<"and", i>>
    BY <1>1, <1>3 DEF Levels
  <2>2. ASSUME NEW level \in Levels, NEW j \in i + 1 .. n + 1 PROVE h1[<<level, j>>] = h2[<<level, j>>]
    <3>1. <<level, j>> \in D /\ <<level, j>> # <<"and", i>>
      BY <1>1, <1>3
    <3> QED BY <1>12, <3>1
  <2> QED BY <1>1, <1>8, <1>12, <2>1, <2>2 DEF SameBehind
<1>14. PICK ors : ors = ParseOr(ts, h2, i)
  OBVIOUS
<1>15. PICK h : h = [at \in D |-> IF at = <<"or", i>> THEN ors ELSE h2[at]]
  OBVIOUS
<1>16. SameBehind(ts, h2, h, i) /\ h[<<"not", i>>] = nots /\ h[<<"and", i>>] = ands /\ h[<<"or", i>>] = ors
  <2>1. /\ <<"not", i>> \in D /\ <<"and", i>> \in D /\ <<"or", i>> \in D
        /\ <<"not", i>> # <<"or", i>> /\ <<"and", i>> # <<"or", i>>
    BY <1>1, <1>3 DEF Levels
  <2>2. ASSUME NEW level \in Levels, NEW j \in i + 1 .. n + 1 PROVE h2[<<level, j>>] = h[<<level, j>>]
    <3>1. <<level, j>> \in D /\ <<level, j>> # <<"or", i>>
      BY <1>1, <1>3
    <3> QED BY <1>15, <3>1
  <2> QED BY <1>1, <1>13, <1>15, <2>1, <2>2 DEF SameBehind
<1>17. SameBehind(ts, f, h, i) /\ SameBehind(ts, h1, h, i)
  BY <1>8, <1>13, <1>16 DEF SameBehind
<1>18. ParseNot(ts, h, i) = nots /\ ParseAnd(ts, h, i) = ands /\ ParseOr(ts, h, i) = ors
  <2>1. ParseNot(ts, h, i) = nots
    BY <1>5, <1>17, LooksBehind
  <2>2. ParseAnd(ts, h, i) = ands
    BY <1>6, <1>8, <1>9, <1>16, <1>17, LooksBehind
  <2>3. ParseOr(ts, h, i) = ors
    BY <1>11, <1>13, <1>14, <1>16, LooksBehind
  <2> QED BY <2>1, <2>2, <2>3
<1>19. StepsAt(ts, h, i)
  BY <1>16, <1>18, StepsOfLevels
<1>20. ASSUME NEW j \in i + 1 .. n + 1 PROVE StepsAt(ts, h, j)
  <2>1. j \in 1 .. Len(ts) + 1 /\ SameBehind(ts, f, h, j)
    BY <1>1, <1>17 DEF SameBehind
  <2>2. \A level \in Levels : f[<<level, j>>] = h[<<level, j>>]
    BY <1>1, <1>17 DEF SameBehind
  <2>3. ReadsExpr(ts, j, f[<<"not", j>>]) /\ ReadsList(ts, j, f[<<"and", j>>])
    BY <1>4 DEF ReadsAt
  <2>4. f[<<"not", j>>] = h[<<"not", j>>] /\ f[<<"and", j>>] = h[<<"and", j>>] /\ f[<<"or", j>>] = h[<<"or", j>>]
    BY <2>2 DEF Levels
  <2>5. ParseNot(ts, f, j) = ParseNot(ts, h, j) /\ ParseAnd(ts, f, j) = ParseAnd(ts, h, j) /\ ParseOr(ts, f, j) = ParseOr(ts, h, j)
    BY <2>1, <2>3, <2>4, LooksBehind
  <2>6. StepsAt(ts, f, j)
    BY <1>1
  <2> QED BY <2>4, <2>5, <2>6, StepsOfLevels
<1> QED BY <1>1, <1>19, <1>20

LEMMA ParsesExist ==
    ASSUME NEW ts \in Seq(Tokens)
    PROVE  \E f : Parses(ts, f)
<1>1. PICK n \in Nat : n = Len(ts)
  OBVIOUS
<1>2. PICK Q : Q = {m \in Nat : m <= n + 1 => \E f : \A j \in n + 2 - m .. n + 1 : StepsAt(ts, f, j)}
  OBVIOUS
<1>3. 0 \in Q
  <2>1. \A j \in n + 2 - 0 .. n + 1 : FALSE
    OBVIOUS
  <2> QED BY <1>2, <2>1
<1>4. ASSUME NEW m \in Nat, m \in Q PROVE m + 1 \in Q
  <2>1. SUFFICES ASSUME m + 1 <= n + 1
                 PROVE  \E h : \A j \in n + 2 - (m + 1) .. n + 1 : StepsAt(ts, h, j)
    BY <1>2
  <2>2. PICK i \in 1 .. n + 1 : i = n + 1 - m
    BY <2>1
  <2>3. n + 2 - m = i + 1 /\ n + 2 - (m + 1) = i
    BY <2>2
  <2>4. PICK f : \A j \in i + 1 .. n + 1 : StepsAt(ts, f, j)
    BY <1>2, <1>4, <2>1, <2>3
  <2> QED BY <1>1, <2>3, <2>4, StepAdded
<1>5. n + 1 \in Q
  BY <1>2, <1>3, <1>4, CountUp
<1>6. PICK f : \A j \in 1 .. n + 1 : StepsAt(ts, f, j)
  <2>1. n + 2 - (n + 1) = 1
    OBVIOUS
  <2> QED BY <1>2, <1>5, <2>1
<1>7. PICK h : h = [at \in {"not", "and", "or"} \X (1 .. n + 1) |-> f[at]]
  OBVIOUS
<1>8. \A level \in Levels : \A j \in 1 .. n + 1 : f[<<level, j>>] = h[<<level, j>>]
  BY <1>7 DEF Levels
<1>9. ASSUME NEW j \in 1 .. n + 1
      PROVE  /\ h[<<"not", j>>] = ParseNot(ts, h, j)
             /\ h[<<"and", j>>] = ParseAnd(ts, h, j)
             /\ h[<<"or", j>>] = ParseOr(ts, h, j)
  <2>1. SameBehind(ts, f, h, j)
    <3>1. \A k \in j + 1 .. n + 1 : k \in 1 .. n + 1
      BY <1>1
    <3> QED BY <1>1, <1>8, <3>1 DEF SameBehind
  <2>2. ReadsAt(ts, f, j)
    <3>1. 1 \in 1 .. Len(ts) + 1
      BY <1>1
    <3> QED BY <1>1, <1>6, <3>1, ReadsEverywhere
  <2>3. f[<<"not", j>>] = h[<<"not", j>>] /\ f[<<"and", j>>] = h[<<"and", j>>] /\ f[<<"or", j>>] = h[<<"or", j>>]
    BY <1>8 DEF Levels
  <2>4. StepsAt(ts, f, j)
    BY <1>6
  <2>5. ParseNot(ts, f, j) = ParseNot(ts, h, j) /\ ParseAnd(ts, f, j) = ParseAnd(ts, h, j) /\ ParseOr(ts, f, j) = ParseOr(ts, h, j)
    BY <1>1, <2>1, <2>2, <2>3, LooksBehind DEF ReadsAt
  <2> QED BY <2>3, <2>4, <2>5, StepsOfLevels
<1>10. ASSUME NEW at \in {"not", "and", "or"} \X (1 .. n + 1)
       PROVE  h[at] = Step(ts, h, at)
  <2>1. PICK level \in {"not", "and", "or"}, j \in 1 .. n + 1 : at = <<level, j>>
    OBVIOUS
  <2>2. h[<<level, j>>] = Step(ts, h, <<level, j>>)
    BY <1>9 DEF Step
  <2> QED BY <2>1, <2>2
<1>11. h = [at \in {"not", "and", "or"} \X (1 .. n + 1) |-> Step(ts, h, at)]
  BY <1>7, <1>10
<1> QED BY <1>1, <1>11 DEF Parses, Step

LEMMA ExprReads ==
    ASSUME NEW ts \in Seq(Tokens), NEW i \in 1 .. Len(ts) + 1
    PROVE  ReadsExpr(ts, i, ParseExpr(ts, i))
<1>1. PICK n \in Nat : n = Len(ts)
  OBVIOUS
<1>2. PICK At : At = CHOOSE f : Parses(ts, f)
  OBVIOUS
<1>3. Parses(ts, At)
  BY <1>2, ParsesExist
<1>4. ASSUME NEW j \in 1 .. n + 1 PROVE StepsAt(ts, At, j)
  <2>1. ASSUME NEW level \in {"not", "and", "or"} PROVE At[<<level, j>>] = Step(ts, At, <<level, j>>)
    <3>1. <<level, j>> \in {"not", "and", "or"} \X (1 .. Len(ts) + 1)
      BY <1>1
    <3>2. At = [at \in {"not", "and", "or"} \X (1 .. Len(ts) + 1) |-> Step(ts, At, at)]
      BY <1>3 DEF Parses, Step
    <3> QED BY <3>1, <3>2
  <2> QED BY <2>1 DEF StepsAt, Levels
<1>5. ReadsList(ts, i, At[<<"or", i>>])
  <2>1. 1 \in 1 .. Len(ts) + 1
    BY <1>1
  <2>2. ReadsAt(ts, At, i)
    BY <1>1, <1>4, <2>1, ReadsEverywhere
  <2> QED BY <2>2 DEF ReadsAt
<1>6. PICK p : p = At[<<"or", i>>]
  OBVIOUS
<1>7. ParseExpr(ts, i) = IF Failed(p) THEN p ELSE Got(Several("or", p.what), p.next)
  BY <1>2, <1>6 DEF ParseExpr, Parses, Then
<1>8. CASE Fails(p)
  BY <1>7, <1>8, FailsFailed DEF ReadsExpr
<1>9. CASE ~Fails(p)
  <2>1. p.next \in i + 1 .. n + 1 /\ IsList(p.what) /\ ~Failed(p)
    BY <1>1, <1>5, <1>6, <1>9 DEF ReadsList, Failed
  <2>2. IsExpr(Several("or", p.what))
    BY <2>1, SeveralIsExpr DEF Connectives
  <2> QED BY <1>1, <1>7, <2>1, <2>2 DEF ReadsExpr, Got
<1> QED BY <1>8, <1>9

\* A request has all its fields, and its expression, if it has one, is one.
RequestFields == {"mode", "preset", "expr", "limit", "offset", "sort", "explain", "expand", "depth", "path"}
IsRequest(r) ==
    /\ r = [x \in RequestFields |-> r[x]]
    /\ r.expr # NoExpr => IsExpr(r.expr)
ReadsRequest(p) == Failed(p) \/ (p.next \in Nat /\ IsRequest(p.what))

LEMMA RequestChanged ==
    ASSUME NEW r, IsRequest(r), NEW set \in RequestFields \ {"expr"}, NEW value
    PROVE  IsRequest([r EXCEPT ![set] = value])
<1>1. PICK s : s = [r EXCEPT ![set] = value]
  OBVIOUS
<1>2. \A x \in RequestFields : s[x] = IF x = set THEN value ELSE r[x]
  BY <1>1 DEF IsRequest
<1>3. s = [x \in RequestFields |-> s[x]]
  BY <1>1, <1>2 DEF IsRequest
<1>4. s.expr = r.expr
  BY <1>2 DEF RequestFields
<1> QED BY <1>1, <1>3, <1>4 DEF IsRequest

LEMMA ExprSet ==
    ASSUME NEW r, IsRequest(r), NEW expr, expr # NoExpr => IsExpr(expr)
    PROVE  IsRequest([r EXCEPT !.expr = expr])
<1>1. PICK s : s = [r EXCEPT !.expr = expr]
  OBVIOUS
<1>2. \A x \in RequestFields : s[x] = IF x = "expr" THEN expr ELSE r[x]
  BY <1>1 DEF IsRequest
<1>3. s = [x \in RequestFields |-> s[x]]
  BY <1>1, <1>2 DEF IsRequest
<1>4. s.expr = expr
  BY <1>2 DEF RequestFields
<1> QED BY <1>1, <1>3, <1>4 DEF IsRequest

LEMMA BlankIsRequest == IsRequest(Blank)
<1>1. Blank.expr = NoExpr
  BY DEF Blank
<1>2. Blank = [x \in RequestFields |-> Blank[x]]
  BY DEF Blank, RequestFields
<1> QED BY <1>1, <1>2 DEF IsRequest

LEMMA DirectiveReads ==
    ASSUME NEW ts \in Seq(Tokens), NEW i \in Nat, NEW r, IsRequest(r)
    PROVE  ReadsRequest(Directive(ts, r, i))
<1>1. ReadsRequest(Wrong) /\ ReadsRequest(Ended)
  BY DEF ReadsRequest, Wrong, Ended, Got, Failed
<1>2. ASSUME NEW set \in RequestFields \ {"expr"}, NEW value, NEW next \in Nat
      PROVE  ReadsRequest(Got([r EXCEPT ![set] = value], next))
  BY RequestChanged DEF ReadsRequest, Got
<1>3. PICK t : t = Text(ts, i + 1)
  OBVIOUS
<1>4. PICK u : u = Text(ts, i + 2)
  OBVIOUS
<1>5. (Fails(t) \/ t.next \in Nat) /\ (Fails(u) \/ u.next \in Nat)
  <2>1. i + 1 \in Nat /\ i + 2 \in Nat
    OBVIOUS
  <2> QED BY <1>3, <1>4, <2>1, TextReads
<1>6. (Failed(t) => ReadsRequest(t)) /\ (Failed(u) => ReadsRequest(u))
  BY DEF ReadsRequest
<1>7. (~Failed(t) => t.next \in Nat) /\ (~Failed(u) => u.next \in Nat)
  BY <1>5, FailsFailed
<1>8. CASE \E name \in DOMAIN Settings : Keyword(ts, i, name)
  <2>1. PICK name \in DOMAIN Settings : name = CHOOSE n \in DOMAIN Settings : Keyword(ts, i, n)
    BY <1>8
  <2>2. Directive(ts, r, i) = IF Failed(t) THEN t
                              ELSE IF t.what \notin DOMAIN Number THEN Wrong
                              ELSE Got([r EXCEPT ![Settings[name]] = Number[t.what]], t.next)
    BY <1>3, <1>8, <2>1 DEF Directive, Then
  <2>3. Settings[name] \in RequestFields \ {"expr"}
    <3>1. name \in {"LIMIT", "OFFSET", "EXPAND", "DEPTH"}
      BY <2>1 DEF Settings
    <3>2. Settings[name] \in {"limit", "offset", "expand", "depth"}
      BY <3>1 DEF Settings
    <3> QED BY <3>2 DEF RequestFields
  <2>4. ~Failed(t) => ReadsRequest(Got([r EXCEPT ![Settings[name]] = Number[t.what]], t.next))
    BY <1>2, <1>7, <2>3
  <2> QED BY <1>1, <1>6, <2>2, <2>4
<1>9. CASE ~(\E name \in DOMAIN Settings : Keyword(ts, i, name)) /\ Keyword(ts, i, "EXPLAIN")
  <2>1. Directive(ts, r, i) = Got([r EXCEPT !.explain = TRUE], i + 1)
    BY <1>9 DEF Directive
  <2>2. "explain" \in RequestFields \ {"expr"} /\ i + 1 \in Nat
    BY DEF RequestFields
  <2> QED BY <1>2, <2>1, <2>2
<1>10. CASE ~(\E name \in DOMAIN Settings : Keyword(ts, i, name)) /\ ~Keyword(ts, i, "EXPLAIN") /\ Keyword(ts, i, "ORDER")
  <2>1. PICK turned : turned = (Keyword(ts, i + 3, "ASC") \/ Keyword(ts, i + 3, "DESC"))
    OBVIOUS
  <2>2. PICK sort : sort = <<u.what[1], IF Keyword(ts, i + 3, "ASC") THEN "asc" ELSE "desc">>
    OBVIOUS
  <2>3. Directive(ts, r, i) = IF Failed(t) THEN t
                              ELSE IF t.what # <<"BY">> THEN Wrong
                              ELSE IF Failed(u) THEN u
                              ELSE IF Len(u.what) # 1 \/ u.what[1] \notin SortFields THEN Wrong
                              ELSE Got([r EXCEPT !.sort = sort], IF turned THEN i + 4 ELSE i + 3)
    BY <1>3, <1>4, <1>10, <2>1, <2>2 DEF Directive, Then
  <2>4. "sort" \in RequestFields \ {"expr"} /\ i + 4 \in Nat /\ i + 3 \in Nat
    BY DEF RequestFields
  <2>5. ReadsRequest(Got([r EXCEPT !.sort = sort], IF turned THEN i + 4 ELSE i + 3))
    BY <1>2, <2>4
  <2> QED BY <1>1, <1>6, <2>3, <2>5
<1>11. CASE ~(\E name \in DOMAIN Settings : Keyword(ts, i, name)) /\ ~Keyword(ts, i, "EXPLAIN") /\ ~Keyword(ts, i, "ORDER")
  BY <1>1, <1>11 DEF Directive
<1> QED BY <1>8, <1>9, <1>10, <1>11

\* The rounds of the loop over the directives.
Round(ts, q) == IF Failed(q) \/ q.next > Len(ts) THEN q ELSE Directive(ts, q.what, q.next)
Rounds(ts, p, n, f) == f = [k \in 0 .. n |-> IF k = 0 THEN p ELSE Round(ts, f[k - 1])]

LEMMA RoundsExist ==
    ASSUME NEW ts, NEW p, NEW n \in Nat
    PROVE  \E f : Rounds(ts, p, n, f)
<1>1. PICK Q : Q = {m \in Nat : \E f : Rounds(ts, p, m, f)}
  OBVIOUS
<1>2. 0 \in Q
  <2>1. PICK f : f = [k \in 0 .. 0 |-> p]
    OBVIOUS
  <2>2. f = [k \in 0 .. 0 |-> IF k = 0 THEN p ELSE Round(ts, f[k - 1])]
    BY <2>1
  <2> QED BY <1>1, <2>2 DEF Rounds
<1>3. ASSUME NEW m \in Nat, m \in Q PROVE m + 1 \in Q
  <2> SUFFICES \E h : Rounds(ts, p, m + 1, h)
    BY <1>1
  <2>1. PICK f : f = [k \in 0 .. m |-> IF k = 0 THEN p ELSE Round(ts, f[k - 1])]
    BY <1>1, <1>3 DEF Rounds
  <2>2. PICK last : last = Round(ts, f[m])
    OBVIOUS
  <2>3. PICK h : h = [k \in 0 .. m + 1 |-> IF k = m + 1 THEN last ELSE f[k]]
    OBVIOUS
  <2>4. \A k \in 0 .. m : h[k] = f[k]
    BY <2>3
  <2>5. ASSUME NEW k \in 0 .. m + 1 PROVE h[k] = IF k = 0 THEN p ELSE Round(ts, h[k - 1])
    <3>1. CASE k = m + 1
      <4>1. h[k] = last /\ k # 0 /\ k - 1 = m /\ m \in 0 .. m
        BY <2>3, <3>1
      <4> QED BY <2>2, <2>4, <4>1
    <3>2. CASE k # m + 1
      <4>1. k \in 0 .. m /\ (k # 0 => k - 1 \in 0 .. m)
        BY <3>2
      <4> QED BY <2>1, <2>4, <4>1
    <3> QED BY <3>1, <3>2
  <2>6. h = [k \in 0 .. m + 1 |-> IF k = 0 THEN p ELSE Round(ts, h[k - 1])]
    BY <2>3, <2>5
  <2>7. Rounds(ts, p, m + 1, h)
    BY <2>6 DEF Rounds
  <2> QED BY <2>7
<1>4. n \in Q
  BY <1>2, <1>3, CountUp
<1> QED BY <1>1, <1>4

LEMMA DirectivesRead ==
    ASSUME NEW ts \in Seq(Tokens), NEW p, ReadsRequest(p)
    PROVE  ReadsRequest(ParseDirectives(ts, p))
<1>1. PICK n \in Nat : n = Len(ts)
  OBVIOUS
<1>2. PICK f : f = CHOOSE g : Rounds(ts, p, n, g)
  OBVIOUS
<1>3. f = [k \in 0 .. n |-> IF k = 0 THEN p ELSE Round(ts, f[k - 1])]
  BY <1>2, RoundsExist DEF Rounds
<1>4. PICK Q : Q = {k \in Nat : k <= n => ReadsRequest(f[k])}
  OBVIOUS
<1>5. 0 \in Q
  BY <1>3, <1>4
<1>6. ASSUME NEW k \in Nat, k \in Q PROVE k + 1 \in Q
  <2>1. SUFFICES ASSUME k + 1 <= n PROVE ReadsRequest(f[k + 1])
    BY <1>4
  <2>2. ReadsRequest(f[k])
    BY <1>4, <1>6, <2>1
  <2>3. f[k + 1] = Round(ts, f[k])
    <3>1. k + 1 \in 0 .. n /\ k + 1 # 0 /\ (k + 1) - 1 = k
      BY <2>1
    <3> QED BY <1>3, <3>1
  <2>4. PICK q : q = f[k]
    OBVIOUS
  <2>5. CASE Failed(q) \/ q.next > Len(ts)
    BY <2>2, <2>3, <2>4, <2>5 DEF Round
  <2>6. CASE ~(Failed(q) \/ q.next > Len(ts))
    <3>1. q.next \in Nat /\ IsRequest(q.what)
      BY <2>2, <2>4, <2>6 DEF ReadsRequest
    <3>2. ReadsRequest(Directive(ts, q.what, q.next))
      BY <3>1, DirectiveReads
    <3> QED BY <2>3, <2>4, <2>6, <3>2 DEF Round
  <2> QED BY <2>5, <2>6
<1>7. ReadsRequest(f[n])
  <2>1. \A k \in Nat : k \in Q
    BY <1>5, <1>6, CountUp
  <2>2. n \in Q /\ n <= n
    BY <2>1
  <2> QED BY <1>4, <2>2
<1>8. ParseDirectives(ts, p) = f[n]
  BY <1>1, <1>2 DEF ParseDirectives, Rounds, Round
<1> QED BY <1>7, <1>8

LEMMA PathReads ==
    ASSUME NEW ts \in Seq(Tokens), NEW i \in Nat, NEW explain
    PROVE  ReadsRequest(ParsePath(ts, i, explain))
<1>1. PICK from : from = Text(ts, i)
  OBVIOUS
<1>2. PICK arrow : arrow = Text(ts, i + 1)
  OBVIOUS
<1>3. PICK to : to = Text(ts, i + 2)
  OBVIOUS
<1>4. PICK r : r = [Blank EXCEPT !.mode = "path", !.explain = explain, !.depth = 0,
                                 !.path = <<from.what, to.what>>]
  OBVIOUS
<1>5. IsRequest(r)
  <2>1. r.expr = NoExpr
    BY <1>4 DEF Blank
  <2>2. r = [x \in RequestFields |-> r[x]]
    BY <1>4 DEF Blank, RequestFields
  <2> QED BY <2>1, <2>2 DEF IsRequest
<1>6. ParsePath(ts, i, explain) = IF Failed(from) THEN from ELSE IF Failed(arrow) THEN arrow
                                  ELSE IF arrow.what # <<"-", ">">> THEN Wrong
                                  ELSE IF Failed(to) THEN to ELSE Got(r, to.next)
  BY <1>1, <1>2, <1>3, <1>4 DEF ParsePath, Then
<1>7. Failed(to) \/ to.next \in Nat
  <2>1. i + 2 \in Nat
    OBVIOUS
  <2> QED BY <1>3, <2>1, TextReads, FailsFailed
<1>8. ~Failed(to) => ReadsRequest(Got(r, to.next))
  BY <1>5, <1>7 DEF ReadsRequest, Got
<1>9. ReadsRequest(Wrong)
  BY DEF ReadsRequest, Wrong, Got, Failed
<1> QED BY <1>6, <1>8, <1>9 DEF ReadsRequest

LEMMA FilterReads ==
    ASSUME NEW ts \in Seq(Tokens), NEW i \in Nat \ {0}, NEW explain
    PROVE  ReadsRequest(ParseFilter(ts, i, explain))
<1>1. PICK near : near = Keyword(ts, i, "NEIGHBORS")
  OBVIOUS
<1>2. PICK j \in Nat \ {0} : j = IF near THEN i + 1 ELSE i
  OBVIOUS
<1>3. PICK preset : preset = IsPreset(ts, j)
  OBVIOUS
<1>4. PICK k \in Nat \ {0} : k = IF preset THEN j + 1 ELSE j
  OBVIOUS
<1>5. PICK start : start = [Blank EXCEPT !.mode = IF near THEN "neighbors" ELSE "filter", !.explain = explain,
                               !.preset = IF preset THEN Presets[ts[j].text[1]] ELSE None]
  OBVIOUS
<1>6. IsRequest(start)
  <2>1. start.expr = NoExpr
    BY <1>5 DEF Blank
  <2>2. start = [x \in RequestFields |-> start[x]]
    BY <1>5 DEF Blank, RequestFields
  <2> QED BY <2>1, <2>2 DEF IsRequest
<1>7. PICK bare \in BOOLEAN : bare <=> (k > Len(ts) \/ (ts[k].kind = "word" /\ ts[k].text \in DirectiveWords))
  OBVIOUS
<1>8. PICK p : p = IF bare THEN Got(NoExpr, k) ELSE ParseExpr(ts, k)
  OBVIOUS
<1>9. PICK q : q = Got([start EXCEPT !.expr = p.what], p.next)
  OBVIOUS
<1>10. ParseFilter(ts, i, explain) = IF Failed(p) THEN p ELSE ParseDirectives(ts, q)
  BY <1>1, <1>2, <1>3, <1>4, <1>5, <1>7, <1>8, <1>9 DEF ParseFilter, Then
<1>11. Failed(p) \/ (p.next \in Nat /\ (p.what # NoExpr => IsExpr(p.what)))
  <2>1. CASE bare
    BY <1>8, <2>1 DEF Got
  <2>2. CASE ~bare
    <3>1. k \in 1 .. Len(ts) + 1
      <4>1. Len(ts) \in Nat /\ ~(k > Len(ts))
        BY <1>7, <2>2
      <4> QED BY <4>1
    <3>2. ReadsExpr(ts, k, p)
      BY <1>8, <2>2, <3>1, ExprReads
    <3> QED BY <1>4, <3>2, FailsFailed DEF ReadsExpr
  <2> QED BY <2>1, <2>2
<1>12. CASE Failed(p)
  BY <1>10, <1>12 DEF ReadsRequest
<1>13. CASE ~Failed(p)
  <2>1. IsRequest([start EXCEPT !.expr = p.what])
    BY <1>6, <1>11, <1>13, ExprSet
  <2>2. ReadsRequest(q)
    BY <1>9, <1>11, <1>13, <2>1 DEF ReadsRequest, Got
  <2>3. ReadsRequest(ParseDirectives(ts, q))
    BY <2>2, DirectivesRead
  <2> QED BY <1>10, <1>13, <2>3
<1> QED BY <1>12, <1>13

\* What parse_query reads is a request with a whole expression.
LEMMA ParseReads ==
    ASSUME NEW ts \in Seq(Tokens), ~Failed(Parse(ts))
    PROVE  IsRequest(Parse(ts).what)
<1>1. PICK explain : explain = Keyword(ts, 1, "EXPLAIN")
  OBVIOUS
<1>2. PICK i \in Nat \ {0} : i = IF explain THEN 2 ELSE 1
  OBVIOUS
<1>3. CASE ts = <<>>
  BY <1>3 DEF Parse, Ended, Got, Failed
<1>4. CASE ts # <<>> /\ Keyword(ts, i, "PATH")
  <2>1. Parse(ts) = ParsePath(ts, i + 1, explain)
    BY <1>1, <1>2, <1>4 DEF Parse
  <2>2. i + 1 \in Nat
    OBVIOUS
  <2> QED BY <2>1, <2>2, PathReads DEF ReadsRequest
<1>5. CASE ts # <<>> /\ ~Keyword(ts, i, "PATH")
  <2>1. Parse(ts) = ParseFilter(ts, i, explain)
    BY <1>1, <1>2, <1>5 DEF Parse
  <2> QED BY <2>1, FilterReads DEF ReadsRequest
<1> QED BY <1>3, <1>4, <1>5

(***************************************************************************)
(* What expressions mean                                                   *)
(***************************************************************************)
LEMMA FirstOfNumbers ==
    ASSUME NEW S \in SUBSET Nat, S # {}
    PROVE  FirstOf(S) \in S
  BY Least DEF FirstOf

\* What matches_expr may come to, and how AND and OR get there.
Ternary == {"yes", "no", "fails"}

LEMMA UntilTells ==
    ASSUME NEW verdict \in Ternary, NEW items \in Seq(Ternary)
    PROVE  /\ Until(verdict, items) \in Ternary
           /\ Until(verdict, items) = verdict => \A i \in DOMAIN items : items[i] = verdict
           /\ Until(verdict, items) # verdict => \E i \in DOMAIN items : items[i] = Until(verdict, items)
<1>1. PICK others : others = {i \in DOMAIN items : items[i] # verdict}
  OBVIOUS
<1>2. others \in SUBSET Nat
  BY <1>1
<1>3. CASE others = {}
  BY <1>1, <1>3 DEF Until
<1>4. CASE others # {}
  <2>1. PICK i \in others : i = FirstOf(others)
    BY <1>2, <1>4, FirstOfNumbers
  <2>2. Until(verdict, items) = items[i]
    BY <1>1, <1>4, <2>1 DEF Until
  <2>3. i \in DOMAIN items /\ items[i] # verdict /\ items[i] \in Ternary
    BY <1>1, <2>1
  <2> QED BY <2>2, <2>3
<1> QED BY <1>3, <1>4

\* The items of a node are before it, and a node that is no clause has a first one.
LEMMA ItemsTell ==
    ASSUME NEW e, IsExpr(e), NEW k \in 1 .. Len(e), NEW f
    PROVE  /\ DOMAIN Items(f, e, k) = DOMAIN e[k].back
           /\ \A i \in DOMAIN e[k].back :
                 k - e[k].back[i] \in 1 .. k - 1 /\ Items(f, e, k)[i] = f[k - e[k].back[i]]
           /\ e[k].op \in {"clause"} \cup Connectives
           /\ e[k].op # "clause" => 1 \in DOMAIN e[k].back
<1>1. e[k].op \in {"clause"} \cup Connectives
  BY DEF IsExpr, IsNode
<1>2. ASSUME e[k].op # "clause" PROVE 1 \in DOMAIN e[k].back
  <2>1. e[k].back \in Seq(1 .. k - 1) /\ Len(e[k].back) >= 1
    BY <1>2 DEF IsExpr, IsNode, Reaches
  <2> QED BY <2>1
<1> QED BY <1>1, <1>2, ItemsBefore DEF Items

LEMMA ItemsAreList ==
    ASSUME NEW e, IsExpr(e), NEW m \in Nat, m <= Len(e), NEW V, NEW f \in [1 .. m -> V], NEW k \in 1 .. m
    PROVE  Items(f, e, k) \in Seq(V)
<1>1. k \in 1 .. Len(e)
  BY ExprDomain
<1>2. PICK size \in Nat : DOMAIN e[k].back = 1 .. size
  <2>1. IsNode(e[k], k - 1)
    BY <1>1 DEF IsExpr
  <2>2. CASE e[k].back = <<>>
    <3>1. DOMAIN e[k].back = 1 .. 0
      BY <2>2
    <3> QED BY <3>1
  <2>3. CASE e[k].back # <<>>
    <3>1. e[k].back \in Seq(1 .. k - 1)
      BY <2>1, <2>3 DEF IsNode, Reaches
    <3> QED BY <3>1
  <2> QED BY <2>2, <2>3
<1>3. ASSUME NEW i \in 1 .. size PROVE f[k - e[k].back[i]] \in V
  <2>1. PICK j \in 1 .. k - 1 : j = k - e[k].back[i]
    BY <1>1, <1>2, ItemsBefore
  <2> QED BY <2>1
<1> QED BY <1>2, <1>3 DEF Items

VerdictsAre(g, n, e, f) == f = [k \in DOMAIN e |-> Verdict(g, n, e[k], Items(f, e, k))]

LEMMA VerdictTernary ==
    ASSUME NEW g, NEW n, NEW node, node.op \in {"clause"} \cup Connectives, NEW items \in Seq(Ternary),
           node.op # "clause" => 1 \in DOMAIN items
    PROVE  Verdict(g, n, node, items) \in Ternary
<1>1. CASE node.op = "clause"
  BY <1>1 DEF Verdict, EvalClause, Ternary
<1>2. CASE node.op \in {"and", "or"}
  BY <1>2, UntilTells DEF Verdict, Ternary
<1>3. CASE node.op = "not"
  <2>1. items[1] \in Ternary
    BY <1>3
  <2> QED BY <1>3, <2>1 DEF Verdict, Ternary
<1> QED BY <1>1, <1>2, <1>3 DEF Connectives

LEMMA VerdictsExist ==
    ASSUME NEW g, NEW n, NEW e, IsExpr(e)
    PROVE  /\ Verdicts(g, n, e) \in [1 .. Len(e) -> Ternary]
           /\ \A k \in 1 .. Len(e) : Verdicts(g, n, e)[k] = Verdict(g, n, e[k], Items(Verdicts(g, n, e), e, k))
<1>1. PICK m \in Nat : m = Len(e) /\ DOMAIN e = 1 .. m
  BY ExprDomain
<1>2. PICK step : step = [at \in (1 .. m) \X Seq(Ternary) |->
                            IF e[at[1]].op # "clause" => 1 \in DOMAIN at[2] THEN Verdict(g, n, e[at[1]], at[2]) ELSE "no"]
  OBVIOUS
<1>3. step \in [(1 .. Len(e)) \X Seq(Ternary) -> Ternary]
  <2>1. ASSUME NEW k \in 1 .. m, NEW items \in Seq(Ternary), e[k].op # "clause" => 1 \in DOMAIN items
        PROVE  Verdict(g, n, e[k], items) \in Ternary
    BY <1>1, <2>1, ItemsTell, VerdictTernary
  <2>2. "no" \in Ternary
    BY DEF Ternary
  <2> QED BY <1>1, <1>2, <2>1, <2>2
<1>4. PICK f \in [1 .. m -> Ternary] : Folds(e, m, step, f)
  BY <1>1, <1>3, FoldsExist
<1>5. ASSUME NEW h \in [1 .. m -> Ternary], NEW k \in 1 .. m
      PROVE  step[<<k, Items(h, e, k)>>] = Verdict(g, n, e[k], Items(h, e, k))
  <2>1. Items(h, e, k) \in Seq(Ternary)
    <3>1. m <= Len(e)
      BY <1>1
    <3> QED BY <3>1, ItemsAreList
  <2>2. e[k].op # "clause" => 1 \in DOMAIN Items(h, e, k)
    BY <1>1, ItemsTell
  <2> QED BY <1>2, <2>1, <2>2
<1>6. VerdictsAre(g, n, e, f)
  BY <1>1, <1>4, <1>5 DEF Folds, VerdictsAre
<1>7. PICK v : v = CHOOSE h : VerdictsAre(g, n, e, h)
  OBVIOUS
<1>8. v = [k \in 1 .. m |-> Verdict(g, n, e[k], Items(v, e, k))]
  BY <1>1, <1>6, <1>7 DEF VerdictsAre
<1>9. \A k \in 1 .. m : v[k] \in Ternary
  <2>1. PICK Q : Q = {k \in 1 .. m : v[k] \in Ternary}
    OBVIOUS
  <2>2. ASSUME NEW k \in 1 .. m, \A j \in 1 .. k - 1 : j \in Q PROVE k \in Q
    <3>1. PICK w : w = [j \in 1 .. m |-> IF j < k THEN v[j] ELSE "no"]
      OBVIOUS
    <3>2. w \in [1 .. m -> Ternary]
      BY <2>1, <2>2, <3>1 DEF Ternary
    <3>3. Items(w, e, k) = Items(v, e, k)
      <4>1. ASSUME NEW i \in DOMAIN e[k].back PROVE w[k - e[k].back[i]] = v[k - e[k].back[i]]
        <5>1. PICK j \in 1 .. k - 1 : j = k - e[k].back[i]
          BY <1>1, ItemsBefore
        <5> QED BY <3>1, <5>1
      <4> QED BY <4>1 DEF Items
    <3>4. v[k] = step[<<k, Items(w, e, k)>>]
      BY <1>5, <1>8, <3>2, <3>3
    <3>5. Items(w, e, k) \in Seq(Ternary)
      BY <1>1, <3>2, ItemsAreList
    <3> QED BY <1>1, <1>3, <2>1, <3>4, <3>5
  <2>3. \A k \in 1 .. m : k \in Q
    BY <2>2, OneAfterTheOther
  <2> QED BY <2>1, <2>3
<1>10. Verdicts(g, n, e) = v
  BY <1>7 DEF Verdicts, VerdictsAre
<1> QED BY <1>1, <1>8, <1>9, <1>10

\* A verdict, or an explanation, fails only where a clause does.
SomeClauseFails(n, e) == \E c \in Clauses(e) : ClauseFails(n, c)

LEMMA VerdictFails ==
    ASSUME NEW g, NEW n, NEW e, IsExpr(e), NEW k \in 1 .. Len(e), Verdicts(g, n, e)[k] = "fails"
    PROVE  SomeClauseFails(n, e)
<1>1. PICK v : v = Verdicts(g, n, e)
  OBVIOUS
<1>2. PICK m \in Nat : m = Len(e) /\ DOMAIN e = 1 .. m
  BY ExprDomain
<1>3. v \in [1 .. m -> Ternary] /\ \A j \in 1 .. m : v[j] = Verdict(g, n, e[j], Items(v, e, j))
  BY <1>1, <1>2, VerdictsExist
<1>4. PICK Q : Q = {j \in 1 .. m : v[j] = "fails" => SomeClauseFails(n, e)}
  OBVIOUS
<1>5. ASSUME NEW j \in 1 .. m, \A i \in 1 .. j - 1 : i \in Q PROVE j \in Q
  <2>1. SUFFICES ASSUME Verdict(g, n, e[j], Items(v, e, j)) = "fails" PROVE SomeClauseFails(n, e)
    BY <1>3, <1>4
  <2>2. PICK items \in Seq(Ternary) : items = Items(v, e, j)
    BY <1>2, <1>3, ItemsAreList
  <2>3. \A i \in DOMAIN items : items[i] = "fails" => SomeClauseFails(n, e)
    <3>1. ASSUME NEW i \in DOMAIN items, items[i] = "fails" PROVE SomeClauseFails(n, e)
      <4>1. PICK h \in 1 .. j - 1 : h = j - e[j].back[i] /\ items[i] = v[h]
        BY <1>2, <2>2, ItemsTell
      <4> QED BY <1>4, <1>5, <3>1, <4>1
    <3> QED BY <3>1
  <2>4. e[j].op \in {"clause"} \cup Connectives /\ (e[j].op # "clause" => 1 \in DOMAIN items)
    BY <1>2, <2>2, ItemsTell
  <2>5. CASE e[j].op = "clause"
    <3>1. ClauseFails(n, e[j])
      BY <2>1, <2>5 DEF Verdict, EvalClause
    <3>2. e[j] \in Clauses(e)
      BY <1>2, <2>5 DEF Clauses
    <3> QED BY <3>1, <3>2 DEF SomeClauseFails
  <2>6. CASE e[j].op \in {"and", "or"}
    <3>1. PICK verdict \in Ternary : verdict # "fails" /\ Until(verdict, items) = "fails"
      BY <2>1, <2>2, <2>6 DEF Verdict, Ternary
    <3>2. \E i \in DOMAIN items : items[i] = "fails"
      BY <3>1, UntilTells
    <3> QED BY <2>3, <3>2
  <2>7. CASE e[j].op = "not"
    <3>1. items[1] \in Ternary /\ 1 \in DOMAIN items
      BY <2>4, <2>7
    <3>2. items[1] = "fails"
      BY <2>1, <2>2, <2>7, <3>1 DEF Verdict, Ternary
    <3> QED BY <2>3, <3>1, <3>2
  <2> QED BY <2>4, <2>5, <2>6, <2>7 DEF Connectives
<1>6. k \in Q
  BY <1>2, <1>5, OneAfterTheOther
<1> QED BY <1>1, <1>4, <1>6

ExplainsAre(g, n, e, f) ==
    f = [k \in DOMAIN e |-> IF e[k].op \in {"and", "or"} THEN \E i \in DOMAIN e[k].back : Items(f, e, k)[i]
                            ELSE Verdicts(g, n, e)[k] = "fails"]

LEMMA ExplainsExist ==
    ASSUME NEW g, NEW n, NEW e, IsExpr(e)
    PROVE  \E f : ExplainsAre(g, n, e, f)
<1>1. PICK m \in Nat : m = Len(e) /\ DOMAIN e = 1 .. m
  BY ExprDomain
<1>2. PICK step : step = [at \in (1 .. m) \X Seq(BOOLEAN) |->
                            IF e[at[1]].op \in {"and", "or"} THEN \E i \in DOMAIN at[2] : at[2][i]
                            ELSE Verdicts(g, n, e)[at[1]] = "fails"]
  OBVIOUS
<1>3. step \in [(1 .. Len(e)) \X Seq(BOOLEAN) -> BOOLEAN]
  BY <1>1, <1>2
<1>4. PICK f \in [1 .. m -> BOOLEAN] : Folds(e, m, step, f)
  BY <1>1, <1>3, FoldsExist
<1>5. ASSUME NEW k \in 1 .. m
      PROVE  step[<<k, Items(f, e, k)>>] = IF e[k].op \in {"and", "or"} THEN \E i \in DOMAIN e[k].back : Items(f, e, k)[i]
                                           ELSE Verdicts(g, n, e)[k] = "fails"
  <2>1. Items(f, e, k) \in Seq(BOOLEAN)
    <3>1. m <= Len(e)
      BY <1>1
    <3> QED BY <3>1, ItemsAreList
  <2>2. DOMAIN Items(f, e, k) = DOMAIN e[k].back
    BY <1>1, ItemsTell
  <2> QED BY <1>2, <2>1, <2>2
<1>6. f = [k \in 1 .. m |-> step[<<k, Items(f, e, k)>>]]
  BY <1>4 DEF Folds
<1>7. f = [k \in 1 .. m |-> IF e[k].op \in {"and", "or"} THEN \E i \in DOMAIN e[k].back : Items(f, e, k)[i]
                            ELSE Verdicts(g, n, e)[k] = "fails"]
  BY <1>5, <1>6, Zenon
<1> QED BY <1>1, <1>7, Zenon DEF ExplainsAre

LEMMA ExplainFailsTells ==
    ASSUME NEW g, NEW n, NEW e, IsExpr(e), ExplainFails(g, n, e)
    PROVE  SomeClauseFails(n, e)
<1>1. PICK m \in Nat : m = Len(e) /\ DOMAIN e = 1 .. m /\ m \in 1 .. m
  BY ExprDomain
<1>2. PICK f : f = CHOOSE h : ExplainsAre(g, n, e, h)
  OBVIOUS
<1>3. ExplainsAre(g, n, e, f)
  BY <1>2, ExplainsExist
<1>4. f[m]
  BY <1>1, <1>2 DEF ExplainFails, ExplainsAre
<1>5. PICK Q : Q = {j \in 1 .. m : f[j] => SomeClauseFails(n, e)}
  OBVIOUS
<1>6. ASSUME NEW j \in 1 .. m, \A i \in 1 .. j - 1 : i \in Q PROVE j \in Q
  <2>1. SUFFICES ASSUME f[j] PROVE SomeClauseFails(n, e)
    BY <1>5
  <2>2. CASE e[j].op \in {"and", "or"}
    <3>1. PICK i \in DOMAIN e[j].back : Items(f, e, j)[i]
      BY <1>1, <1>3, <2>1, <2>2 DEF ExplainsAre
    <3>2. PICK h \in 1 .. j - 1 : f[h]
      BY <1>1, <3>1, ItemsTell
    <3> QED BY <1>5, <1>6, <3>2
  <2>3. CASE e[j].op \notin {"and", "or"}
    <3>1. Verdicts(g, n, e)[j] = "fails"
      BY <1>1, <1>3, <2>1, <2>3 DEF ExplainsAre
    <3> QED BY <1>1, <3>1, VerdictFails
  <2> QED BY <2>2, <2>3
<1>7. m \in Q
  BY <1>1, <1>6, OneAfterTheOther
<1> QED BY <1>4, <1>5, <1>7

TruthsAre(g, e, f) == f = [k \in DOMAIN e |-> TruthAt(g, e[k], Items(f, e, k))]

LEMMA TruthsAmongNodes ==
    ASSUME NEW g, NEW e, IsExpr(e), NEW k \in 1 .. Len(e), NEW items
    PROVE  /\ TruthAt(g, e[k], items) \in [sure : SUBSET g.nodes, maybe : SUBSET g.nodes]
           /\ \A bound \in {"sure", "maybe"} : TruthAt(g, e[k], items)[bound] \subseteq g.nodes
<1>1. \A sure, maybe \in SUBSET g.nodes :
         Bounds(sure, maybe) \in [sure : SUBSET g.nodes, maybe : SUBSET g.nodes]
  BY DEF Bounds
<1>2. e[k].op \in {"clause", "not", "and", "or"}
  BY DEF IsExpr, IsNode, Connectives
<1>3. TruthAt(g, e[k], items) \in [sure : SUBSET g.nodes, maybe : SUBSET g.nodes]
  <2>1. CASE e[k].op = "clause"
    BY <1>1, <2>1 DEF TruthAt
  <2>2. CASE e[k].op = "and"
    BY <1>1, <2>2 DEF TruthAt
  <2>3. CASE e[k].op = "or"
    BY <1>1, <2>3 DEF TruthAt
  <2>4. CASE e[k].op = "not"
    BY <1>1, <2>4 DEF TruthAt
  <2> QED BY <1>2, <2>1, <2>2, <2>3, <2>4
<1> QED BY <1>3

LEMMA TruthsExist ==
    ASSUME NEW g, NEW e, IsExpr(e)
    PROVE  \E f : TruthsAre(g, e, f)
<1>1. PICK m \in Nat : m = Len(e) /\ DOMAIN e = 1 .. m
  BY ExprDomain
<1>2. PICK V : V = [sure : SUBSET g.nodes, maybe : SUBSET g.nodes]
  OBVIOUS
<1>3. PICK step : step = [at \in (1 .. m) \X Seq(V) |-> TruthAt(g, e[at[1]], at[2])]
  OBVIOUS
<1>4. ASSUME NEW k \in 1 .. m, NEW items PROVE TruthAt(g, e[k], items) \in V
  BY <1>1, <1>2, TruthsAmongNodes
<1>5. step \in [(1 .. Len(e)) \X Seq(V) -> V]
  BY <1>1, <1>3, <1>4
<1>6. PICK f \in [1 .. m -> V] : Folds(e, m, step, f)
  BY <1>1, <1>5, FoldsExist
<1>7. ASSUME NEW k \in 1 .. m
      PROVE  step[<<k, Items(f, e, k)>>] = TruthAt(g, e[k], Items(f, e, k))
  <2>1. Items(f, e, k) \in Seq(V)
    <3>1. m <= Len(e)
      BY <1>1
    <3> QED BY <3>1, ItemsAreList
  <2> QED BY <1>3, <2>1
<1>8. f = [k \in 1 .. m |-> step[<<k, Items(f, e, k)>>]]
  BY <1>6 DEF Folds
<1>9. f = [k \in 1 .. m |-> TruthAt(g, e[k], Items(f, e, k))]
  BY <1>7, <1>8
<1> QED BY <1>1, <1>9 DEF TruthsAre

\* A verdict at a node that does not fail decides on which side of the bounds it is.
Decides(n, verdict, truth) ==
    /\ verdict = "yes" => \A bound \in {"sure", "maybe"} : n \in truth[bound]
    /\ verdict = "no" => \A bound \in {"sure", "maybe"} : n \notin truth[bound]

LEMMA VerdictDecides ==
    ASSUME NEW g, NEW n \in g.nodes, NEW node, node.op \in {"clause"} \cup Connectives,
           NEW items \in Seq(Ternary), NEW truths, DOMAIN truths = DOMAIN items,
           node.op # "clause" => 1 \in DOMAIN items,
           \A i \in DOMAIN items : Decides(n, items[i], truths[i])
    PROVE  Decides(n, Verdict(g, n, node, items), TruthAt(g, node, truths))
<1>1. CASE node.op = "clause"
  <2>1. PICK fails : fails = {m \in g.nodes : ClauseFails(m, node)}
    OBVIOUS
  <2>2. PICK holds : holds = {m \in g.nodes \ fails : ClauseHolds(g, m, node)}
    OBVIOUS
  <2>3. TruthAt(g, node, truths) = [sure |-> holds, maybe |-> holds \cup fails]
    BY <1>1, <2>1, <2>2 DEF TruthAt, Bounds
  <2>4. Verdict(g, n, node, items) = IF ClauseFails(n, node) THEN "fails" ELSE IF ClauseHolds(g, n, node) THEN "yes" ELSE "no"
    BY <1>1 DEF Verdict, EvalClause
  <2>5. Verdict(g, n, node, items) = "yes" => n \in holds
    BY <2>1, <2>2, <2>4
  <2>6. Verdict(g, n, node, items) = "no" => n \notin holds /\ n \notin fails
    BY <2>1, <2>2, <2>4
  <2> QED BY <2>3, <2>5, <2>6 DEF Decides
<1>2. CASE node.op = "and"
  <2>1. PICK all : all = [bound \in {"sure", "maybe"} |-> {m \in g.nodes : \A i \in DOMAIN truths : m \in truths[i][bound]}]
    OBVIOUS
  <2>2. \A bound \in {"sure", "maybe"} : TruthAt(g, node, truths)[bound] = all[bound]
    BY <1>2, <2>1 DEF TruthAt, Bounds
  <2>3. Verdict(g, n, node, items) = Until("yes", items)
    BY <1>2 DEF Verdict
  <2>4. /\ Until("yes", items) = "yes" => \A i \in DOMAIN items : items[i] = "yes"
        /\ Until("yes", items) = "no" => \E i \in DOMAIN items : items[i] = "no"
    BY UntilTells DEF Ternary
  <2>5. ASSUME NEW bound \in {"sure", "maybe"}
        PROVE  /\ Until("yes", items) = "yes" => n \in all[bound]
               /\ Until("yes", items) = "no" => n \notin all[bound]
    BY <2>1, <2>4 DEF Decides
  <2> QED BY <2>2, <2>3, <2>5 DEF Decides
<1>3. CASE node.op = "or"
  <2>1. PICK some : some = [bound \in {"sure", "maybe"} |-> {m \in g.nodes : \E i \in DOMAIN truths : m \in truths[i][bound]}]
    OBVIOUS
  <2>2. \A bound \in {"sure", "maybe"} : TruthAt(g, node, truths)[bound] = some[bound]
    BY <1>3, <2>1 DEF TruthAt, Bounds
  <2>3. Verdict(g, n, node, items) = Until("no", items)
    BY <1>3 DEF Verdict
  <2>4. /\ Until("no", items) = "no" => \A i \in DOMAIN items : items[i] = "no"
        /\ Until("no", items) = "yes" => \E i \in DOMAIN items : items[i] = "yes"
    BY UntilTells DEF Ternary
  <2>5. ASSUME NEW bound \in {"sure", "maybe"}
        PROVE  /\ Until("no", items) = "yes" => n \in some[bound]
               /\ Until("no", items) = "no" => n \notin some[bound]
    BY <2>1, <2>4 DEF Decides
  <2> QED BY <2>2, <2>3, <2>5 DEF Decides
<1>4. CASE node.op = "not"
  <2>1. 1 \in DOMAIN items /\ items[1] \in Ternary /\ Decides(n, items[1], truths[1])
    BY <1>4
  <2>2. TruthAt(g, node, truths) = [sure |-> g.nodes \ truths[1].maybe, maybe |-> g.nodes \ truths[1].sure]
    BY <1>4 DEF TruthAt, Bounds
  <2>3. Verdict(g, n, node, items) = [yes |-> "no", no |-> "yes", fails |-> "fails"][items[1]]
    BY <1>4 DEF Verdict
  <2>4. CASE items[1] = "yes"
    <3>1. Verdict(g, n, node, items) = "no" /\ n \in truths[1].sure /\ n \in truths[1].maybe
      BY <2>1, <2>3, <2>4 DEF Decides
    <3> QED BY <2>2, <3>1 DEF Decides
  <2>5. CASE items[1] = "no"
    <3>1. Verdict(g, n, node, items) = "yes" /\ n \notin truths[1].sure /\ n \notin truths[1].maybe
      BY <2>1, <2>3, <2>5 DEF Decides
    <3> QED BY <2>2, <3>1 DEF Decides
  <2>6. CASE items[1] = "fails"
    BY <2>3, <2>6 DEF Decides
  <2> QED BY <2>1, <2>4, <2>5, <2>6 DEF Ternary
<1> QED BY <1>1, <1>2, <1>3, <1>4 DEF Connectives

\* What an expression is found to be at a node is what it means there, unless it fails.
LEMMA EvalTells ==
    ASSUME NEW g, NEW n \in g.nodes, NEW e, e # NoExpr => IsExpr(e)
    PROVE  /\ Eval(g, n, e) \in Ternary
           /\ Decides(n, Eval(g, n, e), Truth(g, e))
           /\ Eval(g, n, e) = "fails" => SomeClauseFails(n, e)
<1>1. CASE e = NoExpr
  BY <1>1 DEF Eval, Truth, Bounds, Decides, Ternary
<1>2. CASE e # NoExpr
  <2>1. PICK m \in Nat : m = Len(e) /\ DOMAIN e = 1 .. m /\ m \in 1 .. m
    BY <1>2, ExprDomain
  <2>2. PICK v : v = Verdicts(g, n, e)
    OBVIOUS
  <2>3. v \in [1 .. m -> Ternary] /\ \A j \in 1 .. m : v[j] = Verdict(g, n, e[j], Items(v, e, j))
    BY <1>2, <2>1, <2>2, VerdictsExist
  <2>4. PICK t : t = CHOOSE h : TruthsAre(g, e, h)
    OBVIOUS
  <2>5. t = [j \in 1 .. m |-> TruthAt(g, e[j], Items(t, e, j))]
    <3>1. TruthsAre(g, e, t)
      BY <1>2, <2>4, TruthsExist
    <3> QED BY <2>1, <3>1 DEF TruthsAre
  <2>6. Eval(g, n, e) = v[m] /\ Truth(g, e) = t[m]
    BY <1>2, <2>1, <2>2, <2>4 DEF Eval, Truth, TruthsAre
  <2>7. PICK Q : Q = {j \in 1 .. m : Decides(n, v[j], t[j])}
    OBVIOUS
  <2>8. ASSUME NEW j \in 1 .. m, \A i \in 1 .. j - 1 : i \in Q PROVE j \in Q
    <3>1. PICK items \in Seq(Ternary) : items = Items(v, e, j)
      BY <1>2, <2>1, <2>3, ItemsAreList
    <3>2. PICK truths : truths = Items(t, e, j)
      OBVIOUS
    <3>3. /\ DOMAIN items = DOMAIN e[j].back /\ DOMAIN truths = DOMAIN e[j].back
          /\ e[j].op \in {"clause"} \cup Connectives
          /\ e[j].op # "clause" => 1 \in DOMAIN items
      BY <1>2, <2>1, <3>1, <3>2, ItemsTell
    <3>4. ASSUME NEW i \in DOMAIN items PROVE Decides(n, items[i], truths[i])
      <4>1. PICK h \in 1 .. j - 1 : h = j - e[j].back[i] /\ items[i] = v[h] /\ truths[i] = t[h]
        <5>1. j \in 1 .. Len(e) /\ i \in DOMAIN e[j].back
          BY <2>1, <3>3
        <5>2. /\ j - e[j].back[i] \in 1 .. j - 1
              /\ Items(v, e, j)[i] = v[j - e[j].back[i]] /\ Items(t, e, j)[i] = t[j - e[j].back[i]]
          BY <1>2, <5>1, ItemsTell
        <5> QED BY <3>1, <3>2, <5>2
      <4> QED BY <2>7, <2>8, <4>1
    <3>5. Decides(n, Verdict(g, n, e[j], items), TruthAt(g, e[j], truths))
      BY <3>3, <3>4, VerdictDecides
    <3>6. v[j] = Verdict(g, n, e[j], items) /\ t[j] = TruthAt(g, e[j], truths)
      BY <2>3, <2>5, <3>1, <3>2
    <3> QED BY <2>7, <3>5, <3>6
  <2>9. m \in Q
    BY <2>1, <2>8, OneAfterTheOther
  <2>10. Eval(g, n, e) = "fails" => SomeClauseFails(n, e)
    BY <1>2, <2>1, <2>2, <2>6, VerdictFails
  <2> QED BY <2>3, <2>1, <2>6, <2>7, <2>9, <2>10
<1> QED BY <1>1, <1>2

LEMMA TruthOfNodes ==
    ASSUME NEW g, NEW e, e # NoExpr => IsExpr(e), NEW bound \in {"sure", "maybe"}
    PROVE  Truth(g, e)[bound] \subseteq g.nodes
<1>1. CASE e = NoExpr
  BY <1>1 DEF Truth, Bounds
<1>2. CASE e # NoExpr
  <2>1. PICK m \in Nat : m = Len(e) /\ DOMAIN e = 1 .. m /\ m \in 1 .. m
    BY <1>2, ExprDomain
  <2>2. PICK t : t = CHOOSE h : TruthsAre(g, e, h)
    OBVIOUS
  <2>3. TruthsAre(g, e, t)
    BY <1>2, <2>2, TruthsExist
  <2>4. Truth(g, e) = TruthAt(g, e[m], Items(t, e, m))
    BY <1>2, <2>1, <2>2, <2>3 DEF Truth, TruthsAre
  <2> QED BY <1>2, <2>1, <2>4, TruthsAmongNodes
<1> QED BY <1>1, <1>2

(***************************************************************************)
(* Answers                                                                 *)
(***************************************************************************)
LEMMA SearchAnswered ==
    ASSUME NEW g, NEW r, r.mode # "path"
    PROVE  Answer(g, r) = IF SeedsFail(g, r) THEN Failure ELSE FoundPage(g, r, Reached(g, r, InOrder(Seeds(g, r))))
  BY DEF Answer

LEMMA AnswerFails ==
    ASSUME NEW g, NEW r, r.mode # "path"
    PROVE  Answer(g, r).fails = SeedsFail(g, r)
<1>1. Failure.fails /\ Failure.fails \in BOOLEAN
  BY DEF Failure
<1>2. ASSUME NEW ids PROVE FoundPage(g, r, ids).fails = FALSE
  BY DEF FoundPage, Found
<1>3. SeedsFail(g, r) \in BOOLEAN
  BY DEF SeedsFail
<1>4. CASE SeedsFail(g, r)
  BY <1>1, <1>3, <1>4, SearchAnswered
<1>5. CASE ~SeedsFail(g, r)
  BY <1>2, <1>3, <1>5, SearchAnswered
<1> QED BY <1>4, <1>5

\* Of a search with and without EXPLAIN.
LEMMA ExplainOnly ==
    ASSUME NEW r, IsRequest(r), NEW told
    PROVE  LET s == [r EXCEPT !.explain = told]
           IN  s.explain = told /\ \A x \in RequestFields \ {"explain"} : s[x] = r[x]
  BY DEF IsRequest, RequestFields

\* What is answered is what the expression means, told with its reasons or not.
LEMMA AnswersSound ==
    ASSUME NEW g, NEW r, IsRequest(r), r.mode # "path"
    PROVE  Sound(g, r, Answer(g, [r EXCEPT !.explain = FALSE]), Answer(g, [r EXCEPT !.explain = TRUE]))
<1>1. PICK plain : plain = [r EXCEPT !.explain = FALSE]
  OBVIOUS
<1>2. PICK told : told = [r EXCEPT !.explain = TRUE]
  OBVIOUS
<1>3. \A x \in RequestFields \ {"explain"} : plain[x] = r[x] /\ told[x] = r[x]
  BY <1>1, <1>2, ExplainOnly
<1>4. /\ plain.mode = r.mode /\ plain.preset = r.preset /\ plain.expr = r.expr /\ plain.limit = r.limit
      /\ plain.offset = r.offset /\ plain.sort = r.sort /\ plain.expand = r.expand /\ plain.depth = r.depth
      /\ told.mode = r.mode /\ told.preset = r.preset /\ told.expr = r.expr /\ told.limit = r.limit
      /\ told.offset = r.offset /\ told.sort = r.sort /\ told.expand = r.expand /\ told.depth = r.depth
      /\ plain.explain = FALSE
  BY <1>1, <1>3, ExplainOnly DEF RequestFields
<1>5. ASSUME NEW n \in g.nodes
      PROVE  /\ Eval(g, n, r.expr) \in Ternary
             /\ Decides(n, Eval(g, n, r.expr), Truth(g, r.expr))
             /\ Eval(g, n, r.expr) = "fails" => SomeClauseFails(n, r.expr)
             /\ ExplainFails(g, n, r.expr) => SomeClauseFails(n, r.expr)
  <2>1. r.expr # NoExpr => IsExpr(r.expr)
    BY DEF IsRequest
  <2>2. ExplainFails(g, n, r.expr) => r.expr # NoExpr
    BY DEF ExplainFails
  <2> QED BY <2>1, <2>2, EvalTells, ExplainFailsTells
<1>6. Seeds(g, plain) = Seeds(g, r) /\ Seeds(g, told) = Seeds(g, r)
  BY <1>4 DEF Seeds
<1>7. ASSUME ~SeedsFail(g, plain), NEW bound \in {"sure", "maybe"}
      PROVE  Seeds(g, r) = {n \in Truth(g, r.expr)[bound] : MatchesPreset(g, n, r.preset)}
  <2>1. \A n \in g.nodes : MatchesPreset(g, n, r.preset) => Eval(g, n, r.expr) # "fails"
    BY <1>4, <1>7 DEF SeedsFail
  <2>2. \A n \in g.nodes : MatchesPreset(g, n, r.preset) => (Eval(g, n, r.expr) = "yes" <=> n \in Truth(g, r.expr)[bound])
    BY <1>5, <2>1 DEF Decides, Ternary
  <2>3. Truth(g, r.expr)[bound] \subseteq g.nodes
    BY TruthOfNodes DEF IsRequest
  <2> QED BY <2>2, <2>3 DEF Seeds
<1>8. SeedsFail(g, told) => FailingAt(g, r) # {}
  <2>1. ASSUME SeedsFail(g, told) PROVE \E n \in g.nodes : MatchesPreset(g, n, r.preset) /\ SomeClauseFails(n, r.expr)
    BY <1>4, <1>5, <2>1 DEF SeedsFail
  <2> QED BY <2>1 DEF FailingAt, SomeClauseFails
<1>9. ~SeedsFail(g, told) => ~SeedsFail(g, plain)
  BY <1>4 DEF SeedsFail
<1>10. ~SeedsFail(g, told) => Answer(g, told) = Answer(g, plain)
  <2>1. PICK ids : ids = Reached(g, r, InOrder(Seeds(g, r)))
    OBVIOUS
  <2>2. Reached(g, told, InOrder(Seeds(g, told))) = ids /\ Reached(g, plain, InOrder(Seeds(g, plain))) = ids
    BY <1>4, <1>6, <2>1 DEF Reached
  <2>3. FoundPage(g, told, ids) = FoundPage(g, plain, ids)
    BY <1>4 DEF FoundPage, Page, Cut
  <2> QED BY <1>4, <1>9, <2>2, <2>3, SearchAnswered
<1>11. SeedsFail(g, told) => Answer(g, told) = Failure
  BY <1>4, SearchAnswered
<1>12. /\ Answer(g, plain).fails = SeedsFail(g, plain) /\ Answer(g, told).fails = SeedsFail(g, told)
  BY <1>4, AnswerFails
<1>13. Sound(g, r, Answer(g, plain), Answer(g, told))
  BY <1>7, <1>8, <1>10, <1>11, <1>12 DEF Sound
<1> QED BY <1>1, <1>2, <1>13

(***************************************************************************)
(* The order of matches                                                    *)
(***************************************************************************)
LEMMA PlaceInSequence ==
    ASSUME NEW seq, DOMAIN seq \in SUBSET Nat, NEW x \in ToSet(seq)
    PROVE  Place(seq, x) \in Nat
<1>1. \E i \in DOMAIN seq : seq[i] = x
  BY DEF ToSet
<1> QED BY <1>1 DEF Place

LEMMA NumbersOfValues ==
    ASSUME NEW values
    PROVE  /\ NumberOf(values) \in Int
           /\ RankOfValues(Severities, values) \in Int
           /\ RankOfValues(Criticalities, values) \in Int
<1>1. \A text \in DOMAIN Number : Number[text] \in Int
  <2>1. ASSUME NEW text \in DOMAIN Number PROVE Number[text] \in Int
    <3>1. PICK d \in ToSet(Digits) : text = <<d>>
      BY DEF Number
    <3>2. \E i \in DOMAIN Digits : text = <<Digits[i]>>
      BY <3>1 DEF ToSet
    <3>3. (CHOOSE i \in DOMAIN Digits : text = <<Digits[i]>>) \in DOMAIN Digits
      BY <3>2
    <3>4. DOMAIN Digits \subseteq Int
      BY DEF Digits
    <3>5. Number[text] = (CHOOSE i \in DOMAIN Digits : text = <<Digits[i]>>) - 1
      BY <2>1 DEF Number
    <3> QED BY <3>3, <3>4, <3>5
  <2> QED BY <2>1
<1>2. NumberOf(values) \in Int
  <2>1. CASE \E v \in values : values = {v} /\ v \in DOMAIN Number
    <3>1. (CHOOSE v \in values : TRUE) \in DOMAIN Number
      BY <2>1
    <3> QED BY <1>1, <2>1, <3>1 DEF NumberOf
  <2>2. CASE ~(\E v \in values : values = {v} /\ v \in DOMAIN Number)
    BY <2>2 DEF NumberOf
  <2> QED BY <2>1, <2>2
<1>3. ASSUME NEW order, DOMAIN order \in SUBSET Nat, NEW text PROVE RankIn(order, text) \in Int
  <2>1. ASSUME text[1] \in ToSet(order) PROVE Place(order, text[1]) \in Int
    <3>1. Place(order, text[1]) \in Nat
      BY <1>3, <2>1, PlaceInSequence
    <3> QED BY <3>1
  <2> QED BY <2>1 DEF RankIn
<1>4. DOMAIN Severities \in SUBSET Nat /\ DOMAIN Criticalities \in SUBSET Nat
  BY DEF Severities, Criticalities
<1>5. RankOfValues(Severities, values) \in Int /\ RankOfValues(Criticalities, values) \in Int
  BY <1>3, <1>4 DEF RankOfValues
<1> QED BY <1>2, <1>5

\* What matches are sorted by.
LEMMA KeysAreNumbers ==
    ASSUME NEW g, IsGraph(g), NEW n \in AllNodes, NEW sort
    PROVE  /\ SortKey(g, n, sort[1]) \in Int
           /\ \A i \in 1 .. 5 : SortKeys(g, n, sort)[i] \in Int
           /\ SortKeys(g, n, sort)[5] = NodeRank[n]
           /\ SortKeys(g, n, sort)[1] = IF sort[2] = "asc" THEN SortKey(g, n, sort[1]) ELSE 0 - SortKey(g, n, sort[1])
           /\ DOMAIN SortKeys(g, n, sort) = 1 .. 5
<1>1. Degree(g, n) \in Int
  <2>1. IsFiniteSet(EdgesAt(g, n))
    <3>1. EdgesAt(g, n) \in SUBSET AllEdges
      BY DEF EdgesAt, IsGraph
    <3> QED BY <3>1, FS_Subset, SearchAssumption
  <2> QED BY <2>1, FS_CardinalityType DEF Degree
<1>2. KindRank(n) \in Int
  <2>1. Kind[n] \in ToSet(Kinds)
    BY EngineAssumption
  <2>2. DOMAIN Kinds \in SUBSET Nat
    BY DEF Kinds
  <2> QED BY <2>1, <2>2, PlaceInSequence DEF KindRank
<1>3. LabelRank[Label[n]] \in Int /\ Seen[n][1] \in Int /\ Seen[n][2] \in Int
  <2>1. Seen[n] \in Nat \X Nat /\ LabelRank[Label[n]] \in Nat
    BY EngineAssumption
  <2> QED BY <2>1
<1>4. NodeRank[n] \in Int
  BY SearchAssumption
<1>5. SortKey(g, n, sort[1]) \in Int
  BY <1>1, <1>2, <1>3, NumbersOfValues DEF SortKey
<1>6. PICK key : key = SortKey(g, n, sort[1])
  OBVIOUS
<1>7. PICK first \in Int : first = IF sort[2] = "asc" THEN key ELSE 0 - key
  BY <1>5, <1>6
<1>8. PICK second \in Int : second = 0 - Degree(g, n)
  BY <1>1
<1>9. SortKeys(g, n, sort) = <<first, second, KindRank(n), LabelRank[Label[n]], NodeRank[n]>>
  BY <1>6, <1>7, <1>8 DEF SortKeys
<1>10. PICK third \in Int, fourth \in Int, fifth \in Int : third = KindRank(n) /\ fourth = LabelRank[Label[n]] /\ fifth = NodeRank[n]
  BY <1>2, <1>3, <1>4
<1>11. PICK keys : keys = <<first, second, third, fourth, fifth>>
  OBVIOUS
<1>12. DOMAIN keys = 1 .. 5 /\ keys[1] = first /\ keys[5] = fifth
  BY <1>11
<1>13. \A i \in 1 .. 5 : keys[i] \in Int
  BY <1>11
<1> QED BY <1>5, <1>6, <1>7, <1>9, <1>10, <1>11, <1>12, <1>13

\* Before is a strict order of rows of as many numbers, and total.
Numbers(k) == DOMAIN k = 1 .. 5 /\ \A i \in 1 .. 5 : k[i] \in Int

LEMMA BeforeOrders ==
    ASSUME NEW k, Numbers(k), NEW l, Numbers(l)
    PROVE  /\ ~Before(k, k)
           /\ Before(k, l) => ~Before(l, k)
           /\ k[5] # l[5] => Before(k, l) \/ Before(l, k)
           /\ Before(k, l) => k[1] <= l[1]
<1>1. ~Before(k, k)
  BY DEF Before, Numbers
<1>2. ASSUME Before(k, l), Before(l, k) PROVE FALSE
  <2>1. PICK i \in 1 .. 5 : k[i] < l[i] /\ \A j \in 1 .. i - 1 : k[j] = l[j]
    BY <1>2 DEF Before, Numbers
  <2>2. PICK h \in 1 .. 5 : l[h] < k[h] /\ \A j \in 1 .. h - 1 : l[j] = k[j]
    BY <1>2 DEF Before, Numbers
  <2>3. k[i] \in Int /\ l[i] \in Int /\ k[h] \in Int /\ l[h] \in Int
    BY DEF Numbers
  <2>4. CASE i < h
    <3>1. i \in 1 .. h - 1
      BY <2>4
    <3> QED BY <2>1, <2>2, <2>3, <3>1
  <2>5. CASE h < i
    <3>1. h \in 1 .. i - 1
      BY <2>5
    <3> QED BY <2>1, <2>2, <2>3, <3>1
  <2>6. CASE h = i
    BY <2>1, <2>2, <2>3, <2>6
  <2> QED BY <2>4, <2>5, <2>6
<1>3. ASSUME k[5] # l[5] PROVE Before(k, l) \/ Before(l, k)
  <2>1. PICK D : D = {i \in 1 .. 5 : k[i] # l[i]}
    OBVIOUS
  <2>2. D \in SUBSET Nat /\ D # {}
    BY <1>3, <2>1
  <2>3. PICK i \in D : \A j \in D : i <= j
    BY <2>2, Least
  <2>4. i \in 1 .. 5 /\ k[i] # l[i] /\ k[i] \in Int /\ l[i] \in Int
    BY <2>1 DEF Numbers
  <2>5. \A j \in 1 .. i - 1 : k[j] = l[j]
    <3>1. ASSUME NEW j \in 1 .. i - 1, k[j] # l[j] PROVE FALSE
      <4>1. j \in D
        BY <2>1, <2>4, <3>1
      <4> QED BY <2>3, <2>4, <4>1
    <3> QED BY <3>1
  <2>6. CASE k[i] < l[i]
    BY <2>4, <2>5, <2>6 DEF Before, Numbers
  <2>7. CASE l[i] < k[i]
    BY <2>4, <2>5, <2>7 DEF Before, Numbers
  <2> QED BY <2>4, <2>6, <2>7
<1>4. ASSUME Before(k, l) PROVE k[1] <= l[1]
  <2>1. PICK i \in 1 .. 5 : k[i] < l[i] /\ \A j \in 1 .. i - 1 : k[j] = l[j]
    BY <1>4 DEF Before, Numbers
  <2>2. k[1] \in Int /\ l[1] \in Int
    BY DEF Numbers
  <2>3. CASE i = 1
    BY <2>1, <2>2, <2>3
  <2>4. CASE i # 1
    <3>1. 1 \in 1 .. i - 1
      BY <2>4
    <3> QED BY <2>1, <2>2, <3>1
  <2> QED BY <2>3, <2>4
<1> QED BY <1>1, <1>2, <1>3, <1>4

LEMMA BeforeOrdersOn ==
    ASSUME NEW k, Numbers(k), NEW l, Numbers(l), NEW m, Numbers(m), Before(k, l), Before(l, m)
    PROVE  Before(k, m)
<1>1. PICK i \in 1 .. 5 : k[i] < l[i] /\ \A j \in 1 .. i - 1 : k[j] = l[j]
  BY DEF Before, Numbers
<1>2. PICK h \in 1 .. 5 : l[h] < m[h] /\ \A j \in 1 .. h - 1 : l[j] = m[j]
  BY DEF Before, Numbers
<1>3. /\ k[i] \in Int /\ l[i] \in Int /\ m[i] \in Int
      /\ k[h] \in Int /\ l[h] \in Int /\ m[h] \in Int
  BY DEF Numbers
<1>4. CASE i <= h
  <2>1. k[i] < m[i]
    <3>1. i < h => l[i] = m[i]
      BY <1>2
    <3> QED BY <1>1, <1>2, <1>3, <1>4, <3>1
  <2>2. \A j \in 1 .. i - 1 : k[j] = m[j]
    BY <1>1, <1>2, <1>4
  <2> QED BY <2>1, <2>2 DEF Before, Numbers
<1>5. CASE h < i
  <2>1. k[h] < m[h]
    <3>1. h \in 1 .. i - 1
      BY <1>5
    <3>2. k[h] = l[h]
      BY <1>1, <3>1
    <3> QED BY <1>2, <1>3, <3>2
  <2>2. \A j \in 1 .. h - 1 : k[j] = m[j]
    BY <1>1, <1>2, <1>5
  <2> QED BY <2>1, <2>2 DEF Before, Numbers
<1> QED BY <1>4, <1>5

LEMMA FunctionIsSeq ==
    ASSUME NEW S, NEW n \in Nat, NEW f \in [1 .. n -> S]
    PROVE  f \in Seq(S) /\ Len(f) = n
  OBVIOUS

\* A finite set with a strict total order is listed by the numbers of predecessors.
StrictlyOrders(R, S) ==
    /\ \A m \in S : <<m, m>> \notin R
    /\ \A m, n \in S : m # n => <<m, n>> \in R \/ <<n, m>> \in R
    /\ \A l, m, n \in S : <<l, m>> \in R /\ <<m, n>> \in R => <<l, n>> \in R
Predecessors(R, S, n) == Cardinality({m \in S : <<m, n>> \in R})
NumberedBy(R, S, list) ==
    \A k \in 1 .. Cardinality(S) : \A n \in S :
        Predecessors(R, S, n) = k - 1 => list[k] \in S /\ Predecessors(R, S, list[k]) = k - 1
ListedBy(R, S, list) ==
    /\ \A k \in 1 .. Cardinality(S) : list[k] \in S
    /\ \A i, j \in 1 .. Cardinality(S) : i < j => <<list[i], list[j]>> \in R
    /\ \A x \in S : \E i \in 1 .. Cardinality(S) : list[i] = x

LEMMA ListedByPredecessors ==
    ASSUME NEW S, IsFiniteSet(S), NEW R, StrictlyOrders(R, S), NEW list, NumberedBy(R, S, list)
    PROVE  ListedBy(R, S, list)
<1> USE DEF StrictlyOrders, Predecessors
<1>1. PICK size \in Nat : size = Cardinality(S)
  BY FS_CardinalityType
<1>2. PICK c : c = [n \in S |-> Cardinality({m \in S : <<m, n>> \in R})]
  OBVIOUS
<1>3. ASSUME NEW n \in S
      PROVE  IsFiniteSet({m \in S : <<m, n>> \in R}) /\ c[n] = Cardinality({m \in S : <<m, n>> \in R}) /\ c[n] \in Nat
  <2>1. {m \in S : <<m, n>> \in R} \in SUBSET S
    OBVIOUS
  <2>2. IsFiniteSet({m \in S : <<m, n>> \in R})
    BY <2>1, FS_Subset
  <2> QED BY <1>2, <2>2, FS_CardinalityType
<1>4. ASSUME NEW l \in S, NEW n \in S, <<l, n>> \in R PROVE c[l] < c[n]
  <2>1. PICK A : A = {m \in S : <<m, l>> \in R}
    OBVIOUS
  <2>2. PICK B : B = {m \in S : <<m, n>> \in R}
    OBVIOUS
  <2>3. IsFiniteSet(B) /\ c[l] = Cardinality(A) /\ c[n] = Cardinality(B)
    BY <1>3, <2>1, <2>2
  <2>4. A \in SUBSET B /\ A # B
    BY <1>4, <2>1, <2>2
  <2>5. Cardinality(A) <= Cardinality(B) /\ Cardinality(A) # Cardinality(B)
    BY <2>3, <2>4, FS_Subset
  <2>6. c[l] \in Nat /\ c[n] \in Nat
    BY <1>3
  <2> QED BY <2>3, <2>5, <2>6
<1>5. ASSUME NEW n \in S PROVE c[n] \in 0 .. size - 1
  <2>1. PICK B : B = {m \in S : <<m, n>> \in R}
    OBVIOUS
  <2>2. B \in SUBSET S /\ B # S /\ c[n] = Cardinality(B)
    BY <1>3, <2>1
  <2>3. Cardinality(B) <= Cardinality(S) /\ Cardinality(B) # Cardinality(S)
    BY <2>2, FS_Subset
  <2>4. c[n] \in Nat
    BY <1>3
  <2> QED BY <1>1, <2>2, <2>3, <2>4
<1>6. PICK T : T = 0 .. size - 1
  OBVIOUS
<1>7. IsFiniteSet(T) /\ Cardinality(T) = size
  <2>1. 0 \in Int /\ size - 1 \in Int
    OBVIOUS
  <2>2. IsFiniteSet(T) /\ Cardinality(T) = IF 0 > size - 1 THEN 0 ELSE (size - 1) - 0 + 1
    BY <1>6, <2>1, FS_Interval
  <2> QED BY <2>2
<1>8. c \in Injection(S, T)
  <2>1. ASSUME NEW l \in S, NEW n \in S, l # n PROVE c[l] # c[n]
    <3>1. c[l] < c[n] \/ c[n] < c[l]
      BY <1>4, <2>1
    <3>2. c[l] \in Nat /\ c[n] \in Nat
      BY <1>3
    <3> QED BY <3>1, <3>2
  <2>2. c \in [S -> T]
    BY <1>2, <1>5, <1>6
  <2> QED BY <2>1, <2>2 DEF Injection, IsInjective
<1>9. c \in Surjection(S, T)
  BY <1>1, <1>7, <1>8, FS_Injection
<1>10. ASSUME NEW k \in 1 .. size PROVE list[k] \in S /\ c[list[k]] = k - 1
  <2>1. k - 1 \in T
    BY <1>6
  <2>2. \E n \in S : c[n] = k - 1
    BY <1>9, <2>1 DEF Surjection
  <2>3. \E n \in S : Cardinality({m \in S : <<m, n>> \in R}) = k - 1
    BY <1>3, <2>2
  <2>4. list[k] \in S /\ Cardinality({m \in S : <<m, list[k]>> \in R}) = k - 1
    BY <1>1, <2>3 DEF NumberedBy
  <2> QED BY <1>3, <2>4
<1>11. ASSUME NEW i \in 1 .. size, NEW j \in 1 .. size, i < j PROVE <<list[i], list[j]>> \in R
  <2>1. list[i] \in S /\ list[j] \in S /\ c[list[i]] = i - 1 /\ c[list[j]] = j - 1
    BY <1>10
  <2>2. list[i] # list[j] /\ ~(c[list[j]] < c[list[i]])
    BY <1>11, <2>1
  <2> QED BY <1>4, <2>1, <2>2
<1>12. ASSUME NEW x \in S PROVE \E i \in 1 .. size : list[i] = x
  <2>1. PICK i \in 1 .. size : i = c[x] + 1
    <3>1. c[x] \in 0 .. size - 1
      BY <1>5
    <3> QED BY <3>1
  <2>2. list[i] \in S /\ c[list[i]] = c[x]
    <3>1. c[x] \in Nat
      BY <1>3
    <3>2. i - 1 = c[x]
      BY <2>1, <3>1
    <3> QED BY <1>10, <3>2
  <2>3. list[i] = x
    BY <1>8, <2>2 DEF Injection, IsInjective
  <2> QED BY <2>3
<1> QED BY <1>1, <1>10, <1>11, <1>12 DEF ListedBy

\* The matches in their order.
SortedList(g, ids, sort, list) ==
    /\ list \in Seq(ids) /\ Len(list) = Cardinality(ids)
    /\ \A i, j \in 1 .. Cardinality(ids) : i < j =>
          list[i] # list[j] /\ Before(SortKeys(g, list[i], sort), SortKeys(g, list[j], sort))
    /\ \A x \in ids : \E i \in 1 .. Cardinality(ids) : list[i] = x

LEMMA SortedTells ==
    ASSUME NEW g, IsGraph(g), NEW ids \in SUBSET AllNodes, NEW sort
    PROVE  SortedList(g, ids, sort, Sorted(g, ids, sort))
<1>1. IsFiniteSet(ids)
  BY FS_Subset, SearchAssumption
<1>2. PICK R : R = {p \in ids \X ids : Before(SortKeys(g, p[1], sort), SortKeys(g, p[2], sort))}
  OBVIOUS
<1>3. \A m, n \in ids : <<m, n>> \in R <=> Before(SortKeys(g, m, sort), SortKeys(g, n, sort))
  BY <1>2
<1>4. \A n \in ids : Numbers(SortKeys(g, n, sort)) /\ SortKeys(g, n, sort)[5] = NodeRank[n]
  BY KeysAreNumbers DEF Numbers
<1>5. \A m \in ids : <<m, m>> \notin R
  BY <1>3, <1>4, BeforeOrders
<1>6. ASSUME NEW m \in ids, NEW n \in ids, m # n PROVE <<m, n>> \in R \/ <<n, m>> \in R
  <2>1. NodeRank[m] # NodeRank[n]
    BY <1>6, SearchAssumption
  <2> QED BY <1>3, <1>4, <2>1, BeforeOrders
<1>7. ASSUME NEW l \in ids, NEW m \in ids, NEW n \in ids, <<l, m>> \in R, <<m, n>> \in R PROVE <<l, n>> \in R
  BY <1>3, <1>4, <1>7, BeforeOrdersOn
<1>8. PICK list : list = Sorted(g, ids, sort)
  OBVIOUS
<1>9. list = [k \in 1 .. Cardinality(ids) |->
                CHOOSE n \in ids : Cardinality({m \in ids : Before(SortKeys(g, m, sort), SortKeys(g, n, sort))}) = k - 1]
  BY <1>8 DEF Sorted
<1>10. ListedBy(R, ids, list)
  <2>1. \A n \in ids : {m \in ids : Before(SortKeys(g, m, sort), SortKeys(g, n, sort))} = {m \in ids : <<m, n>> \in R}
    BY <1>3
  <2>2. ASSUME NEW k \in 1 .. Cardinality(ids), NEW n \in ids, Predecessors(R, ids, n) = k - 1
        PROVE  list[k] \in ids /\ Predecessors(R, ids, list[k]) = k - 1
    <3>1. list[k] = CHOOSE l \in ids : Cardinality({m \in ids : Before(SortKeys(g, m, sort), SortKeys(g, l, sort))}) = k - 1
      BY <1>9
    <3>2. Cardinality({m \in ids : Before(SortKeys(g, m, sort), SortKeys(g, n, sort))}) = k - 1
      BY <2>1, <2>2 DEF Predecessors
    <3>3. list[k] \in ids /\ Cardinality({m \in ids : Before(SortKeys(g, m, sort), SortKeys(g, list[k], sort))}) = k - 1
      BY <3>1, <3>2
    <3> QED BY <2>1, <3>3 DEF Predecessors
  <2>3. NumberedBy(R, ids, list)
    BY <2>2 DEF NumberedBy
  <2>4. StrictlyOrders(R, ids)
    BY <1>5, <1>6, <1>7 DEF StrictlyOrders
  <2> QED BY <1>1, <2>3, <2>4, ListedByPredecessors
<1>11. Cardinality(ids) \in Nat
  BY <1>1, FS_CardinalityType
<1>12. list \in Seq(ids) /\ Len(list) = Cardinality(ids)
  <2>1. \A k \in 1 .. Cardinality(ids) : list[k] \in ids
    BY <1>10 DEF ListedBy
  <2>2. ASSUME NEW k \in 1 .. Cardinality(ids)
        PROVE  (CHOOSE n \in ids : Cardinality({m \in ids : Before(SortKeys(g, m, sort), SortKeys(g, n, sort))}) = k - 1) \in ids
    BY <1>9, <2>1
  <2>3. list \in [1 .. Cardinality(ids) -> ids]
    BY <1>9, <2>2
  <2> QED BY <1>11, <2>3, FunctionIsSeq
<1>13. \A i, j \in 1 .. Cardinality(ids) : i < j =>
          list[i] # list[j] /\ Before(SortKeys(g, list[i], sort), SortKeys(g, list[j], sort))
  BY <1>3, <1>5, <1>10 DEF ListedBy
<1> QED BY <1>8, <1>10, <1>12, <1>13 DEF SortedList, ListedBy

(***************************************************************************)
(* Pages                                                                   *)
(***************************************************************************)
LEMMA SequencesEqual ==
    ASSUME NEW V, NEW s \in Seq(V), NEW t \in Seq(V), Len(s) = Len(t), \A i \in 1 .. Len(s) : s[i] = t[i]
    PROVE  s = t
  OBVIOUS

LEMMA SubSeqTells ==
    ASSUME NEW V, NEW s \in Seq(V), NEW a \in 0 .. Len(s), NEW b \in a .. Len(s)
    PROVE  /\ SubSeq(s, a + 1, b) \in Seq(V)
           /\ Len(SubSeq(s, a + 1, b)) = b - a
           /\ \A i \in 1 .. b - a : SubSeq(s, a + 1, b)[i] = s[a + i]
<1>1. PICK n \in Nat : n = Len(s)
  OBVIOUS
<1>2. a \in Nat /\ b \in Nat /\ a <= b /\ b <= n
  BY <1>1
<1>3. PICK t : t = [i \in 1 .. b - a |-> s[a + i]]
  OBVIOUS
<1>4. ASSUME NEW i \in 1 .. b - a PROVE s[a + i] \in V
  <2>1. a + i \in 1 .. Len(s)
    BY <1>1, <1>2
  <2> QED BY <2>1
<1>5. t \in [1 .. b - a -> V]
  BY <1>3, <1>4
<1>6. b - a \in Nat
  BY <1>2
<1>7. t \in Seq(V) /\ Len(t) = b - a
  BY <1>5, <1>6, FunctionIsSeq
<1>8. SubSeq(s, a + 1, b) = t
  <2>1. SubSeq(s, a + 1, b) \in Seq(V) /\ Len(SubSeq(s, a + 1, b)) = b - a
    BY <1>1, <1>2
  <2>2. ASSUME NEW i \in 1 .. b - a PROVE SubSeq(s, a + 1, b)[i] = t[i]
    BY <1>1, <1>2, <1>3
  <2> QED BY <1>7, <2>1, <2>2, SequencesEqual
<1> QED BY <1>3, <1>7, <1>8

LEMMA SubSeqJoined ==
    ASSUME NEW V, NEW s \in Seq(V), NEW a \in 0 .. Len(s), NEW b \in a .. Len(s)
    PROVE  SubSeq(s, 1, a) \o SubSeq(s, a + 1, b) = SubSeq(s, 1, b)
<1>1. PICK n \in Nat : n = Len(s)
  OBVIOUS
<1>2. a \in Nat /\ b \in Nat /\ a <= b /\ b <= n
  BY <1>1
<1>3. PICK l : l = SubSeq(s, 1, a)
  OBVIOUS
<1>4. PICK m : m = SubSeq(s, a + 1, b)
  OBVIOUS
<1>5. PICK t : t = SubSeq(s, 1, b)
  OBVIOUS
<1>6. 0 \in 0 .. Len(s) /\ a \in 0 .. Len(s) /\ b \in 0 .. Len(s)
  BY <1>1, <1>2
<1>7. l \in Seq(V) /\ Len(l) = a /\ \A i \in 1 .. a : l[i] = s[i]
  <2>1. SubSeq(s, 0 + 1, a) \in Seq(V) /\ Len(SubSeq(s, 0 + 1, a)) = a - 0
        /\ \A i \in 1 .. a - 0 : SubSeq(s, 0 + 1, a)[i] = s[0 + i]
    BY <1>6, SubSeqTells
  <2> QED BY <1>2, <1>3, <2>1
<1>8. t \in Seq(V) /\ Len(t) = b /\ \A i \in 1 .. b : t[i] = s[i]
  <2>1. SubSeq(s, 0 + 1, b) \in Seq(V) /\ Len(SubSeq(s, 0 + 1, b)) = b - 0
        /\ \A i \in 1 .. b - 0 : SubSeq(s, 0 + 1, b)[i] = s[0 + i]
    BY <1>6, SubSeqTells
  <2> QED BY <1>2, <1>5, <2>1
<1>9. m \in Seq(V) /\ Len(m) = b - a /\ \A i \in 1 .. b - a : m[i] = s[a + i]
  BY <1>4, SubSeqTells
<1>10. l \o m \in Seq(V) /\ Len(l \o m) = b
  BY <1>2, <1>7, <1>9
<1>11. ASSUME NEW i \in 1 .. b PROVE (l \o m)[i] = t[i]
  <2>1. CASE i <= a
    <3>1. i \in 1 .. a
      BY <1>2, <2>1
    <3>2. (l \o m)[i] = l[i]
      BY <1>2, <1>7, <1>9, <3>1
    <3> QED BY <1>7, <1>8, <3>1, <3>2
  <2>2. CASE i > a
    <3>1. PICK j \in 1 .. b - a : i = a + j
      <4>1. i - a \in 1 .. b - a /\ i = a + (i - a)
        BY <1>2, <2>2
      <4> QED BY <4>1
    <3>2. (l \o m)[i] = m[j]
      <4>1. (l \o m)[i] = m[i - Len(l)]
        BY <1>2, <1>7, <1>9, <2>2
      <4>2. i - Len(l) = j
        BY <1>2, <1>7, <3>1
      <4> QED BY <4>1, <4>2
    <3>3. m[j] = s[i] /\ t[i] = s[i]
      BY <1>8, <1>9, <3>1
    <3> QED BY <3>2, <3>3
  <2>3. i <= a \/ i > a
    BY <1>2
  <2> QED BY <2>1, <2>2, <2>3
<1>12. l \o m = t
  BY <1>8, <1>10, <1>11, SequencesEqual
<1> QED BY <1>3, <1>4, <1>5, <1>12

\* The ends of the parts of something long.
PartEnds(e, n, long) ==
    /\ e \in [0 .. n -> 0 .. long]
    /\ e[0] = 0 /\ e[n] = long
    /\ \A k \in 1 .. n : e[k - 1] <= e[k]

LEMMA PartsJoined ==
    ASSUME NEW V, NEW s \in Seq(V), NEW n \in Nat, NEW e, PartEnds(e, n, Len(s)),
           NEW parts, parts = [k \in 1 .. n |-> SubSeq(s, e[k - 1] + 1, e[k])]
    PROVE  FlattenSeq(parts) = s
<1>1. PICK long \in Nat : long = Len(s)
  OBVIOUS
<1>2. e \in [0 .. n -> 0 .. long] /\ e[0] = 0 /\ e[n] = long /\ \A k \in 1 .. n : e[k - 1] <= e[k]
  BY <1>1 DEF PartEnds
<1>3. ASSUME NEW k \in 1 .. n
      PROVE  e[k - 1] \in 0 .. Len(s) /\ e[k] \in e[k - 1] .. Len(s)
  <2>1. k - 1 \in 0 .. n /\ k \in 0 .. n
    OBVIOUS
  <2>2. e[k - 1] \in 0 .. long /\ e[k] \in 0 .. long /\ e[k - 1] <= e[k]
    BY <1>2, <2>1
  <2> QED BY <1>1, <2>2
<1>4. ASSUME NEW k \in 1 .. n PROVE parts[k] \in Seq(V)
  <2>1. SubSeq(s, e[k - 1] + 1, e[k]) \in Seq(V)
    BY <1>3, SubSeqTells
  <2> QED BY <2>1
<1>5. parts \in Seq(Seq(V)) /\ Len(parts) = n
  <2>1. parts \in [1 .. n -> Seq(V)]
    BY <1>4
  <2> QED BY <2>1, FunctionIsSeq
<1>6. CASE n = 0
  <2>1. s = <<>> /\ parts = <<>>
    BY <1>1, <1>2, <1>5, <1>6
  <2> QED BY <1>5, <1>6, <2>1 DEF FlattenSeq
<1>7. CASE n # 0
  <2>1. PICK flat : flat = CHOOSE f : f = [i \in 1 .. Len(parts) |-> IF i = 1 THEN parts[i] ELSE f[i - 1] \o parts[i]]
    OBVIOUS
  <2>2. FlattenSeq(parts) = flat[n]
    BY <1>5, <1>7, <2>1 DEF FlattenSeq
  <2>3. \E f : f = [i \in 1 .. Len(parts) |-> IF i = 1 THEN parts[i] ELSE f[i - 1] \o parts[i]]
    <3>1. PICK f : f = [i \in 1 .. n |-> SubSeq(s, 1, e[i])]
      OBVIOUS
    <3>2. ASSUME NEW i \in 1 .. n PROVE SubSeq(s, 1, e[i]) = IF i = 1 THEN parts[i] ELSE f[i - 1] \o parts[i]
      <4>1. CASE i = 1
        <5>1. parts[i] = SubSeq(s, e[i - 1] + 1, e[i])
          OBVIOUS
        <5>2. e[i - 1] = 0
          <6>1. i - 1 = 0
            BY <4>1
          <6>2. e[0] = 0
            BY <1>2
          <6> QED BY <6>1, <6>2
        <5>3. SubSeq(s, e[i - 1] + 1, e[i]) = SubSeq(s, 1, e[i])
          BY <5>2
        <5> QED BY <4>1, <5>1, <5>3
      <4>2. CASE i # 1
        <5>1. i - 1 \in 1 .. n
          BY <4>2
        <5>2. f[i - 1] = SubSeq(s, 1, e[i - 1])
          BY <3>1, <5>1
        <5>3. parts[i] = SubSeq(s, e[i - 1] + 1, e[i])
          OBVIOUS
        <5> QED BY <1>3, <4>2, <5>2, <5>3, SubSeqJoined
      <4> QED BY <4>1, <4>2
    <3>3. f = [i \in 1 .. n |-> IF i = 1 THEN parts[i] ELSE f[i - 1] \o parts[i]]
      BY <3>1, <3>2
    <3>4. 1 .. Len(parts) = 1 .. n
      BY <1>5
    <3>5. f = [i \in 1 .. Len(parts) |-> IF i = 1 THEN parts[i] ELSE f[i - 1] \o parts[i]]
      BY ONLY <3>3, <3>4
    <3> QED BY ONLY <3>5
  <2>4. flat = [i \in 1 .. n |-> IF i = 1 THEN parts[i] ELSE flat[i - 1] \o parts[i]]
    BY <1>5, <2>1, <2>3
  <2>5. PICK Q : Q = {i \in Nat : i + 1 <= n => flat[i + 1] = SubSeq(s, 1, e[i + 1])}
    OBVIOUS
  <2>6. 0 \in Q
    <3>1. 1 \in 1 .. n
      BY <1>7
    <3>2. flat[1] = parts[1]
      BY <2>4, <3>1
    <3>3. parts[1] = SubSeq(s, e[0] + 1, e[1])
      <4>1. parts[1] = SubSeq(s, e[1 - 1] + 1, e[1])
        BY <3>1
      <4>2. 1 - 1 = 0
        OBVIOUS
      <4> QED BY <4>1, <4>2
    <3>4. flat[1] = SubSeq(s, 1, e[1])
      BY <1>2, <3>2, <3>3
    <3> QED BY <2>5, <3>4
  <2>7. ASSUME NEW i \in Nat, i \in Q PROVE i + 1 \in Q
    <3>1. SUFFICES ASSUME i + 2 <= n PROVE flat[i + 2] = SubSeq(s, 1, e[i + 2])
      BY <2>5
    <3>2. PICK k \in 1 .. n : k = i + 2
      BY <3>1
    <3>3. k - 1 = i + 1 /\ i + 1 <= n /\ k # 1
      BY <3>1, <3>2
    <3>4. flat[k - 1] = SubSeq(s, 1, e[k - 1])
      BY <2>5, <2>7, <3>3
    <3>5. flat[k] = flat[k - 1] \o parts[k]
      BY <2>4, <3>3
    <3>6. parts[k] = SubSeq(s, e[k - 1] + 1, e[k])
      OBVIOUS
    <3>7. flat[k] = SubSeq(s, 1, e[k])
      BY <1>3, <3>4, <3>5, <3>6, SubSeqJoined
    <3> QED BY <3>2, <3>7
  <2>8. \A i \in Nat : i \in Q
    BY <2>6, <2>7, CountUp
  <2>9. flat[n] = SubSeq(s, 1, e[n])
    <3>1. PICK i \in Nat : i + 1 = n
      <4>1. n - 1 \in Nat /\ (n - 1) + 1 = n
        BY <1>7
      <4> QED BY <4>1
    <3>2. flat[i + 1] = SubSeq(s, 1, e[i + 1])
      BY <2>5, <2>8, <3>1
    <3> QED BY <3>1, <3>2
  <2>10. SubSeq(s, 1, e[n]) = s
    BY <1>1, <1>2
  <2> QED BY <2>2, <2>9, <2>10
<1> QED BY <1>6, <1>7

\* The parts of a size of something that is not too long end where pages end.
LEMMA PagesEnd ==
    ASSUME NEW n \in Nat, NEW long \in 0 .. n, NEW size \in 1 .. 2,
           NEW e, e = [k \in 0 .. n |-> IF k * size > long THEN long ELSE k * size]
    PROVE  PartEnds(e, n, long)
<1>1. ASSUME NEW k \in 0 .. n
      PROVE  e[k] \in 0 .. long /\ (k * size >= long => e[k] = long) /\ (k * size <= long => e[k] = k * size)
  <2>1. PICK m \in Nat : m = k * size
    <3>1. CASE size = 1
      BY <3>1
    <3>2. CASE size = 2
      BY <3>2
    <3> QED BY <3>1, <3>2
  <2>2. e[k] = IF m > long THEN long ELSE m
    BY <2>1
  <2> QED BY <2>1, <2>2
<1>2. e \in [0 .. n -> 0 .. long]
  <2>1. \A k \in 0 .. n : e[k] \in 0 .. long
    BY <1>1
  <2> QED BY <2>1
<1>3. e[0] = 0
  <2>1. 0 \in 0 .. n /\ 0 * size = 0
    OBVIOUS
  <2> QED BY <1>1, <2>1
<1>4. e[n] = long
  <2>1. n \in 0 .. n
    OBVIOUS
  <2>2. n * size >= long
    <3>1. CASE size = 1
      BY <3>1
    <3>2. CASE size = 2
      BY <3>2
    <3> QED BY <3>1, <3>2
  <2> QED BY <1>1, <2>1, <2>2
<1>5. ASSUME NEW k \in 1 .. n PROVE e[k - 1] <= e[k]
  <2>1. k - 1 \in 0 .. n /\ k \in 0 .. n
    OBVIOUS
  <2>2. e[k - 1] = (IF (k - 1) * size > long THEN long ELSE (k - 1) * size)
        /\ e[k] = IF k * size > long THEN long ELSE k * size
    BY <2>1
  <2>3. CASE size = 1
    BY <2>2, <2>3
  <2>4. CASE size = 2
    BY <2>2, <2>4
  <2> QED BY <2>3, <2>4
<1> QED BY <1>2, <1>3, <1>4, <1>5 DEF PartEnds

\* The k-th page, as it is cut.
PageAt(r, k, size, long, e) ==
    /\ r.limit = size /\ r.offset = (k - 1) * size
    /\ e[k - 1] = IF (k - 1) * size > long THEN long ELSE (k - 1) * size
    /\ e[k] = IF k * size > long THEN long ELSE k * size

LEMMA PageCut ==
    ASSUME NEW s, NEW long \in Nat, Len(s) = long, NEW size \in 1 .. 2, NEW k \in Nat \ {0},
           NEW r, NEW e, PageAt(r, k, size, long, e)
    PROVE  Cut(s, r) = SubSeq(s, e[k - 1] + 1, e[k])
<1>1. PICK offset \in Nat : offset = IF r.offset > Len(s) THEN Len(s) ELSE r.offset
  <2>1. CASE size = 1
    BY <2>1 DEF PageAt
  <2>2. CASE size = 2
    BY <2>2 DEF PageAt
  <2> QED BY <2>1, <2>2
<1>2. offset = e[k - 1]
  BY <1>1 DEF PageAt
<1>3. (IF offset + r.limit > Len(s) THEN Len(s) ELSE offset + r.limit) = e[k]
  <2>1. CASE size = 1
    BY <1>1, <2>1 DEF PageAt
  <2>2. CASE size = 2
    BY <1>1, <2>2 DEF PageAt
  <2> QED BY <2>1, <2>2
<1>4. Cut(s, r) = SubSeq(s, offset + 1, IF offset + r.limit > Len(s) THEN Len(s) ELSE offset + r.limit)
  BY <1>1 DEF Cut
<1> QED BY <1>2, <1>3, <1>4

LEMMA ReachedNodes ==
    ASSUME NEW g, IsGraph(g), NEW r
    PROVE  Reached(g, r, InOrder(Seeds(g, r))) \in SUBSET g.nodes
<1>1. Seeds(g, r) \in SUBSET g.nodes /\ Seeds(g, r) \in SUBSET AllNodes
  BY DEF Seeds, IsGraph
<1>2. ToSet(InOrder(Seeds(g, r))) = Seeds(g, r)
  BY <1>1, SeedsInOrder
<1>3. \A seeds, depth : NeighborsQuery(g, seeds, depth) \in SUBSET g.nodes
  BY DEF NeighborsQuery
<1>4. FilterQuery(g, InOrder(Seeds(g, r)), r.expand) \in SUBSET g.nodes
  BY <1>1, <1>2 DEF FilterQuery
<1> QED BY <1>3, <1>4 DEF Reached

\* The request for a page of what another asks for.
PageOf(r, limit, offset, s) == s = [r EXCEPT !.limit = limit, !.offset = offset]

LEMMA PageAsked ==
    ASSUME NEW r, IsRequest(r), NEW limit, NEW offset, NEW s, PageOf(r, limit, offset, s)
    PROVE  s.limit = limit /\ s.offset = offset /\ \A x \in RequestFields \ {"limit", "offset"} : s[x] = r[x]
<1>1. PICK h : h = [r EXCEPT !.limit = limit]
  OBVIOUS
<1>2. \A x \in RequestFields : h[x] = IF x = "limit" THEN limit ELSE r[x]
  BY <1>1 DEF IsRequest
<1>3. h = [x \in RequestFields |-> h[x]]
  BY <1>1, <1>2 DEF IsRequest
<1>4. s = [h EXCEPT !.offset = offset]
  BY <1>1 DEF PageOf
<1>5. \A x \in RequestFields : s[x] = IF x = "offset" THEN offset ELSE h[x]
  BY <1>3, <1>4
<1>6. "limit" \in RequestFields /\ "offset" \in RequestFields
  BY DEF RequestFields
<1>7. s.limit = limit /\ s.offset = offset /\ \A x \in RequestFields \ {"limit", "offset"} : s[x] = r[x]
  BY <1>2, <1>5, <1>6
<1> QED BY <1>7

\* The answers to a search on a graph, page by page.
LEMMA PageAnswered ==
    ASSUME NEW g, NEW r, IsRequest(r), r.mode # "path", NEW limit, NEW offset,
           NEW s, PageOf(r, limit, offset, s)
    PROVE  LET ids == Reached(g, r, InOrder(Seeds(g, r)))
           IN  /\ s.limit = limit /\ s.offset = offset
               /\ Answer(g, s).fails = SeedsFail(g, r)
               /\ ~SeedsFail(g, r) =>
                     Answer(g, s).matches = Cut(Sorted(g, ids, r.sort), s) /\ Answer(g, s).total = Cardinality(ids)
<1>2. s.limit = limit /\ s.offset = offset /\ \A x \in RequestFields \ {"limit", "offset"} : s[x] = r[x]
  BY PageAsked
<1>3. /\ s.mode = r.mode /\ s.preset = r.preset /\ s.expr = r.expr /\ s.sort = r.sort
      /\ s.explain = r.explain /\ s.expand = r.expand /\ s.depth = r.depth
  BY <1>2 DEF RequestFields
<1>4. Seeds(g, s) = Seeds(g, r)
  BY <1>3 DEF Seeds
<1>5. SeedsFail(g, s) = SeedsFail(g, r)
  BY <1>3 DEF SeedsFail
<1>6. PICK ids : ids = Reached(g, r, InOrder(Seeds(g, r)))
  OBVIOUS
<1>7. Reached(g, s, InOrder(Seeds(g, s))) = ids
  BY <1>3, <1>4, <1>6 DEF Reached
<1>8. Answer(g, s).fails = SeedsFail(g, r)
  BY <1>3, <1>5, AnswerFails
<1>9. ASSUME ~SeedsFail(g, r)
      PROVE  Answer(g, s).matches = Cut(Sorted(g, ids, r.sort), s) /\ Answer(g, s).total = Cardinality(ids)
  <2>1. Answer(g, s) = FoundPage(g, s, ids)
    BY <1>3, <1>5, <1>7, <1>9, SearchAnswered
  <2>2. FoundPage(g, s, ids) = Found(Cut(Sorted(g, ids, r.sort), s), Cardinality(ids))
    BY <1>3 DEF FoundPage, Page
  <2> QED BY <2>1, <2>2 DEF Found
<1> QED BY <1>2, <1>6, <1>8, <1>9

\* Sorted matches are as asked for.
LEMMA SortedAsAsked ==
    ASSUME NEW g, IsGraph(g), NEW ids \in SUBSET AllNodes, NEW r, NEW entire, NEW pages, NEW all,
           SortedList(g, ids, r.sort, all), ToSet(all) = ToSet(entire.matches),
           \A k \in DOMAIN pages : pages[k].total = Cardinality(ids)
    PROVE  Tiled(g, r, entire, pages, all)
<1>1. /\ all \in Seq(ids) /\ Len(all) = Cardinality(ids)
      /\ \A i, j \in 1 .. Cardinality(ids) : i < j =>
            all[i] # all[j] /\ Before(SortKeys(g, all[i], r.sort), SortKeys(g, all[j], r.sort))
  BY DEF SortedList
<1>2. DOMAIN all = 1 .. Len(all) /\ \A i \in 1 .. Len(all) : all[i] \in AllNodes
  BY <1>1
<1>3. ASSUME NEW i \in DOMAIN all, NEW j \in DOMAIN all, i < j
      PROVE  /\ all[i] # all[j]
             /\ r.sort[2] = "asc" => SortKey(g, all[i], r.sort[1]) <= SortKey(g, all[j], r.sort[1])
             /\ r.sort[2] = "desc" => SortKey(g, all[j], r.sort[1]) <= SortKey(g, all[i], r.sort[1])
  <2>1. all[i] # all[j] /\ Before(SortKeys(g, all[i], r.sort), SortKeys(g, all[j], r.sort))
    BY <1>1, <1>2, <1>3
  <2>0. all[i] \in AllNodes /\ all[j] \in AllNodes
    BY <1>2
  <2>2. PICK k \in Int : k = SortKey(g, all[i], r.sort[1])
    BY <2>0, KeysAreNumbers
  <2>3. PICK l \in Int : l = SortKey(g, all[j], r.sort[1])
    BY <2>0, KeysAreNumbers
  <2>4. SortKeys(g, all[i], r.sort)[1] = (IF r.sort[2] = "asc" THEN k ELSE 0 - k)
        /\ SortKeys(g, all[j], r.sort)[1] = (IF r.sort[2] = "asc" THEN l ELSE 0 - l)
    <3>1. SortKeys(g, all[i], r.sort)[1] = IF r.sort[2] = "asc" THEN SortKey(g, all[i], r.sort[1]) ELSE 0 - SortKey(g, all[i], r.sort[1])
      BY <2>0, KeysAreNumbers
    <3>2. SortKeys(g, all[j], r.sort)[1] = IF r.sort[2] = "asc" THEN SortKey(g, all[j], r.sort[1]) ELSE 0 - SortKey(g, all[j], r.sort[1])
      BY <2>0, KeysAreNumbers
    <3> QED BY <2>2, <2>3, <3>1, <3>2
  <2>5. Numbers(SortKeys(g, all[i], r.sort)) /\ Numbers(SortKeys(g, all[j], r.sort))
    BY <1>2, KeysAreNumbers DEF Numbers
  <2>6. SortKeys(g, all[i], r.sort)[1] <= SortKeys(g, all[j], r.sort)[1]
    BY <2>1, <2>5, BeforeOrders
  <2>7. r.sort[2] = "asc" => k <= l
    BY <2>4, <2>6
  <2>8. r.sort[2] = "desc" => l <= k
    <3>1. SUFFICES ASSUME r.sort[2] = "desc" PROVE l <= k
      OBVIOUS
    <3>2. r.sort[2] # "asc"
      BY <3>1
    <3>3. 0 - k <= 0 - l
      BY <2>4, <2>6, <3>2
    <3> QED BY <3>3
  <2> QED BY <2>1, <2>2, <2>3, <2>7, <2>8
<1> QED BY <1>1, <1>3 DEF Tiled

\* Pages of one match or of two, from the first on.
LEMMA AnswersTile ==
    ASSUME NEW g, IsGraph(g), NEW r, IsRequest(r), r.mode # "path"
    PROVE  Tiles(g, r, Answer(g, [r EXCEPT !.limit = Furthest, !.offset = 0]))
<1>1. PICK uncut : uncut = [r EXCEPT !.limit = Furthest, !.offset = 0]
  OBVIOUS
<1>2. PageOf(r, Furthest, 0, uncut)
  BY <1>1 DEF PageOf
<1>3. PICK entire : entire = Answer(g, uncut)
  OBVIOUS
<1>4. CASE SeedsFail(g, r)
  <2>1. entire.fails = SeedsFail(g, r)
    BY <1>2, <1>3, PageAnswered
  <2> QED BY <1>1, <1>3, <1>4, <2>1 DEF Tiles
<1>5. CASE ~SeedsFail(g, r)
  <2>1. PICK ids : ids = Reached(g, r, InOrder(Seeds(g, r)))
    OBVIOUS
  <2>2. ids \in SUBSET AllNodes
    BY <2>1, ReachedNodes DEF IsGraph
  <2>3. PICK n \in Nat : n = Furthest
    BY FS_CardinalityType, SearchAssumption DEF Furthest
  <2>4. PICK long \in 0 .. n : long = Cardinality(ids)
    <3>1. Cardinality(ids) <= Cardinality(AllNodes) /\ IsFiniteSet(ids)
      BY <2>2, FS_Subset, SearchAssumption
    <3>2. Cardinality(ids) \in Nat
      BY <3>1, FS_CardinalityType
    <3> QED BY <2>3, <3>1, <3>2 DEF Furthest
  <2>5. PICK all : all = Sorted(g, ids, r.sort)
    OBVIOUS
  <2>6. SortedList(g, ids, r.sort, all)
    BY <2>2, <2>5, SortedTells
  <2>7. all \in Seq(ids) /\ Len(all) = long
    BY <2>4, <2>6 DEF SortedList
  <2>8. entire.matches = all
    <3>1. uncut.limit = n /\ uncut.offset = 0 /\ Answer(g, uncut).matches = Cut(all, uncut)
      BY <1>2, <1>5, <2>1, <2>3, <2>5, PageAnswered
    <3>2. Cut(all, uncut) = SubSeq(all, 1, long)
      BY <2>3, <2>4, <2>7, <3>1 DEF Cut
    <3>3. SubSeq(all, 1, long) = all
      BY <2>4, <2>7
    <3> QED BY <1>3, <3>1, <3>2, <3>3
  <2>9. ASSUME NEW size \in 1 .. 2, NEW pages,
               pages = [k \in 1 .. n |-> Answer(g, [r EXCEPT !.limit = size, !.offset = (k - 1) * size])]
        PROVE  TiledBy(g, r, entire, pages)
    <3>1. PICK e : e = [k \in 0 .. n |-> IF k * size > long THEN long ELSE k * size]
      OBVIOUS
    <3>2. PartEnds(e, n, long)
      BY <2>4, <3>1, PagesEnd
    <3>3. ASSUME NEW k \in 1 .. n
          PROVE  pages[k].total = long /\ pages[k].matches = SubSeq(all, e[k - 1] + 1, e[k])
      <4>1. PICK s : s = [r EXCEPT !.limit = size, !.offset = (k - 1) * size]
        OBVIOUS
      <4>2. /\ s.limit = size /\ s.offset = (k - 1) * size
            /\ Answer(g, s).matches = Cut(all, s) /\ Answer(g, s).total = Cardinality(ids)
        <5>1. PageOf(r, size, (k - 1) * size, s)
          BY <4>1 DEF PageOf
        <5> QED BY <1>5, <2>1, <2>5, <5>1, PageAnswered
      <4>3. pages[k] = Answer(g, s)
        BY <2>9, <4>1
      <4>4. k - 1 \in 0 .. n /\ k \in 0 .. n /\ k \in Nat \ {0} /\ long \in Nat
        BY <2>3, <2>4
      <4>5. /\ e[k - 1] = (IF (k - 1) * size > long THEN long ELSE (k - 1) * size)
            /\ e[k] = IF k * size > long THEN long ELSE k * size
        BY <3>1, <4>4
      <4>6. Cut(all, s) = SubSeq(all, e[k - 1] + 1, e[k])
        <5>1. PageAt(s, k, size, long, e)
          BY <4>2, <4>5 DEF PageAt
        <5> QED BY <2>7, <4>4, <5>1, PageCut
      <4> QED BY <2>4, <4>2, <4>3, <4>6
    <3>4. PICK parts : parts = [k \in 1 .. n |-> SubSeq(all, e[k - 1] + 1, e[k])]
      OBVIOUS
    <3>5. [k \in DOMAIN pages |-> pages[k].matches] = parts
      BY <2>9, <3>3, <3>4
    <3>6. FlattenSeq(parts) = all
      BY <2>3, <2>7, <3>2, <3>4, PartsJoined
    <3>7. Together(pages) = all
      BY <3>5, <3>6 DEF Together
    <3>8. \A k \in DOMAIN pages : pages[k].total = Cardinality(ids)
      BY <2>4, <2>9, <3>3
    <3>9. Tiled(g, r, entire, pages, all)
      BY <2>2, <2>6, <2>8, <3>8, SortedAsAsked
    <3> QED BY <3>7, <3>9 DEF TiledBy
  <2> QED BY <1>1, <1>3, <2>3, <2>9 DEF Tiles
<1> QED BY <1>4, <1>5

(***************************************************************************)
(* Queries as they are typed, saved and run                                *)
(***************************************************************************)
\* What is typed and saved are tokens, and what is saved was read when it was
\* saved; a run has its list from there.
Kept(list) ==
    /\ list \in [Names -> Seq(Tokens)]
    /\ \A n \in Names : list[n] # NoQuery => ~Failed(Parse(list[n]))

QueryInv ==
    /\ draft \in Seq(Tokens)
    /\ Kept(saved)
    /\ graph \in StoredGraphs \cup {NoGraph}
    /\ run = [step |-> run.step, list |-> run.list, found |-> run.found]
    /\ Kept(run.list)

LEMMA NothingKept == Kept(NoneSaved)
<1>1. NoQuery \in Seq(Tokens)
  BY DEF NoQuery
<1> QED BY <1>1 DEF Kept, NoneSaved

LEMMA KeptPart ==
    ASSUME NEW list, Kept(list), NEW names
    PROVE  Kept([n \in Names |-> IF n \in names THEN list[n] ELSE NoQuery])
<1>1. PICK part : part = [n \in Names |-> IF n \in names THEN list[n] ELSE NoQuery]
  OBVIOUS
<1>2. NoQuery \in Seq(Tokens)
  BY DEF NoQuery
<1>3. part \in [Names -> Seq(Tokens)]
  BY <1>1, <1>2 DEF Kept
<1>4. \A n \in Names : part[n] # NoQuery => part[n] = list[n]
  BY <1>1
<1> QED BY <1>1, <1>3, <1>4 DEF Kept

LEMMA KeptWith ==
    ASSUME NEW list, Kept(list), NEW name \in Names, NEW query \in Seq(Tokens),
           query # NoQuery => ~Failed(Parse(query))
    PROVE  Kept([list EXCEPT ![name] = query])
<1>1. PICK new : new = [list EXCEPT ![name] = query]
  OBVIOUS
<1>2. new \in [Names -> Seq(Tokens)]
  BY <1>1 DEF Kept
<1>3. \A n \in Names : new[n] = IF n = name THEN query ELSE list[n]
  BY <1>1 DEF Kept
<1> QED BY <1>1, <1>2, <1>3 DEF Kept

LEMMA QueryInvNext == QueryInv /\ [QueryNext]_queryVars => QueryInv'
<1> SUFFICES ASSUME QueryInv, [QueryNext]_queryVars PROVE QueryInv'
  OBVIOUS
<1>1. ASSUME NEW token \in UNION Vocabularies, Type(token) PROVE QueryInv'
  <2>1. token \in Tokens
    BY QueriesAssumption
  <2>2. draft' \in Seq(Tokens)
    BY <1>1, <2>1 DEF Type, QueryInv
  <2>3. UNCHANGED <<saved, graph, run>>
    BY <1>1 DEF Type
  <2> QED BY <2>2, <2>3 DEF QueryInv
<1>2. ASSUME NEW name \in Names, NEW query \in Expressions, Save(name, query) PROVE QueryInv'
  <2>1. query \in Seq(Tokens)
    BY QueriesAssumption
  <2>2. UNCHANGED <<draft, graph, run>> /\ saved' = [saved EXCEPT ![name] = query] /\ ~Failed(Parse(query))
    BY <1>2 DEF Save
  <2>3. Kept([saved EXCEPT ![name] = query])
    BY <2>1, <2>2, KeptWith DEF QueryInv
  <2>4. Kept(saved')
    BY <2>2, <2>3
  <2> QED BY <2>2, <2>4 DEF QueryInv
<1>3. ASSUME NEW name \in Names, Delete(name) PROVE QueryInv'
  <2>1. NoQuery \in Seq(Tokens)
    BY DEF NoQuery
  <2>2. UNCHANGED <<draft, graph, run>> /\ saved' = [saved EXCEPT ![name] = NoQuery]
    BY <1>3 DEF Delete
  <2>3. Kept([saved EXCEPT ![name] = NoQuery])
    BY <2>1, KeptWith DEF QueryInv
  <2>4. Kept(saved')
    BY <2>2, <2>3
  <2> QED BY <2>2, <2>4 DEF QueryInv
<1>4. ASSUME NEW g \in StoredGraphs, StoreGraph(g) PROVE QueryInv'
  <2>1. UNCHANGED <<draft, saved, run>> /\ graph' = g
    BY <1>4 DEF StoreGraph
  <2> QED BY <2>1 DEF QueryInv
<1>5. ASSUME NEW names, Start(names) PROVE QueryInv'
  <2>1. UNCHANGED <<draft, saved, graph>>
    BY <1>5 DEF Start
  <2>2. PICK list : list = [n \in Names |-> IF n \in names THEN saved[n] ELSE NoQuery]
    OBVIOUS
  <2>3. run' = [step |-> IF names = {} THEN "done" ELSE "listed", list |-> list, found |-> NoneSaved]
    BY <1>5, <2>2 DEF Start
  <2>4. Kept(list)
    BY <2>2, KeptPart DEF QueryInv
  <2>5. run'.list = list /\ run' = [step |-> run'.step, list |-> run'.list, found |-> run'.found]
    BY <2>3
  <2>6. Kept(run.list)'
    BY <2>4, <2>5
  <2> QED BY <2>1, <2>5, <2>6 DEF QueryInv
<1>6. CASE AnswerListed
  <2>1. UNCHANGED <<draft, saved, graph>>
    BY <1>6 DEF AnswerListed
  <2>2. PICK step, found : run' = [run EXCEPT !.step = step] \/ run' = [run EXCEPT !.step = step, !.found = found]
    BY <1>6 DEF AnswerListed
  <2>3. run'.list = run.list /\ run' = [step |-> run'.step, list |-> run'.list, found |-> run'.found]
    BY <2>2 DEF QueryInv
  <2>4. Kept(run.list)'
    BY <2>3 DEF QueryInv
  <2> QED BY <2>1, <2>3, <2>4 DEF QueryInv
<1>7. CASE Return
  <2>1. UNCHANGED <<draft, saved, graph>> /\ run' = Idle
    BY <1>7 DEF Return
  <2>2. run'.list = NoneSaved /\ run' = [step |-> run'.step, list |-> run'.list, found |-> run'.found]
    BY <2>1 DEF Idle
  <2>3. Kept(run.list)'
    BY <2>2, NothingKept
  <2> QED BY <2>1, <2>2, <2>3 DEF QueryInv
<1>8. CASE UNCHANGED queryVars
  BY <1>8 DEF queryVars, QueryInv
<1>9. ASSUME NEW name \in Names, RunOne(name) PROVE QueryInv'
  BY <1>5, <1>9 DEF RunOne
<1>10. CASE RunAll
  BY <1>5, <1>10 DEF RunAll
<1> QED BY <1>1, <1>2, <1>3, <1>4, <1>6, <1>7, <1>8, <1>9, <1>10 DEF QueryNext

LEMMA QueryInvAlways == QuerySpec => []QueryInv
<1>1. QueryInit => QueryInv
  <2>1. SUFFICES ASSUME QueryInit PROVE QueryInv
    OBVIOUS
  <2>2. run.list = NoneSaved /\ run = [step |-> run.step, list |-> run.list, found |-> run.found]
    BY <2>1 DEF QueryInit, Idle
  <2>3. draft = <<>> /\ saved = NoneSaved /\ graph = NoGraph
    BY <2>1 DEF QueryInit
  <2>4. <<>> \in Seq(Tokens)
    OBVIOUS
  <2> QED BY <2>2, <2>3, <2>4, NothingKept DEF QueryInv
<1> QED BY <1>1, QueryInvNext, PTL DEF QuerySpec

LEMMA TypedAreTrue ==
    ASSUME QueryInv
    PROVE  AnswersAreTrue
<1>1. ASSUME NEW r \in Searches PROVE IsRequest(r) /\ r.mode # "path"
  <2>1. r = Parse(draft).what /\ ~Failed(Parse(draft)) /\ r.mode # "path"
    BY DEF Searches
  <2> QED BY <2>1, ParseReads DEF QueryInv
<1>2. ASSUME NEW g \in StoredGraphs PROVE IsGraph(g)
  BY QueriesAssumption DEF IsGraph
<1>3. AnswersIgnoreWhatFails
  <2>1. ASSUME NEW r \in Searches, NEW g \in StoredGraphs
        PROVE  Sound(g, r, Answer(g, [r EXCEPT !.explain = FALSE]), Answer(g, [r EXCEPT !.explain = TRUE]))
    BY <1>1, <1>2, AnswersSound
  <2> QED BY <2>1 DEF AnswersIgnoreWhatFails
<1>4. PagesTileAnswer
  <2>1. ASSUME NEW search \in Searches, NEW g \in StoredGraphs, NEW r, r = [search EXCEPT !.explain = FALSE]
        PROVE  Tiles(g, r, Answer(g, [r EXCEPT !.limit = Furthest, !.offset = 0]))
    <3>1. IsRequest(search) /\ search.mode # "path"
      BY <1>1
    <3>2. IsRequest(r)
      <4>1. "explain" \in RequestFields \ {"expr"}
        BY DEF RequestFields
      <4> QED BY <2>1, <3>1, <4>1, RequestChanged
    <3>3. r.mode = search.mode
      BY <2>1, <3>1 DEF IsRequest, RequestFields
    <3> QED BY <1>2, <3>1, <3>2, <3>3, AnswersTile
  <2> QED BY <2>1 DEF PagesTileAnswer
<1> QED BY <1>3, <1>4 DEF AnswersAreTrue

\* For every vocabulary, however long a query gets, and on every graph: where a
\* query is answered, no comparison that could not be made had a say, and its
\* pages, one behind the other, are its answer in the order asked for.
THEOREM AnswersAreAlwaysTrue == QuerySpec => []AnswersAreTrue
<1>1. QueryInv => AnswersAreTrue
  BY TypedAreTrue
<1> QED BY <1>1, QueryInvAlways, PTL

LEMMA SeedsMayFail ==
    ASSUME NEW g, IsGraph(g), NEW r, IsRequest(r), SeedsFail(g, r)
    PROVE  MayFail(r)
<1>1. PICK n \in g.nodes : Eval(g, n, r.expr) = "fails" \/ ExplainFails(g, n, r.expr)
  BY DEF SeedsFail
<1>2. r.expr # NoExpr => IsExpr(r.expr)
  BY DEF IsRequest
<1>3. ExplainFails(g, n, r.expr) => r.expr # NoExpr
  BY DEF ExplainFails
<1>4. SomeClauseFails(n, r.expr)
  BY <1>1, <1>2, <1>3, EvalTells, ExplainFailsTells
<1>5. n \in AllNodes
  BY DEF IsGraph
<1> QED BY <1>4, <1>5 DEF SomeClauseFails, MayFail

LEMMA ListedMayFail ==
    ASSUME QueryInv, graph # NoGraph, NEW n \in Listed, AnswerTyped(graph, Parse(run.list[n])).fails
    PROVE  ForCause(Parse(run.list[n]))
<1>1. n \in Names /\ run.list[n] # NoQuery
  BY DEF Listed
<1>2. PICK p : p = Parse(run.list[n])
  OBVIOUS
<1>3. ~Failed(p) /\ IsRequest(p.what)
  <2>1. run.list[n] \in Seq(Tokens) /\ ~Failed(Parse(run.list[n]))
    BY <1>1 DEF QueryInv, Kept
  <2> QED BY <1>2, <2>1, ParseReads
<1>4. IsGraph(graph)
  BY QueriesAssumption DEF QueryInv, IsGraph
<1>5. Answer(graph, p.what).fails
  BY <1>2, <1>3 DEF AnswerTyped
<1>6. CASE p.what.mode = "path"
  BY <1>2, <1>3, <1>6 DEF ForCause, MayFail
<1>7. CASE p.what.mode # "path"
  <2>1. SeedsFail(graph, p.what)
    BY <1>5, <1>7, AnswerFails
  <2> QED BY <1>2, <1>3, <1>4, <2>1, SeedsMayFail DEF ForCause
<1> QED BY <1>6, <1>7

LEMMA RunEnds ==
    ASSUME QueryInv, [QueryNext]_queryVars, run.step = "listed", run'.step # "listed"
    PROVE  /\ run'.step = "failed" => graph = NoGraph \/ \E n \in Listed : ForCause(Parse(run.list[n]))
           /\ run'.step = "done" => \A n \in Listed :
                 run'.found[n] = AnswerTyped(graph, Parse(run.list[n])).matches
<1>1. AnswerListed
  <2>1. ASSUME UNCHANGED run PROVE FALSE
    BY <2>1
  <2>2. ASSUME NEW names PROVE ~Start(names)
    BY DEF Start
  <2>3. ASSUME Return PROVE FALSE
    BY <2>3 DEF Return
  <2> QED BY <2>1, <2>2, <2>3 DEF QueryNext, queryVars, Type, Save, Delete, StoreGraph, RunOne, RunAll
<1>2. PICK asked : asked = [n \in Listed |-> AnswerTyped(graph, Parse(run.list[n]))]
  OBVIOUS
<1>3. IF \E n \in Listed : asked[n].fails
      THEN run' = [run EXCEPT !.step = "failed"]
      ELSE run' = [run EXCEPT !.step = "done",
                !.found = [n \in Names |-> IF n \in Listed THEN asked[n].matches ELSE <<>>]]
  BY <1>1, <1>2 DEF AnswerListed
<1>4. Listed \in SUBSET Names
  BY DEF Listed
<1>5. CASE \E n \in Listed : asked[n].fails
  <2>1. run'.step = "failed"
    BY <1>3, <1>5 DEF QueryInv
  <2>2. graph = NoGraph \/ \E n \in Listed : ForCause(Parse(run.list[n]))
    BY <1>2, <1>5, ListedMayFail
  <2> QED BY <2>1, <2>2
<1>6. CASE ~(\E n \in Listed : asked[n].fails)
  <2>1. PICK found : found = [n \in Names |-> IF n \in Listed THEN asked[n].matches ELSE <<>>]
    OBVIOUS
  <2>2. run'.step = "done" /\ run'.found = found
    BY <1>3, <1>6, <2>1 DEF QueryInv
  <2> QED BY <1>2, <1>4, <2>1, <2>2
<1> QED BY <1>5, <1>6

\* Whatever is saved, deleted and stored meanwhile: a run of saved queries that
\* fails had no graph or a query that may fail, and one that ends well answers
\* all it read from one graph.
THEOREM RunsAlwaysFailForCause == QuerySpec => RunsFailForCause
<1>1. QueryInv /\ [QueryNext]_queryVars =>
        [run.step = "listed" /\ run'.step # "listed" =>
            /\ run'.step = "failed" => graph = NoGraph \/ \E n \in Listed : ForCause(Parse(run.list[n]))
            /\ run'.step = "done" => \A n \in Listed :
                  run'.found[n] = AnswerTyped(graph, Parse(run.list[n])).matches]_queryVars
  BY RunEnds
<1> QED BY <1>1, QueryInvAlways, PTL DEF QuerySpec, RunsFailForCause

(***************************************************************************)
(* Stores and loads                                                        *)
(***************************************************************************)
USE GraphAssumption DEF Go, Rest, Read

StampsAreBuilt ==
    /\ \A s \in Seconds : header[s] <= Len(built) /\ whole[s] <= Len(built)
    /\ \A w \in Writers : writer[w].step \in Storing \cup {"header"} =>
          writer[w].stamp \in 1 .. Len(built)
    /\ \A r \in Readers : reader[r].step # "idle" => reader[r].stamp \in 1 .. Len(built)

LEMMA SeqElement ==
    ASSUME NEW S, NEW q \in Seq(S), NEW k \in 1 .. Len(q)
    PROVE  q[k] \in S
  OBVIOUS

LEMMA BuiltGraph ==
    ASSUME TypeOK, NEW k \in 1 .. Len(built)
    PROVE  /\ built[k].second \in Seconds
           /\ built[k].graph \in Graphs
           /\ built[k].graph.nodes \in SUBSET NodeIds
           /\ built[k].graph.edges \in SUBSET EdgeIds
           /\ k \in Stamps
  <1>1. built[k] \in [second : Seconds, graph : Graphs]
    <2>1. built \in Seq([second : Seconds, graph : Graphs])
      BY DEF TypeOK
    <2> QED BY <2>1, SeqElement
  <1>2. built[k].graph \in Graphs /\ built[k].second \in Seconds
    BY <1>1
  <1>3. built[k].graph.nodes \subseteq NodeIds /\ built[k].graph.edges \subseteq EdgeIds
    BY <1>2 DEF NodeIds, EdgeIds
  <1>4. k \in Stamps
    <2>1. Len(built) \in Nat /\ Len(built) <= MaxGraphs
      BY DEF TypeOK
    <2> QED BY <2>1 DEF Stamps
  <1> QED
    BY <1>2, <1>3, <1>4

LEMMA WriterGraph ==
    ASSUME TypeOK, StampsAreBuilt, NEW w \in Writers,
           writer[w].step \in Storing \cup {"header"}
    PROVE  /\ SecondOf(w) \in Seconds
           /\ GraphOf(w).nodes \in SUBSET NodeIds
           /\ GraphOf(w).edges \in SUBSET EdgeIds
  BY BuiltGraph DEF StampsAreBuilt, SecondOf, GraphOf

TypeInv == TypeOK /\ StampsAreBuilt

LEMMA TypeInvInit == Init => TypeInv
  <1> SUFFICES ASSUME Init PROVE TypeInv
    OBVIOUS
  <1>1. TypeOK
    BY DEF Init, TypeOK, Seconds, Stamps, WriterStates, ReaderStates, WriterSteps, ReaderSteps
  <1>2. StampsAreBuilt
    BY DEF Init, StampsAreBuilt, Storing, Seconds
  <1> QED BY <1>1, <1>2 DEF TypeInv

LEMMA TypeInvNext == TypeInv /\ [Next]_vars => TypeInv'
  <1> SUFFICES ASSUME TypeInv, [Next]_vars PROVE TypeInv'
    OBVIOUS
  <1> USE DEF TypeInv
  <1>1. CASE Tick
    BY <1>1 DEF Tick, TypeOK, StampsAreBuilt, tables, history, Seconds
  <1>2. ASSUME NEW w \in Writers, NEW g \in Graphs, Build(w, g) PROVE TypeInv'
    <2>1. built' \in Seq([second : Seconds, graph : Graphs]) /\ Len(built') = Len(built) + 1
      BY <1>2 DEF Build, TypeOK
    <2>2. writer' \in [Writers -> WriterStates]
      BY <1>2, <2>1 DEF Build, TypeOK, WriterStates, WriterSteps, Stamps
    <2>3. TypeOK'
      BY <1>2, <2>1, <2>2 DEF Build, TypeOK, tables, history
    <2>4. StampsAreBuilt'
      BY <1>2, <2>1 DEF Build, TypeOK, StampsAreBuilt, tables, history, Seconds, Stamps, Storing
    <2> QED BY <2>3, <2>4
  <1>3. ASSUME NEW w \in Writers, StoreHeader(w) PROVE TypeInv'
    <2>1. SecondOf(w) \in Seconds /\ writer[w].stamp \in Stamps /\ writer[w].stamp <= Len(built)
      BY <1>3, WriterGraph DEF StoreHeader, StampsAreBuilt, TypeOK, Stamps
    <2>2. writer' \in [Writers -> WriterStates]
      BY <1>3 DEF StoreHeader, TypeOK, WriterStates, WriterSteps
    <2>3. header' \in [Seconds -> Stamps] /\ whole' \in [Seconds -> Stamps]
      BY <1>3, <2>1 DEF StoreHeader, TypeOK, Stamps
    <2>4. alone' \in [Writers -> BOOLEAN] /\ calm' \in [Readers -> BOOLEAN]
      BY <1>3 DEF StoreHeader, TypeOK
    <2>5. TypeOK'
      BY <1>3, <2>2, <2>3, <2>4 DEF StoreHeader, TypeOK
    <2>6. StampsAreBuilt'
      BY <1>3, <2>1 DEF StoreHeader, TypeOK, StampsAreBuilt, Storing, Stamps
    <2> QED BY <2>5, <2>6
  <1>4. ASSUME NEW w \in Writers, DeleteNodes(w) PROVE TypeInv'
    <2>1. SecondOf(w) \in Seconds
      BY <1>4, WriterGraph DEF DeleteNodes, Storing
    <2>2. writer' \in [Writers -> WriterStates]
      BY <1>4 DEF DeleteNodes, TypeOK, WriterStates, WriterSteps
    <2>3. nodes' \in [Seconds -> [NodeIds -> Stamps]]
      BY <1>4, <2>1 DEF DeleteNodes, TypeOK, Stamps
    <2>4. TypeOK'
      BY <1>4, <2>2, <2>3 DEF DeleteNodes, TypeOK, history
    <2>5. StampsAreBuilt'
      BY <1>4 DEF DeleteNodes, TypeOK, StampsAreBuilt, Storing, history
    <2> QED BY <2>4, <2>5
  <1>5. ASSUME NEW w \in Writers, DeleteEdges(w) PROVE TypeInv'
    <2>1. SecondOf(w) \in Seconds /\ GraphOf(w).nodes \in SUBSET NodeIds /\ GraphOf(w).edges \in SUBSET EdgeIds
      BY <1>5, WriterGraph DEF DeleteEdges, Storing
    <2>2. writer' \in [Writers -> WriterStates]
      BY <1>5, <2>1 DEF DeleteEdges, TypeOK, WriterStates, WriterSteps
    <2>3. edges' \in [Seconds -> [EdgeIds -> Stamps]]
      BY <1>5, <2>1 DEF DeleteEdges, TypeOK, Stamps
    <2>4. TypeOK'
      BY <1>5, <2>2, <2>3 DEF DeleteEdges, TypeOK, history
    <2>5. StampsAreBuilt'
      BY <1>5 DEF DeleteEdges, TypeOK, StampsAreBuilt, Storing, history
    <2> QED BY <2>4, <2>5
  <1>6. ASSUME NEW w \in Writers, NEW n \in NodeIds, InsertNode(w, n) PROVE TypeInv'
    <2>1. SecondOf(w) \in Seconds
      BY <1>6, WriterGraph DEF InsertNode, Storing
    <2>2. writer' \in [Writers -> WriterStates]
      BY <1>6 DEF InsertNode, TypeOK, WriterStates, WriterSteps
    <2>3. nodes' \in [Seconds -> [NodeIds -> Stamps]]
      <3>1. [nodes[SecondOf(w)] EXCEPT ![n] = writer[w].stamp] \in [NodeIds -> Stamps]
        BY <2>1 DEF TypeOK, WriterStates
      <3> QED BY <1>6, <2>1, <3>1 DEF InsertNode, TypeOK
    <2>4. TypeOK'
      BY <1>6, <2>2, <2>3 DEF InsertNode, TypeOK, history
    <2>5. StampsAreBuilt'
      BY <1>6 DEF InsertNode, TypeOK, StampsAreBuilt, Storing, history
    <2> QED BY <2>4, <2>5
  <1>7. ASSUME NEW w \in Writers, NEW e \in EdgeIds, InsertEdge(w, e) PROVE TypeInv'
    <2>1. SecondOf(w) \in Seconds
      BY <1>7, WriterGraph DEF InsertEdge, Storing
    <2>2. writer' \in [Writers -> WriterStates]
      BY <1>7 DEF InsertEdge, TypeOK, WriterStates, WriterSteps
    <2>3. edges' \in [Seconds -> [EdgeIds -> Stamps]]
      <3>1. [edges[SecondOf(w)] EXCEPT ![e] = writer[w].stamp] \in [EdgeIds -> Stamps]
        BY <2>1 DEF TypeOK, WriterStates
      <3> QED BY <1>7, <2>1, <3>1 DEF InsertEdge, TypeOK
    <2>4. TypeOK'
      BY <1>7, <2>2, <2>3 DEF InsertEdge, TypeOK, history
    <2>5. StampsAreBuilt'
      BY <1>7 DEF InsertEdge, TypeOK, StampsAreBuilt, Storing, history
    <2> QED BY <2>4, <2>5
  <1>8. ASSUME NEW w \in Writers, Clash(w) \/ Die(w) PROVE TypeInv'
    <2>1. SecondOf(w) \in Seconds
      BY <1>8, WriterGraph DEF Clash, Die, Storing
    <2>2. \E step \in {"idle", "failed"} : Rest(w, step)
      BY <1>8 DEF Clash, Die
    <2>3. writer' \in [Writers -> WriterStates]
      BY <2>2 DEF TypeOK, WriterStates, WriterSteps, Stamps
    <2>4. spoilt' \in SUBSET Seconds
      BY <1>8, <2>1 DEF Clash, Die, TypeOK
    <2>5. UNCHANGED <<clock, built, tables, reader, alone, whole, calm>>
      BY <1>8 DEF Clash, Die
    <2>6. TypeOK'
      BY <2>3, <2>4, <2>5 DEF TypeOK, tables
    <2>7. StampsAreBuilt'
      BY <2>2, <2>5 DEF TypeOK, StampsAreBuilt, Storing, tables
    <2> QED BY <2>6, <2>7
  <1>9. ASSUME NEW w \in Writers, Stored(w) PROVE TypeInv'
    <2>1. SecondOf(w) \in Seconds /\ writer[w].stamp \in Stamps /\ writer[w].stamp <= Len(built)
      BY <1>9, WriterGraph DEF Stored, StampsAreBuilt, TypeOK, Stamps, Storing
    <2>2. writer' \in [Writers -> WriterStates]
      BY <1>9 DEF Stored, TypeOK, WriterStates, WriterSteps, Stamps
    <2>3. TypeOK'
      BY <1>9, <2>1, <2>2 DEF Stored, TypeOK, tables
    <2>4. StampsAreBuilt'
      BY <1>9, <2>1 DEF Stored, TypeOK, StampsAreBuilt, Storing, tables, Stamps
    <2> QED BY <2>3, <2>4
  <1>10. ASSUME NEW r \in Readers, ReadHeader(r) PROVE TypeInv'
    <2>1. PICK s \in Seconds :
              /\ header[s] # 0
              /\ Read(r, "nodes", s, header[s], {}, {})
              /\ calm' = [calm EXCEPT ![r] = (whole[s] # 0)]
      BY <1>10 DEF ReadHeader
    <2>2. header[s] \in Stamps /\ header[s] \in 1 .. Len(built)
      BY <2>1 DEF TypeOK, StampsAreBuilt, Stamps
    <2>3. reader' \in [Readers -> ReaderStates]
      BY <2>1, <2>2 DEF TypeOK, ReaderStates, ReaderSteps
    <2>4. calm' \in [Readers -> BOOLEAN]
      BY <2>1 DEF TypeOK
    <2>5. UNCHANGED <<clock, built, tables, writer, alone, whole, spoilt>>
      BY <1>10 DEF ReadHeader
    <2>6. TypeOK'
      BY <2>3, <2>4, <2>5 DEF TypeOK, tables
    <2>7. StampsAreBuilt'
      BY <2>1, <2>2, <2>5 DEF TypeOK, StampsAreBuilt, tables
    <2> QED BY <2>6, <2>7
  <1>11. ASSUME NEW r \in Readers, ReadNodes(r) \/ ReadEdges(r) PROVE TypeInv'
    <2>1. PICK step \in {"edges", "loaded"}, found \in SUBSET NodeIds, joins \in SUBSET EdgeIds :
              /\ reader[r].step # "idle"
              /\ Read(r, step, reader[r].second, reader[r].stamp, found, joins)
      <3>1. reader[r] \in ReaderStates
        BY DEF TypeOK
      <3>2. CASE ReadNodes(r)
        <4> DEFINE found == {n \in NodeIds : nodes[reader[r].second][n] # 0}
        <4>1. found \in SUBSET NodeIds /\ {} \in SUBSET EdgeIds
          OBVIOUS
        <4>2. reader[r].step # "idle" /\ Read(r, "edges", reader[r].second, reader[r].stamp, found, {})
          BY <3>2 DEF ReadNodes
        <4> HIDE DEF found
        <4> QED BY ONLY <4>1, <4>2
      <3>3. CASE ReadEdges(r)
        <4> DEFINE joins == {e \in EdgeIds : edges[reader[r].second][e] # 0}
        <4>1. joins \in SUBSET EdgeIds /\ reader[r].nodes \in SUBSET NodeIds
          BY <3>1 DEF ReaderStates
        <4>2. reader[r].step # "idle" /\ Read(r, "loaded", reader[r].second, reader[r].stamp, reader[r].nodes, joins)
          BY <3>3 DEF ReadEdges
        <4> HIDE DEF joins
        <4> QED BY ONLY <4>1, <4>2
      <3> QED BY <1>11, <3>2, <3>3
    <2>2. reader' \in [Readers -> ReaderStates]
      BY <2>1 DEF TypeOK, ReaderStates, ReaderSteps
    <2>3. UNCHANGED <<clock, built, tables, writer, history>>
      BY <1>11 DEF ReadNodes, ReadEdges
    <2>4. TypeOK'
      BY <2>2, <2>3 DEF TypeOK, tables, history
    <2>5. StampsAreBuilt'
      BY <2>1, <2>3 DEF TypeOK, StampsAreBuilt, tables, history
    <2> QED BY <2>4, <2>5
  <1>12. CASE UNCHANGED vars
    BY <1>12 DEF vars, tables, history, TypeOK, StampsAreBuilt
  <1> QED
    BY <1>1, <1>2, <1>3, <1>4, <1>5, <1>6, <1>7, <1>8, <1>9, <1>10, <1>11, <1>12
       DEF Next, WriterStep, ReaderStep

\* Every variable keeps its type, and stamps name graphs that have been built.
THEOREM GraphTypeCorrect == GraphSpec => []TypeOK
  <1>1. Init => TypeInv BY TypeInvInit
  <1>2. TypeInv /\ [Next]_vars => TypeInv' BY TypeInvNext
  <1>3. TypeInv => TypeOK BY DEF TypeInv
  <1> QED BY <1>1, <1>2, <1>3, PTL DEF GraphSpec

(***************************************************************************)
(* The inductive invariant of the remaining theorems: what a store that    *)
(* has been alone so far has done, that a whole graph is left alone, and   *)
(* what a calm reader has read of it.                                      *)
(***************************************************************************)
NodesDone(w) == IF writer[w].step = "insert" THEN GraphOf(w).nodes \ writer[w].nodes ELSE {}

LoneSoFar(w) == writer[w].step \in Storing /\ alone[w]

Progress(w) ==
    /\ \A v \in Writers \ {w} : ~(writer[v].step \in Storing /\ SecondOf(v) = SecondOf(w))
    /\ header[SecondOf(w)] = writer[w].stamp
    /\ writer[w].step # "clearNodes" =>
          \A n \in NodeIds : nodes[SecondOf(w)][n] = IF n \in NodesDone(w) THEN writer[w].stamp ELSE 0
    /\ writer[w].step = "insert" =>
          \A e \in EdgeIds : edges[SecondOf(w)][e] =
              IF e \in GraphOf(w).edges \ writer[w].edges THEN writer[w].stamp ELSE 0
    /\ writer[w].step = "insert" =>
          writer[w].nodes \subseteq GraphOf(w).nodes /\ writer[w].edges \subseteq GraphOf(w).edges

LoneProgress == \A w \in Writers : LoneSoFar(w) => Progress(w)

WholeIsQuiet ==
    \A s \in Seconds : whole[s] # 0 =>
        \A w \in Writers : ~(writer[w].step \in Storing /\ SecondOf(w) = s)

CalmLoads ==
    \A r \in Readers : calm[r] =>
        /\ reader[r].step \in {"nodes", "edges"} => whole[reader[r].second] = reader[r].stamp
        /\ reader[r].step \in {"edges", "loaded"} => reader[r].nodes = built[reader[r].stamp].graph.nodes
        /\ reader[r].step = "loaded" => reader[r].edges = built[reader[r].stamp].graph.edges

HeadersStay ==
    \A r \in Readers : IF reader[r].step = "idle" THEN reader[r].second = 0
                       ELSE header[reader[r].second] # 0

StoreInv == /\ TypeInv
            /\ LoneProgress /\ WholeIsQuiet /\ WholeIsComplete /\ LoneStoreSucceeds
            /\ CalmLoads /\ HeadersStay

LEMMA StoreInvInit == Init => StoreInv
  <1> SUFFICES ASSUME Init PROVE StoreInv
    OBVIOUS
  <1>1. TypeInv
    BY TypeInvInit
  <1>2. LoneProgress /\ LoneStoreSucceeds
    BY DEF Init, LoneProgress, LoneSoFar, LoneStoreSucceeds
  <1>3. WholeIsQuiet /\ WholeIsComplete
    BY DEF Init, WholeIsQuiet, WholeIsComplete
  <1>4. CalmLoads /\ HeadersStay
    BY DEF Init, CalmLoads, HeadersStay
  <1> QED BY <1>1, <1>2, <1>3, <1>4 DEF StoreInv

\* The steps of a store that change rows: those of its own second, and
\* nothing that anybody else looks at.
MovesOn(w) ==
    /\ writer[w].step \in Storing
    /\ writer' = [writer EXCEPT ![w] = writer'[w]]
    /\ writer'[w].step \in Storing
    /\ writer'[w].stamp = writer[w].stamp
    /\ \A s \in Seconds \ {SecondOf(w)} : nodes'[s] = nodes[s] /\ edges'[s] = edges[s]
    /\ UNCHANGED <<clock, built, header, reader, history>>

LEMMA MovingOn ==
    ASSUME StoreInv, TypeInv', NEW w \in Writers, MovesOn(w), LoneSoFar(w) => Progress(w)'
    PROVE  StoreInv'
  <1> USE DEF StoreInv, TypeInv, MovesOn, history
  <1>1. \A v \in Writers :
            /\ (writer'[v].step \in Storing) <=> (writer[v].step \in Storing)
            /\ writer'[v].stamp = writer[v].stamp
            /\ v # w => writer'[v] = writer[v]
    BY DEF TypeOK
  <1>2. \A v \in Writers : SecondOf(v)' = SecondOf(v) /\ GraphOf(v)' = GraphOf(v)
    BY <1>1 DEF SecondOf, GraphOf
  <1>3. \A v \in Writers : writer[v].step \in Storing => SecondOf(v) \in Seconds
    BY WriterGraph
  <1>4. LoneProgress'
    <2> SUFFICES ASSUME NEW v \in Writers, LoneSoFar(v)' PROVE Progress(v)'
      BY DEF LoneProgress
    <2>1. LoneSoFar(v)
      BY <1>1 DEF LoneSoFar
    <2>2. CASE v = w
      BY <2>1, <2>2
    <2>3. CASE v # w
      <3>1. Progress(v)
        BY <2>1 DEF LoneProgress
      <3>2. SecondOf(v) \in Seconds \ {SecondOf(w)}
        BY <2>1, <3>1, <1>3, <2>3 DEF Progress, LoneSoFar
      <3>3. nodes'[SecondOf(v)] = nodes[SecondOf(v)] /\ edges'[SecondOf(v)] = edges[SecondOf(v)]
        BY <3>2
      <3>4. writer'[v] = writer[v] /\ SecondOf(v)' = SecondOf(v) /\ GraphOf(v)' = GraphOf(v) /\ NodesDone(v)' = NodesDone(v)
        BY <1>1, <1>2, <2>3 DEF NodesDone
      <3>5. \A u \in Writers \ {v} : ~(writer'[u].step \in Storing /\ SecondOf(u)' = SecondOf(v)')
        BY <3>1, <1>1, <1>2 DEF Progress
      <3> QED BY <3>1, <3>3, <3>4, <3>5 DEF Progress
    <2> QED BY <2>2, <2>3
  <1>5. WholeIsQuiet'
    BY <1>1, <1>2 DEF WholeIsQuiet
  <1>6. WholeIsComplete'
    BY <1>3 DEF WholeIsQuiet, WholeIsComplete
  <1>7. LoneStoreSucceeds'
    BY <1>1 DEF LoneStoreSucceeds, Storing
  <1>8. CalmLoads' /\ HeadersStay'
    BY DEF CalmLoads, HeadersStay
  <1> QED BY <1>4, <1>5, <1>6, <1>7, <1>8

\* What such a step leaves of the progress of its own store.
LEMMA OwnProgress ==
    ASSUME StoreInv, NEW w \in Writers, MovesOn(w), LoneSoFar(w)
    PROVE  /\ Progress(w)
           /\ SecondOf(w)' = SecondOf(w) /\ GraphOf(w)' = GraphOf(w)
           /\ \A v \in Writers \ {w} : ~(writer'[v].step \in Storing /\ SecondOf(v)' = SecondOf(w)')
           /\ header'[SecondOf(w)] = writer[w].stamp
           /\ writer'[w].stamp = writer[w].stamp
  <1>1. Progress(w)
    BY DEF StoreInv, LoneProgress
  <1>2. \A v \in Writers : SecondOf(v)' = SecondOf(v) /\ GraphOf(v)' = GraphOf(v)
    BY DEF StoreInv, TypeInv, TypeOK, MovesOn, SecondOf, GraphOf
  <1>3. \A v \in Writers \ {w} : writer'[v] = writer[v]
    BY DEF StoreInv, TypeInv, TypeOK, MovesOn
  <1> QED BY <1>1, <1>2, <1>3 DEF Progress, MovesOn

\* The steps that end a store.
Leaves(w) ==
    /\ writer[w].step \in Storing
    /\ writer' = [writer EXCEPT ![w] = writer'[w]]
    /\ writer'[w].step \in {"idle", "failed"}
    /\ UNCHANGED <<clock, built, tables, reader, alone, calm>>

LEMMA Leaving ==
    ASSUME StoreInv, TypeInv', NEW w \in Writers, Leaves(w),
           writer'[w].step = "failed" => ~alone[w],
           \A s \in Seconds : whole'[s] = whole[s] \/ (s = SecondOf(w) /\ whole'[s] = writer[w].stamp /\ alone[w]),
           (\E s \in Seconds : whole'[s] # whole[s]) =>
               writer[w].step = "insert" /\ writer[w].nodes = {} /\ writer[w].edges = {}
    PROVE  StoreInv'
  <1> USE DEF StoreInv, TypeInv, Leaves, tables
  <1>1. \A v \in Writers :
            /\ v # w => writer'[v] = writer[v] /\ SecondOf(v)' = SecondOf(v) /\ GraphOf(v)' = GraphOf(v) /\ NodesDone(v)' = NodesDone(v)
            /\ writer'[v].step \in Storing => v # w
    BY DEF TypeOK, SecondOf, GraphOf, NodesDone, Storing
  <1>2. SecondOf(w) \in Seconds
    BY WriterGraph
  <1>3. LoneProgress'
    BY <1>1 DEF LoneProgress, LoneSoFar, Progress
  <1>4. \A s \in Seconds : whole'[s] # whole[s] => s = SecondOf(w) /\ whole'[s] = writer[w].stamp /\ Progress(w)
    BY DEF LoneProgress, LoneSoFar
  <1>5. WholeIsQuiet'
    BY <1>1, <1>4 DEF WholeIsQuiet, Progress
  <1>6. WholeIsComplete'
    BY <1>4 DEF WholeIsComplete, Progress, NodesDone, GraphOf
  <1>7. LoneStoreSucceeds'
    BY <1>1 DEF LoneStoreSucceeds
  <1>8. CalmLoads'
    <2> SUFFICES ASSUME NEW r \in Readers, calm[r], reader[r].step \in {"nodes", "edges"}
                 PROVE  whole'[reader[r].second] = reader[r].stamp
      BY DEF CalmLoads
    <2>1. reader[r].second \in Seconds /\ reader[r].stamp # 0
      BY DEF TypeOK, ReaderStates, StampsAreBuilt
    <2>2. whole[reader[r].second] # 0
      BY <2>1 DEF CalmLoads
    <2> QED BY <2>1, <2>2, <1>4 DEF CalmLoads, WholeIsQuiet
  <1>9. HeadersStay'
    BY DEF HeadersStay
  <1> QED BY <1>3, <1>5, <1>6, <1>7, <1>8, <1>9

LEMMA StoreInvNext == StoreInv /\ [Next]_vars => StoreInv'
  <1> SUFFICES ASSUME StoreInv, [Next]_vars PROVE StoreInv'
    OBVIOUS
  <1> USE DEF StoreInv
  <1>0. TypeInv /\ TypeInv'
    BY TypeInvNext
  <1>1. CASE Tick \/ UNCHANGED vars
    <2>1. UNCHANGED <<built, tables, writer, reader, history>>
      BY <1>1 DEF Tick, vars
    <2>2. \A v \in Writers : SecondOf(v)' = SecondOf(v) /\ GraphOf(v)' = GraphOf(v) /\ NodesDone(v)' = NodesDone(v)
      BY <2>1 DEF SecondOf, GraphOf, NodesDone
    <2>3. LoneProgress' /\ LoneStoreSucceeds'
      BY <2>1, <2>2 DEF LoneProgress, LoneSoFar, Progress, LoneStoreSucceeds, tables, history
    <2>4. WholeIsQuiet' /\ WholeIsComplete'
      BY <2>1, <2>2 DEF WholeIsQuiet, WholeIsComplete, tables, history
    <2>5. CalmLoads' /\ HeadersStay'
      BY <2>1 DEF CalmLoads, HeadersStay, tables, history
    <2> QED BY <1>0, <2>3, <2>4, <2>5
  <1>2. ASSUME NEW w \in Writers, NEW g \in Graphs, Build(w, g) PROVE StoreInv'
    <2>1. UNCHANGED <<tables, reader, history>>
      BY <1>2 DEF Build
    <2>2. \A k \in 1 .. Len(built) : built'[k] = built[k]
      BY <1>2, <1>0 DEF Build, TypeInv, TypeOK
    <2>3. \A v \in Writers : writer'[v].step \in Storing =>
              v # w /\ writer'[v] = writer[v] /\ writer[v].stamp \in 1 .. Len(built)
      BY <1>2, <1>0 DEF Build, TypeInv, TypeOK, StampsAreBuilt, Storing
    <2>4. \A v \in Writers : writer'[v].step \in Storing =>
              SecondOf(v)' = SecondOf(v) /\ GraphOf(v)' = GraphOf(v) /\ NodesDone(v)' = NodesDone(v)
      BY <2>2, <2>3 DEF SecondOf, GraphOf, NodesDone
    <2>5. LoneProgress'
      BY <2>1, <2>3, <2>4 DEF LoneProgress, LoneSoFar, Progress, tables, history
    <2>6. WholeIsQuiet'
      BY <2>1, <2>3, <2>4 DEF WholeIsQuiet, history
    <2>7. WholeIsComplete'
      <3>1. \A s \in Seconds : whole[s] # 0 => whole[s] \in 1 .. Len(built)
        BY <1>0 DEF TypeInv, TypeOK, StampsAreBuilt, Stamps
      <3> QED BY <2>1, <2>2, <3>1 DEF WholeIsComplete, tables, history
    <2>8. LoneStoreSucceeds'
      BY <1>2, <2>1 DEF Build, LoneStoreSucceeds, TypeInv, TypeOK, history
    <2>9. CalmLoads'
      BY <2>1, <2>2, <1>0 DEF CalmLoads, TypeInv, StampsAreBuilt, history
    <2>10. HeadersStay'
      BY <2>1 DEF HeadersStay, tables
    <2> QED BY <1>0, <2>5, <2>6, <2>7, <2>8, <2>9, <2>10
  <1>3. ASSUME NEW w \in Writers, StoreHeader(w) PROVE StoreInv'
    <2>1. SecondOf(w) \in Seconds /\ writer[w].stamp \in 1 .. Len(built)
      BY <1>3, <1>0, WriterGraph DEF StoreHeader, TypeInv, StampsAreBuilt
    <2>2. \A v \in Writers :
              /\ SecondOf(v)' = SecondOf(v) /\ GraphOf(v)' = GraphOf(v)
              /\ v # w => writer'[v] = writer[v] /\ NodesDone(v)' = NodesDone(v)
      BY <1>3, <1>0 DEF StoreHeader, TypeInv, TypeOK, SecondOf, GraphOf, NodesDone
    <2>3. writer'[w].step = "clearNodes" /\ writer'[w].stamp = writer[w].stamp
      BY <1>3, <1>0 DEF StoreHeader, TypeInv, TypeOK
    <2>4. LoneProgress'
      <3> SUFFICES ASSUME NEW v \in Writers, LoneSoFar(v)' PROVE Progress(v)'
        BY DEF LoneProgress
      <3>1. CASE v = w
        <4>1. Rivals(w) = {}
          BY <1>3, <3>1 DEF StoreHeader, LoneSoFar
        <4>2. header'[SecondOf(w)] = writer[w].stamp
          BY <1>3, <1>0, <2>1 DEF StoreHeader, TypeInv, TypeOK
        <4> QED BY <3>1, <4>1, <4>2, <2>2, <2>3 DEF Progress, Rivals
      <3>2. CASE v # w
        <4>1. LoneSoFar(v) /\ v \notin Rivals(w)
          BY <1>3, <3>2, <2>2 DEF StoreHeader, LoneSoFar
        <4>2. Progress(v) /\ SecondOf(v) # SecondOf(w) /\ SecondOf(v) \in Seconds
          BY <4>1, <3>2, <1>0, WriterGraph DEF LoneProgress, LoneSoFar, Rivals, TypeInv
        <4>3. header'[SecondOf(v)] = header[SecondOf(v)] /\ nodes' = nodes /\ edges' = edges
          BY <1>3, <1>0, <4>2 DEF StoreHeader, TypeInv, TypeOK
        <4> QED BY <3>2, <4>2, <4>3, <2>2, <2>3 DEF Progress
      <3> QED BY <3>1, <3>2
    <2>5. \A s \in Seconds : whole'[s] # 0 =>
              s # SecondOf(w) /\ whole'[s] = whole[s] /\ header'[s] = header[s]
      BY <1>3, <1>0, <2>1 DEF StoreHeader, TypeInv, TypeOK
    <2>6. UNCHANGED <<built, nodes, edges, reader>>
      BY <1>3 DEF StoreHeader
    <2>7. WholeIsQuiet'
      BY <2>5, <2>2 DEF WholeIsQuiet
    <2>8. WholeIsComplete'
      BY <2>5, <2>6 DEF WholeIsComplete
    <2>9. LoneStoreSucceeds'
      BY <1>3, <2>2, <2>3 DEF StoreHeader, LoneStoreSucceeds
    <2>10. CalmLoads'
      <3> SUFFICES ASSUME NEW r \in Readers, calm'[r]
                   PROVE  /\ calm[r]
                          /\ reader[r].step \in {"nodes", "edges"} =>
                                whole'[reader[r].second] = whole[reader[r].second]
        BY <2>6 DEF CalmLoads
      <3>1. calm[r] /\ (reader[r].step \in {"nodes", "edges"} => reader[r].second # SecondOf(w))
        BY <1>3 DEF StoreHeader
      <3>2. reader[r].second \in Seconds
        BY <1>0 DEF TypeInv, TypeOK, ReaderStates
      <3> QED BY <1>3, <1>0, <3>1, <3>2 DEF StoreHeader, TypeInv, TypeOK
    <2>11. HeadersStay'
      BY <1>3, <1>0, <2>1 DEF StoreHeader, HeadersStay, TypeInv, TypeOK
    <2> QED BY <1>0, <2>4, <2>7, <2>8, <2>9, <2>10, <2>11
  <1>4. ASSUME NEW w \in Writers, DeleteNodes(w) PROVE StoreInv'
    <2>1. SecondOf(w) \in Seconds
      BY <1>4, <1>0, WriterGraph DEF DeleteNodes, TypeInv, Storing
    <2>2. MovesOn(w) /\ writer'[w].step = "clearEdges" /\ \A n \in NodeIds : nodes'[SecondOf(w)][n] = 0
      BY <1>4, <1>0, <2>1 DEF DeleteNodes, MovesOn, TypeInv, TypeOK, Storing, history
    <2>3. LoneSoFar(w) => Progress(w)'
      BY <2>2, OwnProgress DEF Progress, NodesDone
    <2> QED BY <1>0, <2>2, <2>3, MovingOn
  <1>5. ASSUME NEW w \in Writers, DeleteEdges(w) PROVE StoreInv'
    <2>1. SecondOf(w) \in Seconds
      BY <1>5, <1>0, WriterGraph DEF DeleteEdges, TypeInv, Storing
    <2>2. /\ MovesOn(w) /\ writer'[w].step = "insert"
          /\ writer'[w].nodes = GraphOf(w).nodes /\ writer'[w].edges = GraphOf(w).edges
          /\ nodes' = nodes /\ \A e \in EdgeIds : edges'[SecondOf(w)][e] = 0
      BY <1>5, <1>0, <2>1 DEF DeleteEdges, MovesOn, TypeInv, TypeOK, Storing, history
    <2>3. NodesDone(w) = {} /\ writer[w].step # "clearNodes"
      BY <1>5 DEF NodesDone, DeleteEdges
    <2>4. LoneSoFar(w) => Progress(w)'
      BY <2>2, <2>3, OwnProgress DEF Progress, NodesDone
    <2> QED BY <1>0, <2>2, <2>4, MovingOn
  <1>6. ASSUME NEW w \in Writers, NEW n \in NodeIds, InsertNode(w, n) PROVE StoreInv'
    <2>1. SecondOf(w) \in Seconds /\ n \in writer[w].nodes /\ writer[w].step = "insert"
      BY <1>6, <1>0, WriterGraph DEF InsertNode, TypeInv, Storing, Lowest
    <2>2. /\ MovesOn(w) /\ writer'[w].step = "insert"
          /\ writer'[w].nodes = writer[w].nodes \ {n} /\ writer'[w].edges = writer[w].edges
          /\ edges' = edges
          /\ \A m \in NodeIds : nodes'[SecondOf(w)][m] = IF m = n THEN writer[w].stamp ELSE nodes[SecondOf(w)][m]
      BY <1>6, <1>0, <2>1 DEF InsertNode, MovesOn, TypeInv, TypeOK, Storing, history
    <2>3. LoneSoFar(w) => Progress(w)'
      BY <2>1, <2>2, OwnProgress DEF Progress, NodesDone
    <2> QED BY <1>0, <2>2, <2>3, MovingOn
  <1>7. ASSUME NEW w \in Writers, NEW e \in EdgeIds, InsertEdge(w, e) PROVE StoreInv'
    <2>1. SecondOf(w) \in Seconds /\ e \in writer[w].edges /\ writer[w].nodes = {} /\ writer[w].step = "insert"
      BY <1>7, <1>0, WriterGraph DEF InsertEdge, TypeInv, Storing, Lowest
    <2>2. /\ MovesOn(w) /\ writer'[w].step = "insert"
          /\ writer'[w].nodes = {} /\ writer'[w].edges = writer[w].edges \ {e}
          /\ nodes' = nodes
          /\ \A d \in EdgeIds : edges'[SecondOf(w)][d] = IF d = e THEN writer[w].stamp ELSE edges[SecondOf(w)][d]
      BY <1>7, <1>0, <2>1 DEF InsertEdge, MovesOn, TypeInv, TypeOK, Storing, history
    <2>3. LoneSoFar(w) => Progress(w)'
      BY <2>1, <2>2, OwnProgress DEF Progress, NodesDone
    <2> QED BY <1>0, <2>2, <2>3, MovingOn
  <1>8. ASSUME NEW w \in Writers, Clash(w) \/ Die(w) PROVE StoreInv'
    <2>1. Leaves(w) /\ whole' = whole
      BY <1>8, <1>0 DEF Clash, Die, Leaves, TypeInv, TypeOK, Storing
    <2>2. writer'[w].step = "failed" => ~alone[w]
      <3>1. CASE Clash(w) /\ alone[w]
        <4>1. Progress(w) /\ writer[w].step = "insert" /\ SecondOf(w) \in Seconds
          BY <3>1, <1>0, WriterGraph DEF Clash, LoneProgress, LoneSoFar, TypeInv, Storing
        <4>2. ASSUME NEW n \in writer[w].nodes PROVE nodes[SecondOf(w)][n] = 0
          BY <4>1, <1>0, WriterGraph DEF Progress, NodesDone, TypeInv, Storing
        <4>3. ASSUME NEW e \in writer[w].edges PROVE edges[SecondOf(w)][e] = 0
          BY <4>1, <1>0, WriterGraph DEF Progress, TypeInv, Storing
        <4> QED BY <3>1, <4>2, <4>3 DEF Clash, Lowest
      <3>2. CASE Die(w)
        BY <3>2, <1>0 DEF Die, TypeInv, TypeOK
      <3> QED BY <1>8, <3>1, <3>2
    <2> QED BY <1>0, <2>1, <2>2, Leaving
  <1>9. ASSUME NEW w \in Writers, Stored(w) PROVE StoreInv'
    <2>1. Leaves(w) /\ writer'[w].step = "idle"
      BY <1>9, <1>0 DEF Stored, Leaves, TypeInv, TypeOK, Storing
    <2>2. SecondOf(w) \in Seconds
      BY <1>9, <1>0, WriterGraph DEF Stored, TypeInv, Storing
    <2>3. \A s \in Seconds : whole'[s] = whole[s] \/ (s = SecondOf(w) /\ whole'[s] = writer[w].stamp /\ alone[w])
      BY <1>9, <1>0, <2>2 DEF Stored, TypeInv, TypeOK
    <2>4. writer[w].step = "insert" /\ writer[w].nodes = {} /\ writer[w].edges = {}
      BY <1>9 DEF Stored
    <2> QED BY <1>0, <2>1, <2>3, <2>4, Leaving
  <1>10. ASSUME NEW r \in Readers, ReaderStep(r) PROVE StoreInv'
    <2>1. UNCHANGED <<clock, built, tables, writer, alone, whole, spoilt>>
      BY <1>10 DEF ReaderStep, ReadHeader, ReadNodes, ReadEdges, history
    <2>2. \A v \in Writers : SecondOf(v)' = SecondOf(v) /\ GraphOf(v)' = GraphOf(v) /\ NodesDone(v)' = NodesDone(v)
      BY <2>1 DEF SecondOf, GraphOf, NodesDone
    <2>3. LoneProgress' /\ LoneStoreSucceeds'
      BY <2>1, <2>2 DEF LoneProgress, LoneSoFar, Progress, LoneStoreSucceeds, tables
    <2>4. WholeIsQuiet' /\ WholeIsComplete'
      BY <2>1, <2>2 DEF WholeIsQuiet, WholeIsComplete, tables
    <2>5. CalmLoads' /\ HeadersStay'
      <3>1. CASE ReadHeader(r)
        <4>1. PICK s \in Seconds :
                  /\ header[s] # 0
                  /\ Read(r, "nodes", s, header[s], {}, {})
                  /\ calm' = [calm EXCEPT ![r] = (whole[s] # 0)]
          BY <3>1 DEF ReadHeader
        <4>2. whole[s] # 0 => whole[s] = header[s]
          BY DEF WholeIsComplete
        <4> QED BY <4>1, <4>2, <2>1, <1>0 DEF CalmLoads, HeadersStay, TypeInv, TypeOK, tables
      <3>2. CASE ReadNodes(r)
        <4>1. calm' = calm
          BY <3>2 DEF ReadNodes, history
        <4>2. /\ reader'[r].step = "edges" /\ reader'[r].second = reader[r].second
              /\ reader'[r].stamp = reader[r].stamp
              /\ reader'[r].nodes = {n \in NodeIds : nodes[reader[r].second][n] # 0}
              /\ \A q \in Readers \ {r} : reader'[q] = reader[q]
          BY <3>2, <1>0 DEF ReadNodes, TypeInv, TypeOK
        <4>3. calm[r] => reader'[r].nodes = built[reader[r].stamp].graph.nodes
          <5>1. reader[r].second \in Seconds /\ reader[r].stamp \in 1 .. Len(built) /\ reader[r].stamp # 0
            BY <3>2, <1>0 DEF ReadNodes, TypeInv, TypeOK, ReaderStates, StampsAreBuilt
          <5>2. calm[r] => whole[reader[r].second] = reader[r].stamp
            BY <3>2 DEF ReadNodes, CalmLoads
          <5>3. built[reader[r].stamp].graph.nodes \in SUBSET NodeIds
            BY <5>1, <1>0, BuiltGraph DEF TypeInv
          <5>4. calm[r] => \A x \in NodeIds : ((nodes[reader[r].second][x] # 0) <=> (x \in built[reader[r].stamp].graph.nodes))
            BY <5>1, <5>2 DEF WholeIsComplete
          <5> QED BY <4>2, <5>3, <5>4
        <4>4. reader[r].step = "nodes" /\ UNCHANGED <<built, header, whole>>
          BY <3>2, <2>1 DEF ReadNodes, tables
        <4>5. ASSUME NEW q \in Readers, calm'[q]
              PROVE  /\ reader'[q].step \in {"nodes", "edges"} => whole'[reader'[q].second] = reader'[q].stamp
                     /\ reader'[q].step \in {"edges", "loaded"} => reader'[q].nodes = built'[reader'[q].stamp].graph.nodes
                     /\ reader'[q].step = "loaded" => reader'[q].edges = built'[reader'[q].stamp].graph.edges
          <5>1. CASE q = r
            BY <4>1, <4>2, <4>3, <4>4, <4>5, <5>1 DEF CalmLoads
          <5>2. CASE q # r
            BY <4>1, <4>2, <4>4, <4>5, <5>2 DEF CalmLoads
          <5> QED BY <5>1, <5>2
        <4>6. HeadersStay'
          BY <4>2, <4>4 DEF HeadersStay
        <4> QED BY <4>5, <4>6 DEF CalmLoads
      <3>3. CASE ReadEdges(r)
        <4>1. calm' = calm
          BY <3>3 DEF ReadEdges, history
        <4>2. /\ reader'[r].step = "loaded" /\ reader'[r].second = reader[r].second
              /\ reader'[r].stamp = reader[r].stamp /\ reader'[r].nodes = reader[r].nodes
              /\ reader'[r].edges = {e \in EdgeIds : edges[reader[r].second][e] # 0}
              /\ \A q \in Readers \ {r} : reader'[q] = reader[q]
          BY <3>3, <1>0 DEF ReadEdges, TypeInv, TypeOK
        <4>3. calm[r] => reader'[r].edges = built[reader[r].stamp].graph.edges
          <5>1. reader[r].second \in Seconds /\ reader[r].stamp \in 1 .. Len(built) /\ reader[r].stamp # 0
            BY <3>3, <1>0 DEF ReadEdges, TypeInv, TypeOK, ReaderStates, StampsAreBuilt
          <5>2. calm[r] => whole[reader[r].second] = reader[r].stamp
            BY <3>3 DEF ReadEdges, CalmLoads
          <5>3. built[reader[r].stamp].graph.edges \in SUBSET EdgeIds
            BY <5>1, <1>0, BuiltGraph DEF TypeInv
          <5>4. calm[r] => \A x \in EdgeIds : ((edges[reader[r].second][x] # 0) <=> (x \in built[reader[r].stamp].graph.edges))
            BY <5>1, <5>2 DEF WholeIsComplete
          <5> QED BY <4>2, <5>3, <5>4
        <4>4. reader[r].step = "edges" /\ UNCHANGED <<built, header, whole>>
          BY <3>3, <2>1 DEF ReadEdges, tables
        <4>5. ASSUME NEW q \in Readers, calm'[q]
              PROVE  /\ reader'[q].step \in {"nodes", "edges"} => whole'[reader'[q].second] = reader'[q].stamp
                     /\ reader'[q].step \in {"edges", "loaded"} => reader'[q].nodes = built'[reader'[q].stamp].graph.nodes
                     /\ reader'[q].step = "loaded" => reader'[q].edges = built'[reader'[q].stamp].graph.edges
          <5>1. CASE q = r
            BY <4>1, <4>2, <4>3, <4>4, <4>5, <5>1 DEF CalmLoads
          <5>2. CASE q # r
            BY <4>1, <4>2, <4>4, <4>5, <5>2 DEF CalmLoads
          <5> QED BY <5>1, <5>2
        <4>6. HeadersStay'
          BY <4>2, <4>4 DEF HeadersStay
        <4> QED BY <4>5, <4>6 DEF CalmLoads
      <3> QED BY <1>10, <3>1, <3>2, <3>3 DEF ReaderStep
    <2> QED BY <1>0, <2>3, <2>4, <2>5
  <1> QED
    BY <1>1, <1>2, <1>3, <1>4, <1>5, <1>6, <1>7, <1>8, <1>9, <1>10 DEF Next, WriterStep

LEMMA StoreInvAlways == GraphSpec => []StoreInv
  BY StoreInvInit, StoreInvNext, PTL DEF GraphSpec

\* The deletes and inserts of a store that nobody of its second overlaps leave
\* exactly its graph (store_graph_scoped), and none of its plain INSERTs meets a
\* row with its key, however the stores before it ended.
LEMMA LoneStoresAlwaysWork == GraphSpec => []LoneStoresWork
  <1>1. StoreInv => LoneStoresWork BY DEF StoreInv, LoneStoresWork
  <1> QED BY <1>1, StoreInvAlways, PTL

\* The three SELECTs of load_latest_graph_scoped return one graph, whole, when
\* it was whole and no store of its second began under them.
THEOREM CalmLoadsAreWhole == GraphSpec => []LoadsWhole
  <1>1. StoreInv => LoadsWhole BY DEF StoreInv, CalmLoads, LoadsWhole
  <1> QED BY <1>1, StoreInvAlways, PTL

\* ORDER BY generated_at DESC over headers that are never deleted: a reader
\* never goes back in time.
THEOREM LoadsNeverGoBack == GraphSpec => LoadsDoNotGoBack
  <1> DEFINE NoneGoesBack == \A r \in Readers : reader'[r].second >= reader[r].second
  <1>1. StoreInv /\ [Next]_vars => [NoneGoesBack]_vars
    <2> SUFFICES ASSUME StoreInv, Next, NEW r \in Readers PROVE reader'[r].second >= reader[r].second
      BY DEF NoneGoesBack
    <2>1. TypeOK /\ HeadersStay /\ reader[r].second \in Seconds /\ Seconds \subseteq Nat
      BY DEF StoreInv, TypeInv, TypeOK, ReaderStates, Seconds
    <2>2. CASE reader' = reader
      BY <2>1, <2>2
    <2>3. ASSUME NEW q \in Readers, ReaderStep(q) PROVE reader'[r].second >= reader[r].second
      <3>1. CASE ReadHeader(q)
        <4>1. PICK s \in Seconds :
                  /\ \A t \in Seconds : header[t] # 0 => t <= s
                  /\ Read(q, "nodes", s, header[s], {}, {})
          BY <3>1 DEF ReadHeader
        <4>2. reader[r].second <= s
          BY <2>1, <4>1 DEF HeadersStay, Seconds
        <4> QED BY <2>1, <4>1, <4>2 DEF TypeOK
      <3>2. CASE ReadNodes(q) \/ ReadEdges(q)
        <4>1. \E step, found, joins : Read(q, step, reader[q].second, reader[q].stamp, found, joins)
          BY <3>2 DEF ReadNodes, ReadEdges
        <4>2. reader'[r].second = reader[r].second
          BY <4>1, <2>1 DEF TypeOK
        <4> QED BY <2>1, <4>2
      <3> QED BY <2>3, <3>1, <3>2 DEF ReaderStep
    <2>4. Tick \/ (\E w \in Writers : WriterStep(w)) => reader' = reader
      BY DEF Tick, WriterStep, Build, StoreHeader, DeleteNodes, DeleteEdges, InsertNode, InsertEdge, Clash, Stored, Die
    <2> QED BY <2>2, <2>3, <2>4 DEF Next
  <1>2. GraphSpec => [][NoneGoesBack]_vars
    BY <1>1, StoreInvAlways, PTL DEF GraphSpec
  <1> QED BY <1>2 DEF LoadsDoNotGoBack

(***************************************************************************)
(* Stores that overlap.  The last one to delete the edges of a second      *)
(* inserts all its rows after every delete: if none is refused, and it     *)
(* does not die, its graph is there in the end.                            *)
(***************************************************************************)
Clearing(w, s) == writer[w].step \in {"clearNodes", "clearEdges"} /\ SecondOf(w) = s

\* The rows of graph k, but for those of ns and es.
There(s, k, ns, es) ==
    /\ k \in 1 .. Len(built)
    /\ built[k].second = s
    /\ \A n \in built[k].graph.nodes \ ns : nodes[s][n] = k
    /\ \A e \in built[k].graph.edges \ es : edges[s][e] = k

Inserting(w, s) ==
    /\ writer[w].step = "insert"
    /\ There(s, writer[w].stamp, writer[w].nodes, writer[w].edges)

OneIsComing(s) ==
    \/ \E w \in Writers : Clearing(w, s) \/ Inserting(w, s)
    \/ \E k \in 1 .. Len(built) : There(s, k, {}, {})

SettleInv == \A s \in Seconds \ spoilt : header[s] # 0 => OneIsComing(s)

\* What all steps leave of what others are about to do, except deletes.
Spares(w, s) ==
    /\ \A v \in Writers \ {w} : writer'[v] = writer[v]
    /\ Len(built) <= Len(built')
    /\ \A k \in 1 .. Len(built) : built'[k] = built[k]
    /\ \A n \in NodeIds : nodes[s][n] # 0 => nodes'[s][n] = nodes[s][n]
    /\ \A e \in EdgeIds : edges[s][e] # 0 => edges'[s][e] = edges[s][e]

LEMMA SparedGraph ==
    ASSUME TypeInv, TypeInv', NEW w \in Writers, NEW s \in Seconds, Spares(w, s),
           NEW k, NEW ns, NEW es, There(s, k, ns, es)
    PROVE  There(s, k, ns, es)'
  <1>1. /\ k \in 1 .. Len(built) /\ built'[k] = built[k]
        /\ Len(built) \in Nat /\ Len(built') \in Nat /\ Len(built) <= Len(built')
    BY DEF There, Spares, TypeInv, TypeOK
  <1>2. built[k].graph.nodes \subseteq NodeIds /\ built[k].graph.edges \subseteq EdgeIds
    BY <1>1, BuiltGraph DEF TypeInv
  <1>3. \A n \in built[k].graph.nodes \ ns : nodes'[s][n] = k
    BY <1>1, <1>2 DEF There, Spares
  <1>4. \A e \in built[k].graph.edges \ es : edges'[s][e] = k
    BY <1>1, <1>2 DEF There, Spares
  <1> QED BY <1>1, <1>3, <1>4 DEF There

LEMMA SparedWriter ==
    ASSUME TypeInv, TypeInv', NEW w \in Writers, NEW s \in Seconds, Spares(w, s),
           NEW v \in Writers, v # w
    PROVE  /\ Clearing(v, s) => Clearing(v, s)'
           /\ Inserting(v, s) => Inserting(v, s)'
  <1>1. writer'[v] = writer[v]
    BY DEF Spares
  <1>2. CASE Clearing(v, s)
    <2>1. writer[v].stamp \in 1 .. Len(built)
      BY <1>2 DEF Clearing, TypeInv, StampsAreBuilt, Storing
    <2> QED BY <1>1, <1>2, <2>1 DEF Clearing, SecondOf, Spares, Inserting
  <1>3. CASE Inserting(v, s)
    <2>1. PICK k, ns, es : k = writer[v].stamp /\ ns = writer[v].nodes /\ es = writer[v].edges
      OBVIOUS
    <2>2. There(s, k, ns, es)'
      BY <1>3, <2>1, SparedGraph DEF Inserting
    <2>3. /\ k = writer'[v].stamp /\ ns = writer'[v].nodes /\ es = writer'[v].edges
          /\ writer'[v].step = "insert"
      BY <1>1, <1>3, <2>1 DEF Inserting
    <2> QED BY <1>3, <2>2, <2>3 DEF Inserting, There, Clearing
  <1> QED BY <1>2, <1>3

\* It remains to look at the one who takes the step.
LEMMA Spared ==
    ASSUME TypeInv, TypeInv', NEW w \in Writers, NEW s \in Seconds, Spares(w, s), OneIsComing(s),
           Clearing(w, s) \/ Inserting(w, s) => OneIsComing(s)'
    PROVE  OneIsComing(s)'
  <1>1. CASE \E v \in Writers \ {w} : Clearing(v, s) \/ Inserting(v, s)
    <2>1. PICK v \in Writers \ {w} : Clearing(v, s) \/ Inserting(v, s)
      BY <1>1
    <2>2. Clearing(v, s)' \/ Inserting(v, s)'
      BY <2>1, SparedWriter
    <2> QED BY <2>2 DEF OneIsComing
  <1>2. CASE \E k \in 1 .. Len(built) : There(s, k, {}, {})
    <2>1. PICK k \in 1 .. Len(built) : There(s, k, {}, {})
      BY <1>2
    <2>2. There(s, k, {}, {})'
      BY <2>1, SparedGraph
    <2>3. k \in 1 .. Len(built')
      BY <2>2 DEF There
    <2> QED BY <2>2, <2>3 DEF OneIsComing
  <1> QED BY <1>1, <1>2 DEF OneIsComing

LEMMA SettleInvInit == Init => SettleInv
  BY DEF Init, SettleInv

LEMMA SettleInvNext == TypeInv /\ SettleInv /\ [Next]_vars => SettleInv'
  <1> SUFFICES ASSUME TypeInv, SettleInv, [Next]_vars PROVE SettleInv'
    OBVIOUS
  <1>0. TypeInv' /\ TypeOK /\ TypeOK' /\ StampsAreBuilt
    BY TypeInvNext DEF TypeInv
  <1>1. CASE \/ Tick \/ (\E r \in Readers : ReaderStep(r)) \/ UNCHANGED vars
    <2>1. UNCHANGED <<built, header, nodes, edges, writer, spoilt>>
      BY <1>1 DEF Tick, ReaderStep, ReadHeader, ReadNodes, ReadEdges, vars, tables, history
    <2> QED BY <2>1 DEF SettleInv, OneIsComing, Clearing, Inserting, There, SecondOf
  <1>2. ASSUME NEW w \in Writers, WriterStep(w) PROVE SettleInv'
    <2> SUFFICES ASSUME NEW s \in Seconds, s \notin spoilt', header'[s] # 0 PROVE OneIsComing(s)'
      BY DEF SettleInv
    <2>1. ASSUME NEW g \in Graphs, Build(w, g) PROVE OneIsComing(s)'
      <3>1. Spares(w, s) /\ OneIsComing(s)
        BY <1>0, <2>1 DEF Build, Spares, SettleInv, tables, history, TypeOK
      <3>2. ~Clearing(w, s) /\ ~Inserting(w, s)
        BY <2>1 DEF Build, Clearing, Inserting
      <3> QED BY <1>0, <3>1, <3>2, Spared
    <2>2. CASE StoreHeader(w)
      <3>1. SecondOf(w) \in Seconds
        BY <1>0, <2>2, WriterGraph DEF StoreHeader
      <3>2. CASE s = SecondOf(w)
        <4>1. writer'[w].step = "clearNodes" /\ SecondOf(w)' = SecondOf(w)
          BY <1>0, <2>2 DEF StoreHeader, TypeOK, SecondOf
        <4> QED BY <3>2, <4>1 DEF OneIsComing, Clearing
      <3>3. CASE s # SecondOf(w)
        <4>1. Spares(w, s) /\ OneIsComing(s)
          BY <1>0, <2>2, <3>1, <3>3 DEF StoreHeader, Spares, SettleInv, TypeOK
        <4>2. ~Clearing(w, s) /\ ~Inserting(w, s)
          BY <2>2 DEF StoreHeader, Clearing, Inserting
        <4> QED BY <1>0, <4>1, <4>2, Spared
      <3> QED BY <3>2, <3>3
    <2>3. CASE DeleteNodes(w)
      <3>1. SecondOf(w) \in Seconds /\ header' = header /\ spoilt' = spoilt
        BY <1>0, <2>3, WriterGraph DEF DeleteNodes, Storing, history
      <3>2. CASE s = SecondOf(w)
        <4>1. writer'[w].step = "clearEdges" /\ SecondOf(w)' = SecondOf(w)
          BY <1>0, <2>3 DEF DeleteNodes, TypeOK, SecondOf
        <4> QED BY <3>2, <4>1 DEF OneIsComing, Clearing
      <3>3. CASE s # SecondOf(w)
        <4>1. Spares(w, s) /\ OneIsComing(s)
          BY <1>0, <2>3, <3>1, <3>3 DEF DeleteNodes, Spares, SettleInv, TypeOK
        <4>2. ~Clearing(w, s) /\ ~Inserting(w, s)
          BY <2>3, <3>3 DEF DeleteNodes, Clearing, Inserting
        <4> QED BY <1>0, <4>1, <4>2, Spared
      <3> QED BY <3>2, <3>3
    <2>4. CASE DeleteEdges(w)
      <3>1. SecondOf(w) \in Seconds /\ header' = header /\ spoilt' = spoilt
            /\ writer[w].stamp \in 1 .. Len(built)
        BY <1>0, <2>4, WriterGraph DEF DeleteEdges, Storing, history, StampsAreBuilt
      <3>2. CASE s = SecondOf(w)
        <4>1. /\ writer'[w].step = "insert" /\ writer'[w].stamp = writer[w].stamp /\ built' = built
              /\ writer'[w].nodes = GraphOf(w).nodes /\ writer'[w].edges = GraphOf(w).edges
          BY <1>0, <2>4 DEF DeleteEdges, TypeOK
        <4>2. Inserting(w, s)'
          BY <3>1, <3>2, <4>1 DEF Inserting, There, SecondOf, GraphOf
        <4> QED BY <4>2 DEF OneIsComing
      <3>3. CASE s # SecondOf(w)
        <4>1. Spares(w, s) /\ OneIsComing(s)
          BY <1>0, <2>4, <3>1, <3>3 DEF DeleteEdges, Spares, SettleInv, TypeOK
        <4>2. ~Clearing(w, s) /\ ~Inserting(w, s)
          BY <2>4, <3>3 DEF DeleteEdges, Clearing, Inserting
        <4> QED BY <1>0, <4>1, <4>2, Spared
      <3> QED BY <3>2, <3>3
    <2>5. ASSUME NEW n \in NodeIds, InsertNode(w, n) PROVE OneIsComing(s)'
      <3>1. SecondOf(w) \in Seconds /\ header' = header /\ spoilt' = spoilt /\ built' = built
        BY <1>0, <2>5, WriterGraph DEF InsertNode, Storing, history
      <3>2. Spares(w, s)
        BY <1>0, <2>5, <3>1 DEF InsertNode, Spares, TypeOK
      <3>3. OneIsComing(s)
        BY <3>1 DEF SettleInv
      <3>4. ~Clearing(w, s)
        BY <2>5 DEF InsertNode, Clearing
      <3>5. ASSUME Inserting(w, s) PROVE OneIsComing(s)'
        <4>1. PICK k, ns, es : k = writer[w].stamp /\ ns = writer[w].nodes /\ es = writer[w].edges
          OBVIOUS
        <4>2. There(s, k, ns, es) /\ There(s, k, ns, es)'
          BY <1>0, <3>2, <3>5, <4>1, SparedGraph DEF Inserting
        <4>3. SecondOf(w) = s
          BY <4>1, <4>2 DEF There, SecondOf
        <4>4. /\ writer'[w].step = "insert" /\ writer'[w].stamp = k
              /\ writer'[w].nodes = ns \ {n} /\ writer'[w].edges = es
              /\ nodes'[s][n] = k
          BY <1>0, <2>5, <3>1, <4>1, <4>3 DEF InsertNode, TypeOK
        <4>5. Inserting(w, s)'
          BY <4>2, <4>4 DEF Inserting, There
        <4> QED BY <4>5 DEF OneIsComing
      <3> QED BY <1>0, <3>2, <3>3, <3>4, <3>5, Spared
    <2>6. ASSUME NEW e \in EdgeIds, InsertEdge(w, e) PROVE OneIsComing(s)'
      <3>1. SecondOf(w) \in Seconds /\ header' = header /\ spoilt' = spoilt /\ built' = built
        BY <1>0, <2>6, WriterGraph DEF InsertEdge, Storing, history
      <3>2. Spares(w, s)
        BY <1>0, <2>6, <3>1 DEF InsertEdge, Spares, TypeOK
      <3>3. OneIsComing(s)
        BY <3>1 DEF SettleInv
      <3>4. ~Clearing(w, s)
        BY <2>6 DEF InsertEdge, Clearing
      <3>5. ASSUME Inserting(w, s) PROVE OneIsComing(s)'
        <4>1. PICK k, ns, es : k = writer[w].stamp /\ ns = writer[w].nodes /\ es = writer[w].edges
          OBVIOUS
        <4>2. There(s, k, ns, es) /\ There(s, k, ns, es)'
          BY <1>0, <3>2, <3>5, <4>1, SparedGraph DEF Inserting
        <4>3. SecondOf(w) = s
          BY <4>1, <4>2 DEF There, SecondOf
        <4>4. /\ writer'[w].step = "insert" /\ writer'[w].stamp = k /\ ns = {}
              /\ writer'[w].nodes = {} /\ writer'[w].edges = es \ {e}
              /\ edges'[s][e] = k
          BY <1>0, <2>6, <3>1, <4>1, <4>3 DEF InsertEdge, TypeOK
        <4>5. Inserting(w, s)'
          BY <4>2, <4>4 DEF Inserting, There
        <4> QED BY <4>5 DEF OneIsComing
      <3> QED BY <1>0, <3>2, <3>3, <3>4, <3>5, Spared
    <2>7. CASE Clash(w) \/ Die(w)
      <3>1. s # SecondOf(w) /\ s \notin spoilt /\ UNCHANGED <<built, header, nodes, edges>>
        BY <2>7 DEF Clash, Die, tables
      <3>2. Spares(w, s) /\ OneIsComing(s)
        BY <1>0, <2>7, <3>1 DEF Clash, Die, Spares, SettleInv, TypeOK
      <3>3. ~Clearing(w, s) /\ ~Inserting(w, s)
        BY <3>1 DEF Clearing, Inserting, There, SecondOf
      <3> QED BY <1>0, <3>2, <3>3, Spared
    <2>8. CASE Stored(w)
      <3>1. UNCHANGED <<built, header, nodes, edges, spoilt>>
        BY <2>8 DEF Stored, tables
      <3>2. Spares(w, s) /\ OneIsComing(s)
        BY <1>0, <2>8, <3>1 DEF Stored, Spares, SettleInv, TypeOK
      <3>3. ~Clearing(w, s)
        BY <2>8 DEF Stored, Clearing
      <3>4. ASSUME Inserting(w, s) PROVE OneIsComing(s)'
        <4>1. PICK k : k = writer[w].stamp
          OBVIOUS
        <4>2. There(s, k, {}, {})
          BY <2>8, <3>4, <4>1 DEF Stored, Inserting
        <4>3. There(s, k, {}, {})' /\ k \in 1 .. Len(built')
          BY <1>0, <3>1, <3>2, <4>2, SparedGraph DEF There
        <4> QED BY <4>3 DEF OneIsComing
      <3> QED BY <1>0, <3>2, <3>3, <3>4, Spared
    <2> QED BY <1>2, <2>1, <2>2, <2>3, <2>4, <2>5, <2>6, <2>7, <2>8 DEF WriterStep
  <1> QED BY <1>1, <1>2 DEF Next

\* However the stores of a second overlap, if none of them is refused or dies, the
\* graph of the one that deleted last is there in the end, every row of it.
LEMMA OverlapsAreNoticed == GraphSpec => []SettledIsComplete
  <1>1. TypeInv /\ SettleInv => SettledIsComplete
    <2> SUFFICES ASSUME TypeInv, SettleInv, NEW s \in Seconds \ spoilt, header[s] # 0,
                        \A w \in Writers : ~(writer[w].step \in Storing /\ SecondOf(w) = s)
                 PROVE  \E k \in DOMAIN built :
                            /\ built[k].second = s
                            /\ \A n \in built[k].graph.nodes : nodes[s][n] = k
                            /\ \A e \in built[k].graph.edges : edges[s][e] = k
      BY DEF SettledIsComplete
    <2>1. OneIsComing(s) /\ DOMAIN built = 1 .. Len(built)
      BY DEF SettleInv, TypeInv, TypeOK
    <2>2. ASSUME NEW w \in Writers PROVE ~Clearing(w, s) /\ ~Inserting(w, s)
      BY DEF Clearing, Inserting, There, SecondOf, Storing
    <2>3. PICK k \in 1 .. Len(built) : There(s, k, {}, {})
      BY <2>1, <2>2 DEF OneIsComing
    <2> QED BY <2>1, <2>3 DEF There
  <1>2. TypeInv /\ [Next]_vars => TypeInv'
    BY TypeInvNext
  <1>3. TypeInv /\ SettleInv /\ [Next]_vars => SettleInv'
    BY SettleInvNext
  <1> QED BY <1>1, <1>2, <1>3, TypeInvInit, SettleInvInit, PTL DEF GraphSpec

\* A store that no other of its second overlaps leaves its graph and is not
\* refused, and of those that overlap without an error one graph is left whole.
THEOREM StoresAlwaysWork == GraphSpec => []StoresWork
  <1>1. LoneStoresWork /\ SettledIsComplete => StoresWork BY DEF StoresWork
  <1> QED BY <1>1, LoneStoresAlwaysWork, OverlapsAreNoticed, PTL

(***************************************************************************)
(* The searches on what was loaded.                                        *)
(***************************************************************************)
\* Breadth-first search over whatever a reader has loaded, while stores go on or not:
\* what it finds is exactly what is within its depth, over shortest paths; and on a
\* graph that was loaded whole, the answer to a path query has no gap.
THEOREM SearchesAlwaysExact == GraphSpec => SearchesAreExact
  <1> DEFINE Exact == \A r \in Readers : JustLoaded(r) =>
                        /\ FindsShortestPaths(Loaded(r)')
                        /\ FindsNeighbors(Loaded(r)')
                        /\ calm'[r] => AnswersWithoutGaps(Loaded(r)')
  <1>1. StoreInv /\ StoreInv' => Exact
    <2> SUFFICES ASSUME StoreInv, StoreInv', NEW r \in Readers, JustLoaded(r)
                 PROVE  /\ FindsShortestPaths(Loaded(r)')
                        /\ FindsNeighbors(Loaded(r)')
                        /\ calm'[r] => AnswersWithoutGaps(Loaded(r)')
      BY DEF Exact
    <2>1. PICK g : g = Loaded(r)'
      OBVIOUS
    <2>2. g.nodes = reader'[r].nodes /\ g.edges = reader'[r].edges
      BY <2>1 DEF Loaded
    <2>3. IsGraph(g)
      <3>1. reader'[r] \in ReaderStates
        BY DEF StoreInv, TypeInv, TypeOK
      <3>2. g.nodes \subseteq NodeIds /\ g.edges \subseteq EdgeIds
        BY <2>2, <3>1 DEF ReaderStates
      <3> QED BY <3>2, ConnectedAssumption DEF IsGraph
    <2>4. FindsShortestPaths(g) /\ FindsNeighbors(g)
      BY <2>3, ShortestPathsFound, NeighborsFound
    <2>5. ASSUME calm'[r] PROVE AnswersWithoutGaps(g)
      <3>1. reader'[r].step = "loaded"
        BY DEF JustLoaded
      <3>2. PICK k \in 1 .. Len(built') : k = reader'[r].stamp
        BY <3>1 DEF StoreInv, TypeInv, StampsAreBuilt
      <3>3. PICK original \in Graphs : original = built'[k].graph
        <4>1. built' \in Seq([second : Seconds, graph : Graphs])
          BY DEF StoreInv, TypeInv, TypeOK
        <4>2. built'[k] \in [second : Seconds, graph : Graphs]
          BY <4>1, SeqElement
        <4> QED BY <4>2
      <3>4. g.nodes = original.nodes /\ g.edges = original.edges
        BY <2>2, <2>5, <3>1, <3>2, <3>3 DEF StoreInv, CalmLoads
      <3>5. HasEnds(g) /\ Connected(g)
        <4>1. HasEnds(g)
          BY <3>4, ConnectedAssumption DEF HasEnds
        <4>2. \A a, b : Joined(g, a, b) <=> Joined(original, a, b)
          BY <3>4 DEF Joined
        <4>3. Connected(original)
          BY ConnectedAssumption DEF Connected
        <4> QED BY <3>4, <4>1, <4>2, <4>3 DEF Connected
      <3> QED BY <2>3, <3>5, NoGaps
    <2> QED BY <2>1, <2>4, <2>5
  <1>2. GraphSpec => [][Exact]_vars
    BY <1>1, StoreInvAlways, PTL DEF GraphSpec
  <1> QED BY <1>2 DEF SearchesAreExact
==============================================================================
