---------------------------- MODULE ResultsProofs ----------------------------
(***************************************************************************)
(* Proofs about Results.                                                   *)
(*                                                                         *)
(* The state does not say in which second a snapshot was taken; that it    *)
(* was taken in one, and is in no file but that of this second, is what    *)
(* most of the arguments rest on (DateInv, DatedBy).  On it rest, one      *)
(* after the other, what an undisturbed run has stored (StoredInv), what   *)
(* episodes are there (EpisodesInv), and in which order rows are           *)
(* (ListedInv).                                                            *)
(***************************************************************************)
EXTENDS Results, FiniteSetTheorems, WellFoundedInduction, TLAPS

(***************************************************************************)
(* Sets of numbers and their order                                         *)
(***************************************************************************)
LEMMA Least ==
    ASSUME NEW S \in SUBSET Nat, S # {}
    PROVE  \E m \in S : \A n \in S : m <= n
<1>1. PICK m \in S : \A n \in S : <<n, m>> \notin OpToRel(<, Nat)
  BY NatLessThanWellFounded, WFMin
<1>2. OpToRel(<, Nat) = {ss \in Nat \X Nat : ss[1] < ss[2]}
  BY DEF OpToRel
<1>3. ASSUME NEW n \in S
      PROVE  m <= n
  <2>1. ~(n < m)
    BY <1>1, <1>2
  <2> QED BY <2>1
<1> QED
  BY <1>3

\* Of a family of subsets of a finite set, one contains no other.
LEMMA MinimalMember ==
    \A S : IsFiniteSet(S) =>
        \A F \in SUBSET (SUBSET S) : F # {} => \E m \in F : \A n \in F : n \subseteq m => n = m
<1> SUFFICES ASSUME NEW S, IsFiniteSet(S), NEW F \in SUBSET (SUBSET S), F # {}
             PROVE  \E m \in F : \A n \in F : n \subseteq m => n = m
  OBVIOUS
<1>1. IsWellFoundedOn(StrictSubsetOrdering(S), FiniteSubsetsOf(S))
  BY FS_StrictSubsetOrderingWellFounded
<1>2. F \subseteq FiniteSubsetsOf(S)
  BY FS_Subset DEF FiniteSubsetsOf
<1>3. \E m \in F : \A n \in F : <<n, m>> \notin StrictSubsetOrdering(S)
  BY <1>1, <1>2, WFMin
<1> QED
  BY <1>3 DEF StrictSubsetOrdering

Rising(seq) == \A i, j \in DOMAIN seq : i < j => seq[i] < seq[j]
Sortable(S) == \E seq \in SetToSeqs(S) : Rising(seq)

\* A finite set of numbers can be sorted: put the least before the others.
LEMMA SortedExists ==
    ASSUME NEW S, \A x \in S : x \in Nat, IsFiniteSet(S)
    PROVE  Sortable(S)
<1> SUFFICES ASSUME ~Sortable(S) PROVE FALSE
  OBVIOUS
<1>1. PICK Bad : Bad = {T \in SUBSET S : ~Sortable(T)}
  OBVIOUS
<1>2. Bad \in SUBSET (SUBSET S) /\ Bad # {}
  BY <1>1
<1>3. PICK T \in Bad : \A U \in Bad : U \subseteq T => U = T
  BY <1>2, MinimalMember
<1>4. T \in SUBSET S /\ T \subseteq Nat /\ IsFiniteSet(T) /\ ~ \E seq \in SetToSeqs(T) : Rising(seq)
  BY <1>1, FS_Subset DEF Sortable
<1>5. CASE T = {}
  <2>1. Cardinality(T) = 0
    BY <1>5, FS_EmptySet
  <2> DEFINE empty == [i \in 1 .. 0 |-> 0]
  <2>2. empty \in SetToSeqs(T) /\ Rising(empty)
    BY <2>1, <1>5 DEF SetToSeqs, Rising
  <2> QED BY <1>4, <2>2
<1>6. CASE T # {}
  <2>1. PICK m \in T : \A x \in T : m <= x
    BY <1>4, <1>6, Least
  <2> DEFINE U == T \ {m}
  <2>2. IsFiniteSet(U) /\ Cardinality(U) = Cardinality(T) - 1 /\ Cardinality(T) \in Nat /\ Cardinality(U) \in Nat
    BY <1>4, FS_RemoveElement, FS_CardinalityType
  <2>3. U \notin Bad /\ U \in SUBSET S
    BY <1>3, <1>4, <2>1
  <2>4. PICK seq \in SetToSeqs(U) : Rising(seq)
    BY <1>1, <2>3 DEF Sortable
  <2>5. PICK n \in Nat : n = Cardinality(U)
    BY <2>2
  <2>6. /\ seq \in [1 .. n -> U] /\ DOMAIN seq = 1 .. n
        /\ \A i, j \in 1 .. n : i < j => seq[i] < seq[j]
        /\ \A i, j \in 1 .. n : i # j => seq[i] # seq[j]
    BY <2>4, <2>5 DEF SetToSeqs, Rising
  <2> DEFINE longer == [i \in 1 .. n + 1 |-> IF i = 1 THEN m ELSE seq[i - 1]]
  <2>7. ASSUME NEW i \in 1 .. n + 1
        PROVE  /\ i = 1 => longer[i] = m
               /\ i # 1 => i - 1 \in 1 .. n /\ longer[i] = seq[i - 1] /\ longer[i] \in U
    BY <2>6
  <2>8. longer \in [1 .. n + 1 -> T]
    BY <2>1, <2>7
  <2>9. ASSUME NEW i \in 1 .. n + 1, NEW j \in 1 .. n + 1, i < j PROVE longer[i] < longer[j]
    <3>1. j # 1 /\ longer[j] = seq[j - 1] /\ longer[j] \in U /\ j - 1 \in 1 .. n
      BY <2>7, <2>9
    <3>2. CASE i = 1
      <4>1. m \in Nat /\ longer[j] \in Nat /\ m <= longer[j] /\ m # longer[j]
        BY <1>4, <2>1, <3>1
      <4> QED BY <2>7, <3>2, <4>1
    <3>3. CASE i # 1
      <4>1. i - 1 \in 1 .. n /\ longer[i] = seq[i - 1] /\ i - 1 < j - 1
        BY <2>7, <2>9, <3>3
      <4> QED BY <2>6, <3>1, <4>1
    <3> QED BY <3>2, <3>3
  <2>10. \A i, j \in 1 .. n + 1 : i # j => longer[i] # longer[j]
    <3>1. \A i \in 1 .. n + 1 : longer[i] \in Nat
      BY <1>4, <2>8
    <3> QED BY <2>9, <3>1
  <2>11. Cardinality(T) = n + 1
    BY <2>2, <2>5
  <2>12. longer \in SetToSeqs(T)
    BY <2>8, <2>10, <2>11 DEF SetToSeqs
  <2>13. Rising(longer)
    BY <2>9 DEF Rising
  <2> QED BY <1>4, <2>12, <2>13
<1> QED BY <1>5, <1>6

\* What Sorted is: all of a set, in order, each once.
LEMMA SortedTells ==
    ASSUME NEW S \in SUBSET Nat, IsFiniteSet(S)
    PROVE  /\ Sorted(S) \in Seq(S) /\ Len(Sorted(S)) = Cardinality(S)
           /\ Rising(Sorted(S))
           /\ \A x \in S : \E i \in 1 .. Len(Sorted(S)) : Sorted(S)[i] = x
<1>1. Sorted(S) \in SetToSeqs(S) /\ Rising(Sorted(S))
  BY SortedExists DEF Sorted, Rising, Sortable
<1>2. PICK n \in Nat : n = Cardinality(S)
  BY FS_CardinalityType
<1>3. PICK seq : seq = Sorted(S)
  OBVIOUS
<1>4. seq \in [1 .. n -> S] /\ \A i, j \in 1 .. n : i # j => seq[i] # seq[j]
  BY <1>1, <1>2, <1>3 DEF SetToSeqs
<1>5. seq \in Seq(S) /\ Len(seq) = n
  BY <1>4
<1>6. seq \in Injection(1 .. n, S)
  BY <1>4 DEF Injection, IsInjective
<1>7. Cardinality(1 .. n) = n
  BY FS_Interval
<1>8. seq \in Surjection(1 .. n, S)
  BY <1>2, <1>6, <1>7, FS_Injection
<1> QED BY <1>1, <1>2, <1>3, <1>5, <1>8 DEF Surjection


(***************************************************************************)
(* Lists of statements                                                     *)
(***************************************************************************)
\* A sequence of the elements of S, all of them.
Lists(seq, S) ==
    /\ seq \in Seq(S)
    /\ \A x \in S : \E i \in 1 .. Len(seq) : seq[i] = x

LEMMA ListsTell ==
    ASSUME NEW seq, NEW S, Lists(seq, S)
    PROVE  seq \in Seq(S) /\ Len(seq) \in Nat /\ DOMAIN seq = 1 .. Len(seq) /\ ToSet(seq) = S
<1>1. seq \in Seq(S) /\ Len(seq) \in Nat /\ DOMAIN seq = 1 .. Len(seq)
  BY DEF Lists
<1>2. ToSet(seq) \subseteq S
  BY <1>1 DEF ToSet
<1>3. S \subseteq ToSet(seq)
  BY <1>1 DEF ToSet, Lists
<1> QED BY <1>1, <1>2, <1>3

LEMMA ListsNothing == Lists(<<>>, {})
  BY DEF Lists

LEMMA BothTell ==
    \A S : \A s, t \in Seq(S) :
        /\ Len(s) \in Nat /\ Len(t) \in Nat
        /\ s \o t \in Seq(S) /\ Len(s \o t) = Len(s) + Len(t)
        /\ \A i \in 1 .. Len(s) : (s \o t)[i] = s[i]
        /\ \A i \in 1 .. Len(t) : (s \o t)[Len(s) + i] = t[i]
<1> SUFFICES ASSUME NEW S, NEW s \in Seq(S), NEW t \in Seq(S)
             PROVE  /\ Len(s) \in Nat /\ Len(t) \in Nat
                    /\ s \o t \in Seq(S) /\ Len(s \o t) = Len(s) + Len(t)
                    /\ \A i \in 1 .. Len(s) : (s \o t)[i] = s[i]
                    /\ \A i \in 1 .. Len(t) : (s \o t)[Len(s) + i] = t[i]
  OBVIOUS
<1>1. Len(s) \in Nat /\ Len(t) \in Nat
  OBVIOUS
<1>2. s \o t \in Seq(S) /\ Len(s \o t) = Len(s) + Len(t)
  BY <1>1
<1>3. \A i \in 1 .. Len(s) : (s \o t)[i] = s[i]
  BY <1>1
<1>4. \A i \in 1 .. Len(t) : (s \o t)[Len(s) + i] = t[i]
  BY <1>1
<1> QED BY <1>1, <1>2, <1>3, <1>4

LEMMA ListsBoth ==
    ASSUME NEW s, NEW S, NEW t, NEW T, Lists(s, S), Lists(t, T)
    PROVE  Lists(s \o t, S \cup T)
<1>1. s \in Seq(S \cup T) /\ t \in Seq(S \cup T)
  BY DEF Lists
<1>2. PICK m \in Nat, n \in Nat : m = Len(s) /\ n = Len(t)
  BY <1>1
<1>3. s \o t \in Seq(S \cup T) /\ Len(s \o t) = m + n
  BY <1>1, <1>2
<1>4. ASSUME NEW i \in 1 .. m PROVE i \in 1 .. m + n /\ (s \o t)[i] = s[i]
  BY <1>1, <1>2
<1>5. ASSUME NEW i \in 1 .. n PROVE m + i \in 1 .. m + n /\ (s \o t)[m + i] = t[i]
  BY <1>1, <1>2
<1>6. ASSUME NEW x \in S \cup T PROVE \E i \in 1 .. m + n : (s \o t)[i] = x
  <2>1. CASE x \in S
    BY <2>1, <1>2, <1>4 DEF Lists
  <2>2. CASE x \in T
    <3>1. PICK i \in 1 .. n : t[i] = x
      BY <2>2, <1>2 DEF Lists
    <3> QED BY <3>1, <1>5
  <2> QED BY <2>1, <2>2
<1> QED BY <1>3, <1>6 DEF Lists

\* SetToSeq lists a finite set.
LEMMA ListsSet ==
    ASSUME NEW S, IsFiniteSet(S)
    PROVE  Lists(SetToSeq(S), S)
<1>1. PICK n \in Nat : n = Cardinality(S) /\ ExistsBijection(1 .. n, S)
  BY FS_CardinalityType
<1>2. PICK f \in Bijection(1 .. n, S) : TRUE
  BY <1>1 DEF ExistsBijection
<1>3. f \in [1 .. n -> S] /\ IsInjective(f)
  BY <1>2 DEF Bijection, Injection
<1>4. PICK seq : seq = SetToSeq(S)
  OBVIOUS
<1>5. seq \in [1 .. n -> S] /\ IsInjective(seq)
  BY <1>1, <1>3, <1>4 DEF SetToSeq
<1>6. seq \in Injection(1 .. n, S)
  BY <1>5 DEF Injection
<1>7. seq \in Surjection(1 .. n, S)
  BY <1>1, <1>6, FS_Interval, FS_Injection
<1>8. seq \in Seq(S) /\ Len(seq) = n
  BY <1>5
<1> QED BY <1>4, <1>7, <1>8 DEF Lists, Surjection

\* Counting up to every number.
LEMMA CountUp ==
    ASSUME NEW Q, 0 \in Q, \A n \in Nat : n \in Q => n + 1 \in Q
    PROVE  \A n \in Nat : n \in Q
<1> SUFFICES ASSUME NEW k \in Nat, k \notin Q PROVE FALSE
  OBVIOUS
<1>1. PICK m \in Nat \ Q : \A n \in Nat \ Q : m <= n
  <2>1. Nat \ Q \in SUBSET Nat /\ Nat \ Q # {}
    OBVIOUS
  <2> QED BY <2>1, Least
<1>2. m - 1 \in Nat /\ m - 1 \in Q
  BY <1>1
<1> QED BY <1>1, <1>2

\* FlattenSeq: the sequences up to the n-th, one after the other.
Joins(seqs, n, f) == f = [i \in 1 .. n |-> IF i = 1 THEN seqs[i] ELSE f[i - 1] \o seqs[i]]

LEMMA JoinsExist ==
    ASSUME NEW seqs, NEW n \in Nat
    PROVE  \E f : Joins(seqs, n, f)
<1>1. PICK Q : Q = {m \in Nat : \E f : Joins(seqs, m, f)}
  OBVIOUS
<1>2. 0 \in Q
  <2>1. PICK f : f = [i \in 1 .. 0 |-> i]
    OBVIOUS
  <2>2. f = [i \in 1 .. 0 |-> IF i = 1 THEN seqs[i] ELSE f[i - 1] \o seqs[i]]
    BY <2>1
  <2> QED BY <1>1, <2>2 DEF Joins
<1>3. ASSUME NEW m \in Nat, m \in Q PROVE m + 1 \in Q
  <2>1. PICK f : f = [i \in 1 .. m |-> IF i = 1 THEN seqs[i] ELSE f[i - 1] \o seqs[i]]
    BY <1>1, <1>3 DEF Joins
  <2>2. PICK g : g = [i \in 1 .. m + 1 |->
                        IF i \in 1 .. m THEN f[i]
                        ELSE IF i = 1 THEN seqs[i] ELSE f[i - 1] \o seqs[i]]
    OBVIOUS
  <2>3. ASSUME NEW i \in 1 .. m + 1
        PROVE  g[i] = IF i = 1 THEN seqs[i] ELSE g[i - 1] \o seqs[i]
    <3>1. CASE i = 1
      <4>1. CASE i \in 1 .. m
        BY <2>1, <2>2, <3>1, <4>1
      <4>2. CASE i \notin 1 .. m
        BY <2>2, <3>1, <4>2
      <4> QED BY <4>1, <4>2
    <3>2. CASE i # 1
      <4>1. i - 1 \in 1 .. m /\ i - 1 \in 1 .. m + 1
        BY <3>2
      <4>2. g[i - 1] = f[i - 1]
        BY <2>2, <4>1
      <4>3. CASE i \in 1 .. m
        BY <2>1, <2>2, <3>2, <4>2, <4>3
      <4>4. CASE i \notin 1 .. m
        BY <2>2, <3>2, <4>2, <4>4
      <4> QED BY <4>3, <4>4
    <3> QED BY <3>1, <3>2
  <2>4. g = [i \in 1 .. m + 1 |-> IF i = 1 THEN seqs[i] ELSE g[i - 1] \o seqs[i]]
    BY <2>2, <2>3
  <2>5. \E h : Joins(seqs, m + 1, h)
    BY <2>4 DEF Joins
  <2> QED BY <1>1, <2>5
<1>4. n \in Q
  BY <1>2, <1>3, CountUp
<1> QED BY <1>1, <1>4

\* What it lists is what the sequences list.
LEMMA ListsAll ==
    ASSUME NEW n \in Nat, NEW seqs, NEW sets, seqs = [k \in 1 .. n |-> seqs[k]],
           \A k \in 1 .. n : Lists(seqs[k], sets[k])
    PROVE  Lists(FlattenSeq(seqs), UNION {sets[k] : k \in 1 .. n})
<1>1. seqs \in Seq({seqs[k] : k \in 1 .. n}) /\ Len(seqs) = n
  <2>1. PICK S : S = {seqs[k] : k \in 1 .. n}
    OBVIOUS
  <2>2. seqs \in [1 .. n -> S]
    BY <2>1
  <2>3. seqs \in Seq(S) /\ Len(seqs) = n
    BY <2>2
  <2> QED BY <2>1, <2>3
<1>2. CASE n = 0
  <2>1. seqs = <<>>
    BY <1>1, <1>2
  <2>2. UNION {sets[k] : k \in 1 .. n} = {}
    BY <1>2
  <2>3. FlattenSeq(seqs) = <<>>
    BY <1>1, <1>2, <2>1 DEF FlattenSeq
  <2> QED BY <2>2, <2>3, ListsNothing
<1>3. CASE n # 0
  <2>1. PICK f : f = CHOOSE g : Joins(seqs, n, g)
    OBVIOUS
  <2>2. Joins(seqs, n, f)
    BY <2>1, JoinsExist
  <2>3. FlattenSeq(seqs) = f[n]
    BY <1>1, <1>3, <2>1 DEF FlattenSeq, Joins
  <2>4. \A i \in 1 .. n : f[i] = IF i = 1 THEN seqs[i] ELSE f[i - 1] \o seqs[i]
    BY <2>2 DEF Joins
  <2>5. PICK Q : Q = {m \in Nat : m \in 1 .. n => Lists(f[m], UNION {sets[k] : k \in 1 .. m})}
    OBVIOUS
  <2>6. 0 \in Q
    BY <2>5
  <2>7. ASSUME NEW m \in Nat, m \in Q PROVE m + 1 \in Q
    <3>1. SUFFICES ASSUME m + 1 \in 1 .. n
                   PROVE  Lists(f[m + 1], UNION {sets[k] : k \in 1 .. m + 1})
      BY <2>5
    <3>2. Lists(seqs[m + 1], sets[m + 1])
      BY <3>1
    <3>3. CASE m = 0
      <4>1. UNION {sets[k] : k \in 1 .. m + 1} = sets[m + 1]
        <5>1. 1 .. m + 1 = {m + 1}
          BY <3>3
        <5> QED BY <5>1
      <4>2. f[m + 1] = seqs[m + 1]
        BY <2>4, <3>1, <3>3
      <4> QED BY <3>2, <4>1, <4>2
    <3>4. CASE m # 0
      <4>0. m + 1 # 1 /\ (m + 1) - 1 = m
        BY <3>4
      <4>1. f[m + 1] = f[m] \o seqs[m + 1]
        BY <2>4, <3>1, <4>0
      <4>2. Lists(f[m], UNION {sets[k] : k \in 1 .. m})
        BY <2>5, <2>7, <3>1, <3>4
      <4>3. UNION {sets[k] : k \in 1 .. m + 1} = (UNION {sets[k] : k \in 1 .. m}) \cup sets[m + 1]
        <5>1. 1 .. m + 1 = (1 .. m) \cup {m + 1}
          OBVIOUS
        <5> QED BY <5>1
      <4> QED BY <3>2, <4>1, <4>2, <4>3, ListsBoth
    <3> QED BY <3>3, <3>4
  <2>8. n \in Q
    BY <2>6, <2>7, CountUp
  <2>9. Lists(f[n], UNION {sets[k] : k \in 1 .. n})
    BY <1>3, <2>5, <2>8
  <2> QED BY <2>3, <2>9
<1> QED BY <1>2, <1>3

(***************************************************************************)
(* What a comparison finds                                                 *)
(***************************************************************************)
Found(p, older, newer) == A(p, <<>>, <<>>, <<>>)!Analyzed(p, older, newer)
CriticalityOf(p, r) == A(p, <<>>, <<>>, <<>>)!CriticalityOf(p, r)
EnvironmentOf(p, r) == A(p, <<>>, <<>>, <<>>)!EnvironmentOf(p, r)
NewSubdomain(p, r) == A(p, <<>>, <<>>, <<>>)!NewSubdomain(p, r)
NewService(p, r) == A(p, <<>>, <<>>, <<>>)!NewService(p, r)

NewSubdomains == {"new_admin_subdomain", "new_nonprod_subdomain", "new_subdomain"}
NewServices == {"new_http_service", "new_https_service", "new_service"}
Changes == {"service_became_available", "service_backend_changed", "service_fingerprint_changed"}
Categories == {"new_ip", "removed_ip", "subdomain_removed", "service_removed"}
              \cup NewSubdomains \cup NewServices \cup Changes
Resources == Ips \cup Subdomains \cup Services

Made(category, r, severity, score, criticality) ==
    [category |-> category, resource |-> r, severity |-> severity,
     score |-> score, criticality |-> criticality, state |-> "new"]

\* A finding of category c about the resource r, which a policy p determines.
Told(p, c, r) ==
    CASE c = "new_ip" -> Made("new_ip", r, "low", 10, CriticalityOf(p, r))
      [] c = "removed_ip" -> Made("removed_ip", r, "info", 3, CriticalityOf(p, r))
      [] c \in NewSubdomains -> NewSubdomain(p, r)
      [] c = "subdomain_removed" -> Made("subdomain_removed", r, "info", 5, CriticalityOf(p, r))
      [] c \in NewServices -> NewService(p, r)
      [] c = "service_removed" -> Made("service_removed", r, "info", 5, CriticalityOf(p, r))
      [] c = "service_became_available" ->
           Made(c, r, IF EnvironmentOf(p, r) \in {"admin", "production"} THEN "high" ELSE "medium",
                IF EnvironmentOf(p, r) \in {"admin", "production"} THEN 75 ELSE 60, CriticalityOf(p, r))
      [] c = "service_backend_changed" ->
           Made(c, r, IF CriticalityOf(p, r) \in {"critical", "high"} THEN "medium" ELSE "low",
                IF CriticalityOf(p, r) \in {"critical", "high"} THEN 30 ELSE 15, CriticalityOf(p, r))
      [] c = "service_fingerprint_changed" ->
           Made(c, r, "medium", 40, CriticalityOf(p, r))

\* What is made, and of what.
IsMade(f) == f = Made(f.category, f.resource, f.severity, f.score, f.criticality)

LEMMA SubdomainIsMade ==
    ASSUME NEW p, NEW r
    PROVE  LET f == NewSubdomain(p, r)
           IN  IsMade(f) /\ f.category \in NewSubdomains /\ f.resource = r /\ f.score \in Nat
<1>1. CASE Pattern[r] = "admin"
  BY <1>1 DEF NewSubdomain, IsMade, Made, NewSubdomains, A!NewSubdomain, A!Finding
<1>2. CASE Pattern[r] = "nonprod"
  BY <1>2 DEF NewSubdomain, IsMade, Made, NewSubdomains, A!NewSubdomain, A!Finding
<1>3. CASE Pattern[r] # "admin" /\ Pattern[r] # "nonprod"
  BY <1>3 DEF NewSubdomain, IsMade, Made, NewSubdomains, A!NewSubdomain, A!Finding
<1> QED BY <1>1, <1>2, <1>3

LEMMA ServiceIsMade ==
    ASSUME NEW p, NEW r
    PROVE  LET f == NewService(p, r)
           IN  IsMade(f) /\ f.category \in NewServices /\ f.resource = r /\ f.score \in Nat
<1>1. CASE Scheme[r] = "http"
  BY <1>1 DEF NewService, IsMade, Made, NewServices, A!NewService, A!Finding
<1>2. CASE Scheme[r] = "https"
  BY <1>2 DEF NewService, IsMade, Made, NewServices, A!NewService, A!Finding
<1>3. CASE Scheme[r] # "http" /\ Scheme[r] # "https"
  BY <1>3 DEF NewService, IsMade, Made, NewServices, A!NewService, A!Finding
<1> QED BY <1>1, <1>2, <1>3

\* The changes of a service that a policy has no say in.
ChangeOf(c, before, after) ==
    \/ c = "service_became_available" /\ A(<<>>, <<>>, <<>>, <<>>)!BecameAvailable(before, after)
    \/ c = "service_backend_changed" /\ before.backend # after.backend
    \/ c = "service_fingerprint_changed" /\ before.technologies # after.technologies

LEMMA ChangeTells ==
    ASSUME NEW p, NEW r, NEW before, NEW after
    PROVE  /\ \A f \in A(p, <<>>, <<>>, <<>>)!ServiceChange(p, r, before, after) :
                /\ IsMade(f) /\ f.resource = r /\ f.score \in Nat
                /\ f = Told(p, f.category, r) /\ ChangeOf(f.category, before, after)
           /\ \A c : ChangeOf(c, before, after) =>
                Told(p, c, r) \in A(p, <<>>, <<>>, <<>>)!ServiceChange(p, r, before, after)
<1> DEFINE all == A(p, <<>>, <<>>, <<>>)!ServiceChange(p, r, before, after)
           available == Told(p, "service_became_available", r)
           backend == Told(p, "service_backend_changed", r)
           fingerprint == Told(p, "service_fingerprint_changed", r)
<1>1. /\ available = Made("service_became_available", r,
                IF EnvironmentOf(p, r) \in {"admin", "production"} THEN "high" ELSE "medium",
                IF EnvironmentOf(p, r) \in {"admin", "production"} THEN 75 ELSE 60, CriticalityOf(p, r))
      /\ backend = Made("service_backend_changed", r,
                IF CriticalityOf(p, r) \in {"critical", "high"} THEN "medium" ELSE "low",
                IF CriticalityOf(p, r) \in {"critical", "high"} THEN 30 ELSE 15, CriticalityOf(p, r))
      /\ fingerprint = Made("service_fingerprint_changed", r, "medium", 40, CriticalityOf(p, r))
  BY DEF Told, NewSubdomains, NewServices
<1>2. all = {f \in {available} : A(<<>>, <<>>, <<>>, <<>>)!BecameAvailable(before, after)}
            \cup {f \in {backend} : before.backend # after.backend}
            \cup {f \in {fingerprint} : before.technologies # after.technologies}
  BY <1>1 DEF A!ServiceChange, A!Finding, Made, A!BecameAvailable, A!IsSuccess, CriticalityOf, EnvironmentOf
<1>3. /\ IsMade(available) /\ available.resource = r /\ available.category = "service_became_available"
      /\ IsMade(backend) /\ backend.resource = r /\ backend.category = "service_backend_changed"
      /\ IsMade(fingerprint) /\ fingerprint.resource = r /\ fingerprint.category = "service_fingerprint_changed"
      /\ {available.score, backend.score, fingerprint.score} \subseteq Nat
  BY <1>1 DEF IsMade, Made
<1> HIDE DEF all, available, backend, fingerprint
<1>4. ASSUME NEW f \in all
      PROVE  /\ IsMade(f) /\ f.resource = r /\ f.score \in Nat
             /\ f = Told(p, f.category, r) /\ ChangeOf(f.category, before, after)
  BY <1>2, <1>3, <1>4 DEF available, backend, fingerprint, ChangeOf
<1>5. ASSUME NEW c, ChangeOf(c, before, after) PROVE Told(p, c, r) \in all
  BY <1>2, <1>5 DEF available, backend, fingerprint, ChangeOf
<1> QED BY <1>4, <1>5 DEF all

\* Between which scans a finding of category c about r is made.
Answering(scan) == {s \in Services : scan.services[s] # Gone}
SubdomainName(r) == IF Pattern[r] = "admin" THEN "new_admin_subdomain"
                    ELSE IF Pattern[r] = "nonprod" THEN "new_nonprod_subdomain" ELSE "new_subdomain"
ServiceName(r) == IF Scheme[r] = "http" THEN "new_http_service"
                  ELSE IF Scheme[r] = "https" THEN "new_https_service" ELSE "new_service"
Calls(c, r, older, newer) ==
    \/ c = "new_ip" /\ r \in newer.ips \ older.ips
    \/ c = "removed_ip" /\ r \in older.ips \ newer.ips
    \/ c = SubdomainName(r) /\ r \in newer.subdomains \ older.subdomains
    \/ c = "subdomain_removed" /\ r \in older.subdomains \ newer.subdomains
    \/ c = ServiceName(r) /\ r \in Answering(newer) \ Answering(older)
    \/ c = "service_removed" /\ r \in Answering(older) \ Answering(newer)
    \/ /\ r \in Answering(older) \cap Answering(newer)
       /\ ChangeOf(c, older.services[r], newer.services[r])

LEMMA NamesTell ==
    ASSUME NEW p, NEW r
    PROVE  /\ NewSubdomain(p, r) = Told(p, SubdomainName(r), r) /\ SubdomainName(r) \in NewSubdomains
           /\ NewSubdomain(p, r).category = SubdomainName(r)
           /\ NewService(p, r) = Told(p, ServiceName(r), r) /\ ServiceName(r) \in NewServices
           /\ NewService(p, r).category = ServiceName(r)
<1>1. SubdomainName(r) \in NewSubdomains /\ ServiceName(r) \in NewServices
  BY DEF SubdomainName, ServiceName, NewSubdomains, NewServices
<1>2. NewSubdomain(p, r) = Told(p, SubdomainName(r), r) /\ NewService(p, r) = Told(p, ServiceName(r), r)
  BY <1>1 DEF Told, NewSubdomains, NewServices
<1>3. NewSubdomain(p, r).category = SubdomainName(r)
  BY DEF NewSubdomain, SubdomainName, A!NewSubdomain, A!Finding
<1>4. NewService(p, r).category = ServiceName(r)
  BY DEF NewService, ServiceName, A!NewService, A!Finding
<1> QED BY <1>1, <1>2, <1>3, <1>4

\* The parts of what is found.
LEMMA FoundIs ==
    ASSUME NEW p, NEW older, NEW newer
    PROVE  Found(p, older, newer) =
               {Told(p, "new_ip", r) : r \in newer.ips \ older.ips}
          \cup {Told(p, "removed_ip", r) : r \in older.ips \ newer.ips}
          \cup {Told(p, SubdomainName(r), r) : r \in newer.subdomains \ older.subdomains}
          \cup {Told(p, "subdomain_removed", r) : r \in older.subdomains \ newer.subdomains}
          \cup {Told(p, ServiceName(r), r) : r \in Answering(newer) \ Answering(older)}
          \cup {Told(p, "service_removed", r) : r \in Answering(older) \ Answering(newer)}
          \cup UNION {A(p, <<>>, <<>>, <<>>)!ServiceChange(p, r, older.services[r], newer.services[r]) :
                        r \in {s \in Answering(older) \cap Answering(newer) :
                                 older.services[s] # newer.services[s]}}
<1>1. ASSUME NEW r
      PROVE  /\ Told(p, "new_ip", r) = Made("new_ip", r, "low", 10, CriticalityOf(p, r))
             /\ Told(p, "removed_ip", r) = Made("removed_ip", r, "info", 3, CriticalityOf(p, r))
             /\ Told(p, "subdomain_removed", r) = Made("subdomain_removed", r, "info", 5, CriticalityOf(p, r))
             /\ Told(p, "service_removed", r) = Made("service_removed", r, "info", 5, CriticalityOf(p, r))
  BY DEF Told, NewSubdomains, NewServices
<1>2. Found(p, older, newer) =
               {Made("new_ip", r, "low", 10, CriticalityOf(p, r)) : r \in newer.ips \ older.ips}
          \cup {Made("removed_ip", r, "info", 3, CriticalityOf(p, r)) : r \in older.ips \ newer.ips}
          \cup {NewSubdomain(p, r) : r \in newer.subdomains \ older.subdomains}
          \cup {Made("subdomain_removed", r, "info", 5, CriticalityOf(p, r)) :
                   r \in older.subdomains \ newer.subdomains}
          \cup {NewService(p, r) : r \in Answering(newer) \ Answering(older)}
          \cup {Made("service_removed", r, "info", 5, CriticalityOf(p, r)) :
                   r \in Answering(older) \ Answering(newer)}
          \cup UNION {A(p, <<>>, <<>>, <<>>)!ServiceChange(p, r, older.services[r], newer.services[r]) :
                        r \in {s \in Answering(older) \cap Answering(newer) :
                                 older.services[s] # newer.services[s]}}
  BY DEF Found, A!Analyzed, A!Finding, Made, CriticalityOf, NewSubdomain, NewService, Answering,
         A!Present, A!Changed
<1> QED BY <1>1, <1>2, NamesTell

LEMMA FoundTells ==
    ASSUME NEW p, NEW older, NEW newer, NEW f \in Found(p, older, newer)
    PROVE  /\ IsMade(f) /\ f = Told(p, f.category, f.resource) /\ f.score \in Nat
           /\ Calls(f.category, f.resource, older, newer)
<1>0. ASSUME NEW r
      PROVE  /\ Told(p, "new_ip", r) = Made("new_ip", r, "low", 10, CriticalityOf(p, r))
             /\ Told(p, "removed_ip", r) = Made("removed_ip", r, "info", 3, CriticalityOf(p, r))
             /\ Told(p, "subdomain_removed", r) = Made("subdomain_removed", r, "info", 5, CriticalityOf(p, r))
             /\ Told(p, "service_removed", r) = Made("service_removed", r, "info", 5, CriticalityOf(p, r))
  BY DEF Told, NewSubdomains, NewServices
<1>1. CASE \E r \in newer.ips \ older.ips : f = Told(p, "new_ip", r)
  BY <1>0, <1>1 DEF Made, IsMade, Calls
<1>2. CASE \E r \in older.ips \ newer.ips : f = Told(p, "removed_ip", r)
  BY <1>0, <1>2 DEF Made, IsMade, Calls
<1>3. CASE \E r \in newer.subdomains \ older.subdomains : f = Told(p, SubdomainName(r), r)
  BY <1>3, NamesTell, SubdomainIsMade DEF Calls
<1>4. CASE \E r \in older.subdomains \ newer.subdomains : f = Told(p, "subdomain_removed", r)
  BY <1>0, <1>4 DEF Made, IsMade, Calls
<1>5. CASE \E r \in Answering(newer) \ Answering(older) : f = Told(p, ServiceName(r), r)
  BY <1>5, NamesTell, ServiceIsMade DEF Calls
<1>6. CASE \E r \in Answering(older) \ Answering(newer) : f = Told(p, "service_removed", r)
  BY <1>0, <1>6 DEF Made, IsMade, Calls
<1>7. CASE \E r \in Answering(older) \cap Answering(newer) :
             f \in A(p, <<>>, <<>>, <<>>)!ServiceChange(p, r, older.services[r], newer.services[r])
  BY <1>7, ChangeTells DEF Calls
<1> QED
  BY <1>1, <1>2, <1>3, <1>4, <1>5, <1>6, <1>7, FoundIs

LEMMA CalledIsFound ==
    ASSUME NEW p, NEW older, NEW newer, NEW c, NEW r, Calls(c, r, older, newer)
    PROVE  Told(p, c, r) \in Found(p, older, newer) /\ Told(p, c, r).category = c /\ Told(p, c, r).resource = r
<1>0. /\ Told(p, "new_ip", r) = Made("new_ip", r, "low", 10, CriticalityOf(p, r))
      /\ Told(p, "removed_ip", r) = Made("removed_ip", r, "info", 3, CriticalityOf(p, r))
      /\ Told(p, "subdomain_removed", r) = Made("subdomain_removed", r, "info", 5, CriticalityOf(p, r))
      /\ Told(p, "service_removed", r) = Made("service_removed", r, "info", 5, CriticalityOf(p, r))
  BY DEF Told, NewSubdomains, NewServices
<1>1. CASE c = "new_ip" /\ r \in newer.ips \ older.ips
  BY <1>0, <1>1, FoundIs DEF Made
<1>2. CASE c = "removed_ip" /\ r \in older.ips \ newer.ips
  BY <1>0, <1>2, FoundIs DEF Made
<1>3. CASE c = SubdomainName(r) /\ r \in newer.subdomains \ older.subdomains
  BY <1>3, FoundIs, NamesTell, SubdomainIsMade
<1>4. CASE c = "subdomain_removed" /\ r \in older.subdomains \ newer.subdomains
  BY <1>0, <1>4, FoundIs DEF Made
<1>5. CASE c = ServiceName(r) /\ r \in Answering(newer) \ Answering(older)
  BY <1>5, FoundIs, NamesTell, ServiceIsMade
<1>6. CASE c = "service_removed" /\ r \in Answering(older) \ Answering(newer)
  BY <1>0, <1>6, FoundIs DEF Made
<1>7. CASE /\ r \in Answering(older) \cap Answering(newer)
           /\ ChangeOf(c, older.services[r], newer.services[r])
  <2>1. older.services[r] # newer.services[r]
    BY <1>7 DEF ChangeOf, A!BecameAvailable
  <2>2. Told(p, c, r) \in A(p, <<>>, <<>>, <<>>)!ServiceChange(p, r, older.services[r], newer.services[r])
    BY <1>7, ChangeTells
  <2>3. Told(p, c, r) \in Found(p, older, newer)
    BY <1>7, <2>1, <2>2, FoundIs
  <2>4. Told(p, c, r).category = c /\ Told(p, c, r).resource = r
    BY <1>7 DEF Told, Made, NewSubdomains, NewServices, ChangeOf
  <2> QED BY <2>3, <2>4
<1> QED
  BY <1>1, <1>2, <1>3, <1>4, <1>5, <1>6, <1>7 DEF Calls

(***************************************************************************)
(* Reports                                                                 *)
(***************************************************************************)
ReportOf(p, older, newer, time, seen) == A(p, <<>>, <<>>, <<>>)!Report(p, older, newer, time, seen)
Adjusted(p, f) == A(p, <<>>, <<>>, <<>>)!Adjusted(p, f)
Suppresses(p, f, time) == A(p, <<>>, <<>>, <<>>)!Suppresses(p, f, time)
Recurred(p, f, times) == A(p, <<>>, <<>>, <<>>)!Recurred(f, times)
All(report) == report.active \cup report.suppressed

LEMMA AdjustedTells ==
    ASSUME NEW p, NEW f, IsMade(f)
    PROVE  LET g == Adjusted(p, f) IN IsMade(g) /\ g.category = f.category /\ g.resource = f.resource
<1>1. PICK score, severity : Adjusted(p, f) = f \/ Adjusted(p, f) = [f EXCEPT !.score = score, !.severity = severity]
  BY DEF Adjusted, A!Adjusted
<1>2. PICK c, r, v, n, t : f = Made(c, r, v, n, t)
  BY DEF IsMade
<1> DEFINE Those == [category : {c}, resource : {r}, severity : {v, severity},
                     score : {n, score}, criticality : {t}, state : {"new"}]
<1>3. f \in Those
  BY <1>2 DEF Made
<1>4. [f EXCEPT !.score = score, !.severity = severity] \in Those
  BY <1>3
<1>5. \A g \in Those : IsMade(g) /\ g.category = c /\ g.resource = r
  BY DEF IsMade, Made
<1> QED BY <1>1, <1>3, <1>4, <1>5

LEMMA RecurredTells ==
    ASSUME NEW p, NEW f, IsMade(f), NEW times
    PROVE  LET g == Recurred(p, f, times) IN g.category = f.category /\ g.resource = f.resource
<1>1. PICK score, state : Recurred(p, f, times) = f \/ Recurred(p, f, times) = [f EXCEPT !.state = state, !.score = score]
  <2>1. CASE times = 0
    BY <2>1 DEF Recurred, A!Recurred
  <2>2. CASE times = 1
    <3>1. Recurred(p, f, times) = [f EXCEPT !.state = "recurring", !.score = f.score + 10]
      BY <2>2 DEF Recurred, A!Recurred, IsMade, Made
    <3> QED BY <3>1
  <2>3. CASE times # 0 /\ times # 1
    <3>1. Recurred(p, f, times) = [f EXCEPT !.state = "persistent", !.score = f.score + 20]
      BY <2>3 DEF Recurred, A!Recurred, IsMade, Made
    <3> QED BY <3>1
  <2> QED BY <2>1, <2>2, <2>3
<1>2. PICK c, r, v, n, t : f = Made(c, r, v, n, t)
  BY DEF IsMade
<1> DEFINE Those == [category : {c}, resource : {r}, severity : {v},
                     score : {n, score}, criticality : {t}, state : {"new", state}]
<1>3. f \in Those
  BY <1>2 DEF Made
<1>4. [f EXCEPT !.state = state, !.score = score] \in Those
  BY <1>3
<1>5. \A g \in Those : g.category = c /\ g.resource = r
  OBVIOUS
<1> QED BY <1>1, <1>3, <1>4, <1>5

\* What a finding f of the comparison becomes in the report.
Becomes(p, f, time, seen, g) ==
    IF Suppresses(p, Adjusted(p, f), time) THEN g = [Adjusted(p, f) EXCEPT !.state = "suppressed"]
    ELSE g = Recurred(p, Adjusted(p, f), seen[Key(Adjusted(p, f))])

LEMMA ReportIs ==
    ASSUME NEW p, NEW older, NEW newer, NEW time, NEW seen
    PROVE  \A g : g \in All(ReportOf(p, older, newer, time, seen)) <=>
                     \E f \in Found(p, older, newer) : Becomes(p, f, time, seen, g)
<1> DEFINE found == {Adjusted(p, f) : f \in Found(p, older, newer)}
           hidden == {b \in found : Suppresses(p, b, time)}
<1>1. PICK report : report = ReportOf(p, older, newer, time, seen)
  OBVIOUS
<1>2. report = [active |-> {Recurred(p, b, seen[Key(b)]) : b \in found \ hidden},
                suppressed |-> {[b EXCEPT !.state = "suppressed"] : b \in hidden}]
  BY <1>1 DEF ReportOf, A!Report, Found, Suppresses, Recurred, Adjusted, Key, A!Key
<1>3. All(report) = {Recurred(p, b, seen[Key(b)]) : b \in found \ hidden}
                    \cup {[b EXCEPT !.state = "suppressed"] : b \in hidden}
  BY <1>2 DEF All
<1> QED BY <1>1, <1>3 DEF Becomes

LEMMA BecomesTells ==
    ASSUME NEW p, NEW f, IsMade(f), NEW time, NEW seen, NEW g, Becomes(p, f, time, seen, g)
    PROVE  g.category = f.category /\ g.resource = f.resource
<1>1. PICK b : b = Adjusted(p, f)
  OBVIOUS
<1>2. IsMade(b) /\ b.category = f.category /\ b.resource = f.resource
  BY <1>1, AdjustedTells
<1>3. [b EXCEPT !.state = "suppressed"].category = b.category
      /\ [b EXCEPT !.state = "suppressed"].resource = b.resource
  <2>1. PICK c, r, v, n, t : b = Made(c, r, v, n, t)
    BY <1>2 DEF IsMade
  <2> QED BY <2>1 DEF Made
<1>4. LET again == Recurred(p, b, seen[Key(b)])
      IN  again.category = b.category /\ again.resource = b.resource
  BY <1>2, RecurredTells
<1>5. CASE Suppresses(p, b, time)
  BY <1>1, <1>2, <1>3, <1>5 DEF Becomes
<1>6. CASE ~ Suppresses(p, b, time)
  BY <1>1, <1>2, <1>4, <1>6 DEF Becomes
<1> QED BY <1>5, <1>6

\* A report holds one finding for each that is called for, and no other.
LEMMA ReportTells ==
    ASSUME NEW p, NEW older, NEW newer, NEW time, NEW seen
    PROVE  LET report == ReportOf(p, older, newer, time, seen)
           IN  /\ \A f \in All(report) : Calls(f.category, f.resource, older, newer)
               /\ \A f, g \in All(report) : Key(f) = Key(g) => f = g
               /\ \A c, r : Calls(c, r, older, newer) => \E f \in All(report) : Key(f) = <<c, r>>
<1> DEFINE From(g, f) == Becomes(p, f, time, seen, g)
           report == ReportOf(p, older, newer, time, seen)
<1>1. \A g : g \in All(report) <=> \E f \in Found(p, older, newer) : From(g, f)
  BY ReportIs
<1>2. ASSUME NEW f \in Found(p, older, newer), NEW g, From(g, f)
      PROVE  g.category = f.category /\ g.resource = f.resource
  BY <1>2, FoundTells, BecomesTells
<1> HIDE DEF From, report
<1>3. ASSUME NEW g \in All(report) PROVE Calls(g.category, g.resource, older, newer)
  BY <1>1, <1>2, FoundTells
<1>4. ASSUME NEW g \in All(report), NEW h \in All(report), Key(g) = Key(h) PROVE g = h
  <2>1. PICK f \in Found(p, older, newer), e \in Found(p, older, newer) : From(g, f) /\ From(h, e)
    BY <1>1
  <2>2. g.category = h.category /\ g.resource = h.resource
    BY <1>4 DEF Key, A!Key
  <2>3. f.category = e.category /\ f.resource = e.resource
    BY <1>2, <2>1, <2>2
  <2>4. f = Told(p, f.category, f.resource) /\ e = Told(p, e.category, e.resource)
    BY FoundTells
  <2>5. f = e
    BY <2>3, <2>4
  <2> QED BY <2>1, <2>5 DEF From, Becomes
<1>5. ASSUME NEW c, NEW r, Calls(c, r, older, newer)
      PROVE  \E g \in All(report) : Key(g) = <<c, r>>
  <2>1. Told(p, c, r) \in Found(p, older, newer) /\ Told(p, c, r).category = c /\ Told(p, c, r).resource = r
    BY <1>5, CalledIsFound
  <2>2. PICK g : From(g, Told(p, c, r))
    <3>1. PICK f, e : f = Told(p, c, r) /\ e = Adjusted(p, f)
      OBVIOUS
    <3>2. PICK g : g = IF Suppresses(p, e, time) THEN [e EXCEPT !.state = "suppressed"]
                       ELSE Recurred(p, e, seen[Key(e)])
      OBVIOUS
    <3> QED BY <3>1, <3>2 DEF From, Becomes
  <2>3. g \in All(report) /\ g.category = c /\ g.resource = r
    BY <1>1, <1>2, <2>1, <2>2
  <2> QED BY <2>3 DEF Key, A!Key
<1> QED BY <1>3, <1>4, <1>5 DEF report

(***************************************************************************)
(* Timelines                                                               *)
(***************************************************************************)
Blank == [reports |-> <<>>, seen |-> Unseen]
Builds(p, ids, n, f) ==
    f = [k \in 1 .. n |-> IF k = 1 THEN Blank
                          ELSE Extended(f[k - 1], Compared(p, ids[k - 1], ids[k], f[k - 1].seen))]

LEMMA BuildsExist ==
    ASSUME NEW p, NEW ids, NEW n \in Nat
    PROVE  \E f : Builds(p, ids, n, f)
<1>1. PICK Q : Q = {m \in Nat : \E f : Builds(p, ids, m, f)}
  OBVIOUS
<1> DEFINE Next1(f, i) == Extended(f[i - 1], Compared(p, ids[i - 1], ids[i], f[i - 1].seen))
<1>2. 0 \in Q
  <2>1. PICK f : f = [i \in 1 .. 0 |-> i]
    OBVIOUS
  <2>2. f = [i \in 1 .. 0 |-> IF i = 1 THEN Blank ELSE Next1(f, i)]
    BY <2>1
  <2> QED BY <1>1, <2>2 DEF Builds
<1>3. ASSUME NEW m \in Nat, m \in Q PROVE m + 1 \in Q
  <2>1. PICK f : f = [i \in 1 .. m |-> IF i = 1 THEN Blank ELSE Next1(f, i)]
    BY <1>1, <1>3 DEF Builds
  <2>2. PICK g : g = [i \in 1 .. m + 1 |->
                        IF i \in 1 .. m THEN f[i] ELSE IF i = 1 THEN Blank ELSE Next1(f, i)]
    OBVIOUS
  <2>3. ASSUME NEW i \in 1 .. m + 1
        PROVE  g[i] = IF i = 1 THEN Blank ELSE Next1(g, i)
    <3>1. CASE i = 1
      <4>1. CASE i \in 1 .. m
        BY <2>1, <2>2, <3>1, <4>1
      <4>2. CASE i \notin 1 .. m
        BY <2>2, <3>1, <4>2
      <4> QED BY <4>1, <4>2
    <3>2. CASE i # 1
      <4>1. i - 1 \in 1 .. m /\ i - 1 \in 1 .. m + 1
        BY <3>2
      <4>2. g[i - 1] = f[i - 1]
        BY <2>2, <4>1
      <4>3. Next1(g, i) = Next1(f, i)
        BY <4>2
      <4> HIDE DEF Next1
      <4>4. CASE i \in 1 .. m
        BY <2>1, <2>2, <3>2, <4>3, <4>4
      <4>5. CASE i \notin 1 .. m
        BY <2>2, <3>2, <4>3, <4>5
      <4> QED BY <4>4, <4>5
    <3> QED BY <3>1, <3>2
  <2> HIDE DEF Next1
  <2>4. g = [i \in 1 .. m + 1 |-> IF i = 1 THEN Blank ELSE Next1(g, i)]
    BY <2>2, <2>3
  <2>5. \E h : Builds(p, ids, m + 1, h)
    BY <2>4 DEF Builds, Next1
  <2> QED BY <1>1, <2>5
<1>4. n \in Q
  BY <1>2, <1>3, CountUp
<1> QED BY <1>1, <1>4

\* A timeline is the reports of the neighbours, each with the history so far.
LEMMA TimelineTells ==
    ASSUME NEW p, NEW ids, NEW n \in Nat, Len(ids) = n, n # 0
    PROVE  Timeline(p, ids) =
             [k \in 1 .. n - 1 |-> Compared(p, ids[k], ids[k + 1], Timelines(p, ids)[k].seen)]
<1>1. PICK f : f = CHOOSE g : Builds(p, ids, n, g)
  OBVIOUS
<1>2. Builds(p, ids, n, f)
  BY <1>1, BuildsExist
<1>3. Timelines(p, ids) = f
  BY <1>1 DEF Timelines, Builds, Blank
<1>4. /\ f[1] = Blank
      /\ \A k \in 2 .. n : f[k] = Extended(f[k - 1], Compared(p, ids[k - 1], ids[k], f[k - 1].seen))
  BY <1>2 DEF Builds
<1>5. PICK seen : seen = [k \in 1 .. n |-> f[k].seen]
  OBVIOUS
<1> DEFINE R(k) == Compared(p, ids[k], ids[k + 1], seen[k])
<1>6. PICK Q : Q = {m \in Nat : m + 1 \in 1 .. n => f[m + 1].reports = [k \in 1 .. m |-> R(k)]}
  OBVIOUS
<1>7. 0 \in Q
  <2>1. f[1].reports = <<>>
    BY <1>4 DEF Blank
  <2>2. [k \in 1 .. 0 |-> R(k)] = <<>>
    OBVIOUS
  <2> QED BY <1>6, <2>1, <2>2
<1>8. ASSUME NEW m \in Nat, m \in Q PROVE m + 1 \in Q
  <2>1. SUFFICES ASSUME m + 2 \in 1 .. n PROVE f[m + 2].reports = [k \in 1 .. m + 1 |-> R(k)]
    BY <1>6
  <2>2. f[m + 1].reports = [k \in 1 .. m |-> R(k)]
    BY <1>6, <1>8, <2>1
  <2>3. (m + 2) - 1 = m + 1 /\ m + 2 \in 2 .. n /\ seen[m + 1] = f[m + 1].seen
    BY <1>5, <2>1
  <2>4. f[m + 2] = Extended(f[m + 1], Compared(p, ids[m + 1], ids[m + 2], f[m + 1].seen))
    BY <1>4, <2>3
  <2>5. f[m + 2].reports = Append(f[m + 1].reports, R(m + 1))
    <3>1. R(m + 1) = Compared(p, ids[m + 1], ids[m + 2], f[m + 1].seen)
      BY <2>3
    <3> QED BY <2>4, <3>1 DEF Extended
  <2> HIDE DEF R
  <2>6. Append([k \in 1 .. m |-> R(k)], R(m + 1)) = [k \in 1 .. m + 1 |-> R(k)]
    <3>1. PICK s : s = [k \in 1 .. m |-> R(k)]
      OBVIOUS
    <3>2. s \in Seq({R(k) : k \in 1 .. m + 1}) /\ Len(s) = m
      BY <3>1
    <3>3. PICK t : t = Append(s, R(m + 1))
      OBVIOUS
    <3>4. t \in Seq({R(k) : k \in 1 .. m + 1}) /\ Len(t) = m + 1
      BY <3>2, <3>3
    <3>5. \A k \in 1 .. m + 1 : t[k] = R(k)
      BY <3>1, <3>2, <3>3
    <3> QED BY <3>1, <3>3, <3>4, <3>5
  <2> QED BY <2>2, <2>5, <2>6
<1>9. n - 1 \in Nat /\ n - 1 \in Q /\ (n - 1) + 1 = n
  BY <1>7, <1>8, CountUp
<1>10. f[n].reports = [k \in 1 .. n - 1 |-> R(k)]
  BY <1>6, <1>9
<1>11. \A k \in 1 .. n - 1 : R(k) = Compared(p, ids[k], ids[k + 1], Timelines(p, ids)[k].seen)
  <2>1. \A k \in 1 .. n - 1 : k \in 1 .. n
    OBVIOUS
  <2> QED BY <1>3, <1>5, <2>1
<1>12. Timeline(p, ids) = [k \in 1 .. n - 1 |-> R(k)]
  BY <1>3, <1>10 DEF Timeline
<1> QED BY <1>11, <1>12

LEMMA TimelineIs ==
    ASSUME NEW p, NEW ids, NEW n \in Nat, Len(ids) = n, n # 0
    PROVE  \E seen : Timeline(p, ids) = [k \in 1 .. n - 1 |-> Compared(p, ids[k], ids[k + 1], seen[k])]
<1>1. PICK seen : seen = [k \in 1 .. n - 1 |-> Timelines(p, ids)[k].seen]
  OBVIOUS
<1>2. \A k \in 1 .. n - 1 : Compared(p, ids[k], ids[k + 1], Timelines(p, ids)[k].seen)
                            = Compared(p, ids[k], ids[k + 1], seen[k])
  BY <1>1
<1>3. Timeline(p, ids) = [k \in 1 .. n - 1 |-> Compared(p, ids[k], ids[k + 1], Timelines(p, ids)[k].seen)]
  BY TimelineTells
<1>4. Timeline(p, ids) = [k \in 1 .. n - 1 |-> Compared(p, ids[k], ids[k + 1], seen[k])]
  BY <1>2, <1>3
<1> QED BY <1>4

(***************************************************************************)
(* What a run stores                                                       *)
(***************************************************************************)
LEMMA KeysAreFinite == IsFiniteSet(Categories \X Resources)
<1>0. PICK n \in Int : n = 13
  OBVIOUS
<1>1. PICK span : span = 1 .. n
  OBVIOUS
<1>2. IsFiniteSet(span)
  BY <1>1, FS_Interval
<1>3. PICK name : name = <<"new_ip", "removed_ip",
               "new_admin_subdomain", "new_nonprod_subdomain", "new_subdomain", "subdomain_removed",
               "new_http_service", "new_https_service", "new_service", "service_removed",
               "service_became_available", "service_backend_changed", "service_fingerprint_changed">>
  OBVIOUS
<1>4. name \in Surjection(span, Categories)
  <2>1. DOMAIN name = 1 .. 13 /\ name \in [1 .. 13 -> Categories]
    BY <1>3 DEF Categories, NewSubdomains, NewServices, Changes
  <2>2. \A c \in Categories : \E i \in 1 .. 13 : name[i] = c
    BY <1>3 DEF Categories, NewSubdomains, NewServices, Changes
  <2> QED
    BY <1>0, <1>1, <2>1, <2>2 DEF Surjection
<1>5. IsFiniteSet(Categories)
  BY <1>2, <1>4, FS_Surjection
<1> QED
  BY <1>5, ResultsConstants, FS_Product DEF Resources

LEMMA CallsAreKeys ==
    ASSUME NEW older \in AllScans, NEW newer \in AllScans, NEW c, NEW r, Calls(c, r, older, newer)
    PROVE  <<c, r>> \in Categories \X Resources
<1>1. /\ older.ips \subseteq Ips /\ older.subdomains \subseteq Subdomains
      /\ newer.ips \subseteq Ips /\ newer.subdomains \subseteq Subdomains
  BY DEF AllScans, A!Scans
<1>2. SubdomainName(r) \in NewSubdomains /\ ServiceName(r) \in NewServices
  BY NamesTell
<1> QED
  BY <1>1, <1>2 DEF Calls, ChangeOf, Categories, Resources, Answering, Changes

LEMMA ReportIsFinite ==
    ASSUME NEW p, NEW older \in AllScans, NEW newer \in AllScans, NEW time, NEW seen
    PROVE  IsFiniteSet(All(ReportOf(p, older, newer, time, seen)))
<1> DEFINE all == All(ReportOf(p, older, newer, time, seen))
<1>1. PICK key : key = [f \in all |-> Key(f)]
  OBVIOUS
<1>2. \A f \in all : Key(f) = <<f.category, f.resource>>
  BY DEF Key, A!Key
<1>3. \A f \in all : Key(f) \in Categories \X Resources
  BY <1>2, ReportTells, CallsAreKeys
<1>4. \A f, g \in all : Key(f) = Key(g) => f = g
  BY ReportTells
<1> HIDE DEF all
<1>5. key \in Injection(all, Categories \X Resources)
  BY <1>1, <1>3, <1>4 DEF Injection, IsInjective
<1>6. IsFiniteSet(all)
  BY <1>5, KeysAreFinite, FS_Injection
<1> QED BY <1>6 DEF all

LEMMA ListsMapped ==
    ASSUME NEW seq, NEW S, Lists(seq, S), NEW g
    PROVE  Lists([i \in DOMAIN seq |-> g[seq[i]]], {g[x] : x \in S})
<1>1. PICK n \in Nat : n = Len(seq) /\ DOMAIN seq = 1 .. n /\ seq \in Seq(S)
  BY ListsTell
<1>2. PICK t : t = [i \in DOMAIN seq |-> g[seq[i]]]
  OBVIOUS
<1>3. t \in [1 .. n -> {g[x] : x \in S}] /\ \A i \in 1 .. n : t[i] = g[seq[i]]
  BY <1>1, <1>2
<1>4. t \in Seq({g[x] : x \in S}) /\ Len(t) = n
  BY <1>3
<1>5. \A x \in S : \E i \in 1 .. n : seq[i] = x
  BY <1>1 DEF Lists
<1> QED BY <1>2, <1>3, <1>4, <1>5 DEF Lists

\* The statements of a report.
Inserted(run, f) == Statement("findings", Key(f), [run |-> run, score |-> f.score, state |-> f.state])
Totals(run, report) ==
    Statement("runs", run, [found |-> Cardinality(report.active), score |-> ScoreOf(report.active)])
OfReport(run, report) == {Totals(run, report)} \cup {Inserted(run, f) : f \in All(report)}

LEMMA ReportIsListed ==
    ASSUME NEW run, NEW report, IsFiniteSet(All(report))
    PROVE  /\ Lists(ReportStatements(run, report), OfReport(run, report))
           /\ ReportStatements(run, report)[1] = Totals(run, report)
<1>1. ASSUME NEW S \in SUBSET All(report)
      PROVE  Lists([i \in DOMAIN SetToSeq(S) |->
                      Statement("findings", Key(SetToSeq(S)[i]),
                        [run |-> run, score |-> SetToSeq(S)[i].score, state |-> SetToSeq(S)[i].state])],
                   {Inserted(run, f) : f \in S})
  <2>1. PICK list : list = SetToSeq(S)
    OBVIOUS
  <2>2. Lists(list, S)
    BY <2>1, FS_Subset, ListsSet
  <2>3. PICK g : g = [f \in S |-> Inserted(run, f)]
    OBVIOUS
  <2>4. Lists([i \in DOMAIN list |-> g[list[i]]], {g[f] : f \in S})
    BY <2>2, ListsMapped
  <2>5. \A i \in DOMAIN list : list[i] \in S
    BY <2>2, ListsTell
  <2>6. \A i \in DOMAIN list : g[list[i]] = Inserted(run, list[i])
    BY <2>3, <2>5
  <2>7. [i \in DOMAIN list |-> g[list[i]]] = [i \in DOMAIN list |-> Inserted(run, list[i])]
    BY <2>6
  <2>8. {g[f] : f \in S} = {Inserted(run, f) : f \in S}
    BY <2>3
  <2> QED BY <2>1, <2>4, <2>7, <2>8 DEF Inserted
<1>2. PICK some, hidden, first :
         /\ some = [i \in DOMAIN SetToSeq(report.active) |->
                      Statement("findings", Key(SetToSeq(report.active)[i]),
                        [run |-> run, score |-> SetToSeq(report.active)[i].score, state |-> SetToSeq(report.active)[i].state])]
         /\ hidden = [i \in DOMAIN SetToSeq(report.suppressed) |->
                      Statement("findings", Key(SetToSeq(report.suppressed)[i]),
                        [run |-> run, score |-> SetToSeq(report.suppressed)[i].score, state |-> SetToSeq(report.suppressed)[i].state])]
         /\ first = <<Totals(run, report)>>
  OBVIOUS
<1>3. Lists(some, {Inserted(run, f) : f \in report.active})
      /\ Lists(hidden, {Inserted(run, f) : f \in report.suppressed})
  BY <1>1, <1>2 DEF All
<1>4. Lists(first, {Totals(run, report)})
  <2>1. first \in Seq({Totals(run, report)}) /\ Len(first) = 1 /\ first[1] = Totals(run, report)
    BY <1>2
  <2> QED BY <2>1 DEF Lists
<1>5. ReportStatements(run, report) = (first \o some) \o hidden
  BY <1>2 DEF ReportStatements, Totals
<1>6. Lists((first \o some) \o hidden,
            ({Totals(run, report)} \cup {Inserted(run, f) : f \in report.active})
              \cup {Inserted(run, f) : f \in report.suppressed})
  BY <1>3, <1>4, ListsBoth
<1>7. OfReport(run, report) = ({Totals(run, report)} \cup {Inserted(run, f) : f \in report.active})
                                \cup {Inserted(run, f) : f \in report.suppressed}
  BY DEF OfReport, All
<1>8. ((first \o some) \o hidden)[1] = Totals(run, report)
  <2>1. first \in Seq({Totals(run, report)}) /\ Len(first) = 1 /\ first[1] = Totals(run, report)
    BY <1>2
  <2>2. (first \o some)[1] = first[1] /\ Len(first \o some) \in Nat \ {0}
        /\ first \o some \in Seq({Totals(run, report)} \cup {Inserted(run, f) : f \in report.active})
    <3>1. some \in Seq({Inserted(run, f) : f \in report.active})
      BY <1>3 DEF Lists
    <3>2. PICK one, other : one = {Totals(run, report)} /\ other = {Inserted(run, f) : f \in report.active}
      OBVIOUS
    <3>0. PICK both : both = one \cup other
      OBVIOUS
    <3>3. first \in Seq(both) /\ some \in Seq(both) /\ Len(first) = 1
      BY <2>1, <3>0, <3>1, <3>2
    <3>4. PICK m, n : m = Len(first) /\ n = Len(some)
      OBVIOUS
    <3>5. /\ n \in Nat /\ first \o some \in Seq(both) /\ Len(first \o some) = m + n
          /\ \A i \in 1 .. m : (first \o some)[i] = first[i]
      BY <3>3, <3>4, BothTell
    <3>6. 1 \in 1 .. m /\ m + n \in Nat \ {0}
      BY <3>3, <3>4, <3>5
    <3> QED BY <3>0, <3>2, <3>5, <3>6
  <2>3. hidden \in Seq({Inserted(run, f) : f \in report.suppressed})
    BY <1>3 DEF Lists
  <2> QED BY <2>1, <2>2, <2>3
<1> QED BY <1>5, <1>6, <1>7, <1>8

\* Episodes before they are dated.
Groups(p, ids, reports, k) == A(p, ids, reports, <<>>)!EpisodesOf(k)
Dated(ids, e) == [id |-> [e.id EXCEPT !.started = ids[e.started]], state |-> e.state]

LEMMA EpisodesAre ==
    ASSUME NEW p, NEW ids, NEW reports
    PROVE  EpisodesOf(p, ids, reports) =
               {Dated(ids, e) : e \in UNION {Groups(p, ids, reports, k) : k \in DOMAIN reports}}
BY DEF EpisodesOf, A!Episodes, Groups, Dated

LEMMA EpisodesAreFinite ==
    ASSUME NEW p, NEW ids, NEW reports, NEW n \in Nat, DOMAIN reports = 1 .. n,
           \A k \in 1 .. n : IsFiniteSet(reports[k].active)
    PROVE  IsFiniteSet(EpisodesOf(p, ids, reports))
<1>1. ASSUME NEW k \in 1 .. n PROVE IsFiniteSet(Groups(p, ids, reports, k))
  <2>1. PICK found : found = reports[k].active /\ IsFiniteSet(found)
    OBVIOUS
  <2> DEFINE Of(a) == A(p, ids, reports, <<>>)!Episode(k, {f \in found : A(p, ids, reports, <<>>)!Affinity(f) = a})
  <2>2. PICK group : group = [f \in found |-> Of(A(p, ids, reports, <<>>)!Affinity(f))]
    OBVIOUS
  <2>3. Groups(p, ids, reports, k) = {Of(a) : a \in {A(p, ids, reports, <<>>)!Affinity(f) : f \in found}}
    BY <2>1 DEF Groups, A!EpisodesOf
  <2> HIDE DEF Of
  <2>4. Groups(p, ids, reports, k) = {group[f] : f \in found}
    BY <2>2, <2>3
  <2>5. group \in Surjection(found, Groups(p, ids, reports, k))
    BY <2>2, <2>4 DEF Surjection
  <2> QED BY <2>1, <2>5, FS_Surjection
<1>2. PICK of : of = [k \in 1 .. n |-> Groups(p, ids, reports, k)]
  OBVIOUS
<1>3. PICK family : family = {Groups(p, ids, reports, k) : k \in 1 .. n}
  OBVIOUS
<1>4. PICK span : span = 1 .. n
  OBVIOUS
<1>5. IsFiniteSet(span)
  BY <1>4, FS_Interval
<1>6. of \in Surjection(span, family)
  BY <1>2, <1>3, <1>4 DEF Surjection
<1>7. IsFiniteSet(family)
  BY <1>5, <1>6, FS_Surjection
<1>8. \A S \in family : IsFiniteSet(S)
  BY <1>1, <1>3
<1>9. PICK all : all = UNION family /\ IsFiniteSet(all)
  BY <1>7, <1>8, FS_UNION
<1>10. PICK dated : dated = [e \in all |-> Dated(ids, e)]
  OBVIOUS
<1>11. EpisodesOf(p, ids, reports) = {dated[e] : e \in all}
  BY <1>3, <1>9, <1>10, EpisodesAre
<1>12. dated \in Surjection(all, EpisodesOf(p, ids, reports))
  BY <1>10, <1>11 DEF Surjection
<1> QED BY <1>9, <1>12, FS_Surjection

(***************************************************************************)
(* What is in the files                                                    *)
(***************************************************************************)
Snapshots == 1 .. Len(scans)
Typed ==
    /\ scans \in Seq(AllScans)
    /\ now \in Nat
    /\ file \in [Seconds -> {NoFile, Torn} \cup Snapshots]
    /\ written \subseteq Snapshots

LEMMA LoadedTells ==
    ASSUME Typed
    PROVE  /\ Kept \subseteq Snapshots /\ IsFiniteSet(Kept)
           /\ Loaded \in Seq(Kept) /\ Len(Loaded) \in Nat
           /\ \A i, j \in 1 .. Len(Loaded) : i < j => Loaded[i] < Loaded[j]
           /\ \A x \in Kept : \E i \in 1 .. Len(Loaded) : Loaded[i] = x
<1>1. Len(scans) \in Nat /\ MaxSeconds \in Nat
  BY ResultsConstants DEF Typed
<1>2. Kept \subseteq Snapshots /\ \A x \in Snapshots : x \in Nat
  BY <1>1 DEF Typed, Kept, Snapshots, NoFile, Torn
<1>3. IsFiniteSet(Kept)
  <2>1. IsFiniteSet(1 .. Len(scans))
    BY <1>1, FS_Interval
  <2> QED BY <1>2, <2>1, FS_Subset DEF Snapshots
<1>4. PICK kept : kept = Kept
  OBVIOUS
<1>5. kept \in SUBSET Nat /\ IsFiniteSet(kept)
  BY <1>2, <1>3, <1>4
<1>6. /\ Sorted(kept) \in Seq(kept) /\ Rising(Sorted(kept))
      /\ \A x \in kept : \E i \in 1 .. Len(Sorted(kept)) : Sorted(kept)[i] = x
  BY <1>5, SortedTells
<1>7. PICK seq : seq = Sorted(kept)
  OBVIOUS
<1>8. DOMAIN seq = 1 .. Len(seq) /\ Len(seq) \in Nat
  BY <1>6, <1>7
<1> QED BY <1>2, <1>3, <1>4, <1>6, <1>7, <1>8 DEF Loaded, Rising

\* The timeline of the files.
LEMMA ReportsAre ==
    ASSUME Typed, NEW p, Loaded # <<>>
    PROVE  /\ Len(Loaded) - 1 \in Nat /\ DOMAIN Timeline(p, Loaded) = 1 .. Len(Loaded) - 1
           /\ \A k \in 1 .. Len(Loaded) - 1 :
                /\ Loaded[k] \in Kept /\ Loaded[k + 1] \in Kept
                /\ \E seen : Timeline(p, Loaded)[k] =
                      ReportOf(p, scans[Loaded[k]], scans[Loaded[k + 1]], Loaded[k + 1], seen)
                /\ IsFiniteSet(All(Timeline(p, Loaded)[k]))
                /\ IsFiniteSet(Timeline(p, Loaded)[k].active)
<1>1. PICK ids, n : ids = Loaded /\ n = Len(ids)
  OBVIOUS
<1>2. n \in Nat /\ n # 0 /\ ids \in Seq(Kept)
  BY <1>1, LoadedTells
<1> HIDE DEF Kept
<1>0. Len(ids) = n
  BY <1>1
<1>3. PICK seen : Timeline(p, ids) = [k \in 1 .. n - 1 |-> Compared(p, ids[k], ids[k + 1], seen[k])]
  BY <1>0, <1>2, TimelineIs
<1>4. n - 1 \in Nat /\ DOMAIN Timeline(p, ids) = 1 .. n - 1
  BY <1>2, <1>3
<1>5. ASSUME NEW k \in 1 .. n - 1
      PROVE  /\ ids[k] \in Kept /\ ids[k + 1] \in Kept
             /\ \E s : Timeline(p, ids)[k] = ReportOf(p, scans[ids[k]], scans[ids[k + 1]], ids[k + 1], s)
             /\ IsFiniteSet(All(Timeline(p, ids)[k]))
             /\ IsFiniteSet(Timeline(p, ids)[k].active)
  <2>1. k \in 1 .. n /\ k + 1 \in 1 .. n
    BY <1>2
  <2>2. ids[k] \in Kept /\ ids[k + 1] \in Kept
    BY <1>1, <1>2, <2>1
  <2>3. Timeline(p, ids)[k] = ReportOf(p, scans[ids[k]], scans[ids[k + 1]], ids[k + 1], seen[k])
    BY <1>3 DEF Compared, ReportOf
  <2>4. scans[ids[k]] \in AllScans /\ scans[ids[k + 1]] \in AllScans
    <3>1. Kept \subseteq 1 .. Len(scans) /\ scans \in Seq(AllScans)
      BY LoadedTells DEF Typed, Snapshots
    <3>2. \A x \in 1 .. Len(scans) : scans[x] \in AllScans
      BY <3>1
    <3>3. ids[k] \in 1 .. Len(scans) /\ ids[k + 1] \in 1 .. Len(scans)
      BY <2>2, <3>1
    <3> QED BY <3>2, <3>3
  <2>5. IsFiniteSet(All(Timeline(p, ids)[k]))
    BY <2>3, <2>4, ReportIsFinite
  <2>6. IsFiniteSet(Timeline(p, ids)[k].active)
    BY <2>5, FS_Subset DEF All
  <2> QED BY <2>2, <2>3, <2>5, <2>6
<1> QED BY <1>1, <1>4, <1>5

\* All that a run of this kind stores.
Whole(kind, p) ==
    LET reports == Timeline(p, Loaded)
    IN  (IF kind = "rebuild" THEN {Statement("snapshots", SecondOf(x), x) : x \in Kept} ELSE {})
        \cup (IF kind = "episodes" THEN {}
              ELSE UNION {OfReport(RunOf(Loaded, k), reports[k]) : k \in DOMAIN reports})
        \cup {Statement("episodes", e.id, e) : e \in EpisodesOf(p, Loaded, reports)}

OfReports(reports) == UNION {OfReport(RunOf(Loaded, k), reports[k]) : k \in DOMAIN reports}

LEMMA PartsAreListed ==
    ASSUME Typed, NEW p, Loaded # <<>>, NEW reports, reports = Timeline(p, Loaded)
    PROVE  /\ Lists(SnapshotStatements, {Statement("snapshots", SecondOf(x), x) : x \in Kept})
           /\ Lists(TimelineStatements(Loaded, reports), OfReports(reports))
           /\ Lists(EpisodeStatements(p, Loaded, reports),
                    {Statement("episodes", e.id, e) : e \in EpisodesOf(p, Loaded, reports)})
<1>1. PICK n : n = Len(Loaded) - 1
  OBVIOUS
<1>2. n \in Nat /\ DOMAIN reports = 1 .. n
  BY <1>1, ReportsAre
<1>3. Lists(SnapshotStatements, {Statement("snapshots", SecondOf(x), x) : x \in Kept})
  <2>1. PICK g : g = [x \in Kept |-> Statement("snapshots", SecondOf(x), x)]
    OBVIOUS
  <2>2. Lists(Loaded, Kept)
    BY LoadedTells DEF Lists
  <2>3. Lists([i \in DOMAIN Loaded |-> g[Loaded[i]]], {g[x] : x \in Kept})
    BY <2>2, ListsMapped
  <2>4. \A i \in DOMAIN Loaded : Loaded[i] \in Kept
    BY <2>2, ListsTell
  <2>5. [i \in DOMAIN Loaded |-> g[Loaded[i]]] = SnapshotStatements
    BY <2>1, <2>4 DEF SnapshotStatements
  <2>6. {g[x] : x \in Kept} = {Statement("snapshots", SecondOf(x), x) : x \in Kept}
    BY <2>1
  <2> QED BY <2>3, <2>5, <2>6
<1>4. Lists(TimelineStatements(Loaded, reports), OfReports(reports))
  <2>1. PICK seqs, sets : /\ seqs = [k \in 1 .. n |-> ReportStatements(RunOf(Loaded, k), reports[k])]
                          /\ sets = [k \in 1 .. n |-> OfReport(RunOf(Loaded, k), reports[k])]
    OBVIOUS
  <2>2. \A k \in 1 .. n : IsFiniteSet(All(reports[k]))
    BY <1>1, <1>2, ReportsAre
  <2>3. \A k \in 1 .. n : Lists(seqs[k], sets[k])
    BY <2>1, <2>2, ReportIsListed
  <2>4. seqs = [k \in 1 .. n |-> seqs[k]]
    BY <2>1
  <2>5. Lists(FlattenSeq(seqs), UNION {sets[k] : k \in 1 .. n})
    BY <1>2, <2>3, <2>4, ListsAll
  <2>6. {sets[k] : k \in 1 .. n} = {OfReport(RunOf(Loaded, k), reports[k]) : k \in DOMAIN reports}
    BY <1>2, <2>1
  <2> QED BY <1>2, <2>1, <2>5, <2>6 DEF TimelineStatements, OfReports
<1>5. Lists(EpisodeStatements(p, Loaded, reports), {Statement("episodes", e.id, e) : e \in EpisodesOf(p, Loaded, reports)})
  <2>1. PICK S, list : S = EpisodesOf(p, Loaded, reports) /\ list = SetToSeq(S)
    OBVIOUS
  <2>2. \A k \in 1 .. n : IsFiniteSet(reports[k].active)
    BY <1>1, <1>2, ReportsAre
  <2>3. IsFiniteSet(S)
    BY <1>2, <2>1, <2>2, EpisodesAreFinite
  <2>4. Lists(list, S)
    BY <2>1, <2>3, ListsSet
  <2>5. PICK g : g = [e \in S |-> Statement("episodes", e.id, e)]
    OBVIOUS
  <2>6. Lists([i \in DOMAIN list |-> g[list[i]]], {g[e] : e \in S})
    BY <2>4, ListsMapped
  <2>7. \A i \in DOMAIN list : list[i] \in S
    BY <2>4, ListsTell
  <2>8. [i \in DOMAIN list |-> g[list[i]]] = [i \in DOMAIN list |-> Statement("episodes", list[i].id, list[i])]
    BY <2>5, <2>7
  <2>9. {g[e] : e \in S} = {Statement("episodes", e.id, e) : e \in S}
    BY <2>5
  <2> QED BY <2>1, <2>6, <2>8, <2>9 DEF EpisodeStatements
<1> QED BY <1>3, <1>4, <1>5

LEMMA WholeIsListed ==
    ASSUME Typed, NEW kind, NEW p, Loaded # <<>>
    PROVE  Lists(StatementsOf(kind, p, Loaded, Timeline(p, Loaded)), Whole(kind, p))
<1>1. PICK reports : reports = Timeline(p, Loaded)
  OBVIOUS
<1>2. /\ Lists(SnapshotStatements, {Statement("snapshots", SecondOf(x), x) : x \in Kept})
      /\ Lists(TimelineStatements(Loaded, reports), OfReports(reports))
      /\ Lists(EpisodeStatements(p, Loaded, reports),
               {Statement("episodes", e.id, e) : e \in EpisodesOf(p, Loaded, reports)})
  BY <1>1, PartsAreListed
<1>3. PICK first, second, third :
         /\ first = (IF kind = "rebuild" THEN {Statement("snapshots", SecondOf(x), x) : x \in Kept} ELSE {})
         /\ second = (IF kind = "episodes" THEN {}
                      ELSE OfReports(reports))
         /\ third = {Statement("episodes", e.id, e) : e \in EpisodesOf(p, Loaded, reports)}
  OBVIOUS
<1>4. Lists(IF kind = "rebuild" THEN SnapshotStatements ELSE <<>>, first)
  BY <1>2, <1>3, ListsNothing
<1>5. Lists(IF kind = "episodes" THEN <<>> ELSE TimelineStatements(Loaded, reports), second)
  BY <1>2, <1>3, ListsNothing
<1>6. Lists(((IF kind = "rebuild" THEN SnapshotStatements ELSE <<>>)
             \o (IF kind = "episodes" THEN <<>> ELSE TimelineStatements(Loaded, reports)))
             \o EpisodeStatements(p, Loaded, reports), (first \cup second) \cup third)
  BY <1>2, <1>3, <1>4, <1>5, ListsBoth
<1>7. Whole(kind, p) = (first \cup second) \cup third
  BY <1>1, <1>3 DEF Whole, OfReports
<1> QED BY <1>1, <1>6, <1>7 DEF StatementsOf

(***************************************************************************)
(* The seconds of the snapshots                                            *)
(***************************************************************************)
Steps == {"idle", "truncate", "write", "register", "load", "read", "store"}

IsProcess(p) ==
    /\ p = [kind |-> p.kind, step |-> p.step, id |-> p.id, second |-> p.second,
            todo |-> p.todo, policy |-> p.policy, alone |-> p.alone]
    /\ p.step \in Steps
    /\ p.step # "store" => p.alone = FALSE

Between(run) == {x \in written : run[1] < x /\ x < run[2]}

\* Why a run is in the table: people asked for it, or it was of neighbours, and
\* what is between them now came late, or was saved in the second of one of them.
HasCause(second, run) ==
    \/ run \in asked
    \/ /\ run = <<run[1], run[2]>> /\ run[1] \in written /\ run[2] \in written /\ run[1] < run[2]
       /\ \A x \in Between(run) : x \in late \/ second[x] = second[run[1]] \/ second[x] = second[run[2]]

StatementHasCause(second, st) ==
    /\ st.table = "snapshots" =>
         st.key \in Seconds /\ st.row \in written /\ second[st.row] = st.key
    /\ st.table = "runs" => HasCause(second, st.key)

\* What a process is about to do is in keeping with the seconds.
ProcessIsDated(second, p) ==
    /\ p.step \in {"truncate", "write", "register"} =>
         p.id \in Snapshots /\ p.second \in Seconds /\ second[p.id] = p.second
    /\ p.step = "register" => p.id \in written
    /\ p.kind = "migrate" /\ p.step \in {"truncate", "write"} => p.id \in written
    /\ p.step = "read" \/ (p.kind = "migrate" /\ p.step \in {"truncate", "write"}) =>
         /\ p.kind = "migrate"
         /\ p.todo \in Seq(Seconds)
         /\ \A i \in 1 .. Len(p.todo) : file[p.todo[i]] # NoFile
    /\ p.step = "store" =>
         /\ p.todo \in Seq(ToSet(p.todo)) /\ p.todo # <<>>
         /\ \A st \in ToSet(p.todo) : StatementHasCause(second, st)

\* The second each snapshot was taken in: they do not go back, and a snapshot
\* is in no file and no row but that of its second.
DatedBy(second) ==
    /\ second \in [Snapshots -> Seconds]
    /\ \A x, y \in Snapshots : x <= y => second[x] <= second[y]
    /\ \A x \in Snapshots : second[x] <= now
    /\ \A s \in Seconds : file[s] \in Snapshots => file[s] \in written /\ second[file[s]] = s
    /\ \A x \in written : file[second[x]] # NoFile
    /\ \A s \in Rows : rows[s] \in written /\ second[rows[s]] = s
    /\ \A run \in DOMAIN runs : HasCause(second, run)
    /\ \A w \in Workers : ProcessIsDated(second, proc[w])

Shaped ==
    /\ proc = [w \in Workers |-> proc[w]]
    /\ rows = [s \in Seconds |-> rows[s]]
    /\ \A w \in Workers : IsProcess(proc[w])

DateInv == Typed /\ Shaped /\ \E second : DatedBy(second)

LEMMA DateInit == Init => DateInv
<1> SUFFICES ASSUME Init PROVE DateInv
  OBVIOUS
<1>1. Typed
  BY DEF Init, Typed, Snapshots
<1>2. \A w \in Workers : proc[w] = Idle
  BY DEF Init
<1>3. IsProcess(Idle)
  BY DEF IsProcess, Idle, Process, Steps
<1>4. Shaped
  BY <1>2, <1>3 DEF Init, Shaped
<1>5. PICK second : second = [x \in Snapshots |-> 0]
  OBVIOUS
<1>6. Snapshots = {} /\ Rows = {} /\ DOMAIN runs = {} /\ written = {}
  BY DEF Init, Snapshots, Rows
<1>7. ProcessIsDated(second, Idle)
  BY DEF ProcessIsDated, Idle, Process
<1>8. DatedBy(second)
  BY <1>2, <1>5, <1>6, <1>7 DEF DatedBy
<1> QED BY <1>1, <1>4, <1>8 DEF DateInv

\* A step that takes nothing back.
Goes(second, after) ==
    /\ Snapshots \subseteq Snapshots' /\ \A x \in Snapshots : after[x] = second[x]
    /\ asked \subseteq asked' /\ late \subseteq late' /\ written \subseteq written'
    /\ written' \subseteq Snapshots
    /\ \A x \in written' \ written : (\E y \in written : y > x) => x \in late'
    /\ \A s \in Seconds : file[s] # NoFile => file'[s] # NoFile

LEMMA CausesStay ==
    ASSUME Typed, NEW second, NEW after, Goes(second, after), NEW run, HasCause(second, run)
    PROVE  HasCause(after, run)'
<1>1. CASE run \in asked
  BY <1>1 DEF Goes, HasCause
<1>2. CASE run \notin asked
  <2>1. /\ run = <<run[1], run[2]>> /\ run[1] \in written /\ run[2] \in written /\ run[1] < run[2]
        /\ \A x \in Between(run) : x \in late \/ second[x] = second[run[1]] \/ second[x] = second[run[2]]
    BY <1>2 DEF HasCause
  <2>2. written \subseteq Snapshots /\ written \subseteq written'
    BY DEF Typed, Goes
  <2>3. ASSUME NEW x \in written', run[1] < x, x < run[2]
        PROVE  x \in late' \/ after[x] = after[run[1]] \/ after[x] = after[run[2]]
    <3>0. x \in Snapshots /\ run[1] \in Snapshots /\ run[2] \in Snapshots
      BY <2>1, <2>2 DEF Goes
    <3>1. CASE x \in written
      <4>1. x \in Between(run)
        BY <2>3, <3>1 DEF Between
      <4> QED BY <2>1, <3>0, <4>1 DEF Goes
    <3>2. CASE x \notin written
      <4>1. run[2] > x
        BY <2>3, <3>0 DEF Snapshots
      <4> QED BY <2>1, <3>2, <4>1 DEF Goes
    <3> QED BY <3>1, <3>2
  <2> QED BY <2>1, <2>2, <2>3 DEF HasCause, Between
<1> QED BY <1>1, <1>2

LEMMA StatementsStay ==
    ASSUME Typed, NEW second, NEW after, Goes(second, after), NEW st, StatementHasCause(second, st)
    PROVE  StatementHasCause(after, st)'
<1>1. ASSUME st.table = "snapshots"
      PROVE  st.key \in Seconds /\ st.row \in written' /\ after[st.row] = st.key
  BY <1>1 DEF StatementHasCause, Goes, Typed
<1>2. ASSUME st.table = "runs" PROVE HasCause(after, st.key)'
  BY <1>2, CausesStay DEF StatementHasCause
<1> QED BY <1>1, <1>2 DEF StatementHasCause

LEMMA ProcessesStay ==
    ASSUME Typed, NEW second, NEW after, Goes(second, after), NEW p, ProcessIsDated(second, p)
    PROVE  ProcessIsDated(after, p)'
<1>1. p.step \in {"truncate", "write", "register"} =>
         p.id \in Snapshots' /\ p.second \in Seconds /\ after[p.id] = p.second
  BY DEF ProcessIsDated, Goes
<1>2. /\ p.step = "register" => p.id \in written'
      /\ p.kind = "migrate" /\ p.step \in {"truncate", "write"} => p.id \in written'
  BY DEF ProcessIsDated, Goes
<1>3. p.step = "read" \/ (p.kind = "migrate" /\ p.step \in {"truncate", "write"}) =>
         /\ p.kind = "migrate"
         /\ p.todo \in Seq(Seconds)
         /\ \A i \in 1 .. Len(p.todo) : file'[p.todo[i]] # NoFile
  BY DEF ProcessIsDated, Goes
<1>4. p.step = "store" =>
         /\ p.todo \in Seq(ToSet(p.todo)) /\ p.todo # <<>>
         /\ \A st \in ToSet(p.todo) : StatementHasCause(after, st)'
  BY StatementsStay DEF ProcessIsDated
<1> QED BY <1>1, <1>2, <1>3, <1>4 DEF ProcessIsDated

LEMMA HeadAndTail ==
    ASSUME NEW S, NEW s \in Seq(S), s # <<>>
    PROVE  /\ Head(s) \in S /\ Tail(s) \in Seq(S) /\ Tail(s) \in Seq(ToSet(Tail(s)))
           /\ ToSet(s) = {Head(s)} \cup ToSet(Tail(s))
           /\ Len(s) = 1 <=> Tail(s) = <<>>
<1>1. PICK n \in Nat : n = Len(s) /\ n # 0
  OBVIOUS
<1>2. DOMAIN s = 1 .. n /\ Head(s) = s[1] /\ 1 \in 1 .. n
  BY <1>1
<1>3. PICK t : t = Tail(s)
  OBVIOUS
<1>4. t \in Seq(S) /\ Len(t) = n - 1 /\ DOMAIN t = 1 .. n - 1 /\ \A i \in 1 .. n - 1 : t[i] = s[i + 1]
  BY <1>1, <1>3
<1>5. t \in Seq(ToSet(t))
  <2>1. t \in [1 .. n - 1 -> ToSet(t)]
    BY <1>4 DEF ToSet
  <2> QED BY <1>1, <2>1
<1>6. ToSet(s) \subseteq {Head(s)} \cup ToSet(t)
  <2>1. ASSUME NEW i \in 1 .. n, i # 1 PROVE s[i] \in ToSet(t)
    <3>1. i - 1 \in 1 .. n - 1 /\ (i - 1) + 1 = i
      BY <1>1, <2>1
    <3>2. t[i - 1] = s[i]
      BY <1>4, <3>1
    <3> QED BY <1>4, <3>1, <3>2 DEF ToSet
  <2> QED BY <1>2, <2>1 DEF ToSet
<1>7. ToSet(t) \subseteq ToSet(s)
  <2>1. ASSUME NEW i \in 1 .. n - 1 PROVE t[i] \in ToSet(s)
    <3>1. i + 1 \in 1 .. n /\ t[i] = s[i + 1]
      BY <1>1, <1>4, <2>1
    <3> QED BY <1>2, <3>1 DEF ToSet
  <2> QED BY <1>4, <2>1 DEF ToSet
<1>8. Head(s) \in ToSet(s) /\ Head(s) \in S
  BY <1>2 DEF ToSet
<1>9. n = 1 <=> t = <<>>
  BY <1>1, <1>4
<1> QED BY <1>1, <1>3, <1>4, <1>5, <1>6, <1>7, <1>8, <1>9

LEMMA ListIsSeq ==
    ASSUME NEW s, NEW S, Lists(s, S)
    PROVE  s \in Seq(ToSet(s)) /\ ToSet(s) = S
BY ListsTell

\* The processes after a step of w, which goes on as p.
GoesOn(w, p) ==
    /\ proc' = [v \in Workers |-> proc'[v]]
    /\ proc'[w] = p
    /\ \A v \in Workers \ {w} : proc'[v] = proc[v] \/ proc'[v] = [proc[v] EXCEPT !.alone = FALSE]

LEMMA AloneIsFalse ==
    ASSUME NEW q, IsProcess(q)
    PROVE  LET r == [q EXCEPT !.alone = FALSE]
           IN  /\ IsProcess(r)
               /\ r = [kind |-> q.kind, step |-> q.step, id |-> q.id, second |-> q.second,
                       todo |-> q.todo, policy |-> q.policy, alone |-> FALSE]
               /\ q.step # "store" => r = q
               /\ \A second : ProcessIsDated(second, q) => ProcessIsDated(second, r)
<1>1. [q EXCEPT !.alone = FALSE] =
          [kind |-> q.kind, step |-> q.step, id |-> q.id, second |-> q.second,
           todo |-> q.todo, policy |-> q.policy, alone |-> FALSE]
  <2>1. PICK kind, step, id, second, todo, policy, alone :
            q = [kind |-> kind, step |-> step, id |-> id, second |-> second,
                 todo |-> todo, policy |-> policy, alone |-> alone]
    BY DEF IsProcess
  <2> DEFINE Those == [kind : {kind}, step : {step}, id : {id}, second : {second},
                       todo : {todo}, policy : {policy}, alone : {alone, FALSE}]
  <2>2. q \in Those
    BY <2>1
  <2>3. [q EXCEPT !.alone = FALSE] \in Those /\ [q EXCEPT !.alone = FALSE].alone = FALSE
    BY <2>2
  <2>4. \A r \in Those : r = [kind |-> kind, step |-> step, id |-> id, second |-> second,
                             todo |-> todo, policy |-> policy, alone |-> r.alone]
    OBVIOUS
  <2>5. [q EXCEPT !.alone = FALSE] = [kind |-> kind, step |-> step, id |-> id, second |-> second,
                             todo |-> todo, policy |-> policy, alone |-> FALSE]
    BY <2>3, <2>4
  <2>6. /\ q.kind = kind /\ q.step = step /\ q.id = id /\ q.second = second
        /\ q.todo = todo /\ q.policy = policy
    BY <2>1
  <2> QED BY <2>5, <2>6
<1>2. PICK r : r = [kind |-> q.kind, step |-> q.step, id |-> q.id, second |-> q.second,
           todo |-> q.todo, policy |-> q.policy, alone |-> FALSE]
  OBVIOUS
<1>3. r.kind = q.kind /\ r.step = q.step /\ r.id = q.id /\ r.second = q.second /\ r.todo = q.todo
      /\ r.policy = q.policy /\ r.alone = FALSE
  BY <1>2
<1>4. IsProcess(r)
  BY <1>2, <1>3 DEF IsProcess
<1>5. q.step # "store" => r = q
  BY <1>2 DEF IsProcess
<1>6. \A second : ProcessIsDated(second, q) => ProcessIsDated(second, r)
  BY <1>3 DEF ProcessIsDated
<1> QED BY <1>1, <1>2, <1>4, <1>5, <1>6

LEMMA ShapesStay ==
    ASSUME Shaped, NEW w \in Workers, NEW p, IsProcess(p), GoesOn(w, p), rows' = [s \in Seconds |-> rows'[s]]
    PROVE  Shaped'
<1>1. ASSUME NEW v \in Workers PROVE IsProcess(proc'[v])
  <2>1. CASE v = w
    BY <2>1 DEF GoesOn
  <2>2. CASE v # w
    <3>1. PICK q : q = proc[v] /\ IsProcess(q)
      BY DEF Shaped
    <3>2. IsProcess([q EXCEPT !.alone = FALSE])
      BY <3>1, AloneIsFalse
    <3> QED BY <2>2, <3>1, <3>2 DEF GoesOn
  <2> QED BY <2>1, <2>2
<1> QED BY <1>1 DEF Shaped, GoesOn

\* A step in which nobody scans.
LEMMA DatesStay ==
    ASSUME Typed, Shaped, NEW second, DatedBy(second), Goes(second, second), UNCHANGED <<scans, now>>,
           \A s \in Seconds : file'[s] \in Snapshots => file'[s] \in written' /\ second[file'[s]] = s,
           \A x \in written' \ written : file'[second[x]] # NoFile,
           \A s \in Seconds : rows'[s] = rows[s] \/ (rows'[s] \in written' /\ second[rows'[s]] = s),
           \A run \in DOMAIN runs' : run \in DOMAIN runs \/ HasCause(second, run)',
           NEW w \in Workers, NEW p, ProcessIsDated(second, p)', GoesOn(w, p)
    PROVE  DatedBy(second)'
<1>1. Snapshots' = Snapshots /\ now' = now
  BY DEF Snapshots
<1>2. /\ second \in [Snapshots' -> Seconds]
      /\ \A x, y \in Snapshots' : x <= y => second[x] <= second[y]
      /\ \A x \in Snapshots' : second[x] <= now'
      /\ \A s \in Seconds : file'[s] \in Snapshots' => file'[s] \in written' /\ second[file'[s]] = s
  BY <1>1 DEF DatedBy
<1>3. \A x \in written' : file'[second[x]] # NoFile
  BY DEF DatedBy, Goes
<1>4. \A s \in Rows' : rows'[s] \in written' /\ second[rows'[s]] = s
  BY DEF DatedBy, Goes, Rows
<1>5. \A run \in DOMAIN runs' : HasCause(second, run)'
  BY CausesStay DEF DatedBy
<1>6. ASSUME NEW v \in Workers PROVE ProcessIsDated(second, proc[v])'
  <2>1. CASE v = w
    BY <2>1 DEF GoesOn, ProcessIsDated
  <2>2. CASE v # w
    <3>1. PICK q : q = proc[v] /\ IsProcess(q) /\ ProcessIsDated(second, q)
      BY DEF Shaped, DatedBy
    <3>2. ProcessIsDated(second, q)'
      BY <3>1, ProcessesStay
    <3>3. PICK r : r = proc'[v]
      OBVIOUS
    <3>4. r = q \/ r = [q EXCEPT !.alone = FALSE]
      BY <2>2, <3>1, <3>3 DEF GoesOn
    <3>5. r.kind = q.kind /\ r.step = q.step /\ r.id = q.id /\ r.second = q.second /\ r.todo = q.todo
      <4>1. CASE r = q
        BY <4>1
      <4>2. CASE r = [q EXCEPT !.alone = FALSE]
        BY <3>1, <4>2, AloneIsFalse
      <4> QED BY <3>4, <4>1, <4>2
    <3>6. ProcessIsDated(second, r)'
      BY <3>2, <3>5 DEF ProcessIsDated
    <3> QED BY <3>3, <3>6 DEF ProcessIsDated
  <2> QED BY <2>1, <2>2
<1> QED BY <1>2, <1>3, <1>4, <1>5, <1>6 DEF DatedBy

\* What a run that loads all files is about to store has its cause.
LEMMA NeighboursHaveCause ==
    ASSUME Typed, NEW second, DatedBy(second), ~IsTorn, NEW k \in 1 .. Len(Loaded) - 1
    PROVE  HasCause(second, RunOf(Loaded, k))
<1>1. PICK n, a, b : n = Len(Loaded) /\ a = Loaded[k] /\ b = Loaded[k + 1]
  OBVIOUS
<1>2. n \in Nat /\ k \in 1 .. n /\ k + 1 \in 1 .. n /\ k \in Nat
  BY <1>1, LoadedTells
<1>3. a \in Kept /\ b \in Kept /\ Kept \subseteq Snapshots /\ Snapshots \subseteq Nat /\ written \subseteq Snapshots
  BY <1>1, <1>2, LoadedTells DEF Typed, Snapshots
<1>4. \A x \in Kept : x \in written /\ second[x] \in Seconds /\ file[second[x]] = x
  BY <1>3 DEF Kept, DatedBy
<1>5. RunOf(Loaded, k) = <<a, b>>
  BY <1>1 DEF RunOf
<1>6. ASSUME NEW x \in written, a < x, x < b
      PROVE  second[x] = second[a] \/ second[x] = second[b]
  <2>1. x \in Snapshots /\ second[x] \in Seconds /\ file[second[x]] # NoFile /\ file[second[x]] # Torn
    BY <1>3 DEF DatedBy, IsTorn
  <2>2. PICK y : y = file[second[x]]
    OBVIOUS
  <2>3. y \in Kept /\ y \in Snapshots /\ second[y] = second[x]
    BY <1>3, <1>4, <2>1, <2>2 DEF Kept, DatedBy
  <2>4. PICK i \in 1 .. n : Loaded[i] = y
    BY <1>1, <2>3, LoadedTells
  <2>5. y <= a \/ b <= y
    <3>1. CASE i < k
      BY <1>1, <1>2, <2>4, <3>1, <1>3, <2>3, LoadedTells
    <3>2. CASE i = k
      <4>1. y = a
        BY <1>1, <2>4, <3>2
      <4>2. a \in Nat
        BY <1>3
      <4> QED BY <4>1, <4>2
    <3>3. CASE i = k + 1
      <4>1. y = b
        BY <1>1, <2>4, <3>3
      <4>2. b \in Nat
        BY <1>3
      <4> QED BY <4>1, <4>2
    <3>4. CASE k + 1 < i
      BY <1>1, <1>2, <2>4, <3>4, <1>3, <2>3, LoadedTells
    <3> QED BY <1>2, <2>4, <3>1, <3>2, <3>3, <3>4
  <2>6. /\ second[a] \in Nat /\ second[b] \in Nat /\ second[x] \in Nat
        /\ a \in Snapshots /\ b \in Snapshots
    BY <1>3, <1>4, <2>1 DEF Seconds
  <2>7. \A u, v \in Snapshots : u <= v => second[u] <= second[v]
    BY DEF DatedBy
  <2>8. CASE y <= a
    <3>1. second[y] <= second[a] /\ second[a] <= second[x]
      BY <1>3, <1>6, <2>1, <2>3, <2>6, <2>7, <2>8
    <3> QED BY <2>3, <2>6, <3>1
  <2>9. CASE b <= y
    <3>1. second[b] <= second[y] /\ second[x] <= second[b]
      BY <1>3, <1>6, <2>1, <2>3, <2>6, <2>7, <2>9
    <3> QED BY <2>3, <2>6, <3>1
  <2> QED BY <2>5, <2>8, <2>9
<1>7. PICK run : run = <<a, b>>
  OBVIOUS
<1>8. a < b
  BY <1>1, <1>2, LoadedTells
<1>9. HasCause(second, run)
  BY <1>3, <1>4, <1>6, <1>7, <1>8 DEF HasCause, Between
<1> QED BY <1>5, <1>7, <1>9

LEMMA ReportHasCause ==
    ASSUME NEW second, NEW run, HasCause(second, run), NEW report, NEW st \in OfReport(run, report)
    PROVE  StatementHasCause(second, st)
<1>1. CASE st = Totals(run, report)
  BY <1>1 DEF Totals, Statement, StatementHasCause
<1>2. CASE \E f \in All(report) : st = Inserted(run, f)
  BY <1>2 DEF Inserted, Statement, StatementHasCause
<1> QED BY <1>1, <1>2 DEF OfReport

LEMMA WholeHasCause ==
    ASSUME Typed, NEW second, DatedBy(second), ~IsTorn, Loaded # <<>>, NEW kind, NEW p,
           NEW st \in Whole(kind, p)
    PROVE  StatementHasCause(second, st)
<1>1. CASE \E x \in Kept : st = Statement("snapshots", SecondOf(x), x)
  <2>1. PICK x \in Kept : st = Statement("snapshots", SecondOf(x), x)
    BY <1>1
  <2>2. \E s \in Seconds : file[s] = x
    BY DEF Kept
  <2>3. SecondOf(x) \in Seconds /\ file[SecondOf(x)] = x
    BY <2>2 DEF SecondOf
  <2>4. x \in Snapshots /\ x \in written /\ second[x] = SecondOf(x)
    BY <2>3, LoadedTells DEF DatedBy
  <2> QED BY <2>1, <2>3, <2>4 DEF Statement, StatementHasCause
<1>2. CASE \E k \in DOMAIN Timeline(p, Loaded) : st \in OfReport(RunOf(Loaded, k), Timeline(p, Loaded)[k])
  <2>1. PICK k \in DOMAIN Timeline(p, Loaded) : st \in OfReport(RunOf(Loaded, k), Timeline(p, Loaded)[k])
    BY <1>2
  <2>2. k \in 1 .. Len(Loaded) - 1
    BY ReportsAre
  <2>3. HasCause(second, RunOf(Loaded, k))
    BY <2>2, NeighboursHaveCause
  <2> QED BY <2>1, <2>3, ReportHasCause
<1>3. CASE \E e \in EpisodesOf(p, Loaded, Timeline(p, Loaded)) : st = Statement("episodes", e.id, e)
  BY <1>3 DEF Statement, StatementHasCause
<1> QED
  <2>1. PICK reports : reports = Timeline(p, Loaded)
    OBVIOUS
  <2>2. Whole(kind, p) =
          (IF kind = "rebuild" THEN {Statement("snapshots", SecondOf(x), x) : x \in Kept} ELSE {})
          \cup (IF kind = "episodes" THEN {}
                ELSE UNION {OfReport(RunOf(Loaded, k), reports[k]) : k \in DOMAIN reports})
          \cup {Statement("episodes", e.id, e) : e \in EpisodesOf(p, Loaded, reports)}
    BY <2>1 DEF Whole
  <2>3. \/ \E x \in Kept : st = Statement("snapshots", SecondOf(x), x)
        \/ \E k \in DOMAIN reports : st \in OfReport(RunOf(Loaded, k), reports[k])
        \/ \E e \in EpisodesOf(p, Loaded, reports) : st = Statement("episodes", e.id, e)
    BY <2>2
  <2> QED BY <1>1, <1>2, <1>3, <2>1, <2>3

LEMMA PutsOn ==
    ASSUME Shaped, NEW w \in Workers, NEW p, Writes(w, p) \/ proc' = [proc EXCEPT ![w] = p]
    PROVE  GoesOn(w, p)
<1>1. CASE Writes(w, p)
  BY <1>1 DEF Writes, GoesOn
<1>2. CASE proc' = [proc EXCEPT ![w] = p]
  BY <1>2 DEF Shaped, GoesOn
<1> QED BY <1>1, <1>2

LEMMA ProcessFields ==
    ASSUME NEW p, NEW kind, NEW step \in Steps, NEW id, NEW second, NEW todo,
           p = Process(kind, step, id, second, todo)
    PROVE  /\ p.kind = kind /\ p.step = step /\ p.id = id /\ p.second = second /\ p.todo = todo
           /\ p.alone = FALSE
           /\ IsProcess(p)
BY DEF Process, IsProcess

LEMMA StoringFields ==
    ASSUME NEW p, NEW kind, NEW policy, NEW todo, p = Storing(kind, policy, todo)
    PROVE  /\ p.kind = kind /\ p.step = "store" /\ p.todo = todo /\ p.policy = policy /\ p.alone = TRUE
           /\ IsProcess(p)
BY DEF Storing, IsProcess, Steps

\* A process that does nothing, or has yet to read.
LEMMA RestingIsDated ==
    ASSUME NEW p, p = Idle \/ \E kind : p = Doing(kind, "load"), NEW second
    PROVE  IsProcess(p) /\ ProcessIsDated(second, p)'
<1>1. p.step \in {"idle", "load"} /\ IsProcess(p)
  <2>1. {"idle", "load"} \subseteq Steps
    BY DEF Steps
  <2>2. CASE p = Idle
    BY <2>1, <2>2, ProcessFields DEF Idle
  <2>3. CASE \E kind : p = Doing(kind, "load")
    BY <2>1, <2>3, ProcessFields DEF Doing
  <2> QED BY <2>2, <2>3
<1> QED BY <1>1 DEF ProcessIsDated

LEMMA StoringIsDated ==
    ASSUME NEW p, NEW kind, NEW policy, NEW todo,
           todo = <<>> => p = Idle, todo # <<>> => p = Storing(kind, policy, todo),
           NEW second, todo \in Seq(ToSet(todo)), \A st \in ToSet(todo) : StatementHasCause(second, st)'
    PROVE  IsProcess(p) /\ ProcessIsDated(second, p)'
<1>1. "idle" \in Steps
  BY DEF Steps
<1>2. p = Idle => IsProcess(p) /\ p.step = "idle"
  BY <1>1 DEF Idle, Process, IsProcess
<1>3. p = Storing(kind, policy, todo) =>
        /\ p.kind = kind /\ p.step = "store" /\ p.todo = todo /\ p.policy = policy /\ p.alone = TRUE
        /\ IsProcess(p)
  BY StoringFields
<1>4. IsProcess(p) /\ (p.step = "idle" \/ (p.step = "store" /\ p.todo = todo /\ todo # <<>>))
  BY <1>2, <1>3
<1> QED BY <1>4 DEF ProcessIsDated

\* The seconds of the snapshots taken so far are those of before.
Follows(second) ==
    /\ Typed' /\ Shaped'
    /\ \E after : DatedBy(after)' /\ \A x \in Snapshots : after[x] = second[x]

LEMMA NothingIsStored ==
    ASSUME Typed, Shaped, NEW second, DatedBy(second),
           UNCHANGED <<now, scans, file, rows, runs, written, late>>, asked \subseteq asked',
           NEW w \in Workers, NEW p, IsProcess(p), ProcessIsDated(second, p)', GoesOn(w, p)
    PROVE  Follows(second)
<1>1. Typed'
  BY DEF Typed, Snapshots
<1>2. Shaped'
  <2>1. rows' = [s \in Seconds |-> rows'[s]]
    BY DEF Shaped
  <2> QED BY <2>1, ShapesStay
<1>3. Goes(second, second)
  BY DEF Goes, Typed, Snapshots
<1>4. /\ \A s \in Seconds : file'[s] \in Snapshots => file'[s] \in written' /\ second[file'[s]] = s
      /\ \A x \in written' \ written : file'[second[x]] # NoFile
      /\ \A s \in Seconds : rows'[s] = rows[s]
      /\ \A run \in DOMAIN runs' : run \in DOMAIN runs
      /\ UNCHANGED <<scans, now>>
  BY DEF DatedBy
<1>5. DatedBy(second)'
  BY <1>3, <1>4, DatesStay
<1> QED BY <1>1, <1>2, <1>5 DEF Follows

LEMMA TakeScanDates ==
    ASSUME DateInv, NEW second, DatedBy(second), NEW w \in Workers, NEW seen \in AllScans, NEW s \in {now, now + 1} \cap Seconds,
           TakeScan(w, seen, s)
    PROVE  Follows(second)
<1>1. DatedBy(second)
  OBVIOUS
<1>2. PICK n \in Nat : n = Len(scans) /\ Snapshots = 1 .. n
  BY DEF DateInv, Typed, Snapshots
<1>3. scans' = Append(scans, seen) /\ scans \in Seq(AllScans)
  BY DEF TakeScan, DateInv, Typed
<1>4. scans' \in Seq(AllScans) /\ Len(scans') = n + 1 /\ Snapshots' = 1 .. n + 1
  BY <1>2, <1>3 DEF Snapshots
<1>5. now \in Nat /\ s \in Nat /\ now <= s /\ now' = s
  BY DEF DateInv, Typed, TakeScan, Seconds
<1>6. UNCHANGED <<file, rows, runs, asked, written, late>>
  BY DEF TakeScan, Tables
<1>7. Typed'
  BY <1>2, <1>4, <1>5, <1>6 DEF DateInv, Typed
<1>8. PICK p : p = Process("job", "truncate", n + 1, s, <<>>)
  OBVIOUS
<1>9. /\ p.kind = "job" /\ p.step = "truncate" /\ p.id = n + 1 /\ p.second = s
      /\ IsProcess(p)
  <2>1. "truncate" \in Steps
    BY DEF Steps
  <2> QED BY <1>8, <2>1 DEF Process, IsProcess
<1>10. GoesOn(w, p)
  BY <1>2, <1>8, PutsOn DEF TakeScan, DateInv
<1>11. Shaped'
  BY <1>6, <1>9, <1>10, ShapesStay DEF DateInv, Shaped
<1>12. PICK after : after = [x \in 1 .. n + 1 |-> IF x = n + 1 THEN s ELSE second[x]]
  OBVIOUS
<1>13. second \in [1 .. n -> Seconds] /\ \A x \in 1 .. n : second[x] \in Seconds /\ second[x] <= now /\ second[x] \in Nat
  BY <1>1, <1>2 DEF DatedBy, Seconds
<1>14. /\ after[n + 1] = s /\ \A x \in 1 .. n : x \in 1 .. n + 1 /\ after[x] = second[x]
       /\ \A x \in 1 .. n + 1 : x = n + 1 \/ x \in 1 .. n
  BY <1>2, <1>12
<1>15. after \in [1 .. n + 1 -> Seconds]
  BY <1>12, <1>13, <1>14
<1>16. \A x, y \in 1 .. n + 1 : x <= y => after[x] <= after[y]
  <2>1. SUFFICES ASSUME NEW x \in 1 .. n + 1, NEW y \in 1 .. n + 1, x <= y PROVE after[x] <= after[y]
    OBVIOUS
  <2>2. CASE y = n + 1
    BY <1>5, <1>13, <1>14, <2>2
  <2>3. CASE y \in 1 .. n
    <3>1. x \in 1 .. n
      BY <2>1, <2>3
    <3>2. second[x] <= second[y]
      BY <1>1, <1>2, <2>1, <2>3, <3>1 DEF DatedBy
    <3> QED BY <1>14, <2>3, <3>1, <3>2
  <2> QED BY <1>14, <2>2, <2>3
<1>17. \A x \in 1 .. n + 1 : after[x] <= now'
  BY <1>5, <1>13, <1>14
<1>18. Goes(second, after)
  BY <1>2, <1>4, <1>6, <1>14 DEF Goes, DateInv, Typed
<1>19. written \subseteq 1 .. n
  BY <1>2 DEF DateInv, Typed
<1>20. \A t \in Seconds : file'[t] \in Snapshots' => file'[t] \in written' /\ after[file'[t]] = t
  <2>1. SUFFICES ASSUME NEW t \in Seconds, file[t] \in 1 .. n + 1 PROVE file[t] \in written /\ after[file[t]] = t
    BY <1>4, <1>6
  <2>2. file[t] \in 1 .. n
    BY <1>2, <2>1 DEF DateInv, Typed, NoFile, Torn
  <2> QED BY <1>1, <1>2, <1>14, <2>2 DEF DatedBy
<1>21. \A x \in written' : file'[after[x]] # NoFile
  BY <1>1, <1>6, <1>14, <1>19 DEF DatedBy
<1>22. \A t \in Rows' : rows'[t] \in written' /\ after[rows'[t]] = t
  BY <1>1, <1>6, <1>14, <1>19 DEF DatedBy, Rows
<1>23. \A run \in DOMAIN runs' : HasCause(after, run)'
  BY <1>1, <1>6, <1>18, CausesStay DEF DatedBy, DateInv
<1>24. ASSUME NEW v \in Workers PROVE ProcessIsDated(after, proc[v])'
  <2>1. CASE v = w
    <3>1. ProcessIsDated(after, p)'
      BY <1>4, <1>9, <1>14 DEF ProcessIsDated
    <3> QED BY <1>10, <2>1, <3>1 DEF GoesOn, ProcessIsDated
  <2>2. CASE v # w
    <3>1. proc'[v] = proc[v]
      BY <2>2 DEF TakeScan, DateInv, Shaped
    <3>2. PICK q : q = proc[v] /\ ProcessIsDated(second, q)
      BY <1>1 DEF DatedBy
    <3>3. ProcessIsDated(after, q)'
      BY <1>18, <3>2, ProcessesStay DEF DateInv
    <3> QED BY <3>1, <3>2, <3>3 DEF ProcessIsDated
  <2> QED BY <2>1, <2>2
<1>25. DatedBy(after)'
  BY <1>4, <1>15, <1>16, <1>17, <1>20, <1>21, <1>22, <1>23, <1>24 DEF DatedBy
<1> QED BY <1>2, <1>7, <1>11, <1>14, <1>25 DEF Follows

\* Field updates of a process.
LEMMA StepPut ==
    ASSUME NEW q, IsProcess(q), q.step # "store", NEW s \in Steps \ {"store"},
           NEW r, r = [q EXCEPT !.step = s]
    PROVE  /\ IsProcess(r)
           /\ r.kind = q.kind /\ r.step = s /\ r.id = q.id /\ r.second = q.second
           /\ r.todo = q.todo
<1>1. PICK kind, step, id, second, todo, policy, alone :
          /\ q = [kind |-> kind, step |-> step, id |-> id, second |-> second,
                  todo |-> todo, policy |-> policy, alone |-> alone]
          /\ alone = FALSE
  BY DEF IsProcess
<1> DEFINE Those == [kind : {kind}, step : {step, s}, id : {id}, second : {second},
                     todo : {todo}, policy : {policy}, alone : {alone}]
<1>2. q \in Those
  BY <1>1
<1>3. r \in Those /\ r.step = s
  BY <1>1, <1>2
<1>4. \A x \in Those : x = [kind |-> kind, step |-> x.step, id |-> id, second |-> second,
                           todo |-> todo, policy |-> policy, alone |-> alone]
  OBVIOUS
<1>5. r = [kind |-> kind, step |-> s, id |-> id, second |-> second,
           todo |-> todo, policy |-> policy, alone |-> alone]
  BY <1>3, <1>4
<1>6. /\ q.kind = kind /\ q.id = id /\ q.second = second /\ q.todo = todo
  BY <1>1
<1>7. /\ r.kind = kind /\ r.step = s /\ r.id = id /\ r.second = second /\ r.todo = todo
      /\ r.policy = policy /\ r.alone = alone
  BY <1>5
<1>8. IsProcess(r)
  BY <1>1, <1>5, <1>7 DEF IsProcess
<1> QED BY <1>6, <1>7, <1>8

LEMMA TodoPut ==
    ASSUME NEW q, IsProcess(q), q.step = "store", NEW tail,
           NEW r, r = [q EXCEPT !.todo = tail]
    PROVE  /\ IsProcess(r)
           /\ r.kind = q.kind /\ r.step = "store" /\ r.todo = tail
           /\ r.policy = q.policy /\ r.alone = q.alone
<1>1. PICK kind, step, id, second, todo, policy, alone :
          q = [kind |-> kind, step |-> step, id |-> id, second |-> second,
               todo |-> todo, policy |-> policy, alone |-> alone]
  BY DEF IsProcess
<1> DEFINE Those == [kind : {kind}, step : {step}, id : {id}, second : {second},
                     todo : {todo, tail}, policy : {policy}, alone : {alone}]
<1>2. q \in Those
  BY <1>1
<1>3. r \in Those /\ r.todo = tail
  BY <1>1, <1>2
<1>4. \A x \in Those : x = [kind |-> kind, step |-> step, id |-> id, second |-> second,
                           todo |-> x.todo, policy |-> policy, alone |-> alone]
  OBVIOUS
<1>5. r = [kind |-> kind, step |-> step, id |-> id, second |-> second,
           todo |-> tail, policy |-> policy, alone |-> alone]
  BY <1>3, <1>4
<1>6. /\ q.kind = kind /\ q.step = step /\ q.policy = policy /\ q.alone = alone
  BY <1>1
<1>7. /\ r.kind = kind /\ r.step = step /\ r.id = id /\ r.second = second /\ r.todo = tail
      /\ r.policy = policy /\ r.alone = alone
  BY <1>5
<1>8. IsProcess(r)
  BY <1>5, <1>6, <1>7 DEF IsProcess, Steps
<1> QED BY <1>6, <1>7, <1>8

LEMMA StepDates ==
    ASSUME Typed, Shaped, NEW second, DatedBy(second), Goes(second, second), UNCHANGED <<scans, now>>,
           file' \in [Seconds -> {NoFile, Torn} \cup Snapshots],
           rows' = [s \in Seconds |-> rows'[s]],
           \A s \in Seconds : file'[s] \in Snapshots => file'[s] \in written' /\ second[file'[s]] = s,
           \A x \in written' \ written : file'[second[x]] # NoFile,
           \A s \in Seconds : rows'[s] = rows[s] \/ (rows'[s] \in written' /\ second[rows'[s]] = s),
           \A run \in DOMAIN runs' : run \in DOMAIN runs \/ HasCause(second, run)',
           NEW w \in Workers, NEW p, IsProcess(p), ProcessIsDated(second, p)', GoesOn(w, p)
    PROVE  Follows(second)
<1>1. Typed'
  BY DEF Typed, Snapshots, Goes
<1>2. Shaped'
  BY ShapesStay
<1>3. Snapshots' = Snapshots
  BY DEF Snapshots
<1>4. DatedBy(second)'
  BY <1>3, DatesStay
<1> QED BY <1>1, <1>2, <1>4 DEF Follows

LEMMA TruncateDates ==
    ASSUME DateInv, NEW second, DatedBy(second), NEW w \in Workers, TruncateFile(w)
    PROVE  Follows(second)
<1>1. DatedBy(second)
  OBVIOUS
<1>2. PICK q : q = proc[w] /\ IsProcess(q) /\ ProcessIsDated(second, q) /\ q.step = "truncate"
  BY <1>1 DEF DateInv, Shaped, DatedBy, TruncateFile
<1>3. PICK r : r = [q EXCEPT !.step = "write"]
  OBVIOUS
<1>4. IsProcess(r) /\ r.kind = q.kind /\ r.step = "write" /\ r.id = q.id /\ r.second = q.second /\ r.todo = q.todo
  <2>1. "write" \in Steps \ {"store"}
    BY DEF Steps
  <2> QED BY <1>2, <1>3, <2>1, StepPut
<1>5. GoesOn(w, r)
  BY <1>2, <1>3, PutsOn DEF TruncateFile, DateInv
<1>6. /\ file' = [file EXCEPT ![q.second] = Torn]
      /\ UNCHANGED <<scans, now, rows, runs, asked, written, late>>
  BY <1>2 DEF TruncateFile, Tables, Bounds
<1>7. /\ q.id \in Snapshots /\ q.second \in Seconds /\ second[q.id] = q.second
      /\ file \in [Seconds -> {NoFile, Torn} \cup Snapshots]
  BY <1>2 DEF ProcessIsDated, DateInv, Typed
<1>8. file' \in [Seconds -> {NoFile, Torn} \cup Snapshots] /\ Torn # NoFile /\ Torn \notin Snapshots
  BY <1>6, <1>7 DEF NoFile, Torn, Snapshots
<1>9. \A s \in Seconds : file'[s] = IF s = q.second THEN Torn ELSE file[s]
  BY <1>6, <1>7
<1>10. Goes(second, second)
  BY <1>6, <1>8, <1>9 DEF Goes, DateInv, Typed, Snapshots
<1>11. ProcessIsDated(second, q)'
  BY <1>2, <1>10, ProcessesStay DEF DateInv
<1>12. ProcessIsDated(second, r)'
  BY <1>2, <1>4, <1>11 DEF ProcessIsDated
<1>13. \A s \in Seconds : file'[s] \in Snapshots => file'[s] \in written' /\ second[file'[s]] = s
  BY <1>1, <1>6, <1>8, <1>9 DEF DatedBy
<1>14. rows' = [s \in Seconds |-> rows'[s]]
  BY <1>6 DEF DateInv, Shaped
<1> QED BY <1>1, <1>4, <1>5, <1>6, <1>8, <1>10, <1>12, <1>13, <1>14, StepDates DEF DateInv

LEMMA WriteDates ==
    ASSUME DateInv, NEW second, DatedBy(second), NEW w \in Workers, WriteFile(w)
    PROVE  Follows(second)
<1>1. DatedBy(second)
  OBVIOUS
<1>2. PICK q : q = proc[w] /\ IsProcess(q) /\ ProcessIsDated(second, q) /\ q.step = "write"
  BY <1>1 DEF DateInv, Shaped, DatedBy, WriteFile
<1>3. PICK step : step = IF q.kind = "migrate" THEN "read" ELSE "register"
  OBVIOUS
<1>4. PICK r : r = [q EXCEPT !.step = step]
  OBVIOUS
<1>5. IsProcess(r) /\ r.kind = q.kind /\ r.step = step /\ r.id = q.id /\ r.second = q.second /\ r.todo = q.todo
  <2>1. step \in Steps \ {"store"}
    BY <1>3 DEF Steps
  <2> QED BY <1>2, <1>4, <2>1, StepPut
<1>6. GoesOn(w, r)
  BY <1>2, <1>3, <1>4, PutsOn DEF WriteFile, DateInv
<1>7. PICK result \in {q.id, Torn} : file' = [file EXCEPT ![q.second] = result]
  BY <1>2 DEF WriteFile
<1>8. /\ written' = written \cup {q.id}
      /\ late' = IF q.id \notin written /\ \E x \in written : x > q.id THEN late \cup {q.id} ELSE late
      /\ UNCHANGED <<scans, now, rows, runs, asked>>
  BY <1>2 DEF WriteFile, Tables, Bounds
<1>9. /\ q.id \in Snapshots /\ q.second \in Seconds /\ second[q.id] = q.second
      /\ file \in [Seconds -> {NoFile, Torn} \cup Snapshots]
      /\ written \subseteq Snapshots
  BY <1>2 DEF ProcessIsDated, DateInv, Typed
<1>10. file' \in [Seconds -> {NoFile, Torn} \cup Snapshots] /\ result # NoFile
       /\ (result \in Snapshots => result = q.id)
  BY <1>7, <1>9 DEF NoFile, Torn, Snapshots
<1>11. \A s \in Seconds : file'[s] = IF s = q.second THEN result ELSE file[s]
  BY <1>7, <1>9
<1>12. Goes(second, second)
  <2>1. \A x \in written' \ written : (\E y \in written : y > x) => x \in late'
    BY <1>8
  <2>2. late \subseteq late' /\ written \subseteq written' /\ written' \subseteq Snapshots
    BY <1>8, <1>9
  <2>3. \A s \in Seconds : file[s] # NoFile => file'[s] # NoFile
    BY <1>10, <1>11
  <2>4. Snapshots \subseteq Snapshots'
    BY <1>8 DEF Snapshots
  <2> QED BY <1>8, <2>1, <2>2, <2>3, <2>4 DEF Goes
<1>13. ProcessIsDated(second, q)'
  BY <1>2, <1>12, ProcessesStay DEF DateInv
<1>14. ProcessIsDated(second, r)'
  BY <1>2, <1>3, <1>5, <1>8, <1>13 DEF ProcessIsDated
<1>15. \A s \in Seconds : file'[s] \in Snapshots => file'[s] \in written' /\ second[file'[s]] = s
  BY <1>1, <1>8, <1>9, <1>10, <1>11 DEF DatedBy
<1>16. \A x \in written' \ written : file'[second[x]] # NoFile
  BY <1>8, <1>9, <1>10, <1>11
<1>17. rows' = [s \in Seconds |-> rows'[s]]
  BY <1>8 DEF DateInv, Shaped
<1> QED BY <1>1, <1>5, <1>6, <1>8, <1>10, <1>12, <1>14, <1>15, <1>16, <1>17, StepDates DEF DateInv

LEMMA RegisterDates ==
    ASSUME DateInv, NEW second, DatedBy(second), NEW w \in Workers, RegisterSnapshot(w)
    PROVE  Follows(second)
<1>1. DatedBy(second)
  OBVIOUS
<1>2. PICK q : q = proc[w] /\ IsProcess(q) /\ ProcessIsDated(second, q) /\ q.step = "register"
  BY <1>1 DEF DateInv, Shaped, DatedBy, RegisterSnapshot
<1>3. PICK r : r = Doing("job", "load")
  OBVIOUS
<1>4. IsProcess(r) /\ ProcessIsDated(second, r)'
  BY <1>3, RestingIsDated
<1>5. GoesOn(w, r)
  BY <1>3, PutsOn DEF RegisterSnapshot, DateInv
<1>6. /\ rows' = [rows EXCEPT ![q.second] = q.id]
      /\ UNCHANGED <<scans, now, file, runs, asked, written, late>>
  BY <1>2 DEF RegisterSnapshot, Bounds
<1>7. q.id \in written /\ q.second \in Seconds /\ second[q.id] = q.second
  BY <1>2 DEF ProcessIsDated
<1>8. /\ rows' = [s \in Seconds |-> rows'[s]]
      /\ \A s \in Seconds : rows'[s] = rows[s] \/ (rows'[s] \in written' /\ second[rows'[s]] = s)
  <2>1. rows = [s \in Seconds |-> rows[s]]
    BY DEF DateInv, Shaped
  <2> QED BY <1>6, <1>7, <2>1
<1>9. Goes(second, second)
  BY <1>6 DEF Goes, DateInv, Typed, Snapshots
<1>10. file' \in [Seconds -> {NoFile, Torn} \cup Snapshots]
  BY <1>6 DEF DateInv, Typed
<1>11. \A s \in Seconds : file'[s] \in Snapshots => file'[s] \in written' /\ second[file'[s]] = s
  BY <1>1, <1>6 DEF DatedBy
<1> QED BY <1>1, <1>4, <1>5, <1>6, <1>8, <1>9, <1>10, <1>11, StepDates DEF DateInv

\* A step that changes nobody's data, and a process's own.
LEMMA OnlyProcesses ==
    ASSUME DateInv, NEW second, DatedBy(second), NEW w \in Workers, NEW p,
           UNCHANGED <<now, scans, file, rows, runs, written, late, asked>>,
           proc' = [proc EXCEPT ![w] = p], IsProcess(p), ProcessIsDated(second, p)'
    PROVE  Follows(second)
<1>1. GoesOn(w, p)
  BY PutsOn DEF DateInv
<1> QED BY <1>1, NothingIsStored DEF DateInv

LEMMA IdleDates ==
    ASSUME DateInv, NEW second, DatedBy(second), NEW w \in Workers, LoadFails(w) \/ Die(w)
    PROVE  Follows(second)
<1>1. DatedBy(second)
  OBVIOUS
<1>2. PICK p : p = Idle
  OBVIOUS
<1>3. IsProcess(p) /\ ProcessIsDated(second, p)'
  BY <1>2, RestingIsDated
<1>4. /\ UNCHANGED <<now, scans, file, rows, runs, written, late, asked>>
      /\ proc' = [proc EXCEPT ![w] = p]
  BY <1>2 DEF LoadFails, Die, Tables, Bounds
<1> QED BY <1>1, <1>3, <1>4, OnlyProcesses

LEMMA AskDates ==
    ASSUME DateInv, NEW second, DatedBy(second), NEW w \in Workers, NEW kind \in RequestKinds, Ask(w, kind)
    PROVE  Follows(second)
<1>1. DatedBy(second)
  OBVIOUS
<1>2. PICK p : p = IF kind = "migrate"
                   THEN Process(kind, "read", 0, 0, SetToSeq({s \in Seconds : file[s] # NoFile}))
                   ELSE Doing(kind, "load")
  OBVIOUS
<1>3. /\ UNCHANGED <<now, scans, file, rows, runs, written, late, asked>>
      /\ proc' = [proc EXCEPT ![w] = p]
  BY <1>2 DEF Ask, Tables
<1>4. CASE kind # "migrate"
  <2>1. p = Doing(kind, "load")
    BY <1>2, <1>4
  <2>2. IsProcess(p) /\ ProcessIsDated(second, p)'
    BY <2>1, RestingIsDated
  <2> QED BY <1>1, <1>3, <2>2, OnlyProcesses
<1>5. CASE kind = "migrate"
  <2>1. PICK present : present = {s \in Seconds : file[s] # NoFile}
    OBVIOUS
  <2>2. PICK list : list = SetToSeq(present)
    OBVIOUS
  <2>3. Lists(list, present)
    <3>1. IsFiniteSet(Seconds)
      BY FS_Interval, ResultsConstants DEF Seconds
    <3>2. IsFiniteSet(present)
      BY <2>1, <3>1, FS_Subset
    <3> QED BY <2>2, <3>2, ListsSet
  <2>4. list \in Seq(present) /\ Len(list) \in Nat
    BY <2>3, ListsTell
  <2>5. list \in Seq(Seconds) /\ \A i \in 1 .. Len(list) : file'[list[i]] # NoFile
    BY <1>3, <2>1, <2>4
  <2>6. p = Process("migrate", "read", 0, 0, list)
    BY <1>2, <1>5, <2>1, <2>2
  <2>7. p.kind = "migrate" /\ p.step = "read" /\ p.todo = list /\ IsProcess(p)
    BY <2>6 DEF Process, IsProcess, Steps
  <2>8. ProcessIsDated(second, p)'
    BY <2>5, <2>7 DEF ProcessIsDated
  <2> QED BY <1>1, <1>3, <2>7, <2>8, OnlyProcesses
<1> QED BY <1>4, <1>5

LEMMA MigrateDates ==
    ASSUME DateInv, NEW second, DatedBy(second), NEW w \in Workers, MigrateNext(w)
    PROVE  Follows(second)
<1>1. DatedBy(second)
  OBVIOUS
<1>2. PICK q : q = proc[w] /\ IsProcess(q) /\ ProcessIsDated(second, q) /\ q.step = "read"
  BY <1>1 DEF DateInv, Shaped, DatedBy, MigrateNext
<1>3. /\ q.kind = "migrate" /\ q.todo \in Seq(Seconds)
      /\ \A i \in 1 .. Len(q.todo) : file[q.todo[i]] # NoFile
  BY <1>2 DEF ProcessIsDated
<1>4. UNCHANGED <<now, scans, file, rows, runs, written, late, asked>>
  BY DEF MigrateNext, Tables, Bounds
<1>5. CASE q.todo = <<>> \/ file[Head(q.todo)] = Torn
  <2>1. PICK p : p = Idle
    OBVIOUS
  <2>2. IsProcess(p) /\ ProcessIsDated(second, p)'
    BY <2>1, RestingIsDated
  <2>3. proc' = [proc EXCEPT ![w] = p]
    BY <1>2, <1>5, <2>1 DEF MigrateNext
  <2> QED BY <1>1, <1>4, <2>2, <2>3, OnlyProcesses
<1>6. CASE ~(q.todo = <<>> \/ file[Head(q.todo)] = Torn)
  <2>1. PICK s, id, tail : s = Head(q.todo) /\ id = file[s] /\ tail = Tail(q.todo)
    OBVIOUS
  <2>2. PICK n \in Nat : n = Len(q.todo) /\ n # 0
    BY <1>3, <1>6
  <2>3. /\ s = q.todo[1] /\ 1 \in 1 .. n /\ s \in Seconds /\ tail \in Seq(Seconds) /\ Len(tail) = n - 1
        /\ \A i \in 1 .. n - 1 : tail[i] = q.todo[i + 1] /\ i + 1 \in 1 .. n
    BY <1>3, <2>1, <2>2
  <2>4. id \in Snapshots /\ file[s] # NoFile
    BY <1>3, <1>6, <2>1, <2>2, <2>3 DEF DateInv, Typed
  <2>5. id \in written /\ second[id] = s
    BY <1>1, <2>1, <2>3, <2>4 DEF DatedBy
  <2>6. PICK p : p = Process("migrate", "truncate", id, s, tail)
    OBVIOUS
  <2>7. /\ p.kind = "migrate" /\ p.step = "truncate" /\ p.id = id /\ p.second = s /\ p.todo = tail
        /\ IsProcess(p)
    BY <2>6 DEF Process, IsProcess, Steps
  <2>8. tail \in Seq(Seconds) /\ \A i \in 1 .. Len(tail) : file'[tail[i]] # NoFile
    BY <1>3, <1>4, <2>2, <2>3
  <2>9. id \in Snapshots' /\ id \in written'
    BY <1>4, <2>4, <2>5 DEF Snapshots
  <2>10. ProcessIsDated(second, p)'
    BY <2>3, <2>5, <2>7, <2>8, <2>9 DEF ProcessIsDated
  <2>11. proc' = [proc EXCEPT ![w] = p]
    BY <1>2, <1>3, <1>6, <2>1, <2>6 DEF MigrateNext
  <2> QED BY <1>1, <1>4, <2>7, <2>10, <2>11, OnlyProcesses
<1> QED BY <1>5, <1>6

LEMMA LoadDates ==
    ASSUME DateInv, NEW second, DatedBy(second), NEW w \in Workers, NEW policy \in Policies, LoadFiles(w, policy)
    PROVE  Follows(second)
<1>1. DatedBy(second)
  OBVIOUS
<1>2. PICK kind, held : kind = proc[w].kind /\ held = PolicyAt[policy]
  OBVIOUS
<1>3. PICK todo : todo = StatementsOf(kind, held, Loaded, Timeline(held, Loaded))
  OBVIOUS
<1>4. UNCHANGED <<now, scans, file, rows, runs, written, late, asked>>
  BY DEF LoadFiles, Tables, Bounds
<1>5. ~IsTorn /\ Loaded # <<>>
  <2>1. Len(Loaded) >= 1
    BY DEF LoadFiles, CanLoad
  <2>2. Loaded # <<>>
    BY <2>1
  <2> QED BY <2>2 DEF LoadFiles, CanLoad
<1>6. Lists(todo, Whole(kind, held))
  BY <1>3, <1>5, WholeIsListed DEF DateInv
<1>7. todo \in Seq(ToSet(todo)) /\ ToSet(todo) = Whole(kind, held)
  BY <1>6, ListIsSeq
<1>8. Goes(second, second)
  BY <1>4 DEF Goes, DateInv, Typed, Snapshots
<1>9. ASSUME NEW st \in ToSet(todo) PROVE StatementHasCause(second, st)'
  <2>1. StatementHasCause(second, st)
    BY <1>1, <1>5, <1>7, WholeHasCause DEF DateInv
  <2> QED BY <1>8, <2>1, StatementsStay DEF DateInv
<1>10. PICK p : p = IF todo = <<>> THEN Idle ELSE Storing(kind, policy, todo)
  OBVIOUS
<1>11. (todo = <<>> => p = Idle) /\ (todo # <<>> => p = Storing(kind, policy, todo))
  BY <1>10
<1>12. IsProcess(p) /\ ProcessIsDated(second, p)'
  BY <1>7, <1>9, <1>11, StoringIsDated
<1>13. proc' = [proc EXCEPT ![w] = p]
  BY <1>2, <1>3, <1>10 DEF LoadFiles, Stores
<1> QED BY <1>1, <1>4, <1>12, <1>13, OnlyProcesses

LEMMA PairDates ==
    ASSUME DateInv, NEW second, DatedBy(second), NEW w \in Workers, NEW policy \in Policies, NEW older \in Kept, NEW newer \in Kept,
           LoadPair(w, policy, older, newer)
    PROVE  Follows(second)
<1>1. DatedBy(second)
  OBVIOUS
<1>2. PICK run, report : /\ run = <<older, newer>>
                         /\ report = Compared(PolicyAt[policy], older, newer, Unseen)
  OBVIOUS
<1>3. PICK todo : todo = ReportStatements(run, report)
  OBVIOUS
<1>4. UNCHANGED <<now, scans, file, rows, runs, written, late>> /\ asked' = asked \cup {run}
  BY <1>2 DEF LoadPair, Tables, Bounds
<1>5. IsFiniteSet(All(report))
  <2>1. Kept \subseteq 1 .. Len(scans) /\ scans \in Seq(AllScans)
    BY LoadedTells DEF DateInv, Typed, Snapshots
  <2>2. scans[older] \in AllScans /\ scans[newer] \in AllScans
    BY <2>1
  <2>3. report = ReportOf(PolicyAt[policy], scans[older], scans[newer], newer, Unseen)
    BY <1>2 DEF Compared, ReportOf
  <2> QED BY <2>2, <2>3, ReportIsFinite
<1>6. todo \in Seq(ToSet(todo)) /\ ToSet(todo) = OfReport(run, report)
  BY <1>3, <1>5, ReportIsListed, ListIsSeq
<1>7. HasCause(second, run)'
  BY <1>4 DEF HasCause
<1>8. ASSUME NEW st \in ToSet(todo) PROVE StatementHasCause(second, st)'
  <2>1. CASE st = Totals(run, report)
    BY <1>7, <2>1 DEF Totals, Statement, StatementHasCause
  <2>2. CASE \E f \in All(report) : st = Inserted(run, f)
    BY <2>2 DEF Inserted, Statement, StatementHasCause
  <2> QED BY <1>6, <2>1, <2>2 DEF OfReport
<1>9. PICK p : p = IF todo = <<>> THEN Idle ELSE Storing("pair", policy, todo)
  OBVIOUS
<1>10. (todo = <<>> => p = Idle) /\ (todo # <<>> => p = Storing("pair", policy, todo))
  BY <1>9
<1>11. PICK kind : kind = "pair"
  OBVIOUS
<1>12. (todo = <<>> => p = Idle) /\ (todo # <<>> => p = Storing(kind, policy, todo))
  BY <1>10, <1>11
<1>13. IsProcess(p) /\ ProcessIsDated(second, p)'
  BY <1>6, <1>8, <1>12, StoringIsDated
<1>14. proc' = [proc EXCEPT ![w] = p]
  BY <1>2, <1>3, <1>9 DEF LoadPair, Stores
<1>15. GoesOn(w, p)
  BY <1>14, PutsOn DEF DateInv
<1> QED BY <1>1, <1>4, <1>13, <1>15, NothingIsStored DEF DateInv

LEMMA StoreDates ==
    ASSUME DateInv, NEW second, DatedBy(second), NEW w \in Workers, StoreNext(w)
    PROVE  Follows(second)
<1>1. DatedBy(second)
  OBVIOUS
<1>2. PICK q : q = proc[w] /\ IsProcess(q) /\ ProcessIsDated(second, q) /\ q.step = "store"
  BY <1>1 DEF DateInv, Shaped, DatedBy, StoreNext
<1>3. PICK st, tail : st = Head(q.todo) /\ tail = Tail(q.todo)
  OBVIOUS
<1>4. /\ StatementHasCause(second, st)
      /\ tail \in Seq(ToSet(tail)) /\ (Len(q.todo) = 1 <=> tail = <<>>)
      /\ \A x \in ToSet(tail) : StatementHasCause(second, x)
  <2>1. /\ q.todo \in Seq(ToSet(q.todo)) /\ q.todo # <<>>
        /\ \A x \in ToSet(q.todo) : StatementHasCause(second, x)
    BY <1>2 DEF ProcessIsDated
  <2>2. /\ tail \in Seq(ToSet(tail)) /\ (Len(q.todo) = 1 <=> tail = <<>>)
        /\ ToSet(q.todo) = {st} \cup ToSet(tail)
    BY <1>3, <2>1, HeadAndTail
  <2> QED BY <2>1, <2>2
<1>5. UNCHANGED <<scans, now, file, asked, written, late>>
  BY DEF StoreNext, Bounds
<1>6. Goes(second, second)
  BY <1>5 DEF Goes, DateInv, Typed, Snapshots
<1>7. PICK r : r = IF Len(q.todo) = 1 THEN Idle ELSE [q EXCEPT !.todo = tail]
  OBVIOUS
<1>8. GoesOn(w, r)
  <2>1. Writes(w, r)
    BY <1>2, <1>3, <1>7 DEF StoreNext
  <2> QED BY <2>1, PutsOn DEF DateInv
<1>9. IsProcess(r) /\ ProcessIsDated(second, r)'
  <2>1. CASE Len(q.todo) = 1
    <3>1. r = Idle
      BY <1>7, <2>1
    <3> QED BY <3>1, RestingIsDated
  <2>2. CASE Len(q.todo) # 1
    <3>1. IsProcess(r) /\ r.step = "store" /\ r.todo = tail
      BY <1>2, <1>7, <2>2, TodoPut
    <3>2. \A x \in ToSet(tail) : StatementHasCause(second, x)'
      BY <1>4, <1>6, StatementsStay DEF DateInv
    <3> QED BY <1>4, <2>2, <3>1, <3>2 DEF ProcessIsDated
  <2> QED BY <2>1, <2>2
<1>10. StatementHasCause(second, st)'
  BY <1>4, <1>6, StatementsStay DEF DateInv
<1>11. \/ rows' = rows
       \/ rows' = [rows EXCEPT ![st.key] = st.row] /\ st.key \in Seconds
          /\ st.row \in written' /\ second[st.row] = st.key
  BY <1>2, <1>3, <1>10 DEF StoreNext, StatementHasCause
<1>12. /\ rows' = [s \in Seconds |-> rows'[s]]
       /\ \A s \in Seconds : rows'[s] = rows[s] \/ (rows'[s] \in written' /\ second[rows'[s]] = s)
  <2>1. rows = [s \in Seconds |-> rows[s]]
    BY DEF DateInv, Shaped
  <2> QED BY <1>11, <2>1
<1>13. \A run \in DOMAIN runs' : run \in DOMAIN runs \/ HasCause(second, run)'
  <2>1. \/ runs' = runs
        \/ runs' = With(runs, st.key, st.row) /\ HasCause(second, st.key)'
    BY <1>2, <1>3, <1>10 DEF StoreNext, StatementHasCause
  <2>2. DOMAIN With(runs, st.key, st.row) = {st.key} \cup DOMAIN runs
    BY DEF With
  <2> QED BY <2>1, <2>2
<1>14. file' \in [Seconds -> {NoFile, Torn} \cup Snapshots]
  BY <1>5 DEF DateInv, Typed
<1>15. \A s \in Seconds : file'[s] \in Snapshots => file'[s] \in written' /\ second[file'[s]] = s
  BY <1>1, <1>5 DEF DatedBy
<1> QED BY <1>1, <1>5, <1>6, <1>8, <1>9, <1>12, <1>13, <1>14, <1>15, StepDates DEF DateInv

LEMMA StutterDates ==
    ASSUME DateInv, NEW second, DatedBy(second), UNCHANGED vars
    PROVE  Follows(second)
<1>1. DateInv /\ UNCHANGED vars
  OBVIOUS
<1>2. DatedBy(second)
  OBVIOUS
<1>3. UNCHANGED <<now, scans, file, rows, runs, proc, written, late, asked>>
  BY <1>1 DEF vars, Tables, Bounds
<1>4. Typed' /\ Shaped' /\ Snapshots' = Snapshots
  BY <1>1, <1>3 DEF DateInv, Typed, Shaped, Snapshots
<1>5. Goes(second, second)
  BY <1>1, <1>3, <1>4 DEF Goes, DateInv, Typed
<1>6. \A run \in DOMAIN runs' : HasCause(second, run)'
  BY <1>1, <1>2, <1>3, <1>5, CausesStay DEF DateInv, DatedBy
<1>7. ASSUME NEW w \in Workers PROVE ProcessIsDated(second, proc[w])'
  <2>1. PICK q : q = proc[w] /\ ProcessIsDated(second, q)
    BY <1>2 DEF DatedBy
  <2>2. ProcessIsDated(second, q)'
    BY <1>1, <1>5, <2>1, ProcessesStay DEF DateInv
  <2> QED BY <1>3, <2>1, <2>2 DEF ProcessIsDated
<1>8. DatedBy(second)'
  BY <1>2, <1>3, <1>4, <1>6, <1>7 DEF DatedBy, Rows
<1> QED BY <1>4, <1>8 DEF Follows

LEMMA DatesFollow ==
    ASSUME DateInv, NEW second, DatedBy(second), [Next]_vars
    PROVE  Follows(second)
<1>1. SUFFICES ASSUME Next PROVE Follows(second)
  BY StutterDates
<1>2. PICK w \in Workers :
        \/ \E seen \in AllScans, s \in {now, now + 1} \cap Seconds : TakeScan(w, seen, s)
        \/ \E kind \in RequestKinds : Ask(w, kind)
        \/ TruncateFile(w) \/ WriteFile(w) \/ RegisterSnapshot(w)
        \/ Loads(w) \/ LoadFails(w) \/ StoreNext(w) \/ MigrateNext(w) \/ Die(w)
  BY <1>1 DEF Next
<1>3. CASE \E seen \in AllScans, s \in {now, now + 1} \cap Seconds : TakeScan(w, seen, s)
  BY <1>1, <1>3, TakeScanDates
<1>4. CASE \E kind \in RequestKinds : Ask(w, kind)
  BY <1>1, <1>4, AskDates
<1>5. CASE TruncateFile(w)
  BY <1>1, <1>5, TruncateDates
<1>6. CASE WriteFile(w)
  BY <1>1, <1>6, WriteDates
<1>7. CASE RegisterSnapshot(w)
  BY <1>1, <1>7, RegisterDates
<1>8. CASE Loads(w)
  BY <1>1, <1>8, LoadDates, PairDates DEF Loads
<1>9. CASE LoadFails(w) \/ Die(w)
  BY <1>1, <1>9, IdleDates
<1>10. CASE StoreNext(w)
  BY <1>1, <1>10, StoreDates
<1>11. CASE MigrateNext(w)
  BY <1>1, <1>11, MigrateDates
<1> QED BY <1>2, <1>3, <1>4, <1>5, <1>6, <1>7, <1>8, <1>9, <1>10, <1>11

LEMMA DatesStep == DateInv /\ [Next]_vars => DateInv'
<1>1. SUFFICES ASSUME DateInv, [Next]_vars PROVE DateInv'
  OBVIOUS
<1>2. PICK second : DatedBy(second)
  BY <1>1 DEF DateInv
<1>3. Follows(second)
  BY <1>1, <1>2, DatesFollow
<1> QED BY <1>3 DEF Follows, DateInv

LEMMA DatesHold == Spec => []DateInv
<1>1. Init => DateInv
  BY DateInit
<1>2. DateInv /\ [Next]_vars => DateInv'
  BY DatesStep
<1> QED BY <1>1, <1>2, PTL DEF Spec

LEMMA DatesExplain == DateInv => StrayRowsHaveCause
<1>1. SUFFICES ASSUME DateInv PROVE StrayRowsHaveCause
  OBVIOUS
<1>2. PICK second : DatedBy(second)
  BY <1>1 DEF DateInv
<1>3. PICK n : n = Len(Loaded)
  OBVIOUS
<1>4. /\ n \in Nat /\ \A i, j \in 1 .. n : i < j => Loaded[i] < Loaded[j]
      /\ \A x \in Kept : \E i \in 1 .. n : Loaded[i] = x
      /\ \A i \in 1 .. n : Loaded[i] \in Kept
      /\ Kept \subseteq Snapshots /\ Snapshots \subseteq Nat /\ written \subseteq Snapshots
  BY <1>1, <1>3, LoadedTells DEF DateInv, Typed, Snapshots
<1>5. \A x \in Kept : x \in written /\ file[second[x]] = x
  BY <1>2, <1>4 DEF Kept, DatedBy
<1>6. ASSUME NEW run \in DOMAIN runs \ (asked \cup Neighbours)
      PROVE  \/ \E i \in 1 .. 2 : run[i] \in Lost
             \/ \E x \in late : run[1] < x /\ x < run[2]
  <2>1. PICK a, b : a = run[1] /\ b = run[2]
    OBVIOUS
  <2>2. /\ run = <<a, b>> /\ a \in written /\ b \in written /\ a < b
        /\ \A x \in Between(run) : x \in late \/ second[x] = second[a] \/ second[x] = second[b]
    BY <1>2, <1>6, <2>1 DEF DatedBy, HasCause
  <2>3. CASE a \notin Kept \/ b \notin Kept
    BY <2>1, <2>2, <2>3 DEF Lost
  <2>4. CASE a \in Kept /\ b \in Kept
    <3>1. PICK i \in 1 .. n : Loaded[i] = a
      BY <1>4, <2>4
    <3>2. PICK j \in 1 .. n : Loaded[j] = b
      BY <1>4, <2>4
    <3>3. i < j
      <4>1. SUFFICES ASSUME ~(i < j) PROVE FALSE
        OBVIOUS
      <4>2. a \in Nat /\ b \in Nat
        BY <1>4, <2>4
      <4>3. CASE i = j
        BY <2>2, <3>1, <3>2, <4>2, <4>3
      <4>4. CASE j < i
        <5>1. b < a
          BY <1>4, <3>1, <3>2, <4>4
        <5> QED BY <2>2, <4>2, <5>1
      <4> QED BY <4>1, <4>3, <4>4
    <3>4. j # i + 1
      <4>1. SUFFICES ASSUME j = i + 1 PROVE FALSE
        OBVIOUS
      <4>2. i \in 1 .. n - 1
        BY <1>4, <4>1
      <4>3. run = RunOf(Loaded, i)
        BY <2>2, <3>1, <3>2, <4>1 DEF RunOf
      <4> QED BY <1>3, <1>6, <4>2, <4>3 DEF Neighbours
    <3>5. i + 1 \in 1 .. n /\ i < i + 1 /\ i + 1 < j
      BY <1>4, <3>3, <3>4
    <3>6. PICK x : x = Loaded[i + 1]
      OBVIOUS
    <3>7. x \in Kept /\ a < x /\ x < b
      BY <1>4, <3>1, <3>2, <3>5, <3>6
    <3>8. x \in Between(run)
      BY <1>5, <2>1, <3>7 DEF Between
    <3>9. second[x] # second[a] /\ second[x] # second[b]
      <4>1. x \in Nat /\ a \in Nat /\ b \in Nat
        BY <1>4, <2>4, <3>7
      <4>2. x # a /\ x # b
        BY <3>7, <4>1
      <4> QED BY <1>5, <2>4, <3>7, <4>2
    <3> QED BY <2>1, <2>2, <3>7, <3>8, <3>9
  <2> QED BY <2>3, <2>4
<1>7. ASSUME NEW s \in Rows
      PROVE  file[s] = rows[s] \/ rows[s] \in Lost
  <2>1. rows[s] \in written /\ second[rows[s]] = s
    BY <1>2 DEF DatedBy
  <2>2. CASE rows[s] \in Kept
    BY <1>5, <2>1, <2>2
  <2> QED BY <2>1, <2>2 DEF Lost
<1> QED BY <1>6, <1>7 DEF StrayRowsHaveCause

\* Whatever the processes do, and wherever they die: a pair of snapshots in the
\* tables that are no neighbours in the directory was asked for, or the file of
\* one has been overwritten, or a snapshot between them was saved late; and a
\* row of snapshots names the file of its second, or one that was overwritten.
THEOREM StrayRowsAreExplained == Spec => []StrayRowsHaveCause
BY DatesHold, DatesExplain, PTL

LEMMA TornStays ==
    ASSUME DateInv, [Next]_vars, NEW s \in Seconds, Abandoned(s)
    PROVE  /\ file'[s] = Torn
           /\ \A w \in Workers : proc[w].step = "load" /\ proc[w].kind # "pair" => proc'[w] \in {proc[w], Idle}
<1>1. IsTorn
  BY DEF Abandoned, IsTorn
<1>2. CASE UNCHANGED vars
  BY <1>2 DEF vars, Abandoned
<1>3. CASE Next
  <2>1. PICK w \in Workers :
          \/ \E seen \in AllScans, t \in {now, now + 1} \cap Seconds : TakeScan(w, seen, t)
          \/ \E kind \in RequestKinds : Ask(w, kind)
          \/ TruncateFile(w) \/ WriteFile(w) \/ RegisterSnapshot(w)
          \/ Loads(w) \/ LoadFails(w) \/ StoreNext(w) \/ MigrateNext(w) \/ Die(w)
    BY <1>3 DEF Next
  <2>2. file'[s] = Torn
    <3>1. CASE TruncateFile(w) \/ WriteFile(w)
      <4>1. proc[w].second # s
        BY <3>1 DEF TruncateFile, WriteFile, Abandoned
      <4>2. file'[s] = file[s]
        <5>1. PICK x, y : file' = [file EXCEPT ![x] = y] /\ x # s
          BY <3>1, <4>1 DEF TruncateFile, WriteFile
        <5>2. file \in [Seconds -> {NoFile, Torn} \cup Snapshots]
          BY DEF DateInv, Typed
        <5> QED BY <5>1, <5>2
      <4> QED BY <4>2 DEF Abandoned
    <3>2. CASE ~(TruncateFile(w) \/ WriteFile(w))
      <4>1. file' = file
        BY <2>1, <3>2 DEF TakeScan, Ask, RegisterSnapshot, Loads, LoadFiles, LoadPair, LoadFails,
                          StoreNext, MigrateNext, Die
      <4> QED BY <4>1 DEF Abandoned
    <3> QED BY <3>1, <3>2
  <2>3. ASSUME NEW v \in Workers, proc[v].step = "load", proc[v].kind # "pair"
        PROVE  proc'[v] \in {proc[v], Idle}
    <3>1. PICK q : q = proc[v] /\ IsProcess(q) /\ q.step = "load"
      BY <2>3 DEF DateInv, Shaped
    <3>2. [q EXCEPT !.alone = FALSE] = q
      BY <3>1, AloneIsFalse
    <3>3. CASE v = w
      <4>1. LoadFails(w) \/ Die(w)
        BY <1>1, <2>1, <2>3, <3>3 DEF TakeScan, Ask, TruncateFile, WriteFile, RegisterSnapshot, Loads, LoadFiles,
             CanLoad, LoadPair, StoreNext, MigrateNext
      <4>2. proc' = [proc EXCEPT ![w] = Idle]
        BY <4>1 DEF LoadFails, Die
      <4> QED BY <3>3, <4>2 DEF DateInv, Shaped
    <3>4. CASE v # w
      <4>1. \/ \E p : proc' = [proc EXCEPT ![w] = p]
            \/ \E p : Writes(w, p)
        BY <2>1 DEF TakeScan, Ask, TruncateFile, WriteFile, RegisterSnapshot, Loads, LoadFiles,
             LoadPair, Stores, LoadFails, StoreNext, MigrateNext, Die
      <4>2. CASE \E p : proc' = [proc EXCEPT ![w] = p]
        BY <3>4, <4>2 DEF DateInv, Shaped
      <4>3. CASE \E p : Writes(w, p)
        BY <3>1, <3>2, <3>4, <4>3 DEF Writes
      <4> QED BY <4>1, <4>2, <4>3
    <3> QED BY <3>3, <3>4
  <2> QED BY <2>2, <2>3
<1> QED BY <1>2, <1>3

\* A file that was left torn, once its second is over, is torn for good: no
\* process writes it again, and none that analyses the target gets beyond
\* reading it, however many processes there are.
THEOREM TornIsFinal == Spec => TornStopsTarget
<1>1. DateInv /\ [Next]_vars =>
        \A s \in Seconds : Abandoned(s) =>
          /\ file'[s] = Torn
          /\ \A w \in Workers : proc[w].step = "load" /\ proc[w].kind # "pair" =>
                proc'[w] \in {proc[w], Idle}
  BY TornStays
<1>2. Spec => []DateInv
  BY DatesHold
<1>3. DateInv /\ [Next]_vars =>
        [\A s \in Seconds : Abandoned(s) =>
          /\ file'[s] = Torn
          /\ \A w \in Workers : proc[w].step = "load" /\ proc[w].kind # "pair" =>
                proc'[w] \in {proc[w], Idle}]_vars
  BY <1>1
<1> QED BY <1>2, <1>3, PTL DEF Spec, TornStopsTarget

(***************************************************************************)
(* What an undisturbed run leaves                                          *)
(***************************************************************************)
\* The history in a timeline does not depend on snapshots taken since.
LEMMA TimelinesAre ==
    ASSUME NEW p, NEW ids, NEW n \in Nat, Len(ids) = n
    PROVE  Builds(p, ids, n, Timelines(p, ids))
<1>1. PICK f : f = CHOOSE g : Builds(p, ids, n, g)
  OBVIOUS
<1>2. Builds(p, ids, n, f)
  BY <1>1, BuildsExist
<1>3. Timelines(p, ids) = f
  BY <1>1 DEF Timelines, Builds, Blank
<1> QED BY <1>2, <1>3

LEMMA TimelinesWillBe ==
    ASSUME NEW p, NEW ids, NEW n \in Nat, Len(ids) = n
    PROVE  Builds(p, ids, n, Timelines(p, ids))'
<1>1. Builds(p, ids, n, Timelines(p, ids))
  BY TimelinesAre
<1> QED BY <1>1, PTL

LEMMA TimelineStays ==
    ASSUME NEW p, NEW ids \in Seq(Snapshots), ids # <<>>, \A x \in Snapshots : scans'[x] = scans[x]
    PROVE  Timeline(p, ids)' = Timeline(p, ids)
<1>1. PICK n \in Nat : n = Len(ids) /\ n # 0 /\ \A k \in 1 .. n : ids[k] \in Snapshots
  OBVIOUS
<1>2. PICK f : f = Timelines(p, ids)
  OBVIOUS
<1>3. PICK g : g = Timelines(p, ids)'
  OBVIOUS
<1>4. /\ f[1] = Blank
      /\ \A k \in 2 .. n : f[k] = Extended(f[k - 1], Compared(p, ids[k - 1], ids[k], f[k - 1].seen))
  BY <1>1, <1>2, TimelinesAre DEF Builds
<1>5. Builds(p, ids, n, g)'
  BY <1>1, <1>3, TimelinesWillBe
<1>6. /\ g[1] = Blank
      /\ \A k \in 2 .. n : g[k] = Extended(g[k - 1], (Compared(p, ids[k - 1], ids[k], g[k - 1].seen))')
  BY <1>1, <1>5 DEF Builds
<1>7. ASSUME NEW k \in 2 .. n, NEW s
      PROVE  (Compared(p, ids[k - 1], ids[k], s))' = Compared(p, ids[k - 1], ids[k], s)
  <2>1. k \in 1 .. n /\ k - 1 \in 1 .. n
    BY <1>1
  <2>2. scans'[ids[k]] = scans[ids[k]] /\ scans'[ids[k - 1]] = scans[ids[k - 1]]
    BY <1>1, <2>1
  <2> QED BY <2>2 DEF Compared
<1>8. PICK Q : Q = {m \in Nat : m + 1 \in 1 .. n => f[m + 1] = g[m + 1]}
  OBVIOUS
<1>9. 0 \in Q
  BY <1>4, <1>6, <1>8
<1>10. ASSUME NEW m \in Nat, m \in Q PROVE m + 1 \in Q
  <2>1. SUFFICES ASSUME m + 2 \in 1 .. n PROVE f[m + 2] = g[m + 2]
    BY <1>8
  <2>2. (m + 2) - 1 = m + 1 /\ m + 2 \in 2 .. n /\ f[m + 1] = g[m + 1]
    BY <1>8, <1>10, <2>1
  <2>3. PICK k, s : k \in 2 .. n /\ k = m + 2 /\ k - 1 = m + 1 /\ s = f[m + 1].seen /\ s = g[m + 1].seen
    BY <2>2
  <2>4. f[k] = Extended(f[k - 1], Compared(p, ids[k - 1], ids[k], s))
    BY <1>4, <2>3
  <2>5. g[k] = Extended(g[k - 1], (Compared(p, ids[k - 1], ids[k], s))')
    BY <1>6, <2>2, <2>3
  <2>6. (Compared(p, ids[k - 1], ids[k], s))' = Compared(p, ids[k - 1], ids[k], s)
    BY <1>7, <2>3
  <2>7. f[k - 1] = g[k - 1]
    BY <2>2, <2>3
  <2> QED BY <2>3, <2>4, <2>5, <2>6, <2>7
<1>11. n - 1 \in Nat /\ n - 1 \in Q /\ (n - 1) + 1 = n
  BY <1>1, <1>9, <1>10, CountUp
<1>12. f[n] = g[n]
  BY <1>1, <1>8, <1>11
<1> QED BY <1>1, <1>2, <1>3, <1>12 DEF Timeline

LEMMA WholeStays ==
    ASSUME Typed, Loaded # <<>>, file' = file, \A x \in Snapshots : scans'[x] = scans[x], NEW kind, NEW p
    PROVE  Whole(kind, p)' = Whole(kind, p) /\ Loaded' = Loaded
<1>1. PICK ids : ids = Loaded
  OBVIOUS
<1>2. ids \in Seq(Snapshots) /\ ids # <<>>
  BY <1>1, LoadedTells
<1>3. Kept' = Kept
  BY DEF Kept
<1>4. Loaded' = ids
  BY <1>1, <1>3 DEF Loaded
<1>5. PICK reports : reports = Timeline(p, ids)
  OBVIOUS
<1>6. Timeline(p, ids)' = reports
  BY <1>2, <1>5, TimelineStays
<1>7. Timeline(p, Loaded)' = reports
  BY <1>4, <1>6 DEF Timeline
<1> QED BY <1>1, <1>3, <1>4, <1>5, <1>7 DEF Whole, SecondOf

\* Different episodes have different identifiers.
LEMMA GroupIs ==
    ASSUME NEW p, NEW ids, NEW reports, NEW k, NEW e \in Groups(p, ids, reports, k)
    PROVE  /\ e.started = k
           /\ e.findings # {}
           /\ \E a : e.findings = {f \in reports[k].active : A(p, ids, reports, <<>>)!Affinity(f) = a}
           /\ e = A(p, ids, reports, <<>>)!Episode(k, e.findings)
           /\ LET at == [e.id EXCEPT !.started = ids[k]]
              IN  at.started = ids[k] /\ at.resources = {f.resource : f \in e.findings}
<1>1. PICK g \in reports[k].active :
        e = A(p, ids, reports, <<>>)!Episode(k,
              {f \in reports[k].active : A(p, ids, reports, <<>>)!Affinity(f) = A(p, ids, reports, <<>>)!Affinity(g)})
  BY DEF Groups, A!EpisodesOf
<1>2. PICK found : found = {f \in reports[k].active :
                              A(p, ids, reports, <<>>)!Affinity(f) = A(p, ids, reports, <<>>)!Affinity(g)}
  OBVIOUS
<1>3. g \in found
  BY <1>2
<1>4. e = A(p, ids, reports, <<>>)!Episode(k, found)
  BY <1>1, <1>2
<1>5. /\ e.started = k /\ e.findings = found
      /\ e.id = A(p, ids, reports, <<>>)!ClusterId(k, found)
  BY <1>4 DEF A!Episode
<1>6. PICK c, kind : e.id = [resources |-> {f.resource : f \in found}, categories |-> c,
                             started |-> k, kind |-> kind]
  BY <1>5 DEF A!ClusterId
<1>7. PICK at : at = [e.id EXCEPT !.started = ids[k]]
  OBVIOUS
<1>8. at.started = ids[k] /\ at.resources = {f.resource : f \in found}
  BY <1>6, <1>7
<1> QED BY <1>2, <1>3, <1>4, <1>5, <1>7, <1>8

LEMMA EpisodesDiffer ==
    ASSUME NEW p, NEW ids, NEW reports,
           \A j, k \in DOMAIN reports : ids[j] = ids[k] => j = k,
           NEW d \in EpisodesOf(p, ids, reports), NEW e \in EpisodesOf(p, ids, reports), d.id = e.id
    PROVE  d = e
<1>1. PICK j, x : j \in DOMAIN reports /\ x \in Groups(p, ids, reports, j) /\ d = Dated(ids, x)
  BY EpisodesAre
<1>2. PICK k, y : k \in DOMAIN reports /\ y \in Groups(p, ids, reports, k) /\ e = Dated(ids, y)
  BY EpisodesAre
<1>3. /\ d.id = [x.id EXCEPT !.started = ids[x.started]]
      /\ e.id = [y.id EXCEPT !.started = ids[y.started]]
  BY <1>1, <1>2 DEF Dated
<1>4. x.started = j /\ y.started = k
  BY <1>1, <1>2, GroupIs
<1>5. PICK at : at = [x.id EXCEPT !.started = ids[j]]
  OBVIOUS
<1>6. PICK bt : bt = [y.id EXCEPT !.started = ids[k]]
  OBVIOUS
<1>7. d.id.started = ids[j] /\ d.id.resources = {f.resource : f \in x.findings}
  <2>1. at.started = ids[j] /\ at.resources = {f.resource : f \in x.findings}
    BY <1>1, <1>5, GroupIs
  <2>2. d.id = at
    BY <1>3, <1>4, <1>5
  <2> QED BY <2>1, <2>2
<1>8. e.id.started = ids[k] /\ e.id.resources = {f.resource : f \in y.findings}
  <2>1. bt.started = ids[k] /\ bt.resources = {f.resource : f \in y.findings}
    BY <1>2, <1>6, GroupIs
  <2>2. e.id = bt
    BY <1>3, <1>4, <1>6
  <2> QED BY <2>1, <2>2
<1>9. j = k
  BY <1>1, <1>2, <1>7, <1>8
<1>10. x.findings # {} /\ y.findings # {}
  BY <1>1, <1>2, GroupIs
<1>11. PICK f \in x.findings, g \in y.findings : f.resource = g.resource
  BY <1>7, <1>8, <1>10
<1>12. PICK a : x.findings = {h \in reports[j].active : A(p, ids, reports, <<>>)!Affinity(h) = a}
  BY <1>1, GroupIs
<1>13. PICK b : y.findings = {h \in reports[j].active : A(p, ids, reports, <<>>)!Affinity(h) = b}
  BY <1>2, <1>9, GroupIs
<1>14. A(p, ids, reports, <<>>)!Affinity(f) = A(p, ids, reports, <<>>)!Affinity(g)
  BY <1>11 DEF A!Affinity
<1>15. x.findings = y.findings
  BY <1>11, <1>12, <1>13, <1>14
<1>16. x = y
  <2>1. x = A(p, ids, reports, <<>>)!Episode(j, x.findings)
    BY <1>1, GroupIs
  <2>2. y = A(p, ids, reports, <<>>)!Episode(k, y.findings)
    BY <1>2, GroupIs
  <2> QED BY <1>9, <1>15, <2>1, <2>2
<1> QED BY <1>1, <1>2, <1>16

\* A row that is written takes the place of the one of its run.
LEMMA RemovedTells ==
    \A S : \A s \in Seq(S) : \A c \in 1 .. Len(s) : \A rest : rest = RemoveAt(s, c) =>
           /\ rest \in Seq(S) /\ Len(rest) = Len(s) - 1
           /\ \A i \in 1 .. Len(s) - 1 : (i < c => rest[i] = s[i]) /\ (~(i < c) => rest[i] = s[i + 1])
<1> SUFFICES ASSUME NEW S, NEW s \in Seq(S), NEW c \in 1 .. Len(s), NEW rest, rest = RemoveAt(s, c)
    PROVE  /\ rest \in Seq(S) /\ Len(rest) = Len(s) - 1
           /\ \A i \in 1 .. Len(s) - 1 : (i < c => rest[i] = s[i]) /\ (~(i < c) => rest[i] = s[i + 1])
  OBVIOUS
<1>0. PICK n \in Nat : n = Len(s)
  OBVIOUS
<1>1. PICK before, after : before = SubSeq(s, 1, c - 1) /\ after = SubSeq(s, c + 1, n)
  OBVIOUS
<1>2. /\ before \in Seq(S) /\ Len(before) = c - 1 /\ \A i \in 1 .. c - 1 : before[i] = s[i]
  BY <1>0, <1>1
<1>3. /\ after \in Seq(S) /\ Len(after) = n - c /\ \A i \in 1 .. n - c : after[i] = s[c + i]
  BY <1>0, <1>1
<1>5. rest = before \o after
  BY <1>0, <1>1 DEF RemoveAt
<1>6. rest \in Seq(S) /\ Len(rest) = n - 1
  BY <1>0, <1>2, <1>3, <1>5
<1>7. ASSUME NEW i \in 1 .. n - 1 PROVE (i < c => rest[i] = s[i]) /\ (~(i < c) => rest[i] = s[i + 1])
  <2>1. CASE i < c
    <3>1. i \in 1 .. c - 1
      BY <1>0, <2>1
    <3> QED BY <1>0, <1>2, <1>3, <1>5, <2>1, <3>1
  <2>2. CASE ~(i < c)
    <3>1. i - (c - 1) \in 1 .. n - c /\ c + (i - (c - 1)) = i + 1
      BY <1>0, <2>2
    <3>2. rest[i] = after[i - (c - 1)]
      BY <1>0, <1>2, <1>3, <1>5, <2>2
    <3> QED BY <1>0, <1>3, <2>2, <3>1, <3>2
  <2> QED BY <2>1, <2>2
<1> QED BY <1>0, <1>6, <1>7

OneRowPerRun(s) == \A i, j \in DOMAIN s : s[i].run = s[j].run => i = j

\* It comes last, and the others stay in their order.
PutLast(s, row, t) ==
    /\ Len(t) \in DOMAIN t /\ t[Len(t)] = row
    /\ \A i, j \in DOMAIN s : (i < j /\ s[i].run # row.run /\ s[j].run # row.run) =>
            \E a, b \in DOMAIN t : a < b /\ t[a] = s[i] /\ t[b] = s[j]

LEMMA ReplacedTells ==
    ASSUME NEW S, NEW s \in Seq(S), OneRowPerRun(s), NEW row
    PROVE  LET t == Replaced(s, row)
           IN  /\ t \in Seq(ToSet(t)) /\ OneRowPerRun(t)
               /\ ToSet(t) = {r \in ToSet(s) : r.run # row.run} \cup {row}
               /\ PutLast(s, row, t)
<1>1. PICK n \in Nat : n = Len(s) /\ DOMAIN s = 1 .. n
  OBVIOUS
<1>2. PICK old : old = {i \in 1 .. n : s[i].run = row.run}
  OBVIOUS
<1>3. PICK c : c = CHOOSE i \in old : TRUE
  OBVIOUS
<1>4. PICK rest : rest = IF old = {} THEN s ELSE RemoveAt(s, c)
  OBVIOUS
<1>5. Replaced(s, row) = Append(rest, row)
  BY <1>1, <1>2, <1>3, <1>4 DEF Replaced
<1>6. \E m \in Nat : /\ rest \in Seq(S) /\ Len(rest) = m
                     /\ \A i \in 1 .. m : \E j \in 1 .. n : rest[i] = s[j] /\ j \notin old
                     /\ \A j \in 1 .. n \ old : \E i \in 1 .. m : rest[i] = s[j]
                     /\ \A i, k \in 1 .. m : rest[i].run = rest[k].run => i = k
                     /\ \A i, j \in 1 .. n \ old : i < j =>
                          \E a, b \in 1 .. m : a < b /\ rest[a] = s[i] /\ rest[b] = s[j]
  <2>1. CASE old = {}
    <3>1. rest = s
      BY <1>4, <2>1
    <3>2. /\ \A i \in 1 .. n : \E j \in 1 .. n : rest[i] = s[j] /\ j \notin old
          /\ \A j \in 1 .. n \ old : \E i \in 1 .. n : rest[i] = s[j]
          /\ \A i, k \in 1 .. n : rest[i].run = rest[k].run => i = k
      BY <1>1, <2>1, <3>1 DEF OneRowPerRun
    <3>3. \A i, j \in 1 .. n \ old : i < j => \E a, b \in 1 .. n : a < b /\ rest[a] = s[i] /\ rest[b] = s[j]
      BY <3>1
    <3> QED BY <1>1, <3>1, <3>2, <3>3
  <2>2. CASE old # {}
    <3>1. c \in 1 .. n /\ c \in old
      BY <1>2, <1>3, <2>2
    <3>2. old = {c}
      BY <1>1, <1>2, <3>1 DEF OneRowPerRun
    <3>3. /\ rest \in Seq(S) /\ Len(rest) = n - 1
          /\ \A i \in 1 .. n - 1 : (i < c => rest[i] = s[i]) /\ (~(i < c) => rest[i] = s[i + 1])
      <4>1. rest = RemoveAt(s, c)
        BY <1>4, <2>2
      <4>2. c \in 1 .. Len(s)
        BY <1>1, <3>1
      <4>3. /\ rest \in Seq(S) /\ Len(rest) = Len(s) - 1
            /\ \A i \in 1 .. Len(s) - 1 : (i < c => rest[i] = s[i]) /\ (~(i < c) => rest[i] = s[i + 1])
        BY <4>1, <4>2, RemovedTells, SMTT(40)
      <4> QED BY <1>1, <4>3
    <3>4. n - 1 \in Nat
      BY <3>1
    <3>5. PICK at : at = [i \in 1 .. n - 1 |-> IF i < c THEN i ELSE i + 1]
      OBVIOUS
    <3>6. /\ \A i \in 1 .. n - 1 : at[i] \in 1 .. n /\ at[i] # c /\ rest[i] = s[at[i]]
          /\ \A i, k \in 1 .. n - 1 : at[i] = at[k] => i = k
      BY <3>1, <3>3, <3>5
    <3>0. PICK from : from = [j \in 1 .. n |-> IF j < c THEN j ELSE j - 1]
      OBVIOUS
    <3>7. ASSUME NEW j \in 1 .. n, j # c
          PROVE  /\ from[j] \in 1 .. n - 1 /\ rest[from[j]] = s[j]
                 /\ \A i \in 1 .. n : i # c /\ i < j => from[i] < from[j]
      <4>1. CASE j < c
        <5>1. j \in 1 .. n - 1 /\ from[j] = j
          BY <3>0, <3>1, <4>1
        <5>2. \A i \in 1 .. n : i < j => from[i] = i
          BY <3>0, <3>1, <4>1
        <5> QED BY <3>3, <4>1, <5>1, <5>2
      <4>2. CASE c < j
        <5>1. j - 1 \in 1 .. n - 1 /\ ~(j - 1 < c) /\ (j - 1) + 1 = j /\ from[j] = j - 1
          BY <3>0, <3>1, <4>2
        <5>2. rest[j - 1] = s[j]
          BY <3>3, <5>1
        <5>3. \A i \in 1 .. n : i # c /\ i < j => from[i] < j - 1
          BY <3>0, <3>1, <4>2
        <5> QED BY <5>1, <5>2, <5>3
      <4> QED BY <3>1, <3>7, <4>1, <4>2
    <3>8. \A i \in 1 .. n - 1 : \E j \in 1 .. n : rest[i] = s[j] /\ j \notin old
      BY <3>2, <3>6
    <3>9. \A j \in 1 .. n \ old : \E i \in 1 .. n - 1 : rest[i] = s[j]
      BY <3>2, <3>7
    <3>10. \A i, k \in 1 .. n - 1 : rest[i].run = rest[k].run => i = k
      BY <1>1, <3>6 DEF OneRowPerRun
    <3>11. \A i, j \in 1 .. n \ old : i < j =>
             \E a, b \in 1 .. n - 1 : a < b /\ rest[a] = s[i] /\ rest[b] = s[j]
      <4>1. SUFFICES ASSUME NEW i \in 1 .. n \ old, NEW j \in 1 .. n \ old, i < j
                     PROVE  \E a, b \in 1 .. n - 1 : a < b /\ rest[a] = s[i] /\ rest[b] = s[j]
        OBVIOUS
      <4>2. i # c /\ j # c
        BY <3>2
      <4>3. /\ from[i] \in 1 .. n - 1 /\ rest[from[i]] = s[i]
            /\ from[j] \in 1 .. n - 1 /\ rest[from[j]] = s[j] /\ from[i] < from[j]
        BY <3>7, <4>1, <4>2
      <4> QED BY <4>3
    <3> QED BY <3>3, <3>4, <3>8, <3>9, <3>10, <3>11
  <2> QED BY <2>1, <2>2
<1>7. PICK m \in Nat : /\ rest \in Seq(S) /\ Len(rest) = m
                       /\ \A i \in 1 .. m : \E j \in 1 .. n : rest[i] = s[j] /\ j \notin old
                       /\ \A j \in 1 .. n \ old : \E i \in 1 .. m : rest[i] = s[j]
                       /\ \A i, k \in 1 .. m : rest[i].run = rest[k].run => i = k
                       /\ \A i, j \in 1 .. n \ old : i < j =>
                            \E a, b \in 1 .. m : a < b /\ rest[a] = s[i] /\ rest[b] = s[j]
  BY <1>6
<1>8. PICK t : t = Append(rest, row)
  OBVIOUS
<1>9. /\ t \in Seq(S \cup {row}) /\ DOMAIN t = 1 .. m + 1 /\ t[m + 1] = row
      /\ \A i \in 1 .. m : t[i] = rest[i]
  BY <1>7, <1>8
<1>10. \A i \in 1 .. m + 1 : i = m + 1 \/ i \in 1 .. m
  BY <1>7
<1>11. ASSUME NEW i \in 1 .. m PROVE t[i].run # row.run
  <2>1. PICK j \in 1 .. n : rest[i] = s[j] /\ j \notin old
    BY <1>7
  <2>2. s[j].run # row.run
    BY <1>2, <2>1
  <2> QED BY <1>9, <2>1, <2>2
<1>12. t \in Seq(ToSet(t))
  <2>1. t \in [1 .. m + 1 -> ToSet(t)]
    BY <1>9 DEF ToSet
  <2> QED BY <1>7, <2>1
<1>13. OneRowPerRun(t)
  <2>1. SUFFICES ASSUME NEW i \in 1 .. m + 1, NEW k \in 1 .. m + 1, t[i].run = t[k].run PROVE i = k
    BY <1>9 DEF OneRowPerRun
  <2>2. CASE i = m + 1 /\ k = m + 1
    BY <2>2
  <2>3. CASE i \in 1 .. m /\ k = m + 1
    BY <1>9, <1>11, <2>1, <2>3
  <2>4. CASE i = m + 1 /\ k \in 1 .. m
    BY <1>9, <1>11, <2>1, <2>4
  <2>5. CASE i \in 1 .. m /\ k \in 1 .. m
    BY <1>7, <1>9, <2>1, <2>5
  <2> QED BY <1>10, <2>2, <2>3, <2>4, <2>5
<1>14. ToSet(t) = {r \in ToSet(s) : r.run # row.run} \cup {row}
  <2>1. ToSet(t) = {t[i] : i \in 1 .. m + 1} /\ ToSet(s) = {s[j] : j \in 1 .. n}
    BY <1>1, <1>9 DEF ToSet
  <2>2. ASSUME NEW i \in 1 .. m + 1 PROVE t[i] \in {r \in ToSet(s) : r.run # row.run} \cup {row}
    <3>1. CASE i = m + 1
      BY <1>9, <3>1
    <3>2. CASE i \in 1 .. m
      <4>1. PICK j \in 1 .. n : rest[i] = s[j] /\ j \notin old
        BY <1>7, <3>2
      <4> QED BY <1>2, <1>9, <2>1, <3>2, <4>1
    <3> QED BY <1>10, <3>1, <3>2
  <2>3. ASSUME NEW r \in ToSet(s), r.run # row.run PROVE r \in ToSet(t)
    <3>1. PICK j \in 1 .. n : r = s[j]
      BY <2>1
    <3>2. j \in 1 .. n \ old
      BY <1>2, <2>3, <3>1
    <3>3. PICK i \in 1 .. m : rest[i] = s[j]
      BY <1>7, <3>2
    <3>4. i \in 1 .. m + 1 /\ t[i] = r
      BY <1>7, <1>9, <3>1, <3>3
    <3> QED BY <2>1, <3>4
  <2>4. row \in ToSet(t)
    <3>1. m + 1 \in 1 .. m + 1
      BY <1>7
    <3> QED BY <1>9, <2>1, <3>1
  <2> QED BY <2>1, <2>2, <2>3, <2>4
<1>15. PutLast(s, row, t)
  <2>1. Len(t) = m + 1 /\ m + 1 \in DOMAIN t
    BY <1>7, <1>9
  <2>2. ASSUME NEW i \in 1 .. n, NEW j \in 1 .. n, i < j, s[i].run # row.run, s[j].run # row.run
        PROVE  \E a, b \in DOMAIN t : a < b /\ t[a] = s[i] /\ t[b] = s[j]
    <3>1. i \in 1 .. n \ old /\ j \in 1 .. n \ old
      BY <1>2, <2>2
    <3>2. PICK a \in 1 .. m, b \in 1 .. m : a < b /\ rest[a] = s[i] /\ rest[b] = s[j]
      BY <1>7, <2>2, <3>1
    <3>3. a \in 1 .. m + 1 /\ b \in 1 .. m + 1
      OBVIOUS
    <3>4. DOMAIN t = 1 .. m + 1 /\ t[a] = rest[a] /\ t[b] = rest[b]
      BY <1>9
    <3> QED BY <3>2, <3>3, <3>4
  <2> QED BY <1>1, <1>9, <2>1, <2>2 DEF PutLast
<1> QED BY <1>5, <1>8, <1>12, <1>13, <1>14, <1>15

\* What is written in the table findings: under each finding, rows of runs that
\* call for it, and one row of a run at most.
NamesFinding(key, run) ==
    /\ key = <<key[1], key[2]>> /\ run = <<run[1], run[2]>>
    /\ run[1] \in Snapshots /\ run[2] \in Snapshots
    /\ Calls(key[1], key[2], scans[run[1]], scans[run[2]])
RowsNamed ==
    \A k \in DOMAIN findings :
        /\ findings[k] \in Seq(ToSet(findings[k]))
        /\ OneRowPerRun(findings[k])
        /\ \A r \in ToSet(findings[k]) : NamesFinding(k, r.run)
TodoNamed(p) ==
    p.step = "store" =>
        \A st \in ToSet(p.todo) : st.table = "findings" => NamesFinding(st.key, st.row.run)

\* The tables hold what the statement stored.
InEffect(st) ==
    /\ st.table = "runs" => st.key \in DOMAIN runs /\ runs[st.key] = st.row
    /\ st.table = "findings" => st.key \in DOMAIN findings /\ st.row \in ToSet(findings[st.key])
    /\ st.table = "episodes" => st.row \in episodes

\* A run that nobody disturbs stores the timeline of the files as they are: what
\* it has no longer to do is in the tables.
Undisturbed(p) ==
    (p.step = "store" /\ p.alone = TRUE /\ p.kind \in {"job", "rebuild"}) =>
        /\ Loaded # <<>>
        /\ ToSet(p.todo) \subseteq Whole(p.kind, PolicyAt[p.policy])
        /\ \A st \in Whole(p.kind, PolicyAt[p.policy]) \ ToSet(p.todo) : InEffect(st)
FreshHolds ==
    fresh # None => Loaded # <<>> /\ \A st \in Whole("job", PolicyAt[fresh]) : InEffect(st)

StoredInv ==
    /\ RowsNamed
    /\ \A w \in Workers : TodoNamed(proc[w]) /\ Undisturbed(proc[w])
    /\ FreshHolds

\* The statements of a run, one by one.
LEMMA WholeIs ==
    ASSUME NEW kind, kind # "episodes", NEW p, NEW st
    PROVE  st \in Whole(kind, p) <=>
             \/ kind = "rebuild" /\ \E x \in Kept : st = Statement("snapshots", SecondOf(x), x)
             \/ \E k \in DOMAIN Timeline(p, Loaded) :
                   st = Totals(RunOf(Loaded, k), Timeline(p, Loaded)[k])
             \/ \E k \in DOMAIN Timeline(p, Loaded) : \E f \in All(Timeline(p, Loaded)[k]) :
                   st = Inserted(RunOf(Loaded, k), f)
             \/ \E e \in EpisodesOf(p, Loaded, Timeline(p, Loaded)) : st = Statement("episodes", e.id, e)
<1>1. PICK reports : reports = Timeline(p, Loaded)
  OBVIOUS
<1>2. PICK first, second, third :
         /\ first = (IF kind = "rebuild" THEN {Statement("snapshots", SecondOf(x), x) : x \in Kept} ELSE {})
         /\ second = (IF kind = "episodes" THEN {}
                      ELSE UNION {OfReport(RunOf(Loaded, k), reports[k]) : k \in DOMAIN reports})
         /\ third = {Statement("episodes", e.id, e) : e \in EpisodesOf(p, Loaded, reports)}
  OBVIOUS
<1>3. Whole(kind, p) = (first \cup second) \cup third
  BY <1>1, <1>2 DEF Whole
<1>4. st \in first <=> kind = "rebuild" /\ \E x \in Kept : st = Statement("snapshots", SecondOf(x), x)
  BY <1>2
<1>5. st \in third <=> \E e \in EpisodesOf(p, Loaded, reports) : st = Statement("episodes", e.id, e)
  BY <1>2
<1>6. \A k : st \in OfReport(RunOf(Loaded, k), reports[k]) <=>
         \/ st = Totals(RunOf(Loaded, k), reports[k])
         \/ \E f \in All(reports[k]) : st = Inserted(RunOf(Loaded, k), f)
  BY DEF OfReport
<1>7. st \in second <=> \E k \in DOMAIN reports : st \in OfReport(RunOf(Loaded, k), reports[k])
  <2>1. second = UNION {OfReport(RunOf(Loaded, k), reports[k]) : k \in DOMAIN reports}
    BY <1>2
  <2> QED BY <2>1
<1>8. st \in second <=>
         \/ \E k \in DOMAIN reports : st = Totals(RunOf(Loaded, k), reports[k])
         \/ \E k \in DOMAIN reports : \E f \in All(reports[k]) : st = Inserted(RunOf(Loaded, k), f)
  BY <1>6, <1>7
<1> QED BY <1>1, <1>3, <1>4, <1>5, <1>8

LEMMA WholeTells ==
    ASSUME NEW kind, kind # "episodes", NEW p, NEW st \in Whole(kind, p),
           NEW reports, reports = Timeline(p, Loaded)
    PROVE  /\ st.table \in {"snapshots", "runs", "findings", "episodes"}
           /\ st.table = "runs" => \E k \in DOMAIN reports : st = Totals(RunOf(Loaded, k), reports[k])
           /\ st.table = "findings" =>
                \E k \in DOMAIN reports : \E f \in All(reports[k]) : st = Inserted(RunOf(Loaded, k), f)
           /\ st.table = "episodes" =>
                \E e \in EpisodesOf(p, Loaded, reports) : st = Statement("episodes", e.id, e)
<1>1. \/ \E x \in Kept : st = Statement("snapshots", SecondOf(x), x)
      \/ \E k \in DOMAIN reports : st = Totals(RunOf(Loaded, k), reports[k])
      \/ \E k \in DOMAIN reports : \E f \in All(reports[k]) : st = Inserted(RunOf(Loaded, k), f)
      \/ \E e \in EpisodesOf(p, Loaded, reports) : st = Statement("episodes", e.id, e)
  BY WholeIs
<1>2. CASE \E x \in Kept : st = Statement("snapshots", SecondOf(x), x)
  <2>1. st.table = "snapshots"
    BY <1>2 DEF Statement
  <2> QED BY <2>1
<1>3. CASE \E k \in DOMAIN reports : st = Totals(RunOf(Loaded, k), reports[k])
  <2>1. st.table = "runs"
    BY <1>3 DEF Totals, Statement
  <2> QED BY <1>3, <2>1
<1>4. CASE \E k \in DOMAIN reports : \E f \in All(reports[k]) : st = Inserted(RunOf(Loaded, k), f)
  <2>1. st.table = "findings"
    BY <1>4 DEF Inserted, Statement
  <2> QED BY <1>4, <2>1
<1>5. CASE \E e \in EpisodesOf(p, Loaded, reports) : st = Statement("episodes", e.id, e)
  <2>1. st.table = "episodes"
    BY <1>5 DEF Statement
  <2> QED BY <1>5, <2>1
<1> QED BY <1>1, <1>2, <1>3, <1>4, <1>5

\* Different neighbours are different runs.
LEMMA NeighboursDiffer ==
    ASSUME Typed, Loaded # <<>>, NEW p,
           NEW j \in DOMAIN Timeline(p, Loaded), NEW k \in DOMAIN Timeline(p, Loaded), Loaded[j] = Loaded[k]
    PROVE  j = k
<1>1. PICK n \in Nat : n = Len(Loaded) /\ \A a, b \in 1 .. n : a < b => Loaded[a] < Loaded[b]
  BY LoadedTells
<1>2. j \in 1 .. n /\ k \in 1 .. n
  BY <1>1, ReportsAre
<1>3. Loaded[j] \in Nat
  BY <1>1, <1>2, LoadedTells DEF Snapshots
<1>4. ~(j < k) /\ ~(k < j)
  BY <1>1, <1>2, <1>3
<1> QED BY <1>2, <1>4

\* Two statements of a run never write the same place.
SamePlace(s, t) ==
    /\ s.table = t.table /\ s.key = t.key
    /\ s.table # "snapshots"
    /\ s.table = "findings" => s.row.run = t.row.run

LEMMA StatementsDiffer ==
    ASSUME Typed, Loaded # <<>>, NEW kind, kind # "episodes", NEW p,
           NEW s \in Whole(kind, p), NEW t \in Whole(kind, p), SamePlace(s, t)
    PROVE  s = t
<1>1. PICK reports : reports = Timeline(p, Loaded)
  OBVIOUS
<1>2. /\ s.table = t.table /\ s.key = t.key /\ s.table # "snapshots"
      /\ s.table = "findings" => s.row.run = t.row.run
  BY DEF SamePlace
<1>3. \A j, k \in DOMAIN reports : Loaded[j] = Loaded[k] => j = k
  BY <1>1, NeighboursDiffer
<1>4. /\ \A x : Statement("snapshots", SecondOf(x), x).table = "snapshots"
      /\ \A run, report : Totals(run, report).table = "runs" /\ Totals(run, report).key = run
      /\ \A run, f : /\ Inserted(run, f).table = "findings" /\ Inserted(run, f).key = Key(f)
                     /\ Inserted(run, f).row.run = run
      /\ \A e : Statement("episodes", e.id, e).table = "episodes" /\ Statement("episodes", e.id, e).key = e.id
  BY DEF Statement, Totals, Inserted
<1>5. ASSUME NEW x \in {s, t}
      PROVE  /\ x.table \in {"snapshots", "runs", "findings", "episodes"}
             /\ x.table = "runs" => \E k \in DOMAIN reports : x = Totals(RunOf(Loaded, k), reports[k])
             /\ x.table = "findings" =>
                  \E k \in DOMAIN reports : \E f \in All(reports[k]) : x = Inserted(RunOf(Loaded, k), f)
             /\ x.table = "episodes" =>
                  \E e \in EpisodesOf(p, Loaded, reports) : x = Statement("episodes", e.id, e)
  <2>1. x \in Whole(kind, p)
    OBVIOUS
  <2> QED BY <1>1, <2>1, WholeTells
<1>6. \A j, k \in DOMAIN reports : RunOf(Loaded, j) = RunOf(Loaded, k) => j = k
  BY <1>3 DEF RunOf
<1>7. CASE s.table = "runs"
  <2>1. PICK j \in DOMAIN reports, k \in DOMAIN reports :
          s = Totals(RunOf(Loaded, j), reports[j]) /\ t = Totals(RunOf(Loaded, k), reports[k])
    BY <1>2, <1>5, <1>7
  <2> QED BY <1>2, <1>4, <1>6, <2>1
<1>8. CASE s.table = "findings"
  <2>1. PICK j \in DOMAIN reports, k \in DOMAIN reports :
          /\ \E f \in All(reports[j]) : s = Inserted(RunOf(Loaded, j), f)
          /\ \E g \in All(reports[k]) : t = Inserted(RunOf(Loaded, k), g)
    BY <1>2, <1>5, <1>8
  <2>2. PICK f \in All(reports[j]) : s = Inserted(RunOf(Loaded, j), f)
    BY <2>1
  <2>3. PICK g \in All(reports[k]) : t = Inserted(RunOf(Loaded, k), g)
    BY <2>1
  <2>4. j = k /\ Key(f) = Key(g)
    BY <1>2, <1>4, <1>6, <1>8, <2>2, <2>3
  <2>5. \E older, newer, time, seen : reports[j] = ReportOf(p, older, newer, time, seen)
    BY <1>1, ReportsAre
  <2>6. f = g
    BY <2>4, <2>5, ReportTells
  <2> QED BY <2>2, <2>3, <2>4, <2>6
<1>9. CASE s.table = "episodes"
  <2>1. PICK d \in EpisodesOf(p, Loaded, reports), e \in EpisodesOf(p, Loaded, reports) :
          s = Statement("episodes", d.id, d) /\ t = Statement("episodes", e.id, e)
    BY <1>2, <1>5, <1>9
  <2>2. d.id = e.id
    BY <1>2, <1>4, <2>1
  <2>3. d = e
    BY <1>3, <2>2, EpisodesDiffer
  <2> QED BY <2>1, <2>3
<1>10. s.table \in {"runs", "findings", "episodes"}
  BY <1>2, <1>5
<1> QED BY <1>7, <1>8, <1>9, <1>10

(***************************************************************************)
(* An undisturbed run, step by step                                        *)
(***************************************************************************)
Grows == Snapshots \subseteq Snapshots' /\ \A x \in Snapshots : scans'[x] = scans[x]

LEMMA NamesStay ==
    ASSUME Grows, NEW key, NEW run, NamesFinding(key, run)
    PROVE  NamesFinding(key, run)'
<1>1. run[1] \in Snapshots /\ run[2] \in Snapshots
  BY DEF NamesFinding
<1>2. scans'[run[1]] = scans[run[1]] /\ scans'[run[2]] = scans[run[2]]
      /\ run[1] \in Snapshots' /\ run[2] \in Snapshots'
  BY <1>1 DEF Grows
<1>3. Calls(key[1], key[2], scans'[run[1]], scans'[run[2]])
  BY <1>2 DEF NamesFinding
<1> QED BY <1>2, <1>3 DEF NamesFinding

LEMMA TodoStays ==
    ASSUME Grows, NEW p, TodoNamed(p)
    PROVE  TodoNamed(p)'
BY NamesStay DEF TodoNamed

LEMMA RowsStay ==
    ASSUME Grows, RowsNamed, findings' = findings
    PROVE  RowsNamed'
<1>1. ASSUME NEW k \in DOMAIN findings
      PROVE  /\ findings[k] \in Seq(ToSet(findings[k])) /\ OneRowPerRun(findings[k])
             /\ \A r \in ToSet(findings[k]) : NamesFinding(k, r.run)'
  BY NamesStay DEF RowsNamed
<1> QED BY <1>1 DEF RowsNamed

\* Of a process, only what it is doing matters.
LEMMA SameTodo ==
    ASSUME NEW p, NEW q, p.step = q.step, p.todo = q.todo, TodoNamed(p)
    PROVE  TodoNamed(q)
BY DEF TodoNamed

LEMMA TamperedIsDisturbed ==
    ASSUME NEW p, p.alone = FALSE
    PROVE  Undisturbed(p)
BY DEF Undisturbed

\* A step that writes nothing.
LEMMA NothingDisturbs ==
    ASSUME Typed, Shaped, StoredInv, Grows,
           UNCHANGED <<file, runs, findings, episodes, fresh>>,
           NEW w \in Workers, NEW p, proc' = [proc EXCEPT ![w] = p],
           TodoNamed(p)', Undisturbed(p)'
    PROVE  StoredInv'
<1>1. RowsNamed'
  BY RowsStay DEF StoredInv
<1>2. ASSUME Loaded # <<>>, NEW kind, NEW policy
      PROVE  Whole(kind, policy)' = Whole(kind, policy) /\ Loaded' = Loaded
  BY <1>2, WholeStays DEF Grows
<1>3. \A st : InEffect(st)' <=> InEffect(st)
  BY DEF InEffect
<1>4. FreshHolds'
  <2>1. SUFFICES ASSUME fresh # None
                 PROVE  Loaded' # <<>> /\ \A st \in Whole("job", PolicyAt[fresh])' : InEffect(st)'
    BY DEF FreshHolds
  <2>2. Loaded # <<>> /\ \A st \in Whole("job", PolicyAt[fresh]) : InEffect(st)
    BY <2>1 DEF StoredInv, FreshHolds
  <2>3. PICK policy : policy = PolicyAt[fresh]
    OBVIOUS
  <2>4. Whole("job", policy)' = Whole("job", policy) /\ Loaded' = Loaded
    BY <1>2, <2>2
  <2> QED BY <1>3, <2>2, <2>3, <2>4
<1>5. ASSUME NEW v \in Workers PROVE TodoNamed(proc[v])' /\ Undisturbed(proc[v])'
  <2>1. CASE v = w
    <3>1. proc'[v] = p
      BY <2>1 DEF Shaped
    <3> QED BY <3>1 DEF TodoNamed, Undisturbed
  <2>2. CASE v # w
    <3>1. proc'[v] = proc[v]
      BY <2>2 DEF Shaped
    <3>2. PICK q : q = proc[v] /\ TodoNamed(q) /\ Undisturbed(q)
      BY DEF StoredInv
    <3>3. TodoNamed(q)'
      BY <3>2, TodoStays
    <3>4. Undisturbed(q)'
      <4>1. SUFFICES ASSUME q.step = "store", q.alone = TRUE, q.kind \in {"job", "rebuild"}
                     PROVE  /\ Loaded' # <<>>
                            /\ ToSet(q.todo) \subseteq Whole(q.kind, PolicyAt[q.policy])'
                            /\ \A st \in Whole(q.kind, PolicyAt[q.policy])' \ ToSet(q.todo) : InEffect(st)'
        BY DEF Undisturbed
      <4>2. /\ Loaded # <<>>
            /\ ToSet(q.todo) \subseteq Whole(q.kind, PolicyAt[q.policy])
            /\ \A st \in Whole(q.kind, PolicyAt[q.policy]) \ ToSet(q.todo) : InEffect(st)
        BY <3>2, <4>1 DEF Undisturbed
      <4>3. Whole(q.kind, PolicyAt[q.policy])' = Whole(q.kind, PolicyAt[q.policy]) /\ Loaded' = Loaded
        BY <1>2, <4>2
      <4> QED BY <1>3, <4>2, <4>3
    <3> QED BY <3>1, <3>2, <3>3, <3>4 DEF TodoNamed, Undisturbed
  <2> QED BY <2>1, <2>2
<1> QED BY <1>1, <1>4, <1>5 DEF StoredInv

\* Once another has written, a process is not alone.
LEMMA OthersAreDisturbed ==
    ASSUME Shaped, StoredInv, Grows, NEW w \in Workers, NEW p, Writes(w, p), NEW v \in Workers \ {w}
    PROVE  TodoNamed(proc[v])' /\ Undisturbed(proc[v])'
<1>1. PICK q : q = proc[v] /\ TodoNamed(q) /\ IsProcess(q)
  BY DEF StoredInv, Shaped
<1>2. PICK r : r = [q EXCEPT !.alone = FALSE]
  OBVIOUS
<1>3. r.step = q.step /\ r.todo = q.todo /\ r.alone = FALSE
  BY <1>1, <1>2, AloneIsFalse
<1>4. TodoNamed(r)'
  <2>1. TodoNamed(q)'
    BY <1>1, TodoStays
  <2> QED BY <1>3, <2>1 DEF TodoNamed
<1>5. proc'[v] = r
  BY <1>1, <1>2 DEF Writes
<1> QED BY <1>3, <1>4, <1>5 DEF TodoNamed, Undisturbed

\* A step that writes a file, or a row of snapshots: from now on nobody is alone.
LEMMA WritingDisturbs ==
    ASSUME Typed, Shaped, StoredInv, Grows, findings' = findings, fresh' = None,
           NEW w \in Workers, NEW p, Writes(w, p), p.step # "store"
    PROVE  StoredInv'
<1>1. RowsNamed'
  BY RowsStay DEF StoredInv
<1>2. FreshHolds'
  BY DEF FreshHolds
<1>3. ASSUME NEW v \in Workers PROVE TodoNamed(proc[v])' /\ Undisturbed(proc[v])'
  <2>1. CASE v = w
    <3>1. proc'[v] = p
      BY <2>1 DEF Writes
    <3> QED BY <3>1 DEF TodoNamed, Undisturbed
  <2>2. CASE v # w
    BY <2>2, OthersAreDisturbed
  <2> QED BY <2>1, <2>2
<1> QED BY <1>1, <1>2, <1>3 DEF StoredInv

LEMMA RestingIsNamed ==
    ASSUME NEW p, p.step # "store"
    PROVE  TodoNamed(p)' /\ Undisturbed(p)'
BY DEF TodoNamed, Undisturbed

LEMMA ScansGrow ==
    ASSUME Typed, scans' = scans \/ \E seen \in AllScans : scans' = Append(scans, seen)
    PROVE  Grows
<1>1. PICK n \in Nat : n = Len(scans) /\ Snapshots = 1 .. n
  BY DEF Typed, Snapshots
<1>2. CASE scans' = scans
  BY <1>2 DEF Grows, Snapshots
<1>3. CASE \E seen \in AllScans : scans' = Append(scans, seen)
  <2>1. PICK seen \in AllScans : scans' = Append(scans, seen)
    BY <1>3
  <2>2. Len(scans') = n + 1 /\ \A x \in 1 .. n : scans'[x] = scans[x]
    BY <1>1, <2>1 DEF Typed
  <2>3. Snapshots' = 1 .. n + 1
    BY <2>2 DEF Snapshots
  <2> QED BY <1>1, <2>2, <2>3 DEF Grows
<1> QED BY <1>2, <1>3

\* What a run is to store names its findings.
LEMMA ReportNames ==
    ASSUME Typed, NEW older \in Snapshots, NEW newer \in Snapshots, NEW report,
           \E p, time, seen : report = ReportOf(p, scans[older], scans[newer], time, seen),
           NEW f \in All(report)
    PROVE  NamesFinding(Key(f), <<older, newer>>)
<1>1. Calls(f.category, f.resource, scans[older], scans[newer])
  BY ReportTells
<1>2. Key(f) = <<f.category, f.resource>>
  BY DEF Key, A!Key
<1>3. PICK run, key : run = <<older, newer>> /\ key = Key(f)
  OBVIOUS
<1>4. /\ run[1] = older /\ run[2] = newer /\ run = <<run[1], run[2]>>
      /\ key[1] = f.category /\ key[2] = f.resource /\ key = <<key[1], key[2]>>
  BY <1>2, <1>3
<1>5. NamesFinding(key, run)
  BY <1>1, <1>4 DEF NamesFinding
<1> QED BY <1>3, <1>5

LEMMA WholeNames ==
    ASSUME Typed, Loaded # <<>>, NEW kind, NEW p, NEW st \in Whole(kind, p), st.table = "findings"
    PROVE  NamesFinding(st.key, st.row.run)
<1>1. PICK reports : reports = Timeline(p, Loaded)
  OBVIOUS
<1>2. kind # "episodes"
  <2>1. SUFFICES ASSUME kind = "episodes" PROVE FALSE
    OBVIOUS
  <2>2. Whole(kind, p) = {Statement("episodes", e.id, e) : e \in EpisodesOf(p, Loaded, reports)}
    BY <1>1, <2>1 DEF Whole
  <2>3. \E e : st = Statement("episodes", e.id, e)
    BY <2>2
  <2>4. st.table = "episodes"
    BY <2>3 DEF Statement
  <2> QED BY <2>4
<1>3. PICK k \in DOMAIN reports : \E f \in All(reports[k]) : st = Inserted(RunOf(Loaded, k), f)
  BY <1>1, <1>2, WholeTells
<1>4. PICK f \in All(reports[k]) : st = Inserted(RunOf(Loaded, k), f)
  BY <1>3
<1>5. st.key = Key(f) /\ st.row.run = RunOf(Loaded, k)
  BY <1>4 DEF Inserted, Statement
<1>6. PICK older, newer : older = Loaded[k] /\ newer = Loaded[k + 1]
  OBVIOUS
<1>7. /\ older \in Snapshots /\ newer \in Snapshots
      /\ \E policy, time, seen : reports[k] = ReportOf(policy, scans[older], scans[newer], time, seen)
  <2>1. k \in 1 .. Len(Loaded) - 1
    BY <1>1, ReportsAre
  <2>2. older \in Kept /\ newer \in Kept
    BY <1>6, <2>1, ReportsAre
  <2>3. \E seen : reports[k] = ReportOf(p, scans[older], scans[newer], newer, seen)
    BY <1>1, <1>6, <2>1, ReportsAre
  <2> QED BY <2>2, <2>3, LoadedTells
<1>8. NamesFinding(Key(f), <<older, newer>>)
  BY <1>4, <1>7, ReportNames
<1> QED BY <1>5, <1>6, <1>8 DEF RunOf

LEMMA LoadStores ==
    ASSUME DateInv, StoredInv, NEW w \in Workers, NEW policy \in Policies, LoadFiles(w, policy)
    PROVE  StoredInv'
<1>1. PICK kind, held : kind = proc[w].kind /\ held = PolicyAt[policy]
  OBVIOUS
<1>2. PICK todo : todo = StatementsOf(kind, held, Loaded, Timeline(held, Loaded))
  OBVIOUS
<1>3. PICK p : p = IF todo = <<>> THEN Idle ELSE Storing(kind, policy, todo)
  OBVIOUS
<1>4. proc' = [proc EXCEPT ![w] = p]
  BY <1>1, <1>2, <1>3 DEF LoadFiles, Stores
<1>5. UNCHANGED <<scans, file, runs, findings, episodes, fresh>>
  BY DEF LoadFiles, Tables, Bounds
<1>6. Loaded # <<>>
  <2>1. Len(Loaded) >= 1
    BY DEF LoadFiles, CanLoad
  <2> QED BY <2>1
<1>7. Typed /\ Shaped /\ Grows
  BY <1>5, ScansGrow DEF DateInv
<1>8. todo \in Seq(ToSet(todo)) /\ ToSet(todo) = Whole(kind, held)
  <2>1. Lists(todo, Whole(kind, held))
    BY <1>2, <1>6, <1>7, WholeIsListed
  <2> QED BY <2>1, ListIsSeq
<1>9. CASE todo = <<>>
  <2>1. p.step = "idle"
    BY <1>3, <1>9 DEF Idle, Process
  <2>2. TodoNamed(p)' /\ Undisturbed(p)'
    BY <2>1, RestingIsNamed
  <2> QED BY <1>4, <1>5, <1>7, <2>2, NothingDisturbs
<1>10. CASE todo # <<>>
  <2>1. p = Storing(kind, policy, todo)
    BY <1>3, <1>10
  <2>2. p.kind = kind /\ p.todo = todo /\ p.policy = policy
    BY <2>1 DEF Storing
  <2>3. Whole(kind, held)' = Whole(kind, held) /\ Loaded' = Loaded
    BY <1>5, <1>6, <1>7, WholeStays DEF Grows
  <2>4. \A st \in ToSet(todo) : st.table = "findings" => NamesFinding(st.key, st.row.run)'
    <3>1. SUFFICES ASSUME NEW st \in ToSet(todo), st.table = "findings" PROVE NamesFinding(st.key, st.row.run)'
      OBVIOUS
    <3>2. NamesFinding(st.key, st.row.run)
      BY <1>6, <1>7, <1>8, <3>1, WholeNames
    <3> QED BY <1>7, <3>2, NamesStay
  <2>5. TodoNamed(p)'
    BY <2>2, <2>4 DEF TodoNamed
  <2>6. Undisturbed(p)'
    <3>1. PICK whole : whole = Whole(kind, held)
      OBVIOUS
    <3>2. Whole(p.kind, PolicyAt[p.policy])' = whole /\ ToSet(p.todo) = whole
      BY <1>1, <1>8, <2>2, <2>3, <3>1
    <3>3. Loaded' # <<>>
      BY <1>6, <2>3
    <3> QED BY <3>2, <3>3 DEF Undisturbed
  <2> QED BY <1>4, <1>5, <1>7, <2>5, <2>6, NothingDisturbs
<1> QED BY <1>9, <1>10

LEMMA PairStores ==
    ASSUME DateInv, StoredInv, NEW w \in Workers, NEW policy \in Policies, NEW older \in Kept, NEW newer \in Kept,
           LoadPair(w, policy, older, newer)
    PROVE  StoredInv'
<1>1. PICK run, report : run = <<older, newer>> /\ report = Compared(PolicyAt[policy], older, newer, Unseen)
  OBVIOUS
<1>2. PICK todo : todo = ReportStatements(run, report)
  OBVIOUS
<1>3. PICK p : p = IF todo = <<>> THEN Idle ELSE Storing("pair", policy, todo)
  OBVIOUS
<1>4. proc' = [proc EXCEPT ![w] = p]
  BY <1>1, <1>2, <1>3 DEF LoadPair, Stores
<1>5. UNCHANGED <<scans, file, runs, findings, episodes, fresh>>
  BY DEF LoadPair, Tables, Bounds
<1>6. Typed /\ Shaped /\ Grows
  BY <1>5, ScansGrow DEF DateInv
<1>7. older \in Snapshots /\ newer \in Snapshots
  BY <1>6, LoadedTells
<1>8. report = ReportOf(PolicyAt[policy], scans[older], scans[newer], newer, Unseen)
  BY <1>1 DEF Compared, ReportOf
<1>9. todo \in Seq(ToSet(todo)) /\ ToSet(todo) = OfReport(run, report)
  <2>1. scans[older] \in AllScans /\ scans[newer] \in AllScans
    BY <1>6, <1>7 DEF Typed, Snapshots
  <2>2. IsFiniteSet(All(report))
    BY <1>8, <2>1, ReportIsFinite
  <2> QED BY <1>2, <2>2, ReportIsListed, ListIsSeq
<1>10. ASSUME NEW st \in ToSet(todo), st.table = "findings" PROVE NamesFinding(st.key, st.row.run)'
  <2>1. st # Totals(run, report)
    BY <1>10 DEF Totals, Statement
  <2>2. PICK f \in All(report) : st = Inserted(run, f)
    BY <1>9, <2>1 DEF OfReport
  <2>3. NamesFinding(Key(f), <<older, newer>>)
    BY <1>6, <1>7, <1>8, ReportNames
  <2>4. st.key = Key(f) /\ st.row.run = run
    BY <2>2 DEF Inserted, Statement
  <2>5. NamesFinding(st.key, st.row.run)
    BY <1>1, <2>3, <2>4
  <2> QED BY <1>6, <2>5, NamesStay
<1>11. CASE todo = <<>>
  <2>1. p.step = "idle"
    BY <1>3, <1>11 DEF Idle, Process
  <2>2. TodoNamed(p)' /\ Undisturbed(p)'
    BY <2>1, RestingIsNamed
  <2> QED BY <1>4, <1>5, <1>6, <2>2, NothingDisturbs
<1>12. CASE todo # <<>>
  <2>1. p = Storing("pair", policy, todo)
    BY <1>3, <1>12
  <2>2. p.kind = "pair" /\ p.todo = todo
    BY <2>1 DEF Storing
  <2>3. TodoNamed(p)'
    BY <1>10, <2>2 DEF TodoNamed
  <2>4. Undisturbed(p)'
    BY <2>2 DEF Undisturbed
  <2> QED BY <1>4, <1>5, <1>6, <2>3, <2>4, NothingDisturbs
<1> QED BY <1>11, <1>12

LEMMA QuietStores ==
    ASSUME DateInv, StoredInv, NEW w \in Workers, NEW p, p.step # "store", proc' = [proc EXCEPT ![w] = p],
           UNCHANGED <<file, runs, findings, episodes, fresh>>,
           scans' = scans \/ \E seen \in AllScans : scans' = Append(scans, seen)
    PROVE  StoredInv'
<1>1. Typed /\ Shaped /\ Grows
  BY ScansGrow DEF DateInv
<1>2. TodoNamed(p)' /\ Undisturbed(p)'
  BY RestingIsNamed
<1> QED BY <1>1, <1>2, NothingDisturbs

LEMMA RowsAtTell ==
    ASSUME RowsNamed, NEW k
    PROVE  /\ RowsAt(k) \in Seq(ToSet(RowsAt(k))) /\ OneRowPerRun(RowsAt(k))
           /\ \A r \in ToSet(RowsAt(k)) : NamesFinding(k, r.run)
           /\ k \in DOMAIN findings => RowsAt(k) = findings[k]
<1>1. CASE k \in DOMAIN findings
  BY <1>1 DEF RowsNamed, RowsAt
<1>2. CASE k \notin DOMAIN findings
  <2>1. RowsAt(k) = <<>>
    BY <1>2 DEF RowsAt
  <2>2. /\ <<>> \in Seq(ToSet(<<>>)) /\ ToSet(<<>>) = {}
        /\ \A i, j \in DOMAIN <<>> : <<>>[i].run = <<>>[j].run => i = j
    BY DEF ToSet
  <2> QED BY <1>2, <2>1, <2>2 DEF OneRowPerRun
<1> QED BY <1>1, <1>2

\* What a statement does to the tables, that of snapshots aside.
Puts(st) ==
    \/ st.table = "snapshots" /\ UNCHANGED <<runs, findings, episodes>>
    \/ /\ st.table = "runs" /\ runs' = With(runs, st.key, st.row)
       /\ UNCHANGED <<findings, episodes>>
    \/ /\ st.table = "findings" /\ findings' = With(findings, st.key, Replaced(RowsAt(st.key), st.row))
       /\ UNCHANGED <<runs, episodes>>
    \/ /\ st.table = "episodes" /\ episodes' = {e \in episodes : e.id # st.key} \cup {st.row}
       /\ UNCHANGED <<runs, findings>>

\* The rows of its finding after a statement.
LEMMA FindingPut ==
    ASSUME RowsNamed, NEW st, Puts(st), st.table = "findings"
    PROVE  /\ DOMAIN findings' = {st.key} \cup DOMAIN findings
           /\ \A k \in DOMAIN findings : k # st.key => findings'[k] = findings[k]
           /\ findings'[st.key] \in Seq(ToSet(findings'[st.key])) /\ OneRowPerRun(findings'[st.key])
           /\ ToSet(findings'[st.key]) = {r \in ToSet(RowsAt(st.key)) : r.run # st.row.run} \cup {st.row}
           /\ PutLast(RowsAt(st.key), st.row, findings'[st.key])
<1>1. PICK s, row : s = RowsAt(st.key) /\ row = st.row
  OBVIOUS
<1>2. s \in Seq(ToSet(s)) /\ OneRowPerRun(s)
  BY <1>1, RowsAtTell
<1>3. PICK t : t = Replaced(s, row)
  OBVIOUS
<1>4. /\ t \in Seq(ToSet(t)) /\ OneRowPerRun(t)
      /\ ToSet(t) = {r \in ToSet(s) : r.run # row.run} \cup {row} /\ PutLast(s, row, t)
  BY <1>2, <1>3, ReplacedTells
<1>5. findings' = With(findings, st.key, t)
  BY <1>1, <1>3 DEF Puts
<1>6. /\ DOMAIN findings' = {st.key} \cup DOMAIN findings /\ findings'[st.key] = t
      /\ \A k \in DOMAIN findings : k # st.key => findings'[k] = findings[k]
  BY <1>5 DEF With
<1> QED BY <1>1, <1>4, <1>6

LEMMA PutIsNamed ==
    ASSUME RowsNamed, Grows, NEW st, Puts(st), st.table = "findings" => NamesFinding(st.key, st.row.run)
    PROVE  RowsNamed'
<1>1. CASE st.table # "findings"
  <2>1. findings' = findings
    BY <1>1 DEF Puts
  <2> QED BY <2>1, RowsStay
<1>2. CASE st.table = "findings"
  <2>1. SUFFICES ASSUME NEW k \in DOMAIN findings'
                 PROVE  /\ findings'[k] \in Seq(ToSet(findings'[k])) /\ OneRowPerRun(findings'[k])
                        /\ \A r \in ToSet(findings'[k]) : NamesFinding(k, r.run)'
    BY DEF RowsNamed
  <2>2. CASE k = st.key
    <3>1. /\ findings'[k] \in Seq(ToSet(findings'[k])) /\ OneRowPerRun(findings'[k])
          /\ ToSet(findings'[k]) = {r \in ToSet(RowsAt(k)) : r.run # st.row.run} \cup {st.row}
      BY <1>2, <2>2, FindingPut
    <3>2. ASSUME NEW r \in ToSet(findings'[k]) PROVE NamesFinding(k, r.run)
      BY <1>2, <2>2, <3>1, RowsAtTell
    <3> QED BY <3>1, <3>2, NamesStay
  <2>3. CASE k # st.key
    <3>1. k \in DOMAIN findings /\ findings'[k] = findings[k]
      BY <1>2, <2>3, FindingPut
    <3>2. /\ findings[k] \in Seq(ToSet(findings[k])) /\ OneRowPerRun(findings[k])
          /\ \A r \in ToSet(findings[k]) : NamesFinding(k, r.run)
      BY <3>1 DEF RowsNamed
    <3> QED BY <3>1, <3>2, NamesStay
  <2> QED BY <2>2, <2>3
<1> QED BY <1>1, <1>2

\* It stores its row, and leaves what is in other places.
LEMMA PutIsInEffect ==
    ASSUME RowsNamed, NEW st, Puts(st)
    PROVE  InEffect(st)'
<1>1. CASE st.table = "snapshots"
  BY <1>1 DEF InEffect
<1>2. CASE st.table = "runs"
  BY <1>2 DEF InEffect, Puts, With
<1>3. CASE st.table = "findings"
  BY <1>3, FindingPut DEF InEffect
<1>4. CASE st.table = "episodes"
  BY <1>4 DEF InEffect, Puts
<1> QED BY <1>1, <1>2, <1>3, <1>4 DEF Puts

LEMMA OtherStaysInEffect ==
    ASSUME RowsNamed, NEW st, Puts(st), NEW x, InEffect(x), ~SamePlace(x, st),
           x.table = "episodes" => x.key = x.row.id
    PROVE  InEffect(x)'
<1>1. ASSUME x.table = "runs" PROVE x.key \in DOMAIN runs' /\ runs'[x.key] = x.row
  <2>1. x.key \in DOMAIN runs /\ runs[x.key] = x.row
    BY <1>1 DEF InEffect
  <2>2. CASE st.table = "runs"
    <3>1. x.key # st.key
      BY <1>1, <2>2 DEF SamePlace
    <3> QED BY <2>1, <2>2, <3>1 DEF Puts, With
  <2>3. CASE st.table # "runs"
    BY <2>1, <2>3 DEF Puts
  <2> QED BY <2>2, <2>3
<1>2. ASSUME x.table = "findings" PROVE x.key \in DOMAIN findings' /\ x.row \in ToSet(findings'[x.key])
  <2>1. x.key \in DOMAIN findings /\ x.row \in ToSet(findings[x.key])
    BY <1>2 DEF InEffect
  <2>2. CASE st.table = "findings" /\ st.key = x.key
    <3>1. x.row.run # st.row.run
      BY <1>2, <2>2 DEF SamePlace
    <3>2. RowsAt(st.key) = findings[x.key]
      BY <2>1, <2>2 DEF RowsAt
    <3> QED BY <2>1, <2>2, <3>1, <3>2, FindingPut
  <2>3. CASE st.table = "findings" /\ st.key # x.key
    BY <2>1, <2>3, FindingPut
  <2>4. CASE st.table # "findings"
    BY <2>1, <2>4 DEF Puts
  <2> QED BY <2>2, <2>3, <2>4
<1>3. ASSUME x.table = "episodes" PROVE x.row \in episodes'
  <2>1. x.row \in episodes /\ x.key = x.row.id
    BY <1>3 DEF InEffect
  <2>2. CASE st.table = "episodes"
    <3>1. x.key # st.key
      BY <1>3, <2>2 DEF SamePlace
    <3> QED BY <2>1, <2>2, <3>1 DEF Puts
  <2>3. CASE st.table # "episodes"
    BY <2>1, <2>3 DEF Puts
  <2> QED BY <2>2, <2>3
<1> QED BY <1>1, <1>2, <1>3 DEF InEffect

LEMMA StoreStores ==
    ASSUME DateInv, StoredInv, NEW w \in Workers, StoreNext(w)
    PROVE  StoredInv'
<1>1. PICK second : DatedBy(second)
  BY DEF DateInv
<1>2. PICK q : /\ q = proc[w] /\ IsProcess(q) /\ ProcessIsDated(second, q) /\ q.step = "store"
               /\ TodoNamed(q) /\ Undisturbed(q)
  BY <1>1 DEF DateInv, Shaped, DatedBy, StoreNext, StoredInv
<1>3. PICK st, tail : st = Head(q.todo) /\ tail = Tail(q.todo)
  OBVIOUS
<1>4. /\ tail \in Seq(ToSet(tail)) /\ (Len(q.todo) = 1 <=> tail = <<>>)
      /\ ToSet(q.todo) = {st} \cup ToSet(tail)
  <2>1. q.todo \in Seq(ToSet(q.todo)) /\ q.todo # <<>>
    BY <1>2 DEF ProcessIsDated
  <2> QED BY <1>3, <2>1, HeadAndTail
<1>5. UNCHANGED <<scans, file>>
  BY DEF StoreNext
<1>6. Typed /\ Shaped /\ Grows /\ RowsNamed
  BY <1>5, ScansGrow DEF DateInv, StoredInv
<1>7. PICK r : r = IF Len(q.todo) = 1 THEN Idle ELSE [q EXCEPT !.todo = tail]
  OBVIOUS
<1>8. Writes(w, r)
  BY <1>2, <1>3, <1>7 DEF StoreNext
<1>9. Puts(st)
  BY <1>2, <1>3 DEF StoreNext, Puts
<1>10. RowsNamed'
  <2>1. st.table = "findings" => NamesFinding(st.key, st.row.run)
    BY <1>2, <1>4 DEF TodoNamed
  <2> QED BY <1>6, <1>9, <2>1, PutIsNamed
<1>11. PICK held : held = PolicyAt[q.policy]
  OBVIOUS
<1>12. ASSUME q.alone, q.kind \in {"job", "rebuild"}
       PROVE  /\ Loaded # <<>> /\ Loaded' = Loaded
              /\ \A kind : Whole(kind, held)' = Whole(kind, held)
              /\ ToSet(tail) \subseteq Whole(q.kind, held)
              /\ \A x \in Whole(q.kind, held) \ ToSet(tail) : InEffect(x)'
  <2>1. /\ Loaded # <<>>
        /\ ToSet(q.todo) \subseteq Whole(q.kind, held)
        /\ \A x \in Whole(q.kind, held) \ ToSet(q.todo) : InEffect(x)
    BY <1>2, <1>11, <1>12 DEF Undisturbed
  <2>2. Loaded' = Loaded /\ \A kind : Whole(kind, held)' = Whole(kind, held)
    BY <1>5, <1>6, <2>1, WholeStays DEF Grows
  <2>3. ASSUME NEW x \in Whole(q.kind, held), x \notin ToSet(tail) PROVE InEffect(x)'
    <3>1. CASE x = st
      BY <1>6, <1>9, <3>1, PutIsInEffect
    <3>2. CASE x # st
      <4>1. InEffect(x)
        BY <1>4, <2>1, <2>3, <3>2
      <4>2. st \in Whole(q.kind, held) /\ q.kind # "episodes"
        BY <1>4, <1>12, <2>1
      <4>3. ~SamePlace(x, st)
        BY <1>6, <2>1, <3>2, <4>2, StatementsDiffer
      <4>4. x.table = "episodes" => x.key = x.row.id
        <5>1. SUFFICES ASSUME x.table = "episodes" PROVE x.key = x.row.id
          OBVIOUS
        <5>2. PICK e : x = Statement("episodes", e.id, e)
          BY <4>2, <5>1, WholeTells
        <5> QED BY <5>2 DEF Statement
      <4> QED BY <1>6, <1>9, <4>1, <4>3, <4>4, OtherStaysInEffect
    <3> QED BY <3>1, <3>2
  <2> QED BY <1>4, <2>1, <2>2, <2>3
<1>13. FreshHolds'
  <2>1. SUFFICES ASSUME fresh' # None
                 PROVE  Loaded' # <<>> /\ \A x \in Whole("job", PolicyAt[fresh])' : InEffect(x)'
    BY DEF FreshHolds
  <2>2. Len(q.todo) = 1 /\ q.alone /\ q.kind \in {"job", "rebuild"} /\ fresh' = q.policy
    BY <1>2, <2>1 DEF StoreNext
  <2>3. ToSet(tail) = {}
    BY <1>4, <2>2 DEF ToSet
  <2>4. ASSUME NEW x \in Whole("job", held) PROVE x \in Whole(q.kind, held)
    <3>1. q.kind # "episodes"
      BY <2>2
    <3> QED BY <3>1, WholeIs
  <2>5. \A x \in Whole("job", held) : InEffect(x)'
    BY <1>12, <2>2, <2>3, <2>4
  <2>6. Whole("job", held)' = Whole("job", held) /\ Loaded' # <<>>
    BY <1>12, <2>2
  <2>7. PolicyAt[fresh]' = held
    BY <1>11, <2>2
  <2>8. Whole("job", PolicyAt[fresh])' = Whole("job", held)'
    BY <2>7
  <2> QED BY <2>5, <2>6, <2>8
<1>14. TodoNamed(r)' /\ Undisturbed(r)'
  <2>1. CASE Len(q.todo) = 1
    <3>1. r.step = "idle"
      BY <1>7, <2>1 DEF Idle, Process
    <3> QED BY <3>1, RestingIsNamed
  <2>2. CASE Len(q.todo) # 1
    <3>1. r.kind = q.kind /\ r.step = "store" /\ r.todo = tail /\ r.policy = q.policy /\ r.alone = q.alone
      BY <1>2, <1>7, <2>2, TodoPut
    <3>2. TodoNamed(r)'
      <4>1. TodoNamed(r)
        BY <1>2, <1>4, <3>1 DEF TodoNamed
      <4> QED BY <1>6, <4>1, TodoStays
    <3>3. Undisturbed(r)'
      <4>1. SUFFICES ASSUME r.alone = TRUE, r.kind \in {"job", "rebuild"}
                     PROVE  /\ Loaded' # <<>>
                            /\ ToSet(r.todo) \subseteq Whole(r.kind, PolicyAt[r.policy])'
                            /\ \A x \in Whole(r.kind, PolicyAt[r.policy])' \ ToSet(r.todo) : InEffect(x)'
        BY DEF Undisturbed
      <4>2. /\ Loaded # <<>> /\ Loaded' = Loaded
            /\ Whole(q.kind, held)' = Whole(q.kind, held)
            /\ ToSet(tail) \subseteq Whole(q.kind, held)
            /\ \A x \in Whole(q.kind, held) \ ToSet(tail) : InEffect(x)'
        BY <1>12, <3>1, <4>1
      <4>3. Whole(r.kind, PolicyAt[r.policy])' = Whole(q.kind, held)
        BY <1>11, <3>1, <4>2
      <4> QED BY <3>1, <4>2, <4>3
    <3> QED BY <3>2, <3>3
  <2> QED BY <2>1, <2>2
<1>15. ASSUME NEW v \in Workers PROVE TodoNamed(proc[v])' /\ Undisturbed(proc[v])'
  <2>1. CASE v = w
    <3>1. proc'[v] = r
      BY <1>8, <2>1 DEF Writes
    <3> QED BY <1>14, <3>1 DEF TodoNamed, Undisturbed
  <2>2. CASE v # w
    BY <1>6, <1>8, <2>2, OthersAreDisturbed
  <2> QED BY <2>1, <2>2
<1> QED BY <1>10, <1>13, <1>15 DEF StoredInv

LEMMA StoredInit == Init => StoredInv
<1> SUFFICES ASSUME Init PROVE StoredInv
  OBVIOUS
<1>1. RowsNamed /\ FreshHolds
  <2>1. DOMAIN findings = {}
    BY DEF Init
  <2> QED BY <2>1 DEF Init, RowsNamed, FreshHolds
<1>2. ASSUME NEW w \in Workers PROVE proc[w].step # "store"
  BY DEF Init, Idle, Process
<1> QED BY <1>1, <1>2 DEF StoredInv, TodoNamed, Undisturbed

LEMMA StutterStores ==
    ASSUME DateInv, StoredInv, UNCHANGED vars
    PROVE  StoredInv'
<1>1. UNCHANGED <<scans, file, runs, findings, episodes, fresh, proc>>
  BY DEF vars, Tables
<1>2. Typed /\ Shaped /\ Grows
  BY <1>1, ScansGrow DEF DateInv
<1>3. RowsNamed'
  BY <1>1, <1>2, RowsStay DEF StoredInv
<1>4. CASE Workers = {}
  <2>1. ASSUME Loaded # <<>>, NEW kind, NEW policy
        PROVE  Whole(kind, policy)' = Whole(kind, policy) /\ Loaded' = Loaded
    BY <1>1, <1>2, <2>1, WholeStays DEF Grows
  <2>2. \A st : InEffect(st)' <=> InEffect(st)
    BY <1>1 DEF InEffect
  <2>3. FreshHolds'
    BY <1>1, <2>1, <2>2 DEF StoredInv, FreshHolds
  <2> QED BY <1>3, <1>4, <2>3 DEF StoredInv
<1>5. CASE Workers # {}
  <2>1. PICK w, p : w \in Workers /\ p = proc[w]
    BY <1>5
  <2>2. proc' = [proc EXCEPT ![w] = p]
    BY <1>1, <1>2, <2>1 DEF Shaped
  <2>3. ASSUME Loaded # <<>>, NEW kind, NEW policy
        PROVE  Whole(kind, policy)' = Whole(kind, policy) /\ Loaded' = Loaded
    BY <1>1, <1>2, <2>3, WholeStays DEF Grows
  <2>4. \A st : InEffect(st)' <=> InEffect(st)
    BY <1>1 DEF InEffect
  <2>5. TodoNamed(p) /\ Undisturbed(p)
    BY <2>1 DEF StoredInv
  <2>6. TodoNamed(p)'
    BY <1>2, <2>5, TodoStays
  <2>7. Undisturbed(p)'
    BY <2>3, <2>4, <2>5 DEF Undisturbed
  <2> QED BY <1>1, <1>2, <2>1, <2>2, <2>6, <2>7, NothingDisturbs
<1> QED BY <1>4, <1>5

\* A step of a process reads, or writes to the directory, or executes a statement.
Quietly(w) ==
    /\ UNCHANGED <<file, runs, findings, episodes, fresh>>
    /\ scans' = scans \/ \E seen \in AllScans : scans' = Append(scans, seen)
    /\ \E p : p.step # "store" /\ proc' = [proc EXCEPT ![w] = p]
Overwrites(w) ==
    /\ UNCHANGED <<scans, runs, findings>> /\ fresh' = None
    /\ \E p : p.step # "store" /\ Writes(w, p)

LEMMA StepIs ==
    ASSUME DateInv, Next
    PROVE  \E w \in Workers : Quietly(w) \/ Overwrites(w) \/ Loads(w) \/ StoreNext(w)
<1>2. PICK w \in Workers :
        \/ \E seen \in AllScans, s \in {now, now + 1} \cap Seconds : TakeScan(w, seen, s)
        \/ \E kind \in RequestKinds : Ask(w, kind)
        \/ TruncateFile(w) \/ WriteFile(w) \/ RegisterSnapshot(w)
        \/ Loads(w) \/ LoadFails(w) \/ StoreNext(w) \/ MigrateNext(w) \/ Die(w)
  BY DEF Next
<1>3. CASE \E seen \in AllScans, s \in {now, now + 1} \cap Seconds : TakeScan(w, seen, s)
  <2>1. PICK seen \in AllScans, s \in {now, now + 1} \cap Seconds : TakeScan(w, seen, s)
    BY <1>3
  <2>2. PICK p : p = Process("job", "truncate", Len(scans) + 1, s, <<>>)
    OBVIOUS
  <2>3. p.step # "store"
    BY <2>2 DEF Process
  <2>4. /\ proc' = [proc EXCEPT ![w] = p] /\ UNCHANGED <<file, runs, findings, episodes, fresh>>
        /\ scans' = Append(scans, seen)
    BY <2>1, <2>2 DEF TakeScan, Tables
  <2> QED BY <2>3, <2>4 DEF Quietly
<1>4. CASE \E kind \in RequestKinds : Ask(w, kind)
  <2>1. PICK kind \in RequestKinds : Ask(w, kind)
    BY <1>4
  <2>2. PICK p : p = IF kind = "migrate"
                     THEN Process(kind, "read", 0, 0, SetToSeq({s \in Seconds : file[s] # NoFile}))
                     ELSE Doing(kind, "load")
    OBVIOUS
  <2>3. p.step # "store"
    BY <2>2 DEF Process, Doing
  <2>4. /\ proc' = [proc EXCEPT ![w] = p] /\ UNCHANGED <<scans, file, runs, findings, episodes, fresh>>
    BY <2>1, <2>2 DEF Ask, Tables
  <2> QED BY <2>3, <2>4 DEF Quietly
<1>5. CASE TruncateFile(w) \/ WriteFile(w) \/ RegisterSnapshot(w)
  <2>1. UNCHANGED <<scans, runs, findings>> /\ fresh' = None
    BY <1>5 DEF TruncateFile, WriteFile, RegisterSnapshot, Tables
  <2>3. PICK q : q = proc[w] /\ IsProcess(q)
    BY DEF DateInv, Shaped
  <2>4. CASE RegisterSnapshot(w)
    <3>0. Doing("job", "load").step # "store"
      BY DEF Doing, Process
    <3>1. PICK p : p = Doing("job", "load") /\ p.step # "store"
      BY <3>0
    <3>2. Writes(w, p)
      BY <2>4, <3>1 DEF RegisterSnapshot
    <3> QED BY <2>1, <3>1, <3>2 DEF Overwrites
  <2>5. CASE TruncateFile(w) \/ WriteFile(w)
    <3>1. PICK step \in {"write", "read", "register"} : Writes(w, [q EXCEPT !.step = step]) /\ q.step # "store"
      <4>1. CASE TruncateFile(w)
        BY <2>3, <4>1 DEF TruncateFile
      <4>2. CASE WriteFile(w)
        BY <2>3, <4>2 DEF WriteFile
      <4> QED BY <2>5, <4>1, <4>2
    <3>2. PICK p : p = [q EXCEPT !.step = step]
      OBVIOUS
    <3>3. p.step = step
      <4>1. step \in Steps \ {"store"}
        BY DEF Steps
      <4> QED BY <2>3, <3>1, <3>2, <4>1, StepPut
    <3>4. Writes(w, p) /\ p.step # "store"
      BY <3>1, <3>2, <3>3
    <3> QED BY <2>1, <3>4 DEF Overwrites
  <2> QED BY <1>5, <2>4, <2>5
<1>7. CASE LoadFails(w) \/ Die(w)
  <2>0. Idle.step # "store"
    BY DEF Idle, Process
  <2>1. PICK p : p = Idle /\ p.step # "store"
    BY <2>0
  <2>2. /\ proc' = [proc EXCEPT ![w] = p] /\ UNCHANGED <<scans, file, runs, findings, episodes, fresh>>
    BY <1>7, <2>1 DEF LoadFails, Die, Tables
  <2> QED BY <2>1, <2>2 DEF Quietly
<1>9. CASE MigrateNext(w)
  <2>1. PICK q : q = proc[w]
    OBVIOUS
  <2>2. PICK p : p = IF q.todo = <<>> \/ file[Head(q.todo)] = Torn THEN Idle
                     ELSE Process(q.kind, "truncate", file[Head(q.todo)], Head(q.todo), Tail(q.todo))
    OBVIOUS
  <2>3. p.step # "store"
    BY <2>2 DEF Idle, Process
  <2>4. /\ proc' = [proc EXCEPT ![w] = p] /\ UNCHANGED <<scans, file, runs, findings, episodes, fresh>>
    BY <1>9, <2>1, <2>2 DEF MigrateNext, Tables
  <2> QED BY <2>3, <2>4 DEF Quietly
<1> QED BY <1>2, <1>3, <1>4, <1>5, <1>7, <1>9

LEMMA StoredStep == DateInv /\ StoredInv /\ [Next]_vars => StoredInv'
<1>1. SUFFICES ASSUME DateInv, StoredInv, Next PROVE StoredInv'
  BY StutterStores
<1>2. PICK w \in Workers : Quietly(w) \/ Overwrites(w) \/ Loads(w) \/ StoreNext(w)
  BY <1>1, StepIs
<1>3. CASE Quietly(w)
  BY <1>1, <1>3, QuietStores DEF Quietly
<1>4. CASE Overwrites(w)
  <2>1. Typed /\ Shaped /\ Grows
    BY <1>1, <1>4, ScansGrow DEF DateInv, Overwrites
  <2> QED BY <1>1, <1>4, <2>1, WritingDisturbs DEF Overwrites
<1>5. CASE Loads(w)
  BY <1>1, <1>5, LoadStores, PairStores DEF Loads
<1>6. CASE StoreNext(w)
  BY <1>1, <1>6, StoreStores
<1> QED BY <1>2, <1>3, <1>4, <1>5, <1>6

LEMMA StoredHolds == Spec => [](DateInv /\ StoredInv)
<1>1. Init => DateInv /\ StoredInv
  BY DateInit, StoredInit
<1>2. DateInv /\ StoredInv /\ [Next]_vars => (DateInv /\ StoredInv)'
  BY DatesStep, StoredStep
<1> QED BY <1>1, <1>2, PTL DEF Spec

LEMMA StoredTells == DateInv /\ StoredInv => ResultsTellTimeline
<1>1. SUFFICES ASSUME DateInv, StoredInv, fresh # None
               PROVE  Hold(PolicyAt[fresh], Loaded, Timeline(PolicyAt[fresh], Loaded))
  BY DEF ResultsTellTimeline
<1>2. PICK p : p = PolicyAt[fresh]
  OBVIOUS
<1>3. PICK reports : reports = Timeline(p, Loaded)
  OBVIOUS
<1>4. PICK kind : kind = "job" /\ kind # "episodes"
  OBVIOUS
<1>5. Typed /\ RowsNamed /\ Loaded # <<>> /\ \A st \in Whole(kind, p) : InEffect(st)
  BY <1>1, <1>2, <1>4 DEF DateInv, StoredInv, FreshHolds
<1>6. ASSUME NEW k \in DOMAIN reports
      PROVE  /\ RunOf(Loaded, k) \in DOMAIN runs
             /\ runs[RunOf(Loaded, k)].found = Cardinality(reports[k].active)
             /\ RowsOf(RunOf(Loaded, k)) =
                  {<<Key(f), [run |-> RunOf(Loaded, k), score |-> f.score, state |-> f.state]>> : f \in All(reports[k])}
  <2>1. PICK run : run = RunOf(Loaded, k)
    OBVIOUS
  <2>2. PICK totals : totals = Totals(run, reports[k])
    OBVIOUS
  <2>3. totals \in Whole(kind, p)
    BY <1>3, <1>4, <2>1, <2>2, WholeIs
  <2>4. totals.table = "runs" /\ totals.key = run /\ totals.row.found = Cardinality(reports[k].active)
    BY <2>2 DEF Totals, Statement
  <2>5. run \in DOMAIN runs /\ runs[run].found = Cardinality(reports[k].active)
    BY <1>5, <2>3, <2>4 DEF InEffect
  <2>6. ASSUME NEW f \in All(reports[k])
        PROVE  /\ Key(f) \in DOMAIN findings
               /\ [run |-> run, score |-> f.score, state |-> f.state] \in ToSet(findings[Key(f)])
    <3>1. PICK st : st = Inserted(run, f)
      OBVIOUS
    <3>2. st \in Whole(kind, p)
      BY <1>3, <1>4, <2>1, <3>1, WholeIs
    <3>3. /\ st.table = "findings" /\ st.key = Key(f)
          /\ st.row = [run |-> run, score |-> f.score, state |-> f.state]
      BY <3>1 DEF Inserted, Statement
    <3>4. InEffect(st)
      BY <1>5, <3>2
    <3> QED BY <3>3, <3>4 DEF InEffect
  <2>7. PICK older, newer : /\ older = Loaded[k] /\ newer = Loaded[k + 1]
                            /\ run[1] = older /\ run[2] = newer
    BY <2>1 DEF RunOf
  <2>8. \E seen : reports[k] = ReportOf(p, scans[older], scans[newer], newer, seen)
    <3>1. k \in 1 .. Len(Loaded) - 1
      BY <1>3, <1>5, ReportsAre
    <3> QED BY <1>3, <1>5, <2>7, <3>1, ReportsAre
  <2>9. ASSUME NEW key \in DOMAIN findings, NEW row \in ToSet(findings[key]), row.run = run
        PROVE  \E f \in All(reports[k]) :
                  key = Key(f) /\ row = [run |-> run, score |-> f.score, state |-> f.state]
    <3>1. NamesFinding(key, run) /\ OneRowPerRun(findings[key])
      BY <1>5, <2>9 DEF RowsNamed
    <3>2. key = <<key[1], key[2]>> /\ Calls(key[1], key[2], scans[older], scans[newer])
      BY <2>7, <3>1 DEF NamesFinding
    <3>3. PICK f \in All(reports[k]) : Key(f) = <<key[1], key[2]>>
      BY <2>8, <3>2, ReportTells
    <3>4. PICK other : other = [run |-> run, score |-> f.score, state |-> f.state]
      OBVIOUS
    <3>5. Key(f) = key /\ other \in ToSet(findings[key]) /\ other.run = run
      BY <2>6, <3>2, <3>3, <3>4
    <3>6. row = other
      BY <2>9, <3>1, <3>5 DEF OneRowPerRun, ToSet
    <3> QED BY <3>4, <3>5, <3>6
  <2>10. RowsOf(run) = {<<Key(f), [run |-> run, score |-> f.score, state |-> f.state]>> : f \in All(reports[k])}
    <3>1. PICK told : told = {<<Key(f), [run |-> run, score |-> f.score, state |-> f.state]>> : f \in All(reports[k])}
      OBVIOUS
    <3>2. ASSUME NEW pair \in RowsOf(run) PROVE pair \in told
      <4>1. PICK key \in DOMAIN findings : pair \in {<<key, r>> : r \in {x \in ToSet(findings[key]) : x.run = run}}
        BY DEF RowsOf
      <4>2. PICK row \in ToSet(findings[key]) : row.run = run /\ pair = <<key, row>>
        BY <4>1
      <4>3. PICK f \in All(reports[k]) : key = Key(f) /\ row = [run |-> run, score |-> f.score, state |-> f.state]
        BY <2>9, <4>2
      <4> QED BY <3>1, <4>2, <4>3
    <3>3. ASSUME NEW pair \in told PROVE pair \in RowsOf(run)
      <4>1. PICK f \in All(reports[k]) : pair = <<Key(f), [run |-> run, score |-> f.score, state |-> f.state]>>
        BY <3>1
      <4>2. PICK key, row : key = Key(f) /\ row = [run |-> run, score |-> f.score, state |-> f.state]
        OBVIOUS
      <4>3. key \in DOMAIN findings /\ row \in ToSet(findings[key]) /\ row.run = run /\ pair = <<key, row>>
        BY <2>6, <4>1, <4>2
      <4>4. pair \in {<<key, r>> : r \in {x \in ToSet(findings[key]) : x.run = run}}
        BY <4>3
      <4> QED BY <4>3, <4>4 DEF RowsOf
    <3> QED BY <3>1, <3>2, <3>3
  <2> QED BY <2>1, <2>5, <2>10
<1>7. ASSUME NEW e \in EpisodesOf(p, Loaded, reports) PROVE e \in episodes
  <2>1. PICK st : st = Statement("episodes", e.id, e)
    OBVIOUS
  <2>2. st \in Whole(kind, p)
    BY <1>3, <1>4, <2>1, WholeIs
  <2>3. st.table = "episodes" /\ st.row = e
    BY <2>1 DEF Statement
  <2> QED BY <1>5, <2>2, <2>3 DEF InEffect
<1> QED BY <1>2, <1>3, <1>6, <1>7 DEF Hold, All

\* However many processes share the directory and the database, and whatever
\* earlier runs have stored, died in or had compared: once a run that nobody
\* disturbed has stored its last statement, and until somebody writes again, the
\* tables hold under each transition of the files its total, the findings of its
\* report and no other, and all episodes.
THEOREM ResultsAreTrue == Spec => []ResultsTellTimeline
BY StoredHolds, StoredTells, PTL

(***************************************************************************)
(* Episodes do not go stale                                                *)
(***************************************************************************)
\* Of rising sequences that begin alike, one that leaves nothing out goes on with the least.
LEMMA RisingBegins ==
    ASSUME NEW S \in SUBSET Nat, NEW s \in Seq(S), NEW t \in Seq(S), Rising(s), Rising(t),
           \A x \in S : \E i \in 1 .. Len(s) : s[i] = x,
           NEW k \in 1 .. Len(t), \A j \in 1 .. k - 1 : s[j] = t[j]
    PROVE  k \in 1 .. Len(s) /\ s[k] <= t[k]
<1>1. PICK m \in Nat, n \in Nat : m = Len(s) /\ n = Len(t) /\ DOMAIN s = 1 .. m /\ DOMAIN t = 1 .. n
  OBVIOUS
<1>2. k \in 1 .. n /\ t[k] \in S
  BY <1>1
<1>3. PICK i \in 1 .. m : s[i] = t[k]
  BY <1>1, <1>2
<1>4. \A a \in 1 .. m : s[a] \in Nat
  <2>1. \A a \in 1 .. m : s[a] \in S
    BY <1>1
  <2> QED BY <2>1
<1>5. \A a \in 1 .. n : t[a] \in Nat
  <2>1. \A a \in 1 .. n : t[a] \in S
    BY <1>1
  <2> QED BY <2>1
<1>6. ~(i < k)
  <2>1. SUFFICES ASSUME i < k PROVE FALSE
    OBVIOUS
  <2>2. i \in 1 .. k - 1 /\ i \in 1 .. n
    BY <1>2, <2>1
  <2>3. t[i] < t[k] /\ t[i] = s[i]
    BY <1>1, <1>2, <2>1, <2>2 DEF Rising
  <2> QED BY <1>3, <1>5, <1>2, <2>2, <2>3
<1>7. k \in 1 .. m
  BY <1>2, <1>6
<1>8. CASE k = i
  <2>1. s[k] = t[k]
    BY <1>3, <1>8
  <2> QED BY <1>1, <1>2, <1>5, <1>7, <2>1
<1>9. CASE k < i
  <2>1. s[k] < s[i]
    BY <1>1, <1>7, <1>9 DEF Rising
  <2> QED BY <1>1, <1>2, <1>3, <1>4, <1>5, <1>7, <2>1
<1> QED BY <1>6, <1>7, <1>8, <1>9

LEMMA RisingAgree ==
    ASSUME NEW S \in SUBSET Nat, NEW s \in Seq(S), NEW t \in Seq(S), Rising(s), Rising(t),
           \A x \in S : \E i \in 1 .. Len(s) : s[i] = x, \A x \in S : \E i \in 1 .. Len(t) : t[i] = x
    PROVE  s = t
<1>1. PICK m \in Nat, n \in Nat : m = Len(s) /\ n = Len(t) /\ DOMAIN s = 1 .. m /\ DOMAIN t = 1 .. n
  OBVIOUS
<1> DEFINE Same(j) == (j \in 1 .. m <=> j \in 1 .. n) /\ (j \in 1 .. n => s[j] = t[j])
<1>2. PICK Q : Q = {k \in Nat : \A j \in 1 .. k : Same(j)}
  OBVIOUS
<1>3. 0 \in Q
  BY <1>2
<1>4. ASSUME NEW k \in Nat, k \in Q PROVE k + 1 \in Q
  <2>1. \A j \in 1 .. k : Same(j)
    BY <1>2, <1>4
  <2>2. k + 1 \in 1 .. n => k + 1 \in 1 .. m /\ s[k + 1] <= t[k + 1]
    <3>1. SUFFICES ASSUME NEW l \in 1 .. n, l = k + 1 PROVE l \in 1 .. m /\ s[l] <= t[l]
      OBVIOUS
    <3>2. \A j \in 1 .. l - 1 : s[j] = t[j]
      <4>1. SUFFICES ASSUME NEW j \in 1 .. l - 1 PROVE s[j] = t[j]
        OBVIOUS
      <4>2. j \in 1 .. k /\ j \in 1 .. n
        BY <3>1
      <4> QED BY <2>1, <4>2
    <3> QED BY <1>1, <3>2, RisingBegins
  <2>3. k + 1 \in 1 .. m => k + 1 \in 1 .. n /\ t[k + 1] <= s[k + 1]
    <3>1. SUFFICES ASSUME NEW l \in 1 .. m, l = k + 1 PROVE l \in 1 .. n /\ t[l] <= s[l]
      OBVIOUS
    <3>2. \A j \in 1 .. l - 1 : t[j] = s[j]
      <4>1. SUFFICES ASSUME NEW j \in 1 .. l - 1 PROVE t[j] = s[j]
        OBVIOUS
      <4>2. j \in 1 .. k /\ j \in 1 .. m
        BY <3>1
      <4> QED BY <2>1, <4>2
    <3> QED BY <1>1, <3>2, RisingBegins
  <2>4. k + 1 \in 1 .. n => s[k + 1] = t[k + 1]
    <3>1. SUFFICES ASSUME NEW l \in 1 .. n, l = k + 1 PROVE s[l] = t[l]
      OBVIOUS
    <3>2. l \in 1 .. m /\ s[l] <= t[l] /\ t[l] <= s[l]
      BY <2>2, <2>3, <3>1
    <3>3. s[l] \in S /\ t[l] \in S
      BY <1>1, <3>2
    <3>4. s[l] \in Nat /\ t[l] \in Nat
      BY <3>3
    <3> QED BY <3>2, <3>4
  <2>5. Same(k + 1)
    BY <2>2, <2>3, <2>4
  <2>6. \A j \in 1 .. k + 1 : j \in 1 .. k \/ j = k + 1
    OBVIOUS
  <2>7. \A j \in 1 .. k + 1 : Same(j)
    <3> HIDE DEF Same
    <3> QED BY <2>1, <2>5, <2>6
  <2> QED BY <1>2, <2>7
<1>5. m + n \in Nat /\ m + n \in Q
  BY <1>3, <1>4, CountUp
<1>6. \A j \in 1 .. m + n : Same(j)
  BY <1>2, <1>5
<1>7. m = n
  <2>1. ~(m < n)
    <3>1. SUFFICES ASSUME m < n PROVE FALSE
      OBVIOUS
    <3>2. n \in 1 .. m + n /\ n \in 1 .. n /\ n \notin 1 .. m
      BY <3>1
    <3> QED BY <1>6, <3>2
  <2>2. ~(n < m)
    <3>1. SUFFICES ASSUME n < m PROVE FALSE
      OBVIOUS
    <3>2. m \in 1 .. m + n /\ m \in 1 .. m /\ m \notin 1 .. n
      BY <3>1
    <3> QED BY <1>6, <3>2
  <2> QED BY <2>1, <2>2
<1>8. \A j \in 1 .. n : s[j] = t[j]
  <2>1. \A j \in 1 .. n : j \in 1 .. m + n
    OBVIOUS
  <2> QED BY <1>6, <2>1
<1> QED BY <1>1, <1>7, <1>8

\* A snapshot taken after all others comes last.
LEMMA SortedMore ==
    ASSUME NEW S \in SUBSET Nat, IsFiniteSet(S), NEW x \in Nat, \A y \in S : y < x
    PROVE  Sorted(S \cup {x}) = Append(Sorted(S), x)
<1>1. PICK T : T = S \cup {x}
  OBVIOUS
<1>2. T \in SUBSET Nat /\ IsFiniteSet(T)
  BY <1>1, FS_AddElement
<1>3. PICK s, n : s = Sorted(S) /\ n = Len(s)
  OBVIOUS
<1>4. /\ s \in Seq(S) /\ n \in Nat /\ DOMAIN s = 1 .. n /\ Rising(s)
      /\ \A y \in S : \E i \in 1 .. n : s[i] = y
  <2>1. s \in Seq(S) /\ Rising(s) /\ \A y \in S : \E i \in 1 .. Len(s) : s[i] = y
    BY <1>3, SortedTells
  <2> QED BY <1>3, <2>1
<1>5. PICK t : t = Append(s, x)
  OBVIOUS
<1>6. /\ t \in Seq(T) /\ Len(t) = n + 1 /\ DOMAIN t = 1 .. n + 1 /\ t[n + 1] = x
      /\ \A i \in 1 .. n : t[i] = s[i] /\ s[i] \in S
  <2>1. s \in Seq(T)
    BY <1>1, <1>4
  <2> QED BY <1>1, <1>3, <1>4, <1>5, <2>1
<1>7. \A i \in 1 .. n + 1 : i = n + 1 \/ i \in 1 .. n
  BY <1>4
<1>8. Rising(t)
  <2>1. SUFFICES ASSUME NEW i \in 1 .. n + 1, NEW j \in 1 .. n + 1, i < j PROVE t[i] < t[j]
    BY <1>6 DEF Rising
  <2>2. i \in 1 .. n
    BY <1>4, <2>1
  <2>3. CASE j = n + 1
    BY <1>6, <2>2, <2>3
  <2>4. CASE j \in 1 .. n
    BY <1>4, <1>6, <2>1, <2>2, <2>4 DEF Rising
  <2> QED BY <1>7, <2>3, <2>4
<1>9. \A y \in T : \E i \in 1 .. n + 1 : t[i] = y
  <2>1. n + 1 \in 1 .. n + 1 /\ \A i \in 1 .. n : i \in 1 .. n + 1
    BY <1>4
  <2> QED BY <1>1, <1>4, <1>6, <2>1
<1>10. PICK r : r = Sorted(T)
  OBVIOUS
<1>11. r \in Seq(T) /\ Rising(r) /\ \A y \in T : \E i \in 1 .. Len(r) : r[i] = y
  BY <1>2, <1>10, SortedTells
<1>12. r = t
  BY <1>2, <1>6, <1>8, <1>9, <1>11, RisingAgree
<1> QED BY <1>1, <1>3, <1>5, <1>10, <1>12

\* More snapshots add to a timeline, and change nothing about its beginning.
LEMMA TimelineGrows ==
    ASSUME NEW p, NEW ids, NEW longer, NEW n \in Nat, NEW m \in Nat, Len(ids) = n, Len(longer) = m,
           n # 0, n <= m, \A k \in 1 .. n : longer[k] = ids[k]
    PROVE  /\ DOMAIN Timeline(p, ids) = 1 .. n - 1 /\ DOMAIN Timeline(p, longer) = 1 .. m - 1
           /\ \A k \in 1 .. n - 1 : Timeline(p, longer)[k] = Timeline(p, ids)[k]
<1>1. PICK f, g : f = Timelines(p, ids) /\ g = Timelines(p, longer)
  OBVIOUS
<1>2. /\ f[1] = Blank
      /\ \A k \in 2 .. n : f[k] = Extended(f[k - 1], Compared(p, ids[k - 1], ids[k], f[k - 1].seen))
  BY <1>1, TimelinesAre DEF Builds
<1>3. /\ g[1] = Blank
      /\ \A k \in 2 .. m : g[k] = Extended(g[k - 1], Compared(p, longer[k - 1], longer[k], g[k - 1].seen))
  <2>1. Builds(p, longer, m, g)
    BY <1>1, TimelinesAre
  <2> QED BY <2>1 DEF Builds
<1>4. PICK Q : Q = {i \in Nat : i + 1 \in 1 .. n => f[i + 1] = g[i + 1]}
  OBVIOUS
<1>5. 0 \in Q
  BY <1>2, <1>3, <1>4
<1>6. ASSUME NEW i \in Nat, i \in Q PROVE i + 1 \in Q
  <2>1. SUFFICES ASSUME i + 2 \in 1 .. n PROVE f[i + 2] = g[i + 2]
    BY <1>4
  <2>2. f[i + 1] = g[i + 1]
    BY <1>4, <1>6, <2>1
  <2>3. PICK k \in 2 .. n : k = i + 2 /\ k - 1 = i + 1 /\ k \in 2 .. m /\ k \in 1 .. n /\ k - 1 \in 1 .. n
    BY <2>1
  <2>4. f[k] = Extended(f[k - 1], Compared(p, ids[k - 1], ids[k], f[k - 1].seen))
    BY <1>2, <2>3
  <2>5. g[k] = Extended(g[k - 1], Compared(p, longer[k - 1], longer[k], g[k - 1].seen))
    BY <1>3, <2>3
  <2>6. f[k - 1] = g[k - 1] /\ longer[k - 1] = ids[k - 1] /\ longer[k] = ids[k]
    BY <2>2, <2>3
  <2> QED BY <2>3, <2>4, <2>5, <2>6
<1>7. \A i \in Nat : i \in Q
  BY <1>5, <1>6, CountUp
<1>8. ASSUME NEW k \in 1 .. n - 1
      PROVE  f[k] = g[k] /\ longer[k] = ids[k] /\ longer[k + 1] = ids[k + 1] /\ k \in 1 .. m - 1
  <2>1. k - 1 \in Nat /\ (k - 1) + 1 = k /\ k \in 1 .. n /\ k + 1 \in 1 .. n
    OBVIOUS
  <2>2. k - 1 \in Q
    BY <1>7, <2>1
  <2> QED BY <1>4, <2>1, <2>2
<1>9. Timeline(p, ids) = [k \in 1 .. n - 1 |-> Compared(p, ids[k], ids[k + 1], f[k].seen)]
  BY <1>1, TimelineTells
<1>10. Timeline(p, longer) = [k \in 1 .. m - 1 |-> Compared(p, longer[k], longer[k + 1], g[k].seen)]
  <2>1. m # 0
    OBVIOUS
  <2> QED BY <1>1, <2>1, TimelineTells
<1>11. ASSUME NEW k \in 1 .. n - 1 PROVE Timeline(p, longer)[k] = Timeline(p, ids)[k]
  BY <1>8, <1>9, <1>10
<1> QED BY <1>9, <1>10, <1>11

LEMMA TimelineWillGrow ==
    ASSUME NEW p, NEW ids, NEW longer, NEW n \in Nat, NEW m \in Nat, Len(ids) = n, Len(longer) = m,
           n # 0, n <= m, \A k \in 1 .. n : longer[k] = ids[k]
    PROVE  (/\ DOMAIN Timeline(p, ids) = 1 .. n - 1 /\ DOMAIN Timeline(p, longer) = 1 .. m - 1
            /\ \A k \in 1 .. n - 1 : Timeline(p, longer)[k] = Timeline(p, ids)[k])'
<1>1. /\ DOMAIN Timeline(p, ids) = 1 .. n - 1 /\ DOMAIN Timeline(p, longer) = 1 .. m - 1
      /\ \A k \in 1 .. n - 1 : Timeline(p, longer)[k] = Timeline(p, ids)[k]
  BY TimelineGrows
<1> QED BY <1>1, PTL

LEMMA EpisodesGrow ==
    ASSUME NEW p, NEW ids, NEW longer, NEW reports, NEW more,
           \A k \in DOMAIN reports :
               k \in DOMAIN more /\ more[k] = reports[k] /\ longer[k] = ids[k]
    PROVE  EpisodesOf(p, ids, reports) \subseteq EpisodesOf(p, longer, more)
<1>1. SUFFICES ASSUME NEW e \in EpisodesOf(p, ids, reports) PROVE e \in EpisodesOf(p, longer, more)
  OBVIOUS
<1>2. PICK k, x : k \in DOMAIN reports /\ x \in Groups(p, ids, reports, k) /\ e = Dated(ids, x)
  BY <1>1, EpisodesAre
<1>3. k \in DOMAIN more /\ more[k] = reports[k] /\ longer[k] = ids[k]
  BY <1>2
<1>4. \A f : A(p, ids, reports, <<>>)!Affinity(f) = A(p, longer, more, <<>>)!Affinity(f)
  BY DEF A!Affinity, A!EnvironmentOf
<1>5. ASSUME NEW found
      PROVE  A(p, ids, reports, <<>>)!Episode(k, found) = A(p, longer, more, <<>>)!Episode(k, found)
  <2>1. A(p, ids, reports, <<>>)!Environs(found) = A(p, longer, more, <<>>)!Environs(found)
    BY DEF A!Environs, A!EnvironmentOf
  <2>2. A(p, ids, reports, <<>>)!NamesOf(found) = A(p, longer, more, <<>>)!NamesOf(found)
    BY DEF A!NamesOf
  <2>3. A(p, ids, reports, <<>>)!KindOf(found) = A(p, longer, more, <<>>)!KindOf(found)
    <3>1. A(p, ids, reports, <<>>)!Cardinality(found) = A(p, longer, more, <<>>)!Cardinality(found)
      BY DEF A!Cardinality
    <3> QED BY <2>1, <2>2, <3>1 DEF A!KindOf
  <2>4. A(p, ids, reports, <<>>)!ClusterId(k, found) = A(p, longer, more, <<>>)!ClusterId(k, found)
    BY <2>2, <2>3 DEF A!ClusterId
  <2>5. A(p, ids, reports, <<>>)!EpisodeState(found) = A(p, longer, more, <<>>)!EpisodeState(found)
    BY DEF A!EpisodeState
  <2> QED BY <2>4, <2>5 DEF A!Episode
<1>6. x \in Groups(p, longer, more, k)
  <2>1. PICK g \in reports[k].active :
          x = A(p, ids, reports, <<>>)!Episode(k,
              {f \in reports[k].active : A(p, ids, reports, <<>>)!Affinity(f) = A(p, ids, reports, <<>>)!Affinity(g)})
    BY <1>2 DEF Groups, A!EpisodesOf
  <2>2. {f \in reports[k].active : A(p, ids, reports, <<>>)!Affinity(f) = A(p, ids, reports, <<>>)!Affinity(g)}
        = {f \in more[k].active : A(p, longer, more, <<>>)!Affinity(f) = A(p, longer, more, <<>>)!Affinity(g)}
    BY <1>3, <1>4
  <2>3. x = A(p, longer, more, <<>>)!Episode(k,
              {f \in more[k].active : A(p, longer, more, <<>>)!Affinity(f) = A(p, longer, more, <<>>)!Affinity(g)})
    BY <1>5, <2>1, <2>2
  <2>4. g \in more[k].active
    BY <1>3
  <2> QED BY <2>3, <2>4 DEF Groups, A!EpisodesOf
<1>7. Dated(longer, x) = Dated(ids, x)
  <2>1. x.started = k
    BY <1>2, GroupIs
  <2> QED BY <1>3, <2>1 DEF Dated
<1> QED BY <1>2, <1>3, <1>6, <1>7, EpisodesAre

\* An episode of the timeline of all that has been saved.
IsEpisode(p, e) ==
    /\ written # {}
    /\ e \in EpisodesOf(PolicyAt[p], Sorted(written), Timeline(PolicyAt[p], Sorted(written)))

TodoTold(p, q) ==
    q.step = "store" => \A st \in ToSet(q.todo) : st.table = "episodes" => IsEpisode(p, st.row)

\* No two snapshots have been saved in one second.
AllApart == \A second : DatedBy(second) => \A x, y \in written : second[x] = second[y] => x = y

\* One policy, and nothing late or overwritten, until now.
InStep(p) == used \subseteq {p} /\ late = {} /\ AllApart

EpisodesInv ==
    \A p \in Policies : InStep(p) =>
        /\ \A e \in episodes : IsEpisode(p, e)
        /\ \A w \in Workers : TodoTold(p, proc[w])

\* What has been overwritten stays so.
LEMMA ApartBefore ==
    ASSUME DateInv, [Next]_vars, written \subseteq written', AllApart'
    PROVE  AllApart
<1>1. SUFFICES ASSUME NEW second, DatedBy(second), NEW x \in written, NEW y \in written,
                      second[x] = second[y]
               PROVE  x = y
  BY DEF AllApart
<1>2. PICK after : DatedBy(after)' /\ \A z \in Snapshots : after[z] = second[z]
  BY <1>1, DatesFollow DEF Follows
<1>3. x \in Snapshots /\ y \in Snapshots
  BY <1>1 DEF DateInv, Typed
<1>4. after[x] = after[y] /\ x \in written' /\ y \in written'
  BY <1>1, <1>2, <1>3
<1> QED BY <1>2, <1>4 DEF AllApart

LEMMA SavedTells ==
    ASSUME Typed, NEW S \in SUBSET Snapshots
    PROVE  /\ S \in SUBSET Nat /\ IsFiniteSet(S)
           /\ Sorted(S) \in Seq(S) /\ Sorted(S) \in Seq(Snapshots)
           /\ S # {} => Len(Sorted(S)) # 0
<1>1. Len(scans) \in Nat
  BY DEF Typed
<1>2. S \in SUBSET Nat
  BY <1>1 DEF Snapshots
<1>3. IsFiniteSet(S)
  <2>1. IsFiniteSet(1 .. Len(scans))
    BY <1>1, FS_Interval
  <2> QED BY <2>1, FS_Subset DEF Snapshots
<1>4. Sorted(S) \in Seq(S) /\ \A x \in S : \E i \in 1 .. Len(Sorted(S)) : Sorted(S)[i] = x
  BY <1>2, <1>3, SortedTells
<1>5. Sorted(S) \in Seq(Snapshots)
  BY <1>4
<1>6. S # {} => Len(Sorted(S)) # 0
  BY <1>4
<1> QED BY <1>2, <1>3, <1>4, <1>5, <1>6

LEMMA EpisodeStays ==
    ASSUME Typed, Grows, written' = written, NEW p, NEW e, IsEpisode(p, e)
    PROVE  IsEpisode(p, e)'
<1>1. PICK ids, policy : ids = Sorted(written) /\ policy = PolicyAt[p]
  OBVIOUS
<1>2. ids \in Seq(Snapshots) /\ ids # <<>>
  BY <1>1, SavedTells DEF IsEpisode, Typed
<1>3. PICK reports : reports = Timeline(policy, ids)
  OBVIOUS
<1>4. Timeline(policy, ids)' = reports
  BY <1>2, <1>3, TimelineStays DEF Grows
<1>5. e \in EpisodesOf(policy, ids, reports) /\ written # {}
  BY <1>1, <1>3 DEF IsEpisode
<1>6. Sorted(written)' = ids
  BY <1>1
<1>7. (Timeline(PolicyAt[p], Sorted(written)))' = reports
  BY <1>1, <1>4, <1>6 DEF Timeline
<1> QED BY <1>1, <1>5, <1>6, <1>7 DEF IsEpisode

\* What is saved after all others adds to the timeline.
LEMMA EpisodeStaysBefore ==
    ASSUME Typed, Grows, NEW x \in Nat, written' = written \cup {x}, \A y \in written : y < x,
           NEW p, NEW e, IsEpisode(p, e)
    PROVE  IsEpisode(p, e)'
<1>1. PICK ids, policy, n : ids = Sorted(written) /\ policy = PolicyAt[p] /\ n = Len(ids)
  OBVIOUS
<1>2. /\ written \in SUBSET Nat /\ IsFiniteSet(written) /\ ids \in Seq(Snapshots)
      /\ n \in Nat /\ n # 0 /\ ids # <<>>
  <2>1. written \in SUBSET Snapshots /\ written # {}
    BY DEF Typed, IsEpisode
  <2>2. /\ written \in SUBSET Nat /\ IsFiniteSet(written)
        /\ ids \in Seq(Snapshots) /\ Len(ids) # 0
    BY <1>1, <2>1, SavedTells
  <2> QED BY <1>1, <2>2
<1>3. PICK longer : longer = Append(ids, x)
  OBVIOUS
<1>4. Len(longer) = n + 1 /\ \A k \in 1 .. n : longer[k] = ids[k]
  BY <1>1, <1>2, <1>3
<1>5. Sorted(written)' = longer
  BY <1>1, <1>2, <1>3, SortedMore
<1>6. PICK reports : reports = Timeline(policy, ids)
  OBVIOUS
<1>7. Timeline(policy, ids)' = reports
  BY <1>2, <1>6, TimelineStays DEF Grows
<1>8. PICK more : more = Timeline(policy, longer)'
  OBVIOUS
<1>9. /\ DOMAIN reports = 1 .. n - 1 /\ DOMAIN more = 1 .. (n + 1) - 1
      /\ \A k \in 1 .. n - 1 : more[k] = reports[k]
  <2>1. PICK m \in Nat : m = n + 1 /\ n <= m
    BY <1>2
  <2>2. Len(ids) = n /\ Len(longer) = m
    BY <1>1, <1>4, <2>1
  <2>3. (/\ DOMAIN Timeline(policy, ids) = 1 .. n - 1 /\ DOMAIN Timeline(policy, longer) = 1 .. m - 1
         /\ \A k \in 1 .. n - 1 : Timeline(policy, longer)[k] = Timeline(policy, ids)[k])'
    BY <1>2, <1>4, <2>1, <2>2, TimelineWillGrow
  <2> QED BY <1>7, <1>8, <2>1, <2>3
<1>10. e \in EpisodesOf(policy, ids, reports)
  BY <1>1, <1>6 DEF IsEpisode
<1>11. e \in EpisodesOf(policy, longer, more)
  <2>1. \A k \in DOMAIN reports : k \in DOMAIN more /\ more[k] = reports[k] /\ longer[k] = ids[k]
    BY <1>2, <1>4, <1>9
  <2> QED BY <1>10, <2>1, EpisodesGrow
<1>12. (Timeline(PolicyAt[p], Sorted(written)))' = more
  BY <1>1, <1>5, <1>8 DEF Timeline
<1>13. written' # {}
  OBVIOUS
<1> QED BY <1>1, <1>5, <1>11, <1>12, <1>13 DEF IsEpisode

\* Nothing torn or overwritten: all that has been saved is there.
LEMMA AllAreKept ==
    ASSUME DateInv, AllApart, ~IsTorn
    PROVE  Kept = written
<1>1. PICK second : DatedBy(second)
  BY DEF DateInv
<1>2. Kept \subseteq written
  <2>1. SUFFICES ASSUME NEW s \in Seconds, file[s] \notin {NoFile, Torn} PROVE file[s] \in written
    BY DEF Kept
  <2>2. file[s] \in Snapshots
    BY <2>1 DEF DateInv, Typed
  <2> QED BY <1>1, <2>2 DEF DatedBy
<1>3. written \subseteq Kept
  <2>1. SUFFICES ASSUME NEW x \in written PROVE x \in Kept
    OBVIOUS
  <2>2. x \in Snapshots
    BY DEF DateInv, Typed
  <2>3. PICK s \in Seconds : s = second[x] /\ file[s] # NoFile
    BY <1>1, <2>1, <2>2 DEF DatedBy
  <2>4. file[s] # Torn
    BY DEF IsTorn
  <2>5. file[s] \in Snapshots
    BY <2>3, <2>4 DEF DateInv, Typed
  <2>6. file[s] \in written /\ second[file[s]] = second[x]
    BY <1>1, <2>3, <2>5 DEF DatedBy
  <2>7. file[s] = x
    BY <1>1, <2>1, <2>6 DEF AllApart
  <2> QED BY <2>3, <2>4, <2>7 DEF Kept
<1> QED BY <1>2, <1>3

LEMMA StepTells ==
    ASSUME DateInv, EpisodesInv, [Next]_vars,
           used \subseteq used', late \subseteq late', written \subseteq written',
           \A p \in Policies : InStep(p)' => \A e : IsEpisode(p, e) => IsEpisode(p, e)',
           \A p \in Policies : InStep(p) /\ InStep(p)' =>
               /\ \A e \in episodes' : e \in episodes \/ IsEpisode(p, e)
               /\ \A v \in Workers : \A q : q = proc'[v] => TodoTold(p, q)
    PROVE  EpisodesInv'
<1>1. SUFFICES ASSUME NEW p \in Policies, InStep(p)'
               PROVE  (\A e \in episodes : IsEpisode(p, e))' /\ \A v \in Workers : TodoTold(p, proc[v])'
  BY DEF EpisodesInv
<1>2. InStep(p)
  <2>1. used' \subseteq {p} /\ late' = {} /\ AllApart'
    BY <1>1 DEF InStep
  <2>2. AllApart
    BY <2>1, ApartBefore
  <2> QED BY <2>1, <2>2 DEF InStep
<1>3. ASSUME NEW e, IsEpisode(p, e) PROVE IsEpisode(p, e)'
  BY <1>1, <1>3
<1>4. \A e \in episodes' : IsEpisode(p, e)'
  BY <1>1, <1>2, <1>3 DEF EpisodesInv
<1>5. ASSUME NEW v \in Workers PROVE TodoTold(p, proc[v])'
  <2>1. PICK q : q = proc'[v]
    OBVIOUS
  <2>2. TodoTold(p, q)
    BY <1>1, <1>2, <2>1
  <2>3. TodoTold(p, q)'
    BY <1>3, <2>2 DEF TodoTold
  <2> QED BY <2>1, <2>3 DEF TodoTold
<1> QED BY <1>4, <1>5

\* A process that does not write an episode tells what it told.
LEMMA OthersTell ==
    ASSUME Shaped, NEW p, \A v \in Workers : TodoTold(p, proc[v]),
           NEW w \in Workers, NEW r, GoesOn(w, r), TodoTold(p, r)
    PROVE  \A v \in Workers : \A q : q = proc'[v] => TodoTold(p, q)
<1>1. SUFFICES ASSUME NEW v \in Workers, NEW q, q = proc'[v] PROVE TodoTold(p, q)
  OBVIOUS
<1>2. CASE v = w
  BY <1>1, <1>2 DEF GoesOn
<1>3. CASE v # w
  <2>1. PICK o : o = proc[v] /\ TodoTold(p, o) /\ IsProcess(o)
    BY DEF Shaped
  <2>2. q = o \/ q = [o EXCEPT !.alone = FALSE]
    BY <1>1, <1>3, <2>1 DEF GoesOn
  <2>3. q.step = o.step /\ q.todo = o.todo
    BY <2>1, <2>2 DEF IsProcess
  <2> QED BY <2>1, <2>3 DEF TodoTold
<1> QED BY <1>2, <1>3

LEMMA EpisodesStay ==
    ASSUME Typed, Grows, written' = written
    PROVE  \A p \in Policies : InStep(p)' => \A e : IsEpisode(p, e) => IsEpisode(p, e)'
BY EpisodeStays

LEMMA QuietTells ==
    ASSUME DateInv, EpisodesInv, [Next]_vars, NEW w \in Workers, NEW r, r.step # "store", GoesOn(w, r),
           UNCHANGED <<episodes, used, written, late>>,
           scans' = scans \/ \E seen \in AllScans : scans' = Append(scans, seen)
    PROVE  EpisodesInv'
<1>1. Typed /\ Shaped /\ Grows
  BY ScansGrow DEF DateInv
<1>2. ASSUME NEW p \in Policies, InStep(p)
      PROVE  /\ \A e \in episodes' : e \in episodes \/ IsEpisode(p, e)
             /\ \A v \in Workers : \A q : q = proc'[v] => TodoTold(p, q)
  <2>1. TodoTold(p, r)
    BY DEF TodoTold
  <2>2. \A v \in Workers : TodoTold(p, proc[v])
    BY <1>2 DEF EpisodesInv
  <2> QED BY <1>1, <2>1, <2>2, OthersTell
<1>3. \A p \in Policies : InStep(p)' => \A e : IsEpisode(p, e) => IsEpisode(p, e)'
  BY <1>1, EpisodesStay
<1> QED BY <1>2, <1>3, StepTells

LEMMA EpisodeStatementIs ==
    ASSUME NEW kind, NEW p, NEW st \in Whole(kind, p), st.table = "episodes"
    PROVE  st.row \in EpisodesOf(p, Loaded, Timeline(p, Loaded))
<1>1. PICK reports : reports = Timeline(p, Loaded)
  OBVIOUS
<1>2. \E e \in EpisodesOf(p, Loaded, reports) : st = Statement("episodes", e.id, e)
  <2>1. CASE kind = "episodes"
    <3>1. Whole(kind, p) = {Statement("episodes", e.id, e) : e \in EpisodesOf(p, Loaded, reports)}
      BY <1>1, <2>1 DEF Whole
    <3> QED BY <3>1
  <2>2. CASE kind # "episodes"
    BY <1>1, <2>2, WholeTells
  <2> QED BY <2>1, <2>2
<1> QED BY <1>1, <1>2 DEF Statement

LEMMA LoadTells ==
    ASSUME DateInv, EpisodesInv, [Next]_vars, NEW w \in Workers, NEW policy \in Policies, LoadFiles(w, policy)
    PROVE  EpisodesInv'
<1>1. PICK kind, held : kind = proc[w].kind /\ held = PolicyAt[policy]
  OBVIOUS
<1>2. PICK todo : todo = StatementsOf(kind, held, Loaded, Timeline(held, Loaded))
  OBVIOUS
<1>3. PICK r : r = IF todo = <<>> THEN Idle ELSE Storing(kind, policy, todo)
  OBVIOUS
<1>4. proc' = [proc EXCEPT ![w] = r]
  BY <1>1, <1>2, <1>3 DEF LoadFiles, Stores
<1>5. UNCHANGED <<scans, episodes, written, late>> /\ used' = used \cup {policy}
  BY DEF LoadFiles, Tables, Bounds
<1>6. ~IsTorn /\ Loaded # <<>>
  <2>1. Len(Loaded) >= 1
    BY DEF LoadFiles, CanLoad
  <2>2. Loaded # <<>>
    BY <2>1
  <2> QED BY <2>2 DEF LoadFiles, CanLoad
<1>7. Typed /\ Shaped /\ Grows
  BY <1>5, ScansGrow DEF DateInv
<1>8. ToSet(todo) = Whole(kind, held)
  <2>1. Lists(todo, Whole(kind, held))
    BY <1>2, <1>6, <1>7, WholeIsListed
  <2> QED BY <2>1, ListIsSeq
<1>9. GoesOn(w, r)
  BY <1>4, <1>7, PutsOn
<1>10. ASSUME NEW p \in Policies, InStep(p), InStep(p)'
       PROVE  /\ \A e \in episodes' : e \in episodes \/ IsEpisode(p, e)
              /\ \A v \in Workers : \A q : q = proc'[v] => TodoTold(p, q)
  <2>1. p = policy
    BY <1>5, <1>10 DEF InStep
  <2>2. Kept = written
    BY <1>6, <1>10, AllAreKept DEF InStep
  <2>3. written # {}
    BY <1>6, <1>7, <2>2, LoadedTells
  <2>4. Loaded = Sorted(written)
    BY <2>2 DEF Loaded
  <2>5. TodoTold(p, r)
    <3>1. SUFFICES ASSUME r.step = "store", NEW st \in ToSet(r.todo), st.table = "episodes"
                   PROVE  IsEpisode(p, st.row)
      BY DEF TodoTold
    <3>2. r.todo = todo
      <4>1. CASE todo = <<>>
        BY <1>3, <3>1, <4>1 DEF Idle, Process
      <4>2. CASE todo # <<>>
        BY <1>3, <4>2 DEF Storing
      <4> QED BY <4>1, <4>2
    <3>3. st.row \in EpisodesOf(held, Loaded, Timeline(held, Loaded))
      BY <1>8, <3>1, <3>2, EpisodeStatementIs
    <3> QED BY <1>1, <2>1, <2>3, <2>4, <3>3 DEF IsEpisode
  <2>6. \A v \in Workers : TodoTold(p, proc[v])
    BY <1>10 DEF EpisodesInv
  <2> QED BY <1>5, <1>7, <1>9, <2>5, <2>6, OthersTell
<1>11. \A p \in Policies : InStep(p)' => \A e : IsEpisode(p, e) => IsEpisode(p, e)'
  BY <1>5, <1>7, EpisodesStay
<1>12. used \subseteq used' /\ late \subseteq late' /\ written \subseteq written'
  BY <1>5
<1> QED BY <1>10, <1>11, <1>12, StepTells

LEMMA PairTells ==
    ASSUME DateInv, EpisodesInv, [Next]_vars, NEW w \in Workers, NEW policy \in Policies,
           NEW older \in Kept, NEW newer \in Kept, LoadPair(w, policy, older, newer)
    PROVE  EpisodesInv'
<1>1. PICK run, report : run = <<older, newer>> /\ report = Compared(PolicyAt[policy], older, newer, Unseen)
  OBVIOUS
<1>2. PICK todo : todo = ReportStatements(run, report)
  OBVIOUS
<1>3. PICK r : r = IF todo = <<>> THEN Idle ELSE Storing("pair", policy, todo)
  OBVIOUS
<1>4. proc' = [proc EXCEPT ![w] = r]
  BY <1>1, <1>2, <1>3 DEF LoadPair, Stores
<1>5. UNCHANGED <<scans, episodes, used, written, late>>
  BY DEF LoadPair, Tables, Bounds
<1>6. Typed /\ Shaped /\ Grows
  BY <1>5, ScansGrow DEF DateInv
<1>7. ToSet(todo) = OfReport(run, report)
  <2>1. older \in Snapshots /\ newer \in Snapshots
    BY <1>6, LoadedTells
  <2>2. scans[older] \in AllScans /\ scans[newer] \in AllScans
    BY <1>6, <2>1 DEF Typed, Snapshots
  <2>3. report = ReportOf(PolicyAt[policy], scans[older], scans[newer], newer, Unseen)
    BY <1>1 DEF Compared, ReportOf
  <2>4. IsFiniteSet(All(report))
    BY <2>2, <2>3, ReportIsFinite
  <2> QED BY <1>2, <2>4, ReportIsListed, ListIsSeq
<1>8. \A st \in ToSet(todo) : st.table # "episodes"
  BY <1>7 DEF OfReport, Totals, Inserted, Statement
<1>9. GoesOn(w, r)
  BY <1>4, <1>6, PutsOn
<1>10. ASSUME NEW p \in Policies, InStep(p)
       PROVE  /\ \A e \in episodes' : e \in episodes \/ IsEpisode(p, e)
              /\ \A v \in Workers : \A q : q = proc'[v] => TodoTold(p, q)
  <2>1. TodoTold(p, r)
    <3>1. SUFFICES ASSUME r.step = "store" PROVE r.todo = todo
      BY <1>8 DEF TodoTold
    <3>2. CASE todo = <<>>
      BY <1>3, <3>1, <3>2 DEF Idle, Process
    <3>3. CASE todo # <<>>
      BY <1>3, <3>3 DEF Storing
    <3> QED BY <3>2, <3>3
  <2>2. \A v \in Workers : TodoTold(p, proc[v])
    BY <1>10 DEF EpisodesInv
  <2> QED BY <1>5, <1>6, <1>9, <2>1, <2>2, OthersTell
<1>11. \A p \in Policies : InStep(p)' => \A e : IsEpisode(p, e) => IsEpisode(p, e)'
  BY <1>5, <1>6, EpisodesStay
<1>12. used \subseteq used' /\ late \subseteq late' /\ written \subseteq written'
  BY <1>5
<1> QED BY <1>10, <1>11, <1>12, StepTells

LEMMA StoreTells ==
    ASSUME DateInv, EpisodesInv, [Next]_vars, NEW w \in Workers, StoreNext(w)
    PROVE  EpisodesInv'
<1>1. PICK second : DatedBy(second)
  BY DEF DateInv
<1>2. PICK q : q = proc[w] /\ IsProcess(q) /\ ProcessIsDated(second, q) /\ q.step = "store"
  BY <1>1 DEF DateInv, Shaped, DatedBy, StoreNext
<1>3. PICK st, tail : st = Head(q.todo) /\ tail = Tail(q.todo)
  OBVIOUS
<1>4. ToSet(q.todo) = {st} \cup ToSet(tail)
  <2>1. q.todo \in Seq(ToSet(q.todo)) /\ q.todo # <<>>
    BY <1>2 DEF ProcessIsDated
  <2> QED BY <1>3, <2>1, HeadAndTail
<1>5. UNCHANGED <<scans, used, written, late>>
  BY DEF StoreNext, Bounds
<1>6. Typed /\ Shaped /\ Grows
  BY <1>5, ScansGrow DEF DateInv
<1>7. PICK r : r = IF Len(q.todo) = 1 THEN Idle ELSE [q EXCEPT !.todo = tail]
  OBVIOUS
<1>8. GoesOn(w, r)
  <2>1. Writes(w, r)
    BY <1>2, <1>3, <1>7 DEF StoreNext
  <2> QED BY <1>6, <2>1, PutsOn
<1>9. \A e \in episodes' : e \in episodes \/ (st.table = "episodes" /\ e = st.row)
  BY <1>2, <1>3 DEF StoreNext
<1>10. ASSUME NEW p \in Policies, InStep(p)
       PROVE  /\ \A e \in episodes' : e \in episodes \/ IsEpisode(p, e)
              /\ \A v \in Workers : \A o : o = proc'[v] => TodoTold(p, o)
  <2>1. \A v \in Workers : TodoTold(p, proc[v])
    BY <1>10 DEF EpisodesInv
  <2>2. \A x \in ToSet(q.todo) : x.table = "episodes" => IsEpisode(p, x.row)
    BY <1>2, <2>1 DEF TodoTold
  <2>3. \A e \in episodes' : e \in episodes \/ IsEpisode(p, e)
    BY <1>4, <1>9, <2>2
  <2>4. TodoTold(p, r)
    <3>1. CASE Len(q.todo) = 1
      BY <1>7, <3>1 DEF Idle, Process, TodoTold
    <3>2. CASE Len(q.todo) # 1
      <4>1. r.todo = tail
        BY <1>2, <1>7, <3>2, TodoPut
      <4> QED BY <1>4, <2>2, <4>1 DEF TodoTold
    <3> QED BY <3>1, <3>2
  <2> QED BY <1>6, <1>8, <2>1, <2>3, <2>4, OthersTell
<1>11. \A p \in Policies : InStep(p)' => \A e : IsEpisode(p, e) => IsEpisode(p, e)'
  BY <1>5, <1>6, EpisodesStay
<1>12. used \subseteq used' /\ late \subseteq late' /\ written \subseteq written'
  BY <1>5
<1> QED BY <1>10, <1>11, <1>12, StepTells

\* A file that is written for the first time, and not late, is the latest.
LEMMA WriteTells ==
    ASSUME DateInv, EpisodesInv, [Next]_vars, NEW w \in Workers, WriteFile(w)
    PROVE  EpisodesInv'
<1>1. PICK second : DatedBy(second)
  BY DEF DateInv
<1>2. PICK q : q = proc[w] /\ IsProcess(q) /\ ProcessIsDated(second, q) /\ q.step = "write"
  BY <1>1 DEF DateInv, Shaped, DatedBy, WriteFile
<1>3. PICK x : x = q.id
  OBVIOUS
<1>4. x \in Snapshots /\ x \in Nat
  BY <1>2, <1>3 DEF ProcessIsDated, DateInv, Typed, Snapshots
<1>5. /\ UNCHANGED <<scans, episodes, used>> /\ written' = written \cup {x}
      /\ late' = IF x \notin written /\ \E y \in written : y > x THEN late \cup {x} ELSE late
  BY <1>2, <1>3 DEF WriteFile, Tables
<1>6. Typed /\ Shaped /\ Grows
  BY <1>5, ScansGrow DEF DateInv
<1>7. PICK step \in {"read", "register"} : Writes(w, [q EXCEPT !.step = step])
  BY <1>2 DEF WriteFile
<1>8. PICK r : r = [q EXCEPT !.step = step]
  OBVIOUS
<1>9. r.step # "store"
  <2>1. step \in Steps \ {"store"}
    BY DEF Steps
  <2>2. r.step = step
    BY <1>2, <1>8, <2>1, StepPut
  <2> QED BY <2>2
<1>10. GoesOn(w, r)
  BY <1>6, <1>7, <1>8, PutsOn
<1>11. ASSUME NEW p \in Policies, InStep(p)
       PROVE  /\ \A e \in episodes' : e \in episodes \/ IsEpisode(p, e)
              /\ \A v \in Workers : \A o : o = proc'[v] => TodoTold(p, o)
  <2>1. TodoTold(p, r)
    BY <1>9 DEF TodoTold
  <2>2. \A v \in Workers : TodoTold(p, proc[v])
    BY <1>11 DEF EpisodesInv
  <2> QED BY <1>5, <1>6, <1>10, <2>1, <2>2, OthersTell
<1>12. ASSUME NEW p \in Policies, InStep(p)', NEW e, IsEpisode(p, e) PROVE IsEpisode(p, e)'
  <2>1. CASE x \in written
    <3>1. written' = written
      BY <1>5, <2>1
    <3> QED BY <1>6, <1>12, <3>1, EpisodeStays
  <2>2. CASE x \notin written
    <3>1. late' = {}
      BY <1>12 DEF InStep
    <3>2. \A y \in written : ~(y > x)
      BY <1>5, <2>2, <3>1
    <3>3. ASSUME NEW y \in written PROVE y < x
      <4>1. y \in Nat /\ y # x
        BY <1>6, <2>2 DEF Typed, Snapshots
      <4> QED BY <1>4, <3>2, <4>1
    <3> QED BY <1>4, <1>5, <1>6, <1>12, <3>3, EpisodeStaysBefore
  <2> QED BY <2>1, <2>2
<1>13. used \subseteq used' /\ late \subseteq late' /\ written \subseteq written'
  BY <1>5
<1> QED BY <1>11, <1>12, <1>13, StepTells

LEMMA StutterTells ==
    ASSUME DateInv, EpisodesInv, UNCHANGED vars
    PROVE  EpisodesInv'
<1>1. UNCHANGED <<scans, episodes, used, written, late, proc>>
  BY DEF vars, Tables
<1>2. Typed /\ Grows
  BY <1>1, ScansGrow DEF DateInv
<1>3. ASSUME NEW p \in Policies, InStep(p)
      PROVE  /\ \A e \in episodes' : e \in episodes \/ IsEpisode(p, e)
             /\ \A v \in Workers : \A q : q = proc'[v] => TodoTold(p, q)
  BY <1>1, <1>3 DEF EpisodesInv
<1>4. \A p \in Policies : InStep(p)' => \A e : IsEpisode(p, e) => IsEpisode(p, e)'
  BY <1>1, <1>2, EpisodesStay
<1> QED BY <1>1, <1>3, <1>4, StepTells

LEMMA EpisodesStep == DateInv /\ EpisodesInv /\ [Next]_vars => EpisodesInv'
<1>1. SUFFICES ASSUME DateInv, EpisodesInv, [Next]_vars, Next PROVE EpisodesInv'
  BY StutterTells
<1>2. PICK w \in Workers :
        \/ \E seen \in AllScans, s \in {now, now + 1} \cap Seconds : TakeScan(w, seen, s)
        \/ \E kind \in RequestKinds : Ask(w, kind)
        \/ TruncateFile(w) \/ WriteFile(w) \/ RegisterSnapshot(w)
        \/ Loads(w) \/ LoadFails(w) \/ StoreNext(w) \/ MigrateNext(w) \/ Die(w)
  BY <1>1 DEF Next
<1>3. CASE \E seen \in AllScans, s \in {now, now + 1} \cap Seconds : TakeScan(w, seen, s)
  <2>1. PICK seen \in AllScans, s \in {now, now + 1} \cap Seconds : TakeScan(w, seen, s)
    BY <1>3
  <2>2. PICK r : r = Process("job", "truncate", Len(scans) + 1, s, <<>>)
    OBVIOUS
  <2>3. r.step # "store"
    BY <2>2 DEF Process
  <2>4. /\ proc' = [proc EXCEPT ![w] = r] /\ UNCHANGED <<episodes, used, written, late>>
        /\ scans' = Append(scans, seen)
    BY <2>1, <2>2 DEF TakeScan, Tables
  <2>5. GoesOn(w, r)
    BY <1>1, <2>4, PutsOn DEF DateInv
  <2> QED BY <1>1, <2>3, <2>4, <2>5, QuietTells
<1>4. CASE \E kind \in RequestKinds : Ask(w, kind)
  <2>1. PICK kind \in RequestKinds : Ask(w, kind)
    BY <1>4
  <2>2. PICK r : r = IF kind = "migrate"
                     THEN Process(kind, "read", 0, 0, SetToSeq({s \in Seconds : file[s] # NoFile}))
                     ELSE Doing(kind, "load")
    OBVIOUS
  <2>3. r.step # "store"
    BY <2>2 DEF Process, Doing
  <2>4. /\ proc' = [proc EXCEPT ![w] = r] /\ UNCHANGED <<scans, episodes, used, written, late>>
    BY <2>1, <2>2 DEF Ask, Tables
  <2>5. GoesOn(w, r)
    BY <1>1, <2>4, PutsOn DEF DateInv
  <2> QED BY <1>1, <2>3, <2>4, <2>5, QuietTells
<1>5. CASE TruncateFile(w)
  <2>1. PICK q : q = proc[w] /\ IsProcess(q) /\ q.step = "truncate"
    BY <1>1, <1>5 DEF DateInv, Shaped, TruncateFile
  <2>2. PICK r : r = [q EXCEPT !.step = "write"]
    OBVIOUS
  <2>3. r.step # "store"
    <3>1. "write" \in Steps \ {"store"}
      BY DEF Steps
    <3>2. r.step = "write"
      BY <2>1, <2>2, <3>1, StepPut
    <3> QED BY <3>2
  <2>4. Writes(w, r) /\ UNCHANGED <<scans, episodes, used, written, late>>
    BY <1>5, <2>1, <2>2 DEF TruncateFile, Tables
  <2>5. GoesOn(w, r)
    BY <1>1, <2>4, PutsOn DEF DateInv
  <2> QED BY <1>1, <2>3, <2>4, <2>5, QuietTells
<1>6. CASE WriteFile(w)
  BY <1>1, <1>6, WriteTells
<1>7. CASE RegisterSnapshot(w)
  <2>1. Doing("job", "load").step # "store"
    BY DEF Doing, Process
  <2>2. PICK r : r = Doing("job", "load") /\ r.step # "store"
    BY <2>1
  <2>3. Writes(w, r) /\ UNCHANGED <<scans, episodes, used, written, late>>
    BY <1>7, <2>2 DEF RegisterSnapshot
  <2>4. GoesOn(w, r)
    BY <1>1, <2>3, PutsOn DEF DateInv
  <2> QED BY <1>1, <2>2, <2>3, <2>4, QuietTells
<1>8. CASE Loads(w)
  BY <1>1, <1>8, LoadTells, PairTells DEF Loads
<1>9. CASE LoadFails(w) \/ Die(w)
  <2>1. Idle.step # "store"
    BY DEF Idle, Process
  <2>2. PICK r : r = Idle /\ r.step # "store"
    BY <2>1
  <2>3. /\ proc' = [proc EXCEPT ![w] = r] /\ UNCHANGED <<scans, episodes, used, written, late>>
    BY <1>9, <2>2 DEF LoadFails, Die, Tables
  <2>4. GoesOn(w, r)
    BY <1>1, <2>3, PutsOn DEF DateInv
  <2> QED BY <1>1, <2>2, <2>3, <2>4, QuietTells
<1>10. CASE StoreNext(w)
  BY <1>1, <1>10, StoreTells
<1>11. CASE MigrateNext(w)
  <2>1. PICK q : q = proc[w]
    OBVIOUS
  <2>2. PICK r : r = IF q.todo = <<>> \/ file[Head(q.todo)] = Torn THEN Idle
                     ELSE Process(q.kind, "truncate", file[Head(q.todo)], Head(q.todo), Tail(q.todo))
    OBVIOUS
  <2>3. r.step # "store"
    BY <2>2 DEF Idle, Process
  <2>4. /\ proc' = [proc EXCEPT ![w] = r] /\ UNCHANGED <<scans, episodes, used, written, late>>
    BY <1>11, <2>1, <2>2 DEF MigrateNext, Tables
  <2>5. GoesOn(w, r)
    BY <1>1, <2>4, PutsOn DEF DateInv
  <2> QED BY <1>1, <2>3, <2>4, <2>5, QuietTells
<1> QED BY <1>2, <1>3, <1>4, <1>5, <1>6, <1>7, <1>8, <1>9, <1>10, <1>11

LEMMA EpisodesTell == DateInv /\ EpisodesInv => EpisodesStayTrue
<1>1. SUFFICES ASSUME DateInv, EpisodesInv, NEW p \in Policies,
                      used = {p}, late = {}, Lost = {}, ~IsTorn, NEW e \in episodes
               PROVE  e \in EpisodesOf(PolicyAt[p], Loaded, Timeline(PolicyAt[p], Loaded))
  BY DEF EpisodesStayTrue
<1>2. written \subseteq Kept
  BY <1>1 DEF Lost
<1>3. AllApart
  <2>1. SUFFICES ASSUME NEW second, DatedBy(second), NEW x \in written, NEW y \in written,
                        second[x] = second[y]
                 PROVE  x = y
    BY DEF AllApart
  <2>2. PICK s \in Seconds : file[s] = x
    BY <1>2 DEF Kept
  <2>3. PICK t \in Seconds : file[t] = y
    BY <1>2 DEF Kept
  <2>4. x \in Snapshots /\ y \in Snapshots
    BY <1>1 DEF DateInv, Typed
  <2>5. second[x] = s /\ second[y] = t
    BY <2>1, <2>2, <2>3, <2>4 DEF DatedBy
  <2> QED BY <2>1, <2>2, <2>3, <2>5
<1>4. Kept = written
  BY <1>1, <1>3, AllAreKept
<1>5. InStep(p)
  BY <1>1, <1>3 DEF InStep
<1>6. IsEpisode(p, e)
  BY <1>1, <1>5 DEF EpisodesInv
<1>7. Loaded = Sorted(written)
  BY <1>4 DEF Loaded
<1> QED BY <1>6, <1>7 DEF IsEpisode

\* Under one policy, and as long as no file is late, torn or overwritten, each
\* stored episode is one of the timeline of all files, although none is ever
\* deleted, runs die between two statements, and others store what they computed
\* before a file was there.
THEOREM EpisodesNeverGoStale == Spec => []EpisodesStayTrue
<1>1. Init => EpisodesInv
  <2>1. SUFFICES ASSUME Init PROVE EpisodesInv
    OBVIOUS
  <2>2. episodes = {} /\ \A w \in Workers : proc[w].step = "idle"
    BY <2>1 DEF Init, Idle, Process
  <2> QED BY <2>2 DEF EpisodesInv, TodoTold
<1>2. DateInv /\ EpisodesInv /\ [Next]_vars => (DateInv /\ EpisodesInv)'
  BY DatesStep, EpisodesStep
<1> QED BY <1>1, <1>2, DateInit, EpisodesTell, PTL DEF Spec

(***************************************************************************)
(* The order of statements                                                 *)
(***************************************************************************)
\* The same finding, told by a later transition.
After(s, t) ==
    /\ s.table = "findings" /\ t.table = "findings" /\ s.key = t.key
    /\ s.row.run[1] < t.row.run[1]

\* A run is stored before its findings, and an earlier transition before a later one.
Introduced(todo, known) ==
    \A a \in 1 .. Len(todo) : todo[a].table = "findings" =>
        \/ todo[a].row.run \in known
        \/ \E b \in 1 .. Len(todo) : b < a /\ todo[b].table = "runs" /\ todo[b].key = todo[a].row.run
Arranged(todo) == \A a, b \in 1 .. Len(todo) : After(todo[a], todo[b]) => a < b
Proper(todo) == Introduced(todo, {}) /\ Arranged(todo)

LEMMA ProperBoth ==
    ASSUME NEW S, NEW T, NEW s \in Seq(S), NEW t \in Seq(T), Proper(s), Proper(t),
           \A x \in S, y \in T : ~After(y, x)
    PROVE  Proper(s \o t)
<1>1. PICK m, n, u : m = Len(s) /\ n = Len(t) /\ u = s \o t
  OBVIOUS
<1>2. /\ m \in Nat /\ n \in Nat /\ Len(u) = m + n
      /\ \A i \in 1 .. m : u[i] = s[i]
      /\ \A i \in 1 .. n : u[m + i] = t[i]
  <2>1. PICK both : both = S \cup T
    OBVIOUS
  <2>2. s \in Seq(both) /\ t \in Seq(both)
    BY <2>1
  <2> QED BY <1>1, <2>2, BothTell
<1>3. (\A i \in 1 .. m : s[i] \in S) /\ \A i \in 1 .. n : t[i] \in T
  BY <1>1
<1>4. ASSUME NEW a \in 1 .. m + n
      PROVE  (a \in 1 .. m /\ u[a] = s[a]) \/ (a - m \in 1 .. n /\ u[a] = t[a - m] /\ a > m)
  <2>1. CASE a \in 1 .. m
    BY <1>2, <2>1
  <2>2. CASE a \notin 1 .. m
    <3>1. a - m \in 1 .. n /\ m + (a - m) = a /\ a > m
      BY <1>2, <2>2
    <3> QED BY <1>2, <3>1
  <2> QED BY <2>1, <2>2
<1>5. Introduced(u, {})
  <2>1. SUFFICES ASSUME NEW a \in 1 .. m + n, u[a].table = "findings"
                 PROVE  \E b \in 1 .. m + n : b < a /\ u[b].table = "runs" /\ u[b].key = u[a].row.run
    BY <1>2 DEF Introduced
  <2>2. CASE a \in 1 .. m /\ u[a] = s[a]
    <3>1. PICK b \in 1 .. m : b < a /\ s[b].table = "runs" /\ s[b].key = s[a].row.run
      BY <1>1, <2>1, <2>2 DEF Proper, Introduced
    <3>2. b \in 1 .. m + n /\ u[b] = s[b]
      BY <1>2
    <3> QED BY <2>2, <3>1, <3>2
  <2>3. CASE a - m \in 1 .. n /\ u[a] = t[a - m]
    <3>1. PICK b \in 1 .. n : b < a - m /\ t[b].table = "runs" /\ t[b].key = t[a - m].row.run
      BY <1>1, <2>1, <2>3 DEF Proper, Introduced
    <3>2. m + b \in 1 .. m + n /\ u[m + b] = t[b] /\ m + b < a
      BY <1>2, <3>1
    <3> QED BY <2>3, <3>1, <3>2
  <2> QED BY <1>4, <2>2, <2>3
<1>6. Arranged(u)
  <2>1. SUFFICES ASSUME NEW a \in 1 .. m + n, NEW b \in 1 .. m + n, After(u[a], u[b]) PROVE a < b
    BY <1>2 DEF Arranged
  <2>2. CASE a \in 1 .. m /\ u[a] = s[a] /\ b \in 1 .. m /\ u[b] = s[b]
    BY <1>1, <2>1, <2>2 DEF Proper, Arranged
  <2>3. CASE a \in 1 .. m /\ b > m
    BY <1>2, <2>3
  <2>4. CASE a - m \in 1 .. n /\ u[a] = t[a - m] /\ b \in 1 .. m /\ u[b] = s[b]
    BY <1>3, <2>1, <2>4
  <2>5. CASE a - m \in 1 .. n /\ u[a] = t[a - m] /\ b - m \in 1 .. n /\ u[b] = t[b - m]
    <3>1. a - m < b - m
      BY <1>1, <2>1, <2>5 DEF Proper, Arranged
    <3> QED BY <1>2, <3>1
  <2> QED BY <1>4, <2>2, <2>3, <2>4, <2>5
<1> QED BY <1>1, <1>5, <1>6 DEF Proper

\* What holds no finding is proper.
LEMMA ProperWithout ==
    ASSUME NEW S, NEW s \in Seq(S), \A x \in S : x.table # "findings"
    PROVE  Proper(s)
<1>1. \A a \in 1 .. Len(s) : s[a].table # "findings"
  OBVIOUS
<1> QED BY <1>1 DEF Proper, Introduced, Arranged, After

Piles(seqs, n, f) == f[1] = seqs[1] /\ \A k \in 2 .. n : f[k] = f[k - 1] \o seqs[k]

LEMMA FlattenIs ==
    ASSUME NEW n \in Nat, n # 0, NEW seqs, seqs = [k \in 1 .. n |-> seqs[k]]
    PROVE  \E f : FlattenSeq(seqs) = f[n] /\ Piles(seqs, n, f)
<1>1. seqs \in Seq({seqs[k] : k \in 1 .. n}) /\ Len(seqs) = n
  <2>1. seqs \in [1 .. n -> {seqs[k] : k \in 1 .. n}]
    OBVIOUS
  <2> QED BY <2>1
<1>2. PICK f : f = CHOOSE g : Joins(seqs, n, g)
  OBVIOUS
<1>3. Joins(seqs, n, f)
  BY <1>2, JoinsExist
<1>4. FlattenSeq(seqs) = f[n]
  BY <1>1, <1>2 DEF FlattenSeq, Joins
<1>5. Piles(seqs, n, f)
  <2>1. \A i \in 1 .. n : f[i] = IF i = 1 THEN seqs[i] ELSE f[i - 1] \o seqs[i]
    BY <1>3 DEF Joins
  <2>2. 1 \in 1 .. n /\ \A k \in 2 .. n : k \in 1 .. n /\ k # 1
    OBVIOUS
  <2> QED BY <2>1, <2>2 DEF Piles
<1> QED BY <1>4, <1>5

LEMMA ProperFlat ==
    ASSUME NEW n \in Nat, NEW seqs, NEW sets, seqs = [k \in 1 .. n |-> seqs[k]],
           \A k \in 1 .. n : seqs[k] \in Seq(sets[k]) /\ Proper(seqs[k]),
           \A j, k \in 1 .. n : j < k => \A x \in sets[j], y \in sets[k] : ~After(y, x)
    PROVE  Proper(FlattenSeq(seqs))
<1>1. CASE n = 0
  <2>1. seqs \in Seq({}) /\ Len(seqs) = 0
    <3>1. seqs = <<>>
      BY <1>1
    <3> QED BY <3>1
  <2>2. FlattenSeq(seqs) = <<>>
    BY <2>1 DEF FlattenSeq
  <2>3. 1 .. Len(<<>>) = {}
    OBVIOUS
  <2> QED BY <2>2, <2>3 DEF Proper, Introduced, Arranged
<1>2. CASE n # 0
  <2>0. PICK f : FlattenSeq(seqs) = f[n] /\ Piles(seqs, n, f)
    BY <1>2, FlattenIs
  <2>1. /\ FlattenSeq(seqs) = f[n] /\ f[1] = seqs[1]
        /\ \A k \in 2 .. n : f[k] = f[k - 1] \o seqs[k]
    BY <2>0 DEF Piles
  <2>2. PICK upTo : upTo = [m \in 1 .. n |-> UNION {sets[k] : k \in 1 .. m}]
    OBVIOUS
  <2>3. PICK Q : Q = {m \in Nat : m + 1 \in 1 .. n => f[m + 1] \in Seq(upTo[m + 1]) /\ Proper(f[m + 1])}
    OBVIOUS
  <2>4. 0 \in Q
    <3>1. 1 \in 1 .. n /\ f[1] \in Seq(sets[1]) /\ Proper(f[1])
      BY <1>2, <2>1
    <3>2. sets[1] \subseteq upTo[1]
      BY <2>2, <3>1
    <3>3. f[1] \in Seq(upTo[1])
      BY <3>1, <3>2
    <3> QED BY <2>3, <3>1, <3>3
  <2>5. ASSUME NEW m \in Nat, m \in Q PROVE m + 1 \in Q
    <3>1. SUFFICES ASSUME m + 2 \in 1 .. n PROVE f[m + 2] \in Seq(upTo[m + 2]) /\ Proper(f[m + 2])
      BY <2>3
    <3>2. PICK j, k : j = m + 1 /\ k = m + 2
      OBVIOUS
    <3>3. j \in 1 .. n /\ k \in 2 .. n /\ k \in 1 .. n /\ k - 1 = j /\ j < k
      BY <3>1, <3>2
    <3>4. f[j] \in Seq(upTo[j]) /\ Proper(f[j])
      BY <2>3, <2>5, <3>2, <3>3
    <3>5. seqs[k] \in Seq(sets[k]) /\ Proper(seqs[k])
      BY <3>3
    <3>6. f[k] = f[j] \o seqs[k]
      BY <2>1, <3>3
    <3>7. ASSUME NEW x \in upTo[j], NEW y \in sets[k] PROVE ~After(y, x)
      <4>1. PICK i \in 1 .. j : x \in sets[i]
        BY <2>2, <3>3, <3>7
      <4>2. i \in 1 .. n /\ i < k
        BY <3>3, <4>1
      <4> QED BY <3>3, <4>1, <4>2
    <3>8. Proper(f[k])
      BY <3>4, <3>5, <3>6, <3>7, ProperBoth
    <3>9. upTo[j] \subseteq upTo[k] /\ sets[k] \subseteq upTo[k]
      <4>1. 1 .. j \subseteq 1 .. k /\ k \in 1 .. k
        BY <3>3
      <4> QED BY <2>2, <3>3, <4>1
    <3>10. f[k] \in Seq(upTo[k])
      <4>1. f[j] \in Seq(upTo[k]) /\ seqs[k] \in Seq(upTo[k])
        BY <3>4, <3>5, <3>9
      <4> QED BY <3>6, <4>1, BothTell
    <3> QED BY <3>2, <3>8, <3>10
  <2>6. n - 1 \in Nat /\ n - 1 \in Q /\ (n - 1) + 1 = n
    BY <1>2, <2>4, <2>5, CountUp
  <2> QED BY <1>2, <2>1, <2>3, <2>6
<1> QED BY <1>1, <1>2

LEMMA StatementsAre ==
    /\ \A run, report : Totals(run, report).table = "runs" /\ Totals(run, report).key = run
    /\ \A run, f : /\ Inserted(run, f).table = "findings" /\ Inserted(run, f).key = Key(f)
                   /\ Inserted(run, f).row = [run |-> run, score |-> f.score, state |-> f.state]
                   /\ Inserted(run, f).row.run = run /\ Inserted(run, f).row.score = f.score
    /\ \A table, key, row : Statement(table, key, row).table = table
BY DEF Totals, Inserted, Statement

\* The findings of a report.
LEMMA OfReportTells ==
    ASSUME NEW run, NEW report, NEW st \in OfReport(run, report)
    PROVE  /\ st.table \in {"runs", "findings"}
           /\ st.table = "runs" => st.key = run
           /\ st.table = "findings" => st.row.run = run
<1>1. CASE st = Totals(run, report)
  BY <1>1, StatementsAre
<1>2. CASE \E f : st = Inserted(run, f)
  <2>1. PICK f : st = Inserted(run, f)
    BY <1>2
  <2> QED BY <2>1, StatementsAre
<1> QED BY <1>1, <1>2 DEF OfReport

LEMMA ReportIsProper ==
    ASSUME NEW run, run[1] \in Int, NEW report, IsFiniteSet(All(report))
    PROVE  Proper(ReportStatements(run, report))
<1>1. PICK s, S : s = ReportStatements(run, report) /\ S = OfReport(run, report)
  OBVIOUS
<1>2. Lists(s, S) /\ s[1] = Totals(run, report)
  BY <1>1, ReportIsListed
<1>3. s \in Seq(S) /\ Len(s) \in Nat
  BY <1>2 DEF Lists
<1>4. ASSUME NEW a \in 1 .. Len(s) PROVE s[a] \in S
  BY <1>3
<1>5. Introduced(s, {})
  <2>1. SUFFICES ASSUME NEW a \in 1 .. Len(s), s[a].table = "findings"
                 PROVE  \E b \in 1 .. Len(s) : b < a /\ s[b].table = "runs" /\ s[b].key = s[a].row.run
    BY DEF Introduced
  <2>2. s[a].row.run = run
    BY <1>1, <1>4, <2>1, OfReportTells
  <2>3. s[1].table = "runs" /\ s[1].key = run
    BY <1>2, StatementsAre
  <2>4. 1 \in 1 .. Len(s) /\ (a = 1 \/ 1 < a)
    BY <1>3
  <2> QED BY <2>1, <2>2, <2>3, <2>4
<1>6. Arranged(s)
  <2>1. SUFFICES ASSUME NEW a \in 1 .. Len(s), NEW b \in 1 .. Len(s), After(s[a], s[b]) PROVE FALSE
    BY DEF Arranged
  <2>2. s[a].row.run = run /\ s[b].row.run = run
    BY <1>1, <1>4, <2>1, OfReportTells DEF After
  <2>3. run[1] < run[1]
    BY <2>1, <2>2 DEF After
  <2> QED BY <2>3
<1> QED BY <1>1, <1>5, <1>6 DEF Proper

\* What a run has to store is in order.
LEMMA WholeIsProper ==
    ASSUME Typed, NEW kind, NEW p, Loaded # <<>>
    PROVE  Proper(StatementsOf(kind, p, Loaded, Timeline(p, Loaded)))
<1>1. PICK reports, n : reports = Timeline(p, Loaded) /\ n = Len(Loaded) - 1
  OBVIOUS
<1>2. /\ n \in Nat /\ DOMAIN reports = 1 .. n
      /\ \A k \in 1 .. n : IsFiniteSet(All(reports[k]))
      /\ \A k \in 1 .. n : Loaded[k] \in Int
      /\ \A j, k \in 1 .. n : j < k => Loaded[j] < Loaded[k]
  <2>1. n \in Nat /\ DOMAIN reports = 1 .. n
    BY <1>1, ReportsAre
  <2>2. \A k \in 1 .. n : IsFiniteSet(All(reports[k])) /\ Loaded[k] \in Kept
    BY <1>1, ReportsAre
  <2>3. Kept \subseteq Int
    BY LoadedTells DEF Snapshots
  <2>4. Len(Loaded) \in Nat /\ \A j, k \in 1 .. Len(Loaded) : j < k => Loaded[j] < Loaded[k]
    BY LoadedTells
  <2>5. \A k \in 1 .. n : k \in 1 .. Len(Loaded)
    BY <1>1, <2>4
  <2> QED BY <2>1, <2>2, <2>3, <2>4, <2>5
<1>3. PICK run : run = [k \in 1 .. n |-> RunOf(Loaded, k)]
  OBVIOUS
<1>4. \A k \in 1 .. n : run[k][1] = Loaded[k] /\ run[k] = RunOf(Loaded, k)
  BY <1>3 DEF RunOf
<1>5. Proper(TimelineStatements(Loaded, reports))
  <2>1. PICK seqs, sets : /\ seqs = [k \in 1 .. n |-> ReportStatements(run[k], reports[k])]
                          /\ sets = [k \in 1 .. n |-> OfReport(run[k], reports[k])]
    OBVIOUS
  <2>2. ASSUME NEW k \in 1 .. n PROVE seqs[k] \in Seq(sets[k]) /\ Proper(seqs[k])
    <3>1. Lists(ReportStatements(run[k], reports[k]), OfReport(run[k], reports[k]))
      BY <1>2, ReportIsListed
    <3>2. Proper(ReportStatements(run[k], reports[k]))
      BY <1>2, <1>4, ReportIsProper
    <3> QED BY <2>1, <3>1, <3>2 DEF Lists
  <2>3. ASSUME NEW j \in 1 .. n, NEW k \in 1 .. n, j < k, NEW x \in sets[j], NEW y \in sets[k]
        PROVE  ~After(y, x)
    <3>1. SUFFICES ASSUME After(y, x) PROVE FALSE
      OBVIOUS
    <3>2. x.row.run = run[j] /\ y.row.run = run[k]
      BY <2>1, <3>1, OfReportTells DEF After
    <3>3. Loaded[k] < Loaded[j]
      BY <1>4, <3>1, <3>2 DEF After
    <3>4. Loaded[j] < Loaded[k] /\ Loaded[j] \in Int /\ Loaded[k] \in Int
      BY <1>2, <2>3
    <3> QED BY <3>3, <3>4
  <2>4. seqs = [k \in 1 .. n |-> seqs[k]]
    BY <2>1
  <2>5. Proper(FlattenSeq(seqs))
    BY <1>2, <2>2, <2>3, <2>4, ProperFlat
  <2>6. seqs = [k \in 1 .. n |-> ReportStatements(RunOf(Loaded, k), reports[k])]
    BY <1>4, <2>1
  <2> QED BY <1>2, <2>5, <2>6 DEF TimelineStatements
<1>6. PICK snapshots, timeline, others :
         /\ snapshots = IF kind = "rebuild" THEN SnapshotStatements ELSE <<>>
         /\ timeline = IF kind = "episodes" THEN <<>> ELSE TimelineStatements(Loaded, reports)
         /\ others = EpisodeStatements(p, Loaded, reports)
  OBVIOUS
<1>7. PICK first, second, third :
         /\ first = {Statement("snapshots", SecondOf(x), x) : x \in Kept}
         /\ second = OfReports(reports)
         /\ third = {Statement("episodes", e.id, e) : e \in EpisodesOf(p, Loaded, reports)}
  OBVIOUS
<1>8. snapshots \in Seq(first) /\ timeline \in Seq(second) /\ others \in Seq(third)
  <2>1. /\ Lists(SnapshotStatements, first) /\ Lists(TimelineStatements(Loaded, reports), second)
        /\ Lists(EpisodeStatements(p, Loaded, reports), third)
    BY <1>1, <1>7, PartsAreListed
  <2> QED BY <1>6, <2>1 DEF Lists
<1>9. (\A x \in first : x.table # "findings") /\ \A x \in third : x.table # "findings"
  BY <1>7, StatementsAre
<1>10. Proper(<<>>)
  <2>1. 1 .. Len(<<>>) = {}
    OBVIOUS
  <2> QED BY <2>1 DEF Proper, Introduced, Arranged
<1>11. Proper(snapshots) /\ Proper(timeline) /\ Proper(others)
  <2>1. Proper(snapshots) /\ Proper(others)
    BY <1>8, <1>9, ProperWithout
  <2> QED BY <1>5, <1>6, <1>10, <2>1
<1>12. Proper(snapshots \o timeline) /\ snapshots \o timeline \in Seq(first \cup second)
  <2>1. \A x \in first, y \in second : ~After(y, x)
    BY <1>9 DEF After
  <2>2. Proper(snapshots \o timeline)
    BY <1>8, <1>11, <2>1, ProperBoth
  <2>3. snapshots \in Seq(first \cup second) /\ timeline \in Seq(first \cup second)
    BY <1>8
  <2> QED BY <2>2, <2>3, BothTell
<1>13. Proper((snapshots \o timeline) \o others)
  <2>1. \A x \in first \cup second, y \in third : ~After(y, x)
    BY <1>9 DEF After
  <2> QED BY <1>8, <1>11, <1>12, <2>1, ProperBoth
<1> QED BY <1>1, <1>6, <1>13 DEF StatementsOf

(***************************************************************************)
(* Scores                                                                  *)
(***************************************************************************)
\* What recurring adds to a score.
Bonus(times) == IF times = 0 THEN 0 ELSE IF times = 1 THEN 10 ELSE 20

LEMMA AdjustedIsScored ==
    ASSUME NEW p, NEW f, IsMade(f), f.score \in Nat
    PROVE  Adjusted(p, f).score \in Nat
<1>1. PICK c, r, v, n, t : f = Made(c, r, v, n, t) /\ n \in Nat
  BY DEF IsMade
<1>2. Adjusted(p, f) = f \/ Adjusted(p, f).score = IF n > 15 THEN n - 15 ELSE 0
  BY <1>1 DEF Adjusted, A!Adjusted, Made
<1>3. (IF n > 15 THEN n - 15 ELSE 0) \in Nat
  BY <1>1
<1> QED BY <1>2, <1>3

LEMMA RecurredIsScored ==
    ASSUME NEW p, NEW f, IsMade(f), NEW times
    PROVE  Recurred(p, f, times).score = f.score + Bonus(times) \/ (times = 0 /\ Recurred(p, f, times) = f)
<1>1. PICK c, r, v, n, t : f = Made(c, r, v, n, t)
  BY DEF IsMade
<1>2. CASE times = 0
  BY <1>2 DEF Recurred, A!Recurred
<1>3. CASE times = 1
  <2>1. Recurred(p, f, times) = [f EXCEPT !.state = "recurring", !.score = f.score + 10]
    BY <1>3 DEF Recurred, A!Recurred, IsMade, Made
  <2>2. Recurred(p, f, times).score = f.score + 10
    BY <1>1, <2>1 DEF Made
  <2> QED BY <1>3, <2>2 DEF Bonus
<1>4. CASE times # 0 /\ times # 1
  <2>1. Recurred(p, f, times) = [f EXCEPT !.state = "persistent", !.score = f.score + 20]
    BY <1>4 DEF Recurred, A!Recurred, IsMade, Made
  <2>2. Recurred(p, f, times).score = f.score + 20
    BY <1>1, <2>1 DEF Made
  <2> QED BY <1>4, <2>2 DEF Bonus
<1> QED BY <1>2, <1>3, <1>4

\* The score of a finding that the policy lets through, or holds back.
LEMMA ScoreIs ==
    ASSUME NEW p, NEW f, IsMade(f), f.score \in Nat, NEW time, NEW seen, seen[Key(f)] \in Nat,
           NEW g, Becomes(p, f, time, seen, g)
    PROVE  /\ Suppresses(p, f, time) => g.score = Adjusted(p, f).score
           /\ ~Suppresses(p, f, time) => g.score = Adjusted(p, f).score + Bonus(seen[Key(f)])
<1>1. PICK b : b = Adjusted(p, f)
  OBVIOUS
<1>2. IsMade(b) /\ b.category = f.category /\ b.resource = f.resource /\ b.score \in Nat
  BY <1>1, AdjustedTells, AdjustedIsScored
<1>3. Key(b) = Key(f) /\ (Suppresses(p, b, time) <=> Suppresses(p, f, time))
  BY <1>2 DEF Key, A!Key, Suppresses, A!Suppresses
<1>4. [b EXCEPT !.state = "suppressed"].score = b.score
  <2>1. PICK c, r, v, n, t : b = Made(c, r, v, n, t)
    BY <1>2 DEF IsMade
  <2> QED BY <2>1 DEF Made
<1>5. PICK times : times = seen[Key(f)] /\ times \in Nat
  OBVIOUS
<1>6. Recurred(p, b, times).score = b.score + Bonus(times)
  <2>1. times = 0 => b.score = b.score + Bonus(times)
    BY <1>2 DEF Bonus
  <2> QED BY <1>2, <2>1, RecurredIsScored
<1>7. CASE Suppresses(p, f, time)
  BY <1>1, <1>3, <1>4, <1>7 DEF Becomes
<1>8. CASE ~Suppresses(p, f, time)
  BY <1>1, <1>3, <1>5, <1>6, <1>8 DEF Becomes
<1> QED BY <1>7, <1>8

\* A finding that is reported later, when it has been active as often or more,
\* scores no less: exceptions end, and what recurred goes on to.
LEMMA ScoreRises ==
    ASSUME NEW p, \A x \in p.exceptions : x.expires \in Int, NEW f, IsMade(f), f.score \in Nat,
           NEW before \in Int, NEW time \in Int, before <= time, NEW past, NEW seen,
           past[Key(f)] \in Nat, seen[Key(f)] \in Nat, past[Key(f)] <= seen[Key(f)],
           NEW g, NEW h, Becomes(p, f, before, past, g), Becomes(p, f, time, seen, h)
    PROVE  g.score \in Nat /\ h.score \in Nat /\ g.score <= h.score
<1>1. PICK n \in Nat : n = Adjusted(p, f).score
  BY AdjustedIsScored
<1>2. PICK i \in Nat, j \in Nat : i = past[Key(f)] /\ j = seen[Key(f)] /\ i <= j
  OBVIOUS
<1>3. Suppresses(p, f, time) => Suppresses(p, f, before)
  BY DEF Suppresses, A!Suppresses
<1>4. Bonus(i) \in Nat /\ Bonus(j) \in Nat /\ Bonus(i) <= Bonus(j)
  BY <1>2 DEF Bonus
<1>5. g.score = n \/ g.score = n + Bonus(i)
  BY <1>1, <1>2, ScoreIs
<1>6. (Suppresses(p, f, time) /\ h.score = n) \/ (~Suppresses(p, f, time) /\ h.score = n + Bonus(j))
  BY <1>1, <1>2, ScoreIs
<1>7. CASE Suppresses(p, f, time)
  <2>1. g.score = n
    BY <1>1, <1>3, <1>7, ScoreIs
  <2> QED BY <1>6, <1>7, <2>1
<1>8. CASE ~Suppresses(p, f, time)
  <2>1. h.score = n + Bonus(j)
    BY <1>6, <1>8
  <2> QED BY <1>4, <1>5, <2>1
<1> QED BY <1>7, <1>8

\* How often a finding has been active does not fall along a timeline.
Climbs(T, n, key) ==
    \A j, k \in 1 .. n : j <= k => T[j].seen[key] \in Nat /\ T[k].seen[key] \in Nat /\ T[j].seen[key] <= T[k].seen[key]

LEMMA CountsClimb ==
    ASSUME NEW T, NEW n \in Nat, NEW key, T[1].seen[key] = 0,
           \A k \in 2 .. n : \E more \in Nat : T[k].seen[key] = T[k - 1].seen[key] + more
    PROVE  Climbs(T, n, key)
<1>1. PICK Q : Q = {m \in Nat : m <= n => Climbs(T, m, key)}
  OBVIOUS
<1>2. 0 \in Q
  BY <1>1 DEF Climbs
<1>3. ASSUME NEW m \in Nat, m \in Q PROVE m + 1 \in Q
  <2>1. SUFFICES ASSUME m + 1 <= n PROVE Climbs(T, m + 1, key)
    BY <1>1
  <2>2. Climbs(T, m, key)
    BY <1>1, <1>3, <2>1
  <2>3. CASE m = 0
    BY <2>3 DEF Climbs
  <2>4. CASE m # 0
    <3>1. m + 1 \in 2 .. n /\ (m + 1) - 1 = m /\ m \in 1 .. m
      BY <2>1, <2>4
    <3>2. PICK more \in Nat : T[m + 1].seen[key] = T[m].seen[key] + more
      BY <3>1
    <3>3. PICK x \in Nat, y \in Nat : x = T[m].seen[key] /\ y = T[m + 1].seen[key] /\ x <= y
      BY <2>2, <3>1, <3>2 DEF Climbs
    <3>4. ASSUME NEW j \in 1 .. m + 1, NEW k \in 1 .. m + 1, j <= k
          PROVE  T[j].seen[key] \in Nat /\ T[k].seen[key] \in Nat /\ T[j].seen[key] <= T[k].seen[key]
      <4>1. CASE k \in 1 .. m
        <5>1. j \in 1 .. m
          BY <3>4, <4>1
        <5> QED BY <2>2, <3>4, <4>1, <5>1 DEF Climbs
      <4>2. CASE k = m + 1 /\ j = m + 1
        BY <3>3, <4>2
      <4>3. CASE k = m + 1 /\ j \in 1 .. m
        <5>1. T[j].seen[key] \in Nat /\ T[j].seen[key] <= T[m].seen[key]
          BY <2>2, <3>1, <4>3 DEF Climbs
        <5> QED BY <3>3, <4>3, <5>1
      <4> QED BY <4>1, <4>2, <4>3
    <3> QED BY <3>4 DEF Climbs
  <2> QED BY <2>3, <2>4
<1>4. n \in Q
  BY <1>2, <1>3, CountUp
<1> QED BY <1>1, <1>4

LEMMA SeenClimbs ==
    ASSUME Typed, NEW p, Loaded # <<>>, NEW key \in Keys
    PROVE  Climbs(Timelines(p, Loaded), Len(Loaded), key)
<1>1. PICK ids, n : ids = Loaded /\ n = Len(ids)
  OBVIOUS
<1>2. n \in Nat /\ n # 0 /\ \A k \in 1 .. n : ids[k] \in Snapshots
  BY <1>1, LoadedTells
<1>3. PICK T : T = Timelines(p, ids)
  OBVIOUS
<1>4. Builds(p, ids, n, T)
  BY <1>1, <1>2, <1>3, TimelinesAre
<1>5. T[1].seen[key] = 0
  <2>1. T[1] = Blank
    BY <1>2, <1>4 DEF Builds
  <2> QED BY <2>1 DEF Blank, Unseen
<1>6. ASSUME NEW k \in 2 .. n PROVE \E more \in Nat : T[k].seen[key] = T[k - 1].seen[key] + more
  <2>1. k \in 1 .. n /\ k # 1 /\ k - 1 \in 1 .. n
    BY <1>2
  <2>2. PICK report : report = Compared(p, ids[k - 1], ids[k], T[k - 1].seen)
    OBVIOUS
  <2>3. T[k] = Extended(T[k - 1], report)
    BY <1>4, <2>1, <2>2 DEF Builds
  <2>4. T[k].seen[key] = T[k - 1].seen[key] + Cardinality({f \in report.active : Key(f) = key})
    BY <2>3 DEF Extended
  <2>5. report = ReportOf(p, scans[ids[k - 1]], scans[ids[k]], ids[k], T[k - 1].seen)
    BY <2>2 DEF Compared, ReportOf
  <2>6. scans[ids[k - 1]] \in AllScans /\ scans[ids[k]] \in AllScans
    BY <1>2, <2>1 DEF Typed, Snapshots
  <2>7. IsFiniteSet(All(report))
    BY <2>5, <2>6, ReportIsFinite
  <2>8. {f \in report.active : Key(f) = key} \subseteq All(report)
    BY DEF All
  <2>9. Cardinality({f \in report.active : Key(f) = key}) \in Nat
    BY <2>7, <2>8, FS_Subset, FS_CardinalityType
  <2> QED BY <2>4, <2>9
<1>7. Climbs(T, n, key)
  BY <1>2, <1>5, <1>6, CountsClimb
<1> QED BY <1>1, <1>3, <1>7

\* Of two reports of a finding in the timeline of the files, the later has no lower score.
LEMMA ScoresRise ==
    ASSUME Typed, NEW policy \in Policies, NEW p, p = PolicyAt[policy], Loaded # <<>>,
           NEW j \in DOMAIN Timeline(p, Loaded), NEW k \in DOMAIN Timeline(p, Loaded), j <= k,
           NEW g \in All(Timeline(p, Loaded)[j]), NEW h \in All(Timeline(p, Loaded)[k]), Key(g) = Key(h)
    PROVE  g.score \in Nat /\ h.score \in Nat /\ g.score <= h.score
<1>1. PICK ids, n : ids = Loaded /\ n = Len(ids)
  OBVIOUS
<1>2. /\ n \in Nat /\ n # 0 /\ \A i \in 1 .. n : ids[i] \in Snapshots
      /\ \A i, m \in 1 .. n : i < m => ids[i] < ids[m]
  BY <1>1, LoadedTells
<1>3. PICK T : T = Timelines(p, ids)
  OBVIOUS
<1>4. Timeline(p, ids) = [i \in 1 .. n - 1 |-> Compared(p, ids[i], ids[i + 1], T[i].seen)]
  <2>1. Len(ids) = n
    BY <1>1
  <2>2. Timeline(p, ids) = [i \in 1 .. n - 1 |-> Compared(p, ids[i], ids[i + 1], Timelines(p, ids)[i].seen)]
    BY <1>2, <2>1, TimelineTells
  <2> QED BY <1>3, <2>2
<1>5. j \in 1 .. n - 1 /\ k \in 1 .. n - 1
  BY <1>1, <1>4
<1>6. \A i \in 1 .. n - 1 :
        Timeline(p, ids)[i] = ReportOf(p, scans[ids[i]], scans[ids[i + 1]], ids[i + 1], T[i].seen)
  BY <1>4 DEF Compared, ReportOf
<1>7. PICK f \in Found(p, scans[ids[j]], scans[ids[j + 1]]) : Becomes(p, f, ids[j + 1], T[j].seen, g)
  BY <1>1, <1>5, <1>6, ReportIs
<1>8. PICK e \in Found(p, scans[ids[k]], scans[ids[k + 1]]) : Becomes(p, e, ids[k + 1], T[k].seen, h)
  BY <1>1, <1>5, <1>6, ReportIs
<1>9. /\ IsMade(f) /\ f = Told(p, f.category, f.resource) /\ f.score \in Nat
      /\ IsMade(e) /\ e = Told(p, e.category, e.resource) /\ e.score \in Nat
      /\ Calls(f.category, f.resource, scans[ids[j]], scans[ids[j + 1]])
  BY <1>7, <1>8, FoundTells
<1>10. /\ g.category = f.category /\ g.resource = f.resource
       /\ h.category = e.category /\ h.resource = e.resource
  BY <1>7, <1>8, <1>9, BecomesTells
<1>11. f = e
  BY <1>9, <1>10 DEF Key, A!Key
<1>12. /\ j \in 1 .. n /\ j + 1 \in 1 .. n /\ k \in 1 .. n /\ k + 1 \in 1 .. n
  BY <1>2, <1>5
<1>13. ids[j + 1] \in Int /\ ids[k + 1] \in Int /\ ids[j + 1] <= ids[k + 1]
  <2>1. ids[j + 1] \in Nat /\ ids[k + 1] \in Nat
    BY <1>2, <1>12 DEF Snapshots
  <2>2. j = k \/ j + 1 < k + 1
    BY <1>5
  <2> QED BY <1>2, <1>12, <2>1, <2>2
<1>14. Key(f) \in Keys
  <2>1. scans[ids[j]] \in AllScans /\ scans[ids[j + 1]] \in AllScans
    BY <1>2, <1>12 DEF Typed, Snapshots
  <2>2. Key(f) \in Categories \X Resources
    BY <1>9, <2>1, CallsAreKeys DEF Key, A!Key
  <2> QED
    BY <2>2 DEF Keys, A!Keys, A!Categories, A!Resources, Categories, Resources, NewSubdomains, NewServices, Changes
<1>15. Climbs(T, n, Key(f))
  BY <1>1, <1>3, <1>14, SeenClimbs
<1>16. /\ T[j].seen[Key(f)] \in Nat /\ T[k].seen[Key(f)] \in Nat
       /\ T[j].seen[Key(f)] <= T[k].seen[Key(f)]
  BY <1>12, <1>15 DEF Climbs
<1>17. \A x \in p.exceptions : x.expires \in Int
  BY ResultsConstants
<1> QED
  BY <1>7, <1>8, <1>9, <1>11, <1>13, <1>16, <1>17, ScoreRises


(***************************************************************************)
(* The rows of a finding are in the order of its transitions               *)
(***************************************************************************)
Precedes(s, t) ==
    \E i, j \in DOMAIN findings[s.key] :
        i < j /\ findings[s.key][i] = s.row /\ findings[s.key][j] = t.row
Ordered(S) ==
    \A s, t \in S : After(s, t) => s.key \in DOMAIN findings /\ Precedes(s, t)

\* What is told later of a finding is still to be stored as long as this is.
Pending(todo, S) ==
    \A a \in 1 .. Len(todo) : \A t \in S :
        After(todo[a], t) => \E b \in 1 .. Len(todo) : a < b /\ todo[b] = t

\* Rows are of runs in the table, and there is one at least.
RowsKnown ==
    \A k \in DOMAIN findings :
        findings[k] # <<>> /\ \A r \in ToSet(findings[k]) : r.run \in DOMAIN runs
TodoKnown(q) == q.step = "store" => q.policy \in Policies /\ Introduced(q.todo, DOMAIN runs)

\* What an undisturbed run has stored of a finding is in the order of its transitions.
InOrder(q) ==
    (q.step = "store" /\ q.alone = TRUE /\ q.kind \in {"job", "rebuild"}) =>
        /\ Pending(q.todo, Whole(q.kind, PolicyAt[q.policy]))
        /\ Ordered(Whole(q.kind, PolicyAt[q.policy]) \ ToSet(q.todo))
FreshInOrder == fresh # None => fresh \in Policies /\ Ordered(Whole("job", PolicyAt[fresh]))

ListedInv ==
    /\ RowsKnown
    /\ \A w \in Workers : TodoKnown(proc[w]) /\ InOrder(proc[w])
    /\ FreshInOrder

\* The rest of what is to be done.
LEMMA TailIs ==
    \A S : \A s \in Seq(S) : s # <<>> =>
        /\ Len(s) \in Nat /\ Len(Tail(s)) = Len(s) - 1 /\ 1 \in 1 .. Len(s) /\ Head(s) = s[1]
        /\ \A i \in 1 .. Len(s) - 1 : Tail(s)[i] = s[i + 1]
  OBVIOUS

LEMMA IntroducedMore ==
    ASSUME NEW todo, NEW known, NEW more, known \subseteq more, Introduced(todo, known)
    PROVE  Introduced(todo, more)
  BY DEF Introduced

LEMMA IntroducedNext ==
    ASSUME NEW S, NEW s \in Seq(S), s # <<>>, NEW known, NEW more, Introduced(s, known),
           known \subseteq more, s[1].table = "runs" => s[1].key \in more
    PROVE  /\ s[1].table = "findings" => s[1].row.run \in known
           /\ Introduced(Tail(s), more)
<1>1. PICK n, t : n \in Nat /\ n = Len(s) /\ t = Tail(s)
  BY TailIs
<1>2. Len(t) = n - 1 /\ 1 \in 1 .. n /\ \A i \in 1 .. n - 1 : t[i] = s[i + 1]
  BY <1>1, TailIs
<1>3. ASSUME s[1].table = "findings" PROVE s[1].row.run \in known
  <2>1. s[1].row.run \in known \/ \E b \in 1 .. n : b < 1
    BY <1>1, <1>2, <1>3 DEF Introduced
  <2>2. \A b \in 1 .. n : ~(b < 1)
    OBVIOUS
  <2> QED BY <2>1, <2>2
<1>4. ASSUME NEW a \in 1 .. n - 1, t[a].table = "findings", t[a].row.run \notin more
      PROVE  \E b \in 1 .. n - 1 : b < a /\ t[b].table = "runs" /\ t[b].key = t[a].row.run
  <2>1. a + 1 \in 1 .. n /\ t[a] = s[a + 1]
    BY <1>1, <1>2
  <2>2. PICK b \in 1 .. n : b < a + 1 /\ s[b].table = "runs" /\ s[b].key = t[a].row.run
    BY <1>1, <1>4, <2>1 DEF Introduced
  <2>3. b # 1
    BY <1>4, <2>2
  <2>4. b - 1 \in 1 .. n - 1 /\ b - 1 < a /\ (b - 1) + 1 = b
    BY <1>1, <2>2, <2>3
  <2>5. t[b - 1] = s[b]
    BY <1>2, <2>4
  <2> QED BY <2>2, <2>4, <2>5
<1>5. Introduced(t, more)
  BY <1>2, <1>4 DEF Introduced
<1> QED BY <1>1, <1>3, <1>5

LEMMA PendingNext ==
    ASSUME NEW S, NEW s \in Seq(S), s # <<>>, NEW T, Pending(s, T)
    PROVE  /\ Pending(Tail(s), T)
           /\ \A t \in T : After(s[1], t) => t \in ToSet(Tail(s))
<1>1. PICK n, rest : n \in Nat /\ n = Len(s) /\ rest = Tail(s)
  BY TailIs
<1>2. Len(rest) = n - 1 /\ 1 \in 1 .. n /\ \A i \in 1 .. n - 1 : rest[i] = s[i + 1]
  BY <1>1, TailIs
<1>3. rest \in Seq(S)
  BY <1>1
<1>4. ASSUME NEW a \in 1 .. n, NEW t \in T, After(s[a], t)
      PROVE  \E b \in 1 .. n - 1 : a - 1 < b /\ rest[b] = t
  <2>1. PICK b \in 1 .. n : a < b /\ s[b] = t
    BY <1>1, <1>4 DEF Pending
  <2>2. b - 1 \in 1 .. n - 1 /\ a - 1 < b - 1 /\ (b - 1) + 1 = b
    BY <1>1, <2>1
  <2>3. rest[b - 1] = s[b]
    BY <1>2, <2>2
  <2> QED BY <2>1, <2>2, <2>3
<1>5. ASSUME NEW a \in 1 .. n - 1, NEW t \in T, After(rest[a], t)
      PROVE  \E b \in 1 .. n - 1 : a < b /\ rest[b] = t
  <2>1. a + 1 \in 1 .. n /\ (a + 1) - 1 = a /\ rest[a] = s[a + 1]
    BY <1>1, <1>2
  <2>2. After(s[a + 1], t)
    BY <1>5, <2>1
  <2> QED BY <1>4, <2>1, <2>2
<1>6. Pending(rest, T)
  BY <1>2, <1>5 DEF Pending
<1>7. ASSUME NEW t \in T, After(s[1], t) PROVE t \in ToSet(rest)
  <2>1. PICK b \in 1 .. n - 1 : rest[b] = t
    BY <1>2, <1>4, <1>7
  <2>2. DOMAIN rest = 1 .. n - 1
    BY <1>2, <1>3
  <2> QED BY <2>1, <2>2 DEF ToSet
<1> QED BY <1>1, <1>6, <1>7

\* What is to be done, before anything has been: in order, and all pending.
LEMMA ArrangedIsPending ==
    ASSUME NEW todo, NEW S, Lists(todo, S), Arranged(todo)
    PROVE  Pending(todo, S)
<1>1. ASSUME NEW a \in 1 .. Len(todo), NEW t \in S, After(todo[a], t)
      PROVE  \E b \in 1 .. Len(todo) : a < b /\ todo[b] = t
  <2>1. PICK b \in 1 .. Len(todo) : todo[b] = t
    BY DEF Lists
  <2>2. a < b
    BY <1>1, <2>1 DEF Arranged
  <2> QED BY <2>1, <2>2
<1> QED BY <1>1 DEF Pending

\* A step that writes nothing, or not to these tables.
LEMMA ListedStays ==
    ASSUME DateInv, StoredInv, ListedInv, Grows, UNCHANGED <<file, runs, findings>>,
           fresh' = fresh \/ fresh' = None,
           \A v \in Workers : proc'[v] = proc[v] \/ (TodoKnown(proc[v])' /\ InOrder(proc[v])')
    PROVE  ListedInv'
<1>1. ASSUME Loaded # <<>>, NEW kind, NEW policy
      PROVE  Whole(kind, policy)' = Whole(kind, policy)
  BY <1>1, WholeStays DEF Grows, DateInv
<1>2. RowsKnown'
  BY DEF ListedInv, RowsKnown
<1>3. \A s, t : Precedes(s, t)' <=> Precedes(s, t)
  BY DEF Precedes
<1>4. FreshInOrder'
  <2>1. SUFFICES ASSUME fresh' # None
                 PROVE  /\ fresh' \in Policies
                        /\ \A s, t \in Whole("job", PolicyAt[fresh])' :
                             After(s, t) => s.key \in DOMAIN findings' /\ Precedes(s, t)'
    BY DEF FreshInOrder, Ordered
  <2>2. fresh' = fresh /\ fresh # None
    BY <2>1
  <2>3. PICK held : held = PolicyAt[fresh]
    OBVIOUS
  <2>4. Whole("job", held)' = Whole("job", held)
    BY <1>1, <2>2 DEF StoredInv, FreshHolds
  <2>5. fresh \in Policies /\ Ordered(Whole("job", held))
    BY <2>2, <2>3 DEF ListedInv, FreshInOrder
  <2>6. Whole("job", PolicyAt[fresh])' = Whole("job", held)
    BY <2>2, <2>3, <2>4
  <2> QED BY <1>3, <2>2, <2>5, <2>6 DEF Ordered
<1>5. ASSUME NEW v \in Workers PROVE TodoKnown(proc[v])' /\ InOrder(proc[v])'
  <2>1. CASE proc'[v] = proc[v]
    <3>1. PICK q : q = proc[v] /\ TodoKnown(q) /\ InOrder(q) /\ Undisturbed(q)
      BY DEF ListedInv, StoredInv
    <3>2. TodoKnown(q)'
      BY <3>1 DEF TodoKnown
    <3>3. InOrder(q)'
      <4>1. SUFFICES ASSUME q.step = "store", q.alone = TRUE, q.kind \in {"job", "rebuild"}
                     PROVE  /\ Pending(q.todo, Whole(q.kind, PolicyAt[q.policy])')
                            /\ \A s, t \in Whole(q.kind, PolicyAt[q.policy])' \ ToSet(q.todo) :
                                 After(s, t) => s.key \in DOMAIN findings' /\ Precedes(s, t)'
        BY DEF InOrder, Ordered
      <4>2. Whole(q.kind, PolicyAt[q.policy])' = Whole(q.kind, PolicyAt[q.policy])
        BY <1>1, <3>1, <4>1 DEF Undisturbed
      <4>3. /\ Pending(q.todo, Whole(q.kind, PolicyAt[q.policy]))
            /\ Ordered(Whole(q.kind, PolicyAt[q.policy]) \ ToSet(q.todo))
        BY <3>1, <4>1 DEF InOrder
      <4> QED BY <1>3, <4>2, <4>3 DEF Ordered
    <3> QED BY <2>1, <3>1, <3>2, <3>3 DEF TodoKnown, InOrder
  <2>2. CASE proc'[v] # proc[v]
    BY <2>2
  <2> QED BY <2>1, <2>2
<1> QED BY <1>2, <1>4, <1>5 DEF ListedInv

LEMMA RestingIsListed ==
    ASSUME NEW p, p.step # "store"
    PROVE  TodoKnown(p)' /\ InOrder(p)'
  BY DEF TodoKnown, InOrder

LEMMA QuietLists ==
    ASSUME DateInv, StoredInv, ListedInv, NEW w \in Workers, NEW p, TodoKnown(p)', InOrder(p)',
           proc' = [proc EXCEPT ![w] = p],
           UNCHANGED <<file, runs, findings, episodes, fresh>>,
           scans' = scans \/ \E seen \in AllScans : scans' = Append(scans, seen)
    PROVE  ListedInv'
<1>1. Shaped /\ Grows
  BY ScansGrow DEF DateInv
<1>2. ASSUME NEW v \in Workers PROVE proc'[v] = proc[v] \/ (TodoKnown(proc[v])' /\ InOrder(proc[v])')
  <2>1. CASE v = w
    <3>1. proc'[v] = p
      BY <1>1, <2>1 DEF Shaped
    <3> QED BY <3>1 DEF TodoKnown, InOrder
  <2>2. CASE v # w
    BY <1>1, <2>2 DEF Shaped
  <2> QED BY <2>1, <2>2
<1> QED BY <1>1, <1>2, ListedStays

\* Once another has written, a process is not alone.
LEMMA OthersWait ==
    ASSUME Shaped, ListedInv, DOMAIN runs \subseteq DOMAIN runs',
           NEW w \in Workers, NEW p, Writes(w, p), NEW v \in Workers \ {w}
    PROVE  TodoKnown(proc[v])' /\ InOrder(proc[v])'
<1>1. PICK q : q = proc[v] /\ TodoKnown(q) /\ IsProcess(q)
  BY DEF ListedInv, Shaped
<1>2. PICK r : r = [q EXCEPT !.alone = FALSE]
  OBVIOUS
<1>3. r.step = q.step /\ r.todo = q.todo /\ r.policy = q.policy /\ r.alone = FALSE
  BY <1>1, <1>2, AloneIsFalse
<1>4. TodoKnown(r)'
  <2>1. SUFFICES ASSUME q.step = "store" PROVE q.policy \in Policies /\ Introduced(q.todo, DOMAIN runs')
    BY <1>3 DEF TodoKnown
  <2>2. q.policy \in Policies /\ Introduced(q.todo, DOMAIN runs)
    BY <1>1, <2>1 DEF TodoKnown
  <2> QED BY <2>2, IntroducedMore
<1>5. proc'[v] = r
  BY <1>1, <1>2 DEF Writes
<1> QED BY <1>3, <1>4, <1>5 DEF TodoKnown, InOrder

LEMMA OverwritingLists ==
    ASSUME DateInv, StoredInv, ListedInv, NEW w \in Workers, Overwrites(w)
    PROVE  ListedInv'
<1>1. PICK p : p.step # "store" /\ Writes(w, p)
  BY DEF Overwrites
<1>2. UNCHANGED <<runs, findings>> /\ fresh' = None
  BY DEF Overwrites
<1>3. RowsKnown' /\ FreshInOrder'
  BY <1>2 DEF ListedInv, RowsKnown, FreshInOrder
<1>4. ASSUME NEW v \in Workers PROVE TodoKnown(proc[v])' /\ InOrder(proc[v])'
  <2>1. CASE v = w
    <3>1. proc'[v] = p
      BY <1>1, <2>1 DEF Writes
    <3> QED BY <1>1, <3>1 DEF TodoKnown, InOrder
  <2>2. CASE v # w
    BY <1>1, <1>2, <2>2, OthersWait DEF DateInv
  <2> QED BY <2>1, <2>2
<1> QED BY <1>3, <1>4 DEF ListedInv

LEMMA LoadLists ==
    ASSUME DateInv, StoredInv, ListedInv, NEW w \in Workers, NEW policy \in Policies, LoadFiles(w, policy)
    PROVE  ListedInv'
<1>1. PICK kind, held : kind = proc[w].kind /\ held = PolicyAt[policy]
  OBVIOUS
<1>2. PICK todo : todo = StatementsOf(kind, held, Loaded, Timeline(held, Loaded))
  OBVIOUS
<1>3. PICK p : p = IF todo = <<>> THEN Idle ELSE Storing(kind, policy, todo)
  OBVIOUS
<1>4. proc' = [proc EXCEPT ![w] = p]
  BY <1>1, <1>2, <1>3 DEF LoadFiles, Stores
<1>5. UNCHANGED <<scans, file, runs, findings, episodes, fresh>>
  BY DEF LoadFiles, Tables, Bounds
<1>6. Loaded # <<>>
  <2>1. Len(Loaded) >= 1
    BY DEF LoadFiles, CanLoad
  <2> QED BY <2>1
<1>7. Typed /\ Grows
  BY <1>5, ScansGrow DEF DateInv
<1>8. Lists(todo, Whole(kind, held)) /\ Proper(todo)
  BY <1>2, <1>6, <1>7, WholeIsListed, WholeIsProper
<1>9. ToSet(todo) = Whole(kind, held)
  BY <1>8, ListIsSeq
<1>10. CASE todo = <<>>
  <2>1. p.step # "store"
    BY <1>3, <1>10 DEF Idle, Process
  <2> QED BY <1>4, <1>5, <2>1, RestingIsListed, QuietLists
<1>11. CASE todo # <<>>
  <2>1. p.kind = kind /\ p.step = "store" /\ p.todo = todo /\ p.policy = policy
    BY <1>3, <1>11 DEF Storing
  <2>2. Whole(kind, held)' = Whole(kind, held)
    BY <1>5, <1>6, <1>7, WholeStays DEF Grows
  <2>3. TodoKnown(p)'
    <3>1. Introduced(todo, DOMAIN runs')
      BY <1>8, IntroducedMore DEF Proper
    <3> QED BY <2>1, <3>1 DEF TodoKnown
  <2>4. InOrder(p)'
    <3>1. PICK whole : whole = Whole(kind, held)
      OBVIOUS
    <3>2. Whole(p.kind, PolicyAt[p.policy])' = whole /\ ToSet(p.todo) = whole
      BY <1>1, <1>9, <2>1, <2>2, <3>1
    <3>3. Pending(p.todo, whole)
      BY <1>8, <2>1, <3>1, ArrangedIsPending DEF Proper
    <3> QED BY <3>2, <3>3 DEF InOrder, Ordered
  <2> QED BY <1>4, <1>5, <2>3, <2>4, QuietLists
<1> QED BY <1>10, <1>11

LEMMA PairLists ==
    ASSUME DateInv, StoredInv, ListedInv, NEW w \in Workers, NEW policy \in Policies,
           NEW older \in Kept, NEW newer \in Kept, LoadPair(w, policy, older, newer)
    PROVE  ListedInv'
<1>1. PICK run, report : run = <<older, newer>> /\ report = Compared(PolicyAt[policy], older, newer, Unseen)
  OBVIOUS
<1>2. PICK todo : todo = ReportStatements(run, report)
  OBVIOUS
<1>3. PICK p : p = IF todo = <<>> THEN Idle ELSE Storing("pair", policy, todo)
  OBVIOUS
<1>4. proc' = [proc EXCEPT ![w] = p]
  BY <1>1, <1>2, <1>3 DEF LoadPair, Stores
<1>5. UNCHANGED <<scans, file, runs, findings, episodes, fresh>>
  BY DEF LoadPair, Tables, Bounds
<1>6. Typed
  BY DEF DateInv
<1>7. older \in Snapshots /\ newer \in Snapshots
  BY <1>6, LoadedTells
<1>8. report = ReportOf(PolicyAt[policy], scans[older], scans[newer], newer, Unseen)
  BY <1>1 DEF Compared, ReportOf
<1>9. Introduced(todo, DOMAIN runs')
  <2>1. scans[older] \in AllScans /\ scans[newer] \in AllScans
    BY <1>6, <1>7 DEF Typed, Snapshots
  <2>2. IsFiniteSet(All(report))
    BY <1>8, <2>1, ReportIsFinite
  <2>3. run[1] \in Int
    BY <1>1, <1>7 DEF Snapshots
  <2>4. Proper(todo)
    BY <1>2, <2>2, <2>3, ReportIsProper
  <2> QED BY <2>4, IntroducedMore DEF Proper
<1>10. TodoKnown(p)' /\ InOrder(p)'
  <2>1. CASE todo = <<>>
    <3>1. p.step # "store"
      BY <1>3, <2>1 DEF Idle, Process
    <3> QED BY <3>1, RestingIsListed
  <2>2. CASE todo # <<>>
    <3>1. p.kind = "pair" /\ p.todo = todo /\ p.policy = policy
      BY <1>3, <2>2 DEF Storing
    <3> QED BY <1>9, <3>1 DEF TodoKnown, InOrder
  <2> QED BY <2>1, <2>2
<1> QED BY <1>4, <1>5, <1>10, QuietLists

\* A statement leaves the order of the rows of other runs.
LEMMA PutKeepsOrder ==
    ASSUME RowsNamed, NEW st, Puts(st), NEW s, NEW t, s.table = "findings", t.table = "findings", s.key = t.key,
           s.key \in DOMAIN findings, Precedes(s, t), ~SamePlace(s, st), ~SamePlace(t, st)
    PROVE  s.key \in DOMAIN findings' /\ Precedes(s, t)'
<1>1. CASE st.table # "findings"
  <2>1. findings' = findings
    BY <1>1 DEF Puts
  <2> QED BY <2>1 DEF Precedes
<1>2. CASE st.table = "findings" /\ st.key # s.key
  <2>1. s.key \in DOMAIN findings' /\ findings'[s.key] = findings[s.key]
    BY <1>2, FindingPut
  <2> QED BY <2>1 DEF Precedes
<1>3. CASE st.table = "findings" /\ st.key = s.key
  <2>1. PICK old, new : old = findings[s.key] /\ new = findings'[s.key]
    OBVIOUS
  <2>2. s.key \in DOMAIN findings' /\ PutLast(RowsAt(s.key), st.row, new)
    BY <1>3, <2>1, FindingPut
  <2>3. RowsAt(s.key) = old
    BY <2>1 DEF RowsAt
  <2>4. PICK i \in DOMAIN old, j \in DOMAIN old : i < j /\ old[i] = s.row /\ old[j] = t.row
    BY <2>1 DEF Precedes
  <2>5. old[i].run # st.row.run /\ old[j].run # st.row.run
    BY <1>3, <2>4 DEF SamePlace
  <2>6. \E a, b \in DOMAIN new : a < b /\ new[a] = s.row /\ new[b] = t.row
    BY <2>2, <2>3, <2>4, <2>5 DEF PutLast
  <2> QED BY <2>1, <2>2, <2>6 DEF Precedes
<1> QED BY <1>1, <1>2, <1>3

\* Its own row comes after those that are there.
LEMMA PutComesLast ==
    ASSUME RowsNamed, NEW st, Puts(st), st.table = "findings", NEW s, s.table = "findings", s.key = st.key,
           InEffect(s), ~SamePlace(s, st)
    PROVE  s.key \in DOMAIN findings' /\ Precedes(s, st)'
<1>1. PICK new : new = findings'[st.key]
  OBVIOUS
<1>2. /\ st.key \in DOMAIN findings' /\ new \in Seq(ToSet(new))
      /\ ToSet(new) = {r \in ToSet(RowsAt(st.key)) : r.run # st.row.run} \cup {st.row}
      /\ PutLast(RowsAt(st.key), st.row, new)
  BY <1>1, FindingPut
<1>3. s.row \in ToSet(RowsAt(st.key)) /\ s.row.run # st.row.run
  BY DEF InEffect, RowsAt, SamePlace
<1>4. s.row \in ToSet(new)
  BY <1>2, <1>3
<1>5. PICK a \in DOMAIN new : new[a] = s.row
  BY <1>4 DEF ToSet
<1>6. Len(new) \in DOMAIN new /\ new[Len(new)] = st.row
  BY <1>2 DEF PutLast
<1>7. a < Len(new)
  <2>1. a # Len(new)
    BY <1>3, <1>5, <1>6
  <2>2. Len(new) \in Nat /\ DOMAIN new = 1 .. Len(new)
    BY <1>2
  <2> QED BY <1>5, <2>1, <2>2
<1> QED BY <1>1, <1>2, <1>5, <1>6, <1>7 DEF Precedes

\* So what an undisturbed run has stored stays in order: a statement that is
\* executed comes after all that has been stored of its finding.
LEMMA OrderGrows ==
    ASSUME DateInv, StoredInv, Loaded # <<>>, NEW kind, kind # "episodes", NEW p, NEW S, NEW todo \in Seq(S), todo # <<>>,
           NEW whole, whole = Whole(kind, p), ToSet(todo) \subseteq whole, Pending(todo, whole),
           \A x \in whole \ ToSet(todo) : InEffect(x), Ordered(whole \ ToSet(todo)),
           Puts(todo[1])
    PROVE  \A s, t \in whole \ ToSet(Tail(todo)) :
             After(s, t) => s.key \in DOMAIN findings' /\ Precedes(s, t)'
<1>1. PICK st, rest : st = todo[1] /\ rest = Tail(todo)
  OBVIOUS
<1>2. ToSet(todo) = {st} \cup ToSet(rest)
  BY <1>1, HeadAndTail, TailIs
<1>3. st \in whole
  BY <1>2
<1>4. Typed /\ RowsNamed
  BY DEF DateInv, StoredInv
<1>5. ASSUME NEW s \in whole, NEW t \in whole, s \notin ToSet(rest), t \notin ToSet(rest), After(s, t)
      PROVE  s.key \in DOMAIN findings' /\ Precedes(s, t)'
  <2>1. s.table = "findings" /\ t.table = "findings" /\ s.key = t.key
    BY <1>5 DEF After
  <2>2. s # st
    BY <1>1, <1>5, PendingNext
  <2>3. s \in whole \ ToSet(todo) /\ InEffect(s)
    BY <1>2, <1>5, <2>2
  <2>4. ~SamePlace(s, st)
    BY <1>3, <1>4, <2>2, StatementsDiffer
  <2>5. CASE t = st
    BY <1>1, <1>4, <2>1, <2>3, <2>4, <2>5, PutComesLast
  <2>6. CASE t # st
    <3>1. t \in whole \ ToSet(todo)
      BY <1>2, <1>5, <2>6
    <3>2. s.key \in DOMAIN findings /\ Precedes(s, t)
      BY <1>5, <2>3, <3>1 DEF Ordered
    <3>3. ~SamePlace(t, st)
      BY <1>3, <1>4, <2>6, StatementsDiffer
    <3> QED BY <1>1, <1>4, <2>1, <2>4, <3>2, <3>3, PutKeepsOrder
  <2> QED BY <2>5, <2>6
<1> QED BY <1>1, <1>5

LEMMA PutIsKnown ==
    ASSUME RowsNamed, RowsKnown, NEW st, Puts(st), st.table = "findings" => st.row.run \in DOMAIN runs
    PROVE  /\ RowsKnown'
           /\ DOMAIN runs \subseteq DOMAIN runs' /\ (st.table = "runs" => st.key \in DOMAIN runs')
<1>1. DOMAIN runs \subseteq DOMAIN runs' /\ (st.table = "runs" => st.key \in DOMAIN runs')
  BY DEF Puts, With
<1>2. CASE st.table # "findings"
  <2>1. findings' = findings
    BY <1>2 DEF Puts
  <2> QED BY <1>1, <2>1 DEF RowsKnown
<1>3. CASE st.table = "findings"
  <2>1. ASSUME NEW k \in DOMAIN findings'
        PROVE  findings'[k] # <<>> /\ \A r \in ToSet(findings'[k]) : r.run \in DOMAIN runs
    <3>1. CASE k = st.key
      <4>1. PICK new : new = findings'[k]
        OBVIOUS
      <4>2. /\ ToSet(new) = {r \in ToSet(RowsAt(k)) : r.run # st.row.run} \cup {st.row}
            /\ PutLast(RowsAt(k), st.row, new)
        BY <1>3, <3>1, <4>1, FindingPut
      <4>3. new # <<>>
        <5>1. DOMAIN new # {}
          BY <4>2 DEF PutLast
        <5> QED BY <5>1
      <4>4. \A r \in ToSet(RowsAt(k)) : r.run \in DOMAIN runs
        <5>1. CASE k \in DOMAIN findings
          BY <5>1 DEF RowsAt, RowsKnown
        <5>2. CASE k \notin DOMAIN findings
          <6>1. RowsAt(k) = <<>>
            BY <5>2 DEF RowsAt
          <6> QED BY <6>1 DEF ToSet
        <5> QED BY <5>1, <5>2
      <4> QED BY <1>3, <4>1, <4>2, <4>3, <4>4
    <3>2. CASE k # st.key
      <4>1. k \in DOMAIN findings /\ findings'[k] = findings[k]
        BY <1>3, <3>2, FindingPut
      <4> QED BY <4>1 DEF RowsKnown
    <3> QED BY <3>1, <3>2
  <2> QED BY <1>1, <2>1 DEF RowsKnown
<1> QED BY <1>1, <1>2, <1>3

LEMMA StoreLists ==
    ASSUME DateInv, StoredInv, ListedInv, NEW w \in Workers, StoreNext(w)
    PROVE  ListedInv'
<1>1. PICK second : DatedBy(second)
  BY DEF DateInv
<1>2. PICK q : /\ q = proc[w] /\ IsProcess(q) /\ ProcessIsDated(second, q) /\ q.step = "store"
               /\ Undisturbed(q) /\ TodoKnown(q) /\ InOrder(q)
  BY <1>1 DEF DateInv, Shaped, DatedBy, StoreNext, StoredInv, ListedInv
<1>3. PICK todo, tail : todo = q.todo /\ tail = Tail(todo)
  OBVIOUS
<1>4. todo \in Seq(ToSet(todo)) /\ todo # <<>> /\ q.policy \in Policies /\ Introduced(todo, DOMAIN runs)
  BY <1>2, <1>3 DEF ProcessIsDated, TodoKnown
<1>5. /\ Head(todo) = todo[1] /\ ToSet(todo) = {todo[1]} \cup ToSet(tail)
      /\ Len(todo) = 1 <=> tail = <<>>
  BY <1>3, <1>4, HeadAndTail, TailIs
<1>6. UNCHANGED <<scans, file>>
  BY DEF StoreNext
<1>7. Typed /\ Shaped /\ Grows /\ RowsNamed
  BY <1>6, ScansGrow DEF DateInv, StoredInv
<1>8. PICK r : r = IF Len(todo) = 1 THEN Idle ELSE [q EXCEPT !.todo = tail]
  OBVIOUS
<1>9. Writes(w, r)
  BY <1>2, <1>3, <1>8 DEF StoreNext
<1>10. Puts(todo[1])
  <2>1. Puts(Head(todo))
    BY <1>2, <1>3 DEF StoreNext, Puts
  <2> QED BY <1>5, <2>1
<1>11. RowsKnown' /\ DOMAIN runs \subseteq DOMAIN runs' /\ (todo[1].table = "runs" => todo[1].key \in DOMAIN runs')
  <2>1. todo[1].table = "findings" => todo[1].row.run \in DOMAIN runs
    BY <1>4, IntroducedNext
  <2> QED BY <1>7, <1>10, <2>1, PutIsKnown DEF ListedInv
<1>12. Introduced(tail, DOMAIN runs')
  BY <1>3, <1>4, <1>11, IntroducedNext
<1>13. PICK held : held = PolicyAt[q.policy]
  OBVIOUS
<1>14. ASSUME q.alone, q.kind \in {"job", "rebuild"}
       PROVE  /\ Loaded # <<>> /\ \A kind : Whole(kind, held)' = Whole(kind, held)
              /\ Pending(tail, Whole(q.kind, held))
              /\ \A s, t \in Whole(q.kind, held) \ ToSet(tail) :
                   After(s, t) => s.key \in DOMAIN findings' /\ Precedes(s, t)'
  <2>1. PICK whole : whole = Whole(q.kind, held)
    OBVIOUS
  <2>2. /\ Loaded # <<>> /\ ToSet(todo) \subseteq whole
        /\ \A x \in whole \ ToSet(todo) : InEffect(x)
    BY <1>2, <1>3, <1>13, <1>14, <2>1 DEF Undisturbed
  <2>3. Pending(todo, whole) /\ Ordered(whole \ ToSet(todo))
    BY <1>2, <1>3, <1>13, <1>14, <2>1 DEF InOrder
  <2>4. \A kind : Whole(kind, held)' = Whole(kind, held)
    BY <1>6, <1>7, <2>2, WholeStays DEF Grows
  <2>5. Pending(tail, whole)
    BY <1>3, <1>4, <2>3, PendingNext
  <2>6. q.kind # "episodes"
    BY <1>14
  <2>7. \A s, t \in whole \ ToSet(tail) : After(s, t) => s.key \in DOMAIN findings' /\ Precedes(s, t)'
    BY <1>3, <1>4, <1>10, <2>1, <2>2, <2>3, <2>6, OrderGrows
  <2> QED BY <2>1, <2>2, <2>4, <2>5, <2>7
<1>15. FreshInOrder'
  <2>1. SUFFICES ASSUME fresh' # None
                 PROVE  /\ fresh' \in Policies
                        /\ \A s, t \in Whole("job", PolicyAt[fresh])' :
                             After(s, t) => s.key \in DOMAIN findings' /\ Precedes(s, t)'
    BY DEF FreshInOrder, Ordered
  <2>2. Len(todo) = 1 /\ q.alone /\ q.kind \in {"job", "rebuild"} /\ fresh' = q.policy
    BY <1>2, <1>3, <2>1 DEF StoreNext
  <2>3. ToSet(tail) = {}
    BY <1>5, <2>2 DEF ToSet
  <2>4. ASSUME NEW x \in Whole("job", held) PROVE x \in Whole(q.kind, held)
    <3>1. q.kind # "episodes"
      BY <2>2
    <3> QED BY <3>1, WholeIs
  <2>5. \A s, t \in Whole("job", held) : After(s, t) => s.key \in DOMAIN findings' /\ Precedes(s, t)'
    BY <1>14, <2>2, <2>3, <2>4
  <2>6. PolicyAt[fresh]' = held
    BY <1>13, <2>2
  <2>7. Whole("job", PolicyAt[fresh])' = Whole("job", held)
    BY <1>14, <2>2, <2>6
  <2> QED BY <1>4, <2>2, <2>5, <2>7
<1>16. TodoKnown(r)' /\ InOrder(r)'
  <2>1. CASE Len(todo) = 1
    <3>1. r.step # "store"
      BY <1>8, <2>1 DEF Idle, Process
    <3> QED BY <3>1, RestingIsListed
  <2>2. CASE Len(todo) # 1
    <3>1. r.kind = q.kind /\ r.step = "store" /\ r.todo = tail /\ r.policy = q.policy /\ r.alone = q.alone
      BY <1>2, <1>8, <2>2, TodoPut
    <3>2. TodoKnown(r)'
      BY <1>4, <1>12, <3>1 DEF TodoKnown
    <3>3. InOrder(r)'
      <4>1. SUFFICES ASSUME r.alone = TRUE, r.kind \in {"job", "rebuild"}
                     PROVE  /\ Pending(r.todo, Whole(r.kind, PolicyAt[r.policy])')
                            /\ \A s, t \in Whole(r.kind, PolicyAt[r.policy])' \ ToSet(r.todo) :
                                 After(s, t) => s.key \in DOMAIN findings' /\ Precedes(s, t)'
        BY DEF InOrder, Ordered
      <4>2. Whole(r.kind, PolicyAt[r.policy])' = Whole(q.kind, held)
        BY <1>13, <1>14, <3>1, <4>1
      <4> QED BY <1>14, <3>1, <4>1, <4>2
    <3> QED BY <3>2, <3>3
  <2> QED BY <2>1, <2>2
<1>17. ASSUME NEW v \in Workers PROVE TodoKnown(proc[v])' /\ InOrder(proc[v])'
  <2>1. CASE v = w
    <3>1. proc'[v] = r
      BY <1>9, <2>1 DEF Writes
    <3> QED BY <1>16, <3>1 DEF TodoKnown, InOrder
  <2>2. CASE v # w
    BY <1>7, <1>9, <1>11, <2>2, OthersWait
  <2> QED BY <2>1, <2>2
<1> QED BY <1>11, <1>15, <1>17 DEF ListedInv

LEMMA ListedInit == Init => ListedInv
<1> SUFFICES ASSUME Init PROVE ListedInv
  OBVIOUS
<1>1. RowsKnown /\ FreshInOrder
  <2>1. DOMAIN findings = {}
    BY DEF Init
  <2> QED BY <2>1 DEF Init, RowsKnown, FreshInOrder
<1>2. ASSUME NEW w \in Workers PROVE proc[w].step # "store"
  BY DEF Init, Idle, Process
<1> QED BY <1>1, <1>2 DEF ListedInv, TodoKnown, InOrder

LEMMA ListedStep == DateInv /\ StoredInv /\ ListedInv /\ [Next]_vars => ListedInv'
<1>1. ASSUME DateInv, StoredInv, ListedInv, UNCHANGED vars PROVE ListedInv'
  <2>1. UNCHANGED <<scans, file, runs, findings, fresh, proc>>
    BY <1>1 DEF vars, Tables
  <2>2. Grows
    BY <1>1, <2>1, ScansGrow DEF DateInv
  <2> QED BY <1>1, <2>1, <2>2, ListedStays
<1>2. SUFFICES ASSUME DateInv, StoredInv, ListedInv, Next PROVE ListedInv'
  BY <1>1
<1>3. PICK w \in Workers : Quietly(w) \/ Overwrites(w) \/ Loads(w) \/ StoreNext(w)
  BY <1>2, StepIs
<1>4. CASE Quietly(w)
  <2>1. PICK p : p.step # "store" /\ proc' = [proc EXCEPT ![w] = p]
    BY <1>4 DEF Quietly
  <2>2. TodoKnown(p)' /\ InOrder(p)'
    BY <2>1, RestingIsListed
  <2> QED BY <1>2, <1>4, <2>1, <2>2, QuietLists DEF Quietly
<1>5. CASE Overwrites(w)
  BY <1>2, <1>5, OverwritingLists
<1>6. CASE Loads(w)
  BY <1>2, <1>6, LoadLists, PairLists DEF Loads
<1>7. CASE StoreNext(w)
  BY <1>2, <1>7, StoreLists
<1> QED BY <1>3, <1>4, <1>5, <1>6, <1>7

\* The row that is listed: the last, if no other scores higher.
LEMMA ListedIs ==
    ASSUME NEW S, NEW rowsOf \in Seq(S), NEW a \in DOMAIN rowsOf,
           \A b \in DOMAIN rowsOf : b <= a /\ rowsOf[b].score \in Nat /\ rowsOf[b].score <= rowsOf[a].score
    PROVE  Listed(rowsOf) = rowsOf[a]
<1> DEFINE IsListed(r) == \E i \in DOMAIN rowsOf :
             rowsOf[i] = r /\ \A j \in DOMAIN rowsOf :
               rowsOf[j].score < r.score \/ (rowsOf[j].score = r.score /\ j <= i)
<1>1. DOMAIN rowsOf \subseteq Nat
  OBVIOUS
<1>2. rowsOf[a] \in ToSet(rowsOf)
  BY DEF ToSet
<1>3. IsListed(rowsOf[a])
  <2>1. \A j \in DOMAIN rowsOf :
          rowsOf[j].score < rowsOf[a].score \/ (rowsOf[j].score = rowsOf[a].score /\ j <= a)
    OBVIOUS
  <2> QED BY <2>1
<1>4. ASSUME NEW r, IsListed(r) PROVE r = rowsOf[a]
  <2>1. PICK i \in DOMAIN rowsOf :
          rowsOf[i] = r /\ \A j \in DOMAIN rowsOf :
            rowsOf[j].score < r.score \/ (rowsOf[j].score = r.score /\ j <= i)
    BY <1>4
  <2>2. rowsOf[a].score < r.score \/ (rowsOf[a].score = r.score /\ a <= i)
    BY <2>1
  <2>3. i <= a /\ r.score \in Nat /\ r.score <= rowsOf[a].score /\ rowsOf[a].score \in Nat
    BY <2>1
  <2>4. a <= i
    BY <2>2, <2>3
  <2>5. i = a
    BY <1>1, <2>3, <2>4
  <2> QED BY <2>1, <2>5
<1>5. Listed(rowsOf) = CHOOSE r \in ToSet(rowsOf) : IsListed(r)
  BY DEF Listed
<1> HIDE DEF IsListed
<1> QED BY <1>2, <1>3, <1>4, <1>5

\* What the rows of a finding are: those of the transitions that report it.
RowOf(run, f) == [run |-> run, score |-> f.score, state |-> f.state]

LEMMA RowsOfFinding ==
    ASSUME DateInv, StoredInv, fresh # None, DOMAIN runs \subseteq Neighbours, RowsKnown,
           NEW reports, reports = Timeline(PolicyAt[fresh], Loaded),
           NEW key \in DOMAIN findings
    PROVE  /\ \A r \in ToSet(findings[key]) :
                \E k \in DOMAIN reports : \E f \in All(reports[k]) : Key(f) = key /\ r = RowOf(RunOf(Loaded, k), f)
           /\ \A k \in DOMAIN reports : \A f \in All(reports[k]) :
                Key(f) = key => RowOf(RunOf(Loaded, k), f) \in ToSet(findings[key])
<1>1. PICK p, kind : p = PolicyAt[fresh] /\ kind = "job" /\ kind # "episodes"
  OBVIOUS
<1>2. Typed /\ RowsNamed /\ Loaded # <<>> /\ \A st \in Whole(kind, p) : InEffect(st)
  BY <1>1 DEF DateInv, StoredInv, FreshHolds
<1>3. reports = Timeline(p, Loaded)
  BY <1>1
<1>4. DOMAIN reports = 1 .. Len(Loaded) - 1
  BY <1>2, <1>3, ReportsAre
<1>5. ASSUME NEW k \in DOMAIN reports, NEW f \in All(reports[k]), Key(f) = key
      PROVE  RowOf(RunOf(Loaded, k), f) \in ToSet(findings[key])
  <2>1. PICK st : st = Inserted(RunOf(Loaded, k), f)
    OBVIOUS
  <2>2. st \in Whole(kind, p)
    BY <1>1, <1>3, <2>1, WholeIs
  <2>3. st.table = "findings" /\ st.key = key /\ st.row = RowOf(RunOf(Loaded, k), f)
    BY <1>5, <2>1, StatementsAre DEF RowOf
  <2>4. InEffect(st)
    BY <1>2, <2>2
  <2> QED BY <2>3, <2>4 DEF InEffect
<1>6. ASSUME NEW r \in ToSet(findings[key])
      PROVE  \E k \in DOMAIN reports : \E f \in All(reports[k]) : Key(f) = key /\ r = RowOf(RunOf(Loaded, k), f)
  <2>1. r.run \in DOMAIN runs
    BY DEF RowsKnown
  <2>2. PICK k \in 1 .. Len(Loaded) - 1 : r.run = RunOf(Loaded, k)
    BY <2>1 DEF Neighbours
  <2>3. PICK older, newer : older = Loaded[k] /\ newer = Loaded[k + 1] /\ r.run[1] = older /\ r.run[2] = newer
    BY <2>2 DEF RunOf
  <2>4. \E seen : reports[k] = ReportOf(p, scans[older], scans[newer], newer, seen)
    BY <1>2, <1>3, <2>3, ReportsAre
  <2>5. NamesFinding(key, r.run) /\ OneRowPerRun(findings[key])
    BY <1>2 DEF RowsNamed
  <2>6. key = <<key[1], key[2]>> /\ Calls(key[1], key[2], scans[older], scans[newer])
    BY <2>3, <2>5 DEF NamesFinding
  <2>7. PICK f \in All(reports[k]) : Key(f) = <<key[1], key[2]>>
    BY <2>4, <2>6, ReportTells
  <2>8. Key(f) = key /\ k \in DOMAIN reports
    BY <1>4, <2>6, <2>7
  <2>9. PICK other : other = RowOf(RunOf(Loaded, k), f) /\ other.run = r.run
    <3>1. RowOf(RunOf(Loaded, k), f).run = RunOf(Loaded, k)
      BY DEF RowOf
    <3> QED BY <2>2, <3>1
  <2>10. other \in ToSet(findings[key])
    BY <1>5, <2>8, <2>9
  <2>11. r = other
    BY <2>5, <2>9, <2>10 DEF OneRowPerRun, ToSet
  <2> QED BY <2>8, <2>9, <2>11
<1> QED BY <1>5, <1>6

LEMMA Greatest ==
    ASSUME NEW n \in Nat, NEW J \in SUBSET (1 .. n), J # {}
    PROVE  \E m \in J : \A k \in J : k <= m
<1>1. PICK S : S = {n - k : k \in J}
  OBVIOUS
<1>2. S \in SUBSET Nat /\ S # {}
  <2>1. \A k \in 1 .. n : n - k \in Nat
    OBVIOUS
  <2>2. \A x \in S : x \in Nat
    BY <1>1, <2>1
  <2> QED BY <1>1, <2>2
<1>3. PICK x \in S : \A y \in S : x <= y
  BY <1>2, Least
<1>4. PICK m \in J : x = n - m
  BY <1>1, <1>3
<1>5. ASSUME NEW k \in J PROVE k <= m
  <2>1. n - m <= n - k
    BY <1>1, <1>3, <1>4
  <2>2. k \in Nat /\ m \in Nat
    OBVIOUS
  <2> QED BY <2>1, <2>2
<1> QED BY <1>5

\* The row of a later transition comes later, and scores no less.
LEMMA RowsClimb ==
    ASSUME DateInv, StoredInv, ListedInv, fresh # None,
           NEW p, p = PolicyAt[fresh], NEW reports, reports = Timeline(p, Loaded),
           NEW j \in DOMAIN reports, NEW k \in DOMAIN reports, j < k,
           NEW g \in All(reports[j]), NEW f \in All(reports[k]), Key(g) = Key(f)
    PROVE  \E a, b \in DOMAIN findings[Key(f)] :
             /\ a < b
             /\ findings[Key(f)][a] = RowOf(RunOf(Loaded, j), g)
             /\ findings[Key(f)][b] = RowOf(RunOf(Loaded, k), f)
<1>1. PICK kind : kind = "job" /\ kind # "episodes"
  OBVIOUS
<1>2. Typed /\ Loaded # <<>> /\ Ordered(Whole(kind, p))
  BY <1>1 DEF DateInv, StoredInv, FreshHolds, ListedInv, FreshInOrder
<1>3. PICK s, t : s = Inserted(RunOf(Loaded, j), g) /\ t = Inserted(RunOf(Loaded, k), f)
  OBVIOUS
<1>4. s \in Whole(kind, p) /\ t \in Whole(kind, p)
  BY <1>1, <1>3, WholeIs
<1>5. /\ s.table = "findings" /\ s.key = Key(f) /\ s.row = RowOf(RunOf(Loaded, j), g)
      /\ t.table = "findings" /\ t.key = Key(f) /\ t.row = RowOf(RunOf(Loaded, k), f)
  BY <1>3, StatementsAre DEF RowOf
<1>6. Loaded[j] < Loaded[k]
  <2>1. DOMAIN reports = 1 .. Len(Loaded) - 1 /\ Len(Loaded) \in Nat
    BY <1>2, LoadedTells, ReportsAre
  <2>2. j \in 1 .. Len(Loaded) /\ k \in 1 .. Len(Loaded)
    BY <2>1
  <2> QED BY <1>2, <2>2, LoadedTells
<1>7. After(s, t)
  BY <1>5, <1>6 DEF After, RowOf, RunOf
<1>8. Precedes(s, t)
  BY <1>2, <1>4, <1>7 DEF Ordered
<1> QED BY <1>5, <1>8 DEF Precedes

LEMMA ListedTells == DateInv /\ StoredInv /\ ListedInv => ListingTellsLatest
<1>1. SUFFICES ASSUME DateInv, StoredInv, ListedInv, fresh # None, DOMAIN runs \subseteq Neighbours,
                      NEW p, p = PolicyAt[fresh], NEW reports, reports = Timeline(p, Loaded),
                      NEW key \in DOMAIN findings
               PROVE  LET Tells(i) == {f \in reports[i].active \cup reports[i].suppressed : Key(f) = key}
                      IN  \E i \in DOMAIN reports :
                            /\ \A j \in i + 1 .. Len(reports) : Tells(j) = {}
                            /\ \E f \in Tells(i) : Listed(findings[key]) =
                                 [run |-> RunOf(Loaded, i), score |-> f.score, state |-> f.state]
  BY DEF ListingTellsLatest, TellsLatest
<1>2. /\ Typed /\ Loaded # <<>> /\ RowsKnown /\ fresh \in Policies
      /\ findings[key] \in Seq(ToSet(findings[key])) /\ OneRowPerRun(findings[key]) /\ findings[key] # <<>>
  BY <1>1 DEF DateInv, StoredInv, FreshHolds, RowsNamed, ListedInv, FreshInOrder, RowsKnown
<1>3. PICK n \in Nat : n = Len(Loaded) - 1 /\ DOMAIN reports = 1 .. n /\ Len(reports) = n
  <2>1. PICK n \in Nat : n = Len(Loaded) - 1 /\ DOMAIN reports = 1 .. n
    BY <1>1, <1>2, ReportsAre
  <2>2. reports = [k \in 1 .. n |-> reports[k]]
    <3>1. PICK m \in Nat : m = Len(Loaded) /\ m # 0 /\ m - 1 = n
      <4>1. Len(Loaded) \in Nat /\ Loaded \in Seq(Kept)
        BY <1>2, LoadedTells
      <4>2. PICK m \in Nat : m = Len(Loaded) /\ n = m - 1
        BY <2>1, <4>1
      <4>3. m # 0
        BY <1>2, <4>1, <4>2
      <4> QED BY <4>2, <4>3
    <3>2. PICK seen : Timeline(p, Loaded) = [k \in 1 .. m - 1 |-> Compared(p, Loaded[k], Loaded[k + 1], seen[k])]
      <4>1. PICK ids : ids = Loaded
        OBVIOUS
      <4>2. Len(ids) = m /\ m # 0
        BY <3>1, <4>1
      <4>3. PICK seen : Timeline(p, ids) = [k \in 1 .. m - 1 |-> Compared(p, ids[k], ids[k + 1], seen[k])]
        BY <4>2, TimelineIs, SMTT(40)
      <4> QED BY <4>1, <4>3
    <3> QED BY <1>1, <3>1, <3>2
  <2>3. PICK S : S = {reports[k] : k \in 1 .. n}
    OBVIOUS
  <2>4. reports \in [1 .. n -> S]
    BY <2>2, <2>3
  <2>5. Len(reports) = n
    BY <2>1, <2>4
  <2> QED BY <2>1, <2>5
<1>4. PICK rowsOf : rowsOf = findings[key]
  OBVIOUS
<1>5. /\ \A r \in ToSet(rowsOf) :
           \E k \in 1 .. n : \E f \in All(reports[k]) : Key(f) = key /\ r = RowOf(RunOf(Loaded, k), f)
      /\ \A k \in 1 .. n : \A f \in All(reports[k]) :
           Key(f) = key => RowOf(RunOf(Loaded, k), f) \in ToSet(rowsOf)
  <2>1. RowsKnown /\ reports = Timeline(PolicyAt[fresh], Loaded)
    BY <1>1, <1>2
  <2>2. /\ \A r \in ToSet(findings[key]) :
             \E k \in DOMAIN reports : \E f \in All(reports[k]) : Key(f) = key /\ r = RowOf(RunOf(Loaded, k), f)
        /\ \A k \in DOMAIN reports : \A f \in All(reports[k]) :
             Key(f) = key => RowOf(RunOf(Loaded, k), f) \in ToSet(findings[key])
    BY <1>1, <2>1, RowsOfFinding
  <2>3. DOMAIN reports = 1 .. n /\ rowsOf = findings[key]
    BY <1>3, <1>4
  <2> QED BY <2>2, <2>3
<1>6. PICK J : J = {k \in 1 .. n : \E f \in All(reports[k]) : Key(f) = key}
  OBVIOUS
<1>7. J \in SUBSET (1 .. n) /\ J # {}
  <2>1. ToSet(rowsOf) # {}
    BY <1>2, <1>4 DEF ToSet
  <2> QED BY <1>5, <1>6, <2>1
<1>8. PICK i \in J : \A k \in J : k <= i
  BY <1>7, Greatest
<1>9. PICK f \in All(reports[i]) : Key(f) = key
  BY <1>6
<1>10. PICK a \in DOMAIN rowsOf : rowsOf[a] = RowOf(RunOf(Loaded, i), f)
  BY <1>5, <1>7, <1>8, <1>9 DEF ToSet
<1>11. OneRowPerRun(rowsOf)
  BY <1>2, <1>4
<1>12. ASSUME NEW b \in DOMAIN rowsOf
       PROVE  b <= a /\ rowsOf[b].score \in Nat /\ rowsOf[b].score <= rowsOf[a].score
  <2>1. rowsOf[b] \in ToSet(rowsOf)
    BY DEF ToSet
  <2>2. PICK k \in 1 .. n : \E h \in All(reports[k]) : Key(h) = key /\ rowsOf[b] = RowOf(RunOf(Loaded, k), h)
    BY <1>5, <2>1
  <2>3. PICK g \in All(reports[k]) : Key(g) = key /\ rowsOf[b] = RowOf(RunOf(Loaded, k), g)
    BY <2>2
  <2>4. k \in J /\ k <= i /\ i \in 1 .. n
    BY <1>6, <1>7, <1>8, <2>3
  <2>5. g.score \in Nat /\ f.score \in Nat /\ g.score <= f.score
    BY <1>1, <1>2, <1>3, <1>9, <2>3, <2>4, ScoresRise
  <2>6. rowsOf[b].score = g.score /\ rowsOf[a].score = f.score
    BY <1>10, <2>3 DEF RowOf
  <2>7. a \in Nat /\ b \in Nat
    BY <1>2, <1>4
  <2>8. b <= a
    <3>1. CASE k = i
      <4>1. rowsOf[b].run = rowsOf[a].run
        BY <1>10, <2>3, <3>1 DEF RowOf
      <4>2. a = b
        BY <1>11, <4>1 DEF OneRowPerRun
      <4> QED BY <2>7, <4>2
    <3>2. CASE k < i
      <4>1. PICK c, d : /\ c \in DOMAIN rowsOf /\ d \in DOMAIN rowsOf /\ c < d
                        /\ rowsOf[c] = RowOf(RunOf(Loaded, k), g) /\ rowsOf[d] = RowOf(RunOf(Loaded, i), f)
        <5>1. k \in DOMAIN reports /\ i \in DOMAIN reports /\ Key(g) = Key(f)
          BY <1>3, <1>9, <2>3, <2>4
        <5> QED BY <1>1, <1>4, <1>9, <3>2, <5>1, RowsClimb
      <4>2. c = b /\ d = a
        BY <1>10, <1>11, <2>3, <4>1 DEF OneRowPerRun
      <4> QED BY <2>7, <4>1, <4>2
    <3> QED BY <2>4, <3>1, <3>2
  <2> QED BY <2>5, <2>6, <2>8
<1>13. Listed(rowsOf) = rowsOf[a]
  <2>1. rowsOf \in Seq(ToSet(rowsOf))
    BY <1>2, <1>4
  <2> QED BY <1>12, <2>1, ListedIs
<1>14. \A j \in i + 1 .. Len(reports) :
         {h \in reports[j].active \cup reports[j].suppressed : Key(h) = key} = {}
  <2>1. SUFFICES ASSUME NEW j \in i + 1 .. n PROVE \A h \in All(reports[j]) : Key(h) # key
    BY <1>3 DEF All
  <2>2. j \in 1 .. n /\ ~(j <= i)
    BY <1>7
  <2> QED BY <1>6, <1>8, <2>2
<1>15. Listed(findings[key]) = [run |-> RunOf(Loaded, i), score |-> f.score, state |-> f.state]
  BY <1>4, <1>10, <1>13 DEF RowOf
<1>16. i \in DOMAIN reports /\ f \in reports[i].active \cup reports[i].suppressed
  BY <1>3, <1>7 DEF All
<1> QED BY <1>9, <1>14, <1>15, <1>16

\* After a run that nobody disturbed, and until somebody writes again, the listing
\* shows every finding as the last transition that reported or suppressed it did,
\* if the table has no runs of snapshots that are no neighbours: its row was
\* written last, and no other has a higher score.
THEOREM ListingIsLatest == Spec => []ListingTellsLatest
<1>1. Init => DateInv /\ StoredInv /\ ListedInv
  BY DateInit, StoredInit, ListedInit
<1>2. DateInv /\ StoredInv /\ ListedInv /\ [Next]_vars => (DateInv /\ StoredInv /\ ListedInv)'
  BY DatesStep, StoredStep, ListedStep
<1> QED BY <1>1, <1>2, ListedTells, PTL DEF Spec

============================================================================
