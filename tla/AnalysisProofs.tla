--------------------------- MODULE AnalysisProofs ---------------------------
(***************************************************************************)
(* Proofs about the analysis: Drift, Episodes, ExposureGraph and Risk.     *)
(*                                                                         *)
(* The reports of a timeline are what the comparison computes of its       *)
(* snapshots (TimelineInv); all that is said of findings, episodes and     *)
(* graphs follows from that.                                               *)
(***************************************************************************)
EXTENDS Risk, FiniteSetTheorems, TLAPS

(***************************************************************************)
(* Least elements: what takes the place of induction.                      *)
(***************************************************************************)
\* Of a family of subsets of a finite set, one contains no other.
LEMMA MinimalMember ==
    \A S : IsFiniteSet(S) =>
        \A F \in SUBSET (SUBSET S) : F # {} => \E m \in F : \A n \in F : n \subseteq m => n = m
<1> SUFFICES ASSUME NEW S, IsFiniteSet(S), NEW F \in SUBSET (SUBSET S), F # {}
             PROVE  \E m \in F : \A n \in F : n \subseteq m => n = m
  OBVIOUS
<1>1. IsWellFoundedOn(StrictSubsetOrdering(S), FiniteSubsetsOf(S))
  BY FS_StrictSubsetOrderingWellFounded
<1>2. F \subseteq FiniteSubsetsOf(S)
  BY FS_Subset DEF FiniteSubsetsOf
<1>3. \E m \in F : \A n \in F : <<n, m>> \notin StrictSubsetOrdering(S)
  BY <1>1, <1>2, WFMin
<1> QED
  BY <1>3 DEF StrictSubsetOrdering

\* A set of numbers has a least one ...
LEMMA Least ==
    ASSUME NEW S \in SUBSET Nat, S # {}
    PROVE  \E m \in S : \A n \in S : m <= n
<1>1. PICK top \in S : TRUE
  OBVIOUS
<1> DEFINE low == {n \in S : n <= top}
<1>0. PICK family : family = {0 .. n : n \in low}
  OBVIOUS
<1>8. PICK span : span = 0 .. top
  OBVIOUS
<1>2. IsFiniteSet(span)
  BY <1>8, FS_Interval
<1>3. \A n \in low : 0 .. n \subseteq 0 .. top
  OBVIOUS
<1>4. family \in SUBSET (SUBSET span) /\ family # {}
  BY <1>0, <1>3, <1>8
<1>5. PICK part \in family : \A other \in family : other \subseteq part => other = part
  BY <1>2, <1>4, MinimalMember
<1>6. PICK m \in low : part = 0 .. m
  BY <1>0
<1>7. ASSUME NEW n \in S
      PROVE  m <= n
  <2>1. CASE n <= top
    <3>1. CASE m <= n
      BY <3>1
    <3>2. CASE n < m
      <4>1. 0 .. n \in family /\ 0 .. n \subseteq part
        BY <2>1, <3>2, <1>0, <1>6
      <4>2. 0 .. n = 0 .. m
        BY <4>1, <1>5, <1>6
      <4>3. m \in 0 .. m /\ m \notin 0 .. n
        BY <3>2
      <4> QED
        BY <4>2, <4>3
    <3> QED
      BY <3>1, <3>2
  <2>2. CASE top < n
    BY <2>2, <1>6
  <2> QED
    BY <2>1, <2>2
<1> QED
  BY <1>6, <1>7

\* ... and a bounded one a greatest.
LEMMA Greatest ==
    ASSUME NEW S \in SUBSET Nat, S # {}, NEW top \in Nat, \A n \in S : n <= top
    PROVE  \E m \in S : \A n \in S : n <= m
<1> DEFINE below == {top - n : n \in S}
<1>1. \A n \in S : top - n \in Nat
  OBVIOUS
<1>0. below \in SUBSET Nat /\ below # {}
  BY <1>1
<1>2. PICK d \in below : \A e \in below : d <= e
  BY <1>0, Least
<1>3. PICK m \in S : d = top - m
  OBVIOUS
<1>4. ASSUME NEW n \in S
      PROVE  n <= m
  <2>1. top - n \in below
    OBVIOUS
  <2> QED
    BY <2>1, <1>2, <1>3
<1> QED
  BY <1>4

(***************************************************************************)
(* What a comparison finds.                                                *)
(***************************************************************************)
NewSubdomains == {"new_admin_subdomain", "new_nonprod_subdomain", "new_subdomain"}
NewServices == {"new_http_service", "new_https_service", "new_service"}
Changes == {"service_became_available", "service_backend_changed", "service_fingerprint_changed"}

\* A finding of category c about the resource r, which a policy p determines.
Told(p, c, r) ==
    CASE c = "new_ip" -> Finding("new_ip", r, "low", 10, CriticalityOf(p, r))
      [] c = "removed_ip" -> Finding("removed_ip", r, "info", 3, CriticalityOf(p, r))
      [] c \in NewSubdomains -> NewSubdomain(p, r)
      [] c = "subdomain_removed" -> Finding("subdomain_removed", r, "info", 5, CriticalityOf(p, r))
      [] c \in NewServices -> NewService(p, r)
      [] c = "service_removed" -> Finding("service_removed", r, "info", 5, CriticalityOf(p, r))
      [] c = "service_became_available" ->
           Finding(c, r, IF EnvironmentOf(p, r) \in {"admin", "production"} THEN "high" ELSE "medium",
                   IF EnvironmentOf(p, r) \in {"admin", "production"} THEN 75 ELSE 60, CriticalityOf(p, r))
      [] c = "service_backend_changed" ->
           Finding(c, r, IF CriticalityOf(p, r) \in {"critical", "high"} THEN "medium" ELSE "low",
                   IF CriticalityOf(p, r) \in {"critical", "high"} THEN 30 ELSE 15, CriticalityOf(p, r))
      [] c = "service_fingerprint_changed" ->
           Finding(c, r, "medium", 40, CriticalityOf(p, r))

\* Between which scans a finding of category c about r is made.
Calls(c, r, older, newer) ==
    \/ c = "new_ip" /\ r \in newer.ips \ older.ips
    \/ c = "removed_ip" /\ r \in older.ips \ newer.ips
    \/ c \in NewSubdomains /\ r \in newer.subdomains \ older.subdomains
    \/ c = "subdomain_removed" /\ r \in older.subdomains \ newer.subdomains
    \/ c \in NewServices /\ r \in Present(newer) \ Present(older)
    \/ c = "service_removed" /\ r \in Present(older) \ Present(newer)
    \/ c \in Changes /\ r \in Changed(older, newer)

LEMMA ServiceChangeTells ==
    ASSUME NEW p, NEW r, NEW before, NEW after, NEW f \in ServiceChange(p, r, before, after)
    PROVE  f.category \in Changes /\ f.resource = r /\ f = Told(p, f.category, r)
<1>1. CASE f = Finding("service_became_available", r,
                        IF EnvironmentOf(p, r) \in {"admin", "production"} THEN "high" ELSE "medium",
                        IF EnvironmentOf(p, r) \in {"admin", "production"} THEN 75 ELSE 60, CriticalityOf(p, r))
  BY <1>1 DEF Finding, Told, Changes, NewSubdomains, NewServices
<1>2. CASE f = Finding("service_backend_changed", r,
                        IF CriticalityOf(p, r) \in {"critical", "high"} THEN "medium" ELSE "low",
                        IF CriticalityOf(p, r) \in {"critical", "high"} THEN 30 ELSE 15, CriticalityOf(p, r))
  BY <1>2 DEF Finding, Told, Changes, NewSubdomains, NewServices
<1>3. CASE f = Finding("service_fingerprint_changed", r, "medium", 40, CriticalityOf(p, r))
  BY <1>3 DEF Finding, Told, Changes, NewSubdomains, NewServices
<1> QED
  BY <1>1, <1>2, <1>3 DEF ServiceChange

\* A finding is made where it is called for, and the policy says all the rest.
LEMMA AnalyzedTells ==
    ASSUME NEW p, NEW older, NEW newer, NEW f \in Analyzed(p, older, newer)
    PROVE  f = Told(p, f.category, f.resource) /\ Calls(f.category, f.resource, older, newer)
<1>1. CASE \E r \in newer.ips \ older.ips : f = Finding("new_ip", r, "low", 10, CriticalityOf(p, r))
  BY <1>1 DEF Finding, Told, Calls, NewSubdomains, NewServices
<1>2. CASE \E r \in older.ips \ newer.ips : f = Finding("removed_ip", r, "info", 3, CriticalityOf(p, r))
  BY <1>2 DEF Finding, Told, Calls, NewSubdomains, NewServices
<1>3. CASE \E r \in newer.subdomains \ older.subdomains : f = NewSubdomain(p, r)
  <2>1. PICK r \in newer.subdomains \ older.subdomains : f = NewSubdomain(p, r)
    BY <1>3
  <2>2. f.category \in NewSubdomains /\ f.resource = r
    BY <2>1 DEF NewSubdomain, Finding, NewSubdomains, NewServices
  <2> QED
    BY <2>1, <2>2 DEF Told, Calls, NewSubdomains, NewServices
<1>4. CASE \E r \in older.subdomains \ newer.subdomains :
              f = Finding("subdomain_removed", r, "info", 5, CriticalityOf(p, r))
  BY <1>4 DEF Finding, Told, Calls, NewSubdomains, NewServices
<1>5. CASE \E r \in Present(newer) \ Present(older) : f = NewService(p, r)
  <2>1. PICK r \in Present(newer) \ Present(older) : f = NewService(p, r)
    BY <1>5
  <2>2. f.category \in NewServices /\ f.resource = r
    BY <2>1 DEF NewService, Finding, NewSubdomains, NewServices
  <2> QED
    BY <2>1, <2>2 DEF Told, Calls, NewSubdomains, NewServices
<1>6. CASE \E r \in Present(older) \ Present(newer) :
              f = Finding("service_removed", r, "info", 5, CriticalityOf(p, r))
  BY <1>6 DEF Finding, Told, Calls, NewSubdomains, NewServices
<1>7. CASE \E r \in Changed(older, newer) : f \in ServiceChange(p, r, older.services[r], newer.services[r])
  BY <1>7, ServiceChangeTells DEF Calls
<1> QED
  BY <1>1, <1>2, <1>3, <1>4, <1>5, <1>6, <1>7 DEF Analyzed

\* What has gone, or changed in more than headers and status, is found.
LEMMA GoneIsFound ==
    ASSUME NEW p, NEW older, NEW newer, NEW r,
           \/ r \in older.ips \ newer.ips
           \/ r \in older.subdomains \ newer.subdomains
           \/ r \in Present(older) \ Present(newer)
    PROVE  \E f \in Analyzed(p, older, newer) : f.category \in Going /\ f.resource = r
<1>1. CASE r \in older.ips \ newer.ips
  <2>1. Finding("removed_ip", r, "info", 3, CriticalityOf(p, r)) \in Analyzed(p, older, newer)
    BY <1>1 DEF Analyzed
  <2> QED
    BY <2>1 DEF Finding, Going
<1>2. CASE r \in older.subdomains \ newer.subdomains
  <2>1. Finding("subdomain_removed", r, "info", 5, CriticalityOf(p, r)) \in Analyzed(p, older, newer)
    BY <1>2 DEF Analyzed
  <2> QED
    BY <2>1 DEF Finding, Going
<1>3. CASE r \in Present(older) \ Present(newer)
  <2>1. Finding("service_removed", r, "info", 5, CriticalityOf(p, r)) \in Analyzed(p, older, newer)
    BY <1>3 DEF Analyzed
  <2> QED
    BY <2>1 DEF Finding, Going
<1> QED
  BY <1>1, <1>2, <1>3

LEMMA NothingFound ==
    ASSUME NEW p, NEW older \in Scans, NEW newer \in Scans, Analyzed(p, older, newer) = {}
    PROVE  /\ older.ips = newer.ips
           /\ older.subdomains = newer.subdomains
           /\ Present(older) = Present(newer)
           /\ \A s \in Present(older) :
                LET x == older.services[s]
                    y == newer.services[s]
                IN x.backend = y.backend /\ x.technologies = y.technologies
                   /\ (IsSuccess(y.status) => IsSuccess(x.status))
<1>1. older.ips \ newer.ips = {} /\ older.subdomains \ newer.subdomains = {}
      /\ Present(older) \ Present(newer) = {}
  BY GoneIsFound
<1>2. newer.ips \ older.ips = {} /\ newer.subdomains \ older.subdomains = {}
      /\ Present(newer) \ Present(older) = {}
  <2>1. ASSUME NEW r \in newer.ips \ older.ips
        PROVE  FALSE
    BY <2>1 DEF Analyzed
  <2>2. ASSUME NEW r \in newer.subdomains \ older.subdomains
        PROVE  FALSE
    BY <2>2 DEF Analyzed
  <2>3. ASSUME NEW r \in Present(newer) \ Present(older)
        PROVE  FALSE
    BY <2>3 DEF Analyzed
  <2> QED
    BY <2>1, <2>2, <2>3
<1>3. older.ips = newer.ips /\ older.subdomains = newer.subdomains /\ Present(older) = Present(newer)
  BY <1>1, <1>2
<1>4. ASSUME NEW s \in Present(older), older.services[s] # newer.services[s]
      PROVE  ServiceChange(p, s, older.services[s], newer.services[s]) = {}
  <2>1. s \in Changed(older, newer)
    BY <1>3, <1>4 DEF Changed, Present
  <2> QED
    BY <2>1 DEF Analyzed
<1>5. ASSUME NEW s \in Present(older), older.services[s] # newer.services[s]
      PROVE  /\ older.services[s].backend = newer.services[s].backend
             /\ older.services[s].technologies = newer.services[s].technologies
             /\ ~ BecameAvailable(older.services[s], newer.services[s])
  BY <1>4, <1>5 DEF ServiceChange
<1> QED
  BY <1>3, <1>5 DEF BecameAvailable

(***************************************************************************)
(* What the policy and the history make of it.                             *)
(***************************************************************************)
LEMMA CriticalityType ==
    ASSUME NEW p, NEW r
    PROVE  /\ CriticalityOf(p, r) \in Criticalities
           /\ \A least \in Criticalities : Elevated(CriticalityOf(p, r), least) \in Criticalities
<1>1. CriticalityOf(p, r) \in {"low", "medium", "high", "critical"}
  <2> DEFINE env == EnvironmentOf(p, r)
  <2> HIDE DEF env
  <2> QED
    BY DEF CriticalityOf, env
<1> QED
  BY <1>1 DEF Elevated, Criticalities

LEMMA ToldType ==
    ASSUME NEW p, NEW c \in Categories, NEW r \in Resources
    PROVE  Told(p, c, r) \in Findings /\ Told(p, c, r).state = "new"
<1> USE DEF Finding, Findings, Categories, Severities, States, NewSubdomains, NewServices
<1>1. ASSUME NEW d \in Categories, NEW v \in Severities, NEW n \in Nat, NEW k \in Criticalities
      PROVE  Finding(d, r, v, n, k) \in Findings /\ Finding(d, r, v, n, k).state = "new"
  OBVIOUS
<1>2. NewSubdomain(p, r) \in Findings /\ NewSubdomain(p, r).state = "new"
  BY <1>1, CriticalityType DEF NewSubdomain, Criticalities
<1>3. NewService(p, r) \in Findings /\ NewService(p, r).state = "new"
  BY <1>1, CriticalityType DEF NewService, Criticalities
<1>4. CriticalityOf(p, r) \in Criticalities
  BY CriticalityType
<1> HIDE DEF Finding, Findings
<1>5. CASE c \in {"new_ip", "removed_ip", "subdomain_removed", "service_removed"}
  BY <1>1, <1>4, <1>5 DEF Told
<1>6. CASE c \in NewSubdomains
  BY <1>2, <1>6 DEF Told
<1>7. CASE c \in NewServices
  BY <1>3, <1>7 DEF Told
<1>8. CASE c = "service_became_available"
  BY <1>1, <1>4, <1>8 DEF Told
<1>9. CASE c = "service_backend_changed"
  BY <1>1, <1>4, <1>9 DEF Told
<1>10. CASE c = "service_fingerprint_changed"
  BY <1>1, <1>4, <1>10 DEF Told
<1> QED
  BY <1>5, <1>6, <1>7, <1>8, <1>9, <1>10

LEMMA AdjustedType ==
    ASSUME NEW p, NEW f \in Findings
    PROVE  LET g == Adjusted(p, f)
           IN  /\ g \in Findings
               /\ g.category = f.category /\ g.resource = f.resource
               /\ g.criticality = f.criticality /\ g.state = f.state
<1>1. Milder(f.severity) \in Severities
  BY DEF Milder, Severities, Findings
<1>3. f.score \in Nat
  BY DEF Findings
<1>4. PICK n \in Nat, v \in Severities :
          Adjusted(p, f) = f \/ Adjusted(p, f) = [f EXCEPT !.score = n, !.severity = v]
  <2>1. (IF f.score > 15 THEN f.score - 15 ELSE 0) \in Nat
    BY <1>3
  <2>2. Adjusted(p, f) = f \/ Adjusted(p, f) =
          [f EXCEPT !.score = (IF f.score > 15 THEN f.score - 15 ELSE 0), !.severity = Milder(f.severity)]
    BY DEF Adjusted, Findings
  <2> QED
    BY <1>1, <2>1, <2>2
<1>5. CASE Adjusted(p, f) = f
  BY <1>5
<1>6. CASE Adjusted(p, f) = [f EXCEPT !.score = n, !.severity = v]
  <2> DEFINE g == [f EXCEPT !.score = n, !.severity = v]
  <2>1. /\ g \in Findings
        /\ g.category = f.category /\ g.resource = f.resource
        /\ g.criticality = f.criticality /\ g.state = f.state
    BY DEF Findings
  <2> QED
    BY <1>6, <2>1
<1> QED
  BY <1>4, <1>5, <1>6

\* What the number of earlier reports makes of the state, and adds to the score.
StateAfter(times) == IF times = 0 THEN "new" ELSE IF times = 1 THEN "recurring" ELSE "persistent"
Bonus(times) == IF times = 0 THEN 0 ELSE IF times = 1 THEN 10 ELSE 20

LEMMA RecurredType ==
    ASSUME NEW f \in Findings, f.state = "new", NEW times \in Nat
    PROVE  LET g == Recurred(f, times)
           IN  /\ g \in Findings
               /\ g.category = f.category /\ g.resource = f.resource
               /\ g.state = StateAfter(times) /\ g.score = f.score + Bonus(times)
<1>1. f.score \in Nat
  BY DEF Findings
<1>3. StateAfter(times) \in States /\ f.score + Bonus(times) \in Nat
  BY <1>1 DEF StateAfter, Bonus, States
<1>4. PICK state \in States, score \in Nat : state = StateAfter(times) /\ score = f.score + Bonus(times)
  BY <1>3
<1>5. CASE times = 0
  BY <1>1, <1>5 DEF Recurred, StateAfter, Bonus
<1>6. CASE times # 0
  <2>1. Recurred(f, times) = [f EXCEPT !.state = state, !.score = score]
    <3>1. CASE times = 1
      BY <1>4, <3>1 DEF Recurred, StateAfter, Bonus, Findings
    <3>2. CASE times # 1
      BY <1>4, <1>6, <3>2 DEF Recurred, StateAfter, Bonus, Findings
    <3> QED
      BY <3>1, <3>2
  <2> DEFINE g == [f EXCEPT !.state = state, !.score = score]
  <2>2. /\ g \in Findings
        /\ g.category = f.category /\ g.resource = f.resource
        /\ g.state = state /\ g.score = score
    BY DEF Findings
  <2> QED
    BY <1>4, <2>1, <2>2
<1> QED
  BY <1>5, <1>6

LEMMA AnalyzedType ==
    ASSUME NEW p, NEW older \in Scans, NEW newer \in Scans, NEW f \in Analyzed(p, older, newer)
    PROVE  f \in Findings /\ f.state = "new" /\ Key(f) \in Keys
<1>1. Calls(f.category, f.resource, older, newer) /\ f = Told(p, f.category, f.resource)
  BY AnalyzedTells
<1>2. f.category \in Categories
  BY <1>1 DEF Calls, Categories, NewSubdomains, NewServices, Changes
<1>3. f.resource \in Resources
  BY <1>1 DEF Calls, Resources, Scans, Present, Changed
<1> QED
  BY <1>1, <1>2, <1>3, ToldType DEF Key, Keys

\* A finding with what the baseline takes off its weight.
Weighed(p, c, r) == Adjusted(p, Told(p, c, r))

LEMMA WeighedType ==
    ASSUME NEW p, NEW older \in Scans, NEW newer \in Scans, NEW f \in Analyzed(p, older, newer)
    PROVE  LET b == Adjusted(p, f)
           IN  /\ b = Weighed(p, f.category, f.resource)
               /\ b \in Findings /\ b.state = "new"
               /\ b.category = f.category /\ b.resource = f.resource
<1>1. f \in Findings /\ f.state = "new"
  BY AnalyzedType
<1>2. f = Told(p, f.category, f.resource)
  BY AnalyzedTells
<1> QED
  BY <1>1, <1>2, AdjustedType DEF Weighed

\* An active finding is what is weighed of its key, with its history ...
LEMMA ActiveTells ==
    ASSUME NEW p, NEW older \in Scans, NEW newer \in Scans, NEW time, NEW history \in [Keys -> Nat],
           NEW g \in Report(p, older, newer, time, history).active
    PROVE  LET b == Weighed(p, g.category, g.resource)
           IN  /\ g \in Findings /\ Key(g) \in Keys
               /\ Calls(g.category, g.resource, older, newer)
               /\ b \in Findings
               /\ g = Recurred(b, history[Key(g)])
               /\ ~ Suppresses(p, b, time)
               /\ g.state = StateAfter(history[Key(g)])
               /\ g.score = b.score + Bonus(history[Key(g)])
<1>1. PICK f \in Analyzed(p, older, newer) :
          LET b == Adjusted(p, f) IN ~ Suppresses(p, b, time) /\ g = Recurred(b, history[Key(b)])
  BY DEF Report
<1> DEFINE b == Adjusted(p, f)
<1>2. b = Weighed(p, f.category, f.resource) /\ b \in Findings /\ b.state = "new"
      /\ b.category = f.category /\ b.resource = f.resource
  BY WeighedType
<1>3. Key(f) \in Keys /\ Calls(f.category, f.resource, older, newer)
  BY AnalyzedType, AnalyzedTells
<1>4. Key(b) = Key(f) /\ history[Key(b)] \in Nat
  BY <1>2, <1>3 DEF Key
<1>5. /\ g \in Findings /\ g.category = b.category /\ g.resource = b.resource
      /\ g.state = StateAfter(history[Key(b)]) /\ g.score = b.score + Bonus(history[Key(b)])
  BY <1>1, <1>2, <1>4, RecurredType
<1> HIDE DEF b
<1>6. Key(g) = Key(b)
  BY <1>5 DEF Key
<1>7. Weighed(p, g.category, g.resource) = b
  BY <1>2, <1>5
<1> QED
  BY <1>1, <1>2, <1>3, <1>4, <1>5, <1>6, <1>7 DEF b

\* ... a suppressed one the same without.
LEMMA SuppressedTells ==
    ASSUME NEW p, NEW older \in Scans, NEW newer \in Scans, NEW time, NEW history \in [Keys -> Nat],
           NEW g \in Report(p, older, newer, time, history).suppressed
    PROVE  LET b == Weighed(p, g.category, g.resource)
           IN  /\ g \in Findings /\ Key(g) \in Keys
               /\ Calls(g.category, g.resource, older, newer)
               /\ g = [b EXCEPT !.state = "suppressed"]
               /\ Suppresses(p, b, time)
<1>1. PICK f \in Analyzed(p, older, newer) :
          LET b == Adjusted(p, f) IN Suppresses(p, b, time) /\ g = [b EXCEPT !.state = "suppressed"]
  BY DEF Report
<1> DEFINE b == Adjusted(p, f)
<1>2. b = Weighed(p, f.category, f.resource) /\ b \in Findings /\ b.state = "new"
      /\ b.category = f.category /\ b.resource = f.resource
  BY WeighedType
<1>3. Key(f) \in Keys /\ Calls(f.category, f.resource, older, newer)
  BY AnalyzedType, AnalyzedTells
<1> HIDE DEF b
<1>4. g = [b EXCEPT !.state = "suppressed"]
  BY <1>1 DEF b
<1>5. g \in Findings /\ g.category = b.category /\ g.resource = b.resource
  BY <1>2, <1>4 DEF Findings, States
<1>6. Key(g) = Key(f) /\ Weighed(p, g.category, g.resource) = b
  BY <1>2, <1>5 DEF Key
<1> QED
  BY <1>1, <1>2, <1>3, <1>4, <1>5, <1>6 DEF b

\* Nothing that is found is lost.
LEMMA ReportIsWhole ==
    ASSUME NEW p, NEW older \in Scans, NEW newer \in Scans, NEW time, NEW history \in [Keys -> Nat],
           NEW f \in Analyzed(p, older, newer)
    PROVE  LET rep == Report(p, older, newer, time, history)
           IN  \E g \in rep.active \cup rep.suppressed :
                   g.category = f.category /\ g.resource = f.resource
<1> DEFINE b == Adjusted(p, f)
<1>2. b = Weighed(p, f.category, f.resource) /\ b \in Findings /\ b.state = "new"
      /\ b.category = f.category /\ b.resource = f.resource
  BY WeighedType
<1>3. Key(b) = Key(f) /\ Key(f) \in Keys
  BY <1>2, AnalyzedType DEF Key
<1>4. CASE Suppresses(p, b, time)
  <2>1. [b EXCEPT !.state = "suppressed"] \in Report(p, older, newer, time, history).suppressed
    BY <1>4 DEF Report
  <2> HIDE DEF b
  <2>2. [b EXCEPT !.state = "suppressed"].category = b.category
        /\ [b EXCEPT !.state = "suppressed"].resource = b.resource
    BY <1>2 DEF Findings
  <2> QED
    BY <1>2, <2>1, <2>2
<1>5. CASE ~ Suppresses(p, b, time)
  <2>1. Recurred(b, history[Key(b)]) \in Report(p, older, newer, time, history).active
    BY <1>5 DEF Report
  <2> HIDE DEF b
  <2>2. Recurred(b, history[Key(b)]).category = b.category
        /\ Recurred(b, history[Key(b)]).resource = b.resource
    BY <1>2, <1>3, RecurredType
  <2> QED
    BY <1>2, <2>1, <2>2
<1> QED
  BY <1>4, <1>5

LEMMA ReportType ==
    ASSUME NEW p, NEW older \in Scans, NEW newer \in Scans, NEW time, NEW history \in [Keys -> Nat]
    PROVE  Report(p, older, newer, time, history) \in Reports
<1> DEFINE rep == Report(p, older, newer, time, history)
<1>1. rep = [active |-> rep.active, suppressed |-> rep.suppressed]
  BY DEF Report
<1>2. rep.active \subseteq Findings
  BY ActiveTells
<1>3. rep.suppressed \subseteq Findings
  BY SuppressedTells
<1> HIDE DEF rep
<1>4. rep \in Reports
  BY <1>1, <1>2, <1>3 DEF Reports
<1> QED
  BY <1>4 DEF rep

(***************************************************************************)
(* The timeline                                                            *)
(***************************************************************************)
\* The transitions before the n-th snapshot that showed a key as active, and
\* the history they make.
Showing(key, n) == {j \in 1 .. n - 1 : \E g \in reports[j].active : Key(g) = key}
History(n) == [key \in Keys |-> Cardinality(Showing(key, n))]

\* Every report is the comparison of its two snapshots under the policy, with
\* the history of the reports before it.
TimelineInv ==
    /\ TypeOK
    /\ \A k \in DOMAIN reports :
         reports[k] = Report(policy, snapshots[k], snapshots[k + 1], k + 1, History(k))
    /\ seen = History(Len(snapshots))

LEMMA ShowingType ==
    ASSUME NEW key, NEW n \in Nat \ {0}
    PROVE  /\ IsFiniteSet(Showing(key, n))
           /\ Cardinality(Showing(key, n)) \in Nat
           /\ Cardinality(Showing(key, n)) <= n - 1
<1>1. IsFiniteSet(1 .. n - 1) /\ Cardinality(1 .. n - 1) = n - 1
  BY FS_Interval
<1>2. Showing(key, n) \subseteq 1 .. n - 1
  BY DEF Showing
<1> QED
  BY <1>1, <1>2, FS_Subset, FS_CardinalityType

LEMMA HistoryType ==
    ASSUME NEW n \in Nat \ {0}
    PROVE  History(n) \in [Keys -> Nat]
BY ShowingType DEF History

LEMMA TimelineInit == Init => TimelineInv
<1> SUFFICES ASSUME Init
             PROVE  TimelineInv
  OBVIOUS
<1>1. PICK s \in Scans : snapshots = <<s>>
  BY DEF Init
<1>2. Len(snapshots) = 1 /\ snapshots \in Seq(Scans)
  BY <1>1
<1>3. reports = <<>> /\ reports \in Seq(Reports) /\ Len(reports) = 0 /\ DOMAIN reports = {}
  BY DEF Init
<1>4. \A key : Showing(key, 1) = {}
  BY DEF Showing
<1>5. seen = History(1)
  BY <1>4, FS_EmptySet DEF Init, History
<1>6. seen \in [Keys -> 0 .. MaxSnapshots]
  BY DriftAssumption DEF Init
<1> QED
  BY <1>2, <1>3, <1>5, <1>6, DriftAssumption DEF TimelineInv, TypeOK, Init

LEMMA TimelineStep ==
    ASSUME TimelineInv, NEW scan \in Scans, CompareNext(scan)
    PROVE  TimelineInv'
<1>1. PICK m \in Nat \ {0} : m = Len(snapshots)
  BY DEF TimelineInv, TypeOK
<1>2. PICK rep : rep = Report(policy, snapshots[m], scan, m + 1, seen)
  OBVIOUS
<1>3. /\ m + 1 <= MaxSnapshots
      /\ snapshots' = Append(snapshots, scan)
      /\ reports' = Append(reports, rep)
      /\ seen' = [k \in Keys |-> IF k \in {Key(f) : f \in rep.active} THEN seen[k] + 1 ELSE seen[k]]
      /\ policy' = policy
  BY <1>1, <1>2 DEF CompareNext
<1>4. snapshots \in Seq(Scans) /\ reports \in Seq(Reports) /\ Len(reports) = m - 1 /\ seen = History(m)
  BY <1>1 DEF TimelineInv, TypeOK
<1>5. snapshots[m] \in Scans /\ seen \in [Keys -> Nat]
  BY <1>1, <1>4, HistoryType
<1>6. rep \in Reports
  BY <1>2, <1>5, ReportType
<1>7. /\ snapshots' \in Seq(Scans) /\ Len(snapshots') = m + 1
      /\ snapshots'[m + 1] = scan /\ \A k \in 1 .. m : snapshots'[k] = snapshots[k]
  BY <1>1, <1>3, <1>4
<1>8. /\ reports' \in Seq(Reports) /\ Len(reports') = m /\ DOMAIN reports' = 1 .. m
      /\ reports'[m] = rep /\ \A k \in 1 .. m - 1 : reports'[k] = reports[k]
  BY <1>3, <1>4, <1>6
<1>9. \A n \in 1 .. m : \A key : Showing(key, n)' = Showing(key, n)
  BY <1>8 DEF Showing
<1>10. \A n \in 1 .. m : History(n)' = History(n)
  BY <1>9 DEF History
<1>11. ASSUME NEW k \in 1 .. m
       PROVE  reports'[k] = Report(policy', snapshots'[k], snapshots'[k + 1], k + 1, History(k)')
  <2>1. CASE k = m
    BY <2>1, <1>2, <1>3, <1>4, <1>7, <1>8, <1>10
  <2>2. CASE k # m
    <3>1. k \in 1 .. m - 1 /\ k + 1 \in 1 .. m /\ k \in DOMAIN reports
      BY <2>2, <1>4
    <3> QED
      BY <3>1, <1>3, <1>7, <1>8, <1>10 DEF TimelineInv
  <2> QED
    BY <2>1, <2>2
<1>12. ASSUME NEW key \in Keys
       PROVE  seen'[key] = Cardinality(Showing(key, m + 1)') /\ seen'[key] \in 0 .. MaxSnapshots
  <2>1. IsFiniteSet(Showing(key, m))
        /\ Cardinality(Showing(key, m)) \in Nat /\ Cardinality(Showing(key, m)) <= m - 1
    BY ShowingType
  <2>4. m \notin Showing(key, m)
    BY DEF Showing
  <2>5. seen[key] = Cardinality(Showing(key, m))
    BY <1>4 DEF History
  <2>2. CASE key \in {Key(f) : f \in rep.active}
    <3>1. Showing(key, m + 1)' = Showing(key, m) \cup {m}
      BY <2>2, <1>8 DEF Showing
    <3>2. Cardinality(Showing(key, m) \cup {m}) = Cardinality(Showing(key, m)) + 1
      BY <2>1, <2>4, FS_AddElement
    <3>3. seen'[key] = seen[key] + 1
      BY <2>2, <1>3
    <3>4. Cardinality(Showing(key, m + 1)') = Cardinality(Showing(key, m)) + 1
      BY <3>1, <3>2
    <3> HIDE DEF Showing
    <3> QED
      BY <3>3, <3>4, <2>1, <2>5, <1>3, DriftAssumption
  <2>3. CASE key \notin {Key(f) : f \in rep.active}
    <3>1. Showing(key, m + 1)' = Showing(key, m)
      BY <2>3, <1>8 DEF Showing
    <3> QED
      BY <3>1, <2>1, <2>3, <2>5, <1>3, DriftAssumption
  <2> QED
    BY <2>2, <2>3
<1>13. seen' = History(m + 1)' /\ seen' \in [Keys -> 0 .. MaxSnapshots]
  BY <1>3, <1>12 DEF History
<1>14. TypeOK'
  BY <1>3, <1>7, <1>8, <1>13, DriftAssumption DEF TypeOK, TimelineInv
<1> QED
  BY <1>7, <1>8, <1>11, <1>13, <1>14 DEF TimelineInv

\* Every report of a timeline is the comparison of its two snapshots.
LEMMA TimelineHolds == DriftSpec => []TimelineInv
<1>1. TimelineInv /\ [Next]_vars => TimelineInv'
  <2>1. TimelineInv /\ Next => TimelineInv'
    BY TimelineStep DEF Next
  <2>2. TimelineInv /\ UNCHANGED vars => TimelineInv'
    <3> SUFFICES ASSUME TimelineInv, UNCHANGED vars
                 PROVE  TimelineInv'
      OBVIOUS
    <3>1. \A n : History(n)' = History(n)
      BY DEF History, Showing, vars
    <3> QED
      BY <3>1 DEF TimelineInv, TypeOK, vars
  <2> QED
    BY <2>1, <2>2
<1> QED
  BY <1>1, TimelineInit, PTL DEF DriftSpec

\* The type invariant of the timeline.
THEOREM TimelineTypeCorrect == DriftSpec => []TypeOK
BY TimelineHolds, PTL DEF TimelineInv

\* What is known of a transition.
LEMMA TransitionTells ==
    ASSUME TimelineInv, NEW k \in DOMAIN reports
    PROVE  /\ k \in Nat \ {0} /\ k \in 1 .. Len(snapshots) - 1
           /\ snapshots[k] \in Scans /\ snapshots[k + 1] \in Scans
           /\ reports[k] = Report(policy, snapshots[k], snapshots[k + 1], k + 1, History(k))
           /\ reports[k] \in Reports
           /\ History(k) \in [Keys -> Nat]
<1>1. /\ snapshots \in Seq(Scans) /\ reports \in Seq(Reports) /\ Len(reports) = Len(snapshots) - 1
      /\ Len(snapshots) \in Nat
  BY DEF TimelineInv, TypeOK
<1>2. k \in 1 .. Len(snapshots) - 1
  BY <1>1
<1>3. snapshots[k] \in Scans /\ snapshots[k + 1] \in Scans /\ reports[k] \in Reports
  BY <1>1, <1>2
<1> QED
  BY <1>1, <1>2, <1>3, HistoryType DEF TimelineInv

LEMMA ActiveFindings ==
    ASSUME TimelineInv, NEW k \in DOMAIN reports, NEW f \in reports[k].active
    PROVE  LET b     == Weighed(policy, f.category, f.resource)
               times == Cardinality(Showing(Key(f), k))
           IN  /\ f \in Findings /\ Key(f) \in Keys
               /\ Calls(f.category, f.resource, snapshots[k], snapshots[k + 1])
               /\ b \in Findings
               /\ times \in Nat
               /\ f = Recurred(b, times)
               /\ ~ Suppresses(policy, b, k + 1)
               /\ f.state = StateAfter(times)
               /\ f.score = b.score + Bonus(times)
<1>1. /\ snapshots[k] \in Scans /\ snapshots[k + 1] \in Scans /\ k \in Nat \ {0}
      /\ reports[k] = Report(policy, snapshots[k], snapshots[k + 1], k + 1, History(k))
      /\ History(k) \in [Keys -> Nat]
  BY TransitionTells
<1>2. Key(f) \in Keys
  BY <1>1, ActiveTells
<1>3. History(k)[Key(f)] = Cardinality(Showing(Key(f), k))
  BY <1>2 DEF History
<1>4. Cardinality(Showing(Key(f), k)) \in Nat
  BY <1>1, ShowingType
<1> QED
  BY <1>1, <1>3, <1>4, ActiveTells

LEMMA SuppressedFindings ==
    ASSUME TimelineInv, NEW k \in DOMAIN reports, NEW f \in reports[k].suppressed
    PROVE  LET b == Weighed(policy, f.category, f.resource)
           IN  /\ f \in Findings /\ Key(f) \in Keys
               /\ Calls(f.category, f.resource, snapshots[k], snapshots[k + 1])
               /\ f = [b EXCEPT !.state = "suppressed"]
               /\ Suppresses(policy, b, k + 1)
<1>1. PICK older \in Scans, newer \in Scans : older = snapshots[k] /\ newer = snapshots[k + 1]
  BY TransitionTells
<1>2. /\ reports[k] = Report(policy, older, newer, k + 1, History(k))
      /\ History(k) \in [Keys -> Nat]
  BY <1>1, TransitionTells
<1>3. f \in Report(policy, older, newer, k + 1, History(k)).suppressed
  BY <1>2
<1> QED
  BY <1>1, <1>2, <1>3, SuppressedTells, Zenon

LEMMA FoundIsReported ==
    ASSUME TimelineInv, NEW k \in DOMAIN reports,
           NEW f \in Analyzed(policy, snapshots[k], snapshots[k + 1])
    PROVE  \E g \in Reported(k) : g.category = f.category /\ g.resource = f.resource
BY TransitionTells, ReportIsWhole DEF Reported

LEMMA ReportedFindings ==
    ASSUME TimelineInv, NEW k \in DOMAIN reports, NEW f \in Reported(k)
    PROVE  /\ f \in Findings
           /\ Calls(f.category, f.resource, snapshots[k], snapshots[k + 1])
BY ActiveFindings, SuppressedFindings DEF Reported

LEMMA HistoryTold == TimelineInv => StateTellsHistory
<1> SUFFICES ASSUME TimelineInv, NEW k \in DOMAIN reports, NEW f \in reports[k].active
             PROVE  LET before == {j \in 1 .. k - 1 : \E g \in reports[j].active : Key(g) = Key(f)}
                    IN  f.state = CASE Cardinality(before) = 0 -> "new"
                                    [] Cardinality(before) = 1 -> "recurring"
                                    [] OTHER -> "persistent"
  BY DEF StateTellsHistory
<1>1. PICK times \in Nat : times = Cardinality(Showing(Key(f), k)) /\ f.state = StateAfter(times)
  BY ActiveFindings
<1>2. f.state = CASE times = 0 -> "new" [] times = 1 -> "recurring" [] OTHER -> "persistent"
  BY <1>1 DEF StateAfter
<1> QED
  BY <1>1, <1>2 DEF Showing

\* A key that was shown has been shown more often afterwards.
LEMMA ShownMoreOften ==
    ASSUME NEW key, NEW j \in Nat \ {0}, NEW k \in Nat \ {0}, j < k, j \in Showing(key, k)
    PROVE  Cardinality(Showing(key, j)) + 1 <= Cardinality(Showing(key, k))
<1>1. IsFiniteSet(Showing(key, j)) /\ IsFiniteSet(Showing(key, k))
      /\ Cardinality(Showing(key, j)) \in Nat /\ Cardinality(Showing(key, k)) \in Nat
  BY ShowingType
<1>2. Showing(key, j) \cup {j} \subseteq Showing(key, k) /\ j \notin Showing(key, j)
  BY DEF Showing
<1>3. Cardinality(Showing(key, j) \cup {j}) = Cardinality(Showing(key, j)) + 1
  BY <1>1, <1>2, FS_AddElement
<1> QED
  BY <1>1, <1>2, <1>3, FS_Subset

LEMMA ScoresGrow == TimelineInv => ScoresGrowWithinBonus
<1> SUFFICES ASSUME TimelineInv, NEW j \in DOMAIN reports, NEW k \in DOMAIN reports, j < k,
                    NEW f \in reports[j].active, NEW g \in reports[k].active, Key(f) = Key(g)
             PROVE  f.score <= g.score /\ g.score <= f.score + 20
  BY DEF ScoresGrowWithinBonus
<1>1. f.category = g.category /\ f.resource = g.resource
  BY DEF Key
<1> DEFINE b == Weighed(policy, f.category, f.resource)
<1>2. PICK once \in Nat : once = Cardinality(Showing(Key(f), j)) /\ f.score = b.score + Bonus(once)
  BY ActiveFindings
<1>3. PICK again \in Nat : again = Cardinality(Showing(Key(g), k)) /\ g.score = b.score + Bonus(again)
  BY <1>1, ActiveFindings
<1>4. j \in Nat \ {0} /\ k \in Nat \ {0} /\ j \in Showing(Key(g), k)
  BY TransitionTells DEF Showing
<1>5. once + 1 <= again
  BY <1>2, <1>3, <1>4, ShownMoreOften
<1>6. b \in Findings
  BY ActiveFindings
<1>7. b.score \in Nat
  BY <1>6 DEF Findings
<1> HIDE DEF b
<1> QED
  BY <1>2, <1>3, <1>5, <1>7 DEF Bonus

LEMMA UniqueKeys == TimelineInv => KeysAreUnique
<1> SUFFICES ASSUME TimelineInv, NEW k \in DOMAIN reports, NEW f \in Reported(k), NEW g \in Reported(k),
                    Key(f) = Key(g)
             PROVE  f = g
  BY DEF KeysAreUnique
<1>1. f.category = g.category /\ f.resource = g.resource
  BY DEF Key
<1>2. CASE f \in reports[k].active /\ g \in reports[k].active
  BY <1>1, <1>2, ActiveFindings
<1>3. CASE f \in reports[k].suppressed /\ g \in reports[k].suppressed
  BY <1>1, <1>3, SuppressedFindings
<1>4. CASE f \in reports[k].active /\ g \in reports[k].suppressed
  BY <1>1, <1>4, ActiveFindings, SuppressedFindings
<1>5. CASE f \in reports[k].suppressed /\ g \in reports[k].active
  BY <1>1, <1>5, ActiveFindings, SuppressedFindings
<1> QED
  BY <1>2, <1>3, <1>4, <1>5 DEF Reported

LEMMA SilenceTells == TimelineInv => SilenceMeansSame
<1> SUFFICES ASSUME TimelineInv, NEW k \in DOMAIN reports, Reported(k) = {}
             PROVE  LET older == snapshots[k]
                        newer == snapshots[k + 1]
                    IN /\ older.ips = newer.ips
                       /\ older.subdomains = newer.subdomains
                       /\ Present(older) = Present(newer)
                       /\ \A s \in Present(older) :
                            LET x == older.services[s]
                                y == newer.services[s]
                            IN x.backend = y.backend /\ x.technologies = y.technologies
                               /\ (IsSuccess(y.status) => IsSuccess(x.status))
  BY DEF SilenceMeansSame
<1>1. Analyzed(policy, snapshots[k], snapshots[k + 1]) = {}
  BY FoundIsReported
<1>2. PICK older \in Scans, newer \in Scans : older = snapshots[k] /\ newer = snapshots[k + 1]
  BY TransitionTells
<1>3. Analyzed(policy, older, newer) = {}
  BY <1>1, <1>2
<1> QED
  BY <1>2, <1>3, NothingFound

\* What the category of a finding says about the two scans.
LEMMA CallsTell ==
    ASSUME TimelineInv, NEW k \in DOMAIN reports, NEW c, NEW r,
           Calls(c, r, snapshots[k], snapshots[k + 1])
    PROVE  /\ c \in Appearing => r \notin At(k) /\ r \in At(k + 1)
           /\ c \in Going => r \in At(k) /\ r \notin At(k + 1)
           /\ c \in Changes => r \in At(k) /\ r \in At(k + 1)
           /\ c \in Appearing \cup Going \cup Changes
<1>1. PICK older \in Scans, newer \in Scans : older = snapshots[k] /\ newer = snapshots[k + 1]
  BY TransitionTells
<1>2. /\ older.ips \subseteq Ips /\ newer.ips \subseteq Ips
      /\ older.subdomains \subseteq Subdomains /\ newer.subdomains \subseteq Subdomains
      /\ Present(older) \subseteq Services /\ Present(newer) \subseteq Services
  BY DEF Scans, Present
<1>3. /\ At(k) = older.ips \cup older.subdomains \cup Present(older)
      /\ At(k + 1) = newer.ips \cup newer.subdomains \cup Present(newer)
  BY <1>1 DEF At
<1>4. CASE r \in newer.ips \ older.ips /\ c = "new_ip"
  BY <1>2, <1>3, <1>4, DriftAssumption DEF Appearing, Going, Changes
<1>5. CASE r \in older.ips \ newer.ips /\ c = "removed_ip"
  BY <1>2, <1>3, <1>5, DriftAssumption DEF Appearing, Going, Changes
<1>6. CASE r \in newer.subdomains \ older.subdomains /\ c \in NewSubdomains
  BY <1>2, <1>3, <1>6, DriftAssumption DEF Appearing, Going, Changes, NewSubdomains
<1>7. CASE r \in older.subdomains \ newer.subdomains /\ c = "subdomain_removed"
  BY <1>2, <1>3, <1>7, DriftAssumption DEF Appearing, Going, Changes
<1>8. CASE r \in Present(newer) \ Present(older) /\ c \in NewServices
  BY <1>2, <1>3, <1>8, DriftAssumption DEF Appearing, Going, Changes, NewServices
<1>9. CASE r \in Present(older) \ Present(newer) /\ c = "service_removed"
  BY <1>2, <1>3, <1>9, DriftAssumption DEF Appearing, Going, Changes
<1>10. CASE r \in Changed(older, newer) /\ c \in Changes
  BY <1>2, <1>3, <1>10, DriftAssumption DEF Appearing, Going, Changes, Changed
<1> QED
  BY <1>1, <1>4, <1>5, <1>6, <1>7, <1>8, <1>9, <1>10 DEF Calls

\* A resource that goes is reported.
LEMMA GoneIsReported ==
    ASSUME TimelineInv, NEW k \in DOMAIN reports, NEW r \in At(k), r \notin At(k + 1)
    PROVE  \E h \in Reported(k) : h.category \in Going /\ h.resource = r
<1>1. \/ r \in snapshots[k].ips \ snapshots[k + 1].ips
      \/ r \in snapshots[k].subdomains \ snapshots[k + 1].subdomains
      \/ r \in Present(snapshots[k]) \ Present(snapshots[k + 1])
  BY DEF At
<1>2. PICK f \in Analyzed(policy, snapshots[k], snapshots[k + 1]) : f.category \in Going /\ f.resource = r
  BY <1>1, GoneIsFound
<1> QED
  BY <1>2, FoundIsReported

\* Of two snapshots of which only the first has it, two neighbours do so.
LEMMA GoesBetween ==
    ASSUME NEW a \in Nat, NEW b \in Nat, a < b, NEW r, r \in At(a), r \notin At(b)
    PROVE  \E i \in a .. b - 1 : r \in At(i) /\ r \notin At(i + 1)
<1> DEFINE missing == {n \in a .. b : r \notin At(n)}
<1>1. missing \in SUBSET Nat /\ b \in missing
  OBVIOUS
<1>2. PICK m \in missing : \A n \in missing : m <= n
  BY <1>1, Least
<1>3. m \in a .. b /\ m # a /\ m - 1 \in a .. b /\ m - 1 \notin missing
  BY <1>2
<1>4. m - 1 \in a .. b - 1 /\ r \in At(m - 1) /\ (m - 1) + 1 = m /\ r \notin At(m)
  BY <1>2, <1>3
<1> QED
  BY <1>4

LEMMA AppearanceTells == TimelineInv => AppearsAfterGoing
<1> SUFFICES ASSUME TimelineInv, NEW j \in DOMAIN reports, NEW k \in DOMAIN reports, j < k,
                    NEW f \in Reported(j), NEW g \in Reported(k),
                    f.category \in Appearing, g.category \in Appearing, f.resource = g.resource
             PROVE  \E i \in j + 1 .. k - 1 : \E h \in Reported(i) :
                        h.category \in Going /\ h.resource = f.resource
  BY DEF AppearsAfterGoing
<1>1. f.resource \in At(j + 1) /\ f.resource \notin At(k)
  BY ReportedFindings, CallsTell
<1>2. j \in Nat /\ k \in Nat /\ DOMAIN reports = 1 .. Len(reports)
  BY TransitionTells DEF TimelineInv, TypeOK
<1>3. j + 1 < k
  <2>1. j + 1 # k
    BY <1>1
  <2> QED
    BY <1>2, <2>1
<1>6. PICK next \in Nat : next = j + 1
  BY <1>2
<1>7. next < k /\ f.resource \in At(next)
  BY <1>1, <1>3, <1>6
<1>8. PICK i \in next .. k - 1 : f.resource \in At(i) /\ f.resource \notin At(i + 1)
  BY <1>1, <1>2, <1>7, GoesBetween
<1>4. i \in j + 1 .. k - 1 /\ f.resource \in At(i) /\ f.resource \notin At(i + 1)
  BY <1>6, <1>8
<1>5. i \in DOMAIN reports
  BY <1>2, <1>4
<1> QED
  BY <1>4, <1>5, GoneIsReported

(***************************************************************************)
(* Episodes                                                                *)
(***************************************************************************)
\* An episode is a group of the findings active in a transition.
LEMMA EpisodeTells ==
    ASSUME NEW k, NEW e \in EpisodesOf(k)
    PROVE  /\ e = Episode(k, e.findings)
           /\ e.findings \subseteq reports[k].active /\ e.findings # {}
           /\ \E a : e.findings = {f \in reports[k].active : Affinity(f) = a}
           /\ e.started = k /\ e.ended = k + 1
           /\ e.resources = {f.resource : f \in e.findings}
<1>1. PICK g \in reports[k].active :
          e = Episode(k, {f \in reports[k].active : Affinity(f) = Affinity(g)})
  BY DEF EpisodesOf
<1>2. /\ e.findings = {f \in reports[k].active : Affinity(f) = Affinity(g)}
      /\ e.started = k /\ e.ended = k + 1
      /\ e.resources = {f.resource : f \in e.findings}
  BY <1>1 DEF Episode
<1> QED
  BY <1>1, <1>2

\* Findings about one resource are in one group.
LEMMA EpisodesShareNothing ==
    ASSUME NEW k, NEW d \in EpisodesOf(k), NEW e \in EpisodesOf(k),
           d.resources \cap e.resources # {}
    PROVE  d = e
<1>1. PICK r : r \in d.resources /\ r \in e.resources
  OBVIOUS
<1>2. PICK f \in d.findings, g \in e.findings : f.resource = r /\ g.resource = r
  BY <1>1, EpisodeTells
<1>3. Affinity(f) = Affinity(g)
  BY <1>2 DEF Affinity
<1>4. PICK a : d.findings = {x \in reports[k].active : Affinity(x) = a}
  BY EpisodeTells
<1>5. PICK b : e.findings = {x \in reports[k].active : Affinity(x) = b}
  BY EpisodeTells
<1>6. d.findings = e.findings
  BY <1>2, <1>3, <1>4, <1>5
<1>7. d = Episode(k, d.findings) /\ e = Episode(k, e.findings)
  BY EpisodeTells
<1> QED
  BY <1>6, <1>7

LEMMA EpisodesDiffer == TimelineInv => EpisodesAreDistinct
<1>1. ASSUME NEW d \in Episodes, NEW e \in Episodes, d.id = e.id
      PROVE  d = e
  <2>1. PICK j \in DOMAIN reports, k \in DOMAIN reports : d \in EpisodesOf(j) /\ e \in EpisodesOf(k)
    BY DEF Episodes
  <2>2. d = Episode(j, d.findings) /\ e = Episode(k, e.findings)
    BY <2>1, EpisodeTells
  <2>3. d.id = ClusterId(j, d.findings) /\ e.id = ClusterId(k, e.findings)
    BY <2>2 DEF Episode
  <2>7. d.id.started = j /\ d.id.resources = {f.resource : f \in d.findings}
    BY <2>3 DEF ClusterId
  <2>8. e.id.started = k /\ e.id.resources = {f.resource : f \in e.findings}
    BY <2>3 DEF ClusterId
  <2>4. j = k /\ {f.resource : f \in d.findings} = {f.resource : f \in e.findings}
    BY <1>1, <2>7, <2>8
  <2>5. d.findings # {} /\ d.resources = {f.resource : f \in d.findings}
        /\ e.resources = {f.resource : f \in e.findings}
    BY <2>1, EpisodeTells
  <2>6. d.resources \cap e.resources # {}
    BY <2>4, <2>5
  <2> QED
    BY <2>1, <2>4, <2>6, EpisodesShareNothing
<1> QED
  BY <1>1, EpisodesShareNothing DEF EpisodesAreDistinct

LEMMA EpisodeHistoryTold == TimelineInv => EpisodeStateTellsHistory
<1> SUFFICES ASSUME TimelineInv, NEW k \in DOMAIN reports, NEW e \in EpisodesOf(k)
             PROVE  e.state = IF \E f \in e.findings : Cardinality(Showing(Key(f), k)) >= 2 THEN "persistent"
                              ELSE IF \E f \in e.findings : Cardinality(Showing(Key(f), k)) = 1 THEN "recurring"
                              ELSE "new"
  BY DEF EpisodeStateTellsHistory, Showing
<1>1. e.findings \subseteq reports[k].active /\ e = Episode(k, e.findings)
  BY EpisodeTells
<1>2. e.state = EpisodeState(e.findings)
  BY <1>1 DEF Episode
<1>3. ASSUME NEW f \in e.findings
      PROVE  /\ f.state = "persistent" <=> Cardinality(Showing(Key(f), k)) >= 2
             /\ f.state = "recurring" <=> Cardinality(Showing(Key(f), k)) = 1
  <2>1. PICK times \in Nat : times = Cardinality(Showing(Key(f), k)) /\ f.state = StateAfter(times)
    BY <1>1, ActiveFindings
  <2> QED
    BY <2>1 DEF StateAfter
<1> QED
  BY <1>2, <1>3 DEF EpisodeState

\* The states and scores of findings and episodes are those of their history.
THEOREM StatesAreTrue == DriftSpec => []StatesTellHistory
<1>1. TimelineInv => StatesTellHistory
  BY HistoryTold, ScoresGrow, EpisodeHistoryTold DEF StatesTellHistory
<1> QED
  BY <1>1, TimelineHolds, PTL

\* What appears twice has gone in between, silence means that nothing changed,
\* and no row of findings or episodes stands for two.
THEOREM RowsAreTrue == DriftSpec => []RowsTellChanges
<1>1. TimelineInv => RowsTellChanges
  BY AppearanceTells, SilenceTells, UniqueKeys, EpisodesDiffer DEF RowsTellChanges
<1> QED
  BY <1>1, TimelineHolds, PTL

(***************************************************************************)
(* The exposure graph                                                      *)
(***************************************************************************)
Parts ==
    {EmptyGraph, FromSnapshot(snapshots[Len(snapshots)], Len(snapshots)), FromTimeline}
        \cup {FromEpisode(e) : e \in Episodes}

\* What is merged is what the parts have.
LEMMA MergedTells ==
    /\ DOMAIN FullGraph.nodes = UNION {DOMAIN g.nodes : g \in Parts}
    /\ FullGraph.edges = UNION {g.edges : g \in Parts}
    /\ \A n \in DOMAIN FullGraph.nodes : FullGraph.nodes[n] = UNION {SeenIn(g, n) : g \in Parts}
BY DEF FullGraph, Merged, Parts

SnapshotParts(scan) ==
    {ResourceNode(a) : a \in scan.ips} \cup {HostNode(h) : h \in scan.subdomains \cup {Target}}
    \cup {Parent(s) : s \in Present(scan)} \cup {ServiceNode(s) : s \in Present(scan)}
    \cup {Node("technology", t) : t \in UNION {scan.services[s].technologies : s \in Present(scan)}}

LEMMA SnapshotGraph ==
    ASSUME NEW scan, NEW time
    PROVE  LET g == FromSnapshot(scan, time)
           IN  /\ DOMAIN g.nodes = SnapshotParts(scan) \cup {TargetNode}
               /\ \A n \in DOMAIN g.nodes : g.nodes[n] = {time}
               /\ g.edges =
                     {Edge(TargetNode, "contains", HostNode(h)) : h \in scan.subdomains \cup {Target}}
                     \cup {Edge(HostNode(h), "resolves_to", ResourceNode(a)) :
                              h \in scan.subdomains \cup {Target}, a \in scan.ips}
                     \cup {Edge(Parent(s), "exposes", ServiceNode(s)) : s \in Present(scan)}
                     \cup UNION {{Edge(ServiceNode(s), "fingerprints_as", Node("technology", t)) :
                                     t \in scan.services[s].technologies} : s \in Present(scan)}
BY DEF FromSnapshot, SnapshotParts

LEMMA TimelineGraph ==
    LET about == {r \in Resources : Reporting(r) # {}}
        g     == FromTimeline
    IN  /\ DOMAIN g.nodes = {ResourceNode(r) : r \in about} \cup {TargetNode}
        /\ \A n \in DOMAIN g.nodes :
              g.nodes[n] = IF n = TargetNode THEN {} ELSE UNION {{k, k + 1} : k \in Reporting(n[2])}
        /\ g.edges = {Edge(TargetNode, "belongs_to", ResourceNode(r)) : r \in about}
BY DEF FromTimeline

LEMMA EpisodeGraph ==
    ASSUME NEW e
    PROVE  LET g     == FromEpisode(e)
               here  == Node("episode", e.id)
               parts == {ResourceNode(r) : r \in e.resources}
           IN  /\ DOMAIN g.nodes = parts \cup {here, TargetNode}
               /\ \A n \in DOMAIN g.nodes :
                     g.nodes[n] = IF n = TargetNode THEN {} ELSE {e.started, e.ended}
               /\ g.edges = {Edge(TargetNode, "contains", here)}
                              \cup {Edge(n, "participates_in", here) : n \in parts}
BY DEF FromEpisode

\* No step leads out of the nodes, and each leads one edge further.
LEMMA AroundTells ==
    ASSUME NEW g, NEW near
    PROVE  /\ near \subseteq Around(g, near)
           /\ \A e \in g.edges : e[1] \in near => e[3] \in Around(g, near)
           /\ \A e \in g.edges : e[3] \in near => e[1] \in Around(g, near)
           /\ \A all : near \subseteq all /\ (\A e \in g.edges : {e[1], e[3]} \subseteq all)
                       => Around(g, near) \subseteq all
BY DEF Around

LEMMA EdgesJoinNodes ==
    ASSUME TimelineInv
    PROVE  \A e \in FullGraph.edges : {e[1], e[3]} \subseteq DOMAIN FullGraph.nodes
<1> SUFFICES ASSUME NEW g \in Parts, NEW e \in g.edges
             PROVE  {e[1], e[3]} \subseteq DOMAIN g.nodes
  BY MergedTells
<1> USE DEF Edge
<1>1. CASE g = EmptyGraph
  BY <1>1 DEF EmptyGraph
<1>2. CASE g = FromSnapshot(snapshots[Len(snapshots)], Len(snapshots))
  <2> DEFINE scan == snapshots[Len(snapshots)]
  <2>1. CASE \E h \in scan.subdomains \cup {Target} : e = Edge(TargetNode, "contains", HostNode(h))
    BY <1>2, <2>1, SnapshotGraph DEF SnapshotParts
  <2>2. CASE \E h \in scan.subdomains \cup {Target}, a \in scan.ips :
                e = Edge(HostNode(h), "resolves_to", ResourceNode(a))
    BY <1>2, <2>2, SnapshotGraph DEF SnapshotParts
  <2>3. CASE \E s \in Present(scan) : e = Edge(Parent(s), "exposes", ServiceNode(s))
    BY <1>2, <2>3, SnapshotGraph DEF SnapshotParts
  <2>4. CASE \E s \in Present(scan) : \E t \in scan.services[s].technologies :
                e = Edge(ServiceNode(s), "fingerprints_as", Node("technology", t))
    BY <1>2, <2>4, SnapshotGraph DEF SnapshotParts
  <2> QED
    BY <1>2, <2>1, <2>2, <2>3, <2>4, SnapshotGraph
<1>3. CASE g = FromTimeline
  BY <1>3, TimelineGraph
<1>4. CASE \E x \in Episodes : g = FromEpisode(x)
  <2>1. PICK x \in Episodes : g = FromEpisode(x)
    BY <1>4
  <2> DEFINE here == Node("episode", x.id)
             parts == {ResourceNode(r) : r \in x.resources}
  <2>2. DOMAIN g.nodes = parts \cup {here, TargetNode}
        /\ g.edges = {Edge(TargetNode, "contains", here)} \cup {Edge(n, "participates_in", here) : n \in parts}
    BY <2>1, EpisodeGraph
  <2> HIDE DEF here, parts
  <2> QED
    BY <2>2
<1> QED
  BY <1>1, <1>2, <1>3, <1>4 DEF Parts

LEMMA GraphConnected == TimelineInv => GraphIsConnected
<1> SUFFICES ASSUME TimelineInv
             PROVE  GraphIsConnected
  OBVIOUS
<1> DEFINE all  == DOMAIN FullGraph.nodes
           one  == Around(FullGraph, {TargetNode})
           two  == Around(FullGraph, one)
           three == Around(FullGraph, two)
<1>1. \A e \in FullGraph.edges : {e[1], e[3]} \subseteq all
  BY EdgesJoinNodes
<1>2. TargetNode \in all
  <2>1. EmptyGraph \in Parts /\ TargetNode \in DOMAIN EmptyGraph.nodes
    BY DEF Parts, EmptyGraph
  <2> QED
    BY <2>1, MergedTells
<1> HIDE DEF all
<1>3. one \subseteq all
  BY <1>1, <1>2, AroundTells
<1>12. \A x, k, y : Edge(x, k, y)[1] = x /\ Edge(x, k, y)[3] = y
  BY DEF Edge
<1>4. TargetNode \in one /\ \A k, y : Edge(TargetNode, k, y) \in FullGraph.edges => y \in one
  BY <1>12, AroundTells
<1> HIDE DEF one
<1>5. two \subseteq all
  BY <1>1, <1>3, AroundTells
<1>6. /\ one \subseteq two
      /\ \A x, k, y : Edge(x, k, y) \in FullGraph.edges => (x \in one => y \in two) /\ (y \in one => x \in two)
  BY <1>12, AroundTells
<1> HIDE DEF two
<1>7. three \subseteq all
  BY <1>1, <1>5, AroundTells
<1>8. two \subseteq three /\ \A x, k, y : Edge(x, k, y) \in FullGraph.edges => (x \in two => y \in three)
  BY <1>12, AroundTells
<1> HIDE DEF three
<1>9. ASSUME NEW g \in Parts, NEW n \in DOMAIN g.nodes
      PROVE  n \in three
  <2>0. g.edges \subseteq FullGraph.edges
    BY MergedTells
  <2>1. CASE n = TargetNode
    BY <2>1, <1>4, <1>6, <1>8
  <2>2. CASE g = FromSnapshot(snapshots[Len(snapshots)], Len(snapshots))
    <3>1. PICK scan \in Scans : scan = snapshots[Len(snapshots)]
      BY DEF TimelineInv, TypeOK
    <3>2. /\ n \in SnapshotParts(scan) \cup {TargetNode}
          /\ \A h \in scan.subdomains \cup {Target} :
                Edge(TargetNode, "contains", HostNode(h)) \in FullGraph.edges
          /\ \A h \in scan.subdomains \cup {Target}, a \in scan.ips :
                Edge(HostNode(h), "resolves_to", ResourceNode(a)) \in FullGraph.edges
          /\ \A s \in Present(scan) : Edge(Parent(s), "exposes", ServiceNode(s)) \in FullGraph.edges
          /\ \A s \in Present(scan) : \A t \in scan.services[s].technologies :
                Edge(ServiceNode(s), "fingerprints_as", Node("technology", t)) \in FullGraph.edges
      BY <2>0, <2>2, <3>1, SnapshotGraph
    <3>3. \A h \in scan.subdomains \cup {Target} : HostNode(h) \in one
      BY <3>2, <1>4
    <3>4. \A a \in scan.ips : ResourceNode(a) \in two
      BY <3>2, <3>3, <1>6
    <3>5. \A s \in Present(scan) : Parent(s) \in one
      BY <3>1, <3>3 DEF Scans, Present, Parent
    <3>6. \A s \in Present(scan) : ServiceNode(s) \in two
      BY <3>2, <3>5, <1>6
    <3>7. \A s \in Present(scan) : \A t \in scan.services[s].technologies : Node("technology", t) \in three
      BY <3>2, <3>6, <1>8
    <3> QED
      BY <2>1, <3>2, <3>3, <3>4, <3>5, <3>6, <3>7, <1>6, <1>8 DEF SnapshotParts
  <2>3. CASE g = FromTimeline
    BY <2>0, <2>1, <2>3, <1>4, <1>6, <1>8, TimelineGraph
  <2>4. CASE \E x \in Episodes : g = FromEpisode(x)
    <3>1. PICK x \in Episodes : g = FromEpisode(x)
      BY <2>4
    <3> DEFINE here == Node("episode", x.id)
               parts == {ResourceNode(r) : r \in x.resources}
    <3>2. DOMAIN g.nodes = parts \cup {here, TargetNode}
          /\ g.edges = {Edge(TargetNode, "contains", here)} \cup {Edge(m, "participates_in", here) : m \in parts}
      BY <3>1, EpisodeGraph
    <3> HIDE DEF here, parts
    <3>3. here \in one
      BY <2>0, <3>2, <1>4
    <3>4. \A m \in parts : m \in two
      BY <2>0, <3>2, <3>3, <1>6
    <3> QED
      BY <2>1, <3>2, <3>3, <3>4, <1>6, <1>8
  <2>5. CASE g = EmptyGraph
    BY <2>1, <2>5 DEF EmptyGraph
  <2> QED
    BY <2>2, <2>3, <2>4, <2>5 DEF Parts
<1>10. all \subseteq three
  BY <1>9, MergedTells DEF all
<1>11. three = all
  BY <1>7, <1>10
<1> QED
  BY <1>1, <1>11 DEF GraphIsConnected, all, one, two, three

\* Which nodes are those of a resource.
LEMMA NodesOfResources ==
    ASSUME NEW r \in Resources
    PROVE  LET n == ResourceNode(r)
           IN  /\ n # TargetNode /\ n[2] = r
               /\ \A x : n # Node("episode", x) /\ n # Node("technology", x)
               /\ \A q : ResourceNode(q) = n => q = r
               /\ \A h : HostNode(h) = n <=> h = r /\ r \in Subdomains
               /\ \A s : ServiceNode(s) = n <=> s = r /\ r \in Services
<1>1. CASE r \in Ips
  BY <1>1, DriftAssumption DEF ResourceNode, Node, TargetNode, HostNode, ServiceNode
<1>2. CASE r \in Services
  BY <1>2, DriftAssumption DEF ResourceNode, Node, TargetNode, HostNode, ServiceNode
<1>3. CASE r \in Subdomains
  BY <1>3, DriftAssumption DEF ResourceNode, Node, TargetNode, HostNode, ServiceNode
<1> QED
  BY <1>1, <1>2, <1>3 DEF Resources

\* What the parts of the graph say of a resource.
LEMMA SnapshotSays ==
    ASSUME NEW scan \in Scans, NEW r \in Resources
    PROVE  ResourceNode(r) \in SnapshotParts(scan) \cup {TargetNode}
              <=> r \in scan.ips \cup scan.subdomains \cup Present(scan)
<1>1. Present(scan) \subseteq Services /\ scan.subdomains \subseteq Subdomains /\ scan.ips \subseteq Ips
  BY DEF Scans, Present
<1>2. \A s \in Present(scan) : Host[s] \in scan.subdomains \cup {Target}
  BY DEF Scans, Present
<1>3. ASSUME ResourceNode(r) \in SnapshotParts(scan) \cup {TargetNode}
      PROVE  r \in scan.ips \cup scan.subdomains \cup Present(scan)
  <2>1. CASE \E a \in scan.ips : ResourceNode(a) = ResourceNode(r)
    BY <2>1, NodesOfResources
  <2>2. CASE \E h \in scan.subdomains \cup {Target} : HostNode(h) = ResourceNode(r)
    BY <2>2, NodesOfResources, DriftAssumption
  <2>3. CASE \E s \in Present(scan) : ServiceNode(s) = ResourceNode(r)
    BY <2>3, NodesOfResources
  <2> QED
    BY <1>2, <1>3, <2>1, <2>2, <2>3, NodesOfResources DEF SnapshotParts, Parent
<1>4. ASSUME r \in scan.ips \cup scan.subdomains \cup Present(scan)
      PROVE  ResourceNode(r) \in SnapshotParts(scan)
  <2>1. CASE r \in scan.ips
    BY <2>1 DEF SnapshotParts
  <2>2. CASE r \in scan.subdomains
    BY <1>1, <2>2, NodesOfResources DEF SnapshotParts
  <2>3. CASE r \in Present(scan)
    BY <1>1, <2>3, NodesOfResources DEF SnapshotParts
  <2> QED
    BY <1>4, <2>1, <2>2, <2>3
<1> QED
  BY <1>3, <1>4

LEMMA TimelineSays ==
    ASSUME NEW r \in Resources
    PROVE  /\ ResourceNode(r) \in DOMAIN FromTimeline.nodes <=> Reporting(r) # {}
           /\ Reporting(r) # {} =>
                 FromTimeline.nodes[ResourceNode(r)] = UNION {{k, k + 1} : k \in Reporting(r)}
<1>1. ResourceNode(r) \in DOMAIN FromTimeline.nodes <=> Reporting(r) # {}
  BY TimelineGraph, NodesOfResources
<1> QED
  BY <1>1, TimelineGraph, NodesOfResources

\* An episode says nothing of a resource that the timeline does not.
LEMMA EpisodeSays ==
    ASSUME NEW r \in Resources, NEW e \in Episodes,
           ResourceNode(r) \in DOMAIN FromEpisode(e).nodes
    PROVE  \E k \in Reporting(r) : FromEpisode(e).nodes[ResourceNode(r)] = {k, k + 1}
<1>1. PICK k \in DOMAIN reports : e \in EpisodesOf(k)
  BY DEF Episodes
<1>2. /\ e.findings \subseteq reports[k].active /\ e.started = k /\ e.ended = k + 1
      /\ e.resources = {f.resource : f \in e.findings}
  BY <1>1, EpisodeTells
<1> DEFINE g     == FromEpisode(e)
           here  == Node("episode", e.id)
           parts == {ResourceNode(q) : q \in e.resources}
<1>6. /\ DOMAIN g.nodes = parts \cup {here, TargetNode}
      /\ \A n \in DOMAIN g.nodes : g.nodes[n] = IF n = TargetNode THEN {} ELSE {e.started, e.ended}
  BY EpisodeGraph
<1>7. ResourceNode(r) # here /\ ResourceNode(r) # TargetNode
  BY NodesOfResources
<1> HIDE DEF g, here
<1>8. ResourceNode(r) \in parts /\ g.nodes[ResourceNode(r)] = {e.started, e.ended}
  BY <1>6, <1>7 DEF g
<1>3. r \in e.resources
  BY <1>8, NodesOfResources
<1>4. k \in Reporting(r)
  BY <1>2, <1>3 DEF Reporting
<1> QED
  BY <1>2, <1>4, <1>8 DEF g

\* A resource is in the graph if it is in the newest snapshot or in the
\* timeline, and has the times of both.
Now == Len(snapshots)
Times(r) == {t \in {Now} : r \in At(Now)} \cup UNION {{k, k + 1} : k \in Reporting(r)}

GraphTellsOf(r) ==
    /\ ResourceNode(r) \in DOMAIN FullGraph.nodes <=> r \in At(Now) \/ Reporting(r) # {}
    /\ SeenIn(FullGraph, ResourceNode(r)) = Times(r)

LEMMA ResourcesInGraph == TimelineInv => \A r \in Resources : GraphTellsOf(r)
<1> SUFFICES ASSUME TimelineInv, NEW r \in Resources
             PROVE  GraphTellsOf(r)
  OBVIOUS
<1> DEFINE n == ResourceNode(r)
<1>1. PICK scan \in Scans : scan = snapshots[Now]
  BY DEF TimelineInv, TypeOK, Now
<1>2. r \in At(Now) <=> r \in scan.ips \cup scan.subdomains \cup Present(scan)
  BY <1>1 DEF At
<1> DEFINE snap == FromSnapshot(snapshots[Now], Now)
<1>3. /\ n \in DOMAIN snap.nodes <=> r \in At(Now)
      /\ n \in DOMAIN snap.nodes => snap.nodes[n] = {Now}
  BY <1>1, <1>2, SnapshotGraph, SnapshotSays
<1>4. n \notin DOMAIN EmptyGraph.nodes
  BY NodesOfResources DEF EmptyGraph
<1> HIDE DEF snap
<1>5. Parts = {EmptyGraph, snap, FromTimeline} \cup {FromEpisode(e) : e \in Episodes}
  BY DEF Parts, snap, Now
<1>6. n \in DOMAIN FullGraph.nodes <=> \E g \in Parts : n \in DOMAIN g.nodes
  BY MergedTells
<1>7. n \in DOMAIN FullGraph.nodes <=> r \in At(Now) \/ Reporting(r) # {}
  BY <1>3, <1>4, <1>5, <1>6, TimelineSays, EpisodeSays
<1>8. SeenIn(FullGraph, n) = UNION {SeenIn(g, n) : g \in Parts}
  <2>1. CASE n \in DOMAIN FullGraph.nodes
    BY <2>1, MergedTells DEF SeenIn
  <2>2. CASE n \notin DOMAIN FullGraph.nodes
    BY <2>2, <1>6 DEF SeenIn
  <2> QED
    BY <2>1, <2>2
<1>9. SeenIn(snap, n) = {t \in {Now} : r \in At(Now)}
  BY <1>3 DEF SeenIn
<1>10. SeenIn(EmptyGraph, n) = {}
  BY <1>4 DEF SeenIn
<1>11. SeenIn(FromTimeline, n) = UNION {{k, k + 1} : k \in Reporting(r)}
  BY TimelineSays DEF SeenIn
<1>12. \A e \in Episodes : SeenIn(FromEpisode(e), n) \subseteq UNION {{k, k + 1} : k \in Reporting(r)}
  BY EpisodeSays DEF SeenIn
<1> HIDE DEF n
<1>13. SeenIn(FullGraph, n) = Times(r)
  BY <1>5, <1>8, <1>9, <1>10, <1>11, <1>12 DEF Times
<1> QED
  BY <1>7, <1>13 DEF GraphTellsOf, n

\* A resource that was reported, of which nothing was held back and that is not
\* there now, was last reported when it went.
LEMMA LastReportTellsGoing ==
    ASSUME TimelineInv, NEW r, r \notin At(Now),
           \A k \in DOMAIN reports : \A f \in reports[k].suppressed : f.resource # r,
           NEW k \in Reporting(r), \A j \in Reporting(r) : j <= k
    PROVE  r \in At(k) /\ \A j \in k + 1 .. Now : r \notin At(j)
<1>1. k \in DOMAIN reports /\ k \in Nat \ {0} /\ Now \in Nat /\ DOMAIN reports = 1 .. Now - 1
  BY TransitionTells DEF TimelineInv, TypeOK, Reporting, Now
<1>2. ASSUME NEW j \in k + 1 .. Now, r \in At(j)
      PROVE  FALSE
    <2>1. j \in Nat /\ j < Now
      BY <1>1, <1>2
    <2>2. PICK i \in j .. Now - 1 : r \in At(i) /\ r \notin At(i + 1)
      BY <1>1, <1>2, <2>1, GoesBetween
    <2>3. i \in DOMAIN reports /\ i > k
      BY <1>1, <2>1, <2>2
    <2>4. PICK h \in Reported(i) : h.resource = r
      BY <2>2, <2>3, GoneIsReported
    <2>5. i \in Reporting(r)
      BY <2>3, <2>4 DEF Reported, Reporting
    <2> QED
      BY <1>1, <2>3, <2>5
<1>3. PICK f \in reports[k].active : f.resource = r
  BY DEF Reporting
<1>4. Calls(f.category, r, snapshots[k], snapshots[k + 1])
  BY <1>1, <1>3, ActiveFindings
<1>5. k + 1 \in k + 1 .. Now
  BY <1>1
<1>6. r \notin At(k + 1)
  BY <1>2, <1>5
<1>7. r \in At(k)
  BY <1>1, <1>4, <1>6, CallsTell
<1> QED
  BY <1>2, <1>7

LEMMA LastSeenTold == TimelineInv => LastSeenTellsGoing
<1> SUFFICES ASSUME TimelineInv, NEW r \in ResourcesOf(FullGraph),
                    \A k \in DOMAIN reports : \A f \in reports[k].suppressed : f.resource # r
             PROVE  LET last == Max(SeenIn(FullGraph, ResourceNode(r)))
                    IN  IF r \in At(Now) THEN last = Now
                        ELSE r \in At(last - 1) /\ \A j \in last .. Now : r \notin At(j)
  BY DEF LastSeenTellsGoing, Now
<1>1. r \in Resources /\ GraphTellsOf(r) /\ ResourceNode(r) \in DOMAIN FullGraph.nodes
  BY ResourcesInGraph DEF ResourcesOf
<1>2. SeenIn(FullGraph, ResourceNode(r)) = Times(r) /\ (r \in At(Now) \/ Reporting(r) # {})
  BY <1>1 DEF GraphTellsOf
<1>3. Now \in Nat /\ DOMAIN reports = 1 .. Now - 1 /\ Reporting(r) \subseteq 1 .. Now - 1
  BY DEF TimelineInv, TypeOK, Now, Reporting
<1>4. \A t \in Times(r) : t \in Nat /\ t <= Now
  BY <1>3 DEF Times
<1>5. ASSUME NEW top \in Times(r), \A t \in Times(r) : t <= top
      PROVE  Max(Times(r)) = top
  <2>1. top \in Times(r) /\ \A t \in Times(r) : top >= t
    BY <1>4, <1>5
  <2>2. Max(Times(r)) \in Times(r) /\ \A t \in Times(r) : Max(Times(r)) >= t
    BY <2>1 DEF Max
  <2> QED
    BY <1>4, <2>1, <2>2
<1>6. CASE r \in At(Now)
  <2>1. Now \in Times(r)
    BY <1>6 DEF Times
  <2> QED
    BY <1>2, <1>4, <1>5, <1>6, <2>1
<1>7. CASE r \notin At(Now)
  <2>1. Reporting(r) # {} /\ Reporting(r) \in SUBSET Nat /\ \A n \in Reporting(r) : n <= Now
    BY <1>2, <1>3, <1>7
  <2>2. PICK k \in Reporting(r) : \A j \in Reporting(r) : j <= k
    BY <1>3, <2>1, Greatest
  <2>3. r \in At(k) /\ \A j \in k + 1 .. Now : r \notin At(j)
    BY <1>7, <2>2, LastReportTellsGoing
  <2>4. Times(r) = UNION {{j, j + 1} : j \in Reporting(r)}
    BY <1>7 DEF Times
  <2>5. k + 1 \in Times(r)
    BY <2>4
  <2>6. \A t \in Times(r) : t <= k + 1
    BY <1>3, <2>2, <2>4
  <2>7. Max(Times(r)) = k + 1 /\ (k + 1) - 1 = k
    BY <1>3, <1>5, <2>5, <2>6
  <2> QED
    BY <1>2, <1>7, <2>3, <2>7
<1> QED
  BY <1>6, <1>7

\* Edges join nodes, no node is more than three edges away from the target, and
\* the graph says until when a resource was there.
THEOREM GraphIsTrue == DriftSpec => []GraphTellsTimeline
<1>1. TimelineInv => GraphTellsTimeline
  BY GraphConnected, LastSeenTold DEF GraphTellsTimeline
<1> QED
  BY <1>1, TimelineHolds, PTL

\* What goes and is in no report as active has been held back.
WentReported ==
    \A k \in DOMAIN reports : \A r : r \in At(k) /\ r \notin At(k + 1) /\ k \notin Reporting(r) =>
        \E f \in reports[k].suppressed : f.resource = r /\ f.category \in Going

LEMMA GoneOrHeldBack == TimelineInv => WentReported
BY GoneIsReported DEF WentReported, Reporting, Reported

LEMMA VanishingStep ==
    ASSUME TimelineInv, TimelineInv', NEW scan \in Scans, CompareNext(scan),
           (\A r \in Resources : GraphTellsOf(r))', WentReported',
           NEW r \in ResourcesOf(FullGraph), r \notin ResourcesOf(FullGraph')
    PROVE  \E f \in reports'[Len(reports')].suppressed : f.resource = r /\ f.category \in Going
<1>1. /\ snapshots \in Seq(Scans) /\ snapshots' = Append(snapshots, scan)
      /\ reports \in Seq(Reports) /\ Len(reports) = Now - 1 /\ Now \in Nat \ {0}
      /\ \E rep : reports' = Append(reports, rep)
  BY DEF TimelineInv, TypeOK, CompareNext, Now
<1>2. PICK m \in Nat \ {0} : m = Now
  BY <1>1
<1>3. /\ Len(snapshots') = m + 1 /\ snapshots'[m] = snapshots[m]
      /\ Len(reports') = m /\ DOMAIN reports' = 1 .. m
      /\ \A k \in 1 .. m - 1 : reports'[k] = reports[k]
  BY <1>1, <1>2 DEF Now
<1>4. r \in Resources /\ GraphTellsOf(r) /\ ResourceNode(r) \in DOMAIN FullGraph.nodes
  BY ResourcesInGraph DEF ResourcesOf
<1>5. r \in At(m) \/ Reporting(r) # {}
  BY <1>2, <1>4 DEF GraphTellsOf
<1>6. r \notin At(m + 1)' /\ Reporting(r)' = {}
  BY <1>3, <1>4 DEF GraphTellsOf, ResourcesOf, Now
<1>7. Reporting(r) \subseteq Reporting(r)'
  BY <1>1, <1>2, <1>3 DEF Reporting
<1>8. r \in At(m)'
  BY <1>3, <1>5, <1>6, <1>7 DEF At
<1>9. m \in DOMAIN reports' /\ m \notin Reporting(r)'
  BY <1>3, <1>6
<1> QED
  BY <1>3, <1>6, <1>8, <1>9 DEF WentReported

\* A resource leaves the graph only when it has gone and the finding that says
\* so was held back.
THEOREM NothingVanishes == DriftSpec => NothingVanishesUnreported
<1>1. TimelineInv /\ TimelineInv' /\ (\A r \in Resources : GraphTellsOf(r))' /\ WentReported' /\ [Next]_vars =>
        [\A r \in ResourcesOf(FullGraph) \ ResourcesOf(FullGraph') :
            \E f \in reports'[Len(reports')].suppressed : f.resource = r /\ f.category \in Going]_vars
  BY VanishingStep DEF Next
<1>2. DriftSpec => [][\A r \in ResourcesOf(FullGraph) \ ResourcesOf(FullGraph') :
            \E f \in reports'[Len(reports')].suppressed : f.resource = r /\ f.category \in Going]_vars
  BY <1>1, TimelineHolds, ResourcesInGraph, GoneOrHeldBack, PTL DEF DriftSpec
<1> QED
  BY <1>2 DEF NothingVanishesUnreported

(***************************************************************************)
(* Risks                                                                   *)
(***************************************************************************)
\* A service that was ever there, with nothing about it held back, is in the
\* graph; and what is in the graph has been there.
LEMMA ServicesOfGraph ==
    ASSUME TimelineInv, NEW s \in Services
    PROVE  /\ ServiceNode(s) \in DOMAIN FullGraph.nodes <=> s \in At(Now) \/ Reporting(s) # {}
           /\ \A k \in DOMAIN snapshots : s \in At(k) <=> s \in Present(snapshots[k])
           /\ Now \in DOMAIN snapshots
<1>1. s \in Resources /\ ResourceNode(s) = ServiceNode(s)
  BY NodesOfResources DEF Resources
<1>2. \A k \in DOMAIN snapshots : snapshots[k] \in Scans
  BY DEF TimelineInv, TypeOK
<1>3. \A scan \in Scans : scan.ips \subseteq Ips /\ scan.subdomains \subseteq Subdomains
  BY DEF Scans
<1>4. \A k \in DOMAIN snapshots : s \in At(k) <=> s \in Present(snapshots[k])
  BY <1>2, <1>3, DriftAssumption DEF At
<1>5. Now \in DOMAIN snapshots
  BY DEF TimelineInv, TypeOK, Now
<1> QED
  BY <1>1, <1>4, <1>5, ResourcesInGraph DEF GraphTellsOf

LEMMA RulesDiffer ==
    ASSUME NEW s
    PROVE  /\ (\E r \in Risks : r.rule = "plaintext-http-service" /\ r.resource = s)
                <=> s \in ServicesIn(FullGraph) \cap Described /\ Scheme[s] = "http"
           /\ (\E r \in Risks : r.rule = "admin-surface-exposed" /\ r.resource = s)
                <=> s \in ServicesIn(FullGraph) \cap Admin
<1> DEFINE g == FullGraph
<1> HIDE DEF g
<1>1. \A r \in PlaintextRisks(g) : r.rule = "plaintext-http-service"
  BY DEF PlaintextRisks, RiskItem
<1>0. \A rule, resource, severity, score :
          RiskItem(rule, resource, severity, score).rule = rule
          /\ RiskItem(rule, resource, severity, score).resource = resource
  BY DEF RiskItem
<1>2. (\E r \in PlaintextRisks(g) : r.resource = s) <=> s \in ServicesIn(g) \cap Described /\ Scheme[s] = "http"
  <2> DEFINE item(x) == RiskItem("plaintext-http-service", x, IF x \in Admin THEN "critical" ELSE "high",
                                 IF x \in Admin THEN 95 ELSE 70)
  <2>1. \A x : item(x).resource = x
    BY <1>0
  <2>2. PlaintextRisks(g) = {item(x) : x \in {y \in ServicesIn(g) \cap Described : Scheme[y] = "http"}}
    BY DEF PlaintextRisks
  <2> HIDE DEF item
  <2> QED
    BY <2>1, <2>2
<1>3. \A r \in AdminRisks(g) : r.rule \in {"admin-surface-exposed", "admin-subdomain-exposed"}
  BY DEF AdminRisks, RiskItem
<1>4. (\E r \in AdminRisks(g) : r.rule = "admin-surface-exposed" /\ r.resource = s)
        <=> s \in ServicesIn(g) \cap Admin
  <2> DEFINE tls(x) == x \in Described /\ Scheme[x] = "https"
             item(x) == RiskItem("admin-surface-exposed", x,
                                 IF tls(x) THEN "high" ELSE "critical", IF tls(x) THEN 85 ELSE 100)
             other(h) == RiskItem("admin-subdomain-exposed", h, "high", 65)
  <2>1. \A x : item(x).rule = "admin-surface-exposed" /\ item(x).resource = x
               /\ other(x).rule = "admin-subdomain-exposed"
    BY <1>0
  <2>2. AdminRisks(g) = {item(x) : x \in ServicesIn(g) \cap Admin} \cup {other(h) : h \in HostsIn(g) \cap Admin}
    BY DEF AdminRisks
  <2> HIDE DEF item, other
  <2> QED
    BY <2>1, <2>2
<1>5. \A r \in HubRisks(g) \cup DriftRisks \cup HotspotRisks \cup EpisodeRisks :
          r.rule \notin {"plaintext-http-service", "admin-surface-exposed"}
  <2>1. \A r \in HubRisks(g) : r.rule = "high-degree-hub"
    BY <1>0 DEF HubRisks
  <2>2. \A r \in DriftRisks : r.rule = "persistent-critical-drift"
    BY <1>0 DEF DriftRisks
  <2>3. \A r \in HotspotRisks : r.rule = "hotspot-resource"
    <3>1. \A r \in HotspotRisks : \E x, v, w : r = RiskItem("hotspot-resource", x, v, w)
      BY Zenon DEF HotspotRisks
    <3> QED
      BY <1>0, <3>1
  <2>4. \A r \in EpisodeRisks : r.rule = "high-risk-episode"
    <3>1. \A r \in EpisodeRisks : \E x, v, w : r = RiskItem("high-risk-episode", x, v, w)
      BY Zenon DEF EpisodeRisks
    <3> QED
      BY <1>0, <3>1
  <2> QED
    BY <2>1, <2>2, <2>3, <2>4
<1>6. Risks = PlaintextRisks(g) \cup AdminRisks(g)
                \cup (HubRisks(g) \cup DriftRisks \cup HotspotRisks \cup EpisodeRisks)
  BY DEF Risks, g
<1> QED
  BY <1>1, <1>2, <1>3, <1>4, <1>5, <1>6 DEF g

LEMMA SurfaceTold == TimelineInv => SurfaceStaysAtRisk
<1> SUFFICES ASSUME TimelineInv, NEW s \in Services \cap Admin
             PROVE  /\ (\E r \in Risks : r.rule = "plaintext-http-service" /\ r.resource = s)
                         <=> s \in Present(snapshots[Len(snapshots)]) /\ Scheme[s] = "http"
                    /\ (\E r \in Risks : r.rule = "admin-surface-exposed" /\ r.resource = s) =>
                          \E k \in DOMAIN snapshots : s \in Present(snapshots[k])
                    /\ (\A k \in DOMAIN reports : \A f \in reports[k].suppressed : f.resource # s)
                       /\ (\E k \in DOMAIN snapshots : s \in Present(snapshots[k])) =>
                          \E r \in Risks : r.rule = "admin-surface-exposed" /\ r.resource = s
  BY DEF SurfaceStaysAtRisk
<1>1. s \in ServicesIn(FullGraph) <=> s \in At(Now) \/ Reporting(s) # {}
  BY ServicesOfGraph DEF ServicesIn
<1>2. \A k \in DOMAIN snapshots : s \in At(k) <=> s \in Present(snapshots[k])
  BY ServicesOfGraph
<1>3. Now \in DOMAIN snapshots /\ DOMAIN snapshots = 1 .. Now /\ DOMAIN reports = 1 .. Now - 1 /\ Now \in Nat
  BY DEF TimelineInv, TypeOK, Now
<1>4. s \in Described <=> s \in At(Now)
  BY <1>2, <1>3 DEF Described, Now
<1>5. (\E r \in Risks : r.rule = "plaintext-http-service" /\ r.resource = s)
         <=> s \in Present(snapshots[Len(snapshots)]) /\ Scheme[s] = "http"
  BY <1>1, <1>4, RulesDiffer DEF Described
<1>6. ASSUME s \in ServicesIn(FullGraph)
      PROVE  \E k \in DOMAIN snapshots : s \in Present(snapshots[k])
  <2>1. CASE s \in At(Now)
    BY <1>2, <1>3, <2>1
  <2>2. CASE Reporting(s) # {}
    <3>1. PICK k \in DOMAIN reports : \E f \in reports[k].active : f.resource = s
      BY <2>2 DEF Reporting
    <3>2. PICK f \in reports[k].active : f.resource = s
      BY <3>1
    <3>3. s \in At(k) \/ s \in At(k + 1)
      BY <3>2, ActiveFindings, CallsTell
    <3> QED
      BY <3>3, <1>2, <1>3
  <2> QED
    BY <1>1, <1>6, <2>1, <2>2
<1>7. ASSUME \A k \in DOMAIN reports : \A f \in reports[k].suppressed : f.resource # s,
             NEW k \in DOMAIN snapshots, s \in Present(snapshots[k])
      PROVE  s \in ServicesIn(FullGraph)
  <2>1. CASE s \in At(Now)
    BY <1>1, <2>1
  <2>2. CASE s \notin At(Now)
    <3>1. k \in Nat /\ k < Now /\ s \in At(k)
      BY <1>2, <1>3, <1>7, <2>2
    <3>2. PICK i \in k .. Now - 1 : s \in At(i) /\ s \notin At(i + 1)
      BY <1>3, <2>2, <3>1, GoesBetween
    <3>3. i \in DOMAIN reports
      BY <1>3, <3>2
    <3>4. i \in Reporting(s)
      BY <1>7, <3>2, <3>3, GoneIsReported DEF Reported, Reporting
    <3> QED
      BY <1>1, <3>4
  <2> QED
    BY <2>1, <2>2
<1> QED
  BY <1>5, <1>6, <1>7, RulesDiffer

(***************************************************************************)
(* The sum of the scores of a finite set                                   *)
(***************************************************************************)
\* One step of the recursion behind MapThenSumSet, and the functions that it
\* defines on the subsets of T.
Summed(g, t) ==
    IF t = {} THEN 0
    ELSE LET x == CHOOSE y \in t : TRUE IN x.score + g[t \ {x}]
SumsUpTo(T) == {g \in [SUBSET T -> Nat] : \A t \in SUBSET T : g[t] = Summed(g, t)}

LEMMA SumsAgree ==
    ASSUME NEW A, IsFiniteSet(A), NEW B, NEW g \in SumsUpTo(A), NEW h \in SumsUpTo(B),
           NEW t \in SUBSET A, t \in SUBSET B
    PROVE  g[t] = h[t]
<1>1. PICK F \in SUBSET (SUBSET A) : F = {u \in SUBSET A : u \in SUBSET B /\ g[u] # h[u]}
  OBVIOUS
<1>2. ASSUME F # {}
      PROVE  FALSE
  <2>1. PICK u \in F : \A v \in F : v \subseteq u => v = u
    BY <1>2, MinimalMember
  <2>2. u \in SUBSET A /\ u \in SUBSET B /\ g[u] # h[u]
    BY <1>1
  <2>3. g[u] = Summed(g, u) /\ h[u] = Summed(h, u)
    BY <2>2 DEF SumsUpTo
  <2>4. u # {}
    BY <2>2, <2>3 DEF Summed
  <2>5. PICK x \in u : x = CHOOSE y \in u : TRUE
    BY <2>4
  <2>6. g[u \ {x}] = h[u \ {x}]
    <3>1. u \ {x} \in SUBSET A /\ u \ {x} \in SUBSET B /\ u \ {x} \subseteq u /\ u \ {x} # u
      BY <2>2
    <3>2. u \ {x} \notin F
      BY <2>1, <3>1
    <3> QED
      BY <1>1, <3>1, <3>2
  <2> QED
    BY <2>2, <2>3, <2>4, <2>5, <2>6 DEF Summed
<1> QED
  BY <1>1, <1>2

LEMMA SumsExist ==
    ASSUME NEW S, IsFiniteSet(S), \A x \in S : x.score \in Nat
    PROVE  SumsUpTo(S) # {}
<1>1. PICK F \in SUBSET (SUBSET S) : F = {T \in SUBSET S : SumsUpTo(T) = {}}
  OBVIOUS
<1>2. ASSUME F # {}
      PROVE  FALSE
  <2>1. PICK T \in F : \A U \in F : U \subseteq T => U = T
    BY <1>2, MinimalMember
  <2>2. T \in SUBSET S /\ SumsUpTo(T) = {} /\ \A U \in SUBSET T : U # T => SumsUpTo(U) # {}
    BY <1>1, <2>1
  <2>3. \A U \in SUBSET T : IsFiniteSet(U)
    BY <2>2, FS_Subset
  <2> DEFINE sum(U) == (CHOOSE g \in SumsUpTo(U) : TRUE)[U]
  <2>4. ASSUME NEW U \in SUBSET T, U # T
        PROVE  sum(U) \in Nat /\ \A B : \A h \in SumsUpTo(B) : U \in SUBSET B => h[U] = sum(U)
    <3>1. PICK g \in SumsUpTo(U) : sum(U) = g[U]
      BY <2>2, <2>4
    <3> HIDE DEF sum
    <3>2. sum(U) \in Nat
      BY <3>1 DEF SumsUpTo
    <3>3. IsFiniteSet(U) /\ U \in SUBSET U
      BY <2>3
    <3>4. ASSUME NEW B, NEW h \in SumsUpTo(B), U \in SUBSET B
          PROVE  h[U] = sum(U)
      BY <3>1, <3>3, <3>4, SumsAgree
    <3> QED
      BY <3>2, <3>4
  <2> HIDE DEF sum
  <2>5. ASSUME NEW U \in SUBSET T, U # {}
        PROVE  LET x == CHOOSE y \in U : TRUE
               IN  x \in U /\ x.score \in Nat /\ U \ {x} \in SUBSET T /\ U \ {x} # T
    BY <2>2, <2>5
  <2> DEFINE whole == IF T = {} THEN 0
                      ELSE LET x == CHOOSE y \in T : TRUE IN x.score + sum(T \ {x})
             G == [U \in SUBSET T |-> IF U = T THEN whole ELSE sum(U)]
  <2>6. whole \in Nat
    BY <2>4, <2>5
  <2> HIDE DEF whole
  <2>7. G \in [SUBSET T -> Nat]
    BY <2>4, <2>6
  <2>8. ASSUME NEW U \in SUBSET T
        PROVE  G[U] = Summed(G, U)
    <3>1. CASE U = {}
      <4>1. CASE T = {}
        BY <3>1, <4>1 DEF Summed, whole
      <4>2. CASE T # {}
        <5>1. PICK h \in SumsUpTo(U) : h[U] = sum(U)
          BY <2>2, <2>4, <3>1, <4>2
        <5>2. h[U] = 0
          BY <3>1, <5>1 DEF SumsUpTo, Summed
        <5> QED
          BY <3>1, <4>2, <5>1, <5>2 DEF Summed
      <4> QED
        BY <4>1, <4>2
    <3>2. CASE U # {}
      <4>1. PICK x \in U : x = CHOOSE y \in U : TRUE
        BY <3>2
      <4>2. U \ {x} \in SUBSET T /\ U \ {x} # T
        BY <4>1
      <4>3. G[U \ {x}] = sum(U \ {x})
        BY <4>2
      <4>4. CASE U = T
        BY <3>2, <4>1, <4>3, <4>4 DEF Summed, whole
      <4>5. CASE U # T
        <5>1. PICK h \in SumsUpTo(U) : h[U] = sum(U)
          BY <2>2, <2>4, <4>5
        <5>2. h[U] = x.score + h[U \ {x}]
          BY <3>2, <4>1, <5>1 DEF SumsUpTo, Summed
        <5>3. h[U \ {x}] = sum(U \ {x})
          BY <2>4, <4>2, <5>1
        <5> QED
          BY <3>2, <4>1, <4>3, <4>5, <5>1, <5>2, <5>3 DEF Summed
      <4> QED
        BY <4>4, <4>5
    <3> QED
      BY <3>1, <3>2
  <2>9. G \in SumsUpTo(T)
    BY <2>7, <2>8 DEF SumsUpTo
  <2> QED
    BY <2>2, <2>9
<1>3. S \notin F
  BY <1>2
<1> QED
  BY <1>1, <1>3

\* The scores of a finite set of findings sum up to a number.
LEMMA SumIsNat ==
    ASSUME NEW S, IsFiniteSet(S), \A x \in S : x.score \in Nat
    PROVE  MapThenSumSet(LAMBDA x : x.score, S) \in Nat
<1>1. MapThenSumSet(LAMBDA x : x.score, S) = (CHOOSE g : g = [t \in SUBSET S |-> Summed(g, t)])[S]
  BY DEF MapThenSumSet, MapThenFoldSet, Summed
<1>2. PICK h \in SumsUpTo(S) : TRUE
  BY SumsExist
<1>3. h = [t \in SUBSET S |-> Summed(h, t)]
  BY DEF SumsUpTo
<1>4. ASSUME NEW g, g = [t \in SUBSET S |-> Summed(g, t)]
      PROVE  g[S] \in Nat
  <2>1. PICK F \in SUBSET (SUBSET S) : F = {u \in SUBSET S : g[u] \notin Nat}
    OBVIOUS
  <2>2. ASSUME F # {}
        PROVE  FALSE
    <3>1. PICK u \in F : \A v \in F : v \subseteq u => v = u
      BY <2>2, MinimalMember
    <3>2. u \in SUBSET S /\ g[u] \notin Nat /\ g[u] = Summed(g, u)
      BY <1>4, <2>1
    <3>3. u # {}
      BY <3>2 DEF Summed
    <3>4. PICK x \in u : x = CHOOSE y \in u : TRUE
      BY <3>3
    <3>5. u \ {x} \in SUBSET S /\ u \ {x} \subseteq u /\ u \ {x} # u
      BY <3>2
    <3>6. g[u \ {x}] \in Nat
      BY <2>1, <3>1, <3>5
    <3>7. x.score \in Nat
      BY <3>2
    <3> QED
      BY <3>2, <3>3, <3>4, <3>6, <3>7 DEF Summed
  <2> QED
    BY <2>1, <2>2
<1> QED
  BY <1>1, <1>3, <1>4

(***************************************************************************)
(* The worst episodes                                                      *)
(***************************************************************************)
LEMMA KeysAreFinite == IsFiniteSet(Keys)
<1>0. PICK n \in Int : n = 13
  OBVIOUS
<1>1. PICK span : span = 1 .. n
  OBVIOUS
<1>2. IsFiniteSet(span)
  BY <1>1, FS_Interval
<1>3. PICK name : name = <<"new_ip", "removed_ip",
               "new_admin_subdomain", "new_nonprod_subdomain", "new_subdomain", "subdomain_removed",
               "new_http_service", "new_https_service", "new_service", "service_removed",
               "service_became_available", "service_backend_changed", "service_fingerprint_changed">>
  OBVIOUS
<1>4. name \in Surjection(span, Categories)
  <2>1. DOMAIN name = 1 .. 13 /\ name \in [1 .. 13 -> Categories]
    BY <1>3 DEF Categories
  <2>2. \A c \in Categories : \E i \in 1 .. 13 : name[i] = c
    BY <1>3 DEF Categories
  <2> QED
    BY <1>0, <1>1, <2>1, <2>2 DEF Surjection
<1>5. IsFiniteSet(Categories)
  BY <1>2, <1>4, FS_Surjection
<1> QED
  BY <1>5, RiskAssumption, FS_Product DEF Keys

LEMMA ActiveAreFinite ==
    ASSUME TimelineInv, NEW k \in DOMAIN reports
    PROVE  IsFiniteSet(reports[k].active) /\ reports[k].active \subseteq Findings
<1>0. reports[k] \in Reports
  BY DEF TimelineInv, TypeOK
<1>1. reports[k].active \subseteq Findings
  BY <1>0 DEF Reports
<1> DEFINE key == [f \in reports[k].active |-> Key(f)]
<1>2. \A f \in reports[k].active : Key(f) \in Keys
  BY <1>1 DEF Key, Keys, Findings
<1>3. \A f, g \in reports[k].active : Key(f) = Key(g) => f = g
  BY UniqueKeys DEF KeysAreUnique, Reported
<1>4. key \in Injection(reports[k].active, Keys)
  BY <1>2, <1>3 DEF Injection, IsInjective
<1> HIDE DEF key
<1> QED
  BY <1>1, <1>4, KeysAreFinite, FS_Injection

LEMMA EpisodesAreFinite ==
    ASSUME TimelineInv
    PROVE  /\ IsFiniteSet(Episodes)
           /\ \A e \in Episodes : IsFiniteSet(e.findings) /\ e.findings \subseteq Findings /\ e.findings # {}
<1>1. ASSUME NEW k \in DOMAIN reports
      PROVE  IsFiniteSet(EpisodesOf(k))
  <2> DEFINE group == [f \in reports[k].active |->
                         Episode(k, {x \in reports[k].active : Affinity(x) = Affinity(f)})]
  <2>1. EpisodesOf(k) = {group[f] : f \in reports[k].active}
    BY DEF EpisodesOf
  <2>2. group \in Surjection(reports[k].active, EpisodesOf(k))
    BY <2>1 DEF Surjection
  <2> HIDE DEF group
  <2> QED
    BY <2>2, ActiveAreFinite, FS_Surjection
<1> DEFINE family == {EpisodesOf(k) : k \in DOMAIN reports}
           of == [k \in DOMAIN reports |-> EpisodesOf(k)]
<1>2. IsFiniteSet(DOMAIN reports)
  <2>1. PICK n \in Nat : n = Len(reports)
    BY DEF TimelineInv, TypeOK
  <2>2. DOMAIN reports = 1 .. n
    BY <2>1 DEF TimelineInv, TypeOK
  <2>3. PICK span : span = 1 .. n
    OBVIOUS
  <2>4. IsFiniteSet(span)
    BY <2>3, FS_Interval
  <2> QED
    BY <2>2, <2>3, <2>4
<1>3. of \in Surjection(DOMAIN reports, family)
  BY DEF Surjection
<1>4. \A S \in family : IsFiniteSet(S)
  BY <1>1
<1>5. Episodes = UNION family
  BY DEF Episodes
<1> HIDE DEF family, of
<1>6. IsFiniteSet(family)
  BY <1>2, <1>3, FS_Surjection
<1>7. IsFiniteSet(Episodes)
  BY <1>4, <1>5, <1>6, FS_UNION
<1>8. ASSUME NEW e \in Episodes
      PROVE  IsFiniteSet(e.findings) /\ e.findings \subseteq Findings /\ e.findings # {}
  <2>1. PICK k \in DOMAIN reports : e \in EpisodesOf(k)
    BY DEF Episodes
  <2>2. e.findings \subseteq reports[k].active /\ e.findings # {}
    BY <2>1, EpisodeTells
  <2> QED
    BY <2>2, ActiveAreFinite, FS_Subset
<1> QED
  BY <1>7, <1>8

LEMMA ScoreIsNat ==
    ASSUME TimelineInv, NEW e \in Episodes
    PROVE  EpisodeScore(e) \in Nat
<1> DEFINE count == Cardinality(e.findings)
           sum == MapThenSumSet(LAMBDA f : f.score, e.findings)
           plain == sum + KindBonus[KindOf(e.findings)]
                    + (IF count >= 4 THEN 10 ELSE IF count >= 2 THEN 5 ELSE 0)
<1>1. IsFiniteSet(e.findings) /\ \A f \in e.findings : f.score \in Nat
  BY EpisodesAreFinite DEF Findings
<1>2. sum \in Nat
  BY <1>1, SumIsNat
<1>3. KindBonus[KindOf(e.findings)] \in Nat
  BY DEF KindBonus, KindOf
<1>4. EpisodeScore(e) = IF \E f \in e.findings : f.criticality = "critical" THEN Times130(plain)
                        ELSE IF \E f \in e.findings : f.criticality = "high" THEN Times115(plain)
                        ELSE plain
  BY DEF EpisodeScore
<1> HIDE DEF sum, count
<1>5. plain \in Nat
  BY <1>2, <1>3
<1> HIDE DEF plain
<1>6. \A n \in Nat : Times130(n) \in Nat /\ Times115(n) \in Nat
  BY DEF Times130, Times115
<1> QED
  BY <1>4, <1>5, <1>6

LEMMA RankIsNat ==
    ASSUME TimelineInv, NEW e \in Episodes
    PROVE  KeyRank(e) \in Nat /\ e.started \in Nat
<1>1. PICK f \in e.findings : f = CHOOSE x \in e.findings : TRUE
  BY EpisodesAreFinite
<1>2. f.resource \in Resources
  BY EpisodesAreFinite DEF Findings
<1>3. policy \in Policies
  BY DEF TimelineInv, TypeOK
<1>4. NameRank[Base[f.resource]] \in Nat /\ EnvironmentOf(policy, f.resource) \in Environments
  BY <1>2, <1>3, RiskAssumption DEF EnvironmentOf
<1>5. \A v \in Environments : EnvironmentRank[v] \in Nat
  BY DEF Environments, EnvironmentRank
<1>6. KeyRank(e) = 10 * NameRank[Base[f.resource]] + EnvironmentRank[EnvironmentOf(policy, f.resource)]
  BY <1>1 DEF KeyRank, Affinity
<1>7. PICK a \in Nat, b \in Nat : KeyRank(e) = 10 * a + b
  BY <1>4, <1>5, <1>6
<1>8. PICK k \in DOMAIN reports : e \in EpisodesOf(k)
  BY DEF Episodes
<1>9. e.started = k /\ k \in Nat
  BY <1>8, EpisodeTells DEF TimelineInv, TypeOK
<1> QED
  BY <1>7, <1>9

\* Being ahead is a strict order, and who is not behind has no lower score.
LEMMA AheadOrders ==
    ASSUME TimelineInv
    PROVE  /\ \A e \in Episodes : ~Ahead(e, e)
           /\ \A c, d, e \in Episodes : Ahead(c, d) /\ Ahead(d, e) => Ahead(c, e)
           /\ \A d, e \in Episodes : ~Ahead(d, e) => EpisodeScore(d) <= EpisodeScore(e)
<1>1. \A e \in Episodes : EpisodeScore(e) \in Nat /\ KeyRank(e) \in Nat /\ e.started \in Nat
  BY ScoreIsNat, RankIsNat
<1>2. ASSUME NEW c \in Episodes, NEW d \in Episodes, NEW e \in Episodes, Ahead(c, d), Ahead(d, e)
      PROVE  Ahead(c, e)
  BY <1>1, <1>2 DEF Ahead, Earlier
<1> QED
  BY <1>1, <1>2 DEF Ahead, Earlier

\* Of some episodes one has nobody of them ahead.
LEMMA FirstExists ==
    ASSUME TimelineInv, NEW E \in SUBSET Episodes, E # {}
    PROVE  \E e \in E : \A d \in E : ~Ahead(d, e)
<1> DEFINE before(e) == {d \in E : Ahead(d, e)}
<1>1. PICK F \in SUBSET (SUBSET E) : F = {before(e) : e \in E}
  OBVIOUS
<1>2. IsFiniteSet(E) /\ F # {}
  <2>1. IsFiniteSet(E)
    BY EpisodesAreFinite, FS_Subset
  <2>2. PICK x \in E : TRUE
    OBVIOUS
  <2>3. before(x) \in F
    BY <1>1
  <2> QED
    BY <2>1, <2>3
<1>3. PICK m \in F : \A n \in F : n \subseteq m => n = m
  BY <1>2, MinimalMember
<1>4. PICK e \in E : m = before(e)
  BY <1>1, <1>3
<1>5. ASSUME NEW d \in E, Ahead(d, e)
      PROVE  FALSE
  <2>1. before(d) \subseteq before(e)
    BY <1>5, AheadOrders
  <2>2. d \in before(e) /\ d \notin before(d)
    BY <1>5, AheadOrders
  <2>3. before(d) \in F
    BY <1>1
  <2> QED
    BY <1>3, <1>4, <2>1, <2>2, <2>3
<1> QED
  BY <1>5

\* The highest of some scores.
LEMMA MaxOfScores ==
    ASSUME TimelineInv, NEW E \in SUBSET Episodes, NEW e \in E, \A d \in E : EpisodeScore(d) <= EpisodeScore(e)
    PROVE  Max({EpisodeScore(d) : d \in E}) = EpisodeScore(e)
<1>1. \A d \in E : EpisodeScore(d) \in Nat
  BY ScoreIsNat
<1>2. PICK S \in SUBSET Nat : S = {EpisodeScore(d) : d \in E}
  BY <1>1
<1>3. EpisodeScore(e) \in S /\ \A n \in S : n <= EpisodeScore(e)
  BY <1>2
<1>4. Max(S) \in S /\ \A n \in S : n <= Max(S)
  BY <1>3 DEF Max
<1>5. \A a, b \in S : a <= b /\ b <= a => a = b
  OBVIOUS
<1>6. Max(S) = EpisodeScore(e)
  BY <1>3, <1>4, <1>5
<1> QED
  BY <1>2, <1>6

\* The worst episode of a kind is one of those that are looked at, if one of
\* its kind is: who is ahead of it has fewer ahead of him.
LEMMA WorstAreTold == TimelineInv => EpisodeRisksAreWorst
<1> SUFFICES ASSUME TimelineInv
             PROVE  EpisodeRisksAreWorst
  OBVIOUS
<1> DEFINE before(e) == {d \in Episodes : Ahead(d, e)}
           top == {e \in Episodes : Cardinality(before(e)) < 5}
           first == {e \in top : \A d \in top : KindOf(d.findings) = KindOf(e.findings) => ~Ahead(d, e)}
           item(e) == RiskItem("high-risk-episode", KindOf(e.findings),
                               IF EpisodeScore(e) >= 180 THEN "critical"
                               ELSE IF EpisodeScore(e) >= 120 THEN "high" ELSE "medium", EpisodeScore(e))
<1>1. EpisodeRisks = {item(e) : e \in first}
  BY DEF EpisodeRisks
<1>2. \A e : item(e).resource = KindOf(e.findings) /\ item(e).score = EpisodeScore(e)
  BY DEF RiskItem
<1> HIDE DEF item
<1>3. ASSUME NEW e \in first, NEW d \in Episodes, KindOf(d.findings) = KindOf(e.findings)
      PROVE  EpisodeScore(d) <= EpisodeScore(e)
  <2>1. CASE Ahead(d, e)
    <3>1. before(d) \subseteq before(e)
      BY <2>1, AheadOrders
    <3>2. IsFiniteSet(before(d)) /\ IsFiniteSet(before(e))
      BY EpisodesAreFinite, FS_Subset
    <3>3. Cardinality(before(d)) \in Nat /\ Cardinality(before(e)) \in Nat
      BY <3>2, FS_CardinalityType
    <3>4. Cardinality(before(d)) <= Cardinality(before(e))
      BY <3>1, <3>2, FS_Subset
    <3>5. d \in top
      BY <3>3, <3>4
    <3> QED
      BY <1>3, <2>1, <3>5
  <2>2. CASE ~Ahead(d, e)
    BY <2>2, AheadOrders
  <2> QED
    BY <2>1, <2>2
<1>4. ASSUME NEW r \in EpisodeRisks
      PROVE  r.score = Max({EpisodeScore(e) : e \in {x \in Episodes : KindOf(x.findings) = r.resource}})
  <2>1. PICK e \in first : r = item(e)
    BY <1>1
  <2>2. PICK E \in SUBSET Episodes : E = {x \in Episodes : KindOf(x.findings) = r.resource}
    OBVIOUS
  <2>3. e \in E /\ \A d \in E : EpisodeScore(d) <= EpisodeScore(e)
    BY <1>2, <1>3, <2>1, <2>2
  <2>4. Max({EpisodeScore(d) : d \in E}) = EpisodeScore(e)
    BY <2>3, MaxOfScores
  <2> QED
    BY <1>2, <2>1, <2>2, <2>4
<1>5. ASSUME Episodes # {}
      PROVE  Max({EpisodeScore(e) : e \in Episodes}) \in {r.score : r \in EpisodeRisks}
  <2>1. PICK e \in Episodes : \A d \in Episodes : ~Ahead(d, e)
    BY <1>5, FirstExists
  <2>2. before(e) = {}
    BY <2>1
  <2>3. e \in first
    BY <2>1, <2>2, FS_EmptySet
  <2>4. \A d \in Episodes : EpisodeScore(d) <= EpisodeScore(e)
    BY <2>1, AheadOrders
  <2>5. PICK E \in SUBSET Episodes : E = Episodes
    OBVIOUS
  <2>6. Max({EpisodeScore(d) : d \in E}) = EpisodeScore(e)
    BY <2>4, <2>5, MaxOfScores
  <2>7. item(e) \in EpisodeRisks /\ item(e).score = EpisodeScore(e)
    BY <1>1, <1>2, <2>3
  <2> QED
    BY <2>5, <2>6, <2>7
<1> QED
  BY <1>4, <1>5 DEF EpisodeRisksAreWorst

\* In every reachable timeline the report of risks says of a kind of episodes
\* what its worst is, has the worst of all, and keeps every administrative
\* service that was seen (build_risk_report).
THEOREM RisksAreTrue == DriftSpec => []RisksTellAnalysis
<1>1. TimelineInv => RisksTellAnalysis
  BY WorstAreTold, SurfaceTold DEF RisksTellAnalysis
<1> QED
  BY <1>1, TimelineHolds, PTL

=============================================================================
