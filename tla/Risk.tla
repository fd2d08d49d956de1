-------------------------------- MODULE Risk --------------------------------
(***************************************************************************)
(* The risk report of a target (atlas-risk): rules over the nodes of the   *)
(* exposure graph, the timeline's summary and the worst episodes.          *)
(*                                                                         *)
(* A risk is known by its rule and its resource, and of two that share     *)
(* them the first is kept.  Texts, evidence and the sums of scores and     *)
(* severities are left out.                                                *)
(***************************************************************************)
EXTENDS ExposureGraph

CONSTANTS
    Admin,      \* is_admin_label: the names that contain "admin"
    NameRank    \* the order of names as strings

ASSUME RiskAssumption ==
    /\ Admin \subseteq Resources \cup {Target}
    /\ IsFiniteSet(Resources)
    /\ \A r \in Resources : Environment[r] \in Environments /\ NameRank[Base[r]] \in Nat
    /\ \A p \in Policies : \A r \in DOMAIN p.overrides : p.overrides[r] \in Environments

RiskItem(rule, resource, severity, score) ==
    [rule |-> rule, resource |-> resource, severity |-> severity, score |-> score]

(***************************************************************************)
(* compute_cluster_score                                                   *)
(***************************************************************************)
KindBonus == [administrative_exposure |-> 40, service_expansion |-> 20, infrastructure_shift |-> 25,
              risky_deployment |-> 30, nonproduction_leak |-> 15, recurring_surface_change |-> 35,
              unknown_composite |-> 5]

\* The product with 1.15 is one of doubles: for these it stays short of the
\* half that rounding would take up.
ShortOfHalf == {50, 90, 110, 170, 190, 210, 330, 350, 370, 390, 410, 430}

\* To the nearest, halves up.
Times130(x) == (13 * x + 5) \div 10
Times115(x) == IF x \in ShortOfHalf THEN (23 * x) \div 20 ELSE (23 * x + 10) \div 20

EpisodeScore(e) ==
    LET count == Cardinality(e.findings)
        plain == MapThenSumSet(LAMBDA f : f.score, e.findings) + KindBonus[KindOf(e.findings)]
                 + (IF count >= 4 THEN 10 ELSE IF count >= 2 THEN 5 ELSE 0)
    IN  IF \E f \in e.findings : f.criticality = "critical" THEN Times130(plain)
        ELSE IF \E f \in e.findings : f.criticality = "high" THEN Times115(plain)
        ELSE plain

(***************************************************************************)
(* Rules over the graph                                                    *)
(***************************************************************************)
Degree(g, n) ==
    Cardinality({e \in g.edges : e[1] = n}) + Cardinality({e \in g.edges : e[3] = n})

ServicesIn(g) == {s \in Services : ServiceNode(s) \in DOMAIN g.nodes}
HostsIn(g) == {h \in Subdomains \cup {Target} : HostNode(h) \in DOMAIN g.nodes}

\* Scheme and TLS are attributes that only build_graph_from_snapshot gives a
\* service, and the graph has that of the newest snapshot alone.  Mutant: of all.
DescribedByAny == UNION {Present(snapshots[k]) : k \in DOMAIN snapshots}
Described == Present(snapshots[Len(snapshots)])

PlaintextRisks(g) ==
    {RiskItem("plaintext-http-service", s,
              IF s \in Admin THEN "critical" ELSE "high",
              IF s \in Admin THEN 95 ELSE 70) :
        s \in {x \in ServicesIn(g) \cap Described : Scheme[x] = "http"}}

\* Without the attribute, a service counts as one without TLS.
AdminRisks(g) ==
    {LET tls == s \in Described /\ Scheme[s] = "https"
     IN  RiskItem("admin-surface-exposed", s,
                  IF tls THEN "high" ELSE "critical", IF tls THEN 85 ELSE 100) :
        s \in ServicesIn(g) \cap Admin}
    \cup {RiskItem("admin-subdomain-exposed", h, "high", 65) : h \in HostsIn(g) \cap Admin}

HubRisks(g) ==
    {RiskItem("high-degree-hub", n[2], "medium", 35) :
        n \in {x \in DOMAIN g.nodes : x[1] \in {"service", "subdomain"} /\ Degree(g, x) >= 8}}

(***************************************************************************)
(* Rules over the timeline and the episodes                                *)
(***************************************************************************)
\* What build_executive_summary counts; a resource is counted once for each
\* transition and finding.
Counted == UNION {{<<k, f>> : f \in reports[k].active} : k \in DOMAIN reports}

DriftRisks ==
    {r \in {RiskItem("persistent-critical-drift", Target, "critical", 110)} :
        /\ \E c \in Counted : c[2].criticality \in {"critical", "high"}
        /\ \E c \in Counted : c[2].state = "persistent"}

TotalOf(r) == MapThenSumSet(LAMBDA c : c[2].score, {c \in Counted : c[2].resource = r})

\* The three resources with the highest totals, if high enough; with equal
\* totals the names decide.
HotspotRisks ==
    LET ahead(q, r) == TotalOf(q) > TotalOf(r) \/ (TotalOf(q) = TotalOf(r) /\ NameRank[q] < NameRank[r])
        hot == {r \in Resources : TotalOf(r) >= 80 /\ Cardinality({q \in Resources : ahead(q, r)}) < 3}
    IN  {LET total == TotalOf(r)
         IN  RiskItem("hotspot-resource", r, IF total >= 140 THEN "high" ELSE "medium",
                      IF total < 160 THEN total ELSE 160) : r \in hot}

\* The titles of episodes are those of their kinds.  Five episodes at most are
\* looked at, the worst first; with equal scores the earlier, and within a
\* transition the one whose affinity key is less.  Mutant: the earliest first.
EnvironmentRank == [admin |-> 1, development |-> 2, production |-> 3, staging |-> 4, test |-> 5, unknown |-> 6]
KeyRank(e) ==
    LET a == Affinity(CHOOSE f \in e.findings : TRUE)
    IN  10 * NameRank[a[1]] + EnvironmentRank[a[2]]
Earlier(d, e) == d.started < e.started \/ (d.started = e.started /\ KeyRank(d) < KeyRank(e))
AheadInTime(d, e) == Earlier(d, e)
Ahead(d, e) ==
    \/ EpisodeScore(d) > EpisodeScore(e)
    \/ EpisodeScore(d) = EpisodeScore(e) /\ Earlier(d, e)

EpisodeRisks ==
    LET all   == Episodes
        top   == {e \in all : Cardinality({d \in all : Ahead(d, e)}) < 5}
        first == {e \in top : \A d \in top : KindOf(d.findings) = KindOf(e.findings) => ~Ahead(d, e)}
    IN  {LET score == EpisodeScore(e)
         IN  RiskItem("high-risk-episode", KindOf(e.findings),
                      IF score >= 180 THEN "critical" ELSE IF score >= 120 THEN "high" ELSE "medium", score) :
            e \in first}

\* build_risk_report.
Risks ==
    LET g == FullGraph
    IN  PlaintextRisks(g) \cup AdminRisks(g) \cup HubRisks(g) \cup DriftRisks \cup HotspotRisks \cup EpisodeRisks

(***************************************************************************)
(* Properties                                                              *)
(***************************************************************************)
\* An episode stands for all of its kind: what the report says of a kind is
\* said of its worst, and the worst of all is in the report.
EpisodeRisksAreWorst ==
    LET told == EpisodeRisks
    IN  /\ \A r \in told :
              r.score = Max({EpisodeScore(e) : e \in {x \in Episodes : KindOf(x.findings) = r.resource}})
        /\ Episodes # {} => Max({EpisodeScore(e) : e \in Episodes}) \in {r.score : r \in told}

\* A service with "admin" in its name that was ever seen stays a risk, although it
\* is gone, unless findings about it were held back; that it is not encrypted is
\* said only while it is there.
SurfaceStaysAtRisk ==
    LET told == Risks
        Says(rule, s) == \E r \in told : r.rule = rule /\ r.resource = s
        Told(s) == \A k \in DOMAIN reports : \A f \in reports[k].suppressed : f.resource # s
    IN  \A s \in Services \cap Admin :
            /\ Says("plaintext-http-service", s) <=> s \in Present(snapshots[Len(snapshots)]) /\ Scheme[s] = "http"
            /\ Says("admin-surface-exposed", s) => \E k \in DOMAIN snapshots : s \in Present(snapshots[k])
            /\ Told(s) /\ (\E k \in DOMAIN snapshots : s \in Present(snapshots[k])) => Says("admin-surface-exposed", s)

\* The risk report tells the analysis.
RisksTellAnalysis == EpisodeRisksAreWorst /\ SurfaceStaysAtRisk
=============================================================================
