------------------------------- MODULE Drift -------------------------------
(***************************************************************************)
(* From snapshots to findings: atlas-diff and atlas-drift.                 *)
(*                                                                         *)
(* A timeline goes through the snapshots of a target in the order of their *)
(* timestamps.  Each pair of neighbours is compared, what changed becomes  *)
(* scored findings under a policy, and a history kept along the way tells  *)
(* whether a finding is new, recurring or persistent.  The k-th snapshot   *)
(* has timestamp k.                                                        *)
(***************************************************************************)
EXTENDS Integers, Sequences, FiniteSets

CONSTANTS
    Target, Ips, Subdomains, Services,   \* Services are URLs
    Host,           \* of a service: the target or a subdomain
    Environment,    \* infer_environment: what the name of a resource tells
    Pattern,        \* of a subdomain: "admin", "nonprod" or "plain", by its labels
    Scheme,         \* of a service: "http", "https" or another
    Answers,        \* of services: status, backend (server, provider), technologies, headers
    Gone,           \* the answer of a service that is not there
    Policies,
    MaxSnapshots    \* bound: length of the timeline

\* Addresses, names and URLs are different strings, and discovery does not list
\* the target among its subdomains.
ASSUME DriftAssumption ==
    /\ Ips \cap Subdomains = {} /\ Ips \cap Services = {} /\ Subdomains \cap Services = {}
    /\ Target \notin Subdomains
    /\ Gone \notin Answers
    /\ MaxSnapshots \in Nat \ {0}

Resources == Ips \cup Subdomains \cup Services
Environments == {"production", "admin", "development", "staging", "test", "unknown"}

\* scan_target asks the target and the subdomains it has found, nobody else.
Scans == {s \in [ips : SUBSET Ips, subdomains : SUBSET Subdomains,
                 services : [Services -> Answers \cup {Gone}]] :
            \A x \in Services : s.services[x] # Gone => Host[x] \in s.subdomains \cup {Target}}

Categories == {"new_ip", "removed_ip",
               "new_admin_subdomain", "new_nonprod_subdomain", "new_subdomain", "subdomain_removed",
               "new_http_service", "new_https_service", "new_service", "service_removed",
               "service_became_available", "service_backend_changed", "service_fingerprint_changed"}
Severities == {"info", "low", "medium", "high"}
Criticalities == {"low", "medium", "high", "critical"}
States == {"new", "recurring", "persistent", "suppressed"}

Findings == [category : Categories, resource : Resources, severity : Severities,
             score : Nat, criticality : Criticalities, state : States]

\* No policy is the empty one.
NoPolicy == [allowedCategories |-> {}, allowedResources |-> {}, exceptions |-> {},
             critical |-> {}, baseline |-> {}, overrides |-> <<>>]

(***************************************************************************)
(* diff_snapshots                                                          *)
(***************************************************************************)
Present(scan) == {s \in Services : scan.services[s] # Gone}

\* service_changed looks at the headers too; titles and content types do not count.
Changed(older, newer) ==
    {s \in Present(older) \cap Present(newer) : older.services[s] # newer.services[s]}

(***************************************************************************)
(* Classification                                                          *)
(***************************************************************************)
EnvironmentOf(p, r) == IF r \in DOMAIN p.overrides THEN p.overrides[r] ELSE Environment[r]

\* classify_criticality; an address is classified as if its environment were unknown.
CriticalityOf(p, r) ==
    LET env == EnvironmentOf(p, r)
    IN CASE r \in p.critical -> "critical"
         [] r \notin p.critical /\ r \in Ips -> "low"
         [] r \notin p.critical /\ r \notin Ips /\ env = "admin"
              -> IF r \in Services THEN "critical" ELSE "high"
         [] r \notin p.critical /\ r \notin Ips /\ env = "production"
              -> IF r \in Services THEN "high" ELSE "medium"
         [] r \notin p.critical /\ r \notin Ips /\ env = "staging" -> "medium"
         [] OTHER -> "low"

CriticalityRank == [low |-> 0, medium |-> 1, high |-> 2, critical |-> 3]
Elevated(c, least) == IF CriticalityRank[c] < CriticalityRank[least] THEN least ELSE c

Finding(category, r, severity, score, criticality) ==
    [category |-> category, resource |-> r, severity |-> severity,
     score |-> score, criticality |-> criticality, state |-> "new"]

NewSubdomain(p, r) ==
    CASE Pattern[r] = "admin" ->
           Finding("new_admin_subdomain", r, "high", 95, Elevated(CriticalityOf(p, r), "high"))
      [] Pattern[r] = "nonprod" ->
           Finding("new_nonprod_subdomain", r, "medium", 55, CriticalityOf(p, r))
      [] OTHER ->
           Finding("new_subdomain", r, "low", 20, CriticalityOf(p, r))

NewService(p, r) ==
    CASE Scheme[r] = "http" ->
           Finding("new_http_service", r, "high", 90,
                   Elevated(CriticalityOf(p, r),
                            IF EnvironmentOf(p, r) = "admin" THEN "critical" ELSE "high"))
      [] Scheme[r] = "https" ->
           Finding("new_https_service", r, "medium", 50, CriticalityOf(p, r))
      [] OTHER ->
           Finding("new_service", r, "low", 20, CriticalityOf(p, r))

IsSuccess(status) == status \in 200 .. 299
\* Mutant: before and after are swapped.
BecameUnavailable(before, after) == IsSuccess(before.status) /\ ~IsSuccess(after.status)
BecameAvailable(before, after) == ~IsSuccess(before.status) /\ IsSuccess(after.status)

\* classify_service_change.
ServiceChange(p, r, before, after) ==
    LET sensitive == EnvironmentOf(p, r) \in {"admin", "production"}
        critical  == CriticalityOf(p, r) \in {"critical", "high"}
    IN  {f \in {Finding("service_became_available", r,
                        IF sensitive THEN "high" ELSE "medium",
                        IF sensitive THEN 75 ELSE 60, CriticalityOf(p, r))} :
            BecameAvailable(before, after)}
        \cup {f \in {Finding("service_backend_changed", r,
                        IF critical THEN "medium" ELSE "low",
                        IF critical THEN 30 ELSE 15, CriticalityOf(p, r))} :
            before.backend # after.backend}
        \cup {f \in {Finding("service_fingerprint_changed", r, "medium", 40, CriticalityOf(p, r))} :
            before.technologies # after.technologies}

\* The loops of analyze_diff_with_policy.  Mutant: removals are looked for the wrong way round.
AnalyzedBackwards(p, older, newer) ==
         {Finding("new_ip", r, "low", 10, CriticalityOf(p, r)) : r \in newer.ips \ older.ips}
    \cup {Finding("removed_ip", r, "info", 3, CriticalityOf(p, r)) : r \in newer.ips \ older.ips}
    \cup {NewSubdomain(p, r) : r \in newer.subdomains \ older.subdomains}
    \cup {Finding("subdomain_removed", r, "info", 5, CriticalityOf(p, r)) :
             r \in newer.subdomains \ older.subdomains}
    \cup {NewService(p, r) : r \in Present(newer) \ Present(older)}
    \cup UNION {ServiceChange(p, r, older.services[r], newer.services[r]) : r \in Changed(older, newer)}
Analyzed(p, older, newer) ==
         {Finding("new_ip", r, "low", 10, CriticalityOf(p, r)) : r \in newer.ips \ older.ips}
    \cup {Finding("removed_ip", r, "info", 3, CriticalityOf(p, r)) : r \in older.ips \ newer.ips}
    \cup {NewSubdomain(p, r) : r \in newer.subdomains \ older.subdomains}
    \cup {Finding("subdomain_removed", r, "info", 5, CriticalityOf(p, r)) :
             r \in older.subdomains \ newer.subdomains}
    \cup {NewService(p, r) : r \in Present(newer) \ Present(older)}
    \cup {Finding("service_removed", r, "info", 5, CriticalityOf(p, r)) :
             r \in Present(older) \ Present(newer)}
    \cup UNION {ServiceChange(p, r, older.services[r], newer.services[r]) : r \in Changed(older, newer)}

(***************************************************************************)
(* The policy                                                              *)
(***************************************************************************)
Milder(severity) == CASE severity = "high" -> "medium"
                      [] severity = "medium" -> "low"
                      [] OTHER -> severity

\* adjust_for_baseline: what is expected weighs 15 less, and never less than
\* nothing.
Adjusted(p, f) ==
    IF {f.resource, f.category} \cap p.baseline = {} THEN f
    ELSE [f EXCEPT !.score = IF @ > 15 THEN @ - 15 ELSE 0, !.severity = Milder(@)]

Suppresses(p, f, time) ==
    \/ f.category \in p.allowedCategories
    \/ f.resource \in p.allowedResources
    \/ \E x \in p.exceptions :
          x.category = f.category /\ x.resource = f.resource /\ time <= x.expires

(***************************************************************************)
(* The timeline                                                            *)
(***************************************************************************)
Key(f) == <<f.category, f.resource>>
Keys == Categories \X Resources

VARIABLES
    policy,     \* the policy the timeline is built under
    snapshots,  \* the scans gone through so far
    reports,    \* one per pair of neighbours: active findings, suppressed findings
    seen        \* the history: how often each key has been reported as active

vars == <<policy, snapshots, reports, seen>>

Reports == [active : SUBSET Findings, suppressed : SUBSET Findings]

Init ==
    /\ policy \in Policies
    /\ snapshots \in {<<s>> : s \in Scans}
    /\ reports = <<>>
    /\ seen = [k \in Keys |-> 0]

\* What the history makes of a finding.
Recurred(f, times) ==
    CASE times = 0 -> f
      [] times = 1 -> [f EXCEPT !.state = "recurring", !.score = @ + 10]
      [] OTHER     -> [f EXCEPT !.state = "persistent", !.score = @ + 20]

Report(p, older, newer, time, history) ==
    LET found  == {Adjusted(p, f) : f \in Analyzed(p, older, newer)}
        hidden == {f \in found : Suppresses(p, f, time)}
    IN  [active     |-> {Recurred(f, history[Key(f)]) : f \in found \ hidden},
         suppressed |-> {[f EXCEPT !.state = "suppressed"] : f \in hidden}]

\* One step of build_timeline_report.  Mutant: suppressed findings count as seen.
CompareNextCountingAll(scan) ==
    LET n      == Len(snapshots) + 1
        report == Report(policy, snapshots[n - 1], scan, n, seen)
        keys   == {Key(f) : f \in report.active \cup report.suppressed}
    IN /\ n <= MaxSnapshots
       /\ snapshots' = Append(snapshots, scan)
       /\ reports' = Append(reports, report)
       /\ seen' = [k \in Keys |-> IF k \in keys THEN seen[k] + 1 ELSE seen[k]]
       /\ UNCHANGED policy
CompareNext(scan) ==
    LET n      == Len(snapshots) + 1
        report == Report(policy, snapshots[n - 1], scan, n, seen)
        keys   == {Key(f) : f \in report.active}
    IN /\ n <= MaxSnapshots
       /\ snapshots' = Append(snapshots, scan)
       /\ reports' = Append(reports, report)
       /\ seen' = [k \in Keys |-> IF k \in keys THEN seen[k] + 1 ELSE seen[k]]
       /\ UNCHANGED policy

Next == \E scan \in Scans : CompareNext(scan)

DriftSpec == Init /\ [][Next]_vars

(***************************************************************************)
(* Properties                                                              *)
(***************************************************************************)
TypeOK ==
    /\ policy \in Policies
    /\ snapshots \in Seq(Scans)
    /\ Len(snapshots) \in 1 .. MaxSnapshots
    /\ reports \in Seq(Reports)
    /\ Len(reports) = Len(snapshots) - 1
    /\ seen \in [Keys -> 0 .. MaxSnapshots]

Reported(k) == reports[k].active \cup reports[k].suppressed

\* A finding is new, recurring or persistent by the number of earlier
\* transitions that showed it; the ones in which the policy held it back do
\* not count, so a finding whose exception has expired starts as new.
StateTellsHistory ==
    \A k \in DOMAIN reports : \A f \in reports[k].active :
        LET before == {j \in 1 .. k - 1 : \E g \in reports[j].active : Key(g) = Key(f)}
        IN  f.state = CASE Cardinality(before) = 0 -> "new"
                        [] Cardinality(before) = 1 -> "recurring"
                        [] OTHER -> "persistent"

\* The score of a finding does not fall while it recurs, and what recurrence
\* adds does not add up: it is never more than 20 above an earlier score.
ScoresGrowWithinBonus ==
    \A j, k \in DOMAIN reports : j < k =>
        \A f \in reports[j].active, g \in reports[k].active :
            Key(f) = Key(g) => f.score <= g.score /\ g.score <= f.score + 20

\* Nothing appears twice without having gone in between.
Appearing == {"new_ip", "new_admin_subdomain", "new_nonprod_subdomain", "new_subdomain",
              "new_http_service", "new_https_service", "new_service"}
Going == {"removed_ip", "subdomain_removed", "service_removed"}

AppearsAfterGoing ==
    \A j, k \in DOMAIN reports : j < k =>
        \A f \in Reported(j), g \in Reported(k) :
            (f.category \in Appearing /\ g.category \in Appearing /\ f.resource = g.resource) =>
                \E i \in j + 1 .. k - 1 : \E h \in Reported(i) :
                    h.category \in Going /\ h.resource = f.resource

\* A transition without findings means that nothing changed but headers and
\* statuses, and that no service became available: those are compared, but
\* no finding speaks of them.
SilenceMeansSame ==
    \A k \in DOMAIN reports : Reported(k) = {} =>
        LET older == snapshots[k]
            newer == snapshots[k + 1]
        IN /\ older.ips = newer.ips
           /\ older.subdomains = newer.subdomains
           /\ Present(older) = Present(newer)
           /\ \A s \in Present(older) :
                LET x == older.services[s]
                    y == newer.services[s]
                IN x.backend = y.backend /\ x.technologies = y.technologies
                   /\ (IsSuccess(y.status) => IsSuccess(x.status))

\* Two findings of one transition never share a key.  They are stored under
\* it: of two that did, the table would keep one.
KeysAreUnique ==
    \A k \in DOMAIN reports : \A f, g \in Reported(k) : Key(f) = Key(g) => f = g
============================================================================
