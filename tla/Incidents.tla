------------------------------ MODULE Incidents ------------------------------
(***************************************************************************)
(* Incidents of one target: the reconciliation that ends every persisted   *)
(* worker run (apps/worker), the incident and finding handlers of the API  *)
(* that people use meanwhile, and the alerts sent for new incidents.       *)
(*                                                                         *)
(* An incident stands for one finding or episode and bears its identifier. *)
(* Of what a candidate is computed from, the model keeps the operational   *)
(* state of its finding and whether its resource has a registered owner:   *)
(* both reach context_json, so a change of either changes the incident.    *)
(* Runs of one target by several workers interleave statement by statement.*)
(***************************************************************************)
EXTENDS Naturals, FiniteSets

CONSTANTS
  Workers,      \* worker processes
  Ids,          \* findings and episodes, and the incidents they give rise to
  Webhooks,     \* configured webhook and slack URLs
  Emails,       \* configured e-mail recipients
  NoId,         \* no incident in hand
  MaxEdits,     \* bound: edits by people
  MaxCrashes    \* bound: runs that die or fail half-way

ASSUME IncidentAssumption ==
  /\ NoId \notin Ids /\ NoId \notin Webhooks \cup Emails
  /\ Webhooks \cap Emails = {}
  /\ MaxEdits \in Nat /\ MaxCrashes \in Nat

VARIABLES
  known,        \* findings and episodes registered, ever
  triage,       \* operational_state of each finding
  owned,        \* ids whose resource is in asset_owners
  incidents,    \* table incidents
  posts,        \* requests sent to webhooks, per worker, incident and URL
  deliveries,   \* rows of alert_deliveries, likewise
  worker,       \* the run of each worker
  edits,        \* edits so far
  crashes,      \* runs that died so far
  wanted,       \* history: what people last asked of each incident
  contested,    \* history: incidents edited under a run that had read them
  newcomers     \* history: ids first stored since each worker listed findings

incidentVars == <<known, triage, owned, incidents, posts, deliveries, worker,
                  edits, crashes, wanted, contested, newcomers>>

tables == <<known, triage, owned, incidents>>
alerts == <<posts, deliveries>>
people == <<edits, wanted, contested, newcomers>>

(***************************************************************************)
(* Rows and local state                                                    *)
(***************************************************************************)
OperationalStates == {"open", "accepted", "mitigated", "false_positive"}
IncidentStates == {"open", "acknowledged", "resolved"}
IncidentOwners == {"nobody", "person", "registered"}
Destinations == Webhooks \cup Emails

(* What a candidate tells of its source; an unseen id is no candidate.     *)
Facts == [seen : BOOLEAN, op : OperationalStates, owned : BOOLEAN]
Unseen == [seen |-> FALSE, op |-> "open", owned |-> FALSE]

Incident == [stored : BOOLEAN, state : IncidentStates, owner : IncidentOwners,
             notes : BOOLEAN, context : Facts]
NoIncident == [stored |-> FALSE, state |-> "open", owner |-> "nobody",
               notes |-> FALSE, context |-> Unseen]

(* persist: registering what the scan found; list: findings listed;        *)
(* loop: between two candidates or two resolutions; decide: one incident   *)
(* read; post, record: announcing it to the destinations left in dests.    *)
RunSteps == {"idle", "persist", "list", "loop", "decide", "post", "record"}
Run == [step : RunSteps, candidates : [Ids -> Facts], todo : SUBSET Ids,
        stale : SUBSET Ids, id : Ids \cup {NoId}, prev : Incident,
        dests : SUBSET Destinations,
        dest : Destinations \cup {NoId}]
NoRun == [step |-> "idle", candidates |-> [i \in Ids |-> Unseen], todo |-> {},
          stale |-> {}, id |-> NoId, prev |-> NoIncident, dests |-> {},
          dest |-> NoId]

IncidentsInit ==
  /\ known = {} /\ owned = {}
  /\ triage = [i \in Ids |-> "open"]
  /\ incidents = [i \in Ids |-> NoIncident]
  /\ posts = [w \in Workers |-> [i \in Ids |-> [d \in Webhooks |-> 0]]]
  /\ deliveries = [w \in Workers |-> [i \in Ids |-> [d \in Destinations |-> 0]]]
  /\ worker = [w \in Workers |-> NoRun]
  /\ edits = 0 /\ crashes = 0
  /\ wanted = [i \in Ids |-> [state |-> "open", notes |-> FALSE,
                               owner |-> "nobody"]]
  /\ contested = {}
  /\ newcomers = [w \in Workers |-> {}]

(***************************************************************************)
(* Candidates and the incidents they become                                *)
(***************************************************************************)

(* Mutant: findings somebody has dealt with are skipped.                   *)
SkippedWhenHandled(i) == triage[i] # "open"

(* build_incident_operations_intelligence skips findings whose operational *)
(* state is "resolved". OperationalState knows no such state: the alias is *)
(* stored as "mitigated", so every finding ever registered is a candidate. *)
Skipped(i) == triage[i] = "resolved"

Candidates ==
  [i \in Ids |-> IF i \in known /\ ~Skipped(i)
                 THEN [seen |-> TRUE, op |-> triage[i], owned |-> i \in owned]
                 ELSE Unseen]

(* The hint "acknowledged" asks for an operational state of that name,     *)
(* which is stored as "accepted": the hint is always "open".               *)
Fresh(facts) ==
  [stored |-> TRUE, state |-> "open", notes |-> FALSE, context |-> facts,
   owner |-> IF facts.owned THEN "registered" ELSE "nobody"]

(* Mutant: the notes are not carried over.                                 *)
UpdatedBare(prev, facts) ==
  [stored |-> TRUE, state |-> prev.state, notes |-> FALSE, context |-> facts,
   owner |-> IF facts.owned THEN "registered" ELSE prev.owner]

(* The incident as a run that read prev updates it.                        *)
Updated(prev, facts) ==
  [stored |-> TRUE, state |-> prev.state, notes |-> prev.notes, context |-> facts,
   owner |-> IF facts.owned THEN "registered" ELSE prev.owner]

(***************************************************************************)
(* A run                                                                   *)
(***************************************************************************)
StartRun(w) ==
  /\ worker[w].step = "idle"
  /\ worker' = [worker EXCEPT ![w] = [NoRun EXCEPT !.step = "persist"]]
  /\ UNCHANGED <<tables, alerts, people, crashes>>

(* register_drift_report_scoped and store_episodes_scoped.                 *)
RegisterFinding(w, i) ==
  /\ worker[w].step = "persist"
  /\ i \notin known
  /\ known' = known \cup {i}
  /\ UNCHANGED <<triage, owned, incidents, alerts, worker, people, crashes>>

ListFindings(w) ==
  /\ worker[w].step = "persist"
  /\ worker' = [worker EXCEPT ![w] = [NoRun EXCEPT !.step = "list",
                                                   !.candidates = Candidates]]
  /\ newcomers' = [newcomers EXCEPT ![w] = {}]
  /\ UNCHANGED <<tables, alerts, edits, wanted, contested, crashes>>

Seen(me) == {i \in Ids : me.candidates[i].seen}

(* Incidents the run will resolve: those listed that are no candidates.    *)
ListIncidents(w) ==
  LET me == worker[w]
      open == {i \in Ids : incidents[i].stored /\ incidents[i].state # "resolved"} IN
  /\ me.step = "list"
  /\ worker' = [worker EXCEPT ![w] = [me EXCEPT !.step = "loop", !.todo = Seen(me),
                                                !.stale = open \ Seen(me)]]
  /\ contested' = contested \cup (open \ Seen(me))
  /\ UNCHANGED <<tables, alerts, edits, wanted, newcomers, crashes>>

GetIncident(w, i) ==
  LET me == worker[w] IN
  /\ me.step = "loop"
  /\ i \in me.todo
  /\ worker' = [worker EXCEPT ![w] = [me EXCEPT !.step = "decide", !.id = i,
                                                !.todo = @ \ {i},
                                                !.prev = incidents[i]]]
  /\ UNCHANGED <<tables, alerts, people, crashes>>

BackToLoop(me) == [me EXCEPT !.step = "loop", !.id = NoId, !.prev = NoIncident]

(* Mutant: the stored incident is not looked at.                           *)
CreateIncidentAnew(w) ==
  LET me == worker[w] IN
  /\ me.step = "decide"
  /\ incidents' = [incidents EXCEPT ![me.id] = Fresh(me.candidates[me.id])]
  /\ worker' = [worker EXCEPT ![w] = [me EXCEPT !.step = "post",
                                                !.dests = Destinations]]
  /\ newcomers' = IF incidents[me.id].stored THEN newcomers
                  ELSE [v \in Workers |-> newcomers[v] \cup {me.id}]
  /\ UNCHANGED <<known, triage, owned, alerts, edits, wanted, contested, crashes>>

(* upsert_incident_scoped overwrites every column but created_at.          *)
CreateIncident(w) ==
  LET me == worker[w] IN
  /\ me.step = "decide"
  /\ ~me.prev.stored
  /\ incidents' = [incidents EXCEPT ![me.id] = Fresh(me.candidates[me.id])]
  /\ worker' = [worker EXCEPT ![w] = [me EXCEPT !.step = "post",
                                                !.dests = Destinations]]
  /\ newcomers' = IF incidents[me.id].stored THEN newcomers
                  ELSE [v \in Workers |-> newcomers[v] \cup {me.id}]
  /\ UNCHANGED <<known, triage, owned, alerts, edits, wanted, contested, crashes>>

(* Mutant: incident_changed does not compare context_json.                 *)
UpdateIncidentLazily(w) ==
  LET me == worker[w]
      next == Updated(me.prev, me.candidates[me.id]) IN
  /\ me.step = "decide"
  /\ me.prev.stored /\ me.prev.state # "resolved"
  /\ IF next.owner = me.prev.owner
     THEN UNCHANGED incidents
     ELSE incidents' = [incidents EXCEPT ![me.id] = next]
  /\ worker' = [worker EXCEPT ![w] = BackToLoop(me)]
  /\ UNCHANGED <<known, triage, owned, alerts, people, crashes>>

UpdateIncident(w) ==
  LET me == worker[w]
      next == Updated(me.prev, me.candidates[me.id]) IN
  /\ me.step = "decide"
  /\ me.prev.stored /\ me.prev.state # "resolved"
  /\ IF next = me.prev      \* incident_changed
     THEN UNCHANGED incidents
     ELSE incidents' = [incidents EXCEPT ![me.id] = next]
  /\ worker' = [worker EXCEPT ![w] = BackToLoop(me)]
  /\ UNCHANGED <<known, triage, owned, alerts, people, crashes>>

(* Mutant: the error is swallowed and the loop goes on.                    *)
FailOnResolvedQuietly(w) ==
  /\ worker[w].step = "decide"
  /\ worker[w].prev.stored /\ worker[w].prev.state = "resolved"
  /\ worker' = [worker EXCEPT ![w] = BackToLoop(@)]
  /\ UNCHANGED <<tables, alerts, people, crashes>>

(* The state becomes "reopened", which upsert_incident_scoped refuses: the *)
(* error ends the run and the item is marked failed.                       *)
FailOnResolved(w) ==
  /\ worker[w].step = "decide"
  /\ worker[w].prev.stored /\ worker[w].prev.state = "resolved"
  /\ worker' = [worker EXCEPT ![w] = NoRun]
  /\ UNCHANGED <<tables, alerts, people, crashes>>

(* The request is answered, refused or lost: the run goes on all the same. *)
PostAlert(w, d) ==
  LET me == worker[w] IN
  /\ me.step = "post"
  /\ d \in me.dests \cap Webhooks
  /\ posts' = [posts EXCEPT ![w][me.id][d] = @ + 1]
  /\ worker' = [worker EXCEPT ![w] = [me EXCEPT !.step = "record", !.dest = d]]
  /\ UNCHANGED <<tables, deliveries, people, crashes>>

(* An e-mail is recorded and never sent.                                   *)
RecordAlert(w, d) ==
  LET me == worker[w] IN
  /\ \/ me.step = "record" /\ d = me.dest
     \/ me.step = "post" /\ d \in me.dests \cap Emails
  /\ deliveries' = [deliveries EXCEPT ![w][me.id][d] = @ + 1]
  /\ worker' = [worker EXCEPT ![w] = [me EXCEPT !.step = "post", !.dest = NoId,
                                                !.dests = @ \ {d}]]
  /\ UNCHANGED <<tables, posts, people, crashes>>

AlertsDone(w) ==
  /\ worker[w].step = "post" /\ worker[w].dests = {}
  /\ worker' = [worker EXCEPT ![w] = BackToLoop(@)]
  /\ UNCHANGED <<tables, alerts, people, crashes>>

ResolveStale(w, i) ==
  LET me == worker[w] IN
  /\ me.step = "loop" /\ me.todo = {}
  /\ i \in me.stale
  /\ incidents' = [incidents EXCEPT ![i].state = "resolved"]
  /\ worker' = [worker EXCEPT ![w] = [me EXCEPT !.stale = @ \ {i}]]
  /\ UNCHANGED <<known, triage, owned, alerts, people, crashes>>

FinishRun(w) ==
  /\ worker[w].step = "loop" /\ worker[w].todo = {} /\ worker[w].stale = {}
  /\ worker' = [worker EXCEPT ![w] = NoRun]
  /\ UNCHANGED <<tables, alerts, people, crashes>>

(* The process dies, or a store call fails and the run with it.            *)
AbandonRun(w) ==
  /\ worker[w].step # "idle"
  /\ crashes < MaxCrashes
  /\ crashes' = crashes + 1
  /\ worker' = [worker EXCEPT ![w] = NoRun]
  /\ UNCHANGED <<tables, alerts, people>>

(***************************************************************************)
(* People, through the API                                                 *)
(***************************************************************************)
InFlight(i) ==
  \E w \in Workers : \/ worker[w].step = "decide" /\ worker[w].id = i
                     \/ i \in worker[w].stale

Edit == edits < MaxEdits /\ edits' = edits + 1

Wish(row) == [state |-> row.state, notes |-> row.notes, owner |-> row.owner]

EditIncident(i, row) ==
  /\ Edit
  /\ incidents[i].stored
  /\ incidents' = [incidents EXCEPT ![i] = row]
  /\ wanted' = [wanted EXCEPT ![i] = Wish(row)]
  /\ contested' = IF InFlight(i) THEN contested \cup {i} ELSE contested \ {i}
  /\ UNCHANGED <<known, triage, owned, alerts, worker, newcomers, crashes>>

(* ack_incident, resolve_incident and the state of patch_incident.         *)
SetIncidentState(i) ==
  \E s \in IncidentStates : EditIncident(i, [incidents[i] EXCEPT !.state = s])

AssignIncidentOwner(i) == EditIncident(i, [incidents[i] EXCEPT !.owner = "person"])

SetIncidentNote(i) == EditIncident(i, [incidents[i] EXCEPT !.notes = TRUE])

(* set_finding_operational_state_scoped of a registered finding.           *)
TriageFinding(i) ==
  /\ Edit
  /\ i \in known
  /\ \E op \in OperationalStates : triage' = [triage EXCEPT ![i] = op]
  /\ UNCHANGED <<known, owned, incidents, alerts, worker, wanted, contested,
                 newcomers, crashes>>

(* upsert_asset_owner_scoped.                                              *)
RegisterOwner(i) ==
  /\ Edit
  /\ owned' = owned \cup {i}
  /\ UNCHANGED <<known, triage, incidents, alerts, worker, wanted, contested,
                 newcomers, crashes>>

RunStep(w) ==
  \/ StartRun(w)
  \/ \E i \in Ids : \/ RegisterFinding(w, i)
                   \/ GetIncident(w, i)
                   \/ ResolveStale(w, i)
  \/ ListFindings(w)
  \/ ListIncidents(w)
  \/ CreateIncident(w)
  \/ UpdateIncident(w)
  \/ FailOnResolved(w)
  \/ \E d \in Destinations : PostAlert(w, d) \/ RecordAlert(w, d)
  \/ AlertsDone(w)
  \/ FinishRun(w)

PeopleStep ==
  \E i \in Ids : \/ SetIncidentState(i)
                \/ AssignIncidentOwner(i)
                \/ SetIncidentNote(i)
                \/ TriageFinding(i)
                \/ RegisterOwner(i)

IncidentsNext ==
  \/ \E w \in Workers : RunStep(w) \/ AbandonRun(w)
  \/ PeopleStep

IncidentsSpec == IncidentsInit /\ [][IncidentsNext]_incidentVars

(* The target is run again and again and every run comes to its end, which *)
(* takes webhooks that answer or refuse: the client sets no timeout.       *)
FairIncidentsSpec ==
  IncidentsSpec /\ \A w \in Workers : WF_incidentVars(RunStep(w))

(***************************************************************************)
(* Properties                                                              *)
(***************************************************************************)
IncidentsTypeOK ==
  /\ known \subseteq Ids /\ owned \subseteq Ids
  /\ triage \in [Ids -> OperationalStates]
  /\ incidents \in [Ids -> Incident]
  /\ posts \in [Workers -> [Ids -> [Webhooks -> Nat]]]
  /\ deliveries \in [Workers -> [Ids -> [Destinations -> Nat]]]
  /\ worker \in [Workers -> Run]
  /\ edits \in 0 .. MaxEdits /\ crashes \in 0 .. MaxCrashes
  /\ wanted \in [Ids -> [state : IncidentStates, notes : BOOLEAN,
                         owner : IncidentOwners]]
  /\ contested \subseteq Ids
  /\ newcomers \in [Workers -> SUBSET Ids]

(* get_incident_scoped and upsert_incident_scoped are two statements, so   *)
(* each of several runs may create an incident and announce it. No worker  *)
(* announces the same one twice to a destination, and none is announced    *)
(* that is not stored.                                                     *)
NoDoubleAnnouncement ==
  \A w \in Workers, i \in Ids :
    /\ \A d \in Webhooks : posts[w][i][d] <= 1
    /\ \A d \in Destinations :
         deliveries[w][i][d] <= IF incidents[i].stored THEN 1 ELSE 0

Announcing(w, i) == worker[w].step \in {"post", "record"} /\ worker[w].id = i

(* The request to a webhook and the row that records it agree, but for the *)
(* request under way; a run that died in between leaves one unrecorded.    *)
DeliveriesMatchPosts ==
  \A w \in Workers, i \in Ids, d \in Webhooks :
    /\ deliveries[w][i][d] <= posts[w][i][d]
    /\ crashes = 0 /\ deliveries[w][i][d] < posts[w][i][d] =>
         Announcing(w, i) /\ worker[w].step = "record" /\ worker[w].dest = d

(* While no run died, every incident was announced to every destination    *)
(* by the run that created it, or is being so. A death between the upsert  *)
(* and the alerts leaves it unannounced for ever: the next run finds it.   *)
EveryIncidentAnnounced ==
  crashes = 0 =>
    \A i \in Ids : incidents[i].stored =>
      \E w \in Workers : \/ Announcing(w, i)
                         \/ \A d \in Destinations : deliveries[w][i][d] = 1

(* Requests, the rows that record them, and incidents tell one story,      *)
(* statement by statement and over overlapping runs.                       *)
AlertsMatchIncidents ==
  NoDoubleAnnouncement /\ DeliveriesMatchPosts /\ EveryIncidentAnnounced

(* A run closes an incident because its finding is gone, but findings are  *)
(* never removed. What it closes are the incidents of findings registered  *)
(* by another run after it listed the findings.                            *)
RunsResolveOnlyNewcomers ==
  \A w \in Workers : worker[w].stale \subseteq newcomers[w]

(* What people did to an incident stands, unless a run had read the        *)
(* incident, or listed it for closing, before they did it. Only the owner  *)
(* gives way to the one registered for the resource.                       *)
UncontestedEditsHold ==
  \A i \in Ids \ contested : incidents[i].stored =>
    /\ incidents[i].state = wanted[i].state
    /\ incidents[i].notes = wanted[i].notes
    /\ incidents[i].owner \in {wanted[i].owner, "registered"}

Blocked == \E i \in known : incidents[i].stored /\ incidents[i].state = "resolved"

(* As long as an incident stays resolved no run of its target ends well,   *)
(* from the next one on: its finding is still a candidate, the incident    *)
(* would be reopened, and "reopened" is no state the store accepts.        *)
ResolvedStopsRuns ==
  <>[]Blocked => <>[][~ \E w \in Workers : FinishRun(w)]_incidentVars

(* Once people leave off, every finding has its incident and the incident  *)
(* tells the finding's present facts, unless a resolved one is in the way. *)
IncidentsCatchUp ==
  \/ []<>Blocked
  \/ <>[](\A i \in known : incidents[i].stored /\ incidents[i].context = Candidates[i])
=============================================================================
