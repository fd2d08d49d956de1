# Prometheus Atlas in TLA+

Prometheus Atlas watches the external surface of domains: it scans a target, keeps
snapshots, derives drift findings, episodes, a graph and incidents from them, and runs
the same analysis again on a schedule. Four kinds of process share one SQLite file through
`crates/atlas-store`:

| process | code | what it does to shared state |
|---|---|---|
| `atlas-api` | `crates/atlas-api` | serves HTTP; one `Mutex` around its store, so one handler runs at a time |
| `atlas-scheduler` | `apps/scheduler` | every tick enqueues a dispatch for each due job |
| `atlas-worker` | `apps/worker` | claims dispatches, scans, stores the results, reconciles incidents, sends alerts |
| `atlas` (CLI) | `apps/scanner` | one process per command: jobs, findings, scans, reports |

No code path opens a transaction around several statements of the control plane: **every
SQL statement commits on its own**, so the unit of interleaving in all these modules is
the statement (for the API, which holds its Mutex for a whole handler, still the
statement as far as other processes are concerned). There may be any number of workers
and schedulers, and each may die between two statements; an error of a store call ends a
worker or a tick through `?`, which looks the same to the others.

Contents: [inventory](#inventory) · [modules](#modules) · [runs](#what-the-runs-show) ·
[fairness](#fairness) · [proofs](#what-is-proved) ·
[abstractions](#abstractions) · [not modelled](#not-modelled) · [plan](#plan)

## Inventory

State, operations, interaction, and what makes each part correct. The table of
components with their status is in `PROJECT.json`, and so is the list of hazards, each at
its line with the properties aimed at it.

**Job queue** (`atlas-queue`, tables `job_queue`, `job_executions`). A row has a status
(pending, claimed, running, succeeded, failed), attempts, the time it becomes available,
the worker that claimed it, a lease. Producers (scheduler, API) insert; workers select the
first due row, claim it with an UPDATE that tests the status, and mark it running,
succeeded or failed, each time by reading the row and writing it back. A failure puts the
row back with a delay until its attempts are used up. Every change is followed by a row in
`job_executions`. Hard: two workers on one row; stale copies; deaths (the lease is written
and never read); a history written separately. Correct when: one worker at a time runs a
dispatch, it is run at most `max_attempts` times, an end is final, every dispatch ends
unless a death strands it, and the history agrees with the rows.

**Jobs and scheduler** (`atlas-jobs`, `apps/scheduler`, table `jobs`, handlers `jobs.rs`).
A job has a target, an interval, an enabled flag, `last_run_at`. The scheduler lists jobs,
and for each due one checks for an active dispatch and inserts one; people create, enable,
disable, delete and run jobs; workers touch `last_run_at`. Hard: the check and the insert
are two statements; the list goes stale during a tick; enable and disable rewrite the whole
row; a stranded dispatch counts as active for ever. Correct when: no pile-up of dispatches,
runs are spaced by the interval, a deleted job stays deleted, a due job is enqueued.

**Worker run** (`apps/worker`). For a claimed dispatch: scan, snapshot, the analysis of all
snapshots of the target, then findings, graph and episodes stored row by row, and incident
reconciliation when results are persisted. `atlas watch`, `rebuild`, `drift --persist` and
`POST /drift` store results too. Hard: several hundred statements and no transaction;
findings have a row per comparison, of which the listing shows one; episodes are never
deleted. Correct when: after an undisturbed run the tables hold the timeline of the files,
the listing tells the latest of each finding, and every other row has a cause.

**Incidents and alerts** (`worker`, `atlas-risk`, tables `incidents`, `alert_deliveries`,
handlers `incidents.rs`). Each finding or episode that is a candidate becomes an incident,
which people acknowledge, resolve, assign and annotate. A run creates, updates and resolves
incidents and announces new ones to webhooks, slack and e-mail (recorded, not sent). Hard:
read, decide and upsert are separate; two runs of one target overlap; a death between
storing and announcing. Correct when: people's edits stand, no incident is closed whose
finding is there, each is announced once, the incidents come to tell the facts.

**Finding triage** (table `finding_state`, handlers `findings.rs`, CLI `finding-*`). State,
owner and note of a finding, each set by reading the row and storing all of it. Hard: the
API and the CLI at once. Correct when no value is lost without such an overlap.

**Findings and drift** (`atlas-drift`, `atlas-diff`, tables `drift_runs`, `findings`). Diffs
of snapshots become scored findings; policy suppresses or adjusts; along a timeline a
finding is new, recurring or persistent. Hard: what a finding is depends on the whole
sequence of scans; several statements per report. Correct when: nothing that changes goes
unsaid, states and scores tell the history, no two findings share a key.

**Correlation and episodes** (`atlas-correlation`, `atlas-episodes`, table `episodes`). The
active findings of a transition are grouped by host and environment; a group has a kind, a
state, a score and an id that is a hash of what it is made of. A window of 30 minutes is
configured and not used. Rows are replaced one by one and never deleted. Correct when:
different episodes have different ids, and an episode's state tells how often something in
it was there before.

**Exposure graph** (`atlas-graph`, tables `graphs`, `graph_nodes`, `graph_edges`). Snapshot,
timeline and episodes become nodes and edges that are merged by id. A store writes a header,
deletes and inserts row by row; a load is three SELECTs. Hard: a graph's id is its target
and a second; stores and loads overlap; a store dies. Correct when: the graph is connected
and says when a resource was last there; a store leaves its graph; a load returns one.

**Queries** (`atlas-query`, table `saved_queries`). A small language over the newest graph:
clauses with AND, OR and NOT, presets, directives for order and paging, neighbours, paths.
Queries are run as typed, or saved and run by name, one or all. Hard: a hand-written parser
in which words are operators, fields and values by place; comparisons that fail in the
middle of an evaluation; the list and the graph are read one after the other. Correct when:
the parser reads what the grammar says, an answer does not rest on a comparison that
failed, the pages of an answer tile it, searches find what reachability says, on torn graphs
too, and a run of saved queries fails only for a cause.

**Risk and reports** (`atlas-risk`, `atlas-report`). Rules over graph, timeline and episodes;
ownership gaps; an executive report. Correct when what is reported is so.

**Snapshots** (`atlas-snapshot`, table `snapshots`). One JSON file per scan, named by the
second, truncated and written in place, and a row that names it; every run reads all files of
the target again; `migrate` writes each as it read it. Hard: two scans in a second, a death
within a write, a migration beside a scan. Correct when: see the worker run.

**Store start-up** (`AtlasStore::initialize`). Creates tables, adds columns, rebuilds legacy
tables by copy, drop and rename. Every process does so when it starts. Hard: each statement
commits alone, processes start together and die. Correct when: no row is lost or hidden, and
the next start works.

**Tenancy and audit** (`atlas-tenancy`, tables `organizations`, `workspaces`, `users`,
`memberships`, `audit_events`, handlers `control_plane.rs`). Handlers of the API create the
four kinds of row by one upsert each, and record an event in a later statement; `initialize`
stores the organization and the workspace named "default" again at every start. Hard: each
upsert resolves one conflict and leaves the others to fail; nothing checks what identifiers
refer to; a row and its event are two statements. Correct when: a start is refused for a
cause, memberships belong to what clients were told, and the trail tells the rows.

**Auth, configuration, plugins, output, telemetry, baselines.** API keys and roles, files and
formatting, an append-only log and single-row upserts.

## Modules

```
DispatchLifecycle                 what the queue promises about a dispatch
   ^ refines     ^ EXTENDS
JobQueue         ControlPlane        Incidents        Migration
   ^                ^                   ^                ^
JobQueueProofs   ControlPlaneProofs  IncidentsProofs  MigrationProofs

Drift  <-  Episodes  <-  ExposureGraph  <-  Risk  <-  AnalysisProofs
                                                          each EXTENDS the one before
           Episodes  <-  Results  <-  ResultsProofs       INSTANCE, once per policy and timeline

GraphIds  <-  GraphStore, GraphSearch                     names of nodes and edges
GraphStore + GraphSearch  <-  GraphQueries                what is loaded is searched
GraphSearch + QueryLanguage  <-  QueryEngine  <-  Queries
Queries  <-  QueryGrammar                                 what the parser should read
GraphQueries + Queries  <-  GraphProofs                   about all of them but the grammar

FindingTriage + Tenancy  <-  ApiServer                    one API, its triage and control plane
ApiServer  <-  ApiServerProofs

MCControlPlane  MCIncidents  MCApiServer  MCMigration  MCRisk  MCGraphQueries
MCResults  MCQueries
```

The `MC*` modules only add symmetry sets and constants for TLC. Operators introduced by a
comment "Mutant" are deliberately wrong variants of the definition after them; no
specification uses them, they serve to see that the properties can fail.

### DispatchLifecycle

The queue with no SQL in it: a dispatch is unknown, ready, held by a worker, done or
buried, and has failed some number of times. `JobQueue` implements it (a refinement
mapping from the rows), and `ControlPlane` is built on it, so what the scheduler and the
API can rely on is stated once.

### JobQueue

| state | code |
|---|---|
| `queue` | rows of `job_queue`; an id not inserted yet is "absent" |
| `executions` | `job_executions`, how many records of each kind per dispatch |
| `unlogged` | rows whose producer stands between the INSERT and its first record |
| `worker` | where each worker stands in `process_next_queue_item`, which `mark_*` it is inside, and its copy of the row |
| `now`, `crashes` | the clock as `available_at` sees it; deaths so far |

One action per statement: `Enqueue`/`LogEnqueue` (enqueue_job_dispatch_scoped),
`SelectCandidate`/`ClaimCandidate`/`LoseCandidate` (claim_next_job_queue_item), `GetItem`/
`UpdateItem`/`AppendExecution` (the three `mark_*`), `ExecutionSucceeds`/`ExecutionFails`/
`TouchJob` (execute_queue_item and what follows), `WorkerCrash`, `ProducerCrash`, `Tick`.
`Claimed`, `Started`, `Succeeded`, `Failed` are the methods of `JobQueueItem`; `Written`
says which columns each UPDATE sets, since `mark_*` read all columns and write some.

### ControlPlane

Jobs, ticks, handlers and workers over the lifecycle. A tick is `ListJobs`, then `CheckJob`
and `EnqueueScheduled` per due job, then `EndTick`. An admin is the API process or a CLI
process: `LoadJob` reads a row, `StoreEnabled` writes all of it back (INSERT OR REPLACE),
`EnqueueManual` is `run_job`, `RunInline` the CLI's `job-run`. `TouchRun` precedes
`CompleteRun` as in the worker. A deleted row is `Deleted` and not `Unborn`, since ids are
random and none is used twice. `jobOf` and `producer` say which job a dispatch is for and
who inserted it, `lost` holds the dispatches of dead workers. `lastTouches` and `late` are
history: no step reads them.

### Incidents

One target, several workers that run it, people. `Ids` are findings and episodes together
with the incidents named after them. A run registers what it found, lists findings, lists
incidents, then for each candidate reads the incident and creates it, updates it or fails,
announces what it created, and last resolves the incidents it listed that are no
candidates. `wanted`, `contested` and `newcomers` are history.

### FindingTriage

The row of `finding_state` written by the API and by CLI processes. A request is a sequence
of writes, each `ReadTriage` then `UpsertTriage`; a PATCH has up to three.
`RefuseUnknown` is `ensure_finding_for_triage`. `behind`, `wanted` and `contested` are history.
The module is run as part of `ApiServer`.

### Tenancy and ApiServer

`Tenancy` has the four tables, each by what identifies its rows, and one action for each
upsert: `UpsertOrganization` cannot happen when another row has the slug, `UpsertUser` keeps
the row that has the subject, `UpsertMembership` sets the role alone.

`ApiServer` composes them with `FindingTriage`, in a server that starts and ends.

| state | code |
|---|---|
| that of `FindingTriage` and `Tenancy` | the rows, and the writes that a request has still to do |
| `boot` | where each process stands in `bootstrap_default_tenancy`: down, before the organization, before the workspace, refused, up, or (a command) working |
| `pending` | the event that the handler at work will record; while there is one, the Mutex is taken |
| `audit` | `audit_events`, in order |
| `creations` | requests to the control plane, and empty patches, so far |

A start is `BeginStart`, `BootOrganization` or `BootRefused`, `BootWorkspace`. A handler of
the control plane is its upsert (`CreateOrganization` .. `CreateMembership`, `RefuseCreation`
where SQLite refuses it) and then `RecordAudit`; one of the triage is `ApiRequest`, the steps
of `FindingTriage` (`WorkOn`), and `RecordAudit`; `HandlerFails` and `Leave` end it between
two statements. `told`, `renamed`, `moved`, `outside` and `gap` are history.

### Migration

`AtlasStore::initialize` on a new or legacy database, run by any number of processes.
`live` is the table under its own name, `side` the one with the suffix `_v026`; `step` is
where each process stands. One action per statement: `CreateBaseTable`, `ReadColumns`,
`AddColumn`, `ReadKey`, `CreateSide`, `CopyRows`, `DropTable`, `RenameSide`,
`CreateIndexes`, each with the ways SQLite may refuse it (`AddColumnFails`, `CopyFails`,
`DropFails`, `RenameFails`); `Save` is a process that has started and stores a row; `Stop`
is an end or a death. The tables `finding_state` and `saved_queries` are rebuilt alike and
the module follows one. `saved`, `overlap`, `gap` and `company` are history.

### Drift, Episodes, ExposureGraph, Risk

The analysis is a function of the snapshots, computed again from the first one at every
run. `Drift` makes it a state machine: `CompareNext` appends a snapshot, compares it with
the one before and classifies what changed (`Analyzed`, one operator per `classify_*`),
adjusts and suppresses by policy (`Adjusted`, `Suppresses`) and counts in `seen` what was
active, which gives states and bonuses (`Recurred`). `Scans` are what `scan_target` can
return: only hosts it has found are asked for services.

`Episodes`, `ExposureGraph` and `Risk` are operators over that state: `EpisodesOf` groups a
transition; `FullGraph` is `build_full_graph`, with `Merged` for `merge`; `Risks` is
`build_risk_report`, a set per rule. Scores of episodes are rounded as in the code, to the
nearest integer of a product of doubles; the integers for which the double falls short of
the half are listed (`ShortOfHalf`).

### Results

What a run leaves besides graph and incidents, and what is read of it. A snapshot is known
by its place in the order of time stamps, a file and a row of `snapshots` by their second.

| state | code |
|---|---|
| `scans` | what each scan has seen, one of the `Scans` of `Drift` |
| `file`, `rows` | the directory of the target (`NoFile`, `Torn`, or the snapshot in the file) and the table `snapshots` |
| `runs`, `findings`, `episodes` | the tables; a run is a pair of snapshots, and a finding has a row per run, in the order of writing |
| `proc` | what each process is doing, with the statements it has left |
| `now`, `events` | the second of the latest scan; requests and deaths so far |

`TakeScan` is `scan_target` and `Snapshot::new`; then `TruncateFile`, `WriteFile`
(`fs::write` of `save_snapshot`), `RegisterSnapshot`, `LoadFiles` (`build_analysis_bundle`:
all files, or the run ends in `LoadFails`), and `StoreNext`, one statement of
`register_drift_report_scoped` or `store_episodes_scoped` each. `Ask` is a request without a
scan: `rebuild`, `episodes`, a pair (`LoadPair`: `drift --persist`, `POST /drift`) or
`migrate` (`MigrateNext`, then the same two steps of a write). `Die` ends any of them.
`Timeline` and `EpisodesOf` take the comparison, the history and the episodes from `Drift`
and `Episodes`, instantiated with the snapshots in hand. `Listed` is the row that
`list_current_findings_operational_scoped` shows, `ReportedFindings` what the API's reports
build from the rows of `snapshots`. `fresh`, `used`, `asked`, `written` and `late` are history.

### GraphStore and GraphQueries

`header`, `nodes`, `edges` are the three tables by the second in a graph's id; a row says
which graph's it is. A writer's `Build` is the return of `build_full_graph`; then
`StoreHeader`, `DeleteNodes`, `DeleteEdges`, `InsertNode` and `InsertEdge` in the order of
ids, `Clash` when a plain INSERT meets a row, `Die` between two statements. A reader does
`ReadHeader`, `ReadNodes`, `ReadEdges`. `alone`, `whole`, `spoilt` and `calm` are history.

`GraphSearch` has the searches: `Search` is the breadth-first queue with its history,
`ShortestPath` and `Expand` are `bfs_shortest_path` and `expand_ids`, and `PathQuery`,
`NeighborsQuery`, `FilterQuery` the three kinds of query. `GraphQueries` searches what a
reader of `GraphStore` has loaded, and compares with `Ball`, the nodes within a distance
defined without a queue.

### QueryLanguage, QueryEngine, Queries, QueryGrammar

`QueryLanguage` is the parser on tokens: one operator per `parse_*` function, each returning
what it read and the place behind it, with the tables of fields, operators, presets and
literals. The functions call each other further on in the tokens: `ParseExpr` is the recursive
function of the place and of what binds how tightly that they make together, and
`ParseDirectives` the loop at the end of `parse_query`. An expression is the sequence of its
nodes, each behind its items, and a node knows how far back its items end (`QueryExpr`
without its boxes).

`QueryGrammar` is the grammar, for comparison: it derives the requests that a sequence of
tokens stands for, by splitting it and with no place or order of reading, and `FollowsGrammar`
compares the two. It is a module of its own as its operators are RECURSIVE.

`QueryEngine` is `execute_query`: `ClauseFails` and `ClauseHolds` are `matches_clause`, which
may end in an error; `Eval` is `matches_expr`, with the short cuts of AND and OR in `Until`,
`ExplainFails` the pass of EXPLAIN, which has none; `Sorted` and `Cut` are order and page;
`Answer` is the whole.

`Queries` is the state machine: a query is typed (`Type`), expressions are saved and deleted,
graphs stored, and a run of one query or all reads the list in one step (`RunOne`, `RunAll`)
and the graph in a later one (`AnswerListed`). `Truth` is the meaning of an expression with
no order of evaluation.

## What the runs show

Deadlock is not checked in these runs: identifiers, edits, requests, snapshots and the
clock are bounded, and a system with nothing to do may stand still.

| run | question and answer |
|---|---|
| `queue` | Two workers, two dispatches with a retry, a death. No two workers hold one item, claims stay within the budget, the history never overstates and is complete without deaths. An end is final, since the rows implement `DispatchLifecycle`; a claim before the retry delay is over happens only to a worker whose SELECT is older than the failure (the code does allow that one); a stranded item never moves again; with fair workers every dispatch ends or was stranded by a death. |
| `control_admin` | Two schedulers, one worker, the API editing, one death. No scheduler has two active dispatches of a job, and a job turned off gets at most one late dispatch from each scheduler (together `DispatchesDoNotPileUp`); a deleted job stays deleted under one API process; the dispatch of a dead worker keeps every scheduler from dispatching its job again. |
| `control_liveness` | One scheduler, retries, an edit, a death. Of three successful runs of a job the first and the last are at least an interval apart: a stale list costs one run too many, never two. With fairness a due job is enqueued or stops being due. |
| `incident_runs` | Two overlapping runs, two findings, a webhook and an e-mail recipient, an edit, a death. A run resolves only incidents of findings another run registered after it listed the findings; edits made while no run has the incident in hand stand; no worker announces an incident twice to a destination, rows and posts agree except for what a death cut off, and without deaths all is announced (together `AlertsMatchIncidents`). |
| `incident_liveness` | While an incident is resolved no run of its target ends well, from some point on; otherwise the incidents come to tell the findings' present facts. |
| `api_server` | The API and a command start, end and are refused; three requests about a finding, two organizations, workspaces and users, and a membership. A column of the triage holds what was last asked of it unless an overlapping write of another column put an older value back; a start is refused only after the default organization was renamed, and a membership goes astray only by a known subject or a workspace created again (`FaultsHaveCause`); once the API is down and the default slug is another's, it stays so; the tables are what the audit trail says, but for commands, starts, and handlers that ended half way. |
| `migration_starts` | Three processes, four starts, two saves, on new and legacy databases. No row is destroyed as long as no rebuild begins within another, and none is hidden unless a process died or started between a DROP and its RENAME; a start alone always succeeds; rows left in a side table stay there. |
| `analysis` | Every timeline of four snapshots of an address, a subdomain and a service, under two policies. States, scores and episodes tell the history (`StatesTellHistory`); nothing appears twice without going, and silence means that only headers and statuses changed; keys and episode ids are unique (`RowsTellChanges`); the graph is connected and says when a resource was last there (`GraphTellsTimeline`); the report has the worst episode of each kind, and an administrative service that was ever seen stays in it as a risk (`RisksTellAnalysis`); nothing vanishes but what a policy held back. |
| `graph_loads` | Two writers, a reader, two graphs in one second or two. A store that is alone under its id leaves its graph and is not refused; stores that overlap are noticed unless one graph is there complete; a load of a whole graph is that graph if no store under its id begins meanwhile; paths are shortest and found if there are any, neighbours are all within their depth, on torn graphs too. |
| `results` | Two processes, three snapshots of a service, two policies, and a request or a death. After a run that nobody disturbed, the tables hold the timeline of the files, whatever earlier runs stored or died in; each finding is listed as its latest report tells it, though the listing sorts by score; a row of snapshots that are no neighbours was asked for, overwritten or overtaken; under one policy no episode goes stale; a file that a death left torn ends every later run of the target. |
| `report_order` | Expected to fail: `atlas-drift` describes a new address as detected "en el snapshot más reciente"; the API's report builds its timeline from rows in descending order, and calls new an address that has gone. |
| `queries` | Every query of up to six tokens of three vocabularies, on two graphs: the parser reads it as the grammar does, or refuses it; an answer does not change with the truth of a comparison that failed, and EXPLAIN fails more often or agrees; the pages tile the answer in its order. Saved queries are saved, deleted and run while graphs are stored: a run fails only without a graph or for a query that may fail on one, and all answers are of one graph. |

Behaviour of the code that the runs make visible, and that a maintainer will want to know:

* A worker's death silences the job it was running, for good (`StrandedIsForever`,
  `DeadWorkerSilencesJob`): the lease is never read, and the scheduler takes the dead
  dispatch for an active one.
* An incident that a person resolves makes all later runs of its target fail
  (`ResolvedStopsRuns`): the finding is still a candidate, the worker asks for the state
  "reopened", and `IncidentState::from_str` does not know it. The alert for reopened
  incidents cannot be sent.
* No operational state takes a finding off the list of candidates (`Skipped`): the filter
  compares with "resolved", which normalisation stores as "mitigated".
* The announcement of an incident is lost if the run dies right after storing it: that all
  is announced is claimed for `crashes = 0` only.
* `smoke_v25.sh` sets a finding to "resolved" and expects to read "resolved"; the code
  stores and returns "mitigated" (`Normalized` in `FindingTriage`).
* Two processes that start at once on a legacy database can destroy the rows of a rebuilt
  table: both read the old key, both copy, and the second drops what the first has renamed.
  That is why `RowsSurvive` says `~overlap`. A death, or a start, between the DROP and the
  RENAME leaves the rows in `_v026` behind an empty table, for good (`StrandedForGood`).
* A store of a graph that dies leaves a partial graph as the newest, and loads return it;
  two stores within a second work on the same rows, and one of them may be refused with
  UNIQUE constraint errors (`Clash`) that end the run.
* Nothing is ever classified as Resolved, although README.md lists it among the states of a
  finding: a resource that has gone is a finding of its own kind, and the finding of its
  arrival stays as it was.
* Nodes of services that have gone keep being judged: without the attribute `tls_enabled`
  an administrative service counts as a plain one, and its removal raises its risk from
  high to critical. Totals of hotspots are taken over the whole timeline and only grow.
* A process that dies between truncating a snapshot file and filling it stops its target:
  every later run, and `migrate`, ends with an error (`TornStopsTarget`), while the API's
  reports leave the file out without a word. A migration beside a scan can put the older of
  two snapshots of one second back over the newer one.
* Every start puts name and slug of the organization "default", and the organization of the
  workspace "default", back to what they were. If a client has renamed the organization and
  another has taken its slug, every start of every process fails; once the API is down it
  cannot be undone but in the database (`LockedOutForGood`).
* `create_user` with the subject of an existing user answers, and records, an identifier that
  no user has; memberships made with it belong to nobody. Creating a workspace again under
  its identifier moves it to the organization named, and its memberships stay behind; an
  upsert of a membership changes its role alone, while its event has all that was asked.
* A PATCH of a finding that names no column is answered and recorded although there may be
  no such finding.
* The API's reports run the timeline backwards (`report_order`), so that what they call new
  has gone and what they call removed has come; the "latest" snapshot that `atlas-risk`
  takes from the last element is then the oldest.
* `drift --persist` and `POST /drift`, whose default is to persist, write rows under the same
  run as the timeline, with state New and the base score, and so does a run under another
  policy: the tables hold what the last writer thought, until the next run.
* Suppressed findings are stored with `is_suppressed = 1`, and the listing does not filter
  on it: they become candidates of incidents, and are announced.
* In queries, `degree>=1`, `score>0` and every other comparison of a number with 0 or 1 fail,
  because `normalize_boolean_literal` turns 0 and 1 into "false" and "true" before the field
  is known. `degree>= 5` reads as `degree > "="`; a word with two operators is split at the
  one that comes first in the list of operators, not in the word; a field that is also the
  name of a preset (`target = x`) is refused as the first word; `PATH` ignores what follows
  its two ends; a `LIMIT` in the text overrides the maximum that the API sets.
* One failing saved query fails `query-run-all` for all. A query may be answered plain and
  fail with EXPLAIN, which looks at every clause.

### Bounds

| bound | value | why it is enough |
|---|---|---|
| workers, schedulers | 2 | the races are between a reader and one other writer; `JobQueue` is proved for any number |
| dispatches | 2 in `JobQueue`, 3 in `ControlPlane` | order of candidates needs two; a late, an active and a manual dispatch need three |
| attempts | 1 or 2 | 2 has an attempt that is retried and a last one; 1 where retries are not the question |
| deaths | 0 or 1 | nobody takes over what a dead worker held (`StrandedIsForever`), so a second death adds another stranded item and no new state of the first |
| edits, requests | 1 to 3 | one edit within a run and one that follows it; two triage requests overlap (for more, `UncontestedFieldsHold` is proved), and three requests to the control plane rename, take a slug and create a user, or make a user, a workspace and a membership |
| clock | `MaxTime` 1 and 3 | 3 with interval 2 covers runs before, at and after an interval's end; in `JobQueue` the clock has no bound and advances only for a waiting row |

Further: `incident_liveness` has no deaths and no destinations: a run that dies stores less
than one that goes on, and alerts do not touch incidents. `migration_starts` has three
processes, so that a third may start, or serve, while two rebuild, and four starts for a
death and its repair. `graph_loads` has two graphs, each with a node and an edge the other
has not, and two seconds: same id, newer id, older id. In `analysis` four snapshots make
three transitions, the least in which a finding is persistent or something appears, goes
and appears again; with three resources the rule for hubs (degree 8) and the one for
persistent critical drift apply in the last transition only, and three hotspots are never
cut; policies between them hold everything a policy can say, with exceptions that expire in
the timeline.

`results` has two processes, three snapshots in at most three seconds, and one event, which
is a request or a death: the least in which a finding recurs, a snapshot overtakes another
or overwrites it, and a third process's deed has happened before two go on. The service has
one of two backends, or is gone: a change and its return are the least history, and which
backend is which does not matter (they are symmetric). One policy says nothing, the other
has an exception that expires with the second snapshot, so that a finding is first
suppressed and then not. `report_order` needs two snapshots of one address. `queries` has
six tokens: a parenthesised pair, a NOT with a connective, or two directives with values
and an EXPLAIN; its three vocabularies are expressions, directives, and the other two modes.
Its two graphs have a node of each kind with the attributes the fields ask for, and lack the
service and the edges; two names let a saved query be overwritten, deleted or fail beside
another.

The symmetry sets permute workers, processes, keys, unused dispatch identifiers, users,
subjects, roles or backends;
runs with liveness properties use none.

## Fairness

* A worker's loop (`loop { claim; process; sleep }`) never ends by itself; scanning has
  timeouts (`atlas-http` sets 5 s), so an execution ends: weak fairness of `WorkerStep(w)`
  per worker, and of `Tick`, for time passes. A worker that died is restarted; without a
  restart the claim of liveness would be about the remaining workers, which the bound on
  deaths leaves as well.
* Scheduler ticks repeat for ever, a handler runs to its end: weak fairness of each
  scheduler's step and of `AdminFinishes`. No fairness is assumed of what people ask for.
* `Incidents`: weak fairness of each run's steps. This takes webhooks that answer or
  refuse: `reqwest::Client::new()` in the worker sets no timeout, and a server that
  accepts and never answers would stop the worker.

## What is proved

The runs check conjunctions where several statements are about one matter: `RowsAreKept`,
`StoresWork`, `RowsTellChanges`, `StatesTellHistory`, `GraphTellsTimeline`,
`RisksTellAnalysis`, `AlertsMatchIncidents`, `DispatchesDoNotPileUp`, `SearchesAreExact`,
`AnswersAreTrue` and `FaultsHaveCause` are made of named parts. What is proved for all
constants and follows from the other properties is not run again: the type invariants of
`JobQueue`, `ControlPlane`, `Incidents`, `FindingTriage`, `Migration` and `GraphStore`,
`HeldRowIsMine`, `AttemptsWithinBudget` and `TerminalIsFinal` of `JobQueue`,
`LoadsDoNotGoBack` of `GraphStore`, and that `ApiServer` implements `FindingTriage`.

For every value of the constants, by TLAPS, from the assumptions named in the modules
(`QueueAssumption`, `LifecycleAssumption`, `ControlAssumption`, `IncidentAssumption`,
`TriageAssumption`, `TenancyAssumption`, `ServerAssumption`, `MigrationAssumption`,
`GraphAssumption`, `SearchAssumption`, `ConnectedAssumption`, `LimitAssumption`,
`EngineAssumption`, `QueriesAssumption`, `DriftAssumption`, `RiskAssumption`,
`ResultsConstants`): a positive number of attempts, natural bounds, sentinels outside the
sets they extend, graphs that are records, kinds of resource and policies that are what their
names say, finitely many resources and nodes, ids, labels and edges with an order, queries
that are typed of tokens.

**JobQueueProofs.** `IInv` is the inductive invariant:

* `TypeOK`;
* `StepAndMark`: which `mark_*` goes with which step of the loop, and idle workers hold nothing;
* `HeldRowIsMine`: the row of a held item names its worker and has the status its step
  expects. This is what makes `SingleOwner` hold: one row cannot name two workers. It is
  kept because the claim tests for "pending", which no held row is;
* `CopyIsSound`: between the read and the write of a `mark_*` the row does not change, and a
  selected candidate was due when it was read, with no more attempts than the row has now;
* `AttemptsWithinBudget`: a pending row has attempts left.

`TypeOK`, `SingleOwner`, `HeldRowIsMine` and `AttemptsWithinBudget` are not inductive one by
one: that a `mark_*` writes back the truth needs `CopyIsSound`, which needs that nobody
else writes a held row, which is `HeldRowIsMine`. From `IInv` follow the action properties
(an end is final, only stale claims come early, a stranded item stays) and the refinement:
`QueueSpec => Lifecycle!LifecycleSpec`, each statement of the code being one step of the
lifecycle or none.

`HistoryInv` adds, item by item, what the separate statements of the history owe to the rows:
every claim but the one under way, or successful, is paid for by an attempt (`ClaimsPaid`); while nobody has died, the failures recorded and the workers about to
record one are as many as the attempts, where the set of those workers is finite; a success
is recorded once, by the worker that ended the item. It gives `ClaimsWithinBudget` and
`HistoryMatchesQueue`.

**ControlPlaneProofs.** `TypeInv` is the type with the attempts that a ready dispatch has left
and `LostAreHeld`. `DispatchInv` explains why the scheduler's check and its insert, two
statements, do not pile up dispatches:

* `NothingActive`: between them the scheduler has no active dispatch of the job, since nobody
  but itself inserts one in its name;
* `InHandIsKnown` and `LateIsOver`: while the job of a late dispatch is turned off, the tick
  that has inserted it is through with the job, and no later tick lists it;
* `OneActivePerScheduler` and `OneLateDispatchPerScheduler`, which follow step by step.

`RunsAreSpaced` needs to look ahead, at the next touch of a job. `SpacingInv`, for one scheduler
and while nobody edits, says when it can come: a dispatch that is active, or one that a tick
under way may still insert, is touched an interval after the last touch but one; and where
both are possible, after the last. One list that a touch has made stale thus costs one run that is
too early, and the next has to wait for both.

`DeadWorkerSilencesJob` follows from the types: what a dead worker holds stays active.
`DeletedForGood` assumes a single admin, and rests on `HeldRowsExist`: a row that a request
has in hand is in the table.

**IncidentsProofs.** Three invariants over one type, for the three matters that a run mixes:

* `ResolveInv`: candidates and incidents in hand are known, incidents that are older than the
  list of findings belong to findings in it (`OldOnesAreSeen`), and what was read was stored
  (`ReadIsStored`). Hence what a run closes, others have opened since it listed;
* `WishInv`: a row tells what people wished unless a run stored an older copy
  (`RowsTellWishes`), and what a run is about to close counts as contested
  (`StaleIsContested`);
* `AlertInv`: nothing is sent for what is not stored (`UnstoredIsUnsent`), and between the
  insert and the last record a worker has sent exactly what its place in the loop says
  (`SentSoFar`).

**ApiServerProofs.** First of `FindingTriage` alone: `TriageInv` adds `CopiesTellRows` to the type
and to `UncontestedFieldsHold`: a copy tells what the row says in every column that nobody has
stored since. An upsert then changes nothing but its own column and those it is behind on,
which is what `contested` records.

Each step of the server is a step of `FindingTriage` or leaves its state
alone, which carries `UncontestedFieldsHold` over. `ServerInv` is made of the types of the
tables and

* `SlugsAreUnique`, and `BootedFirst`: until somebody renames it the default organization has
  its slug since before the API could serve anybody, so that no other has it;
* `ToldIsStored`: for each user that an answer named there is one with that subject, because
  users are never deleted nor their subjects changed;
* `MadeOfToldOnes`: a membership's workspace was in its organization, or has moved since.

`LockedOutForGood` needs only the types: no statement but the API's can change a slug when
`BootOrganization` cannot.

`AuditTellsRows` speaks of moments without a handler at work, and the statements in between
are what could go wrong. `AuditInv` says what holds within a handler:

* `WorkIsWhole`: what the API has still to write is part of what its event will tell, each
  column is named once, and its copy of the row is the row unless a command wrote that;
* `ColumnsAreTold`: a column the handler has written holds what its event will tell, every
  other what the trail tells already;
* `TablesTold(Trail)`, where `Trail` is the trail with the event that is pending: the tables
  of the control plane tell what the trail will when it is recorded.

An upsert of triage writes all columns of its copy; that it takes back none the trail has
told is `WorkIsWhole` (the copy is the row) with `contested` out of the way, since what a
command writes is counted as `outside`. Memberships need the first and the last event of a
row, users any: lemmas about the least and greatest place in a sequence (`PlacesHaveEnds`)
come from the well-foundedness of the natural numbers.

**MigrationProofs.** `IInv` is the type, `Shapes` (a table that does not exist has no
rows, and the side table has the final key) and, as long as no rebuild began within another, what is true
around the one process that rebuilds:

* `OneRebuilder`, `TableIsOld`: from `ReadKey` to the DROP there is one, and the table is the
  old one, since every save needs the new key;
* `SideIsThere`, `OldIsComplete`: the side table exists when it is copied to, and until the
  DROP the old table has every row;
* `GoneIsAside`, `GoneIsNew`: while there is no table, the side table has every row, and if
  nobody is about to rename it, the database is a new one;
* `FinalForm`, `NewIsComplete`: a process that serves finds the table in its final form, and
  with every row unless there was a `gap`.

None of them holds alone: that the DROP loses nothing needs that the copy was complete,
which needs that nobody saved since, which needs that the table was old all along. From
`IInv` follow `RowsSurvive` and `RowsVisible`, together `RowsAreKept`; `LoneStart` needs in addition `AloneAsLeft`:
to a process without company the tables look as its last statement left them, so no check it
has made is out of date.

**GraphProofs.** On `GraphStore`: `StoreInv` is the type with `StampsAreBuilt` (every row, store and load is
of a graph that has been built) and

* `LoneProgress`: the rows under the id of a lone store are those it has inserted so far;
* `WholeIsQuiet`: nobody stores under an id whose graph is whole;
* `WholeIsComplete` and `LoneStoreSucceeds`, the properties: the end of a lone store makes
  its graph whole (by `LoneProgress`), and a plain INSERT of it meets no row;
* `CalmLoads`: what a calm reader has read so far is that of the whole graph its header
  names, which has not been touched since because a store would have ended the calm;
* `HeadersStay`: a second that a reader has seen keeps a header, so that the newest one is
  never an earlier one, which gives `LoadsDoNotGoBack`.

`SettleInv` is about stores that do overlap (`SettledIsComplete`, the other half of
`StoresWork`): under every id with a header and without a refusal or a death, a store is
still deleting, or one is inserting of which every row so far is there, or a graph is there
whole (`OneIsComing`); the last to delete inserts after every delete, and meets no row.

On `GraphSearch`, for any finite set of nodes and edges that have ranks: what a breadth-first
search does is an invariant of a loop, and a loop is a recursive function whose existence has to
be shown first (`LoopsExist`, by the least round at which there would be none; `CountUp` is
induction in the only form there is here, over a set of numbers). A list in the order of
ranks exists for the same reason (`SortedExists`), and the neighbours of a node are those that an
edge joins to it (`AdjacencyTells`). `Searched` is then the invariant of a search: no node is
queued twice; each entry but the seeds was found from an earlier one, one edge closer; depths
never fall along the queue; and all that is joined to an entry that had its round is queued,
at most one edge further. It holds after a round because what waits in the queue is at most one
edge further than the entry whose round it is (`NoneFurther`). As there are no more entries than
nodes (`AllHadTheirRound`), every entry has had its round in the end, and by induction over the distance
the entries up to a depth are the ball of that radius (`EntriesTellBalls`). Going back
along `via` gives a path as long as the depth (`BacksArePaths`). `SearchesAreExact` follows with
`StoreInv`: what a reader loads is at any time a set of nodes and edges that some graphs
had, and a calm one loads a graph that was built, which is connected, so that the part visited
is all of it (`EverythingVisited`). `ConnectedAssumption` says of the graphs built what
`GraphTellsTimeline` says of `ExposureGraph`'s, where it is proved.

On `Queries`, for any set of tokens, queries of any length and any finite graphs. What a
comparison that fails may do to an answer depends on the expression, so the proof goes
through all of the parser, the evaluation and the pages:

* The parser is a recursive function of a place in the tokens. It has a value because what it
  reads at a place looks only behind it (`LooksBehind`), and values can be added from the last
  token back to the first (`StepAdded`, `ParsesExist`). By the same order what it reads is
  refused, or is an expression whose nodes all have their items before them, and ends behind
  the place it began at (`StepReads`, `ReadsEverywhere`); so a query that was read is a
  request with such an expression, whatever directives follow (`ParseReads`).
* In such an expression every function of a node and its items exists (`FoldsExist`), and what
  holds of a node if it holds of those before it holds of the last (`OneAfterTheOther`).
  `Truth` gives each part of an expression two sets of nodes of the graph: those it is surely
  true of, however the clauses that fail are taken, and those it may be true of. The verdict of `matches_expr`, if it is not a failure, tells on which side
  of both bounds a node is (`VerdictDecides`), although AND and OR stop before they have seen
  all: they stop at an item that decides, or that fails. Where a verdict or an explanation
  fails, a clause does (`VerdictFails`, `ExplainFailsTells`). Hence `AnswersSound`.
* The keys of matches are rows of five integers whose last differs (`KeysAreNumbers`), which
  `Before` orders strictly and totally; a finite set so ordered is listed by the numbers of
  predecessors, which are a bijection (`ListedByPredecessors`, `SortedTells`). A page is the
  part between two ends, parts that meet make up the whole (`PartsJoined`), and pages of one
  size end where the next begin (`PagesEnd`), hence `AnswersTile`.
* `QueryInv`: what is typed is tokens, what is saved was not refused, and a run has its list
  from there. `AnswersAreTrue` follows, and `RunsFailForCause`: a query of the list is not
  refused when it is parsed again, so that only its evaluation can fail, which needs a clause
  that does.

In **MigrationProofs**, `StrandedForGood` follows from the type and `Shapes` alone.

**AnalysisProofs.** Timelines of any length, of any finite number of resources, under any
policies. The analysis accumulates (a counter per finding, lists of reports), and properties
compare the accumulated state with the whole history. `TimelineInv` takes the accumulation
away once and for all:

* `TypeOK`: states, severities, scores within `0 .. 100`;
* every report is what `Report` computes of its two snapshots and of `History(k)`, which
  counts in the reports before;
* `seen` is the history of the whole timeline.

Everything else follows from `TimelineInv` with no further invariant:

* `StatesTellHistory`: the counter of a finding is the number of reports it was active in,
  since keys are unique in a report; an episode's state looks at its findings' states.
* `RowsTellChanges`: a resource that appears twice has gone in between. Between the two
  there is a least snapshot without it (`Least`), whose report tells the going
  (`GoesBetween`). Such least and greatest places stand wherever an argument by hand would
  use induction.
* `GraphTellsTimeline`: by cases on the three graphs that are merged, each node is at most
  three edges from the target; `last_seen` is the greatest of the snapshots and reports that
  tell of a resource (`LastReportTellsGoing`).
* `NothingVanishesUnreported` compares the graphs of two successive timelines: the reports of
  the shorter are those of the longer but one.
* `RisksTellAnalysis`: five episodes are chosen one after the other by score and name. That
  there is a first of every finite set (`FirstExists`) needs that scores are numbers
  (`ScoreIsNat`), for which the recursive sum of scores is shown to be a number by way of a
  least set for which it would not be (`SumsExist`, `SumIsNat`).

**ResultsProofs.** What the code never writes down is in which second a snapshot was taken, and
what `Results` leaves to TLC is how lists, which a run is made of, come about. So the first half
of the module is about lists: sorting a finite set of numbers (`SortedTells`), putting a set in
a sequence, joining sequences (`ListsAll`), and the timeline, whose recursive function is
shown to exist and to be a list of reports (`TimelineIs`) by the least place at which it
would not be. From these come `ReportIsListed` and `WholeIsListed`: the statements that a run stores
are those of its reports and episodes, all of them and no others. `DateInv` then says that there
is a function from snapshots to seconds such that

* seconds do not go back, no snapshot is in a file or a row but that of its second, and a file
  that has been written to is there for good (`DatedBy`);
* a run in the table, or in the statements that a process has still to execute, was asked for,
  or is of two saved snapshots, where every saved one between them came late or shares its
  second with one of them (`HasCause`): of those, one has overwritten the other;
* a process that writes a file writes what belongs in it (`ProcessIsDated`).

`StrayRowsHaveCause` follows, as two snapshots whose files are both there, with a third file
between them, need a late one. `TornStopsTarget` needs of it that files and processes are what
they seem.

Three more invariants rest on it, with one lemma per action or kind of step each:

* `StoredInv`, for `ResultsTellTimeline`: of what an undisturbed run has to store, all that it
  no longer has to do is in the tables (`Undisturbed`). A later statement of the run must not
  replace what an earlier one stored: statements of one run never share a place
  (`StatementsDiffer`, for which a finding is in one report of a run, and episodes with one id
  are one). That no other row is under a run needs more: each row, of whatever run, is of a
  finding that its two snapshots call for (`RowsNamed`), so a row of a transition of the files
  is one that the transition's report has, and each of the report's replaces the one
  that was there. The reports themselves must not change as snapshots are taken
  (`TimelineStays`).
* `EpisodesInv`, for `EpisodesStayTrue`: under one policy, and as long as no snapshot came late
  and no two were saved in one second (`AllApart`), what is stored, or is still to be stored
  by a run that loaded the files a while ago, is an episode of the timeline of *all* snapshots
  saved so far. A snapshot that is saved is then the latest, its list is the sorted list and one
  more (`SortedMore`), and a longer list has the same timeline and episodes and one more
  transition (`TimelineGrows`, `EpisodesGrow`). Lost files are not forgotten: if the condition
  holds after a step, it held before it (`ApartBefore`, from `DatesFollow`), so nothing is said
  of the time after a first loss. A file lost can not come back, hence the seconds and not
  the files are in the invariant: a file that a process is about to overwrite is still there.
* `ListedInv`, for `ListingTellsLatest`: the listing takes the row with the highest score, and of
  equal ones the last written. Rows of one finding must therefore stand in the order of their
  transitions. A run's list has them so (`WholeIsProper`, from one report of `FlattenSeq` to the
  next), what comes later of a finding is still to be stored as long as the earlier is
  (`Pending`), and a statement puts its row after those that are there and leaves the order of
  the others (`PutLast`), even where it replaces one: so what an undisturbed run has stored
  is in order (`Ordered`), whatever order earlier or disturbed runs left. And every row is of a
  run in the table, since a run's row goes before its findings (`Introduced`, `RowsKnown`);
  else a condition on the table of runs would say nothing about the rows. That the last row
  also has the highest score (`ScoresRise`) is no matter of the store: the base score of a
  finding is the same in every report under one policy, the times it has been active do not
  fall, and a policy that holds it back at one time holds it back at every earlier one. This
  last step compares times, hence the assumption that exceptions end at a point of the timeline.

`PROJECT.json` lists the theorems. **Only model-checked:**

* liveness (`EveryDispatchEnds`, `DueJobIsEnqueued`, `ResolvedStopsRuns`, `IncidentsCatchUp`):
  fairness and ENABLED are out of this prover's reach;
* `ParserFollowsGrammar`: the grammar splits a sequence of tokens in all ways, by RECURSIVE
  operators, with which the prover has no arithmetic left. It holds of the vocabularies that
  are checked and not of every text: of a word with two signs (`a<b>=c`) the parser takes the
  operator that comes first in its list, the grammar the sign that comes first in the word.

## Abstractions

* One scope (tenant and project), one spelling of the target. Statements carry the scope in
  their WHERE; two scopes do not meet.
* `lease_expires_at` is left out of rows: it is written and never read.
* Enqueue and claim copy the job's target, profile and policy; nothing tells them apart.
* `list_current_findings_operational_scoped` reads the triage of each finding in a statement
  of its own; `ListFindings` takes them as one. A triage written between two of them is
  like one written just before or just after, since each finding has its own row.
* The order in which candidates and jobs are treated is left open, which allows more than
  the code does. The LIMIT of 500 incidents is not reached.
* The scan and analysis inside a run is one step of `JobQueue` that succeeds or fails; in
  `Incidents` a run registers any of the findings there are, one after the other.
* `scheduler-run` of the CLI runs due jobs inline, which is `RunInline` once per job.
* `RunsAreSpaced` is stated without manual runs and with one scheduler, `DeletedStaysDeleted`
  with one API process: with a CLI process beside it, a disable that read the job before a
  delete brings the job back.
* In `Migration` the statements of one batch are steps of their own, as they have no BEGIN;
  the columns other than the scope's are left out.
* In `Drift` the k-th snapshot has timestamp k, and a policy does not change along a
  timeline: each run builds the whole of it under one policy. Texts, groups and titles are left out; a backend stands
  for server and provider, and what the comparison does not look at (titles, content types)
  is left out.
* In `ExposureGraph` a node has the set of timestamps merged into it; the code keeps the
  least and the greatest. In `GraphStore` a graph is its sets of node and edge ids.
* In `GraphQueries` the seeds of a query are any nodes: presets and clauses choose them.
* In `Results` a run reads all files in one step, time passes only between scans and does not
  go back, and one tenant uses the directory; the CLI's `snapshot` is a run that ends after
  its file and its row, and plugins change nothing that the comparison looks at. The graph
  that a run stores is that of `GraphStore`.
* In `Queries` the text is a sequence of tokens: the scanning of characters, case and other
  spellings of a word are left out, numbers are 0 to 3, and the newest graph is replaced in
  one step. Queries are looked at before anything has been saved, and are extended only as
  far as the parser could still take them.
* In `Tenancy` names, mails and environments are left out. Clients name organizations that
  are there, and users and workspaces they were told of. What `initialize` does before it
  reaches the default tenancy is in `Migration`; an audit event holds the writes it tells of.
* A SQLite error (locked, disk full) ends the process or the request, as `Abandon`,
  `AbandonRun` and the crashes do.

## Not modelled

`atlas-scheduler` (a library nothing calls), network probing (`atlas-dns`, `atlas-http`,
`atlas-discovery`), configuration, plugins, printing, the executive report (read-only
aggregation into text), header parsing, tokens and roles of the API, telemetry and baselines
(an append-only log and single-row upserts that no other component reads). Audit events of
jobs, incidents, queries and scans are recorded like those of `ApiServer`.

## Plan

Done, the most shared state first: the queue and its proofs, with those about its history; the
control plane on top of it and its proofs; incidents and their proofs; triage, and the server
that serves it beside tenancy and audit, with their proofs; the start of the store and its
proofs; the analysis from snapshots to risks and its proofs, what a run leaves of it and the
proofs of that; the graph's store and its proofs; the query language and its engine. Next:

1. `Candidates`: scores, blast radius and owners of incident candidates, and ownership gaps,
   over the graph of `ExposureGraph`; the executive report's aggregation over `Risk`.
2. Two scopes: how a key and headers resolve to a scope, and the tables whose legacy key
   leaves the scope out.
