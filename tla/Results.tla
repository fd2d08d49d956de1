------------------------------ MODULE Results ------------------------------
(***************************************************************************)
(* The results of a target: snapshot files, and the rows of the tables     *)
(* snapshots, drift_runs, findings and episodes made from them.            *)
(*                                                                         *)
(* Several processes share the directory of a target and the database: the *)
(* worker, atlas watch and the commands and requests of people.  A run     *)
(* writes a snapshot to a file named after the second it was taken in,     *)
(* reads all files again, computes the timeline (Drift, Episodes) and      *)
(* stores it one statement at a time, without a transaction.               *)
(*                                                                         *)
(* A snapshot is known by its place in the order of time stamps, which are *)
(* finer than a second.  The graph of a run is in GraphStore.              *)
(***************************************************************************)
EXTENDS Integers, Sequences, FiniteSets, SequencesExt, FiniteSetsExt, TLC

CONSTANTS
    Target, Ips, Subdomains, Services, Host, Environment, Pattern, Scheme,
    Answers, Gone, Base,                \* as in Drift and Episodes
    Policies,       \* paths of policies
    PolicyAt,       \* what they hold
    MaxSnapshots,   \* bound: snapshots taken
    Workers,        \* processes
    None,
    MaxSeconds,     \* bound: seconds with a scan
    MaxEvents       \* bound: runs without a scan, and processes that die

\* atlas rebuild, episodes and migrate; drift, or POST /drift.
RequestKinds == {"rebuild", "episodes", "migrate", "pair"}

ASSUME ResultsConstants ==
    /\ {MaxSeconds, MaxEvents, MaxSnapshots} \subseteq Nat
    /\ IsFiniteSet(Ips \cup Subdomains \cup Services)
    /\ \A p \in Policies : \A x \in PolicyAt[p].exceptions : x.expires \in Int

VARIABLES
    now,        \* the second of the latest scan, or 0; others are not counted
    scans,      \* all snapshots taken: what was seen
    file,       \* of a second: NoFile, Torn, or the snapshot in it
    rows,       \* of a second: its row in snapshots, or None
    runs,       \* table drift_runs: older and newer snapshot, to what was found
    findings,   \* table findings: the rows of a finding, the latest written last
    episodes,   \* table episodes
    proc,       \* of a process: what it is doing
    events,
    fresh,      \* history: the policy of a run that nothing has disturbed or followed, or None
    used,       \* history: the policies episodes were stored under
    asked,      \* history: the pairs people had compared
    written,    \* history: snapshots that have been saved
    late        \* history: snapshots saved after one that was taken later

vars == <<now, scans, file, rows, runs, findings, episodes, proc, events,
          fresh, used, asked, written, late>>

NoFile == 0
Torn == -1
Seconds == 1 .. MaxSeconds

(***************************************************************************)
(* The analysis                                                            *)
(***************************************************************************)
A(policy, snapshots, reports, seen) == INSTANCE Episodes WITH Policies <- {policy}

NoPolicy == A(<<>>, <<>>, <<>>, <<>>)!NoPolicy
AllScans == A(<<>>, <<>>, <<>>, <<>>)!Scans
Keys == A(<<>>, <<>>, <<>>, <<>>)!Keys
Key(f) == A(<<>>, <<>>, <<>>, <<>>)!Key(f)
Unseen == [k \in Keys |-> 0]
Compared(p, older, newer, seen) ==
    A(p, <<>>, <<>>, <<>>)!Report(p, scans[older], scans[newer], newer, seen)

\* build_timeline_report: the reports of the snapshots ids, in that order, and
\* how often each finding has been active in them.
Extended(timeline, report) ==
    [reports |-> Append(timeline.reports, report),
     seen |-> [k \in Keys |->
        timeline.seen[k] + Cardinality({f \in report.active : Key(f) = k})]]
Timelines(p, ids) ==
    LET upTo[k \in 1 .. Len(ids)] ==
            IF k = 1 THEN [reports |-> <<>>, seen |-> Unseen]
            ELSE Extended(upTo[k - 1], Compared(p, ids[k - 1], ids[k], upTo[k - 1].seen))
    IN  upTo
Timeline(p, ids) == Timelines(p, ids)[Len(ids)].reports

\* Episodes, dated by their snapshots.
EpisodesOf(p, ids, reports) ==
    {[id |-> [e.id EXCEPT !.started = ids[e.started]], state |-> e.state] :
        e \in A(p, ids, reports, <<>>)!Episodes}

(***************************************************************************)
(* Files                                                                   *)
(***************************************************************************)
Kept == {file[s] : s \in Seconds} \ {NoFile, Torn}
Lost == written \ Kept
IsTorn == \E s \in Seconds : file[s] = Torn

\* load_snapshot_inputs_for_target: all files, sorted by time stamp.
Sorted(ids) == CHOOSE seq \in SetToSeqs(ids) : \A i, j \in DOMAIN seq : i < j => seq[i] < seq[j]
Loaded == Sorted(Kept)

(***************************************************************************)
(* Statements: what a run stores, in this order                            *)
(***************************************************************************)
Statement(table, key, row) == [table |-> table, key |-> key, row |-> row]

ScoreOf(set) == MapThenSumSet(LAMBDA f : f.score, set)

\* register_drift_report_scoped and insert_finding.
ReportStatements(run, report) ==
    LET Insert(f) == Statement("findings", Key(f), [run |-> run, score |-> f.score, state |-> f.state])
        Inserts(set) == LET list == SetToSeq(set) IN [i \in DOMAIN list |-> Insert(list[i])]
    IN <<Statement("runs", run,
            [found |-> Cardinality(report.active), score |-> ScoreOf(report.active)])>>
       \o Inserts(report.active) \o Inserts(report.suppressed)

RunOf(ids, k) == <<ids[k], ids[k + 1]>>

TimelineStatements(ids, reports) ==
    FlattenSeq([k \in DOMAIN reports |-> ReportStatements(RunOf(ids, k), reports[k])])

\* store_episodes_scoped.  Mutant: only the last transition is looked at.
EpisodeStatementsOfLast(p, ids, reports) ==
    LET last == SubSeq(ids, Max({1, Len(ids) - 1}), Len(ids))
        list == SetToSeq(EpisodesOf(p, last, Timeline(p, last)))
    IN  [i \in DOMAIN list |-> Statement("episodes", list[i].id, list[i])]
EpisodeStatements(p, ids, reports) ==
    LET list == SetToSeq(EpisodesOf(p, ids, reports))
    IN  [i \in DOMAIN list |-> Statement("episodes", list[i].id, list[i])]

SecondOf(id) == CHOOSE s \in Seconds : file[s] = id
SnapshotStatements == [i \in DOMAIN Loaded |-> Statement("snapshots", SecondOf(Loaded[i]), Loaded[i])]

StatementsOf(kind, p, ids, reports) ==
    (IF kind = "rebuild" THEN SnapshotStatements ELSE <<>>)
    \o (IF kind = "episodes" THEN <<>> ELSE TimelineStatements(ids, reports))
    \o EpisodeStatements(p, ids, reports)

(***************************************************************************)
(* Processes                                                               *)
(***************************************************************************)
Process(kind, step, id, second, todo) ==
    [kind |-> kind, step |-> step, id |-> id, second |-> second, todo |-> todo,
     policy |-> None, alone |-> FALSE]
Idle == Process(None, "idle", 0, 0, <<>>)
Doing(kind, step) == Process(kind, step, 0, 0, <<>>)

\* w goes on as p; what it has written disturbs the others.
Writes(w, p) ==
    proc' = [v \in Workers |-> IF v = w THEN p ELSE [proc[v] EXCEPT !.alone = FALSE]]

Tables == <<rows, runs, findings, episodes>>
Bounds == <<now, events>>

Init ==
    /\ now = 0
    /\ scans = <<>>
    /\ file = [s \in Seconds |-> NoFile]
    /\ rows = [s \in Seconds |-> None]
    /\ runs = <<>>
    /\ findings = <<>>
    /\ episodes = {}
    /\ proc = [w \in Workers |-> Idle]
    /\ events = 0
    /\ fresh = None
    /\ used = {} /\ asked = {} /\ written = {} /\ late = {}

\* A job, or a cycle of watch: scan_target and Snapshot::new, which takes the
\* time; it passes between scans.  The command snapshot does the same and ends
\* with the row, or the file: it is a job that dies there.
TakeScan(w, seen, second) ==
    /\ proc[w].step = "idle"
    /\ Len(scans) < MaxSnapshots
    /\ now' = second
    /\ scans' = Append(scans, seen)
    /\ proc' = [proc EXCEPT ![w] =
            Process("job", "truncate", Len(scans) + 1, second, <<>>)]
    /\ UNCHANGED <<file, Tables, events, fresh, used, asked, written, late>>

\* fs::write, of save_snapshot and of migrate, opens the file and truncates it ...
TruncateFile(w) ==
    LET p == proc[w]
    IN /\ p.step = "truncate"
       /\ file' = [file EXCEPT ![p.second] = Torn]
       /\ Writes(w, [p EXCEPT !.step = "write"])
       /\ fresh' = None
       /\ UNCHANGED <<scans, Tables, Bounds, used, asked, written, late>>

\* ... and writes into it from the start.  Over what another has written since,
\* the result is whole or, if the other's text was longer, torn.
WriteFile(w) ==
    LET p == proc[w]
        other == {file[p.second]} \ {NoFile, Torn, p.id}
    IN /\ p.step = "write"
       /\ \E result \in {p.id} \cup {Torn : x \in other} :
            file' = [file EXCEPT ![p.second] = result]
       /\ written' = written \cup {p.id}
       /\ late' = IF p.id \notin written /\ \E x \in written : x > p.id
                  THEN late \cup {p.id} ELSE late
       /\ Writes(w, [p EXCEPT !.step = IF p.kind = "migrate" THEN "read" ELSE "register"])
       /\ fresh' = None
       /\ UNCHANGED <<scans, Tables, Bounds, used, asked>>

\* register_snapshot_scoped: the row is that of the second.
RegisterSnapshot(w) ==
    LET p == proc[w]
    IN /\ p.step = "register"
       /\ rows' = [rows EXCEPT ![p.second] = p.id]
       /\ Writes(w, Doing("job", "load"))
       /\ fresh' = None
       /\ UNCHANGED <<scans, file, runs, findings, episodes, Bounds, used, asked, written, late>>

\* A command or a request that does not scan.
Ask(w, kind) ==
    /\ proc[w].step = "idle"
    /\ events < MaxEvents
    /\ events' = events + 1
    /\ proc' = [proc EXCEPT ![w] =
            IF kind = "migrate" THEN Process(kind, "read", 0, 0, SetToSeq({s \in Seconds : file[s] # NoFile}))
            ELSE Doing(kind, "load")]
    /\ UNCHANGED <<now, scans, file, Tables, fresh, used, asked, written, late>>

\* The process starts to store what it has computed.
Storing(kind, p, todo) ==
    [kind |-> kind, step |-> "store", id |-> 0, second |-> 0, todo |-> todo,
     policy |-> p, alone |-> TRUE]
Stores(w, kind, p, todo) ==
    proc' = [proc EXCEPT ![w] = IF todo = <<>> THEN Idle ELSE Storing(kind, p, todo)]

\* build_analysis_bundle.  A file that cannot be read, or none at all, ends the
\* run; a timeline alone needs two.  Mutant: what cannot be read is left out.
CanLoadTheRest(kind) == Len(Loaded) >= (IF kind = "episodes" THEN 2 ELSE 1)
CanLoad(kind) ==
    /\ ~IsTorn
    /\ Len(Loaded) >= (IF kind = "episodes" THEN 2 ELSE 1)

\* Mutant: only snapshots with a row are looked at.
LoadFilesRegistered(w, p) ==
    LET kind == proc[w].kind
        ids  == Sorted({file[s] : s \in {t \in Seconds : rows[t] # None}} \ {NoFile, Torn})
    IN /\ proc[w].step = "load" /\ kind # "pair"
       /\ CanLoad(kind) /\ ids # <<>>
       /\ Stores(w, kind, p, StatementsOf(kind, PolicyAt[p], ids, Timeline(PolicyAt[p], ids)))
       /\ used' = used \cup {p}
       /\ UNCHANGED <<scans, file, Tables, Bounds, fresh, asked, written, late>>
LoadFiles(w, p) ==
    LET kind == proc[w].kind
    IN /\ proc[w].step = "load" /\ kind # "pair"
       /\ CanLoad(kind)
       /\ Stores(w, kind, p, StatementsOf(kind, PolicyAt[p], Loaded, Timeline(PolicyAt[p], Loaded)))
       /\ used' = used \cup {p}
       /\ UNCHANGED <<scans, file, Tables, Bounds, fresh, asked, written, late>>

\* So does a file of a pair that cannot be read.
LoadFails(w) ==
    /\ proc[w].step = "load"
    /\ proc[w].kind = "pair" \/ ~CanLoad(proc[w].kind)
    /\ proc' = [proc EXCEPT ![w] = Idle]
    /\ UNCHANGED <<scans, file, Tables, Bounds, fresh, used, asked, written, late>>

\* run_drift, or drift --persist: two files, compared without a history.
LoadPair(w, p, older, newer) ==
    /\ proc[w].step = "load" /\ proc[w].kind = "pair"
    /\ {older, newer} \subseteq Kept /\ older # newer
    /\ Stores(w, "pair", p, ReportStatements(<<older, newer>>, Compared(PolicyAt[p], older, newer, Unseen)))
    /\ asked' = asked \cup {<<older, newer>>}
    /\ UNCHANGED <<scans, file, Tables, Bounds, fresh, used, written, late>>

\* The table with a row, which replaces the one that is under its key.
With(table, key, row) == [k \in {key} \cup DOMAIN table |-> IF k = key THEN row ELSE table[k]]
RowsAt(k) == IF k \in DOMAIN findings THEN findings[k] ELSE <<>>
\* INSERT OR REPLACE of a finding's row: there is one row for a run at most.
Replaced(rowsOf, row) ==
    LET old == {i \in DOMAIN rowsOf : rowsOf[i].run = row.run}
    IN  Append(IF old = {} THEN rowsOf ELSE RemoveAt(rowsOf, CHOOSE i \in old : TRUE), row)

\* One statement.  Mutant: a finding that has a row for the run keeps it.
StoreNextIgnoring(w) ==
    LET p  == proc[w]
        st == Head(p.todo)
        done == Len(p.todo) = 1
    IN /\ p.step = "store"
       /\ rows' = IF st.table = "snapshots" THEN [rows EXCEPT ![st.key] = st.row] ELSE rows
       /\ runs' = IF st.table = "runs" THEN With(runs, st.key, st.row) ELSE runs
       /\ findings' = IF st.table = "findings" /\ \A r \in ToSet(RowsAt(st.key)) : r.run # st.row.run
                      THEN With(findings, st.key, Append(RowsAt(st.key), st.row)) ELSE findings
       /\ episodes' = IF st.table = "episodes"
                      THEN {e \in episodes : e.id # st.key} \cup {st.row} ELSE episodes
       /\ Writes(w, IF done THEN Idle ELSE [p EXCEPT !.todo = Tail(@)])
       /\ fresh' = IF done /\ p.alone /\ p.kind \in {"job", "rebuild"} THEN p.policy ELSE None
       /\ UNCHANGED <<scans, file, Bounds, used, asked, written, late>>
StoreNext(w) ==
    LET p  == proc[w]
        st == Head(p.todo)
        done == Len(p.todo) = 1
    IN /\ p.step = "store"
       /\ \/ /\ st.table = "snapshots"
             /\ rows' = [rows EXCEPT ![st.key] = st.row]
             /\ UNCHANGED <<runs, findings, episodes>>
          \/ /\ st.table = "runs"
             /\ runs' = With(runs, st.key, st.row)
             /\ UNCHANGED <<rows, findings, episodes>>
          \/ /\ st.table = "findings"
             /\ findings' = With(findings, st.key, Replaced(RowsAt(st.key), st.row))
             /\ UNCHANGED <<rows, runs, episodes>>
          \/ /\ st.table = "episodes"
             /\ episodes' = {e \in episodes : e.id # st.key} \cup {st.row}
             /\ UNCHANGED <<rows, runs, findings>>
       /\ Writes(w, IF done THEN Idle ELSE [p EXCEPT !.todo = Tail(@)])
       /\ fresh' = IF done /\ p.alone /\ p.kind \in {"job", "rebuild"} THEN p.policy ELSE None
       /\ UNCHANGED <<scans, file, Bounds, used, asked, written, late>>

\* migrate_snapshots_in_dir reads the next file, to write it again as it is.
MigrateNext(w) ==
    LET p == proc[w]
    IN /\ p.step = "read"
       /\ proc' = [proc EXCEPT ![w] =
              IF p.todo = <<>> \/ file[Head(p.todo)] = Torn THEN Idle
              ELSE Process(p.kind, "truncate", file[Head(p.todo)], Head(p.todo), Tail(p.todo))]
       /\ UNCHANGED <<scans, file, Tables, Bounds, fresh, used, asked, written, late>>

Die(w) ==
    /\ proc[w].step # "idle"
    /\ events < MaxEvents
    /\ events' = events + 1
    /\ proc' = [proc EXCEPT ![w] = Idle]
    /\ UNCHANGED <<now, scans, file, Tables, fresh, used, asked, written, late>>

Loads(w) == \E p \in Policies : LoadFiles(w, p) \/ \E older, newer \in Kept : LoadPair(w, p, older, newer)

Next ==
    \E w \in Workers :
        \/ \E seen \in AllScans, s \in {now, now + 1} \cap Seconds : TakeScan(w, seen, s)
        \/ \E kind \in RequestKinds : Ask(w, kind)
        \/ TruncateFile(w) \/ WriteFile(w) \/ RegisterSnapshot(w)
        \/ Loads(w) \/ LoadFails(w) \/ StoreNext(w) \/ MigrateNext(w) \/ Die(w)

Spec == Init /\ [][Next]_vars

(***************************************************************************)
(* What is shown                                                           *)
(***************************************************************************)
\* list_findings_scoped sorts by score, then by the time of writing, latest
\* first; list_current_findings_operational_scoped takes the first row of each
\* finding.  Mutant: of equal scores the oldest is the first.
ListedOldest(rowsOf) ==
    CHOOSE r \in ToSet(rowsOf) : \E i \in DOMAIN rowsOf :
        rowsOf[i] = r /\ \A j \in DOMAIN rowsOf : rowsOf[j].score < r.score \/ (rowsOf[j].score = r.score /\ i <= j)
Listed(rowsOf) ==
    CHOOSE r \in ToSet(rowsOf) : \E i \in DOMAIN rowsOf :
        rowsOf[i] = r /\ \A j \in DOMAIN rowsOf : rowsOf[j].score < r.score \/ (rowsOf[j].score = r.score /\ j <= i)

\* The snapshots of a report: the rows by time stamp, latest first, each read
\* from its file; files that cannot be read are left out.
Rows == {s \in Seconds : rows[s] # None}
ReportSnapshots ==
    LET order == SetToSortSeq(Rows, LAMBDA s, t : rows[s] > rows[t])
    IN  SelectSeq([i \in DOMAIN order |-> file[order[i]]], LAMBDA id : id \notin {NoFile, Torn})

\* build_timeline_from_store, and the findings of its reports.
ReportedFindings ==
    IF Cardinality(Rows) < 2 \/ Len(ReportSnapshots) < 2 THEN {}
    ELSE UNION {r.active : r \in ToSet(Timeline(NoPolicy, ReportSnapshots))}

(***************************************************************************)
(* Properties                                                              *)
(***************************************************************************)
Neighbours == {RunOf(Loaded, k) : k \in 1 .. Len(Loaded) - 1}
RowsOf(run) == UNION {{<<k, r>> : r \in {x \in ToSet(findings[k]) : x.run = run}} : k \in DOMAIN findings}

\* The tables hold the timeline of the snapshots ids under the policy p.
Hold(p, ids, reports) ==
    /\ \A k \in DOMAIN reports :
         LET run == RunOf(ids, k)
             all == reports[k].active \cup reports[k].suppressed
         IN /\ run \in DOMAIN runs
            /\ runs[run].found = Cardinality(reports[k].active)
            /\ RowsOf(run) =
                 {<<Key(f), [run |-> run, score |-> f.score, state |-> f.state]>> : f \in all}
    /\ EpisodesOf(p, ids, reports) \subseteq episodes

\* After a run that nobody disturbed, and until somebody writes again, the
\* tables hold the timeline of the files under its policy: the totals of every
\* transition, its findings and no other under its run, and all episodes.  It
\* does so whatever earlier runs have stored, died in, or had compared.
ResultsTellTimeline ==
    fresh # None => Hold(PolicyAt[fresh], Loaded, Timeline(PolicyAt[fresh], Loaded))

\* Every finding is listed as its last report in the timeline tells it.
TellsLatest(ids, reports) ==
    LET Tells(k, i) == {f \in reports[i].active \cup reports[i].suppressed : Key(f) = k}
    IN \A k \in DOMAIN findings :
        \E i \in DOMAIN reports :
            /\ \A j \in i + 1 .. Len(reports) : Tells(k, j) = {}
            /\ \E f \in Tells(k, i) :
                 Listed(findings[k]) = [run |-> RunOf(ids, i), score |-> f.score, state |-> f.state]

\* The listing shows a finding as the last transition that reported it did, or
\* suppressed it: that this row has the highest score is a property of the
\* scores.  It takes a run that nobody disturbed, and no row of snapshots that
\* are not neighbours.
ListingTellsLatest ==
    (fresh # None /\ DOMAIN runs \subseteq Neighbours) =>
        TellsLatest(Loaded, Timeline(PolicyAt[fresh], Loaded))

\* A pair of snapshots in the tables that are no neighbours in the directory has
\* been asked for, or its file has been overwritten, or a snapshot between them
\* was saved late.  A row of snapshots is that of the file, or of one overwritten.
StrayRowsHaveCause ==
    /\ \A run \in DOMAIN runs \ (asked \cup Neighbours) :
        \/ \E i \in 1 .. 2 : run[i] \in Lost
        \/ \E x \in late : run[1] < x /\ x < run[2]
    /\ \A s \in Rows : file[s] = rows[s] \/ rows[s] \in Lost

\* Under one policy, and while snapshots come in order and stay, no episode goes
\* stale, although none is ever deleted: what later snapshots add to a timeline
\* changes nothing about its beginning, and a run that died left a part of it.
EpisodesStayTrue ==
    \A p \in Policies :
        (used = {p} /\ late = {} /\ Lost = {} /\ ~IsTorn) =>
            episodes \subseteq EpisodesOf(PolicyAt[p], Loaded, Timeline(PolicyAt[p], Loaded))

\* A file left torn by a process that died in writing it stays so once its
\* second is over, and no analysis of the target succeeds any more.
Abandoned(s) ==
    /\ file[s] = Torn /\ s < now
    /\ \A w \in Workers : ~(proc[w].step \in {"truncate", "write"} /\ proc[w].second = s)
TornStopsTarget ==
    [][\A s \in Seconds : Abandoned(s) =>
        /\ file'[s] = Torn
        /\ \A w \in Workers : proc[w].step = "load" /\ proc[w].kind # "pair" =>
            proc'[w] \in {proc[w], Idle} ]_vars

\* atlas-drift says of a new resource that it was detected, of a removed one
\* that it is no longer there, "en el snapshot más reciente": with two
\* snapshots, what a report calls new is in the later one.
ReportTellsNewest ==
    \A older, newer \in Kept :
        (older < newer /\ ToSet(ReportSnapshots) = {older, newer}) =>
            \A f \in ReportedFindings : f.category = "new_ip" => f.resource \in scans[newer].ips
============================================================================
