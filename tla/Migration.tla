----------------------------- MODULE Migration -----------------------------
(***************************************************************************)
(* What AtlasStore::initialize does to a legacy table.                     *)
(*                                                                         *)
(* The API, every worker, every scheduler and every command of the CLI run *)
(* initialize when they start, on one database.  finding_state and         *)
(* saved_queries were once keyed by their identifier alone; initialize     *)
(* adds the scope columns and rebuilds the table with a composite key: it  *)
(* creates a side table, copies the rows, drops the old table and renames  *)
(* the side one.  The batch has no BEGIN, so each statement commits alone, *)
(* and a process may die, or another may start, between any two.  The      *)
(* module follows one of the two tables.                                   *)
(***************************************************************************)
EXTENDS Naturals

CONSTANTS
    Procs,       \* processes that open the database
    Names,       \* keys of the table
    NoRow,       \* a key without a row
    MaxSaves,    \* bound: rows stored by processes that finished initialize
    MaxStarts    \* bound: starts of processes

ASSUME MigrationAssumption ==
    /\ MaxSaves \in Nat
    /\ MaxStarts \in Nat
    /\ NoRow \notin Nat

ScopeColumns == {"tenant_id", "project_id"}
Versions == 0 .. MaxSaves              \* 0 is the content from before the upgrade
Rows == [Names -> Versions \cup {NoRow}]
NoRows == [n \in Names |-> NoRow]

Tables == [exists : BOOLEAN, composite : BOOLEAN, columns : SUBSET ScopeColumns, rows : Rows]

Missing    == [exists |-> FALSE, composite |-> FALSE, columns |-> {}, rows |-> NoRows]
EmptyTable == [exists |-> TRUE, composite |-> TRUE, columns |-> ScopeColumns, rows |-> NoRows]
Legacy(columns, rows) ==
    [exists |-> TRUE, composite |-> FALSE, columns |-> columns, rows |-> rows]

Rebuilding == {"side", "copy", "drop", "rename"}
Starting == {"create", "scope", "alter", "key", "index"} \cup Rebuilding
Steps == {"off", "serving", "failed"} \cup Starting

VARIABLES
    live,     \* the table under its own name
    side,     \* the table with the suffix _v026
    step,     \* where each process stands in initialize
    missing,  \* the scope columns a process still has to add
    saves, starts,
    \* history: no step reads what follows
    saved,    \* what each key was last given, by the old program or a save
    overlap,  \* a rebuild began while the table was being rebuilt, or lay dropped
    gap,      \* a process died, or started, between a DROP and its RENAME
    company   \* processes whose start has overlapped another one

vars == <<live, side, step, missing, saves, starts, saved, overlap, gap, company>>
history == <<saved, overlap, gap, company>>

TypeOK ==
    /\ live \in Tables
    /\ side \in Tables
    /\ step \in [Procs -> Steps]
    /\ missing \in [Procs -> SUBSET ScopeColumns]
    /\ saves \in 0 .. MaxSaves
    /\ starts \in 0 .. MaxStarts
    /\ saved \in Rows
    /\ overlap \in BOOLEAN
    /\ gap \in BOOLEAN
    /\ company \in SUBSET Procs

\* A database that is new, that has no scope columns, or that has lost the
\* process which was adding them.
Init ==
    /\ live \in {Missing}
           \cup {Legacy(c, r) : c \in {{}, {"tenant_id"}, ScopeColumns}, r \in [Names -> {0, NoRow}]}
    /\ side = Missing
    /\ step = [p \in Procs |-> "off"]
    /\ missing = [p \in Procs |-> {}]
    /\ saves = 0
    /\ starts = 0
    /\ saved = live.rows
    /\ overlap = FALSE
    /\ gap = FALSE
    /\ company = {}

Go(p, s) == step' = [step EXCEPT ![p] = s]

\* A statement that SQLite refuses ends initialize, and the process, through `?`.
Fail(p) ==
    /\ Go(p, "failed")
    /\ UNCHANGED <<live, side, missing, saves, starts, history>>

(***************************************************************************)
(* initialize, one statement at a time                                     *)
(***************************************************************************)
Start(p) ==
    LET others == {q \in Procs \ {p} : step[q] \in Starting}
    IN /\ step[p] \in {"off", "failed"}
       /\ starts < MaxStarts
       /\ starts' = starts + 1
       /\ Go(p, "create")
       /\ company' = IF others = {} THEN company \ {p} ELSE company \cup others \cup {p}
       /\ UNCHANGED <<live, side, missing, saves, saved, overlap, gap>>

\* CREATE TABLE IF NOT EXISTS, with the composite key.
CreateBaseTable(p) ==
    /\ step[p] = "create"
    /\ live' = IF live.exists THEN live ELSE EmptyTable
    /\ gap' = (gap \/ (\E q \in Procs : step[q] = "rename"))
    /\ Go(p, "scope")
    /\ UNCHANGED <<side, missing, saves, starts, saved, overlap, company>>

\* PRAGMA table_info: a missing table has no columns, and that is no error.
ReadColumns(p) ==
    /\ step[p] = "scope"
    /\ missing' = [missing EXCEPT ![p] = ScopeColumns \ live.columns]
    /\ Go(p, "alter")
    /\ UNCHANGED <<live, side, saves, starts, history>>

NextColumn(p) == IF "tenant_id" \in missing[p] THEN "tenant_id" ELSE "project_id"

AddColumn(p) ==
    /\ step[p] = "alter"
    /\ missing[p] # {}
    /\ live.exists
    /\ NextColumn(p) \notin live.columns
    /\ live' = [live EXCEPT !.columns = @ \cup {NextColumn(p)}]
    /\ missing' = [missing EXCEPT ![p] = @ \ {NextColumn(p)}]
    /\ UNCHANGED <<side, step, saves, starts, history>>

AddColumnFails(p) ==
    /\ step[p] = "alter"
    /\ missing[p] # {}
    /\ (~live.exists \/ NextColumn(p) \in live.columns)
    /\ Fail(p)

ColumnsDone(p) ==
    /\ step[p] = "alter"
    /\ missing[p] = {}
    /\ Go(p, "key")
    /\ UNCHANGED <<live, side, missing, saves, starts, history>>

\* The key is read once; nothing looks at it again before the DROP.
ReadKey(p) ==
    /\ step[p] = "key"
    /\ Go(p, IF live.composite THEN "index" ELSE "side")
    /\ overlap' = (overlap \/ ~live.exists
                      \/ (~live.composite /\ \E q \in Procs \ {p} : step[q] \in Rebuilding))
    /\ UNCHANGED <<live, side, missing, saves, starts, saved, gap, company>>

\* CREATE TABLE IF NOT EXISTS .._v026.  Mutants: without IF NOT EXISTS, and with the copy left out.
CreateSideAlways(p) ==
    /\ step[p] = "side"
    /\ side' = IF side.exists THEN side ELSE EmptyTable
    /\ Go(p, IF side.exists THEN "failed" ELSE "copy")
    /\ UNCHANGED <<live, missing, saves, starts, history>>
CreateSideOnly(p) ==
    /\ step[p] = "side"
    /\ side' = IF side.exists THEN side ELSE EmptyTable
    /\ Go(p, "drop")
    /\ UNCHANGED <<live, missing, saves, starts, history>>
CreateSide(p) ==
    /\ step[p] = "side"
    /\ side' = IF side.exists THEN side ELSE EmptyTable
    /\ Go(p, "copy")
    /\ UNCHANGED <<live, missing, saves, starts, history>>

\* INSERT OR IGNORE: a row that the side table has already is kept.
Merged(old, new) == [n \in Names |-> IF new[n] # NoRow THEN new[n] ELSE old[n]]

CopyRows(p) ==
    /\ step[p] = "copy"
    /\ live.exists /\ side.exists
    /\ side' = [side EXCEPT !.rows = Merged(live.rows, side.rows)]
    /\ Go(p, "drop")
    /\ UNCHANGED <<live, missing, saves, starts, history>>

CopyFails(p) ==
    /\ step[p] = "copy"
    /\ ~(live.exists /\ side.exists)
    /\ Fail(p)

DropTable(p) ==
    /\ step[p] = "drop"
    /\ live.exists
    /\ live' = Missing
    /\ Go(p, "rename")
    /\ UNCHANGED <<side, missing, saves, starts, history>>

DropFails(p) ==
    /\ step[p] = "drop"
    /\ ~live.exists
    /\ Fail(p)

\* ALTER TABLE .. RENAME TO refuses a name that is taken.
RenameSide(p) ==
    /\ step[p] = "rename"
    /\ side.exists /\ ~live.exists
    /\ live' = side
    /\ side' = Missing
    /\ Go(p, "index")
    /\ UNCHANGED <<missing, saves, starts, history>>

RenameFails(p) ==
    /\ step[p] = "rename"
    /\ ~(side.exists /\ ~live.exists)
    /\ Fail(p)

\* Mutant: the side table is cleaned up.
CreateIndexesAndClean(p) ==
    /\ step[p] = "index"
    /\ side' = Missing
    /\ Go(p, IF live.exists THEN "serving" ELSE "failed")
    /\ UNCHANGED <<live, missing, saves, starts, history>>
CreateIndexes(p) ==
    /\ step[p] = "index"
    /\ Go(p, IF live.exists THEN "serving" ELSE "failed")
    /\ UNCHANGED <<live, side, missing, saves, starts, history>>

\* A process that has started stores a row: INSERT .. ON CONFLICT (the three columns).
Save(p, n) ==
    /\ step[p] = "serving"
    /\ saves < MaxSaves
    /\ live.composite
    /\ saves' = saves + 1
    /\ live' = [live EXCEPT !.rows[n] = saves']
    /\ saved' = [saved EXCEPT ![n] = saves']
    /\ UNCHANGED <<side, step, missing, starts, overlap, gap, company>>

\* A process ends, or dies in the middle of its start.
Stop(p) ==
    /\ step[p] \in Starting \cup {"serving"}
    /\ Go(p, "off")
    /\ gap' = (gap \/ (step[p] = "rename"))
    /\ UNCHANGED <<live, side, missing, saves, starts, saved, overlap, company>>

Initialize(p) ==
    \/ CreateBaseTable(p) \/ ReadColumns(p)
    \/ AddColumn(p) \/ AddColumnFails(p) \/ ColumnsDone(p)
    \/ ReadKey(p) \/ CreateSide(p)
    \/ CopyRows(p) \/ CopyFails(p)
    \/ DropTable(p) \/ DropFails(p)
    \/ RenameSide(p) \/ RenameFails(p)
    \/ CreateIndexes(p)

Next == \E p \in Procs :
    \/ Start(p)
    \/ Initialize(p)
    \/ (\E n \in Names : Save(p, n))
    \/ Stop(p)

MigrationSpec == Init /\ [][Next]_vars

(***************************************************************************)
(* Properties                                                              *)
(***************************************************************************)
Holds(t, n) == t.exists /\ t.rows[n] = saved[n]

\* The rebuild destroys nothing: as long as no rebuild began within another
\* one, the last value of every key is in one of the two tables, wherever a
\* process died and whoever started meanwhile.
RowsSurvive ==
    ~overlap => \A n \in Names : saved[n] # NoRow => Holds(live, n) \/ Holds(side, n)

\* A process that has finished initialize sees every row, unless a rebuild
\* began within another or someone died or started between the DROP and the RENAME.
RowsVisible ==
    (~overlap /\ ~gap) =>
        \A p \in Procs : step[p] = "serving" => \A n \in Names : live.rows[n] = saved[n]

\* What people have stored is neither destroyed nor hidden by a migration, on
\* the two premises above.
RowsAreKept == RowsSurvive /\ RowsVisible

\* A start during which no other start runs goes through, whatever an earlier
\* one left behind: IF NOT EXISTS and the checks make initialize repeatable.
LoneStartSucceeds == \A p \in Procs : step[p] = "failed" => p \in company

\* Rows left in the side table while a table of the final form exists stay
\* there: no later start looks at them.
Stranded == live.composite /\ side.exists

StrandedForGood ==
    [][(Stranded /\ \A p \in Procs : step[p] \notin Rebuilding) => Stranded']_vars
============================================================================
