-------------------------- MODULE MigrationProofs --------------------------
(***************************************************************************)
(* Proofs about Migration: for any number of processes, keys, saves and    *)
(* starts the rebuild of a legacy table destroys no row, and hides none,   *)
(* unless a rebuild begins within another one.                             *)
(***************************************************************************)
EXTENDS Migration, TLAPS

(***************************************************************************)
(* The inductive invariant                                                 *)
(***************************************************************************)
\* A table that does not exist has no rows; the side table has the final key.
Shapes ==
    /\ (~live.exists) => (live = Missing)
    /\ (~side.exists) => (side = Missing)
    /\ side.exists => side.composite

OneRebuilder ==
    \A p, q \in Procs : step[p] \in Rebuilding /\ step[q] \in Rebuilding => p = q

\* Until it drops the table, a process finds it as it read it.
TableIsOld ==
    \A p \in Procs : step[p] \in {"side", "copy", "drop"} => live.exists /\ ~live.composite

SideIsThere ==
    \A p \in Procs :
        /\ step[p] = "copy" => side.exists
        /\ step[p] = "drop" => side.exists /\ side.rows = saved
        /\ (step[p] = "rename" /\ ~live.exists) => side.exists

\* An old table is complete, and copies of its rows are not out of date.
OldIsComplete ==
    (live.exists /\ ~live.composite) =>
        /\ live.rows = saved
        /\ \A n \in Names : side.rows[n] \in {NoRow, saved[n]}

\* What stands in for a table that is gone.
GoneIsAside ==
    ~live.exists => IF side.exists THEN side.rows = saved ELSE saved = NoRows

\* A process that is past the rebuild has a table of the final form.
FinalForm ==
    \A p \in Procs : step[p] \in {"index", "serving"} => live.composite

NewIsComplete == (live.composite /\ ~gap) => live.rows = saved

GoneIsNew ==
    (~gap /\ ~live.exists /\ \A p \in Procs : step[p] # "rename") => saved = NoRows

Undisturbed ==
    /\ OneRebuilder
    /\ TableIsOld
    /\ SideIsThere
    /\ OldIsComplete
    /\ GoneIsAside
    /\ FinalForm
    /\ NewIsComplete
    /\ GoneIsNew
    /\ RowsSurvive

\* A process that starts alone finds what its last statement left.
AloneAsLeft ==
    \A p \in Procs \ company : step[p] \in Starting =>
        /\ \A q \in Procs \ {p} : step[q] \notin Starting
        /\ step[p] \notin {"create", "rename"} => live.exists
        /\ step[p] = "alter" => missing[p] \cap live.columns = {}
        /\ step[p] \in {"copy", "drop", "rename"} => side.exists
        /\ step[p] = "rename" => ~live.exists

Sound == Shapes /\ (~overlap => Undisturbed)
IInv == TypeOK /\ Sound
-----------------------------------------------------------------------------
USE DEF history

LEMMA TablesAreTables ==
    /\ Missing \in Tables /\ ~Missing.exists /\ ~Missing.composite /\ Missing.rows = NoRows
    /\ EmptyTable \in Tables /\ EmptyTable.exists /\ EmptyTable.composite
    /\ EmptyTable.rows = NoRows
    /\ NoRows \in Rows /\ (\A n \in Names : NoRows[n] = NoRow)
BY DEF Missing, EmptyTable, Tables, Rows, NoRows, ScopeColumns

\* What is left of a table when its columns or its rows change.
LEMMA ChangedTable ==
    ASSUME NEW t \in Tables, NEW c \in SUBSET ScopeColumns, NEW r \in Rows
    PROVE  /\ [t EXCEPT !.columns = c] \in Tables
           /\ [t EXCEPT !.columns = c].exists = t.exists
           /\ [t EXCEPT !.columns = c].composite = t.composite
           /\ [t EXCEPT !.columns = c].rows = t.rows
           /\ [t EXCEPT !.rows = r] \in Tables
           /\ [t EXCEPT !.rows = r].exists = t.exists
           /\ [t EXCEPT !.rows = r].composite = t.composite
           /\ [t EXCEPT !.rows = r].rows = r
BY DEF Tables

\* What the statements that change a table in place leave of it.
LEMMA AddColumnChanges ==
    ASSUME TypeOK, NEW p \in Procs, AddColumn(p)
    PROVE  /\ live' \in Tables /\ live'.exists = live.exists
           /\ live'.composite = live.composite /\ live'.rows = live.rows
<1>1. NextColumn(p) \in ScopeColumns
  BY DEF NextColumn, ScopeColumns
<1>2. live \in Tables /\ live.columns \in SUBSET ScopeColumns
  BY DEF TypeOK, Tables
<1>3. live.rows \in Rows
  BY <1>2 DEF Tables
<1> DEFINE c == live.columns \cup {NextColumn(p)}
<1>4. c \in SUBSET ScopeColumns
  BY <1>1, <1>2
<1>5. live' = [live EXCEPT !.columns = c]
  BY DEF AddColumn
<1> HIDE DEF c
<1>6. QED
  BY <1>2, <1>3, <1>4, <1>5, ChangedTable

LEMMA CopyRowsChanges ==
    ASSUME TypeOK, NEW p \in Procs, CopyRows(p)
    PROVE  /\ side' \in Tables /\ side'.exists = side.exists
           /\ side'.composite = side.composite
           /\ side'.rows = Merged(live.rows, side.rows)
<1>1. live \in Tables /\ side \in Tables /\ side.columns \in SUBSET ScopeColumns
  BY DEF TypeOK, Tables
<1>2. live.rows \in Rows /\ side.rows \in Rows
  BY <1>1 DEF Tables
<1> DEFINE r == Merged(live.rows, side.rows)
<1>3. r \in Rows
  BY <1>2 DEF Merged, Rows
<1>4. side' = [side EXCEPT !.rows = r]
  BY DEF CopyRows
<1> HIDE DEF r
<1>5. side' \in Tables /\ side'.exists = side.exists /\ side'.composite = side.composite /\ side'.rows = r
  BY <1>1, <1>3, <1>4, ChangedTable
<1>6. QED
  BY <1>5 DEF r

LEMMA SaveChanges ==
    ASSUME TypeOK, NEW p \in Procs, NEW n \in Names, Save(p, n)
    PROVE  /\ live' \in Tables /\ live'.exists = live.exists
           /\ live'.composite = live.composite
           /\ live'.rows = [live.rows EXCEPT ![n] = saves']
           /\ saved' = [saved EXCEPT ![n] = saves']
           /\ saves' \in Versions
           /\ saved' \in Rows
<1>1. live \in Tables /\ live.columns \in SUBSET ScopeColumns /\ live.rows \in Rows
  BY DEF TypeOK, Tables
<1>2. saves' \in Versions
  BY MigrationAssumption DEF Save, TypeOK, Versions
<1> DEFINE r == [live.rows EXCEPT ![n] = saves']
<1>3. r \in Rows
  BY <1>1, <1>2 DEF Rows
<1>4. live' = [live EXCEPT !.rows = r]
  BY DEF Save
<1>5. saved' = [saved EXCEPT ![n] = saves'] /\ saved' \in Rows
  BY <1>2 DEF Save, TypeOK, Rows
<1> HIDE DEF r
<1>6. live' \in Tables /\ live'.exists = live.exists /\ live'.composite = live.composite /\ live'.rows = r
  BY <1>1, <1>3, <1>4, ChangedTable
<1>7. QED
  BY <1>2, <1>5, <1>6 DEF r

LEMMA SaveRows ==
    ASSUME TypeOK, NEW p \in Procs, NEW n \in Names, Save(p, n), NEW m \in Names
    PROVE  /\ saved'[m] = IF m = n THEN saves' ELSE saved[m]
           /\ live'.rows[m] = IF m = n THEN saves' ELSE live.rows[m]
<1>1. saved \in Rows /\ live.rows \in Rows
  BY DEF TypeOK, Tables
<1>2. QED
  BY <1>1, SaveChanges DEF Rows

LEMMA InitTypeOK == Init => TypeOK
<1> SUFFICES ASSUME Init PROVE TypeOK
  OBVIOUS
<1>1. ASSUME NEW c \in SUBSET ScopeColumns, NEW r \in [Names -> {0, NoRow}]
      PROVE  Legacy(c, r) \in Tables
  BY MigrationAssumption DEF Legacy, Tables, Rows, Versions
<1>2. live \in Tables
  BY <1>1, TablesAreTables DEF Init, ScopeColumns
<1>3. saved \in Rows
  BY <1>2 DEF Init, Tables
<1>4. step \in [Procs -> Steps] /\ missing \in [Procs -> SUBSET ScopeColumns]
  BY DEF Init, Steps
<1>5. saves \in 0 .. MaxSaves /\ starts \in 0 .. MaxStarts
  BY MigrationAssumption DEF Init
<1>6. side \in Tables
  BY TablesAreTables DEF Init
<1>7. overlap \in BOOLEAN /\ gap \in BOOLEAN /\ company \in SUBSET Procs
  BY DEF Init
<1>8. QED
  BY <1>2, <1>3, <1>4, <1>5, <1>6, <1>7 DEF TypeOK

LEMMA NextTypeOK == TypeOK /\ [Next]_vars => TypeOK'
<1> SUFFICES ASSUME TypeOK, [Next]_vars PROVE TypeOK'
  OBVIOUS
<1> USE MigrationAssumption, TablesAreTables DEF TypeOK, Go, Fail, Steps, Starting, Rebuilding
<1>1. ASSUME NEW p \in Procs, Start(p) PROVE TypeOK'
  BY <1>1 DEF Start
<1>2. ASSUME NEW p \in Procs, CreateBaseTable(p) PROVE TypeOK'
  BY <1>2 DEF CreateBaseTable
<1>3. ASSUME NEW p \in Procs, ReadColumns(p) PROVE TypeOK'
  BY <1>3 DEF ReadColumns
<1>4. ASSUME NEW p \in Procs, AddColumn(p) PROVE TypeOK'
  BY <1>4, AddColumnChanges DEF AddColumn
<1>5. ASSUME NEW p \in Procs, AddColumnFails(p) PROVE TypeOK'
  BY <1>5 DEF AddColumnFails
<1>6. ASSUME NEW p \in Procs, ColumnsDone(p) PROVE TypeOK'
  BY <1>6 DEF ColumnsDone
<1>7. ASSUME NEW p \in Procs, ReadKey(p) PROVE TypeOK'
  BY <1>7 DEF ReadKey
<1>8. ASSUME NEW p \in Procs, CreateSide(p) PROVE TypeOK'
  BY <1>8 DEF CreateSide
<1>9. ASSUME NEW p \in Procs, CopyRows(p) PROVE TypeOK'
  BY <1>9, CopyRowsChanges DEF CopyRows
<1>10. ASSUME NEW p \in Procs, CopyFails(p) PROVE TypeOK'
  BY <1>10 DEF CopyFails
<1>11. ASSUME NEW p \in Procs, DropTable(p) PROVE TypeOK'
  BY <1>11 DEF DropTable
<1>12. ASSUME NEW p \in Procs, DropFails(p) PROVE TypeOK'
  BY <1>12 DEF DropFails
<1>13. ASSUME NEW p \in Procs, RenameSide(p) PROVE TypeOK'
  BY <1>13 DEF RenameSide
<1>14. ASSUME NEW p \in Procs, RenameFails(p) PROVE TypeOK'
  BY <1>14 DEF RenameFails
<1>15. ASSUME NEW p \in Procs, CreateIndexes(p) PROVE TypeOK'
  BY <1>15 DEF CreateIndexes
<1>16. ASSUME NEW p \in Procs, NEW n \in Names, Save(p, n) PROVE TypeOK'
  BY <1>16, SaveChanges DEF Save, Versions
<1>17. ASSUME NEW p \in Procs, Stop(p) PROVE TypeOK'
  BY <1>17 DEF Stop
<1>18. CASE UNCHANGED vars
  BY <1>18 DEF vars
<1>19. QED
  BY <1>1, <1>2, <1>3, <1>4, <1>5, <1>6, <1>7, <1>8, <1>9, <1>10, <1>11, <1>12, <1>13, <1>14, <1>15, <1>16, <1>17, <1>18 DEF Next, Initialize
-----------------------------------------------------------------------------
LEMMA InitSound == Init => Sound
<1> SUFFICES ASSUME Init PROVE Sound
  OBVIOUS
<1> USE MigrationAssumption, TablesAreTables
    DEF Init, Sound, Undisturbed, Shapes, Rebuilding
<1>1. CASE live = Missing
  BY <1>1 DEF OneRebuilder, TableIsOld, SideIsThere, OldIsComplete, GoneIsAside, FinalForm, NewIsComplete, GoneIsNew, RowsSurvive, Holds
<1>2. ASSUME NEW c \in SUBSET ScopeColumns, NEW r \in [Names -> {0, NoRow}],
             live = Legacy(c, r)
      PROVE  Sound
  <2>1. live.exists /\ ~live.composite /\ live.rows = saved
    BY <1>2 DEF Legacy
  <2>2. QED
    BY <2>1 DEF OneRebuilder, TableIsOld, SideIsThere, OldIsComplete, GoneIsAside, FinalForm, NewIsComplete, GoneIsNew, RowsSurvive, Holds
<1>3. QED
  BY <1>1, <1>2 DEF ScopeColumns

LEMMA NextSound == TypeOK /\ Sound /\ [Next]_vars => Sound'
<1> SUFFICES ASSUME TypeOK, Sound, [Next]_vars PROVE Sound'
  OBVIOUS
<1> USE MigrationAssumption, TablesAreTables
    DEF TypeOK, Sound, Go, Fail, Steps, Starting, Rebuilding, Undisturbed, Shapes
<1>1. ASSUME NEW p \in Procs, Start(p) PROVE Sound'
  BY <1>1 DEF Start, OneRebuilder, TableIsOld, SideIsThere, OldIsComplete, GoneIsAside, FinalForm, NewIsComplete, GoneIsNew, RowsSurvive, Holds
<1>2. ASSUME NEW p \in Procs, CreateBaseTable(p) PROVE Sound'
  BY <1>2 DEF CreateBaseTable, OneRebuilder, TableIsOld, SideIsThere, OldIsComplete, GoneIsAside, FinalForm, NewIsComplete, GoneIsNew, RowsSurvive, Holds
<1>3. ASSUME NEW p \in Procs, ReadColumns(p) PROVE Sound'
  BY <1>3 DEF ReadColumns, OneRebuilder, TableIsOld, SideIsThere, OldIsComplete, GoneIsAside, FinalForm, NewIsComplete, GoneIsNew, RowsSurvive, Holds
<1>4. ASSUME NEW p \in Procs, AddColumn(p) PROVE Sound'
  BY <1>4, AddColumnChanges DEF AddColumn, OneRebuilder, TableIsOld, SideIsThere, OldIsComplete, GoneIsAside, FinalForm, NewIsComplete, GoneIsNew, RowsSurvive, Holds
<1>5. ASSUME NEW p \in Procs, AddColumnFails(p) PROVE Sound'
  BY <1>5 DEF AddColumnFails, OneRebuilder, TableIsOld, SideIsThere, OldIsComplete, GoneIsAside, FinalForm, NewIsComplete, GoneIsNew, RowsSurvive, Holds
<1>6. ASSUME NEW p \in Procs, ColumnsDone(p) PROVE Sound'
  BY <1>6 DEF ColumnsDone, OneRebuilder, TableIsOld, SideIsThere, OldIsComplete, GoneIsAside, FinalForm, NewIsComplete, GoneIsNew, RowsSurvive, Holds
<1>7. ASSUME NEW p \in Procs, ReadKey(p) PROVE Sound'
  <2>1. CASE overlap'
    BY <1>7, <2>1 DEF ReadKey
  <2>2. CASE ~overlap' /\ live.composite
    BY <1>7, <2>2 DEF ReadKey, OneRebuilder, TableIsOld, SideIsThere, OldIsComplete, GoneIsAside, FinalForm, NewIsComplete, GoneIsNew, RowsSurvive, Holds
  <2>3. CASE ~overlap' /\ ~live.composite
    <3>1. ~overlap /\ live.exists /\ \A q \in Procs \ {p} : step[q] \notin Rebuilding
      BY <1>7, <2>3 DEF ReadKey
    <3>2. step' = [step EXCEPT ![p] = "side"]
      BY <1>7, <2>3 DEF ReadKey
    <3>3. QED
      BY <1>7, <2>3, <3>1, <3>2 DEF ReadKey, OneRebuilder, TableIsOld, SideIsThere, OldIsComplete, GoneIsAside, FinalForm, NewIsComplete, GoneIsNew, RowsSurvive, Holds
  <2>4. QED
    BY <2>1, <2>2, <2>3
<1>8. ASSUME NEW p \in Procs, CreateSide(p) PROVE Sound'
  BY <1>8 DEF CreateSide, OneRebuilder, TableIsOld, SideIsThere, OldIsComplete, GoneIsAside, FinalForm, NewIsComplete, GoneIsNew, RowsSurvive, Holds
<1>9. ASSUME NEW p \in Procs, CopyRows(p) PROVE Sound'
  <2>1. CASE overlap
    BY <1>9, <2>1, CopyRowsChanges DEF CopyRows
  <2>2. CASE ~overlap
    <3>1. live.exists /\ ~live.composite /\ live.rows = saved
      BY <1>9, <2>2 DEF CopyRows, TableIsOld, OldIsComplete
    <3>2. side'.rows = saved
      <4>1. \A n \in Names : side.rows[n] \in {NoRow, saved[n]}
        BY <2>2, <3>1 DEF OldIsComplete
      <4>2. Merged(saved, side.rows) = [n \in Names |-> saved[n]]
        BY <4>1 DEF Merged
      <4>3. QED
        BY <1>9, <3>1, <4>2, CopyRowsChanges DEF Rows
    <3>3. side'.exists /\ side'.composite
      BY <1>9, CopyRowsChanges DEF CopyRows
    <3>4. QED
      BY <1>9, <2>2, <3>1, <3>2, <3>3 DEF CopyRows, OneRebuilder, TableIsOld, SideIsThere, OldIsComplete, GoneIsAside, FinalForm, NewIsComplete, GoneIsNew, RowsSurvive, Holds
  <2>3. QED
    BY <2>1, <2>2
<1>10. ASSUME NEW p \in Procs, CopyFails(p) PROVE Sound'
  BY <1>10 DEF CopyFails, OneRebuilder, TableIsOld, SideIsThere, OldIsComplete, GoneIsAside, FinalForm, NewIsComplete, GoneIsNew, RowsSurvive, Holds
<1>11. ASSUME NEW p \in Procs, DropTable(p) PROVE Sound'
  BY <1>11 DEF DropTable, OneRebuilder, TableIsOld, SideIsThere, OldIsComplete, GoneIsAside, FinalForm, NewIsComplete, GoneIsNew, RowsSurvive, Holds
<1>12. ASSUME NEW p \in Procs, DropFails(p) PROVE Sound'
  BY <1>12 DEF DropFails, OneRebuilder, TableIsOld, SideIsThere, OldIsComplete, GoneIsAside, FinalForm, NewIsComplete, GoneIsNew, RowsSurvive, Holds
<1>13. ASSUME NEW p \in Procs, RenameSide(p) PROVE Sound'
  BY <1>13 DEF RenameSide, OneRebuilder, TableIsOld, SideIsThere, OldIsComplete, GoneIsAside, FinalForm, NewIsComplete, GoneIsNew, RowsSurvive, Holds
<1>14. ASSUME NEW p \in Procs, RenameFails(p) PROVE Sound'
  BY <1>14 DEF RenameFails, OneRebuilder, TableIsOld, SideIsThere, OldIsComplete, GoneIsAside, FinalForm, NewIsComplete, GoneIsNew, RowsSurvive, Holds
<1>15. ASSUME NEW p \in Procs, CreateIndexes(p) PROVE Sound'
  BY <1>15 DEF CreateIndexes, OneRebuilder, TableIsOld, SideIsThere, OldIsComplete, GoneIsAside, FinalForm, NewIsComplete, GoneIsNew, RowsSurvive, Holds
<1>16. ASSUME NEW p \in Procs, NEW n \in Names, Save(p, n) PROVE Sound'
  <2>1. live'.exists = live.exists /\ live'.composite = live.composite
    BY <1>16, SaveChanges
  <2>2. live.exists /\ live.composite
    BY <1>16 DEF Save
  <2>3. CASE overlap
    BY <1>16, <2>1, <2>2, <2>3 DEF Save
  <2>4. CASE ~overlap
    <3>1. \A q \in Procs : step[q] \notin {"side", "copy", "drop"}
      BY <2>2, <2>4 DEF TableIsOld
    <3>2. NewIsComplete'
      <4>1. gap' = gap
        BY <1>16 DEF Save
      <4>2. ~gap => live.rows = saved
        BY <2>2, <2>4 DEF NewIsComplete
      <4>3. ~gap => live'.rows = saved'
        BY <1>16, <4>2, SaveChanges
      <4>4. QED
        BY <4>1, <4>3 DEF NewIsComplete
    <3>3. RowsSurvive'
      <4>1. ASSUME NEW m \in Names, saved'[m] # NoRow PROVE Holds(live, m)' \/ Holds(side, m)'
        <5>1. CASE m = n
          <6>1. saved'[n] = saves' /\ live'.rows[n] = saves'
            BY <1>16, SaveRows
          <6>2. QED
            BY <2>1, <2>2, <5>1, <6>1 DEF Holds
        <5>2. CASE m # n
          <6>1. saved'[m] = saved[m] /\ live'.rows[m] = live.rows[m]
            BY <1>16, <5>2, SaveRows
          <6>2. QED
            BY <1>16, <2>1, <2>4, <4>1, <6>1 DEF Save, Holds, RowsSurvive
        <5>3. QED
          BY <5>1, <5>2
      <4>2. QED
        BY <4>1 DEF RowsSurvive
    <3>4. QED
      BY <1>16, <2>1, <2>2, <2>4, <3>1, <3>2, <3>3
      DEF Save, OneRebuilder, TableIsOld, SideIsThere, OldIsComplete, GoneIsAside, FinalForm, GoneIsNew
  <2>5. QED
    BY <2>3, <2>4
<1>17. ASSUME NEW p \in Procs, Stop(p) PROVE Sound'
  <2>1. CASE overlap
    BY <1>17, <2>1 DEF Stop
  <2>2. CASE ~overlap /\ step[p] = "rename"
    <3>1. gap'
      BY <1>17, <2>2 DEF Stop
    <3>2. QED
      BY <1>17, <2>2, <3>1 DEF Stop, OneRebuilder, TableIsOld, SideIsThere, OldIsComplete, GoneIsAside, FinalForm, NewIsComplete, GoneIsNew, RowsSurvive, Holds
  <2>3. CASE ~overlap /\ step[p] # "rename"
    <3>1. gap' = gap
      BY <1>17, <2>3 DEF Stop
    <3>2. QED
      BY <1>17, <2>3, <3>1 DEF Stop, OneRebuilder, TableIsOld, SideIsThere, OldIsComplete, GoneIsAside, FinalForm, NewIsComplete, GoneIsNew, RowsSurvive, Holds
  <2>4. QED
    BY <2>1, <2>2, <2>3
<1>18. CASE UNCHANGED vars
  BY <1>18 DEF vars, OneRebuilder, TableIsOld, SideIsThere, OldIsComplete, GoneIsAside, FinalForm, NewIsComplete, GoneIsNew, RowsSurvive, Holds
<1>19. QED
  BY <1>1, <1>2, <1>3, <1>4, <1>5, <1>6, <1>7, <1>8, <1>9, <1>10, <1>11, <1>12, <1>13, <1>14, <1>15, <1>16, <1>17, <1>18 DEF Next, Initialize
-----------------------------------------------------------------------------
\* The type invariant, for every value of the constants.
THEOREM MigrationTypeCorrect == MigrationSpec => []TypeOK
<1>1. QED
  BY InitTypeOK, NextTypeOK, PTL DEF MigrationSpec

\* initialize destroys no row and hides none, however many processes start,
\* stop, die and store rows, unless a rebuild begins within another one.
THEOREM RebuildKeepsRows == MigrationSpec => []RowsAreKept
<1>1. Init => IInv
  BY InitTypeOK, InitSound DEF IInv
<1>2. IInv /\ [Next]_vars => IInv'
  BY NextTypeOK, NextSound DEF IInv
<1>3. IInv => RowsSurvive
  BY DEF IInv, Sound, Undisturbed, RowsSurvive
<1>4. IInv => RowsVisible
  BY DEF IInv, Sound, Undisturbed, RowsVisible, FinalForm, NewIsComplete
<1>5. IInv => RowsAreKept
  BY <1>3, <1>4 DEF RowsAreKept
<1>6. QED
  BY <1>1, <1>2, <1>5, PTL DEF MigrationSpec

-----------------------------------------------------------------------------
LEMMA ColumnTaken ==
    ASSUME TypeOK, NEW p \in Procs, AddColumn(p)
    PROVE  (missing[p] \cap live.columns = {}) => (missing'[p] \cap live'.columns = {})
<1>1. NextColumn(p) \in missing[p]
  BY DEF AddColumn, NextColumn, TypeOK, ScopeColumns
<1>2. missing'[p] = missing[p] \ {NextColumn(p)}
  BY DEF AddColumn, TypeOK
<1>3. live'.columns = live.columns \cup {NextColumn(p)}
  BY DEF AddColumn, TypeOK, Tables
<1>4. QED
  BY <1>1, <1>2, <1>3

LEMMA NextAlone ==
    TypeOK /\ Shapes /\ AloneAsLeft /\ LoneStartSucceeds /\ [Next]_vars
        => AloneAsLeft' /\ LoneStartSucceeds'
<1> SUFFICES ASSUME TypeOK, Shapes, AloneAsLeft, LoneStartSucceeds, [Next]_vars
             PROVE  AloneAsLeft' /\ LoneStartSucceeds'
  OBVIOUS
<1> USE MigrationAssumption, TablesAreTables
    DEF TypeOK, Go, Fail, Steps, Starting, Rebuilding, AloneAsLeft, LoneStartSucceeds
<1>1. ASSUME NEW p \in Procs, Start(p) PROVE AloneAsLeft' /\ LoneStartSucceeds'
  BY <1>1 DEF Start
<1>2. ASSUME NEW p \in Procs, CreateBaseTable(p) PROVE AloneAsLeft' /\ LoneStartSucceeds'
  BY <1>2 DEF CreateBaseTable
<1>3. ASSUME NEW p \in Procs, ReadColumns(p) PROVE AloneAsLeft' /\ LoneStartSucceeds'
  BY <1>3 DEF ReadColumns
<1>4. ASSUME NEW p \in Procs, AddColumn(p) PROVE AloneAsLeft' /\ LoneStartSucceeds'
  BY <1>4, AddColumnChanges, ColumnTaken DEF AddColumn
<1>5. ASSUME NEW p \in Procs, AddColumnFails(p) PROVE AloneAsLeft' /\ LoneStartSucceeds'
  BY <1>5 DEF AddColumnFails, NextColumn, ScopeColumns
<1>6. ASSUME NEW p \in Procs, ColumnsDone(p) PROVE AloneAsLeft' /\ LoneStartSucceeds'
  BY <1>6 DEF ColumnsDone
<1>7. ASSUME NEW p \in Procs, ReadKey(p) PROVE AloneAsLeft' /\ LoneStartSucceeds'
  BY <1>7 DEF ReadKey
<1>8. ASSUME NEW p \in Procs, CreateSide(p) PROVE AloneAsLeft' /\ LoneStartSucceeds'
  BY <1>8 DEF CreateSide
<1>9. ASSUME NEW p \in Procs, CopyRows(p) PROVE AloneAsLeft' /\ LoneStartSucceeds'
  BY <1>9, CopyRowsChanges DEF CopyRows
<1>10. ASSUME NEW p \in Procs, CopyFails(p) PROVE AloneAsLeft' /\ LoneStartSucceeds'
  BY <1>10 DEF CopyFails
<1>11. ASSUME NEW p \in Procs, DropTable(p) PROVE AloneAsLeft' /\ LoneStartSucceeds'
  BY <1>11 DEF DropTable
<1>12. ASSUME NEW p \in Procs, DropFails(p) PROVE AloneAsLeft' /\ LoneStartSucceeds'
  BY <1>12 DEF DropFails
<1>13. ASSUME NEW p \in Procs, RenameSide(p) PROVE AloneAsLeft' /\ LoneStartSucceeds'
  BY <1>13 DEF RenameSide
<1>14. ASSUME NEW p \in Procs, RenameFails(p) PROVE AloneAsLeft' /\ LoneStartSucceeds'
  BY <1>14 DEF RenameFails
<1>15. ASSUME NEW p \in Procs, CreateIndexes(p) PROVE AloneAsLeft' /\ LoneStartSucceeds'
  BY <1>15 DEF CreateIndexes
<1>16. ASSUME NEW p \in Procs, NEW n \in Names, Save(p, n) PROVE AloneAsLeft' /\ LoneStartSucceeds'
  BY <1>16, SaveChanges DEF Save
<1>17. ASSUME NEW p \in Procs, Stop(p) PROVE AloneAsLeft' /\ LoneStartSucceeds'
  BY <1>17 DEF Stop
<1>18. CASE UNCHANGED vars
  BY <1>18 DEF vars
<1>19. QED
  BY <1>1, <1>2, <1>3, <1>4, <1>5, <1>6, <1>7, <1>8, <1>9, <1>10, <1>11, <1>12, <1>13, <1>14, <1>15, <1>16, <1>17, <1>18 DEF Next, Initialize

\* initialize can be run again after any death: a start during which no other
\* one runs is not refused by the database.
THEOREM LoneStart == MigrationSpec => []LoneStartSucceeds
<1> DEFINE J == IInv /\ AloneAsLeft /\ LoneStartSucceeds
<1>1. Init => J
  BY InitTypeOK, InitSound DEF IInv, AloneAsLeft, LoneStartSucceeds, Init, Starting, Rebuilding
<1>2. J /\ [Next]_vars => J'
  BY NextTypeOK, NextSound, NextAlone DEF IInv, Sound
<1>3. J => LoneStartSucceeds
  OBVIOUS
<1> HIDE DEF J
<1>4. QED
  BY <1>1, <1>2, <1>3, PTL DEF MigrationSpec

(***************************************************************************)
(* What an interrupted rebuild left aside                                  *)
(***************************************************************************)
LEMMA StrandedNext ==
    ASSUME TypeOK, Shapes, Stranded, \A p \in Procs : step[p] \notin Rebuilding, [Next]_vars
    PROVE  Stranded'
<1>1. live.exists /\ EmptyTable.composite
  BY TablesAreTables DEF Shapes, Stranded
<1>2. CASE UNCHANGED vars
  BY <1>2 DEF vars, Stranded
<1>3. ASSUME NEW p \in Procs, Start(p) \/ Stop(p) PROVE Stranded'
  BY <1>3 DEF Start, Stop, Stranded
<1>4. ASSUME NEW p \in Procs, NEW n \in Names, Save(p, n) PROVE Stranded'
  <2>1. live'.composite = live.composite
    BY <1>4, SaveChanges
  <2>2. QED
    BY <1>4, <2>1 DEF Save, Stranded
<1>5. ASSUME NEW p \in Procs, AddColumn(p) PROVE Stranded'
  <2>1. live'.composite = live.composite
    BY <1>5, AddColumnChanges
  <2>2. QED
    BY <1>5, <2>1 DEF AddColumn, Stranded
<1>6. ASSUME NEW p \in Procs, Initialize(p), ~AddColumn(p) PROVE Stranded'
  <2>1. step[p] \notin {"side", "copy", "drop", "rename"}
    BY DEF Rebuilding
  <2>2. CASE CreateBaseTable(p)
    BY <1>1, <2>2 DEF CreateBaseTable, Stranded
  <2>3. CASE ReadColumns(p) \/ AddColumnFails(p) \/ ColumnsDone(p) \/ ReadKey(p) \/ CreateIndexes(p)
    BY <2>3 DEF ReadColumns, AddColumnFails, ColumnsDone, ReadKey, CreateIndexes, Fail, Stranded
  <2>4. QED
    BY <1>6, <2>1, <2>2, <2>3
       DEF Initialize, CreateSide, CopyRows, CopyFails, DropTable, DropFails, RenameSide, RenameFails
<1>7. QED
  BY <1>2, <1>3, <1>4, <1>5, <1>6 DEF Next

\* No start looks into the side table once the table has its final form: what a rebuild
\* left there stays there, unless another process is rebuilding at that time.
THEOREM StrandedStay == MigrationSpec => StrandedForGood
<1>1. Init => IInv
  BY InitTypeOK, InitSound DEF IInv
<1>2. IInv /\ [Next]_vars => IInv'
  BY NextTypeOK, NextSound DEF IInv
<1>3. IInv /\ [Next]_vars =>
          [(Stranded /\ \A p \in Procs : step[p] \notin Rebuilding) => Stranded']_vars
  BY StrandedNext DEF IInv, Sound
<1>4. QED
  BY <1>1, <1>2, <1>3, PTL DEF MigrationSpec, StrandedForGood
====
