--------------------------- MODULE FindingTriage ---------------------------
(***************************************************************************)
(* The triage row of a finding: its operational state, owner and note.     *)
(*                                                                         *)
(* The table finding_state is written by atlas-api, which serves one       *)
(* request at a time (a Mutex around its AtlasStore), and by every         *)
(* command of the CLI, each a process with a connection of its own.  A     *)
(* write names one column; it reads the row in one statement and stores    *)
(* all three columns in another, with no transaction around the two.  A    *)
(* PATCH does up to three writes, one after the other.                     *)
(***************************************************************************)
EXTENDS Naturals, Sequences

CONSTANTS
    Findings,     \* identifiers a request may name, registered or not
    Api,          \* the API process
    Commands,     \* processes of the CLI
    Owners, Notes,
    Nothing,      \* a NULL column
    NoCopy,       \* an actor that has not read the row
    MaxRequests   \* bound: requests made in one behaviour

Actors == {Api} \cup Commands
Fields == {"state", "owner", "note"}

OperationalStates == {"open", "accepted", "mitigated", "false_positive"}
Words == OperationalStates \cup {"acknowledged", "resolved"}

\* A word of a request as the column holds it.
Normalized(w) == CASE w = "acknowledged" -> "accepted"
                   [] w = "resolved"     -> "mitigated"
                   [] OTHER              -> w

\* A finding without a row reads as open, with no owner and no note.
Untriaged == [x \in Fields |-> IF x = "state" THEN "open" ELSE Nothing]

FieldValues == OperationalStates \cup Owners \cup Notes \cup {Nothing}
Row == {r \in [Fields -> FieldValues] : r["state"] \in OperationalStates}

(***************************************************************************)
(* A request is the sequence of writes it does.  The API's routes carry a  *)
(* member of the enum; the CLI's commands carry words of an older set.     *)
(***************************************************************************)
Verbs == {"ack", "resolve", "accept", "patch", "assign", "note"}

Writes == [verb : Verbs, finding : Findings, field : {"state"}, value : Words]
     \cup [verb : Verbs, finding : Findings, field : {"owner"}, value : Owners]
     \cup [verb : Verbs, finding : Findings, field : {"note"}, value : Notes]

Write(v, f, x, value) == [verb |-> v, finding |-> f, field |-> x, value |-> value]

StateWord(a, v) == CASE v = "ack"     -> IF a = Api THEN "accepted" ELSE "acknowledged"
                     [] v = "resolve" -> IF a = Api THEN "mitigated" ELSE "resolved"
                     [] v = "accept"  -> "accepted"

Single(a, f) ==
         {Write(v, f, "state", StateWord(a, v)) : v \in {"ack", "resolve", "accept"}}
    \cup {Write("assign", f, "owner", o) : o \in Owners}
    \cup {Write("note", f, "note", n) : n \in Notes}

Optionally(f, x, values) == {<<>>} \cup {<<Write("patch", f, x, v)>> : v \in values}

Patches(f) == {s \o o \o n : s \in Optionally(f, "state", OperationalStates),
                             o \in Optionally(f, "owner", Owners),
                             n \in Optionally(f, "note", Notes)} \ {<<>>}

Requests(a, f) == {<<w>> : w \in Single(a, f)} \cup (IF a = Api THEN Patches(f) ELSE {})

ASSUME TriageAssumption == MaxRequests \in Nat /\ NoCopy \notin Row

VARIABLES
    known,      \* findings that are in the table findings
    row,        \* what the table finding_state says of each finding
    todo,       \* the writes an actor has still to do
    copy,       \* the row an actor has read and will store, or NoCopy
    requests,   \* requests made so far
    \* History, read by no step:
    behind,     \* columns others have changed since an actor read its copy
    wanted,     \* the value last asked for in each column
    contested   \* columns that a write to another column has put back

history == <<behind, wanted, contested>>
vars    == <<known, row, todo, copy, requests, history>>

Init ==
    /\ known = {}
    /\ row = [f \in Findings |-> Untriaged]
    /\ todo = [a \in Actors |-> <<>>]
    /\ copy = [a \in Actors |-> NoCopy]
    /\ requests = 0
    /\ behind = [a \in Actors |-> {}]
    /\ wanted = [f \in Findings |-> Untriaged]
    /\ contested = [f \in Findings |-> {}]

\* A drift report registers the finding; nothing deletes one.
RegisterFinding(f) ==
    /\ f \notin known
    /\ known' = known \cup {f}
    /\ UNCHANGED <<row, todo, copy, requests, history>>

Request(a, f) ==
    /\ todo[a] = <<>>
    /\ requests < MaxRequests
    /\ \E ws \in Requests(a, f) : todo' = [todo EXCEPT ![a] = ws]
    /\ requests' = requests + 1
    /\ UNCHANGED <<known, row, copy, history>>

\* ensure_finding_for_triage fails: the rest of the request is dropped.
RefuseUnknown(a) ==
    /\ todo[a] # <<>>
    /\ copy[a] = NoCopy
    /\ Head(todo[a]).finding \notin known
    /\ todo' = [todo EXCEPT ![a] = <<>>]
    /\ UNCHANGED <<known, row, copy, requests, history>>

ReadTriage(a) ==
    /\ todo[a] # <<>>
    /\ copy[a] = NoCopy
    /\ Head(todo[a]).finding \in known
    /\ copy' = [copy EXCEPT ![a] = row[Head(todo[a]).finding]]
    /\ behind' = [behind EXCEPT ![a] = {}]
    /\ UNCHANGED <<known, row, todo, requests, wanted, contested>>

\* What a write puts into its column.
ColumnOf(w) == IF w.field = "state" THEN Normalized(w.value) ELSE w.value

\* Mutant of Stored: a column not named is cleared.
StoredAlone(w, read) ==
    [x \in Fields |-> IF x = w.field THEN ColumnOf(w) ELSE Untriaged[x]]

\* The row a write stores: its own column, and the others as they were read.
Stored(w, read) == [read EXCEPT ![w.field] = ColumnOf(w)]

StoresOver(w, a, b) == b # a /\ todo[b] # <<>> /\ Head(todo[b]).finding = w.finding

UpsertTriage(a) ==
    LET w == Head(todo[a])
        new == Stored(w, copy[a])
    IN  /\ todo[a] # <<>>
        /\ copy[a] # NoCopy
        /\ row' = [row EXCEPT ![w.finding] = new]
        /\ todo' = [todo EXCEPT ![a] = Tail(@)]
        /\ copy' = [copy EXCEPT ![a] = NoCopy]
        /\ wanted' = [wanted EXCEPT ![w.finding] = [@ EXCEPT ![w.field] = new[w.field]]]
        /\ contested' = [contested EXCEPT ![w.finding] = (@ \cup behind[a]) \ {w.field}]
        /\ behind' = [b \in Actors |->
                        IF StoresOver(w, a, b) THEN behind[b] \cup behind[a] \cup {w.field}
                        ELSE behind[b]]
        /\ UNCHANGED <<known, requests>>

\* The process ends, or a statement fails, between two statements.
Abandon(a) ==
    /\ todo[a] # <<>>
    /\ todo' = [todo EXCEPT ![a] = <<>>]
    /\ copy' = [copy EXCEPT ![a] = NoCopy]
    /\ UNCHANGED <<known, row, requests, history>>

Next ==
    \/ \E f \in Findings : RegisterFinding(f)
    \/ \E a \in Actors, f \in Findings : Request(a, f)
    \/ \E a \in Actors : RefuseUnknown(a) \/ ReadTriage(a) \/ UpsertTriage(a) \/ Abandon(a)

TriageSpec == Init /\ [][Next]_vars

-----------------------------------------------------------------------------
TriageTypeOK ==
    /\ known \subseteq Findings
    /\ row \in [Findings -> Row]
    /\ todo \in [Actors -> Seq(Writes)]
    /\ copy \in [Actors -> Row \cup {NoCopy}]
    /\ requests \in 0 .. MaxRequests
    /\ behind \in [Actors -> SUBSET Fields]
    /\ wanted \in [Findings -> Row]
    /\ contested \in [Findings -> SUBSET Fields]

(***************************************************************************)
(* A column holds what was last asked of it, unless a write to another     *)
(* column, that read the row before and stored it after, has put an older  *)
(* value back.  Nothing else loses a value: no write forgets a column it   *)
(* does not name, a request that stops half way keeps what it has written, *)
(* and a later write to the column settles it again.                       *)
(***************************************************************************)
UncontestedFieldsHold ==
    \A f \in Findings : \A x \in Fields \ contested[f] : row[f][x] = wanted[f][x]
============================================================================
