------------------------- MODULE ApiServerProofs -------------------------
(***************************************************************************)
(* What holds of FindingTriage and of ApiServer, which extends it, for     *)
(* every set of processes, organizations, workspaces, people and findings. *)
(*                                                                         *)
(* The invariant about the rows of the triage is not inductive: a write    *)
(* stores a copy, so one has to know which columns of a copy still tell    *)
(* what the row says (CopiesTellRows).                                     *)
(*                                                                         *)
(* That a start is refused for cause rests on what the default row was     *)
(* since the first start (BootedFirst); that memberships go astray for     *)
(* cause on what clients were told (ToldIsStored).  That the audit trail   *)
(* tells the tables needs what it will tell when the handler at work has   *)
(* recorded its event (AuditInv).                                          *)
(***************************************************************************)
EXTENDS ApiServer, SequenceTheorems, WellFoundedInduction, TLAPS

(***************************************************************************)
(* Finding triage                                                          *)
(***************************************************************************)
\* A copy tells what the row says in every column no one has changed since.
CopiesTellRows ==
    \A a \in Actors : copy[a] # NoCopy =>
        /\ todo[a] # <<>>
        /\ \A x \in Fields \ behind[a] : copy[a][x] = row[Head(todo[a]).finding][x]

TriageInv == TriageTypeOK /\ CopiesTellRows /\ UncontestedFieldsHold

-----------------------------------------------------------------------------
\* A request is a sequence of well-formed writes.
LEMMA RequestsAreWrites ==
    ASSUME NEW a \in Actors, NEW f \in Findings, NEW ws \in Requests(a, f)
    PROVE  ws \in Seq(Writes)
<1>0. ASSUME NEW w \in Writes PROVE <<w>> \in Seq(Writes)
  OBVIOUS
<1>1. ASSUME NEW w \in Single(a, f) PROVE w \in Writes
  <2>1. CASE \E v \in {"ack", "resolve", "accept"} : w = Write(v, f, "state", StateWord(a, v))
    BY <2>1 DEF Write, StateWord, Writes, Verbs, Words, OperationalStates
  <2>2. CASE \E o \in Owners : w = Write("assign", f, "owner", o)
    BY <2>2 DEF Write, Writes, Verbs
  <2>3. CASE \E n \in Notes : w = Write("note", f, "note", n)
    BY <2>3 DEF Write, Writes, Verbs
  <2>4. QED BY <1>1, <2>1, <2>2, <2>3 DEF Single
<1>2. ASSUME NEW q \in Optionally(f, "state", OperationalStates) PROVE q \in Seq(Writes)
  <2>1. \A v \in OperationalStates : Write("patch", f, "state", v) \in Writes
    BY DEF Write, Writes, Verbs, Words
  <2>2. CASE q = <<>>
    BY <2>2
  <2>3. CASE q # <<>>
    BY <1>0, <2>1, <2>3 DEF Optionally
  <2>4. QED BY <2>2, <2>3
<1>3. ASSUME NEW q \in Optionally(f, "owner", Owners) PROVE q \in Seq(Writes)
  <2>1. \A v \in Owners : Write("patch", f, "owner", v) \in Writes
    BY DEF Write, Writes, Verbs
  <2>2. CASE q = <<>>
    BY <2>2
  <2>3. CASE q # <<>>
    BY <1>0, <2>1, <2>3 DEF Optionally
  <2>4. QED BY <2>2, <2>3
<1>4. ASSUME NEW q \in Optionally(f, "note", Notes) PROVE q \in Seq(Writes)
  <2>1. \A v \in Notes : Write("patch", f, "note", v) \in Writes
    BY DEF Write, Writes, Verbs
  <2>2. CASE q = <<>>
    BY <2>2
  <2>3. CASE q # <<>>
    BY <1>0, <2>1, <2>3 DEF Optionally
  <2>4. QED BY <2>2, <2>3
<1>5. CASE ws \in {<<w>> : w \in Single(a, f)}
  BY <1>0, <1>1, <1>5
<1>6. CASE ws \in Patches(f)
  <2>1. PICK s \in Optionally(f, "state", OperationalStates),
             o \in Optionally(f, "owner", Owners),
             n \in Optionally(f, "note", Notes) : ws = s \o o \o n
    BY <1>6 DEF Patches
  <2>2. s \in Seq(Writes) /\ o \in Seq(Writes) /\ n \in Seq(Writes)
    BY <1>2, <1>3, <1>4
  <2>3. s \o o \in Seq(Writes)
    BY <2>2, ConcatProperties
  <2>4. QED BY <2>1, <2>2, <2>3, ConcatProperties
<1>7. QED BY <1>5, <1>6 DEF Requests

\* A write stores a row that differs from the copy in its own column only.
LEMMA StoredIsRow ==
    ASSUME NEW w \in Writes, NEW read \in Row
    PROVE  /\ Stored(w, read) \in Row
           /\ w.field \in Fields
           /\ w.finding \in Findings
           /\ \A x \in Fields \ {w.field} : Stored(w, read)[x] = read[x]
<1>1. w.field \in Fields /\ w.finding \in Findings
  BY DEF Writes, Fields
<1>2. w.field = "state" => ColumnOf(w) \in OperationalStates
  BY DEF ColumnOf, Writes, Normalized, Words, OperationalStates
<1>3. ColumnOf(w) \in FieldValues
  BY <1>2 DEF ColumnOf, Writes, FieldValues
<1>4. read \in [Fields -> FieldValues] /\ read["state"] \in OperationalStates
  BY DEF Row
<1>5. Stored(w, read) \in [Fields -> FieldValues]
  BY <1>1, <1>3, <1>4 DEF Stored
<1>6. Stored(w, read)["state"] \in OperationalStates
  BY <1>1, <1>2, <1>4 DEF Stored, Fields
<1>7. \A x \in Fields \ {w.field} : Stored(w, read)[x] = read[x]
  BY <1>1, <1>4 DEF Stored
<1>8. QED BY <1>1, <1>5, <1>6, <1>7 DEF Row

LEMMA InitTriageInv == Init => TriageInv
<1> SUFFICES ASSUME Init PROVE TriageInv
  OBVIOUS
<1>1. Untriaged \in Row
  BY DEF Untriaged, Row, FieldValues, Fields, OperationalStates
<1>2. TriageTypeOK
  BY <1>1, TriageAssumption DEF Init, TriageTypeOK
<1>3. CopiesTellRows
  BY DEF Init, CopiesTellRows
<1>4. UncontestedFieldsHold
  BY DEF Init, UncontestedFieldsHold
<1>5. QED BY <1>2, <1>3, <1>4 DEF TriageInv

\* The step that stores a copy: each part of the invariant after it.
LEMMA UpsertKeepsTriageInv ==
    ASSUME TriageInv, NEW a \in Actors, UpsertTriage(a)
    PROVE  TriageInv'
<1> DEFINE w   == Head(todo[a])
           new == Stored(w, copy[a])
<1> USE DEF TriageInv
<1>1. w \in Writes /\ copy[a] \in Row /\ Tail(todo[a]) \in Seq(Writes)
  BY DEF TriageTypeOK, UpsertTriage
<1>2. /\ new \in Row /\ w.field \in Fields /\ w.finding \in Findings
      /\ \A x \in Fields \ {w.field} : new[x] = copy[a][x]
  BY <1>1, StoredIsRow
<1>3. row' = [row EXCEPT ![w.finding] = new] /\ row \in [Findings -> Row]
  BY DEF UpsertTriage, TriageTypeOK
<1>4. wanted' = [wanted EXCEPT ![w.finding] = [@ EXCEPT ![w.field] = new[w.field]]]
  BY DEF UpsertTriage
<1>5. contested' = [contested EXCEPT ![w.finding] = (@ \cup behind[a]) \ {w.field}]
  BY DEF UpsertTriage
<1>6. /\ todo' = [todo EXCEPT ![a] = Tail(@)]
      /\ copy' = [copy EXCEPT ![a] = NoCopy]
      /\ behind' = [b \in Actors |->
                      IF StoresOver(w, a, b) THEN behind[b] \cup behind[a] \cup {w.field}
                      ELSE behind[b]]
      /\ UNCHANGED <<known, requests>>
  BY DEF UpsertTriage
<1>7. \A x \in Fields \ behind[a] : copy[a][x] = row[w.finding][x]
  BY DEF CopiesTellRows, UpsertTriage
<1>8. TriageTypeOK'
  <2>1. [wanted[w.finding] EXCEPT ![w.field] = new[w.field]] \in Row
    <3>1. wanted[w.finding] \in Row
      BY <1>2 DEF TriageTypeOK
    <3>2. QED BY <1>2, <3>1 DEF Row, Fields
  <2>2. row' \in [Findings -> Row] /\ wanted' \in [Findings -> Row]
    BY <1>2, <1>3, <1>4, <2>1 DEF TriageTypeOK
  <2>3. behind' \in [Actors -> SUBSET Fields]
    BY <1>2, <1>6 DEF TriageTypeOK
  <2>4. contested' \in [Findings -> SUBSET Fields]
    BY <1>2, <1>5 DEF TriageTypeOK
  <2>5. QED BY <1>1, <1>6, <2>2, <2>3, <2>4 DEF TriageTypeOK
<1>9. CopiesTellRows'
  <2> SUFFICES ASSUME NEW b \in Actors, copy'[b] # NoCopy
               PROVE  /\ todo'[b] # <<>>
                      /\ \A x \in Fields \ behind'[b] :
                            copy'[b][x] = row'[Head(todo'[b]).finding][x]
    BY DEF CopiesTellRows
  <2>1. b # a /\ copy'[b] = copy[b] /\ todo'[b] = todo[b] /\ todo[b] # <<>>
    BY <1>6 DEF TriageTypeOK, CopiesTellRows
  <2>2. \A x \in Fields \ behind[b] : copy[b][x] = row[Head(todo[b]).finding][x]
    BY <2>1 DEF CopiesTellRows
  <2>3. CASE Head(todo[b]).finding = w.finding
    <3>1. behind'[b] = behind[b] \cup behind[a] \cup {w.field}
      BY <1>6, <2>1, <2>3 DEF StoresOver
    <3>2. ASSUME NEW x \in Fields \ behind'[b] PROVE copy[b][x] = new[x]
      <4>1. x \in Fields \ behind[b] /\ x \in Fields \ behind[a] /\ x # w.field
        BY <3>1, <3>2
      <4>2. QED BY <1>2, <1>7, <2>2, <2>3, <4>1
    <3>3. row'[w.finding] = new
      BY <1>2, <1>3
    <3>4. QED BY <2>1, <2>3, <3>2, <3>3
  <2>4. CASE Head(todo[b]).finding # w.finding
    <3>1. behind'[b] = behind[b]
      BY <1>6, <2>4 DEF StoresOver
    <3>2. Head(todo[b]) \in Writes
      BY <2>1 DEF TriageTypeOK
    <3>3. Head(todo[b]).finding \in Findings
      BY <3>2 DEF Writes
    <3>4. row'[Head(todo[b]).finding] = row[Head(todo[b]).finding]
      BY <1>3, <2>4, <3>3
    <3>5. QED BY <2>1, <2>2, <3>1, <3>4
  <2>5. QED BY <2>3, <2>4
<1>10. UncontestedFieldsHold'
  <2> SUFFICES ASSUME NEW f \in Findings, NEW x \in Fields \ contested'[f]
               PROVE  row'[f][x] = wanted'[f][x]
    BY DEF UncontestedFieldsHold
  <2>1. CASE f # w.finding
    <3>1. row'[f] = row[f] /\ wanted'[f] = wanted[f] /\ contested'[f] = contested[f]
      BY <1>2, <1>3, <1>4, <1>5, <2>1 DEF TriageTypeOK
    <3>2. QED BY <3>1 DEF UncontestedFieldsHold
  <2>2. CASE f = w.finding /\ x = w.field
    <3>1. row'[f] = new
      BY <1>3, <2>2
    <3>2. wanted'[f] = [wanted[f] EXCEPT ![w.field] = new[w.field]]
      BY <1>4, <2>2 DEF TriageTypeOK
    <3>3. wanted[f] \in [Fields -> FieldValues]
      BY DEF TriageTypeOK, Row
    <3>4. QED BY <1>2, <2>2, <3>1, <3>2, <3>3
  <2>3. CASE f = w.finding /\ x # w.field
    <3>1. row'[f] = new
      BY <1>3, <2>3
    <3>2. wanted'[f] = [wanted[f] EXCEPT ![w.field] = new[w.field]]
      BY <1>4, <2>3 DEF TriageTypeOK
    <3>3. wanted[f] \in [Fields -> FieldValues]
      BY DEF TriageTypeOK, Row
    <3>4. wanted'[f][x] = wanted[f][x]
      BY <1>2, <2>3, <3>2, <3>3
    <3>5. contested'[f] = (contested[f] \cup behind[a]) \ {w.field}
      BY <1>5, <2>3 DEF TriageTypeOK
    <3>6. x \notin contested[f] /\ x \notin behind[a]
      BY <2>3, <3>5
    <3>7. new[x] = row[f][x]
      BY <1>2, <1>7, <2>3, <3>6
    <3>8. row[f][x] = wanted[f][x]
      BY <3>6 DEF UncontestedFieldsHold
    <3>9. QED BY <3>1, <3>4, <3>7, <3>8
  <2>4. QED BY <2>1, <2>2, <2>3
<1>11. QED BY <1>8, <1>9, <1>10

LEMMA NextKeepsTriageInv == TriageInv /\ [Next]_vars => TriageInv'
<1> SUFFICES ASSUME TriageInv, [Next]_vars PROVE TriageInv'
  OBVIOUS
<1> USE DEF TriageInv
<1>1. CASE \E f \in Findings : RegisterFinding(f)
  BY <1>1 DEF RegisterFinding, history, TriageTypeOK, CopiesTellRows, UncontestedFieldsHold
<1>2. ASSUME NEW a \in Actors, NEW f \in Findings, Request(a, f) PROVE TriageInv'
  <2>1. PICK ws \in Requests(a, f) : todo' = [todo EXCEPT ![a] = ws]
    BY <1>2 DEF Request
  <2>2. ws \in Seq(Writes)
    BY <2>1, RequestsAreWrites
  <2>3. requests' \in 0 .. MaxRequests
    BY <1>2, TriageAssumption DEF Request, TriageTypeOK
  <2>4. TriageTypeOK'
    BY <1>2, <2>1, <2>2, <2>3 DEF Request, history, TriageTypeOK
  <2>5. copy[a] = NoCopy
    BY <1>2 DEF Request, CopiesTellRows
  <2>6. CopiesTellRows'
    BY <1>2, <2>1, <2>5 DEF Request, history, TriageTypeOK, CopiesTellRows
  <2>7. UncontestedFieldsHold'
    BY <1>2 DEF Request, history, UncontestedFieldsHold
  <2>8. QED BY <2>4, <2>6, <2>7
<1>3. ASSUME NEW a \in Actors, RefuseUnknown(a) PROVE TriageInv'
  BY <1>3 DEF RefuseUnknown, history, TriageTypeOK, CopiesTellRows, UncontestedFieldsHold
<1>4. ASSUME NEW a \in Actors, ReadTriage(a) PROVE TriageInv'
  <2>1. Head(todo[a]) \in Writes
    BY <1>4 DEF ReadTriage, TriageTypeOK
  <2>2. Head(todo[a]).finding \in Findings
    BY <2>1 DEF Writes
  <2>3. TriageTypeOK'
    BY <1>4, <2>2 DEF ReadTriage, TriageTypeOK
  <2>4. CopiesTellRows'
    BY <1>4, <2>2 DEF ReadTriage, TriageTypeOK, CopiesTellRows
  <2>5. UncontestedFieldsHold'
    BY <1>4 DEF ReadTriage, UncontestedFieldsHold
  <2>6. QED BY <2>3, <2>4, <2>5
<1>5. ASSUME NEW a \in Actors, UpsertTriage(a) PROVE TriageInv'
  BY <1>5, UpsertKeepsTriageInv
<1>6. ASSUME NEW a \in Actors, Abandon(a) PROVE TriageInv'
  BY <1>6 DEF Abandon, history, TriageTypeOK, CopiesTellRows, UncontestedFieldsHold
<1>7. CASE UNCHANGED vars
  BY <1>7 DEF vars, history, TriageTypeOK, CopiesTellRows, UncontestedFieldsHold
<1>8. QED BY <1>1, <1>2, <1>3, <1>4, <1>5, <1>6, <1>7 DEF Next

-----------------------------------------------------------------------------
\* Every state keeps the columns of the table finding_state well-typed: an
\* operational state is one of the four canonical ones, however it was asked for.
THEOREM TriageTypeCorrect == TriageSpec => []TriageTypeOK
<1>1. TriageInv => TriageTypeOK
  BY DEF TriageInv
<1>2. QED BY <1>1, InitTriageInv, NextKeepsTriageInv, PTL DEF TriageSpec

\* A column loses what was last asked of it only to a write to another column
\* that read the row before and stored it after (set_finding_operational_state,
\* assign_finding_owner, set_finding_note).
THEOREM TriageHolds == TriageSpec => []UncontestedFieldsHold
<1>1. TriageInv => UncontestedFieldsHold
  BY DEF TriageInv
<1>2. QED BY <1>1, InitTriageInv, NextKeepsTriageInv, PTL DEF TriageSpec

(***************************************************************************)
(* The server                                                              *)
(***************************************************************************)
USE DEF Event, vars, history, tables, server, chronicle, serverVars

Stages == {"down", "organization", "refused", "workspace", "up", "working"}

TablesOK == TenancyTypeOK /\ boot \in [Actors -> Stages] /\ told \in [UserIds -> Subjects \cup {NoRow}]

\* Until someone renames it, the default organization has its slug since before
\* anybody could give it to another.
BootedFirst ==
    ~renamed =>
        \/ organizations[Default] = Default
        \/ /\ \A o \in OrganizationIds : organizations[o] = NoRow
           /\ boot[Api] \in {"down", "organization", "refused"}

\* Of every user a client was told of, there is one with that subject.
ToldIsStored == \A u \in UserIds : told[u] # NoRow => UsersOf(told[u]) # {}

\* A membership names a user a client was told of, and a workspace that was in
\* its organization then.
MadeOfToldOnes ==
    \A m \in MembershipIds : memberships[m] # NoRow =>
        LET x == memberships[m]
        IN  /\ told[x.user] # NoRow
            /\ workspaces[x.workspace] # x.organization => x.workspace \in moved

ServerInv ==
    /\ TablesOK
    /\ SlugsAreUnique
    /\ BootedFirst
    /\ StartsFailForCause
    /\ ToldIsStored
    /\ MadeOfToldOnes

-----------------------------------------------------------------------------
LEMMA ApiIsActor == Api \in Actors
  BY DEF Actors

\* Every step that concerns the rows of the triage is one of its steps.
LEMMA ServerStepIsTriageStep == [ServerNext]_serverVars => [Next]_vars
  <1> SUFFICES ASSUME ServerNext PROVE [Next]_vars
    OBVIOUS
  <1>0. Api \in Actors /\ Commands \subseteq Actors
    BY DEF Actors
  <1>1. ASSUME NEW a \in Actors, StartStep(a) PROVE UNCHANGED vars
    BY <1>1 DEF StartStep, BeginStart, BootOrganization, BootRefused, BootWorkspace
  <1>2. ASSUME NEW a \in Actors, WorkOn(a) PROVE Next
    BY <1>2 DEF WorkOn, Next
  <1>3. ASSUME NEW a \in Actors, DropRequest(a) PROVE [Next]_vars
    BY <1>3 DEF DropRequest, Next
  <1>4. ASSUME NEW a \in Actors, Leave(a) PROVE [Next]_vars
    BY <1>3, <1>4 DEF Leave
  <1>5. ASSUME NEW f \in Findings, ServerRegistersFinding(f) PROVE Next
    BY <1>5 DEF ServerRegistersFinding, Next
  <1>6. ASSUME NEW f \in Findings, ApiRequest(f) PROVE Next
    BY <1>0, <1>6 DEF ApiRequest, Next
  <1>7. ASSUME NEW f \in Findings, EmptyPatch(f) PROVE UNCHANGED vars
    BY <1>7 DEF EmptyPatch, Handle
  <1>8. ASSUME NEW c \in Commands, NEW f \in Findings, CommandRequest(c, f) PROVE Next
    BY <1>0, <1>8 DEF CommandRequest, Next
  <1>9. ASSUME Create PROVE UNCHANGED vars
    BY <1>9 DEF Create, CreateOrganization, CreateWorkspace, CreateUser, CreateMembership,
                RefuseCreation, Handle
  <1>10. ASSUME RecordAudit PROVE UNCHANGED vars
    BY <1>10 DEF RecordAudit
  <1>11. ASSUME HandlerFails PROVE [Next]_vars
    BY <1>0, <1>3, <1>11 DEF HandlerFails
  <1> QED
    BY <1>1, <1>2, <1>4, <1>5, <1>6, <1>7, <1>8, <1>9, <1>10, <1>11 DEF ServerNext

\* The Mutex, the starts, the failures and the events leave the triage as it is.
THEOREM ServerImplementsTriage == ServerSpec => ImplementsTriage
  <1>1. ServerInit => Init BY DEF ServerInit
  <1> QED BY <1>1, ServerStepIsTriageStep, PTL DEF ServerSpec, ImplementsTriage, TriageSpec

\* A write of another column is all that puts an older value back, in the server too.
THEOREM ServerTriageHolds == ServerSpec => []UncontestedFieldsHold
  BY ServerImplementsTriage, TriageHolds, PTL DEF ImplementsTriage

-----------------------------------------------------------------------------
(***************************************************************************)
(* The statements of the tables, and who executes them.                    *)
(***************************************************************************)
\* The step makes no statement, and lets nobody up.
Quiet ==
    /\ UNCHANGED <<tables, told, renamed, moved>>
    /\ boot' \in [Actors -> Stages]
    /\ \A a \in Actors : boot'[a] = "refused" => boot[a] = "refused"
    /\ boot'[Api] = boot[Api] \/ boot'[Api] \in {"down", "organization", "refused"}

LEMMA ServerSteps ==
    ASSUME TablesOK, ServerNext
    PROVE  \/ Quiet
           \/ \E a \in Actors : BootOrganization(a) \/ BootRefused(a) \/ BootWorkspace(a)
           \/ \E o \in OrganizationIds, s \in Slugs : CreateOrganization(o, s)
           \/ \E w \in WorkspaceIds, o \in OrganizationIds : CreateWorkspace(w, o)
           \/ \E u \in UserIds, subject \in Subjects : CreateUser(u, subject)
           \/ \E m \in MembershipIds, new \in Membership : CreateMembership(m, new)
  <1>0. Api \in Actors /\ Commands \subseteq Actors /\ boot \in [Actors -> Stages]
    BY DEF Actors, TablesOK
  <1>1. ASSUME NEW a \in Actors, BeginStart(a) PROVE Quiet
    BY <1>0, <1>1 DEF BeginStart, Enter, Quiet, Stages
  <1>2. ASSUME NEW a \in Actors, WorkOn(a) PROVE Quiet
    BY <1>0, <1>2 DEF WorkOn, Quiet
  <1>3. ASSUME NEW a \in Actors, Leave(a) PROVE Quiet
    BY <1>0, <1>3 DEF Leave, Enter, Quiet, Stages
  <1>4. ASSUME NEW f \in Findings, ServerRegistersFinding(f) \/ ApiRequest(f) \/ EmptyPatch(f) PROVE Quiet
    BY <1>0, <1>4 DEF ServerRegistersFinding, ApiRequest, EmptyPatch, Handle, Quiet
  <1>5. ASSUME NEW c \in Commands, NEW f \in Findings, CommandRequest(c, f) PROVE Quiet
    BY <1>0, <1>5, ServerAssumption DEF CommandRequest, Enter, Quiet, Stages
  <1>6. ASSUME RefuseCreation \/ RecordAudit \/ HandlerFails PROVE Quiet
    BY <1>0, <1>6 DEF RefuseCreation, RecordAudit, HandlerFails, Handle, Quiet
  <1> QED
    BY <1>1, <1>2, <1>3, <1>4, <1>5, <1>6 DEF ServerNext, StartStep, Create

-----------------------------------------------------------------------------
LEMMA ServerInvInit == ServerInit => ServerInv
  <1> SUFFICES ASSUME ServerInit PROVE ServerInv
    OBVIOUS
  <1>1. TablesOK
    BY DEF ServerInit, TenancyInit, TenancyTypeOK, TablesOK, Stages
  <1>2. SlugsAreUnique /\ BootedFirst /\ StartsFailForCause
    BY ApiIsActor DEF ServerInit, TenancyInit, SlugsAreUnique, BootedFirst, StartsFailForCause
  <1>3. ToldIsStored /\ MadeOfToldOnes
    BY DEF ServerInit, TenancyInit, ToldIsStored, MadeOfToldOnes
  <1> QED BY <1>1, <1>2, <1>3 DEF ServerInv

\* A statement about an organization keeps its slug unique, and the default one
\* its own unless it is about it.
LEMMA UpsertKeepsSlugs ==
    ASSUME TablesOK, SlugsAreUnique, NEW o \in OrganizationIds, NEW s \in Slugs, UpsertOrganization(o, s)
    PROVE  /\ organizations' \in [OrganizationIds -> Slugs \cup {NoRow}]
           /\ SlugsAreUnique'
           /\ organizations'[o] = s
           /\ \A p \in OrganizationIds \ {o} : organizations'[p] = organizations[p]
  BY DEF TablesOK, TenancyTypeOK, SlugsAreUnique, UpsertOrganization, SlugTaken

\* What the default organization has, nobody else has.
LEMMA DefaultNotTaken ==
    ASSUME SlugsAreUnique, BootedFirst, ~renamed, SlugTaken(Default, Default)
    PROVE  FALSE
  <1>1. Default \in OrganizationIds /\ Default # NoRow
    BY TenancyAssumption
  <1> QED BY <1>1 DEF SlugsAreUnique, BootedFirst, SlugTaken

LEMMA QuietKeepsServerInv == ASSUME ServerInv, Quiet PROVE ServerInv'
  <1>1. TablesOK' /\ SlugsAreUnique'
    BY DEF ServerInv, Quiet, TablesOK, TenancyTypeOK, SlugsAreUnique
  <1>2. BootedFirst' /\ StartsFailForCause'
    BY DEF ServerInv, Quiet, BootedFirst, StartsFailForCause
  <1>3. ToldIsStored'
    BY DEF ServerInv, Quiet, ToldIsStored, UsersOf
  <1>4. MadeOfToldOnes'
    BY DEF ServerInv, Quiet, MadeOfToldOnes
  <1> QED BY <1>1, <1>2, <1>3, <1>4 DEF ServerInv

\* Whoever moves a workspace away from a membership is remembered.
LEMMA MovesAreRemembered ==
    ASSUME TablesOK, MadeOfToldOnes, NEW w \in WorkspaceIds, NEW o \in OrganizationIds,
           UpsertWorkspace(w, o), moved' = moved \cup Moved(w, o), UNCHANGED told
    PROVE  MadeOfToldOnes'
  <1> SUFFICES ASSUME NEW m \in MembershipIds, memberships[m] # NoRow
               PROVE  LET x == memberships[m]
                      IN  /\ told[x.user] # NoRow
                          /\ workspaces'[x.workspace] # x.organization => x.workspace \in moved'
    BY DEF MadeOfToldOnes, UpsertWorkspace
  <1>1. memberships[m] \in Membership
    BY DEF TablesOK, TenancyTypeOK
  <1>2. PICK v \in WorkspaceIds, p \in OrganizationIds, u \in UserIds :
            memberships[m].workspace = v /\ memberships[m].organization = p /\ memberships[m].user = u
    BY <1>1 DEF Membership
  <1>3. told[u] # NoRow /\ (workspaces[v] # p => v \in moved)
    BY <1>2 DEF MadeOfToldOnes
  <1>4. p # NoRow
    BY TenancyAssumption
  <1>5. workspaces'[v] # p => v \in moved'
    <2>1. CASE v = w
      BY <1>3, <1>4, <2>1 DEF UpsertWorkspace, Moved, TablesOK, TenancyTypeOK
    <2>2. CASE v # w
      BY <1>3, <2>2 DEF UpsertWorkspace, TablesOK, TenancyTypeOK
    <2> QED BY <2>1, <2>2
  <1> QED BY <1>2, <1>3, <1>5

LEMMA BootKeepsServerInv ==
    ASSUME ServerInv, NEW a \in Actors, BootOrganization(a) \/ BootRefused(a) \/ BootWorkspace(a)
    PROVE  ServerInv'
  <1>0. /\ Default \in OrganizationIds /\ Default \in WorkspaceIds /\ Default \in Slugs
        /\ TablesOK /\ SlugsAreUnique /\ Api \in Actors
    BY TenancyAssumption, ApiIsActor DEF ServerInv
  <1>1. boot' \in [Actors -> Stages]
    BY <1>0 DEF BootOrganization, BootRefused, BootWorkspace, Enter, TablesOK, Stages
  <1>2. CASE BootOrganization(a)
    <2>1. UpsertOrganization(Default, Default)
      BY <1>2 DEF BootOrganization
    <2>2. TablesOK' /\ SlugsAreUnique' /\ organizations'[Default] = Default
      BY <1>0, <1>1, <1>2, <2>1, UpsertKeepsSlugs DEF TablesOK, TenancyTypeOK, UpsertOrganization, BootOrganization
    <2>3. BootedFirst'
      BY <2>2 DEF BootedFirst
    <2>4. StartsFailForCause'
      BY <1>0, <1>2 DEF ServerInv, StartsFailForCause, BootOrganization, Enter, TablesOK
    <2>5. ToldIsStored' /\ MadeOfToldOnes'
      BY <1>2, <2>1 DEF ServerInv, ToldIsStored, MadeOfToldOnes, UsersOf, BootOrganization, UpsertOrganization
    <2> QED BY <2>2, <2>3, <2>4, <2>5 DEF ServerInv
  <1>3. CASE BootRefused(a)
    <2>1. renamed
      BY <1>3, DefaultNotTaken DEF BootRefused, ServerInv
    <2>2. TablesOK' /\ SlugsAreUnique'
      BY <1>0, <1>1, <1>3 DEF TablesOK, TenancyTypeOK, SlugsAreUnique, BootRefused
    <2>3. BootedFirst' /\ StartsFailForCause'
      BY <1>3, <2>1 DEF BootedFirst, StartsFailForCause, BootRefused
    <2>4. ToldIsStored' /\ MadeOfToldOnes'
      BY <1>3 DEF ServerInv, ToldIsStored, MadeOfToldOnes, UsersOf, BootRefused
    <2> QED BY <2>2, <2>3, <2>4 DEF ServerInv
  <1>4. CASE BootWorkspace(a)
    <2>1. UpsertWorkspace(Default, Default)
      BY <1>4 DEF BootWorkspace
    <2>2. TablesOK' /\ SlugsAreUnique'
      BY <1>0, <1>1, <1>4, <2>1 DEF TablesOK, TenancyTypeOK, SlugsAreUnique, BootWorkspace, UpsertWorkspace
    <2>3. StartsFailForCause'
      BY <1>0, <1>4 DEF ServerInv, StartsFailForCause, BootWorkspace, Enter, TablesOK
    <2>4. BootedFirst'
      BY <1>0, <1>4, <2>1 DEF ServerInv, BootedFirst, BootWorkspace, UpsertWorkspace, Enter, TablesOK
    <2>5. ToldIsStored'
      BY <1>4, <2>1 DEF ServerInv, ToldIsStored, UsersOf, BootWorkspace, UpsertWorkspace
    <2>6. MadeOfToldOnes'
      <3>1. moved' = moved \cup Moved(Default, Default)
        BY <1>4 DEF BootWorkspace
      <3> QED BY <1>0, <1>4, <2>1, <3>1, MovesAreRemembered DEF ServerInv, BootWorkspace
    <2> QED BY <2>2, <2>3, <2>4, <2>5, <2>6 DEF ServerInv
  <1> QED BY <1>2, <1>3, <1>4

LEMMA OrganizationKeepsServerInv ==
    ASSUME ServerInv, NEW o \in OrganizationIds, NEW s \in Slugs, CreateOrganization(o, s)
    PROVE  ServerInv'
  <1>0. TablesOK /\ SlugsAreUnique /\ Default \in OrganizationIds
    BY TenancyAssumption DEF ServerInv
  <1>1. /\ UpsertOrganization(o, s) /\ boot[Api] = "up" /\ boot' = boot
        /\ renamed' = (renamed \/ (o = Default /\ s # Default)) /\ UNCHANGED <<told, moved>>
    BY DEF CreateOrganization, Handle, ApiFree
  <1>2. TablesOK' /\ SlugsAreUnique'
    BY <1>0, <1>1, UpsertKeepsSlugs DEF TablesOK, TenancyTypeOK, UpsertOrganization
  <1>3. BootedFirst'
    <2> SUFFICES ASSUME ~renamed' PROVE organizations'[Default] = Default
      BY DEF BootedFirst
    <2>1. organizations[Default] = Default
      BY <1>1 DEF ServerInv, BootedFirst
    <2> QED BY <1>0, <1>1, <2>1, UpsertKeepsSlugs
  <1>4. StartsFailForCause'
    BY <1>1 DEF ServerInv, StartsFailForCause
  <1>5. ToldIsStored' /\ MadeOfToldOnes'
    BY <1>1 DEF ServerInv, ToldIsStored, MadeOfToldOnes, UsersOf, UpsertOrganization
  <1> QED BY <1>2, <1>3, <1>4, <1>5 DEF ServerInv

LEMMA WorkspaceKeepsServerInv ==
    ASSUME ServerInv, NEW w \in WorkspaceIds, NEW o \in OrganizationIds, CreateWorkspace(w, o)
    PROVE  ServerInv'
  <1>1. /\ UpsertWorkspace(w, o) /\ moved' = moved \cup Moved(w, o)
        /\ UNCHANGED <<boot, told, renamed>>
    BY DEF CreateWorkspace, Handle
  <1>2. TablesOK' /\ SlugsAreUnique'
    BY <1>1 DEF ServerInv, TablesOK, TenancyTypeOK, SlugsAreUnique, UpsertWorkspace
  <1>3. BootedFirst' /\ StartsFailForCause'
    BY <1>1 DEF ServerInv, BootedFirst, StartsFailForCause, UpsertWorkspace
  <1>4. ToldIsStored'
    BY <1>1 DEF ServerInv, ToldIsStored, UsersOf, UpsertWorkspace
  <1>5. MadeOfToldOnes'
    BY <1>1, MovesAreRemembered DEF ServerInv
  <1> QED BY <1>2, <1>3, <1>4, <1>5 DEF ServerInv

LEMMA UserKeepsServerInv ==
    ASSUME ServerInv, NEW u \in UserIds, NEW subject \in Subjects, CreateUser(u, subject)
    PROVE  ServerInv'
  <1>0. NoRow \notin Subjects /\ TablesOK
    BY TenancyAssumption DEF ServerInv
  <1>1. /\ UpsertUser(u, subject) /\ told' = [told EXCEPT ![u] = subject]
        /\ UNCHANGED <<boot, renamed, moved>>
    BY DEF CreateUser, Handle
  <1>2. TablesOK' /\ SlugsAreUnique'
    BY <1>0, <1>1 DEF ServerInv, TablesOK, TenancyTypeOK, SlugsAreUnique, UpsertUser
  <1>3. BootedFirst' /\ StartsFailForCause'
    BY <1>1 DEF ServerInv, BootedFirst, StartsFailForCause, UpsertUser
  <1>4. ToldIsStored'
    <2>1. UsersOf(subject)' # {}
      BY <1>0, <1>1 DEF UpsertUser, UsersOf, TablesOK, TenancyTypeOK
    <2>2. ASSUME NEW v \in UserIds, told[v] # NoRow PROVE \E w \in UserIds : users'[w] = told[v]
      <3>1. PICK w \in UserIds : users[w] = told[v]
        BY <2>2 DEF ServerInv, ToldIsStored, UsersOf
      <3> QED BY <1>0, <1>1, <2>2, <3>1 DEF UpsertUser, TablesOK, TenancyTypeOK
    <2> QED BY <1>0, <1>1, <2>1, <2>2 DEF ToldIsStored, UsersOf, TablesOK
  <1>5. MadeOfToldOnes'
    <2> SUFFICES ASSUME NEW m \in MembershipIds, memberships[m] # NoRow
                 PROVE  LET x == memberships[m]
                        IN  /\ told'[x.user] # NoRow
                            /\ workspaces[x.workspace] # x.organization => x.workspace \in moved
      BY <1>1 DEF MadeOfToldOnes, UpsertUser
    <2>1. memberships[m].user \in UserIds
      BY <1>0 DEF TablesOK, TenancyTypeOK, Membership
    <2> QED BY <1>0, <1>1, <2>1 DEF ServerInv, MadeOfToldOnes, TablesOK
  <1> QED BY <1>2, <1>3, <1>4, <1>5 DEF ServerInv

LEMMA MembershipKeepsServerInv ==
    ASSUME ServerInv, NEW m \in MembershipIds, NEW new \in Membership, CreateMembership(m, new)
    PROVE  ServerInv'
  <1>0. NoRow \notin Membership /\ TablesOK
    BY TenancyAssumption DEF ServerInv
  <1>1. /\ told[new.user] # NoRow /\ workspaces[new.workspace] = new.organization
        /\ UpsertMembership(m, new) /\ UNCHANGED <<boot, told, renamed, moved>>
    BY DEF CreateMembership, Handle
  <1>2. PICK kept \in Membership :
            /\ memberships' = [memberships EXCEPT ![m] = kept]
            /\ told[kept.user] # NoRow
            /\ workspaces[kept.workspace] # kept.organization => kept.workspace \in moved
    <2>1. CASE memberships[m] = NoRow
      BY <1>1, <2>1 DEF UpsertMembership
    <2>2. CASE memberships[m] # NoRow
      <3> DEFINE old == memberships[m]
                 kept == [old EXCEPT !.role = new.role]
      <3>1. old \in Membership /\ kept \in Membership
        BY <1>0, <2>2 DEF TablesOK, TenancyTypeOK, Membership
      <3>2. kept.user = old.user /\ kept.workspace = old.workspace /\ kept.organization = old.organization
        BY <3>1 DEF Membership
      <3>3. told[old.user] # NoRow /\ (workspaces[old.workspace] # old.organization => old.workspace \in moved)
        BY <2>2 DEF ServerInv, MadeOfToldOnes
      <3>4. memberships' = [memberships EXCEPT ![m] = kept]
        BY <1>1, <2>2 DEF UpsertMembership
      <3> HIDE DEF old, kept
      <3> QED BY <3>1, <3>2, <3>3, <3>4
    <2> QED BY <2>1, <2>2
  <1>3. TablesOK' /\ SlugsAreUnique'
    BY <1>0, <1>1, <1>2 DEF ServerInv, TablesOK, TenancyTypeOK, SlugsAreUnique, UpsertMembership
  <1>4. BootedFirst' /\ StartsFailForCause'
    BY <1>1 DEF ServerInv, BootedFirst, StartsFailForCause, UpsertMembership
  <1>5. ToldIsStored'
    BY <1>1 DEF ServerInv, ToldIsStored, UsersOf, UpsertMembership
  <1>6. MadeOfToldOnes'
    BY <1>0, <1>1, <1>2 DEF ServerInv, MadeOfToldOnes, UpsertMembership, TablesOK, TenancyTypeOK
  <1> QED BY <1>3, <1>4, <1>5, <1>6 DEF ServerInv

LEMMA ServerInvNext == ServerInv /\ [ServerNext]_serverVars => ServerInv'
  <1>1. ASSUME ServerInv, ServerNext PROVE ServerInv'
    <2>1. TablesOK
      BY <1>1 DEF ServerInv
    <2> QED
      BY <1>1, <2>1, ServerSteps, QuietKeepsServerInv, BootKeepsServerInv, OrganizationKeepsServerInv,
         WorkspaceKeepsServerInv, UserKeepsServerInv, MembershipKeepsServerInv
  <1>2. ASSUME ServerInv, UNCHANGED serverVars PROVE ServerInv'
    BY <1>2 DEF ServerInv, TablesOK, TenancyTypeOK, SlugsAreUnique, BootedFirst, StartsFailForCause,
                ToldIsStored, MadeOfToldOnes, UsersOf
  <1> QED BY <1>1, <1>2

\* bootstrap_default_tenancy fails only after a client has given the default
\* organization another slug; a membership made of what clients were told is
\* astray only because upsert_user kept a known subject's identifier, or because
\* upsert_workspace moved the workspace.
THEOREM FaultsAlwaysHaveCause == ServerSpec => []FaultsHaveCause
  <1>1. ServerInv => FaultsHaveCause
    BY DEF ServerInv, FaultsHaveCause, AstrayHasCause, MadeOfToldOnes, ToldIsStored, TablesOK, TenancyTypeOK, Membership
  <1> QED BY <1>1, ServerInvInit, ServerInvNext, PTL DEF ServerSpec

\* While the API is down and another organization has the slug "default", no
\* process gets past bootstrap_default_tenancy, and no other statement of the
\* tables is executed but by the API.
THEOREM LockedOutStays == ServerSpec => LockedOutForGood
  <1>1. ASSUME ServerInv, ServerNext, LockedOut PROVE LockedOut'
    <2>1. TablesOK /\ SlugTaken(Default, Default) /\ boot[Api] \in {"down", "organization", "refused"} /\ Api \in Actors
      BY <1>1, ApiIsActor DEF ServerInv, LockedOut
    <2>2. CASE Quiet
      BY <2>1, <2>2 DEF Quiet, LockedOut, SlugTaken
    <2>3. ASSUME NEW a \in Actors, BootRefused(a) PROVE LockedOut'
      BY <2>1, <2>3 DEF BootRefused, LockedOut, SlugTaken, Enter, TablesOK
    <2>4. ASSUME NEW a \in Actors, BootWorkspace(a) PROVE LockedOut'
      BY <2>1, <2>4 DEF BootWorkspace, UpsertWorkspace, LockedOut, SlugTaken, Enter, TablesOK
    <2>5. ASSUME NEW a \in Actors, BootOrganization(a) PROVE LockedOut'
      BY <2>1, <2>5 DEF BootOrganization, UpsertOrganization
    <2>6. ASSUME ApiFree PROVE LockedOut'
      BY <2>1, <2>6 DEF ApiFree
    <2> QED
      BY <1>1, <2>1, <2>2, <2>3, <2>4, <2>5, <2>6, ServerSteps
         DEF CreateOrganization, CreateWorkspace, CreateUser, CreateMembership, Handle
  <1>2. LockedOut /\ UNCHANGED serverVars => LockedOut'
    BY DEF LockedOut, SlugTaken
  <1>3. ServerInv /\ [ServerNext]_serverVars => [LockedOut => LockedOut']_serverVars
    BY <1>1, <1>2
  <1> QED BY <1>3, ServerInvInit, ServerInvNext, PTL DEF ServerSpec, LockedOutForGood

-----------------------------------------------------------------------------
(***************************************************************************)
(* The audit trail.                                                        *)
(***************************************************************************)
\* What a sequence of events says, as AuditTellsRows reads the table.
EventsIn(s, kind, id) == {i \in DOMAIN s : s[i].kind = kind /\ s[i].id = id}
FirstIn(s, is) == s[CHOOSE i \in is : \A j \in is : i <= j].value
LastIn(s, is) == s[CHOOSE i \in is : \A j \in is : j <= i].value
ToldIn(s, kind, id) == IF EventsIn(s, kind, id) = {} THEN NoRow ELSE LastIn(s, EventsIn(s, kind, id))

LEMMA LeastPlace ==
    ASSUME NEW S \in SUBSET Nat, S # {}
    PROVE  \E m \in S : \A n \in S : m <= n
  <1>1. PICK m \in S : \A n \in S : <<n, m>> \notin OpToRel(<, Nat)
    BY NatLessThanWellFounded, WFMin
  <1>2. OpToRel(<, Nat) = {ss \in Nat \X Nat : ss[1] < ss[2]}
    BY DEF OpToRel
  <1>3. ASSUME NEW n \in S
        PROVE  m <= n
    <2>1. ~(n < m)
      BY <1>1, <1>2
    <2> QED BY <2>1
  <1> QED
    BY <1>3

LEMMA GreatestPlace ==
    ASSUME NEW S \in SUBSET Nat, S # {}, NEW top \in Nat, \A n \in S : n <= top
    PROVE  \E m \in S : \A n \in S : n <= m
  <1>1. PICK below : below = {top - n : n \in S}
    OBVIOUS
  <1>2. below \in SUBSET Nat /\ below # {}
    <2>1. \A n \in S : top - n \in Nat
      OBVIOUS
    <2> QED BY <1>1, <2>1
  <1>3. PICK d \in below : \A e \in below : d <= e
    BY <1>2, LeastPlace
  <1>4. PICK m \in S : d = top - m
    BY <1>1
  <1>5. \A n \in S : top - n \in below
    BY <1>1
  <1> QED
    BY <1>3, <1>4, <1>5

\* Places in a sequence have a first and a last.
LEMMA PlacesHaveEnds ==
    ASSUME NEW s \in Seq(Events), NEW is \in SUBSET DOMAIN s, is # {}
    PROVE  /\ \E i \in is : (\A j \in is : i <= j) /\ FirstIn(s, is) = s[i].value
           /\ \E i \in is : (\A j \in is : j <= i) /\ LastIn(s, is) = s[i].value
  <1>1. Len(s) \in Nat /\ is \in SUBSET Nat /\ \A n \in is : n <= Len(s)
    OBVIOUS
  <1>2. PICK i \in is : i = CHOOSE k \in is : \A j \in is : k <= j
    <2>1. \E k \in is : \A j \in is : k <= j
      BY <1>1, LeastPlace
    <2> QED BY <2>1
  <1>3. \A j \in is : i <= j
    <2>1. \E k \in is : \A j \in is : k <= j
      BY <1>1, LeastPlace
    <2> QED BY <1>2, <2>1
  <1>4. \E k \in is : \A j \in is : j <= k
    BY <1>1, GreatestPlace
  <1>5. PICK l \in is : l = CHOOSE k \in is : \A j \in is : j <= k
    BY <1>4
  <1>6. \A j \in is : j <= l
    BY <1>4, <1>5
  <1> QED
    BY <1>2, <1>3, <1>5, <1>6 DEF FirstIn, LastIn

\* The same places of two sequences with the same values there.
LEMMA SamePlaces ==
    ASSUME NEW s \in Seq(Events), NEW t \in Seq(Events), NEW is, is \subseteq DOMAIN s, is \subseteq DOMAIN t,
           is # {}, \A i \in is : s[i].value = t[i].value
    PROVE  FirstIn(s, is) = FirstIn(t, is) /\ LastIn(s, is) = LastIn(t, is)
  <1>1. Len(s) \in Nat /\ is \in SUBSET Nat /\ \A n \in is : n <= Len(s)
    OBVIOUS
  <1>2. (CHOOSE k \in is : \A j \in is : k <= j) \in is
    BY <1>1, LeastPlace
  <1>3. (CHOOSE k \in is : \A j \in is : j <= k) \in is
    BY <1>1, GreatestPlace
  <1> QED
    BY <1>2, <1>3 DEF FirstIn, LastIn

\* One event more.
LEMMA AppendTells ==
    ASSUME NEW s \in Seq(Events), NEW e \in Events, NEW kind, NEW id
    PROVE  LET t == Append(s, e)
           IN  /\ t \in Seq(Events)
               /\ DOMAIN t = DOMAIN s \cup {Len(t)} /\ t[Len(t)] = e /\ \A i \in DOMAIN s : t[i] = s[i] /\ i < Len(t)
               /\ EventsIn(t, kind, id) =
                    EventsIn(s, kind, id) \cup {i \in {Len(t)} : e.kind = kind /\ e.id = id}
  BY DEF EventsIn

LEMMA OtherKind ==
    ASSUME NEW s \in Seq(Events), NEW e \in Events, NEW kind, NEW id, ~(e.kind = kind /\ e.id = id)
    PROVE  /\ EventsIn(Append(s, e), kind, id) = EventsIn(s, kind, id)
           /\ \A i \in EventsIn(s, kind, id) : i \in DOMAIN s /\ Append(s, e)[i] = s[i]
           /\ ToldIn(Append(s, e), kind, id) = ToldIn(s, kind, id)
           /\ EventsIn(s, kind, id) # {} =>
                FirstIn(Append(s, e), EventsIn(s, kind, id)) = FirstIn(s, EventsIn(s, kind, id))
  <1>1. PICK t \in Seq(Events) : t = Append(s, e)
    BY AppendTells
  <1>2. EventsIn(t, kind, id) = EventsIn(s, kind, id)
    <2>1. DOMAIN t = DOMAIN s \cup {Len(t)} /\ t[Len(t)] = e /\ \A i \in DOMAIN s : t[i] = s[i]
      BY <1>1, AppendTells
    <2> QED BY <2>1 DEF EventsIn
  <1>3. PICK is : is = EventsIn(s, kind, id)
    OBVIOUS
  <1>4. is \subseteq DOMAIN s /\ is \subseteq DOMAIN t /\ \A i \in is : t[i] = s[i]
    BY <1>1, <1>2, <1>3, AppendTells DEF EventsIn
  <1>5. is # {} => FirstIn(t, is) = FirstIn(s, is) /\ LastIn(t, is) = LastIn(s, is)
    BY <1>4, SamePlaces
  <1> QED
    BY <1>1, <1>2, <1>3, <1>4, <1>5 DEF ToldIn

LEMMA SameKind ==
    ASSUME NEW s \in Seq(Events), NEW e \in Events
    PROVE  /\ EventsIn(Append(s, e), e.kind, e.id) # {}
           /\ ToldIn(Append(s, e), e.kind, e.id) = e.value
           /\ FirstIn(Append(s, e), EventsIn(Append(s, e), e.kind, e.id)) =
                IF EventsIn(s, e.kind, e.id) = {} THEN e.value ELSE FirstIn(s, EventsIn(s, e.kind, e.id))
  <1>1. PICK t \in Seq(Events) : t = Append(s, e)
    BY AppendTells
  <1>2. PICK n \in Nat : n = Len(t)
    OBVIOUS
  <1>3. PICK is : is = EventsIn(s, e.kind, e.id)
    OBVIOUS
  <1>4. PICK js : js = EventsIn(t, e.kind, e.id)
    OBVIOUS
  <1>5. /\ js = is \cup {n} /\ is \subseteq DOMAIN s /\ js \subseteq DOMAIN t /\ t[n] = e
        /\ \A i \in is : i < n /\ t[i] = s[i] /\ i \in Nat
    BY <1>1, <1>2, <1>3, <1>4, AppendTells DEF EventsIn
  <1>6. PICK i \in js : (\A j \in js : i <= j) /\ FirstIn(t, js) = t[i].value
    BY <1>5, PlacesHaveEnds
  <1>7. PICK l \in js : (\A j \in js : j <= l) /\ LastIn(t, js) = t[l].value
    BY <1>5, PlacesHaveEnds
  <1>8. l = n
    BY <1>5, <1>7
  <1>9. CASE is = {}
    BY <1>1, <1>3, <1>4, <1>5, <1>6, <1>7, <1>8, <1>9 DEF ToldIn
  <1>10. CASE is # {}
    <2>1. PICK k \in is : (\A j \in is : k <= j) /\ FirstIn(s, is) = s[k].value
      BY <1>5, <1>10, PlacesHaveEnds
    <2>2. i = k
      BY <1>5, <1>6, <2>1
    <2> QED
      BY <1>1, <1>3, <1>4, <1>5, <1>6, <1>7, <1>8, <1>10, <2>1, <2>2 DEF ToldIn
  <1> QED
    BY <1>9, <1>10

-----------------------------------------------------------------------------
NamedBy(list) == {list[k].field : k \in DOMAIN list}

\* What a list of writes tells of the column x, if it names it.
TellsOf(list, x, value) == \A k \in DOMAIN list : list[k].field = x => ColumnOf(list[k]) \in {value, Nothing}

\* The events about f that name the column x, and what the last of them tells.
Naming(s, f, x) == {i \in EventsIn(s, "finding", f) : x \in NamedBy(s[i].value)}
TellsColumn(s, f, x, value) ==
    IF Naming(s, f, x) = {} THEN value = Untriaged[x] ELSE TellsOf(LastIn(s, Naming(s, f, x)), x, value)

LEMMA ColumnTold == \A f, x : ColumnIsTold(f, x) <=> TellsColumn(audit, f, x, row[f][x])
  <1> SUFFICES ASSUME NEW f, NEW x
               PROVE  ColumnIsTold(f, x) <=> TellsColumn(audit, f, x, row[f][x])
    OBVIOUS
  <1>1. Naming(audit, f, x) =
          {i \in EventsOf("finding", f) : \E k \in DOMAIN audit[i].value : audit[i].value[k].field = x}
    BY DEF Naming, EventsIn, EventsOf, NamedBy
  <1>2. \A is : LastOf(is) = LastIn(audit, is)
    BY DEF LastOf, LastIn
  <1> QED
    BY <1>1, <1>2 DEF ColumnIsTold, TellsColumn, TellsOf

\* An event that does not name the column tells nothing of it ...
LEMMA OtherColumn ==
    ASSUME NEW s \in Seq(Events), NEW e \in Events, NEW f, NEW x, NEW value,
           ~(e.kind = "finding" /\ e.id = f /\ x \in NamedBy(e.value))
    PROVE  TellsColumn(Append(s, e), f, x, value) <=> TellsColumn(s, f, x, value)
  <1>1. PICK t \in Seq(Events) : t = Append(s, e)
    BY AppendTells
  <1>2. DOMAIN t = DOMAIN s \cup {Len(t)} /\ t[Len(t)] = e /\ \A i \in DOMAIN s : t[i] = s[i]
    BY <1>1, AppendTells
  <1>3. Naming(t, f, x) = Naming(s, f, x)
    BY <1>2 DEF Naming, EventsIn
  <1>4. PICK is : is = Naming(s, f, x)
    OBVIOUS
  <1>5. is \subseteq DOMAIN s /\ is \subseteq DOMAIN t /\ \A i \in is : t[i] = s[i]
    BY <1>2, <1>4 DEF Naming, EventsIn
  <1>6. is # {} => LastIn(t, is) = LastIn(s, is)
    BY <1>5, SamePlaces
  <1> QED
    BY <1>1, <1>3, <1>4, <1>6 DEF TellsColumn

\* ... and one that does decides.
LEMMA NamedColumn ==
    ASSUME NEW s \in Seq(Events), NEW e \in Events, NEW f, NEW x, NEW value,
           e.kind = "finding", e.id = f, x \in NamedBy(e.value)
    PROVE  TellsColumn(Append(s, e), f, x, value) <=> TellsOf(e.value, x, value)
  <1>1. PICK t \in Seq(Events) : t = Append(s, e)
    BY AppendTells
  <1>2. PICK n \in Nat : n = Len(t)
    OBVIOUS
  <1>3. DOMAIN t = DOMAIN s \cup {n} /\ t[n] = e /\ \A i \in DOMAIN s : i < n
    BY <1>1, <1>2, AppendTells
  <1>4. PICK is : is = Naming(t, f, x)
    OBVIOUS
  <1>5. n \in is /\ is \subseteq DOMAIN t
    BY <1>3, <1>4 DEF Naming, EventsIn
  <1>6. PICK l \in is : (\A j \in is : j <= l) /\ LastIn(t, is) = t[l].value
    BY <1>5, PlacesHaveEnds
  <1>7. l = n
    BY <1>3, <1>5, <1>6
  <1> QED
    BY <1>1, <1>3, <1>4, <1>5, <1>6, <1>7 DEF TellsColumn

-----------------------------------------------------------------------------
\* A list of writes about f, each to a column of its own among X.
NamesOnce(s, f, X) ==
    /\ s \in Seq(Writes)
    /\ \A i \in DOMAIN s : s[i].finding = f /\ s[i].field \in X
    /\ \A i, j \in DOMAIN s : s[i].field = s[j].field => i = j

LEMMA ListsNameOnce ==
    ASSUME NEW f, NEW X, NEW Y, X \cap Y = {}, NEW s, NamesOnce(s, f, X), NEW t, NamesOnce(t, f, Y)
    PROVE  NamesOnce(s \o t, f, X \cup Y)
  <1>1. PICK n \in Nat, m \in Nat : n = Len(s) /\ m = Len(t)
    BY DEF NamesOnce
  <1>2. PICK u \in Seq(Writes) : u = s \o t
    BY ConcatProperties DEF NamesOnce
  <1>3. /\ DOMAIN s = 1 .. n /\ DOMAIN t = 1 .. m /\ DOMAIN u = 1 .. n + m
        /\ \A i \in 1 .. n : u[i] = s[i]
        /\ \A i \in n + 1 .. n + m : u[i] = t[i - n] /\ i - n \in 1 .. m
    BY <1>1, <1>2, ConcatProperties DEF NamesOnce
  <1>4. ASSUME NEW i \in DOMAIN u
        PROVE  u[i].finding = f /\ u[i].field \in X \cup Y /\ (u[i].field \in X <=> i \in 1 .. n)
    BY <1>3 DEF NamesOnce
  <1>5. ASSUME NEW i \in DOMAIN u, NEW j \in DOMAIN u, u[i].field = u[j].field
        PROVE  i = j
    <2>1. CASE i \in 1 .. n
      BY <1>3, <1>4, <1>5, <2>1 DEF NamesOnce
    <2>2. CASE i \notin 1 .. n
      <3>1. i \in n + 1 .. n + m /\ j \in n + 1 .. n + m
        BY <1>3, <1>4, <1>5, <2>2
      <3>2. /\ t[i - n].field = t[j - n].field
            /\ i - n \in 1 .. m /\ j - n \in 1 .. m /\ i \in Nat /\ j \in Nat
        BY <1>3, <1>5, <3>1
      <3>3. i - n = j - n
        BY <1>3, <3>2 DEF NamesOnce
      <3> QED BY <3>2, <3>3
    <2> QED BY <2>1, <2>2
  <1> QED
    BY <1>2, <1>4, <1>5 DEF NamesOnce

\* A request names a column once.
LEMMA RequestsNameOnce ==
    ASSUME NEW a \in Actors, NEW f \in Findings, NEW ws \in Requests(a, f)
    PROVE  NamesOnce(ws, f, Fields)
  <1>1. ASSUME NEW w \in Writes, NEW X, w.finding = f, w.field \in X
        PROVE  NamesOnce(<<w>>, f, X)
    BY <1>1 DEF NamesOnce
  <1>2. CASE ws \in {<<w>> : w \in Single(a, f)}
    <2>1. PICK w \in Single(a, f) : ws = <<w>>
      BY <1>2
    <2>2. w \in Writes
      <3>1. ws \in Seq(Writes)
        BY RequestsAreWrites
      <3> QED BY <2>1, <3>1
    <2>3. w.finding = f /\ w.field \in Fields
      BY <2>1 DEF Single, Write, Fields
    <2> QED BY <1>1, <2>1, <2>2, <2>3
  <1>3. CASE ws \in Patches(f)
    <2>1. PICK s \in Optionally(f, "state", OperationalStates),
               o \in Optionally(f, "owner", Owners),
               n \in Optionally(f, "note", Notes) : ws = s \o o \o n
      BY <1>3 DEF Patches
    <2>2. \A X : NamesOnce(<<>>, f, X)
      BY DEF NamesOnce
    <2>3. NamesOnce(s, f, {"state"})
      <3>1. \A v \in OperationalStates : Write("patch", f, "state", v) \in Writes
        BY DEF Write, Writes, Verbs, Words
      <3>2. CASE s = <<>>
        BY <2>2, <3>2
      <3>3. CASE s # <<>>
        BY <1>1, <3>1, <3>3 DEF Optionally, Write
      <3> QED BY <3>2, <3>3
    <2>4. NamesOnce(o, f, {"owner"})
      <3>1. \A v \in Owners : Write("patch", f, "owner", v) \in Writes
        BY DEF Write, Writes, Verbs
      <3>2. CASE o = <<>>
        BY <2>2, <3>2
      <3>3. CASE o # <<>>
        BY <1>1, <3>1, <3>3 DEF Optionally, Write
      <3> QED BY <3>2, <3>3
    <2>5. NamesOnce(n, f, {"note"})
      <3>1. \A v \in Notes : Write("patch", f, "note", v) \in Writes
        BY DEF Write, Writes, Verbs
      <3>2. CASE n = <<>>
        BY <2>2, <3>2
      <3>3. CASE n # <<>>
        BY <1>1, <3>1, <3>3 DEF Optionally, Write
      <3> QED BY <3>2, <3>3
    <2>6. NamesOnce(s \o o, f, {"state"} \cup {"owner"})
      BY <2>3, <2>4, ListsNameOnce
    <2>7. NamesOnce(s \o o \o n, f, ({"state"} \cup {"owner"}) \cup {"note"})
      BY <2>5, <2>6, ListsNameOnce
    <2> QED BY <2>1, <2>7 DEF NamesOnce, Fields
  <1> QED
    BY <1>2, <1>3 DEF Requests

-----------------------------------------------------------------------------
(***************************************************************************)
(* What agrees with the trail at every step of a handler.                  *)
(***************************************************************************)
\* The trail as the handler at work will leave it.
Trail == IF pending = NoEvent THEN audit ELSE Append(audit, pending)

TrailOK == audit \in Seq(Events) /\ pending \in Events \cup {NoEvent}

ToWrite == NamedBy(todo[Api])
AtWork(f) == pending # NoEvent /\ pending.kind = "finding" /\ pending.id = f

\* What the API has still to write is what its event will tell; it has written
\* something only if the finding is known; and its copy is the row, unless a
\* command has written that.
WorkIsWhole ==
    /\ todo[Api] # <<>> => pending # NoEvent /\ pending.kind = "finding"
    /\ \A f \in Findings : AtWork(f) =>
         /\ NamesOnce(todo[Api], f, Fields)
         /\ ToWrite \subseteq NamedBy(pending.value)
         /\ \A i \in DOMAIN todo[Api] : TellsOf(pending.value, todo[Api][i].field, ColumnOf(todo[Api][i]))
         /\ ~(NamedBy(pending.value) \subseteq ToWrite) => f \in known
    /\ copy[Api] # NoCopy =>
         /\ todo[Api] # <<>>
         /\ Head(todo[Api]).finding \in known
         /\ Head(todo[Api]).finding \notin outside => copy[Api] = row[Head(todo[Api]).finding]

\* A column that the handler at work has written holds what its event will tell,
\* every other what the trail does.
ColumnsAreTold ==
    ~gap =>
        \A f \in Findings \ outside : \A x \in Fields :
            IF AtWork(f) /\ x \in NamedBy(pending.value) \ ToWrite
            THEN TellsOf(pending.value, x, row[f][x])
            ELSE TellsColumn(audit, f, x, row[f][x])

\* The rows of the control plane are those that s tells.
OrganizationsTold(s) ==
    \A o \in OrganizationIds :
        organizations[o] = ToldIn(s, "organization", o) \/ (o = Default /\ organizations[o] = Default)
WorkspacesTold(s) ==
    \A w \in WorkspaceIds :
        workspaces[w] = ToldIn(s, "workspace", w) \/ (w = Default /\ workspaces[w] = Default)
UsersTold(s) ==
    /\ \A u \in UserIds : users[u] # NoRow => \E i \in EventsIn(s, "user", u) : s[i].value = users[u]
    /\ \A i \in DOMAIN s : s[i].kind = "user" => UsersOf(s[i].value) # {}
MembershipsTold(s) ==
    \A m \in MembershipIds :
        memberships[m] = IF EventsIn(s, "membership", m) = {} THEN NoRow
                         ELSE [FirstIn(s, EventsIn(s, "membership", m)) EXCEPT !.role = ToldIn(s, "membership", m).role]
TablesTold(s) == OrganizationsTold(s) /\ WorkspacesTold(s) /\ UsersTold(s) /\ MembershipsTold(s)

AuditInv == TrailOK /\ WorkIsWhole /\ ColumnsAreTold /\ (~gap => TablesTold(Trail))

\* The step is none of the API's handlers.
Aside ==
    /\ UNCHANGED <<audit, pending>> /\ (gap => gap')
    /\ todo'[Api] = todo[Api] /\ copy'[Api] = copy[Api]
    /\ known \subseteq known' /\ outside \subseteq outside'
    /\ \A f \in Findings \ outside' : row'[f] = row[f]

\* The handler at work ends before its event.
Ends ==
    /\ audit' = audit /\ pending' = NoEvent /\ gap'
    /\ todo'[Api] = <<>> /\ copy'[Api] = NoCopy

LEMMA AuditSteps ==
    ASSUME TriageInv, WorkIsWhole, ServerNext
    PROVE  \/ Aside /\ UNCHANGED tables
           \/ Aside /\ (UpsertOrganization(Default, Default) \/ UpsertWorkspace(Default, Default))
           \/ Ends
           \/ RecordAudit
           \/ \E f \in Findings : ApiRequest(f) \/ EmptyPatch(f)
           \/ WorkOn(Api)
           \/ \E o \in OrganizationIds, s \in Slugs : CreateOrganization(o, s)
           \/ \E w \in WorkspaceIds, o \in OrganizationIds : CreateWorkspace(w, o)
           \/ \E u \in UserIds, subject \in Subjects : CreateUser(u, subject)
           \/ \E m \in MembershipIds, new \in Membership : CreateMembership(m, new)
  <1>0. /\ Api \in Actors /\ Api \notin Commands /\ \A a \in Actors : a # Api => a \in Commands
        /\ todo \in [Actors -> Seq(Writes)] /\ copy \in [Actors -> Row \cup {NoCopy}]
        /\ row \in [Findings -> Row]
    BY ServerAssumption DEF Actors, TriageInv, TriageTypeOK
  <1>1. ASSUME NEW a \in Actors, BeginStart(a) \/ BootRefused(a) PROVE Aside /\ UNCHANGED tables
    BY <1>1 DEF BeginStart, BootRefused, Aside
  <1>2. ASSUME NEW a \in Actors, BootOrganization(a) \/ BootWorkspace(a)
        PROVE  Aside /\ (UpsertOrganization(Default, Default) \/ UpsertWorkspace(Default, Default))
    BY <1>2 DEF BootOrganization, BootWorkspace, Aside
  <1>3. ASSUME NEW c \in Commands, c \in Actors, WorkOn(c) PROVE Aside /\ UNCHANGED tables
    <2>1. CASE RefuseUnknown(c)
      BY <1>0, <1>3, <2>1 DEF WorkOn, RefuseUnknown, ReadTriage, UpsertTriage, AfterError, Aside
    <2>2. CASE ReadTriage(c)
      BY <1>0, <1>3, <2>2 DEF WorkOn, RefuseUnknown, ReadTriage, UpsertTriage, Aside
    <2>3. CASE UpsertTriage(c) /\ ~RefuseUnknown(c) /\ ~ReadTriage(c)
      <3>1. outside' = outside \cup {Head(todo[c]).finding} /\ UNCHANGED <<tables, audit, pending, gap>>
        BY <1>0, <1>3, <2>3 DEF WorkOn
      <3>2. /\ row' = [row EXCEPT ![Head(todo[c]).finding] = Stored(Head(todo[c]), copy[c])]
            /\ todo' = [todo EXCEPT ![c] = Tail(@)] /\ copy' = [copy EXCEPT ![c] = NoCopy] /\ known' = known
        BY <2>3 DEF UpsertTriage
      <3> QED BY <1>0, <3>1, <3>2 DEF Aside
    <2> QED BY <1>3, <2>1, <2>2, <2>3 DEF WorkOn
  <1>4. ASSUME NEW c \in Commands, c \in Actors, Leave(c) PROVE Aside /\ UNCHANGED tables
    BY <1>0, <1>4 DEF Leave, DropRequest, Abandon, Aside
  <1>5. copy[Api] # NoCopy => todo[Api] # <<>>
    BY DEF WorkIsWhole
  <1>6. ASSUME Leave(Api) PROVE Ends \/ (Aside /\ UNCHANGED tables)
    <2>1. CASE pending = NoEvent
      <3>1. todo[Api] = <<>>
        BY <2>1 DEF WorkIsWhole
      <3> QED BY <1>6, <2>1, <3>1 DEF Leave, DropRequest, Aside
    <2>2. CASE pending # NoEvent
      <3>1. audit' = audit /\ pending' = NoEvent /\ gap'
        BY <1>6, <2>2 DEF Leave
      <3>2. todo'[Api] = <<>> /\ copy'[Api] = NoCopy
        BY <1>0, <1>5, <1>6 DEF Leave, DropRequest, Abandon
      <3> QED BY <3>1, <3>2 DEF Ends
    <2> QED BY <2>1, <2>2
  <1>7. ASSUME HandlerFails PROVE Ends
    <2>1. audit' = audit /\ pending' = NoEvent /\ gap'
      BY <1>7 DEF HandlerFails
    <2>2. todo'[Api] = <<>> /\ copy'[Api] = NoCopy
      BY <1>0, <1>5, <1>7 DEF HandlerFails, DropRequest, Abandon
    <2> QED BY <2>1, <2>2 DEF Ends
  <1>8. ASSUME NEW f \in Findings, ServerRegistersFinding(f) PROVE Aside /\ UNCHANGED tables
    BY <1>8 DEF ServerRegistersFinding, RegisterFinding, Aside
  <1>9. ASSUME NEW c \in Commands, NEW f \in Findings, CommandRequest(c, f) PROVE Aside /\ UNCHANGED tables
    BY <1>0, <1>9 DEF CommandRequest, Request, Aside
  <1>10. ASSUME RefuseCreation PROVE Aside /\ UNCHANGED tables
    BY <1>10 DEF RefuseCreation, Handle, ApiFree, Aside
  <1> QED
    BY <1>0, <1>1, <1>2, <1>3, <1>4, <1>6, <1>7, <1>8, <1>9, <1>10 DEF ServerNext, StartStep, Create

LEMMA AsideKeepsTrail ==
    ASSUME TriageInv, TrailOK, WorkIsWhole, ColumnsAreTold, Aside
    PROVE  TrailOK' /\ WorkIsWhole' /\ ColumnsAreTold' /\ Trail' = Trail
  <1>1. TrailOK' /\ Trail' = Trail
    BY DEF Aside, TrailOK, Trail
  <1>2. ToWrite' = ToWrite /\ \A f : AtWork(f)' <=> AtWork(f)
    BY DEF Aside, ToWrite, NamedBy, AtWork
  <1>3. \A list, x, v : TellsOf(list, x, v)' <=> TellsOf(list, x, v)
    OBVIOUS
  <1>4. WorkIsWhole'
    <2>1. copy'[Api] # NoCopy =>
            /\ todo'[Api] # <<>> /\ Head(todo'[Api]).finding \in known'
            /\ Head(todo'[Api]).finding \notin outside' => copy'[Api] = row'[Head(todo'[Api]).finding]
      <3> SUFFICES ASSUME copy[Api] # NoCopy
                   PROVE  /\ todo[Api] # <<>> /\ Head(todo[Api]).finding \in known'
                          /\ Head(todo[Api]).finding \notin outside' => copy[Api] = row'[Head(todo[Api]).finding]
        BY DEF Aside
      <3>1. PICK f : f = Head(todo[Api]).finding
        OBVIOUS
      <3>2. todo[Api] # <<>> /\ f \in known /\ (f \notin outside => copy[Api] = row[f])
        BY <3>1 DEF WorkIsWhole
      <3>3. f \in Findings
        BY <3>2 DEF TriageInv, TriageTypeOK
      <3> QED BY <3>1, <3>2, <3>3 DEF Aside
    <2> QED BY <1>2, <2>1 DEF WorkIsWhole, Aside
  <1>5. ColumnsAreTold'
    <2> SUFFICES ASSUME ~gap', NEW f \in Findings \ outside', NEW x \in Fields
                 PROVE  IF AtWork(f) /\ x \in NamedBy(pending.value) \ ToWrite
                        THEN TellsOf(pending.value, x, row[f][x])
                        ELSE TellsColumn(audit, f, x, row[f][x])
      BY <1>2 DEF ColumnsAreTold, Aside
    <2> QED BY DEF ColumnsAreTold, Aside
  <1> QED
    BY <1>1, <1>4, <1>5

LEMMA EndsKeepsTrail ==
    ASSUME TrailOK, Ends
    PROVE  TrailOK' /\ WorkIsWhole' /\ ColumnsAreTold' /\ gap'
  BY DEF Ends, TrailOK, WorkIsWhole, AtWork, ColumnsAreTold

LEMMA RecordKeepsTrail ==
    ASSUME TriageInv, TrailOK, WorkIsWhole, ColumnsAreTold, RecordAudit
    PROVE  TrailOK' /\ WorkIsWhole' /\ ColumnsAreTold' /\ Trail' = Trail
  <1>1. /\ pending # NoEvent /\ pending \in Events /\ todo[Api] = <<>> /\ audit \in Seq(Events)
        /\ audit' = Append(audit, pending) /\ pending' = NoEvent
        /\ UNCHANGED <<known, row, todo, copy, outside, gap>>
    BY DEF RecordAudit, TrailOK
  <1>2. TrailOK' /\ Trail' = Trail
    BY <1>1, AppendTells DEF TrailOK, Trail
  <1>3. copy[Api] = NoCopy
    BY <1>1 DEF WorkIsWhole
  <1>4. WorkIsWhole'
    BY <1>1, <1>3 DEF WorkIsWhole, AtWork
  <1>5. ToWrite = {}
    BY <1>1 DEF ToWrite, NamedBy
  <1>6. ASSUME ~gap, NEW f \in Findings \ outside, NEW x \in Fields
        PROVE  TellsColumn(Append(audit, pending), f, x, row[f][x])
    <2>1. CASE AtWork(f) /\ x \in NamedBy(pending.value)
      <3>1. TellsOf(pending.value, x, row[f][x])
        BY <1>5, <1>6, <2>1 DEF ColumnsAreTold
      <3> QED BY <1>1, <2>1, <3>1, NamedColumn DEF AtWork
    <2>2. CASE ~(AtWork(f) /\ x \in NamedBy(pending.value))
      <3>1. TellsColumn(audit, f, x, row[f][x])
        BY <1>6, <2>2 DEF ColumnsAreTold
      <3> QED BY <1>1, <2>2, <3>1, OtherColumn DEF AtWork
    <2> QED BY <2>1, <2>2
  <1>7. ColumnsAreTold'
    BY <1>1, <1>6 DEF ColumnsAreTold, AtWork
  <1> QED
    BY <1>2, <1>4, <1>7

LEMMA EventIsOne == \A e \in Events : e # NoEvent
  BY ServerAssumption

\* A handler that leaves the findings alone starts its work.
LEMMA HandlerKeepsTrail ==
    ASSUME TriageInv, TrailOK, WorkIsWhole, ColumnsAreTold, NEW e \in Events, Handle(e),
           e.kind = "finding" => e.value = <<>> /\ e.id \in Findings,
           UNCHANGED <<outside, gap>>
    PROVE  TrailOK' /\ WorkIsWhole' /\ ColumnsAreTold' /\ Trail' = Append(Trail, e)
  <1>1. /\ pending = NoEvent /\ pending' = e /\ e # NoEvent
        /\ UNCHANGED <<audit, known, row, todo, copy, outside, gap>>
    BY EventIsOne DEF Handle, ApiFree
  <1>2. TrailOK' /\ Trail' = Append(Trail, e)
    BY <1>1 DEF TrailOK, Trail
  <1>3. todo[Api] = <<>> /\ copy[Api] = NoCopy
    BY <1>1 DEF WorkIsWhole
  <1>4. ToWrite' = {} /\ \A f : AtWork(f)' => NamedBy(e.value) = {}
    BY <1>1, <1>3 DEF ToWrite, NamedBy, AtWork
  <1>5. WorkIsWhole'
    <2>1. ASSUME NEW f \in Findings, AtWork(f)'
          PROVE  NamesOnce(<<>>, f, Fields) /\ NamedBy(e.value) = {}
      BY <1>4, <2>1 DEF NamesOnce
    <2> QED BY <1>1, <1>3, <1>4, <2>1 DEF WorkIsWhole
  <1>6. ColumnsAreTold'
    BY <1>1, <1>4 DEF ColumnsAreTold, AtWork
  <1> QED
    BY <1>2, <1>5, <1>6

\* What the event of a request tells of the columns it names.
LEMMA RecordedTells ==
    ASSUME NEW f \in Findings, NEW ws \in Seq(Writes), NamesOnce(ws, f, Fields)
    PROVE  LET list == [k \in DOMAIN ws |-> Recorded(ws[k])]
           IN  /\ Event("finding", f, list) \in Events
               /\ NamedBy(list) = NamedBy(ws)
               /\ \A i \in DOMAIN ws : TellsOf(list, ws[i].field, ColumnOf(ws[i]))
  <1> DEFINE list == [k \in DOMAIN ws |-> Recorded(ws[k])]
             RecordedWrites == Writes \cup [verb : {"patch"}, finding : Findings, field : {"note"}, value : {Nothing}]
  <1>1. ASSUME NEW w \in Writes
        PROVE  /\ Recorded(w) \in RecordedWrites /\ Recorded(w).field = w.field
               /\ ColumnOf(Recorded(w)) \in {ColumnOf(w), Nothing}
    <2>1. CASE w.verb = "patch" /\ w.field = "note"
      <3>1. w \in [verb : Verbs, finding : Findings, field : {"note"}, value : Notes]
        BY <2>1 DEF Writes
      <3>2. Recorded(w) = [w EXCEPT !.value = Nothing]
        BY <2>1 DEF Recorded
      <3>3. Recorded(w) = [verb |-> "patch", finding |-> w.finding, field |-> "note", value |-> Nothing]
        BY <2>1, <3>1, <3>2
      <3> QED BY <2>1, <3>1, <3>3 DEF ColumnOf
    <2>2. CASE ~(w.verb = "patch" /\ w.field = "note")
      BY <2>2 DEF Recorded
    <2> QED BY <2>1, <2>2
  <1>2. PICK n \in Nat : DOMAIN ws = 1 .. n
    OBVIOUS
  <1>3. \A k \in DOMAIN ws : ws[k] \in Writes
    OBVIOUS
  <1>4. list \in Seq(RecordedWrites)
    BY <1>1, <1>2, <1>3
  <1>5. Event("finding", f, list) \in Events
    BY <1>4 DEF Events
  <1>6. DOMAIN list = DOMAIN ws /\ \A k \in DOMAIN ws : list[k] = Recorded(ws[k])
    OBVIOUS
  <1>7. NamedBy(list) = NamedBy(ws)
    BY <1>1, <1>3, <1>6 DEF NamedBy
  <1>8. ASSUME NEW i \in DOMAIN ws, NEW k \in DOMAIN list, list[k].field = ws[i].field
        PROVE  ColumnOf(list[k]) \in {ColumnOf(ws[i]), Nothing}
    <2>1. ws[k].field = ws[i].field
      BY <1>1, <1>3, <1>6, <1>8
    <2>2. k = i
      BY <1>6, <2>1 DEF NamesOnce
    <2> QED BY <1>1, <1>3, <1>6, <2>2
  <1> HIDE DEF list
  <1>9. \A i \in DOMAIN ws : TellsOf(list, ws[i].field, ColumnOf(ws[i]))
    BY <1>8 DEF TellsOf
  <1> QED
    BY <1>5, <1>7, <1>9 DEF list

LEMMA RequestKeepsTrail ==
    ASSUME TriageInv, TrailOK, WorkIsWhole, ColumnsAreTold, NEW f \in Findings, ApiRequest(f)
    PROVE  /\ TrailOK' /\ WorkIsWhole' /\ ColumnsAreTold' /\ UNCHANGED gap
           /\ \E e \in Events : e.kind = "finding" /\ Trail' = Append(Trail, e)
  <1>1. pending = NoEvent /\ UNCHANGED <<audit, known, row, copy, outside, gap>>
    BY DEF ApiRequest, ApiFree, Request
  <1>2. PICK ws \in Requests(Api, f) : todo' = [todo EXCEPT ![Api] = ws]
    BY DEF ApiRequest, Request
  <1>3. ws \in Seq(Writes) /\ NamesOnce(ws, f, Fields)
    BY ApiIsActor, RequestsAreWrites, RequestsNameOnce
  <1>4. todo'[Api] = ws
    BY <1>2, ApiIsActor DEF TriageInv, TriageTypeOK
  <1>5. PICK list : list = [k \in DOMAIN ws |-> Recorded(ws[k])]
    OBVIOUS
  <1>6. PICK e : e = Event("finding", f, list)
    OBVIOUS
  <1>7. /\ e \in Events /\ NamedBy(list) = NamedBy(ws)
        /\ \A i \in DOMAIN ws : TellsOf(list, ws[i].field, ColumnOf(ws[i]))
    BY <1>3, <1>5, <1>6, RecordedTells
  <1>8. pending' = e /\ e.kind = "finding" /\ e.id = f /\ e.value = list /\ e # NoEvent
    BY <1>4, <1>5, <1>6, <1>7, EventIsOne DEF ApiRequest
  <1>9. TrailOK' /\ Trail' = Append(Trail, e)
    BY <1>1, <1>7, <1>8 DEF TrailOK, Trail
  <1>10. ToWrite' = NamedBy(ws) /\ \A g : AtWork(g)' <=> g = f
    BY <1>4, <1>8 DEF ToWrite, AtWork
  <1>11. copy[Api] = NoCopy
    BY <1>1 DEF WorkIsWhole
  <1>12. WorkIsWhole'
    BY <1>1, <1>3, <1>4, <1>7, <1>8, <1>10, <1>11 DEF WorkIsWhole
  <1>13. \A g : ~AtWork(g)
    BY <1>1 DEF AtWork
  <1>14. ColumnsAreTold'
    BY <1>1, <1>7, <1>8, <1>10, <1>13 DEF ColumnsAreTold
  <1> QED
    BY <1>1, <1>7, <1>8, <1>9, <1>12, <1>14

\* The handler of a triage does its next statement, or finds that there is no finding.
LEMMA WorkKeepsTrail ==
    ASSUME TriageInv, TrailOK, WorkIsWhole, ColumnsAreTold, WorkOn(Api)
    PROVE  /\ TrailOK' /\ WorkIsWhole' /\ ColumnsAreTold' /\ UNCHANGED <<tables, gap>>
           /\ \/ Trail' = Trail
              \/ \E e \in Events : e.kind = "finding" /\ Trail = Append(Trail', e)
  <1>0. /\ todo \in [Actors -> Seq(Writes)] /\ copy \in [Actors -> Row \cup {NoCopy}]
        /\ row \in [Findings -> Row] /\ NoCopy \notin Row /\ Api \in Actors
    BY ApiIsActor, TriageAssumption DEF TriageInv, TriageTypeOK
  <1>1. todo[Api] # <<>>
    BY DEF WorkOn, RefuseUnknown, ReadTriage, UpsertTriage
  <1>2. PICK w \in Writes : w = Head(todo[Api])
    BY <1>0, <1>1
  <1>3. pending # NoEvent /\ pending \in Events /\ pending.kind = "finding" /\ audit \in Seq(Events)
    BY <1>1 DEF WorkIsWhole, TrailOK
  <1>4. PICK f \in Findings : f = pending.id
    BY <1>3 DEF Events
  <1>5. /\ NamesOnce(todo[Api], f, Fields)
        /\ ToWrite \subseteq NamedBy(pending.value)
        /\ \A i \in DOMAIN todo[Api] : TellsOf(pending.value, todo[Api][i].field, ColumnOf(todo[Api][i]))
        /\ ~(NamedBy(pending.value) \subseteq ToWrite) => f \in known
    BY <1>3, <1>4 DEF WorkIsWhole, AtWork
  <1>6. w.finding = f /\ w.field \in Fields /\ 1 \in DOMAIN todo[Api] /\ todo[Api][1] = w
    BY <1>0, <1>1, <1>2, <1>5 DEF NamesOnce
  <1>7. CASE RefuseUnknown(Api)
    <2>1. /\ audit' = audit /\ pending' = NoEvent /\ todo'[Api] = <<>> /\ copy'[Api] = NoCopy
          /\ f \notin known /\ UNCHANGED <<row, known, tables, gap, outside>>
      BY <1>0, <1>2, <1>6, <1>7 DEF WorkOn, RefuseUnknown, ReadTriage, UpsertTriage, AfterError
    <2>2. TrailOK' /\ WorkIsWhole'
      BY <2>1 DEF TrailOK, WorkIsWhole, AtWork
    <2>3. ColumnsAreTold'
      <3>1. NamedBy(pending.value) \subseteq ToWrite
        BY <1>5, <2>1
      <3> QED BY <2>1, <3>1 DEF ColumnsAreTold, AtWork
    <2>4. Trail = Append(Trail', pending)
      BY <1>3, <2>1 DEF Trail
    <2> QED BY <1>3, <2>1, <2>2, <2>3, <2>4
  <1>8. CASE ReadTriage(Api)
    <2>1. /\ audit' = audit /\ pending' = pending /\ todo' = todo /\ copy'[Api] = row[f]
          /\ f \in known /\ UNCHANGED <<row, known, tables, gap, outside>>
      BY <1>0, <1>2, <1>6, <1>8 DEF WorkOn, RefuseUnknown, ReadTriage, UpsertTriage
    <2>2. TrailOK' /\ Trail' = Trail
      BY <2>1 DEF TrailOK, Trail
    <2>3. ToWrite' = ToWrite /\ \A g : AtWork(g)' <=> AtWork(g)
      BY <2>1 DEF ToWrite, AtWork
    <2>4. WorkIsWhole'
      BY <1>1, <1>2, <1>6, <2>1, <2>3 DEF WorkIsWhole
    <2>5. ColumnsAreTold'
      BY <2>1, <2>3 DEF ColumnsAreTold
    <2> QED BY <2>1, <2>2, <2>4, <2>5
  <1>9. CASE UpsertTriage(Api)
    <2>1. copy[Api] # NoCopy /\ copy[Api] \in Row /\ f \in known
      BY <1>0, <1>2, <1>6, <1>9 DEF UpsertTriage, WorkIsWhole
    <2>2. PICK new \in Row : new = Stored(w, copy[Api])
      BY <2>1, StoredIsRow
    <2>3. /\ audit' = audit /\ pending' = pending /\ copy'[Api] = NoCopy
          /\ row' = [row EXCEPT ![f] = new] /\ todo' = [todo EXCEPT ![Api] = Tail(@)]
          /\ UNCHANGED <<known, tables, gap, outside>>
      BY <1>0, <1>2, <1>6, <1>9, <2>1, <2>2 DEF WorkOn, RefuseUnknown, ReadTriage, UpsertTriage
    <2>4. TrailOK' /\ Trail' = Trail
      BY <2>3 DEF TrailOK, Trail
    <2>5. PICK n \in Nat, rest \in Seq(Writes) :
              /\ DOMAIN todo[Api] = 1 .. n + 1 /\ rest = todo'[Api] /\ DOMAIN rest = 1 .. n
              /\ \A i \in 1 .. n : rest[i] = todo[Api][i + 1]
      <3>1. PICK list \in Seq(Writes) : list = todo[Api] /\ list # <<>>
        BY <1>0, <1>1
      <3>2. PICK n \in Nat : Len(list) = n + 1
        <4>1. Len(list) - 1 \in Nat /\ Len(list) = (Len(list) - 1) + 1
          BY <3>1
        <4> QED BY <4>1
      <3>3. PICK rest \in Seq(Writes) : rest = Tail(list)
        BY <3>1, HeadTailProperties
      <3>4. DOMAIN rest = 1 .. n /\ DOMAIN list = 1 .. n + 1 /\ \A i \in 1 .. n : rest[i] = list[i + 1]
        BY <3>1, <3>2, <3>3
      <3>5. todo'[Api] = rest
        BY <1>0, <2>3, <3>1, <3>3
      <3> QED BY <3>1, <3>4, <3>5
    <2>6. \A i \in 1 .. n : i + 1 \in DOMAIN todo[Api] /\ i + 1 # 1
      BY <2>5
    <2>7. \A i, j \in 1 .. n : i + 1 = j + 1 => i = j
      OBVIOUS
    <2>8. NamesOnce(rest, f, Fields)
      <3>1. \A i \in 1 .. n : rest[i].finding = f /\ rest[i].field \in Fields
        BY <1>5, <2>5, <2>6 DEF NamesOnce
      <3>2. ASSUME NEW i \in 1 .. n, NEW j \in 1 .. n, rest[i].field = rest[j].field
            PROVE  i = j
        <4>1. todo[Api][i + 1].field = todo[Api][j + 1].field
          BY <2>5, <3>2
        <4> QED BY <1>5, <2>6, <2>7, <4>1 DEF NamesOnce
      <3> QED BY <2>5, <3>1, <3>2 DEF NamesOnce
    <2>9. w.field \notin NamedBy(rest) /\ NamedBy(rest) \cup {w.field} = ToWrite
      <3>1. ASSUME NEW i \in 1 .. n PROVE rest[i].field # w.field /\ rest[i].field \in ToWrite
        BY <1>5, <1>6, <2>5, <2>6 DEF NamesOnce, ToWrite, NamedBy
      <3>2. w.field \in ToWrite
        BY <1>6 DEF ToWrite, NamedBy
      <3>3. ASSUME NEW i \in 1 .. n + 1, i # 1 PROVE todo[Api][i].field \in NamedBy(rest)
        <4>1. i - 1 \in 1 .. n /\ rest[i - 1] = todo[Api][i]
          BY <2>5, <3>3
        <4> QED BY <2>5, <4>1 DEF NamedBy
      <3>4. ToWrite \subseteq NamedBy(rest) \cup {w.field}
        BY <1>6, <2>5, <3>3 DEF ToWrite, NamedBy
      <3> QED BY <2>5, <3>1, <3>2, <3>4 DEF NamedBy
    <2>10. ToWrite' = NamedBy(rest) /\ \A g : AtWork(g)' <=> AtWork(g)
      BY <2>3, <2>5 DEF ToWrite, AtWork
    <2>11. \A i \in DOMAIN rest : TellsOf(pending.value, rest[i].field, ColumnOf(rest[i]))
      BY <1>5, <2>5, <2>6
    <2>12. WorkIsWhole'
      <3>1. ASSUME NEW g \in Findings, AtWork(g) PROVE g = f
        BY <1>4, <3>1 DEF AtWork
      <3> QED BY <1>3, <1>5, <2>1, <2>3, <2>5, <2>8, <2>9, <2>10, <2>11, <3>1 DEF WorkIsWhole
    <2>13. ASSUME ~gap, NEW g \in Findings \ outside, NEW x \in Fields
           PROVE  IF AtWork(g) /\ x \in NamedBy(pending.value) \ NamedBy(rest)
                  THEN TellsOf(pending.value, x, row'[g][x])
                  ELSE TellsColumn(audit, g, x, row'[g][x])
      <3>1. CASE g = f /\ x = w.field
        <4>1. row'[g][x] = ColumnOf(w)
          BY <1>0, <2>1, <2>2, <2>3, <3>1 DEF Stored, Row
        <4>2. TellsOf(pending.value, x, ColumnOf(w))
          BY <1>5, <1>6, <3>1
        <4>3. AtWork(g) /\ x \in NamedBy(pending.value) \ NamedBy(rest)
          BY <1>3, <1>4, <1>5, <2>9, <3>1 DEF AtWork
        <4> QED BY <4>1, <4>2, <4>3
      <3>2. CASE ~(g = f /\ x = w.field)
        <4>1. row'[g][x] = row[g][x]
          <5>1. CASE g = f
            <6>1. copy[Api] = row[f]
              BY <1>2, <1>6, <2>1, <2>13, <5>1 DEF WorkIsWhole
            <6>2. new[x] = copy[Api][x]
              BY <2>1, <2>2, <3>2, <5>1, StoredIsRow
            <6> QED BY <1>0, <2>3, <5>1, <6>1, <6>2
          <5>2. CASE g # f
            BY <1>0, <2>3, <5>2
          <5> QED BY <5>1, <5>2
        <4>2. AtWork(g) => (x \in ToWrite <=> x \in NamedBy(rest))
          BY <1>4, <2>9, <3>2 DEF AtWork
        <4> QED BY <2>13, <4>1, <4>2 DEF ColumnsAreTold
      <3> QED BY <3>1, <3>2
    <2>14. ColumnsAreTold'
      BY <2>3, <2>10, <2>13 DEF ColumnsAreTold
    <2> QED BY <2>3, <2>4, <2>12, <2>14
  <1> QED
    BY <1>7, <1>8, <1>9 DEF WorkOn

-----------------------------------------------------------------------------
(***************************************************************************)
(* What the trail tells of the tables.                                     *)
(***************************************************************************)
LEMMA OrganizationsKept ==
    ASSUME NEW s \in Seq(Events), NEW e \in Events, e.kind # "organization"
    PROVE  OrganizationsTold(Append(s, e)) <=> OrganizationsTold(s)
  BY OtherKind DEF OrganizationsTold

LEMMA WorkspacesKept ==
    ASSUME NEW s \in Seq(Events), NEW e \in Events, e.kind # "workspace"
    PROVE  WorkspacesTold(Append(s, e)) <=> WorkspacesTold(s)
  BY OtherKind DEF WorkspacesTold

LEMMA UsersKept ==
    ASSUME NEW s \in Seq(Events), NEW e \in Events, e.kind # "user"
    PROVE  UsersTold(Append(s, e)) <=> UsersTold(s)
  <1>1. PICK t \in Seq(Events) : t = Append(s, e)
    BY AppendTells
  <1>2. DOMAIN t = DOMAIN s \cup {Len(t)} /\ t[Len(t)] = e /\ \A i \in DOMAIN s : t[i] = s[i]
    BY <1>1, AppendTells
  <1>3. \A u : EventsIn(t, "user", u) = EventsIn(s, "user", u)
    BY <1>1, OtherKind
  <1>4. \A u : \A i \in EventsIn(s, "user", u) : i \in DOMAIN s
    BY DEF EventsIn
  <1>5. (\A i \in DOMAIN t : t[i].kind = "user" => UsersOf(t[i].value) # {})
          <=> (\A i \in DOMAIN s : s[i].kind = "user" => UsersOf(s[i].value) # {})
    BY <1>2
  <1>6. \A u \in UserIds : (\E i \in EventsIn(t, "user", u) : t[i].value = users[u])
                             <=> (\E i \in EventsIn(s, "user", u) : s[i].value = users[u])
    BY <1>2, <1>3, <1>4
  <1> QED
    BY <1>1, <1>5, <1>6 DEF UsersTold

LEMMA MembershipsKept ==
    ASSUME NEW s \in Seq(Events), NEW e \in Events, e.kind # "membership"
    PROVE  MembershipsTold(Append(s, e)) <=> MembershipsTold(s)
  <1>1. PICK t \in Seq(Events) : t = Append(s, e)
    BY AppendTells
  <1>2. \A m : /\ EventsIn(t, "membership", m) = EventsIn(s, "membership", m)
               /\ ToldIn(t, "membership", m) = ToldIn(s, "membership", m)
               /\ EventsIn(s, "membership", m) # {} =>
                    FirstIn(t, EventsIn(s, "membership", m)) = FirstIn(s, EventsIn(s, "membership", m))
    BY <1>1, OtherKind
  <1> QED
    BY <1>1, <1>2 DEF MembershipsTold

\* Events about findings tell nothing of the tables.
LEMMA FindingsTellNothing ==
    ASSUME NEW s \in Seq(Events), NEW e \in Events, e.kind = "finding"
    PROVE  TablesTold(Append(s, e)) <=> TablesTold(s)
  BY OrganizationsKept, WorkspacesKept, UsersKept, MembershipsKept DEF TablesTold

LEMMA TrailIsSequence ==
    ASSUME TrailOK
    PROVE  Trail \in Seq(Events)
  BY AppendTells DEF TrailOK, Trail

\* The same tables are told by the same sequences.
LEMMA SameTables ==
    ASSUME UNCHANGED tables, NEW s
    PROVE  TablesTold(s)' <=> TablesTold(s)
  BY DEF TablesTold, OrganizationsTold, WorkspacesTold, UsersTold, MembershipsTold, UsersOf

LEMMA OrganizationTold ==
    ASSUME TablesOK, NEW s \in Seq(Events), TablesTold(s), NEW o \in OrganizationIds, NEW slug \in Slugs,
           UpsertOrganization(o, slug)
    PROVE  /\ TablesTold(Append(s, Event("organization", o, slug)))'
           /\ o = Default /\ slug = Default => TablesTold(s)'
  <1>1. PICK e \in Events : e = Event("organization", o, slug)
    BY DEF Events
  <1>2. PICK t \in Seq(Events) : t = Append(s, e)
    BY AppendTells
  <1>3. organizations' = [organizations EXCEPT ![o] = slug] /\ UNCHANGED <<workspaces, users, memberships>>
    BY DEF UpsertOrganization
  <1>4. WorkspacesTold(t)' /\ UsersTold(t)' /\ MembershipsTold(t)'
    <2>1. WorkspacesTold(t) /\ UsersTold(t) /\ MembershipsTold(t)
      BY <1>1, <1>2, WorkspacesKept, UsersKept, MembershipsKept DEF TablesTold
    <2> QED BY <1>3, <2>1 DEF WorkspacesTold, UsersTold, MembershipsTold, UsersOf
  <1>5. ToldIn(t, "organization", o) = slug
    <2>1. e.kind = "organization" /\ e.id = o /\ e.value = slug
      BY <1>1
    <2> QED BY <1>2, <2>1, SameKind
  <1>6. \A p \in OrganizationIds : p # o => ToldIn(t, "organization", p) = ToldIn(s, "organization", p)
    <2>1. e.kind = "organization" /\ e.id = o
      BY <1>1
    <2> QED BY <1>2, <2>1, OtherKind
  <1>7. organizations'[o] = slug /\ \A p \in OrganizationIds : p # o => organizations'[p] = organizations[p]
    BY <1>3 DEF TablesOK, TenancyTypeOK
  <1>8. OrganizationsTold(t)'
    BY <1>5, <1>6, <1>7 DEF TablesTold, OrganizationsTold
  <1>9. ASSUME o = Default, slug = Default
        PROVE  TablesTold(s)'
    <2>1. OrganizationsTold(s)'
      BY <1>7, <1>9 DEF TablesTold, OrganizationsTold
    <2>2. WorkspacesTold(s)' /\ UsersTold(s)' /\ MembershipsTold(s)'
      BY <1>3 DEF TablesTold, WorkspacesTold, UsersTold, MembershipsTold, UsersOf
    <2> QED BY <2>1, <2>2 DEF TablesTold
  <1> QED
    BY <1>1, <1>2, <1>4, <1>8, <1>9 DEF TablesTold

LEMMA WorkspaceTold ==
    ASSUME TablesOK, NEW s \in Seq(Events), TablesTold(s), NEW w \in WorkspaceIds, NEW o \in OrganizationIds,
           UpsertWorkspace(w, o)
    PROVE  /\ TablesTold(Append(s, Event("workspace", w, o)))'
           /\ w = Default /\ o = Default => TablesTold(s)'
  <1>1. PICK e \in Events : e = Event("workspace", w, o)
    BY DEF Events
  <1>2. PICK t \in Seq(Events) : t = Append(s, e)
    BY AppendTells
  <1>3. workspaces' = [workspaces EXCEPT ![w] = o] /\ UNCHANGED <<organizations, users, memberships>>
    BY DEF UpsertWorkspace
  <1>4. OrganizationsTold(t)' /\ UsersTold(t)' /\ MembershipsTold(t)'
    <2>1. OrganizationsTold(t) /\ UsersTold(t) /\ MembershipsTold(t)
      BY <1>1, <1>2, OrganizationsKept, UsersKept, MembershipsKept DEF TablesTold
    <2> QED BY <1>3, <2>1 DEF OrganizationsTold, UsersTold, MembershipsTold, UsersOf
  <1>5. ToldIn(t, "workspace", w) = o
    <2>1. e.kind = "workspace" /\ e.id = w /\ e.value = o
      BY <1>1
    <2> QED BY <1>2, <2>1, SameKind
  <1>6. \A p \in WorkspaceIds : p # w => ToldIn(t, "workspace", p) = ToldIn(s, "workspace", p)
    <2>1. e.kind = "workspace" /\ e.id = w
      BY <1>1
    <2> QED BY <1>2, <2>1, OtherKind
  <1>7. workspaces'[w] = o /\ \A p \in WorkspaceIds : p # w => workspaces'[p] = workspaces[p]
    BY <1>3 DEF TablesOK, TenancyTypeOK
  <1>8. WorkspacesTold(t)'
    BY <1>5, <1>6, <1>7 DEF TablesTold, WorkspacesTold
  <1>9. ASSUME w = Default, o = Default
        PROVE  TablesTold(s)'
    <2>1. WorkspacesTold(s)'
      BY <1>7, <1>9 DEF TablesTold, WorkspacesTold
    <2>2. OrganizationsTold(s)' /\ UsersTold(s)' /\ MembershipsTold(s)'
      BY <1>3 DEF TablesTold, OrganizationsTold, UsersTold, MembershipsTold, UsersOf
    <2> QED BY <2>1, <2>2 DEF TablesTold
  <1> QED
    BY <1>1, <1>2, <1>4, <1>8, <1>9 DEF TablesTold

LEMMA UserTold ==
    ASSUME TablesOK, NEW s \in Seq(Events), TablesTold(s), NEW u \in UserIds, NEW subject \in Subjects,
           UpsertUser(u, subject)
    PROVE  TablesTold(Append(s, Event("user", u, subject)))'
  <1>1. PICK e \in Events : e = Event("user", u, subject)
    BY DEF Events
  <1>2. PICK t \in Seq(Events) : t = Append(s, e)
    BY AppendTells
  <1>3. UNCHANGED <<organizations, workspaces, memberships>>
    BY DEF UpsertUser
  <1>4. OrganizationsTold(t)' /\ WorkspacesTold(t)' /\ MembershipsTold(t)'
    <2>1. OrganizationsTold(t) /\ WorkspacesTold(t) /\ MembershipsTold(t)
      BY <1>1, <1>2, OrganizationsKept, WorkspacesKept, MembershipsKept DEF TablesTold
    <2> QED BY <1>3, <2>1 DEF OrganizationsTold, WorkspacesTold, MembershipsTold
  <1>5. PICK n \in Nat : n = Len(t)
    BY <1>2
  <1>6. /\ DOMAIN t = DOMAIN s \cup {n} /\ t[n] = e /\ \A i \in DOMAIN s : t[i] = s[i]
        /\ e.kind = "user" /\ e.id = u /\ e.value = subject
    BY <1>1, <1>2, <1>5, AppendTells
  <1>7. /\ users \in [UserIds -> Subjects \cup {NoRow}] /\ NoRow \notin Subjects
        /\ users' = IF UsersOf(subject) = {} THEN [users EXCEPT ![u] = subject] ELSE users
        /\ UsersOf(subject) # {} \/ users[u] = NoRow
    BY TenancyAssumption DEF UpsertUser, TablesOK, TenancyTypeOK
  <1>8. ASSUME NEW v \in UserIds, users'[v] # NoRow
        PROVE  \E i \in EventsIn(t, "user", v) : t[i].value = users'[v]
    <2>1. CASE users'[v] = users[v]
      <3>1. PICK i \in EventsIn(s, "user", v) : s[i].value = users[v]
        BY <1>8, <2>1 DEF TablesTold, UsersTold
      <3> QED BY <1>6, <2>1, <3>1 DEF EventsIn
    <2>2. CASE users'[v] # users[v]
      <3>1. v = u /\ users'[v] = subject
        BY <1>7, <2>2
      <3> QED BY <1>6, <3>1 DEF EventsIn
    <2> QED BY <2>1, <2>2
  <1>9. \A x : UsersOf(x) # {} /\ x # NoRow => UsersOf(x)' # {}
    BY <1>7 DEF UsersOf
  <1>10. UsersOf(subject)' # {}
    BY <1>7 DEF UsersOf
  <1>11. ASSUME NEW i \in DOMAIN t, t[i].kind = "user"
         PROVE  UsersOf(t[i].value)' # {}
    <2>1. CASE i = n
      BY <1>6, <1>10, <2>1
    <2>2. CASE i # n
      <3>1. i \in DOMAIN s /\ t[i] = s[i] /\ s[i] \in Events
        BY <1>6, <2>2
      <3>2. s[i].value \in Subjects
        BY <1>11, <3>1 DEF Events
      <3>3. UsersOf(s[i].value) # {}
        BY <1>11, <3>1 DEF TablesTold, UsersTold
      <3> QED BY <1>7, <1>9, <3>1, <3>2, <3>3
    <2> QED BY <2>1, <2>2
  <1>12. UsersTold(t)'
    BY <1>8, <1>11 DEF UsersTold
  <1> QED
    BY <1>1, <1>2, <1>4, <1>12 DEF TablesTold

LEMMA MembershipTold ==
    ASSUME TablesOK, NEW s \in Seq(Events), TablesTold(s), NEW m \in MembershipIds, NEW new \in Membership,
           UpsertMembership(m, new)
    PROVE  TablesTold(Append(s, Event("membership", m, new)))'
  <1>1. PICK e \in Events : e = Event("membership", m, new)
    BY DEF Events
  <1>2. PICK t \in Seq(Events) : t = Append(s, e)
    BY AppendTells
  <1>3. UNCHANGED <<organizations, workspaces, users>>
    BY DEF UpsertMembership
  <1>4. OrganizationsTold(t)' /\ WorkspacesTold(t)' /\ UsersTold(t)'
    <2>1. OrganizationsTold(t) /\ WorkspacesTold(t) /\ UsersTold(t)
      BY <1>1, <1>2, OrganizationsKept, WorkspacesKept, UsersKept DEF TablesTold
    <2> QED BY <1>3, <2>1 DEF OrganizationsTold, WorkspacesTold, UsersTold, UsersOf
  <1>5. e.kind = "membership" /\ e.id = m /\ e.value = new
    BY <1>1
  <1>6. /\ EventsIn(t, "membership", m) # {}
        /\ ToldIn(t, "membership", m) = new
        /\ FirstIn(t, EventsIn(t, "membership", m)) =
             IF EventsIn(s, "membership", m) = {} THEN new ELSE FirstIn(s, EventsIn(s, "membership", m))
    BY <1>2, <1>5, SameKind
  <1>7. memberships \in [MembershipIds -> Membership \cup {NoRow}] /\ NoRow \notin Membership
    BY TenancyAssumption DEF TablesOK, TenancyTypeOK
  <1>8. memberships' = [memberships EXCEPT ![m] =
           IF memberships[m] = NoRow THEN new ELSE [memberships[m] EXCEPT !.role = new.role]]
    BY DEF UpsertMembership
  <1>9. memberships'[m] = [FirstIn(t, EventsIn(t, "membership", m)) EXCEPT !.role = new.role]
    <2>1. CASE EventsIn(s, "membership", m) = {}
      <3>1. memberships[m] = NoRow
        BY <2>1 DEF TablesTold, MembershipsTold
      <3>2. memberships'[m] = new
        BY <1>7, <1>8, <3>1
      <3>3. new = [new EXCEPT !.role = new.role]
        BY DEF Membership
      <3> QED BY <1>6, <2>1, <3>2, <3>3
    <2>2. CASE EventsIn(s, "membership", m) # {}
      <3>1. PICK first : first = FirstIn(s, EventsIn(s, "membership", m))
        OBVIOUS
      <3>2. PICK last : last = ToldIn(s, "membership", m)
        OBVIOUS
      <3>3. memberships[m] = [first EXCEPT !.role = last.role]
        BY <2>2, <3>1, <3>2 DEF TablesTold, MembershipsTold
      <3>4. \A i \in EventsIn(s, "membership", m) : i \in DOMAIN s /\ s[i].value \in Membership
        BY DEF EventsIn, Events
      <3>5. first \in Membership /\ last \in Membership
        <4>1. PICK is : is = EventsIn(s, "membership", m)
          OBVIOUS
        <4>2. is \subseteq DOMAIN s /\ is # {} /\ \A i \in is : s[i].value \in Membership
          BY <2>2, <3>4, <4>1
        <4>3. FirstIn(s, is) \in Membership /\ LastIn(s, is) \in Membership
          BY <4>2, PlacesHaveEnds
        <4> QED BY <2>2, <3>1, <3>2, <4>1, <4>3 DEF ToldIn
      <3>6. [first EXCEPT !.role = last.role] \in Membership
        BY <3>5 DEF Membership
      <3>7. memberships'[m] = [[first EXCEPT !.role = last.role] EXCEPT !.role = new.role]
        BY <1>7, <1>8, <3>3, <3>6
      <3>8. [[first EXCEPT !.role = last.role] EXCEPT !.role = new.role] = [first EXCEPT !.role = new.role]
        BY <3>5 DEF Membership
      <3> QED BY <1>6, <2>2, <3>1, <3>7, <3>8
    <2> QED BY <2>1, <2>2
  <1>10. ASSUME NEW l \in MembershipIds, l # m
         PROVE  /\ memberships'[l] = memberships[l]
                /\ EventsIn(t, "membership", l) = EventsIn(s, "membership", l)
                /\ ToldIn(t, "membership", l) = ToldIn(s, "membership", l)
                /\ EventsIn(s, "membership", l) # {} =>
                     FirstIn(t, EventsIn(s, "membership", l)) = FirstIn(s, EventsIn(s, "membership", l))
    BY <1>2, <1>5, <1>7, <1>8, <1>10, OtherKind
  <1>11. ASSUME NEW l \in MembershipIds
         PROVE  memberships'[l] = IF EventsIn(t, "membership", l) = {} THEN NoRow
                                  ELSE [FirstIn(t, EventsIn(t, "membership", l)) EXCEPT
                                           !.role = ToldIn(t, "membership", l).role]
    <2>1. CASE l = m
      BY <1>6, <1>9, <2>1
    <2>2. CASE l # m
      <3>1. memberships[l] = IF EventsIn(s, "membership", l) = {} THEN NoRow
                             ELSE [FirstIn(s, EventsIn(s, "membership", l)) EXCEPT
                                      !.role = ToldIn(s, "membership", l).role]
        BY DEF TablesTold, MembershipsTold
      <3> QED BY <1>10, <2>2, <3>1
    <2> QED BY <2>1, <2>2
  <1>12. MembershipsTold(t)'
    BY <1>11 DEF MembershipsTold
  <1> QED
    BY <1>1, <1>2, <1>4, <1>12 DEF TablesTold

LEMMA AuditInvInit == ServerInit => AuditInv
  <1> SUFFICES ASSUME ServerInit PROVE AuditInv
    OBVIOUS
  <1>1. /\ audit = <<>> /\ pending = NoEvent /\ todo[Api] = <<>> /\ copy[Api] = NoCopy
        /\ \A f \in Findings : row[f] = Untriaged
    BY ApiIsActor DEF ServerInit, Init
  <1>2. TrailOK /\ WorkIsWhole /\ Trail = <<>>
    BY <1>1 DEF TrailOK, WorkIsWhole, AtWork, Trail
  <1>3. ColumnsAreTold
    BY <1>1 DEF ColumnsAreTold, AtWork, TellsColumn, Naming, EventsIn
  <1>4. TablesTold(<<>>)
    BY DEF TablesTold, OrganizationsTold, WorkspacesTold, UsersTold, MembershipsTold, ToldIn, EventsIn,
           ServerInit, TenancyInit
  <1> QED BY <1>2, <1>3, <1>4 DEF AuditInv

LEMMA CreationKeepsAudit ==
    ASSUME TablesOK, TriageInv, AuditInv,
           \/ \E o \in OrganizationIds, s \in Slugs : CreateOrganization(o, s)
           \/ \E w \in WorkspaceIds, o \in OrganizationIds : CreateWorkspace(w, o)
           \/ \E u \in UserIds, subject \in Subjects : CreateUser(u, subject)
           \/ \E m \in MembershipIds, new \in Membership : CreateMembership(m, new)
    PROVE  AuditInv'
  <1>0. PICK t \in Seq(Events) : t = Trail
    BY TrailIsSequence DEF AuditInv
  <1>1. ASSUME NEW e \in Events, Handle(e), e.kind # "finding", UNCHANGED <<outside, gap>>,
               ~gap => TablesTold(Append(t, e))'
        PROVE  AuditInv'
    <2>1. TrailOK' /\ WorkIsWhole' /\ ColumnsAreTold' /\ Trail' = Append(t, e)
      BY <1>0, <1>1, HandlerKeepsTrail DEF AuditInv
    <2>2. ~gap' => TablesTold(Trail)'
      BY <1>1, <2>1 DEF TablesTold, OrganizationsTold, WorkspacesTold, UsersTold, MembershipsTold
    <2> QED BY <2>1, <2>2 DEF AuditInv
  <1>2. ~gap => TablesTold(t)
    BY <1>0 DEF AuditInv
  <1>3. ASSUME NEW o \in OrganizationIds, NEW s \in Slugs, CreateOrganization(o, s) PROVE AuditInv'
    <2>1. PICK e \in Events : e = Event("organization", o, s)
      BY DEF Events
    <2>2. Handle(e) /\ e.kind # "finding" /\ UNCHANGED <<outside, gap>> /\ UpsertOrganization(o, s)
      BY <1>3, <2>1 DEF CreateOrganization
    <2>3. ~gap => TablesTold(Append(t, e))'
      BY <1>2, <2>1, <2>2, OrganizationTold
    <2> QED BY <1>1, <2>2, <2>3
  <1>4. ASSUME NEW w \in WorkspaceIds, NEW o \in OrganizationIds, CreateWorkspace(w, o) PROVE AuditInv'
    <2>1. PICK e \in Events : e = Event("workspace", w, o)
      BY DEF Events
    <2>2. Handle(e) /\ e.kind # "finding" /\ UNCHANGED <<outside, gap>> /\ UpsertWorkspace(w, o)
      BY <1>4, <2>1 DEF CreateWorkspace
    <2>3. ~gap => TablesTold(Append(t, e))'
      BY <1>2, <2>1, <2>2, WorkspaceTold
    <2> QED BY <1>1, <2>2, <2>3
  <1>5. ASSUME NEW u \in UserIds, NEW subject \in Subjects, CreateUser(u, subject) PROVE AuditInv'
    <2>1. PICK e \in Events : e = Event("user", u, subject)
      BY DEF Events
    <2>2. Handle(e) /\ e.kind # "finding" /\ UNCHANGED <<outside, gap>> /\ UpsertUser(u, subject)
      BY <1>5, <2>1 DEF CreateUser
    <2>3. ~gap => TablesTold(Append(t, e))'
      BY <1>2, <2>1, <2>2, UserTold
    <2> QED BY <1>1, <2>2, <2>3
  <1>6. ASSUME NEW m \in MembershipIds, NEW new \in Membership, CreateMembership(m, new) PROVE AuditInv'
    <2>1. PICK e \in Events : e = Event("membership", m, new)
      BY DEF Events
    <2>2. Handle(e) /\ e.kind # "finding" /\ UNCHANGED <<outside, gap>> /\ UpsertMembership(m, new)
      BY <1>6, <2>1 DEF CreateMembership
    <2>3. ~gap => TablesTold(Append(t, e))'
      BY <1>2, <2>1, <2>2, MembershipTold
    <2> QED BY <1>1, <2>2, <2>3
  <1> QED
    BY <1>3, <1>4, <1>5, <1>6

LEMMA AuditInvStep == ASSUME TablesOK, TriageInv, AuditInv, ServerNext PROVE AuditInv'
  <1>0. PICK t \in Seq(Events) : t = Trail
    BY TrailIsSequence DEF AuditInv
  <1>1. TrailOK /\ WorkIsWhole /\ ColumnsAreTold /\ (~gap => TablesTold(t))
    BY <1>0 DEF AuditInv
  <1>2. ASSUME NEW u, Trail' = u, TrailOK', WorkIsWhole', ColumnsAreTold', ~gap' => TablesTold(u)'
        PROVE  AuditInv'
    BY <1>2 DEF AuditInv, TablesTold, OrganizationsTold, WorkspacesTold, UsersTold, MembershipsTold
  <1>3. ASSUME Aside,
               UNCHANGED tables \/ UpsertOrganization(Default, Default) \/ UpsertWorkspace(Default, Default)
        PROVE  AuditInv'
    <2>1. TrailOK' /\ WorkIsWhole' /\ ColumnsAreTold' /\ Trail' = t
      BY <1>0, <1>1, <1>3, AsideKeepsTrail
    <2>2. gap => gap'
      BY <1>3 DEF Aside
    <2>3. ~gap => TablesTold(t)'
      <3>1. CASE UNCHANGED tables
        BY <1>1, <3>1, SameTables
      <3>2. CASE UpsertOrganization(Default, Default)
        BY <1>1, <3>2, TenancyAssumption, OrganizationTold
      <3>3. CASE UpsertWorkspace(Default, Default)
        BY <1>1, <3>3, TenancyAssumption, WorkspaceTold
      <3> QED BY <1>3, <3>1, <3>2, <3>3
    <2> QED BY <1>2, <2>1, <2>2, <2>3
  <1>4. CASE Ends
    BY <1>1, <1>4, EndsKeepsTrail DEF AuditInv
  <1>5. CASE RecordAudit
    <2>1. TrailOK' /\ WorkIsWhole' /\ ColumnsAreTold' /\ Trail' = t
      BY <1>0, <1>1, <1>5, RecordKeepsTrail
    <2>2. UNCHANGED <<tables, gap>>
      BY <1>5 DEF RecordAudit
    <2>3. ~gap => TablesTold(t)'
      BY <1>1, <2>2, SameTables
    <2> QED BY <1>2, <2>1, <2>2, <2>3
  <1>6. ASSUME NEW f \in Findings, ApiRequest(f) PROVE AuditInv'
    <2>1. TrailOK' /\ WorkIsWhole' /\ ColumnsAreTold' /\ UNCHANGED gap
      BY <1>1, <1>6, RequestKeepsTrail
    <2>2. PICK e \in Events : e.kind = "finding" /\ Trail' = Append(t, e)
      BY <1>0, <1>1, <1>6, RequestKeepsTrail
    <2>3. PICK u : u = Append(t, e)
      OBVIOUS
    <2>4. UNCHANGED tables
      BY <1>6 DEF ApiRequest
    <2>5. ~gap => TablesTold(u)'
      BY <1>1, <2>2, <2>3, <2>4, FindingsTellNothing, SameTables
    <2> QED BY <1>2, <2>1, <2>2, <2>3, <2>5
  <1>7. ASSUME NEW f \in Findings, EmptyPatch(f) PROVE AuditInv'
    <2>1. PICK e \in Events : e = Event("finding", f, <<>>)
      <3>1. \A S : <<>> \in Seq(S)
        OBVIOUS
      <3> QED BY <3>1 DEF Events
    <2>2. Handle(e) /\ e.kind = "finding" /\ e.id = f /\ e.value = <<>> /\ UNCHANGED <<tables, outside, gap>>
      BY <1>7, <2>1 DEF EmptyPatch
    <2>3. TrailOK' /\ WorkIsWhole' /\ ColumnsAreTold' /\ Trail' = Append(t, e)
      BY <1>0, <1>1, <2>2, HandlerKeepsTrail
    <2>4. PICK u : u = Append(t, e)
      OBVIOUS
    <2>5. ~gap => TablesTold(u)'
      BY <1>1, <2>2, <2>4, FindingsTellNothing, SameTables
    <2> QED BY <1>2, <2>2, <2>3, <2>4, <2>5
  <1>8. CASE WorkOn(Api)
    <2>1. TrailOK' /\ WorkIsWhole' /\ ColumnsAreTold' /\ UNCHANGED <<tables, gap>>
      BY <1>1, <1>8, WorkKeepsTrail
    <2>2. PICK u \in Seq(Events) : u = Trail'
      <3>1. (TrailOK => Trail \in Seq(Events))'
        BY TrailIsSequence, PTL
      <3> QED BY <2>1, <3>1
    <2>3. ~gap => TablesTold(u)
      <3>1. CASE u = t
        BY <1>1, <3>1
      <3>2. CASE u # t
        <4>1. PICK e \in Events : e.kind = "finding" /\ t = Append(u, e)
          BY <1>0, <1>1, <1>8, <2>2, <3>2, WorkKeepsTrail
        <4> QED BY <1>1, <4>1, FindingsTellNothing
      <3> QED BY <3>1, <3>2
    <2>4. ~gap => TablesTold(u)'
      BY <2>1, <2>3, SameTables
    <2> QED BY <1>2, <2>1, <2>2, <2>4
  <1> QED
    BY <1>1, <1>3, <1>4, <1>5, <1>6, <1>7, <1>8, AuditSteps, CreationKeepsAudit

LEMMA AuditInvNext == TablesOK /\ TriageInv /\ AuditInv /\ [ServerNext]_serverVars => AuditInv'
  <1>1. ASSUME AuditInv, UNCHANGED serverVars PROVE AuditInv'
    <2>1. Trail' = Trail /\ ToWrite' = ToWrite /\ \A f : AtWork(f)' <=> AtWork(f)
      BY <1>1 DEF Trail, ToWrite, AtWork
    <2>2. TrailOK' /\ WorkIsWhole' /\ ColumnsAreTold'
      BY <1>1, <2>1 DEF AuditInv, TrailOK, WorkIsWhole, ColumnsAreTold
    <2>3. ~gap' => TablesTold(Trail)'
      BY <1>1, <2>1 DEF AuditInv, TablesTold, OrganizationsTold, WorkspacesTold, UsersTold, MembershipsTold, UsersOf
    <2> QED BY <2>2, <2>3 DEF AuditInv
  <1> QED BY <1>1, AuditInvStep

LEMMA AuditTells == AuditInv => AuditTellsRows
  <1> SUFFICES ASSUME AuditInv, pending = NoEvent, ~gap
               PROVE  /\ \A f \in Findings \ outside : \A x \in Fields : ColumnIsTold(f, x)
                      /\ TablesTold(audit)
    <2>1. \A kind, id : /\ EventsIn(audit, kind, id) = EventsOf(kind, id)
                        /\ ToldIn(audit, kind, id) = Told(kind, id)
      BY DEF EventsIn, EventsOf, ToldIn, Told, LastIn, LastOf
    <2>2. \A is : FirstIn(audit, is) = FirstOf(is)
      BY DEF FirstIn, FirstOf
    <2> QED
      BY <2>1, <2>2 DEF AuditTellsRows, TablesTold, OrganizationsTold, WorkspacesTold, UsersTold, MembershipsTold
  <1>1. TablesTold(audit)
    BY DEF AuditInv, Trail
  <1>2. \A f : ~AtWork(f)
    BY DEF AtWork
  <1> QED
    BY <1>1, <1>2, ColumnTold DEF AuditInv, ColumnsAreTold

\* While no handler is at work and none has ended half way, the events recorded
\* by record_audit_event_scoped tell what the rows say: what the handlers have
\* stored is neither left out nor told wrongly, in whatever order starts,
\* commands and failures come between.
THEOREM AuditIsTrue == ServerSpec => []AuditTellsRows
  <1>1. ServerSpec => []TriageInv
    <2>1. ServerInit => Init
      BY DEF ServerInit
    <2> QED BY <2>1, ServerStepIsTriageStep, InitTriageInv, NextKeepsTriageInv, PTL DEF ServerSpec
  <1>2. ServerSpec => []TablesOK
    <2>1. ServerInv => TablesOK
      BY DEF ServerInv
    <2> QED BY <2>1, ServerInvInit, ServerInvNext, PTL DEF ServerSpec
  <1>3. ServerSpec => []AuditInv
    BY <1>1, <1>2, AuditInvInit, AuditInvNext, PTL DEF ServerSpec
  <1> QED BY <1>3, AuditTells, PTL

=============================================================================
