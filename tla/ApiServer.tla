----------------------------- MODULE ApiServer -----------------------------
(***************************************************************************)
(* atlas-api at its desk, between processes that come and go.              *)
(*                                                                         *)
(* The API serves one request at a time, of those of FindingTriage and of  *)
(* its control plane (Tenancy); a handler stores its rows, statement by    *)
(* statement, and then the audit event that tells of them.  Every process, *)
(* the API and each command of the CLI, first runs initialize, which ends  *)
(* by storing the default organization and workspace again.                *)
(***************************************************************************)
EXTENDS FindingTriage, Tenancy

CONSTANTS
    NoEvent,        \* no handler at work
    MaxWork         \* bound: requests, those of FindingTriage included

\* What the table audit_events holds: a row's kind and key, and what was asked.
\* The event of a PATCH says that the note was changed, and not to what.
Events ==
         [kind : {"organization"}, id : OrganizationIds, value : Slugs]
    \cup [kind : {"workspace"}, id : WorkspaceIds, value : OrganizationIds]
    \cup [kind : {"user"}, id : UserIds, value : Subjects]
    \cup [kind : {"membership"}, id : MembershipIds, value : Membership]
    \cup [kind : {"finding"}, id : Findings,
          value : Seq(Writes \cup [verb : {"patch"}, finding : Findings, field : {"note"}, value : {Nothing}])]

ASSUME ServerAssumption ==
    /\ MaxWork \in Nat
    /\ Api \notin Commands
    /\ NoEvent \notin Events

VARIABLES
    boot,        \* where each process stands in bootstrap_default_tenancy, or after it
    pending,     \* the event the handler at work will record
    audit,       \* table audit_events, in order
    creations,   \* requests to the control plane, and empty patches, so far
    \* History, read by no step:
    told,        \* the subject for which an answer named a user identifier
    renamed,     \* someone gave the default organization another slug
    moved,       \* workspaces that have changed their organization
    outside,     \* findings that a command has written
    gap          \* a handler ended between its rows and its event

server   == <<boot, pending, audit, creations>>
chronicle == <<told, renamed, moved, outside, gap>>
serverVars == <<vars, tables, server, chronicle>>

Event(kind, id, value) == [kind |-> kind, id |-> id, value |-> value]

ServerInit ==
    /\ Init
    /\ TenancyInit
    /\ boot = [a \in Actors |-> "down"]
    /\ pending = NoEvent
    /\ audit = <<>>
    /\ creations = 0
    /\ told = [u \in UserIds |-> NoRow]
    /\ renamed = FALSE
    /\ moved = {}
    /\ outside = {}
    /\ gap = FALSE

Enter(a, s) == boot' = [boot EXCEPT ![a] = s]

(***************************************************************************)
(* The start of a process                                                  *)
(***************************************************************************)
\* What initialize does before is in Migration.
BeginStart(a) ==
    /\ boot[a] \in {"down", "refused"}
    /\ Enter(a, "organization")
    /\ UNCHANGED <<vars, tables, pending, audit, creations, chronicle>>

\* Mutant: INSERT OR IGNORE.
BootOrganizationIgnoring(a) ==
    /\ boot[a] = "organization"
    /\ organizations' = IF SlugTaken(Default, Default) THEN organizations
                        ELSE [organizations EXCEPT ![Default] = Default]
    /\ Enter(a, "workspace")
    /\ UNCHANGED <<vars, workspaces, users, memberships, pending, audit, creations, chronicle>>
BootOrganization(a) ==
    /\ boot[a] = "organization"
    /\ UpsertOrganization(Default, Default)
    /\ Enter(a, "workspace")
    /\ UNCHANGED <<vars, pending, audit, creations, chronicle>>

\* The error ends initialize, and with it the process.
BootRefused(a) ==
    /\ boot[a] = "organization"
    /\ SlugTaken(Default, Default)
    /\ Enter(a, "refused")
    /\ UNCHANGED <<vars, tables, pending, audit, creations, chronicle>>

Moved(w, o) == {x \in {w} : workspaces[w] \notin {NoRow, o}}

BootWorkspace(a) ==
    /\ boot[a] = "workspace"
    /\ UpsertWorkspace(Default, Default)
    /\ moved' = moved \cup Moved(Default, Default)
    /\ Enter(a, "up")
    /\ UNCHANGED <<vars, pending, audit, creations, told, renamed, outside, gap>>

(***************************************************************************)
(* The handlers of the control plane, and the event after their row        *)
(***************************************************************************)
\* The Mutex around the store is free.
ApiFree == boot[Api] = "up" /\ pending = NoEvent

BelowBound == creations + requests < MaxWork

Handle(event) ==
    /\ ApiFree
    /\ BelowBound
    /\ creations' = creations + 1
    /\ pending' = event
    /\ UNCHANGED <<vars, boot, audit>>

CreateOrganization(o, s) ==
    /\ Handle(Event("organization", o, s))
    /\ UpsertOrganization(o, s)
    /\ renamed' = (renamed \/ (o = Default /\ s # Default))
    /\ UNCHANGED <<told, moved, outside, gap>>

\* Nobody looks whether there is such an organization; a client names one of the list.
CreateWorkspace(w, o) ==
    /\ organizations[o] # NoRow
    /\ Handle(Event("workspace", w, o))
    /\ UpsertWorkspace(w, o)
    /\ moved' = moved \cup Moved(w, o)
    /\ UNCHANGED <<told, renamed, outside, gap>>

\* The answer, like the event, names the identifier of the request.
CreateUser(u, subject) ==
    /\ Handle(Event("user", u, subject))
    /\ UpsertUser(u, subject)
    /\ told' = [told EXCEPT ![u] = subject]
    /\ UNCHANGED <<renamed, moved, outside, gap>>

\* Nobody looks at the identifiers: a client uses those it was told.
CreateMembership(m, new) ==
    /\ told[new.user] # NoRow
    /\ workspaces[new.workspace] = new.organization
    /\ Handle(Event("membership", m, new))
    /\ UpsertMembership(m, new)
    /\ UNCHANGED chronicle

\* The statement fails, and there is no event.
RefuseCreation ==
    /\ \/ \E o \in OrganizationIds, s \in Slugs : SlugTaken(o, s)
       \/ \E u \in UserIds, subject \in Subjects : UserRefused(u, subject)
    /\ Handle(NoEvent)
    /\ UNCHANGED <<tables, chronicle>>

\* record_audit_event_scoped, once the handler has stored everything.
RecordAudit ==
    /\ pending # NoEvent
    /\ todo[Api] = <<>>
    /\ audit' = Append(audit, pending)
    /\ pending' = NoEvent
    /\ UNCHANGED <<vars, tables, boot, creations, chronicle>>

(***************************************************************************)
(* The requests of FindingTriage                                           *)
(***************************************************************************)
\* The event of a PATCH says that the note was changed, and not to what.
Recorded(w) == IF w.verb = "patch" /\ w.field = "note" THEN [w EXCEPT !.value = Nothing] ELSE w

ApiRequest(f) ==
    /\ ApiFree
    /\ BelowBound
    /\ Request(Api, f)
    /\ pending' = Event("finding", f, [k \in DOMAIN todo'[Api] |-> Recorded(todo'[Api][k])])
    /\ UNCHANGED <<tables, boot, audit, creations, chronicle>>

\* A PATCH that names no column does not even ask whether the finding is known.
EmptyPatch(f) ==
    /\ Handle(Event("finding", f, <<>>))
    /\ UNCHANGED <<tables, chronicle>>

\* A command of the CLI does one thing and ends; it records no event.
CommandRequest(c, f) ==
    /\ boot[c] = "up"
    /\ BelowBound
    /\ Request(c, f)
    /\ Enter(c, "working")
    /\ UNCHANGED <<tables, pending, audit, creations, chronicle>>

\* The error of a write ends the handler before its event.  Mutant: it is ignored.
AfterErrorOnward(a) == pending
AfterError(a) == IF a = Api THEN NoEvent ELSE pending

WorkOn(a) ==
    \/ /\ RefuseUnknown(a)
       /\ pending' = AfterError(a)
       /\ UNCHANGED <<tables, boot, audit, creations, chronicle>>
    \/ /\ ReadTriage(a)
       /\ UNCHANGED <<tables, server, chronicle>>
    \/ /\ UpsertTriage(a)
       /\ outside' = IF a = Api THEN outside ELSE outside \cup {Head(todo[a]).finding}
       /\ UNCHANGED <<tables, server, told, renamed, moved, gap>>

DropRequest(a) == IF todo[a] # <<>> THEN Abandon(a) ELSE UNCHANGED vars

\* A statement of the handler fails, that of the event included: the answer is an error.
HandlerFails ==
    /\ pending # NoEvent
    /\ DropRequest(Api)
    /\ pending' = NoEvent
    /\ gap' = TRUE
    /\ UNCHANGED <<tables, boot, audit, creations, told, renamed, moved, outside>>

\* A process ends, or dies.
Leave(a) ==
    /\ boot[a] \notin {"down", "refused"}
    /\ DropRequest(a)
    /\ Enter(a, "down")
    /\ pending' = IF a = Api THEN NoEvent ELSE pending
    /\ gap' = (gap \/ (a = Api /\ pending # NoEvent))
    /\ UNCHANGED <<tables, audit, creations, told, renamed, moved, outside>>

ServerRegistersFinding(f) ==
    /\ RegisterFinding(f)
    /\ UNCHANGED <<tables, server, chronicle>>

StartStep(a) == BeginStart(a) \/ BootOrganization(a) \/ BootRefused(a) \/ BootWorkspace(a)

Create ==
    \/ \E o \in OrganizationIds, s \in Slugs : CreateOrganization(o, s)
    \/ \E w \in WorkspaceIds, o \in OrganizationIds : CreateWorkspace(w, o)
    \/ \E u \in UserIds, subject \in Subjects : CreateUser(u, subject)
    \/ \E m \in MembershipIds, new \in Membership : CreateMembership(m, new)
    \/ RefuseCreation

ServerNext ==
    \/ \E a \in Actors : StartStep(a) \/ WorkOn(a) \/ Leave(a)
    \/ \E f \in Findings : ServerRegistersFinding(f) \/ ApiRequest(f) \/ EmptyPatch(f)
    \/ \E c \in Commands, f \in Findings : CommandRequest(c, f)
    \/ Create \/ RecordAudit \/ HandlerFails

ServerSpec == ServerInit /\ [][ServerNext]_serverVars

(***************************************************************************)
(* Properties                                                              *)
(***************************************************************************)
\* The Mutex, the starts and the events leave the triage as it is.
ImplementsTriage == TriageSpec

\* A start is refused only after the default organization was renamed: as long
\* as it has its slug no other can take it.
StartsFailForCause == \A a \in Actors : boot[a] = "refused" => renamed

\* A membership made of what clients were told goes astray in two ways only: the
\* subject had a user already, so that the identifier in the answer is nobody's,
\* or the workspace was created again in another organization, by a client or by
\* a start.
AstrayHasCause ==
    \A m \in MembershipIds : memberships[m] # NoRow =>
        LET x == memberships[m]
        IN /\ users[x.user] = NoRow => UsersOf(told[x.user]) # {}
           /\ workspaces[x.workspace] # x.organization => x.workspace \in moved

FaultsHaveCause == StartsFailForCause /\ AstrayHasCause

\* Once another organization has the slug of the default one and the API is
\* down, no process gets through its start again, and nobody is left who could
\* give the slug back.
LockedOut == boot[Api] \in {"down", "organization", "refused"} /\ SlugTaken(Default, Default)
LockedOutForGood == [][LockedOut => LockedOut']_serverVars

\* What the events about a row say, one after the other.
EventsOf(kind, id) == {i \in DOMAIN audit : audit[i].kind = kind /\ audit[i].id = id}
FirstOf(is) == audit[CHOOSE i \in is : \A j \in is : i <= j].value
LastOf(is) == audit[CHOOSE i \in is : \A j \in is : j <= i].value
Told(kind, id) == IF EventsOf(kind, id) = {} THEN NoRow ELSE LastOf(EventsOf(kind, id))

ColumnIsTold(f, x) ==
    LET naming == {i \in EventsOf("finding", f) : \E k \in DOMAIN audit[i].value : audit[i].value[k].field = x}
        last   == LastOf(naming)
    IN  IF naming = {} THEN row[f][x] = Untriaged[x]
        ELSE \A k \in DOMAIN last : last[k].field = x => ColumnOf(last[k]) \in {row[f][x], Nothing}

\* While no handler is at work and none has ended half way, the audit trail and
\* the tables agree, but for what commands and starts do beside it: the rows are
\* what the events say when they are read in order.  Of a user the trail may have
\* the wrong identifier, of a membership it has more than was stored, and of the
\* note of a PATCH only that there was one.
AuditTellsRows ==
    (pending = NoEvent /\ ~gap) =>
        /\ \A f \in Findings \ outside : \A x \in Fields : ColumnIsTold(f, x)
        /\ \A o \in OrganizationIds :
              organizations[o] = Told("organization", o) \/ (o = Default /\ organizations[o] = Default)
        /\ \A w \in WorkspaceIds :
              workspaces[w] = Told("workspace", w) \/ (w = Default /\ workspaces[w] = Default)
        /\ \A u \in UserIds : users[u] # NoRow => \E i \in EventsOf("user", u) : audit[i].value = users[u]
        /\ \A i \in DOMAIN audit : audit[i].kind = "user" => UsersOf(audit[i].value) # {}
        /\ \A m \in MembershipIds :
              memberships[m] = IF EventsOf("membership", m) = {} THEN NoRow
                               ELSE [FirstOf(EventsOf("membership", m)) EXCEPT !.role = Told("membership", m).role]
============================================================================
