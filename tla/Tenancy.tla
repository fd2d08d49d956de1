------------------------------ MODULE Tenancy ------------------------------
(***************************************************************************)
(* Organizations, workspaces, users and memberships (atlas-tenancy): four  *)
(* tables and one INSERT .. ON CONFLICT for each.                          *)
(*                                                                         *)
(* Each statement resolves one conflict and leaves the others to SQLite,   *)
(* and there are no foreign keys.  Names, mails and environments are left  *)
(* out; nothing depends on them.                                           *)
(***************************************************************************)
EXTENDS Naturals

CONSTANTS
    OrganizationIds, WorkspaceIds, UserIds, MembershipIds,
    Slugs,      \* of organizations; those of workspaces are not unique
    Subjects,   \* of users
    Roles,
    Default,    \* "default": an organization, its slug, and a workspace
    NoRow       \* an identifier that is not in its table

Membership == [organization : OrganizationIds, workspace : WorkspaceIds, user : UserIds, role : Roles]

ASSUME TenancyAssumption ==
    /\ Default \in OrganizationIds /\ Default \in WorkspaceIds /\ Default \in Slugs
    /\ NoRow \notin OrganizationIds \cup Slugs \cup Subjects \cup Membership

VARIABLES
    organizations,   \* the slug of each
    workspaces,      \* the organization of each
    users,           \* the subject of each
    memberships

tables == <<organizations, workspaces, users, memberships>>

TenancyInit ==
    /\ organizations = [o \in OrganizationIds |-> NoRow]
    /\ workspaces = [w \in WorkspaceIds |-> NoRow]
    /\ users = [u \in UserIds |-> NoRow]
    /\ memberships = [m \in MembershipIds |-> NoRow]

\* A slug is UNIQUE: a row other than the one in conflict makes the statement
\* fail.  Mutant: the statement is a plain INSERT.
SlugTakenByAny(o, s) == \E p \in OrganizationIds : organizations[p] = s
SlugTaken(o, s) == \E p \in OrganizationIds \ {o} : organizations[p] = s

\* ON CONFLICT(organization_id).
UpsertOrganization(o, s) ==
    /\ ~SlugTaken(o, s)
    /\ organizations' = [organizations EXCEPT ![o] = s]
    /\ UNCHANGED <<workspaces, users, memberships>>

\* ON CONFLICT(workspace_id): the organization is one of the columns it sets.
UpsertWorkspace(w, o) ==
    /\ workspaces' = [workspaces EXCEPT ![w] = o]
    /\ UNCHANGED <<organizations, users, memberships>>

UsersOf(subject) == {u \in UserIds : users[u] = subject}

\* ON CONFLICT(subject): the row that has the subject keeps its identifier.
UpsertUser(u, subject) ==
    /\ UsersOf(subject) # {} \/ users[u] = NoRow
    /\ users' = IF UsersOf(subject) = {} THEN [users EXCEPT ![u] = subject] ELSE users
    /\ UNCHANGED <<organizations, workspaces, memberships>>

\* The identifier is a key as well, and its conflict is not resolved.  When both
\* are taken, by two rows, SQLite may meet either first.
UserRefused(u, subject) == users[u] \notin {NoRow, subject}

\* ON CONFLICT(membership_id): the role is the only column it sets.
UpsertMembership(m, new) ==
    /\ memberships' = [memberships EXCEPT ![m] =
           IF memberships[m] = NoRow THEN new ELSE [memberships[m] EXCEPT !.role = new.role]]
    /\ UNCHANGED <<organizations, workspaces, users>>

TenancyTypeOK ==
    /\ organizations \in [OrganizationIds -> Slugs \cup {NoRow}]
    /\ workspaces \in [WorkspaceIds -> OrganizationIds \cup {NoRow}]
    /\ users \in [UserIds -> Subjects \cup {NoRow}]
    /\ memberships \in [MembershipIds -> Membership \cup {NoRow}]

\* What UNIQUE keeps.
SlugsAreUnique ==
    \A o, p \in OrganizationIds : organizations[o] # NoRow /\ organizations[o] = organizations[p] => o = p
============================================================================
