SPECIFICATION ServerSpec
CONSTANTS
    Findings = {f1}
    Api = api
    Commands = {c1}
    Owners = {o1}
    Notes = {n1}
    Nothing = Nothing
    NoCopy = NoCopy
    MaxRequests = 2
    OrganizationIds = {Default, acme}
    WorkspaceIds = {Default, prod}
    UserIds = {u1, u2}
    MembershipIds = {m1}
    Slugs = {Default, slug}
    Subjects = {s1, s2}
    Roles = {admin, viewer}
    Default = Default
    NoRow = NoRow
    NoEvent = NoEvent
    MaxWork = 3
INVARIANTS UncontestedFieldsHold FaultsHaveCause AuditTellsRows
PROPERTY LockedOutForGood
SYMMETRY PeopleSymmetry
CHECK_DEADLOCK FALSE
