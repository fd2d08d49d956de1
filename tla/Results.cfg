SPECIFICATION Spec
CONSTANTS
    Target = "example"
    Ips = {}
    Subdomains = {}
    Services = {"https://example"}
    Host <- HostTable
    Environment <- EnvironmentTable
    Pattern <- NoTable
    Scheme <- SchemeTable
    Base <- BaseTable
    Answers <- AnswerSet
    Gone = Gone
    Policies = {"none", "policy"}
    PolicyAt <- PolicyTable
    MaxSnapshots = 3
    Workers = {w1, w2}
    None = None
    MaxSeconds = 3
    MaxEvents = 1
    b1 = b1
    b2 = b2
INVARIANTS ResultsTellTimeline ListingTellsLatest StrayRowsHaveCause EpisodesStayTrue
PROPERTIES TornStopsTarget
SYMMETRY Symmetry
CHECK_DEADLOCK FALSE
