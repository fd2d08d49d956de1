SPECIFICATION Spec
CONSTANTS
    Target = "example"
    Ips = {"ip"}
    Subdomains = {}
    Services = {}
    Host <- HostTable
    Environment <- EnvironmentTable
    Pattern <- NoTable
    Scheme <- SchemeTable
    Base <- BaseTable
    Answers <- AnswerSet
    Gone = Gone
    Policies = {"none", "policy"}
    PolicyAt <- PolicyTable
    MaxSnapshots = 2
    Workers = {w1}
    None = None
    MaxSeconds = 2
    MaxEvents = 1
    b1 = b1
    b2 = b2
INVARIANT ReportTellsNewest
CHECK_DEADLOCK FALSE
