SPECIFICATION DriftSpec
CONSTANTS
    Target = "example"
    Ips = {"ip"}
    Subdomains = {"admin.example"}
    Services = {"http://admin.example"}
    Host <- HostTable
    Environment <- EnvironmentTable
    Pattern <- PatternTable
    Scheme <- SchemeTable
    Base <- BaseTable
    NameRank <- NameTable
    Admin = {"admin.example", "http://admin.example"}
    Answers <- AnswerSet
    Gone = Gone
    Policies <- PolicySet
    MaxSnapshots = 4
INVARIANTS StatesTellHistory RowsTellChanges GraphTellsTimeline RisksTellAnalysis
PROPERTY NothingVanishesUnreported
CHECK_DEADLOCK FALSE
