------------------------------ MODULE MCRisk ------------------------------
\* An instance of Risk, and so of Drift, Episodes and ExposureGraph, for TLC:
\* an address, a subdomain with "admin" in its name and a plain HTTP service of
\* it, one answer for each thing the comparison tells apart, and two policies
\* that between them say everything a policy can say.
EXTENDS Risk, TLC

EnvironmentTable == ("ip" :> "unknown") @@ ("admin.example" :> "admin") @@ ("http://admin.example" :> "admin")
PatternTable == "admin.example" :> "admin"
SchemeTable == "http://admin.example" :> "http"
HostTable == "http://admin.example" :> "admin.example"
BaseTable == ("ip" :> "ip") @@ ("admin.example" :> "admin.example")
    @@ ("http://admin.example" :> "admin.example")
NameTable == ("admin.example" :> 1) @@ ("http://admin.example" :> 2) @@ ("ip" :> 3)

Usual == [status |-> 200, backend |-> "b1", technologies |-> {"t1"}, headers |-> FALSE]
AnswerSet == {
    Usual,
    [Usual EXCEPT !.status = 503],
    [Usual EXCEPT !.headers = TRUE],
    [Usual EXCEPT !.backend = "b2", !.technologies = {"t1", "t2"}]}

\* The exceptions end with the third snapshot.
PolicySet == {
    [NoPolicy EXCEPT
        !.baseline = {"new_ip", "admin.example", "service_backend_changed"},
        !.allowedCategories = {"subdomain_removed"},
        !.overrides = ("http://admin.example" :> "production")],
    [NoPolicy EXCEPT
        !.exceptions = {[category |-> "service_backend_changed", resource |-> "http://admin.example", expires |-> 3],
                        [category |-> "new_admin_subdomain", resource |-> "admin.example", expires |-> 3]},
        !.allowedResources = {"ip"}, !.critical = {"admin.example"},
        !.overrides = ("http://admin.example" :> "staging") @@ ("admin.example" :> "staging")]}
============================================================================
