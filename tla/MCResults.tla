----------------------------- MODULE MCResults -----------------------------
\* An instance of Results for TLC: a service of the target that has one of two
\* backends, so that three snapshots show a change that recurs; or an address.
EXTENDS Results

CONSTANTS b1, b2   \* backends: which is which does not matter

Service == "https://example"
EnvironmentTable == (Service :> "production") @@ ("ip" :> "unknown")
SchemeTable == Service :> "https"
HostTable == Service :> "example"
BaseTable == (Service :> "example") @@ ("ip" :> "ip")
NoTable == <<>>

AnswerSet == {[status |-> 200, backend |-> b, technologies |-> {}, headers |-> FALSE] : b \in {b1, b2}}

\* The exception ends with the second snapshot.
PolicyTable == ("none" :> NoPolicy) @@ ("policy" :> [NoPolicy EXCEPT !.exceptions =
    {[category |-> "service_backend_changed", resource |-> Service, expires |-> 2]}])

Symmetry == Permutations(Workers) \cup Permutations({b1, b2})
============================================================================
