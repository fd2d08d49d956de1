--------------------------- MODULE MCGraphQueries ---------------------------
\* An instance of GraphQueries for TLC: a target with its own subdomain, and
\* graphs that have a node and an edge the other has not.
EXTENDS GraphQueries, TLC

CONSTANTS target, subdomain, service, ip,   \* nodes
          w1, w2                        \* writers

WriterSymmetry == Permutations({w1, w2})

Edge(from, to, kind) == [from |-> from, to |-> to, kind |-> kind]
Anchor == Edge(target, subdomain, "contains")

GraphSet == {
    [nodes |-> {target, subdomain, service},
     edges |-> {Anchor, Edge(subdomain, service, "exposes"), Edge(target, service, "belongs_to")}],
    [nodes |-> {target, subdomain, ip},
     edges |-> {Anchor, Edge(subdomain, ip, "resolves_to")}]}

NodeOrder == <<service, target, ip, subdomain>>
EdgeOrder == <<Edge(subdomain, service, "exposes"), Anchor, Edge(subdomain, ip, "resolves_to"),
               Edge(target, service, "belongs_to")>>
NodeRankTable == [n \in ToSet(NodeOrder) |-> CHOOSE k \in DOMAIN NodeOrder : NodeOrder[k] = n]
EdgeRankTable == [e \in ToSet(EdgeOrder) |-> CHOOSE k \in DOMAIN EdgeOrder : EdgeOrder[k] = e]

LabelTable == [n \in ToSet(NodeOrder) |-> IF n = target THEN subdomain ELSE n]
============================================================================
