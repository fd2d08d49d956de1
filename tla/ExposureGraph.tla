--------------------------- MODULE ExposureGraph ---------------------------
(***************************************************************************)
(* The exposure graph of a target (atlas-graph): build_full_graph merges   *)
(* what the last snapshot, the timeline and the episodes say.              *)
(*                                                                         *)
(* A graph maps its nodes to the timestamps merged into first_seen and     *)
(* last_seen, which are the least and the greatest of them and absent if   *)
(* there are none.  Attributes, weights and statistics are left out.       *)
(***************************************************************************)
EXTENDS Episodes, FiniteSetsExt

Node(kind, label) == <<kind, label>>
Edge(from, kind, to) == <<from, kind, to>>

TargetNode == Node("target", Target)
HostNode(h) == Node("subdomain", h)
ServiceNode(s) == Node("service", s)

\* A service hangs on its host.
Parent(s) == HostNode(Host[s])

\* infer_node_kind_from_resource.
ResourceNode(r) == Node(IF r \in Ips THEN "ip" ELSE IF r \in Services THEN "service" ELSE "subdomain", r)

EmptyGraph == [nodes |-> [n \in {TargetNode} |-> {}], edges |-> {}]

SeenIn(g, n) == IF n \in DOMAIN g.nodes THEN g.nodes[n] ELSE {}

\* The graphs merged one after the other, by upsert_node and upsert_edge: the
\* order tells nothing.  Mutant: a node keeps the times it came with first.
MergedKeeping(graphs) ==
    [nodes |-> [n \in UNION {DOMAIN g.nodes : g \in graphs} |->
                   (CHOOSE g \in graphs : n \in DOMAIN g.nodes /\ g.nodes[n] # {}).nodes[n]],
     edges |-> UNION {g.edges : g \in graphs}]
Merged(graphs) ==
    [nodes |-> [n \in UNION {DOMAIN g.nodes : g \in graphs} |-> UNION {SeenIn(g, n) : g \in graphs}],
     edges |-> UNION {g.edges : g \in graphs}]

\* build_graph_from_snapshot: the addresses are those of the target, and every
\* host is taken to resolve to all of them.
FromSnapshot(scan, time) ==
    LET hosts == scan.subdomains \cup {Target}
        up    == Present(scan)
        parts == {ResourceNode(a) : a \in scan.ips} \cup {HostNode(h) : h \in hosts}
                 \cup {Parent(s) : s \in up} \cup {ServiceNode(s) : s \in up}
                 \cup {Node("technology", t) : t \in UNION {scan.services[s].technologies : s \in up}}
    IN  [nodes |-> [n \in parts \cup {TargetNode} |-> {time}],
         edges |-> {Edge(TargetNode, "contains", HostNode(h)) : h \in hosts}
              \cup {Edge(HostNode(h), "resolves_to", ResourceNode(a)) : h \in hosts, a \in scan.ips}
              \cup {Edge(Parent(s), "exposes", ServiceNode(s)) : s \in up}
              \cup UNION {{Edge(ServiceNode(s), "fingerprints_as", Node("technology", t)) :
                              t \in scan.services[s].technologies} : s \in up}]

\* build_graph_from_timeline: what was active in some transition.
Reporting(r) == {k \in DOMAIN reports : \E f \in reports[k].active : f.resource = r}
FromTimeline ==
    LET about == {r \in Resources : Reporting(r) # {}}
    IN  [nodes |-> [n \in {ResourceNode(r) : r \in about} \cup {TargetNode} |->
                       IF n = TargetNode THEN {} ELSE UNION {{k, k + 1} : k \in Reporting(n[2])}],
         edges |-> {Edge(TargetNode, "belongs_to", ResourceNode(r)) : r \in about}]

\* build_graph_from_episode_collection, one episode of it.
FromEpisode(e) ==
    LET here  == Node("episode", e.id)
        parts == {ResourceNode(r) : r \in e.resources}
    IN  [nodes |-> [n \in parts \cup {here, TargetNode} |-> IF n = TargetNode THEN {} ELSE {e.started, e.ended}],
         edges |-> {Edge(TargetNode, "contains", here)} \cup {Edge(n, "participates_in", here) : n \in parts}]

\* build_full_graph; without a second snapshot there is no timeline, which
\* comes to the same as one without transitions.
FullGraph ==
    LET now == Len(snapshots)
    IN  Merged({EmptyGraph, FromSnapshot(snapshots[now], now), FromTimeline}
               \cup {FromEpisode(e) : e \in Episodes})

(***************************************************************************)
(* Properties                                                              *)
(***************************************************************************)
At(k) == snapshots[k].ips \cup snapshots[k].subdomains \cup Present(snapshots[k])
ResourcesOf(g) == {r \in Resources : ResourceNode(r) \in DOMAIN g.nodes}

\* The nodes given and those that an edge joins them to, along it or against it.
Around(g, near) ==
    near \cup {e[1] : e \in {d \in g.edges : d[3] \in near}} \cup {e[3] : e \in {d \in g.edges : d[1] \in near}}

\* Edges join nodes that are there, and no node is more than three edges away
\* from the target: a PATH query from the target finds whatever the graph has.
GraphIsConnected ==
    LET g == FullGraph
    IN  /\ \A e \in g.edges : {e[1], e[3]} \subseteq DOMAIN g.nodes
        /\ DOMAIN g.nodes = Around(g, Around(g, Around(g, {TargetNode})))

\* Of a resource of which no finding was held back, last_seen is now if it is
\* there, and otherwise the scan that first missed it.
LastSeenTellsGoing ==
    LET g   == FullGraph
        now == Len(snapshots)
    IN \A r \in ResourcesOf(g) :
        (\A k \in DOMAIN reports : \A f \in reports[k].suppressed : f.resource # r) =>
            LET last == Max(SeenIn(g, ResourceNode(r)))
            IN IF r \in At(now) THEN last = now
               ELSE r \in At(last - 1) /\ \A j \in last .. now : r \notin At(j)

\* The merged graph tells what the timeline does: everything it has is joined
\* to the target, and is as recent as the scans and findings say.
GraphTellsTimeline == GraphIsConnected /\ LastSeenTellsGoing

\* A resource leaves the graph of a target only when it has gone and the policy
\* holds back the finding that says so: what is held back is in no timeline.
NothingVanishesUnreported ==
    [][\A r \in ResourcesOf(FullGraph) \ ResourcesOf(FullGraph') :
          \E f \in reports'[Len(reports')].suppressed : f.resource = r /\ f.category \in Going]_vars
============================================================================
