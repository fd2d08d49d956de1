----------------------------- MODULE GraphSearch -----------------------------
(***************************************************************************)
(* The searches of the query engine (atlas-query) on a graph: paths,       *)
(* neighbours and the expansion of matches.  A graph is a set of nodes and *)
(* a set of edges; one that was loaded while a store was going on may have *)
(* edges to nodes that are not there.                                      *)
(***************************************************************************)
EXTENDS Integers, FiniteSets, SequencesExt, GraphIds

CONSTANT Label    \* of a node; a target and its own subdomain have the same

AllNodes == DOMAIN NodeRank
AllEdges == DOMAIN EdgeRank

ASSUME SearchAssumption ==
    /\ IsFiniteSet(AllNodes) /\ IsFiniteSet(AllEdges)
    /\ \A m, n \in AllNodes : NodeRank[m] \in Nat /\ (NodeRank[m] = NodeRank[n] => m = n)
    /\ \A d, e \in AllEdges : EdgeRank[d] \in Nat /\ (EdgeRank[d] = EdgeRank[e] => d = e)
    /\ \A e \in AllEdges : e = [from |-> e.from, to |-> e.to, kind |-> e.kind] /\ {e.from, e.to} \subseteq AllNodes
    /\ DOMAIN Label = AllNodes

(***************************************************************************)
(* build_adjacency and the breadth-first search                            *)
(***************************************************************************)
\* A set in the order of its ranks.
InRankOrder(rank, set) ==
    CHOOSE seq \in SetToSeqs(set) : \A i, j \in DOMAIN seq : i < j => rank[seq[i]] < rank[seq[j]]

EdgesAt(g, v) == {e \in g.edges : v \in {e.from, e.to}}

\* The other ends of the edges at v, in the order of the edges.  Mutant: only along edges.
AdjacencyAlong(g, v) ==
    LET here == InRankOrder(EdgeRank, {e \in g.edges : v = e.from})
    IN  [k \in DOMAIN here |-> here[k].to]
Adjacency(g, v) ==
    LET here == InRankOrder(EdgeRank, EdgesAt(g, v))
    IN  [k \in DOMAIN here |-> IF here[k].from = v THEN here[k].to ELSE here[k].from]

\* The queue with its history: an entry is a node, the place of the entry it
\* was found from, and its depth.
Entry(node, via, depth) == [node |-> node, via |-> via, depth |-> depth]
Visited(queue, n) == \E i \in DOMAIN queue : queue[i].node = n
EnqueueNew(g, queue, k) ==
    LET next == Adjacency(g, queue[k].node)
        With[j \in 0 .. Len(next)] ==
            IF j = 0 THEN queue
            ELSE LET before == With[j - 1]
                 IN  IF Visited(before, next[j]) THEN before
                     ELSE Append(before, Entry(next[j], k, queue[k].depth + 1))
    IN  With[Len(next)]

\* The queue after its first k entries have been taken.
Search(g, seeds, depth) ==
    LET size == Cardinality(AllNodes)
        After[k \in 0 .. size] ==
            IF k = 0 THEN [i \in DOMAIN seeds |-> Entry(seeds[i], 0, 0)]
            ELSE LET queue == After[k - 1]
                 IN  IF k > Len(queue) \/ queue[k].depth >= depth THEN queue
                     ELSE EnqueueNew(g, queue, k)
    IN  After[size]

NoPath == <<>>

\* bfs_shortest_path: back along the entries a node was found from.
ShortestPath(g, from, to) ==
    LET queue == Search(g, <<from>>, Cardinality(AllNodes))
        Back[k \in DOMAIN queue] ==
            IF queue[k].via = 0 THEN <<queue[k].node>> ELSE Append(Back[queue[k].via], queue[k].node)
    IN  IF Visited(queue, to)
        THEN Back[CHOOSE k \in DOMAIN queue : queue[k].node = to]
        ELSE NoPath

\* expand_ids.
Expand(g, seeds, depth, excludeSeeds) ==
    LET queue == Search(g, seeds, depth)
        found == {queue[k].node : k \in DOMAIN queue}
    IN  IF excludeSeeds THEN found \ ToSet(seeds) ELSE found

(***************************************************************************)
(* The three kinds of query; seeds are what preset and filter let through  *)
(***************************************************************************)
\* resolve_node_id for a label: the first node that has it.
Resolve(g, label) ==
    LET named == {n \in g.nodes : Label[n] = label}
    IN  {n \in named : \A m \in named : NodeRank[n] <= NodeRank[m]}

\* ids_to_matches and the loop over the path: ids without a node are passed over.
Matches(g, ids) ==
    LET Among[k \in 0 .. Len(ids)] ==
            IF k = 0 THEN <<>>
            ELSE LET before == Among[k - 1]
                 IN  IF ids[k] \in g.nodes THEN Append(before, ids[k]) ELSE before
    IN  Among[Len(ids)]

PathQuery(g, from, to) == Matches(g, ShortestPath(g, from, to))
InOrder(ids) == InRankOrder(NodeRank, ids)
NeighborsQuery(g, seeds, depth) == Expand(g, seeds, depth, TRUE) \cap g.nodes
FilterQuery(g, seeds, depth) ==
    IF depth > 0 THEN Expand(g, seeds, depth, FALSE) \cap g.nodes ELSE ToSet(seeds)

(***************************************************************************)
(* What the searches should find, defined without a queue                  *)
(***************************************************************************)
Joined(g, a, b) == \E e \in g.edges : {e.from, e.to} = {a, b}

\* The nodes within d edges of the seeds.
Ball(g, seeds, d) ==
    LET Within[k \in 0 .. d] ==
            IF k = 0 THEN seeds
            ELSE Within[k - 1] \cup {b \in AllNodes : \E a \in Within[k - 1] : Joined(g, a, b)}
    IN  Within[d]

Furthest == Cardinality(AllNodes)

FindsShortestPaths(g) ==
    \A from, to \in g.nodes :
        LET path == ShortestPath(g, from, to)
        IN IF path = NoPath THEN to \notin Ball(g, {from}, Furthest)
           ELSE /\ path[1] = from
                /\ path[Len(path)] = to
                /\ \A k \in 1 .. Len(path) - 1 : Joined(g, path[k], path[k + 1])
                /\ (Len(path) > 1 => to \notin Ball(g, {from}, Len(path) - 2))

FindsNeighbors(g) ==
    \A d \in 1 .. 2 : \A seeds \in SUBSET g.nodes :
        LET near == Ball(g, seeds, d) \cap g.nodes
        IN  /\ NeighborsQuery(g, InOrder(seeds), d) = near \ seeds
            /\ FilterQuery(g, InOrder(seeds), d) = near

AnswersWithoutGaps(g) ==
    \A a, b \in {Label[n] : n \in g.nodes} :
        \A from \in Resolve(g, a), to \in Resolve(g, b) :
            LET answer == PathQuery(g, from, to)
            IN /\ answer # NoPath
               /\ Label[answer[1]] = a
               /\ Label[answer[Len(answer)]] = b
               /\ \A k \in 1 .. Len(answer) - 1 : Joined(g, answer[k], answer[k + 1])
=============================================================================
