---------------------------- MODULE GraphQueries ----------------------------
(***************************************************************************)
(* The searches of GraphSearch, run on what a reader of GraphStore has     *)
(* loaded, which need not be a graph that was built: a store may have been *)
(* going on.                                                               *)
(***************************************************************************)
EXTENDS GraphStore, GraphSearch

\* A graph that was built has the ends of its edges, and is connected: ExposureGraph
\* has this of build_full_graph, as GraphIsConnected.
ASSUME ConnectedAssumption ==
    /\ NodeIds \subseteq AllNodes /\ EdgeIds \subseteq AllEdges
    /\ \A g \in Graphs :
          /\ \A e \in g.edges : {e.from, e.to} \subseteq g.nodes
          /\ \A part \in SUBSET g.nodes :
                (part # {} /\ \A a \in part, b \in g.nodes : Joined(g, a, b) => b \in part) => part = g.nodes

\* What a query gets to see.
Loaded(r) == [nodes |-> reader[r].nodes, edges |-> reader[r].edges]

(***************************************************************************)
(* Properties.  A query is answered from the graph as it has been loaded.  *)
(***************************************************************************)
JustLoaded(r) == reader[r].step = "edges" /\ reader'[r].step = "loaded"

\* Whatever was loaded, a path is found if and only if there is one, and none is
\* shorter; a neighbours query finds all nodes within its depth, none left out
\* because a longer way led there first, and an expanding filter the same with
\* the seeds, the search going on behind nodes that are not there.  A reader that
\* no store disturbed gets a path between any two labels of the graph, and the answer
\* has no gap: consecutive matches are joined.
SearchesAreExact ==
    [][\A r \in Readers : JustLoaded(r) =>
          /\ FindsShortestPaths(Loaded(r)')
          /\ FindsNeighbors(Loaded(r)')
          /\ calm'[r] => AnswersWithoutGaps(Loaded(r)')]_vars
============================================================================
