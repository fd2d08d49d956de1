----------------------------- MODULE GraphStore -----------------------------
(***************************************************************************)
(* How the exposure graph of a target is stored and loaded.                *)
(*                                                                         *)
(* store_graph writes the header of a graph, deletes what the graph's id   *)
(* has of nodes and edges, and inserts its own, one statement after the    *)
(* other; load_latest_graph reads the newest header, then the nodes, then  *)
(* the edges.  The id of a graph is its target and the second it was built *)
(* in: two graphs of one second share their rows.  Workers and commands    *)
(* write, the API and commands read, each in its own process.              *)
(***************************************************************************)
EXTENDS Integers, Sequences, GraphIds

CONSTANTS
    Writers, Readers,
    Graphs,       \* what build_full_graph may return for the target
    MaxGraphs,    \* bound: graphs built
    MaxSecond     \* bound: the clock

ASSUME GraphAssumption ==
    /\ MaxGraphs \in Nat
    /\ MaxSecond \in Nat
    /\ \A g \in Graphs : g = [nodes |-> g.nodes, edges |-> g.edges]

NodeIds == UNION {g.nodes : g \in Graphs}
EdgeIds == UNION {g.edges : g \in Graphs}
Seconds == 0 .. MaxSecond
Stamps == 0 .. MaxGraphs     \* graphs in the order they were built; 0 is no row

VARIABLES
    clock,    \* the second it is
    built,    \* the graphs built so far, with their seconds
    header,   \* table graphs: which graph's header the id of a second has
    nodes,    \* table graph_nodes: for each second and node, whose row it is
    edges,    \* table graph_edges, likewise
    writer,   \* where each writer stands, its graph, and what it still has to insert
    reader    \* where each reader stands and what it has read

tables == <<header, nodes, edges>>

VARIABLES     \* history: no step reads these
    alone,    \* writers during whose store nobody else stores under the same id
    whole,    \* the graph that the last lone store of a second left, if none began since
    spoilt,   \* seconds in which a store failed or died
    calm      \* readers that load such a graph, with no store beginning under them

history == <<alone, whole, spoilt, calm>>

vars == <<clock, built, tables, writer, reader, history>>

WriterSteps == {"idle", "header", "clearNodes", "clearEdges", "insert", "failed"}
WriterStates == [step : WriterSteps, stamp : Stamps, nodes : SUBSET NodeIds, edges : SUBSET EdgeIds]
ReaderSteps == {"idle", "nodes", "edges", "loaded"}
ReaderStates == [step : ReaderSteps, second : Seconds, stamp : Stamps,
                 nodes : SUBSET NodeIds, edges : SUBSET EdgeIds]

TypeOK ==
    /\ clock \in Seconds
    /\ built \in Seq([second : Seconds, graph : Graphs])
    /\ Len(built) <= MaxGraphs
    /\ header \in [Seconds -> Stamps]
    /\ nodes \in [Seconds -> [NodeIds -> Stamps]]
    /\ edges \in [Seconds -> [EdgeIds -> Stamps]]
    /\ writer \in [Writers -> WriterStates]
    /\ reader \in [Readers -> ReaderStates]
    /\ alone \in [Writers -> BOOLEAN]
    /\ whole \in [Seconds -> Stamps]
    /\ spoilt \in SUBSET Seconds
    /\ calm \in [Readers -> BOOLEAN]

Init ==
    /\ clock = 0
    /\ built = <<>>
    /\ header = [s \in Seconds |-> 0]
    /\ nodes = [s \in Seconds |-> [n \in NodeIds |-> 0]]
    /\ edges = [s \in Seconds |-> [e \in EdgeIds |-> 0]]
    /\ writer = [w \in Writers |-> [step |-> "idle", stamp |-> 0, nodes |-> {}, edges |-> {}]]
    /\ reader = [r \in Readers |->
                    [step |-> "idle", second |-> 0, stamp |-> 0, nodes |-> {}, edges |-> {}]]
    /\ alone = [w \in Writers |-> FALSE]
    /\ whole = [s \in Seconds |-> 0]
    /\ spoilt = {}
    /\ calm = [r \in Readers |-> FALSE]

(***************************************************************************)
(* store_graph                                                             *)
(***************************************************************************)
Storing == {"clearNodes", "clearEdges", "insert"}
GraphOf(w) == built[writer[w].stamp].graph
SecondOf(w) == built[writer[w].stamp].second

\* The next id to insert.
Lowest(rank, ids) == {x \in ids : \A y \in ids : rank[x] <= rank[y]}

Go(w, step, toInsert, toJoin) ==
    writer' = [writer EXCEPT ![w] = [step |-> step, stamp |-> writer[w].stamp,
                                     nodes |-> toInsert, edges |-> toJoin]]
Rest(w, step) ==
    writer' = [writer EXCEPT ![w] = [step |-> step, stamp |-> 0, nodes |-> {}, edges |-> {}]]

\* Those that store under the same id at this moment.
Rivals(w) == {v \in Writers \ {w} : writer[v].step \in Storing /\ SecondOf(v) = SecondOf(w)}

Tick ==
    /\ clock < MaxSecond
    /\ clock' = clock + 1
    /\ UNCHANGED <<built, tables, writer, reader, history>>

\* The graph is ready; what a run does until it stores it is not looked at.
Build(w, g) ==
    /\ writer[w].step \in {"idle", "failed"}
    /\ Len(built) < MaxGraphs
    /\ built' = Append(built, [second |-> clock, graph |-> g])
    /\ writer' = [writer EXCEPT ![w] = [step |-> "header", stamp |-> Len(built) + 1,
                                        nodes |-> {}, edges |-> {}]]
    /\ UNCHANGED <<clock, tables, reader, history>>

\* INSERT OR REPLACE INTO graphs.
StoreHeader(w) ==
    /\ writer[w].step = "header"
    /\ header' = [header EXCEPT ![SecondOf(w)] = writer[w].stamp]
    /\ Go(w, "clearNodes", {}, {})
    /\ alone' = [v \in Writers |-> IF v = w THEN Rivals(w) = {}
                                   ELSE alone[v] /\ v \notin Rivals(w)]
    /\ whole' = [whole EXCEPT ![SecondOf(w)] = 0]
    /\ calm' = [r \in Readers |-> calm[r] /\ (reader[r].step \in {"nodes", "edges"}
                                                => reader[r].second # SecondOf(w))]
    /\ UNCHANGED <<clock, built, nodes, edges, reader, spoilt>>

DeleteNodes(w) ==
    /\ writer[w].step = "clearNodes"
    /\ nodes' = [nodes EXCEPT ![SecondOf(w)] = [n \in NodeIds |-> 0]]
    /\ Go(w, "clearEdges", {}, {})
    /\ UNCHANGED <<clock, built, header, edges, reader, history>>

DeleteEdges(w) ==
    /\ writer[w].step = "clearEdges"
    /\ edges' = [edges EXCEPT ![SecondOf(w)] = [e \in EdgeIds |-> 0]]
    /\ Go(w, "insert", GraphOf(w).nodes, GraphOf(w).edges)
    /\ UNCHANGED <<clock, built, header, nodes, reader, history>>

\* A plain INSERT; nodes in the order of their ids, and all before the first edge.
InsertNode(w, n) ==
    /\ writer[w].step = "insert"
    /\ n \in Lowest(NodeRank, writer[w].nodes)
    /\ nodes[SecondOf(w)][n] = 0
    /\ nodes' = [nodes EXCEPT ![SecondOf(w)] = [@ EXCEPT ![n] = writer[w].stamp]]
    /\ Go(w, "insert", writer[w].nodes \ {n}, writer[w].edges)
    /\ UNCHANGED <<clock, built, header, edges, reader, history>>

\* Mutant: INSERT OR REPLACE.
InsertEdgeOrReplace(w, e) ==
    /\ writer[w].step = "insert"
    /\ writer[w].nodes = {}
    /\ e \in Lowest(EdgeRank, writer[w].edges)
    /\ edges' = [edges EXCEPT ![SecondOf(w)] = [@ EXCEPT ![e] = writer[w].stamp]]
    /\ Go(w, "insert", {}, writer[w].edges \ {e})
    /\ UNCHANGED <<clock, built, header, nodes, reader, history>>
InsertEdge(w, e) ==
    /\ writer[w].step = "insert"
    /\ writer[w].nodes = {}
    /\ e \in Lowest(EdgeRank, writer[w].edges)
    /\ edges[SecondOf(w)][e] = 0
    /\ edges' = [edges EXCEPT ![SecondOf(w)] = [@ EXCEPT ![e] = writer[w].stamp]]
    /\ Go(w, "insert", {}, writer[w].edges \ {e})
    /\ UNCHANGED <<clock, built, header, nodes, reader, history>>

\* The key is there already: the statement fails, and with it the run.
Clash(w) ==
    /\ writer[w].step = "insert"
    /\ \/ \E n \in Lowest(NodeRank, writer[w].nodes) : nodes[SecondOf(w)][n] # 0
       \/ writer[w].nodes = {} /\ \E e \in Lowest(EdgeRank, writer[w].edges) : edges[SecondOf(w)][e] # 0
    /\ Rest(w, "failed")
    /\ spoilt' = spoilt \cup {SecondOf(w)}
    /\ UNCHANGED <<clock, built, tables, reader, alone, whole, calm>>

\* Mutant: the edges are forgotten.
StoredWithoutEdges(w) ==
    /\ writer[w].step = "insert"
    /\ writer[w].nodes = {}
    /\ Rest(w, "idle")
    /\ whole' = [whole EXCEPT ![SecondOf(w)] = IF alone[w] THEN writer[w].stamp ELSE @]
    /\ UNCHANGED <<clock, built, tables, reader, alone, spoilt, calm>>
Stored(w) ==
    /\ writer[w].step = "insert"
    /\ writer[w].nodes = {}
    /\ writer[w].edges = {}
    /\ Rest(w, "idle")
    /\ whole' = [whole EXCEPT ![SecondOf(w)] = IF alone[w] THEN writer[w].stamp ELSE @]
    /\ UNCHANGED <<clock, built, tables, reader, alone, spoilt, calm>>

Die(w) ==
    /\ writer[w].step \in Storing
    /\ Rest(w, "idle")
    /\ spoilt' = spoilt \cup {SecondOf(w)}
    /\ UNCHANGED <<clock, built, tables, reader, alone, whole, calm>>

(***************************************************************************)
(* load_latest_graph                                                       *)
(***************************************************************************)
Read(r, step, second, stamp, found, joins) ==
    reader' = [reader EXCEPT ![r] = [step |-> step, second |-> second, stamp |-> stamp,
                                     nodes |-> found, edges |-> joins]]

\* ORDER BY generated_at DESC LIMIT 1.
ReadHeader(r) ==
    /\ reader[r].step \in {"idle", "loaded"}
    /\ \E s \in Seconds :
          /\ header[s] # 0
          /\ \A t \in Seconds : header[t] # 0 => t <= s
          /\ Read(r, "nodes", s, header[s], {}, {})
          /\ calm' = [calm EXCEPT ![r] = (whole[s] # 0)]
    /\ UNCHANGED <<clock, built, tables, writer, alone, whole, spoilt>>

\* Mutant: the nodes of what is the newest graph by now.
ReadNewestNodes(r) ==
    /\ reader[r].step = "nodes"
    /\ \E s \in Seconds :
          /\ header[s] # 0
          /\ \A t \in Seconds : header[t] # 0 => t <= s
          /\ Read(r, "edges", reader[r].second, reader[r].stamp,
                  {n \in NodeIds : nodes[s][n] # 0}, {})
    /\ UNCHANGED <<clock, built, tables, writer, history>>
ReadNodes(r) ==
    /\ reader[r].step = "nodes"
    /\ Read(r, "edges", reader[r].second, reader[r].stamp,
            {n \in NodeIds : nodes[reader[r].second][n] # 0}, {})
    /\ UNCHANGED <<clock, built, tables, writer, history>>

ReadEdges(r) ==
    /\ reader[r].step = "edges"
    /\ Read(r, "loaded", reader[r].second, reader[r].stamp, reader[r].nodes,
            {e \in EdgeIds : edges[reader[r].second][e] # 0})
    /\ UNCHANGED <<clock, built, tables, writer, history>>

WriterStep(w) ==
    \/ (\E g \in Graphs : Build(w, g))
    \/ StoreHeader(w) \/ DeleteNodes(w) \/ DeleteEdges(w)
    \/ (\E n \in NodeIds : InsertNode(w, n))
    \/ (\E e \in EdgeIds : InsertEdge(w, e))
    \/ Clash(w) \/ Stored(w) \/ Die(w)

ReaderStep(r) == ReadHeader(r) \/ ReadNodes(r) \/ ReadEdges(r)

Next ==
    \/ Tick
    \/ (\E w \in Writers : WriterStep(w))
    \/ (\E r \in Readers : ReaderStep(r))

GraphSpec == Init /\ [][Next]_vars

(***************************************************************************)
(* Properties                                                              *)
(***************************************************************************)
\* A store that no other store of the same second overlaps leaves exactly its
\* graph, whatever clashes and deaths had left under the id before.
WholeIsComplete ==
    \A s \in Seconds : whole[s] # 0 =>
        /\ header[s] = whole[s]
        /\ \A n \in NodeIds : nodes[s][n] = IF n \in built[whole[s]].graph.nodes THEN whole[s] ELSE 0
        /\ \A e \in EdgeIds : edges[s][e] = IF e \in built[whole[s]].graph.edges THEN whole[s] ELSE 0

\* Only a store that overlaps another one of its second can be refused.
LoneStoreSucceeds == \A w \in Writers : writer[w].step = "failed" => ~alone[w]

\* A store that nobody overlaps works: it is not refused, and leaves its graph.
LoneStoresWork == WholeIsComplete /\ LoneStoreSucceeds

\* What a reader has loaded is the graph its header names, provided that it
\* was whole and that no store of that second began while the reader read.
LoadsWhole ==
    \A r \in Readers : (reader[r].step = "loaded" /\ calm[r]) =>
        /\ reader[r].nodes = built[reader[r].stamp].graph.nodes
        /\ reader[r].edges = built[reader[r].stamp].graph.edges

\* Overlapping stores are noticed: when every store of a second has returned
\* without an error, one of its graphs is there with all its nodes and edges.
SettledIsComplete ==
    \A s \in Seconds \ spoilt :
        (header[s] # 0 /\ \A w \in Writers : ~(writer[w].step \in Storing /\ SecondOf(w) = s)) =>
            \E k \in DOMAIN built :
                /\ built[k].second = s
                /\ \A n \in built[k].graph.nodes : nodes[s][n] = k
                /\ \A e \in built[k].graph.edges : edges[s][e] = k

\* What a store leaves behind, alone or not.
StoresWork == LoneStoresWork /\ SettledIsComplete

\* A reader never goes back to a graph of an earlier second, in whatever
\* order the graphs are stored.
LoadsDoNotGoBack ==
    [][\A r \in Readers : reader'[r].second >= reader[r].second]_vars
============================================================================
