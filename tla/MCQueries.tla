------------------------------ MODULE MCQueries ------------------------------
\* An instance of Queries for TLC: a target, a service with a technology, and
\* an episode; one graph has the service, the other has not.
EXTENDS QueryGrammar

CONSTANTS targetNode, serviceNode, techNode, episodeNode   \* nodes

Edge(from, to, kind) == [from |-> from, to |-> to, kind |-> kind]
Exposes == Edge(targetNode, serviceNode, "exposes")
Runs == Edge(serviceNode, techNode, "fingerprints_as")
PartOf == Edge(serviceNode, episodeNode, "participates_in")

NodeOrder == <<techNode, episodeNode, targetNode, serviceNode>>
EdgeOrder == <<Runs, Exposes, PartOf>>
NodeRankTable == [n \in ToSet(NodeOrder) |-> CHOOSE k \in 1 .. 4 : NodeOrder[k] = n]
EdgeRankTable == [d \in ToSet(EdgeOrder) |-> CHOOSE k \in 1 .. 3 : EdgeOrder[k] = d]

LabelTable ==
    (targetNode :> <<"www">>) @@ (serviceNode :> <<"https", "www">>) @@ (techNode :> <<"nginx">>) @@ (episodeNode :> <<"episode">>)
LabelRankTable ==
    (<<"episode">> :> 1) @@ (<<"https", "www">> :> 2) @@ (<<"nginx">> :> 3) @@ (<<"www">> :> 4)
KindTable ==
    (targetNode :> "target") @@ (serviceNode :> "service") @@ (techNode :> "technology") @@ (episodeNode :> "episode")
AttributeTable ==
    (targetNode :> <<>>) @@ (techNode :> <<>>) @@
    (serviceNode :> [status |-> {<<"2">>}, scheme |-> {<<"https">>}, tls_enabled |-> {<<"true">>}]) @@
    (episodeNode :> [score |-> {<<"3">>}, highest_severity |-> {<<"high">>}, states |-> {<<"new">>, <<"recurring">>}])
SeenTable == (targetNode :> <<0, 0>>) @@ (serviceNode :> <<1, 2>>) @@ (techNode :> <<1, 1>>) @@ (episodeNode :> <<2, 2>>)
DayTable == [d \in {<<"2026">>} |-> 1]

GraphSet == {[nodes |-> {targetNode, serviceNode, techNode, episodeNode}, edges |-> {Exposes, Runs, PartOf}],
             [nodes |-> {targetNode, techNode, episodeNode}, edges |-> {}]}

W(name) == Word(<<name>>)
IsService == Word(<<"kind", "=", "service">>)
HasDegree == Word(<<"degree", ">", "=", "2">>)
HasAnEdge == Word(<<"degree", ">", "=", "1">>)
Since == Word(<<"first_seen", ">", "yesterday">>)
DegreeIs == Word(<<"degree", "=">>)

\* Expressions, directives behind them, and the other two modes.
VocabularySet == {
    {IsService, HasAnEdge, W("label"), W("~"), Quoted(<<"www">>), W("OR"), W("AND"), W("NOT"), Open, Close},
    {W("EXPLAIN"), W("services"), IsService, Since, W("OR"), W("ORDER"), W("BY"), W("degree"), W("ASC"),
     W("LIMIT"), W("2"), W("OFFSET"), W("EXPAND")},
    {W("EXPLAIN"), W("NEIGHBORS"), W("DEPTH"), W("0"), W("PATH"), W("www"), Word(<<"-", ">">>), DegreeIs}}
ExpressionSet ==
    {<<IsService>>, <<HasDegree>>, <<HasAnEdge>>, <<IsService, HasAnEdge>>, <<W("NOT")>>,
     <<W("PATH"), W("www"), Word(<<"-", ">">>), W("nginx")>>}
==============================================================================
