------------------------------ MODULE GraphIds ------------------------------
\* The ids of nodes and edges are hashes: nodes and edges are known as what they
\* are, and their ids only by the order in which rows come back.
CONSTANTS
    NodeRank,   \* of every node there may be
    EdgeRank    \* of every edge
=============================================================================
