------------------------------- MODULE MC_DList -------------------------------
EXTENDS DList

CONSTANTS n0, n1, n2, n3, n4

\* The data of _main's foo nodes: foo_node_arry[i].data = i.
MCData == [n \in Nodes |-> CASE n = n0 -> 0 [] n = n1 -> 1 [] n = n2 -> 2
                              [] n = n3 -> 3 [] n = n4 -> 4]
=============================================================================
