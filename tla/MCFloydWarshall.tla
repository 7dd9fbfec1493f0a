-------------------------- MODULE MCFloydWarshall --------------------------
(***************************************************************************)
(* FloydWarshall for TLC: every directed graph on three nodes with links   *)
(* of length 1 or 9 or none, among them those where 9 + 9 exceeds          *)
(* inf_distance and the way round is shorter than the link.  No link is    *)
(* -16 in the file, the least int and as distance_t the smallest above     *)
(* inf_distance; on the diagonal -1, the largest distance_t.               *)
(***************************************************************************)
EXTENDS FloydWarshall, FiniteSetsExt

Nodes == 0 .. 2
MCInf == 15
Lengths == {1, 9, -(MCInf + 1)}

MCFiles ==
    {[i \in Nodes |-> [j \in Nodes |-> IF i = j THEN d ELSE w[<<i, j>>]]] :
        w \in [{p \in Nodes \X Nodes : p[1] # p[2]} -> Lengths],
        d \in {0, -1}}

\* A path of two or three numbers of a file, of which a negative one is no link
Then(x, y) == IF x < 0 \/ y < 0 THEN -1 ELSE x + y

\* The lengths of the paths from i to j that pass no node twice, computed from
\* the numbers in the file f and not by way of create_topology
SimplePaths(f, i, j) ==
    {v \in {f[i][j]}
            \cup {Then(f[i][m], f[m][j]) : m \in Nodes \ {i, j}}
            \cup {Then(f[i][m], Then(f[m][n], f[n][j])) :
                      m \in Nodes \ {i, j}, n \in Nodes \ {i, j}} :
        v >= 0}

MCShortest ==
    [f \in Files |-> [i \in Nodes |-> [j \in Nodes |->
        Min(SimplePaths(f, i, j) \cup {MCInf})]]]
============================================================================
