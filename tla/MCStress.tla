----------------------------- MODULE MCStress ------------------------------
(***************************************************************************)
(* Stress for TLC: topologies of two to four routers.  Inf is 31, above    *)
(* every path length that occurs, and distance_t six bits wide.            *)
(***************************************************************************)
EXTENDS Stress

\* floyd_warshall, one pass at a time (FloydWarshall has its loops)
Min2(a, b) == IF a < b THEN a ELSE b

Relax(t, k) == [i \in 0 .. N - 1 |-> [j \in 0 .. N - 1 |->
                    Min2(t[i][j], t[i][k] + t[k][j])]]

ShortestPaths(t) ==
    LET pass[k \in 0 .. N] == IF k = 0 THEN t ELSE Relax(pass[k - 1], k - 1)
    IN  pass[N]

MCSolution == [t \in Topologies |-> ShortestPaths(t)]

\* A topology from the lengths of its undirected links
Graph(n, links) ==
    [i \in 0 .. n - 1 |-> [j \in 0 .. n - 1 |->
        IF i = j THEN 0
        ELSE IF \E l \in links : {l[1], l[2]} = {i, j}
             THEN (CHOOSE l \in links : {l[1], l[2]} = {i, j})[3]
             ELSE Inf]]

MCInf == 31

\* Two hops, a link and a node apart, no link at all
Sparse3 == {Graph(3, {<<0, 1, 1>>, <<1, 2, 1>>}),
            Graph(3, {<<0, 2, 1>>}),
            Graph(3, {})}

Path3 == {Graph(3, {<<0, 1, 1>>, <<1, 2, 1>>})}

\* The link is not the shortest way
Triangle == {Graph(3, {<<0, 1, 1>>, <<0, 2, 5>>, <<1, 2, 1>>})}

Path4 == {Graph(4, {<<0, 1, 1>>, <<1, 2, 1>>, <<2, 3, 1>>})}

\* Node 0 learns of two ever shorter ways to node 1 while node 1 reads what
\* node 0 sent first.
Kite == {Graph(4, {<<0, 1, 20>>, <<0, 2, 1>>, <<0, 3, 1>>,
                   <<1, 2, 5>>, <<1, 3, 1>>})}
=============================================================================
