------------------------ MODULE FloydWarshallProofs ------------------------
(***************************************************************************)
(* floyd_warshall() computes the shortest distances, for every number of   *)
(* nodes and every topology.                                               *)
(*                                                                         *)
(* The argument for the closure.  Call k the intermediate node.  A pass    *)
(* never changes row and column k, as a detour from k by way of k is no    *)
(* shorter.  Hence the pass replaces solution[s][d] by the smaller of      *)
(* itself and the detour by way of k wherever it has been (Passed), and    *)
(* for every earlier m the smaller of the two is no longer than the detour *)
(* by way of m throughout the pass (EarlierClosed), although the matrix    *)
(* changes under it.  When the pass ends the smaller of the two is in the  *)
(* matrix, and k is one of the earlier nodes.                              *)
(***************************************************************************)
EXTENDS FloydWarshall, TLAPS

\* Whatever int's the file holds, create_topology makes links of them that
\* are at most inf_distance.
LEMMA LinksTyped ==
    /\ N \in Nat \ {0}
    /\ Inf \in Nat
    /\ \A f \in Files : create_topology(f) \in [Node -> [Node -> Dist]]
<1>1. \A v \in -(Inf + 1) .. Inf : Link(v) \in Dist
  BY GraphAssumption DEF Link, AsUnsigned, UintMax, Dist
<1>2. \A f \in Files : create_topology(f) \in [Node -> [Node -> Dist]]
  BY <1>1, GraphAssumption DEF create_topology
<1> QED
  BY <1>2, GraphAssumption

\* To be within the links of a file is to be below the distances made of it: a
\* negative number becomes inf_distance, which is above everything.
LEMMA WithinIsBelow ==
    ASSUME NEW f \in Files, NEW s \in [Node -> [Node -> Dist]]
    PROVE  WithinLinks(s, f) <=> Below(s, create_topology(f))
<1>1. \A i, d \in Node : f[i][d] \in -(Inf + 1) .. Inf /\ s[i][d] \in 0 .. Inf
  BY GraphAssumption DEF Dist
<1>2. \A i, d \in Node :
         create_topology(f)[i][d] = IF f[i][d] < 0 THEN Inf ELSE f[i][d]
  BY <1>1, GraphAssumption DEF create_topology, Link, AsUnsigned, UintMax
<1> QED
  BY <1>1, <1>2, GraphAssumption DEF WithinLinks, Below

\* The links are those of the file, which is read once.
ReadFrom == file \in Files /\ topology = create_topology(file)

LEMMA ReadOnce == Spec => []ReadFrom
<1>1. Init => ReadFrom
  BY DEF Init, ReadFrom
<1>2. ReadFrom /\ [Next]_vars => ReadFrom'
  BY DEF ReadFrom, Next, Shorten, Keep, Done, vars
<1> QED
  BY <1>1, <1>2, PTL DEF Spec

\* The passes of the nodes before intermediate have closed the matrix, but
\* for what this pass is about to improve.
EarlierClosed ==
    intermediate < N =>
        \A m \in Node : m < intermediate =>
            \A s, d \in Node :
                \/ solution[s][d] <= solution[s][m] + solution[m][d]
                \/ solution[s][intermediate] + solution[intermediate][d]
                     <= solution[s][m] + solution[m][d]

\* This pass has already been at the entry of s and d.
Before(s, d) == s < src \/ (s = src /\ d < dst)

Passed ==
    intermediate < N =>
        \A s, d \in Node :
            Before(s, d) =>
                solution[s][d] <=
                    solution[s][intermediate] + solution[intermediate][d]

LoopInv ==
    /\ EarlierClosed
    /\ Passed
    /\ DoneMeansClosed

IInv == TypeOK /\ LoopInv

---------------------------------------------------------------------------

\* A detour is the exact sum of its two halves: distance_t holds the sum of two
\* distances that are at most inf_distance.
LEMMA DetourExact ==
    ASSUME TypeOK, intermediate < N, NEW s \in Node, NEW d \in Node
    PROVE  /\ intermediate \in Node
           /\ solution[s][intermediate] \in Dist
           /\ solution[intermediate][d] \in Dist
           /\ Detour(s, d) = solution[s][intermediate] + solution[intermediate][d]
<1>1. N \in Nat \ {0} /\ Inf \in Nat
  BY LinksTyped
<1>2. intermediate \in Node
  BY <1>1 DEF TypeOK, Node
<1>3. solution[s][intermediate] \in Dist /\ solution[intermediate][d] \in Dist
  BY <1>2 DEF TypeOK
<1>4. Detour(s, d) = solution[s][intermediate] + solution[intermediate][d]
  BY <1>1, <1>3 DEF Detour, Plus, UintMax, Dist
<1> QED
  BY <1>2, <1>3, <1>4

\* The loop indices stay in their ranges, and a pass ends behind the last entry.
LEMMA AdvanceOrder ==
    ASSUME TypeOK, intermediate < N, Advance
    PROVE  /\ intermediate' \in 0 .. N /\ src' \in Node /\ dst' \in Node
           /\ \/ /\ intermediate' = intermediate
                 /\ \A s, d \in Node :
                       Before(s, d)' => Before(s, d) \/ (s = src /\ d = dst)
              \/ /\ intermediate' = intermediate + 1
                 /\ src' = 0 /\ dst' = 0
                 /\ \A s, d \in Node : Before(s, d) \/ (s = src /\ d = dst)
<1>1. N \in Nat \ {0} /\ intermediate \in 0 .. N /\ src \in Node /\ dst \in Node
  BY LinksTyped DEF TypeOK
<1>2. CASE dst < N - 1
  BY <1>1, <1>2 DEF Advance, Before, Node
<1>3. CASE dst = N - 1 /\ src < N - 1
  BY <1>1, <1>3 DEF Advance, Before, Node
<1>4. CASE dst = N - 1 /\ src = N - 1
  BY <1>1, <1>4 DEF Advance, Before, Node
<1> QED
  BY <1>1, <1>2, <1>3, <1>4 DEF Node

\* The variables keep their types; no sum overflows.
THEOREM TypeCorrect == Spec => []TypeOK
<1>1. Init => TypeOK
  BY LinksTyped, GraphAssumption DEF Init, TypeOK, Node
<1>2. TypeOK /\ [Next]_vars => TypeOK'
  <2> SUFFICES ASSUME TypeOK, [Next]_vars
               PROVE  TypeOK'
    OBVIOUS
  <2>1. CASE Shorten
    <3>1. intermediate < N /\ Advance /\ UNCHANGED <<file, topology>>
      BY <2>1 DEF Shorten
    <3>2. src \in Node /\ dst \in Node /\ solution \in [Node -> [Node -> Dist]]
      BY DEF TypeOK
    <3>3. Detour(src, dst) \in Dist
      <4>1. /\ Detour(src, dst) < solution[src][dst]
            /\ solution[src][dst] \in Dist
        BY <2>1, <3>2 DEF Shorten
      <4> QED
        BY <3>1, <3>2, <4>1, DetourExact, LinksTyped DEF Dist
    <3>4. solution' \in [Node -> [Node -> Dist]]
      BY <2>1, <3>2, <3>3 DEF Shorten
    <3> QED
      BY <3>1, <3>4, AdvanceOrder DEF TypeOK
  <2>2. CASE Keep
    BY <2>2, AdvanceOrder DEF Keep, TypeOK
  <2>3. CASE Done
    BY <2>3 DEF Done, vars, TypeOK
  <2>4. CASE UNCHANGED vars
    BY <2>4 DEF vars, TypeOK
  <2> QED
    BY <2>1, <2>2, <2>3, <2>4 DEF Next
<1> QED
  BY <1>1, <1>2, PTL DEF Spec

\* No iteration goes below a closed matrix that is below the links: the loops
\* never find a path that does not exist.
THEOREM LowerBound == Spec => []NeverTooShort
<1>1. Init => NeverTooShort
  BY ShortestAssumption, WithinIsBelow DEF Init, NeverTooShort
<1>2. TypeOK /\ ReadFrom /\ NeverTooShort /\ [Next]_vars => NeverTooShort'
  <2> SUFFICES ASSUME TypeOK, ReadFrom, NeverTooShort, [Next]_vars
               PROVE  NeverTooShort'
    OBVIOUS
  <2>1. CASE Shorten
    <3> DEFINE D == Shortest[file]
               k == intermediate
    <3>1. /\ D \in [Node -> [Node -> Dist]] /\ Closed(D)
          /\ file' = file
      BY <2>1, ShortestAssumption DEF ReadFrom, Shorten
    <3>2. /\ src \in Node /\ dst \in Node /\ k \in Node
          /\ solution \in [Node -> [Node -> Dist]]
          /\ Detour(src, dst) = solution[src][k] + solution[k][dst]
      BY <2>1, DetourExact DEF TypeOK, Shorten
    <3>3. /\ D[src][k] <= solution[src][k] /\ D[k][dst] <= solution[k][dst]
          /\ D[src][dst] <= D[src][k] + D[k][dst]
      BY <3>1, <3>2 DEF NeverTooShort, Below, Closed
    <3>4. D[src][dst] <= Detour(src, dst)
      <4>1. /\ D[src][dst] \in Int /\ D[src][k] \in Int /\ D[k][dst] \in Int
            /\ solution[src][k] \in Int /\ solution[k][dst] \in Int
        BY <3>1, <3>2 DEF Dist
      <4> HIDE DEF D, k
      <4> QED
        BY <3>2, <3>3, <4>1
    <3>5. solution' = [solution EXCEPT ![src][dst] = Detour(src, dst)]
      BY <2>1 DEF Shorten
    <3>6. \A i, d \in Node : D[i][d] <= solution'[i][d]
      <4> SUFFICES ASSUME NEW i \in Node, NEW d \in Node
                   PROVE  D[i][d] <= solution'[i][d]
        OBVIOUS
      <4>1. D[i][d] <= solution[i][d]
        BY DEF NeverTooShort, Below
      <4> HIDE DEF D
      <4> QED
        BY <3>2, <3>4, <3>5, <4>1
    <3> QED
      BY <3>1, <3>6 DEF NeverTooShort, Below
  <2>2. CASE Keep \/ Done \/ UNCHANGED vars
    BY <2>2 DEF Keep, Done, vars, NeverTooShort
  <2> QED
    BY <2>1, <2>2 DEF Next
<1> QED
  BY <1>1, <1>2, TypeCorrect, ReadOnce, PTL DEF Spec

---------------------------------------------------------------------------
(* The closure *)

\* Row and column k are as the pass found them, the entry (src, dst) is the
\* smaller of itself and its detour, and the others are unchanged: what the
\* two ways an iteration can go have in common.
LEMMA StepShape ==
    ASSUME TypeOK, intermediate < N, Shorten \/ Keep
    PROVE  /\ solution' \in [Node -> [Node -> Dist]]
           /\ Advance
           /\ \A s, d \in Node : solution'[s][d] <= solution[s][d]
           /\ \A s, d \in Node :
                 s # src \/ d # dst => solution'[s][d] = solution[s][d]
           /\ \A s \in Node : solution'[s][intermediate] = solution[s][intermediate]
           /\ \A d \in Node : solution'[intermediate][d] = solution[intermediate][d]
           /\ solution'[src][dst] <=
                 solution[src][intermediate] + solution[intermediate][dst]
           /\ \/ solution'[src][dst] = solution[src][dst]
              \/ solution'[src][dst] =
                    solution[src][intermediate] + solution[intermediate][dst]
<1> DEFINE k == intermediate
<1>1. /\ k \in Node /\ src \in Node /\ dst \in Node
      /\ solution \in [Node -> [Node -> Dist]]
  BY DetourExact DEF TypeOK
<1>2. Detour(src, dst) = solution[src][k] + solution[k][dst]
  BY <1>1, DetourExact
<1>3. \A s, d \in Node : solution[s][d] \in Int /\ solution[s][d] >= 0
  BY <1>1, LinksTyped DEF Dist
<1> HIDE DEF k
<1>4. CASE Shorten
  <2>1. /\ solution' = [solution EXCEPT ![src][dst] = Detour(src, dst)]
        /\ Detour(src, dst) < solution[src][dst]
        /\ Advance
    BY <1>4 DEF Shorten
  <2>2. Detour(src, dst) \in Dist
    <3>1. solution[src][dst] \in Dist
      BY <1>1
    <3> QED
      BY <1>1, <1>2, <1>3, <2>1, <3>1, LinksTyped DEF Dist
  <2>3. src # k /\ dst # k
    BY <1>1, <1>2, <1>3, <2>1
  <2>4. solution' \in [Node -> [Node -> Dist]]
    BY <1>1, <2>1, <2>2
  <2>5. \A s, d \in Node :
           solution'[s][d] = IF s = src /\ d = dst THEN Detour(src, dst)
                                                   ELSE solution[s][d]
    BY <1>1, <2>1
  <2>6. \A s, d \in Node : solution'[s][d] <= solution[s][d]
    BY <1>1, <1>2, <1>3, <2>1, <2>5
  <2> QED
    BY <1>1, <1>2, <1>3, <2>1, <2>3, <2>4, <2>5, <2>6 DEF k
<1>5. CASE Keep
  <2>1. solution' = solution /\ Advance /\ Detour(src, dst) >= solution[src][dst]
    BY <1>5 DEF Keep
  <2>2. \A s, d \in Node : solution'[s][d] <= solution[s][d]
    BY <1>3, <2>1
  <2> QED
    BY <1>1, <1>2, <2>1, <2>2 DEF k
<1> QED
  BY <1>4, <1>5

\* The smaller of an entry and its detour by way of intermediate survives an
\* iteration, and stays below every detour by way of an earlier node.
LEMMA EarlierKept ==
    ASSUME TypeOK, intermediate < N, EarlierClosed, Shorten \/ Keep,
           NEW m \in Node, m < intermediate, NEW s \in Node, NEW d \in Node
    PROVE  \/ solution'[s][d] <= solution'[s][m] + solution'[m][d]
           \/ solution'[s][intermediate] + solution'[intermediate][d]
                <= solution'[s][m] + solution'[m][d]
<1> DEFINE k == intermediate
           S(i, j) == solution[i][j]
           T(i, j) == solution'[i][j]
<1>1. /\ k \in Node /\ src \in Node /\ dst \in Node
      /\ \A i, j \in Node : S(i, j) \in Nat /\ T(i, j) \in Nat
  BY DetourExact, StepShape, LinksTyped DEF TypeOK, Dist
<1>2. /\ \A i, j \in Node : T(i, j) <= S(i, j)
      /\ \A i, j \in Node : i # src \/ j # dst => T(i, j) = S(i, j)
      /\ \A i \in Node : T(i, k) = S(i, k) /\ T(k, i) = S(k, i)
      /\ T(src, dst) <= S(src, k) + S(k, dst)
      /\ T(src, dst) = S(src, dst) \/ T(src, dst) = S(src, k) + S(k, dst)
  BY StepShape
<1>3. \A i, j \in Node :
         S(i, j) <= S(i, m) + S(m, j) \/ S(i, k) + S(k, j) <= S(i, m) + S(m, j)
  BY DEF EarlierClosed
<1> HIDE DEF k, S, T
<1>4. \A i \in Node : S(k, i) <= S(k, m) + S(m, i) /\ S(i, k) <= S(i, m) + S(m, k)
  BY <1>1, <1>3
<1>5. CASE T(s, m) = S(s, m) /\ T(m, d) = S(m, d)
  <2>1. \/ T(s, d) <= T(s, m) + T(m, d)
        \/ T(s, k) + T(k, d) <= T(s, m) + T(m, d)
    BY <1>1, <1>2, <1>3, <1>5
  <2> QED
    BY <2>1 DEF S, T, k
<1>6. CASE T(s, m) # S(s, m)
  <2>1. s = src /\ m = dst /\ T(s, m) = S(s, k) + S(k, m)
    BY <1>2, <1>6
  <2>2. T(m, d) = S(m, d) \/ (m = src /\ d = dst /\ T(m, d) = S(m, k) + S(k, d))
    BY <1>2
  <2>3. S(k, d) <= S(k, m) + S(m, d)
    BY <1>4
  <2>4. S(s, k) + S(k, d) <= T(s, m) + T(m, d)
    BY <1>1, <2>1, <2>2, <2>3
  <2> QED
    BY <1>2, <2>4 DEF S, T, k
<1>7. CASE T(m, d) # S(m, d)
  <2>1. m = src /\ d = dst /\ T(m, d) = S(m, k) + S(k, d)
    BY <1>2, <1>7
  <2>2. T(s, m) = S(s, m) \/ (s = src /\ m = dst /\ T(s, m) = S(s, k) + S(k, m))
    BY <1>2
  <2>3. S(s, k) <= S(s, m) + S(m, k)
    BY <1>4
  <2>4. S(s, k) + S(k, d) <= T(s, m) + T(m, d)
    BY <1>1, <2>1, <2>2, <2>3
  <2> QED
    BY <1>2, <2>4 DEF S, T, k
<1> QED
  BY <1>5, <1>6, <1>7 DEF S, T, k

\* When the loops end the matrix is closed: one pass for each intermediate
\* node is enough although it works in place.
THEOREM EndsClosed == Spec => []DoneMeansClosed
<1>1. Init => IInv
  <2> SUFFICES ASSUME Init PROVE IInv
    OBVIOUS
  <2>1. TypeOK
    BY LinksTyped, GraphAssumption DEF Init, TypeOK, Node
  <2>2. LoopInv
    BY LinksTyped DEF Init, LoopInv, EarlierClosed, Passed, Before,
                           DoneMeansClosed, Node
  <2> QED
    BY <2>1, <2>2 DEF IInv
<1>2. IInv /\ TypeOK' /\ [Next]_vars => IInv'
  <2> SUFFICES ASSUME IInv, TypeOK', [Next]_vars
               PROVE  LoopInv'
    BY DEF IInv
  <2> USE DEF IInv
  <2>1. ASSUME Shorten \/ Keep
        PROVE  LoopInv'
    <3> DEFINE k == intermediate
    <3>0. /\ intermediate < N /\ N \in Nat \ {0} /\ k \in Node
          /\ src \in Node /\ dst \in Node
          /\ \A i, j \in Node : solution[i][j] \in Nat /\ solution'[i][j] \in Nat
      BY <2>1, DetourExact, LinksTyped DEF Shorten, Keep, TypeOK, Dist
    <3>1. \A m \in Node : m < k => \A s, d \in Node :
             \/ solution'[s][d] <= solution'[s][m] + solution'[m][d]
             \/ solution'[s][k] + solution'[k][d] <= solution'[s][m] + solution'[m][d]
      BY <2>1, <3>0, EarlierKept DEF LoopInv
    <3>2. \A s, d \in Node : Before(s, d) \/ (s = src /\ d = dst) =>
             solution'[s][d] <= solution'[s][k] + solution'[k][d]
      <4> SUFFICES ASSUME NEW s \in Node, NEW d \in Node,
                          Before(s, d) \/ (s = src /\ d = dst)
                   PROVE  solution'[s][d] <= solution'[s][k] + solution'[k][d]
        OBVIOUS
      <4>1. /\ solution'[s][k] = solution[s][k] /\ solution'[k][d] = solution[k][d]
            /\ solution'[s][d] <= solution[s][d]
            /\ solution'[src][dst] <= solution[src][k] + solution[k][dst]
        BY <2>1, <3>0, StepShape
      <4>2. Before(s, d) => solution[s][d] <= solution[s][k] + solution[k][d]
        BY <3>0 DEF LoopInv, Passed
      <4> QED
        BY <3>0, <4>1, <4>2
    <3>3. /\ intermediate' \in 0 .. N
          /\ \/ /\ intermediate' = k
                /\ \A s, d \in Node :
                      Before(s, d)' => Before(s, d) \/ (s = src /\ d = dst)
             \/ /\ intermediate' = k + 1
                /\ src' = 0 /\ dst' = 0
                /\ \A s, d \in Node : Before(s, d) \/ (s = src /\ d = dst)
      BY <2>1, <3>0, AdvanceOrder DEF Shorten, Keep
    <3> HIDE DEF k
    <3>4. CASE intermediate' = k
      BY <3>0, <3>1, <3>2, <3>3, <3>4
         DEF LoopInv, EarlierClosed, Passed, DoneMeansClosed, Node
    <3>5. CASE intermediate' = k + 1
      <4>1. /\ src' = 0 /\ dst' = 0
            /\ \A s, d \in Node : Before(s, d) \/ (s = src /\ d = dst)
        BY <3>0, <3>3, <3>5 DEF Node
      <4>2. \A m \in Node : m <= k => \A s, d \in Node :
               solution'[s][d] <= solution'[s][m] + solution'[m][d]
        <5> SUFFICES ASSUME NEW m \in Node, m <= k, NEW s \in Node, NEW d \in Node
                     PROVE  solution'[s][d] <= solution'[s][m] + solution'[m][d]
          OBVIOUS
        <5>1. solution'[s][d] <= solution'[s][k] + solution'[k][d]
          BY <3>2, <4>1
        <5>2. CASE m = k
          BY <5>1, <5>2
        <5>3. CASE m < k
          BY <3>0, <3>1, <5>1, <5>3
        <5>4. m = k \/ m < k
          BY <3>0 DEF Node
        <5> QED
          BY <5>2, <5>3, <5>4
      <4>3. EarlierClosed'
        BY <3>0, <3>5, <4>2 DEF EarlierClosed, Node
      <4>4. Passed'
        BY <4>1 DEF Passed, Before, Node
      <4>5. DoneMeansClosed'
        BY <3>0, <3>5, <4>2 DEF DoneMeansClosed, Closed, Node
      <4> QED
        BY <4>1, <4>3, <4>4, <4>5 DEF LoopInv
    <3> QED
      BY <3>3, <3>4, <3>5
  <2>2. CASE Done \/ UNCHANGED vars
    BY <2>2 DEF Done, vars, LoopInv, EarlierClosed, Passed, Before,
                DoneMeansClosed
  <2> QED
    BY <2>1, <2>2 DEF Next
<1>3. IInv => DoneMeansClosed
  BY DEF IInv, LoopInv
<1> QED
  BY <1>1, <1>2, <1>3, TypeCorrect, PTL DEF Spec

---------------------------------------------------------------------------
(* The result *)

\* The shortest distances are the greatest closed ones within the links of the
\* file: a matrix without shorter detours gives no pair more than any path
\* between them is long.
Greatest ==
    \A f \in Files : \A s \in [Node -> [Node -> Dist]] :
        Closed(s) /\ WithinLinks(s, f) => Below(s, Shortest[f])

\* The loops only shorten.
LEMMA OnlyShorter == Spec => []Below(solution, topology)
<1>1. Init => Below(solution, topology)
  <2> SUFFICES ASSUME Init PROVE Below(solution, topology)
    OBVIOUS
  <2>1. \A i, d \in Node : topology[i][d] \in Dist
    BY LinksTyped DEF Init
  <2> QED
    BY <2>1, LinksTyped DEF Init, Below, Dist
<1>2. TypeOK /\ TypeOK' /\ Below(solution, topology) /\ [Next]_vars
        => Below(solution, topology)'
  <2> SUFFICES ASSUME TypeOK, TypeOK', Below(solution, topology), [Next]_vars
               PROVE  Below(solution, topology)'
    OBVIOUS
  <2>1. ASSUME Shorten \/ Keep
        PROVE  Below(solution, topology)'
    <3>1. intermediate < N /\ topology' = topology
      BY <2>1 DEF Shorten, Keep
    <3>2. \A s, d \in Node : /\ solution'[s][d] <= solution[s][d]
                             /\ solution[s][d] <= topology[s][d]
      BY <2>1, <3>1, StepShape DEF Below
    <3>3. \A s, d \in Node : /\ solution'[s][d] \in Int /\ solution[s][d] \in Int
                             /\ topology[s][d] \in Int
      BY LinksTyped DEF TypeOK, Dist
    <3> QED
      BY <3>1, <3>2, <3>3 DEF Below
  <2>2. CASE Done \/ UNCHANGED vars
    BY <2>2 DEF Done, vars, Below
  <2> QED
    BY <2>1, <2>2 DEF Next
<1> QED
  BY <1>1, <1>2, TypeCorrect, PTL DEF Spec

\* What run_stress compares the routers with are the shortest distances in the
\* file, when Shortest is them.
THEOREM EndsShortest == Greatest => (Spec => []DoneMeansShortest)
<1> SUFFICES ASSUME Greatest PROVE Spec => []DoneMeansShortest
  OBVIOUS
<1>1. /\ TypeOK /\ ReadFrom /\ NeverTooShort /\ DoneMeansClosed
      /\ Below(solution, topology)
      => DoneMeansShortest
  <2> SUFFICES ASSUME TypeOK, ReadFrom, NeverTooShort, DoneMeansClosed,
                      Below(solution, topology), intermediate = N
               PROVE  solution = Shortest[file]
    BY DEF DoneMeansShortest
  <2> DEFINE D == Shortest[file]
  <2>1. /\ solution \in [Node -> [Node -> Dist]]
        /\ D \in [Node -> [Node -> Dist]]
    BY ShortestAssumption DEF TypeOK, ReadFrom
  <2>2. Below(solution, D)
    BY <2>1, WithinIsBelow DEF Greatest, DoneMeansClosed, TypeOK, ReadFrom
  <2>3. \A s, d \in Node : solution[s][d] = D[s][d]
    <3> SUFFICES ASSUME NEW s \in Node, NEW d \in Node
                 PROVE  solution[s][d] = D[s][d]
      OBVIOUS
    <3>1. solution[s][d] <= D[s][d] /\ D[s][d] <= solution[s][d]
      BY <2>2 DEF Below, NeverTooShort
    <3>2. solution[s][d] \in Int /\ D[s][d] \in Int
      BY <2>1, LinksTyped DEF Dist
    <3> QED
      BY <3>1, <3>2
  <2> HIDE DEF D
  <2>4. \A s \in Node : solution[s] = D[s]
    BY <2>1, <2>3
  <2> QED
    BY <2>1, <2>4 DEF D
<1> QED
  BY <1>1, TypeCorrect, ReadOnce, LowerBound, EndsClosed, OnlyShorter, PTL
---------------------------------------------------------------------------
(* The result, without a word about paths *)

\* x is no longer than a link, and no longer than a link followed by x: the
\* inequalities that the lengths of shortest paths in t satisfy.
Relaxed(x, t) ==
    \A i, d \in Node :
        /\ x[i][d] <= t[i][d]
        /\ \A m \in Node : t[i][m] # Inf => x[i][d] <= t[i][m] + x[m][d]

\* The same of the distances found so far in place of the links
Under(x) ==
    \A i, d \in Node :
        /\ x[i][d] <= solution[i][d]
        /\ \A m \in Node : x[i][d] <= solution[i][m] + x[m][d]

AllUnder ==
    \A x \in [Node -> [Node -> Dist]] : Relaxed(x, topology) => Under(x)

\* The loops' result satisfies the inequalities, and every matrix that does is
\* nowhere above it.
DoneMeansGreatest ==
    intermediate = N =>
        /\ Relaxed(solution, topology)
        /\ \A x \in [Node -> [Node -> Dist]] :
              Relaxed(x, topology) => Below(x, solution)

\* Before the first iteration the distances are the links, a missing one Inf.
LEMMA LinksAbove == Init => AllUnder
<1> SUFFICES ASSUME Init,
                    NEW x \in [Node -> [Node -> Dist]], Relaxed(x, topology),
                    NEW i \in Node, NEW d \in Node, NEW m \in Node
             PROVE  /\ x[i][d] <= solution[i][d]
                    /\ x[i][d] <= solution[i][m] + x[m][d]
  BY DEF AllUnder, Under
<1>1. x[i][d] \in Dist /\ x[m][d] \in Dist /\ topology[i][m] \in Dist
  BY LinksTyped DEF Init
<1>2. /\ x[i][d] <= topology[i][d]
      /\ topology[i][m] # Inf => x[i][d] <= topology[i][m] + x[m][d]
  BY DEF Relaxed
<1>3. CASE topology[i][m] = Inf
  BY <1>1, <1>2, <1>3, LinksTyped DEF Init, Dist
<1>4. CASE topology[i][m] # Inf
  BY <1>2, <1>4 DEF Init
<1> QED
  BY <1>3, <1>4

\* A distance that is shortened becomes the sum of two others, each above x.
LEMMA StaysUnder ==
    ASSUME TypeOK, intermediate < N, Shorten \/ Keep,
           NEW x \in [Node -> [Node -> Dist]], Under(x)
    PROVE  Under(x)'
<1> SUFFICES ASSUME NEW i \in Node, NEW d \in Node, NEW m \in Node
             PROVE  /\ x[i][d] <= solution'[i][d]
                    /\ x[i][d] <= solution'[i][m] + x[m][d]
  BY DEF Under
<1> DEFINE k == intermediate
           S(a, b) == solution[a][b]
           T(a, b) == solution'[a][b]
           X(a, b) == x[a][b]
<1>1. /\ k \in Node
      /\ \A a, b \in Node : S(a, b) \in Nat /\ T(a, b) \in Nat /\ X(a, b) \in Nat
  BY DetourExact, StepShape, LinksTyped DEF TypeOK, Dist
<1>2. \A a, b \in Node : T(a, b) = S(a, b) \/ T(a, b) = S(a, k) + S(k, b)
  BY StepShape
<1>3. \A a, b, c \in Node : X(a, b) <= S(a, b) /\ X(a, b) <= S(a, c) + X(c, b)
  BY DEF Under
<1> HIDE DEF k, S, T, X
<1>4. \A a, b \in Node : X(a, b) <= S(a, k) + S(k, b)
  BY <1>1, <1>3
<1>5. \A a, b, c \in Node : X(a, b) <= (S(a, k) + S(k, c)) + X(c, b)
  <2> SUFFICES ASSUME NEW a \in Node, NEW b \in Node, NEW c \in Node
               PROVE  X(a, b) <= (S(a, k) + S(k, c)) + X(c, b)
    OBVIOUS
  <2>1. X(a, b) <= S(a, k) + X(k, b) /\ X(k, b) <= S(k, c) + X(c, b)
    BY <1>1, <1>3
  <2> QED
    BY <1>1, <2>1
<1>6. X(i, d) <= T(i, d)
  BY <1>2, <1>3, <1>4
<1>7. X(i, d) <= T(i, m) + X(m, d)
  BY <1>2, <1>3, <1>5
<1> QED
  BY <1>6, <1>7 DEF T, X

\* For every file floyd_warshall ends with the shortest distances: the greatest
\* matrix that satisfies their inequalities.
THEOREM EndsGreatest == Spec => []DoneMeansGreatest
<1>1. TypeOK /\ AllUnder /\ [Next]_vars => AllUnder'
  <2> SUFFICES ASSUME TypeOK, AllUnder, [Next]_vars
               PROVE  AllUnder'
    OBVIOUS
  <2>1. ASSUME Shorten \/ Keep, NEW x \in [Node -> [Node -> Dist]],
               Relaxed(x, topology)'
        PROVE  Under(x)'
    <3>1. intermediate < N /\ topology' = topology
      BY <2>1 DEF Shorten, Keep
    <3>2. Under(x)
      BY <2>1, <3>1 DEF AllUnder, Relaxed
    <3> QED
      BY <2>1, <3>1, <3>2, StaysUnder
  <2>2. CASE Done \/ UNCHANGED vars
    BY <2>2 DEF Done, vars, AllUnder, Relaxed, Under
  <2> QED
    BY <2>1, <2>2 DEF Next, AllUnder
<1>2. /\ TypeOK /\ AllUnder /\ DoneMeansClosed /\ Below(solution, topology)
      => DoneMeansGreatest
  <2> SUFFICES ASSUME TypeOK, AllUnder, DoneMeansClosed,
                      Below(solution, topology), intermediate = N
               PROVE  /\ Relaxed(solution, topology)
                      /\ \A x \in [Node -> [Node -> Dist]] :
                            Relaxed(x, topology) => Below(x, solution)
    BY DEF DoneMeansGreatest
  <2>1. \A x \in [Node -> [Node -> Dist]] : Relaxed(x, topology) => Below(x, solution)
    BY DEF AllUnder, Under, Below
  <2>2. ASSUME NEW i \in Node, NEW m \in Node, NEW d \in Node
        PROVE  solution[i][d] <= topology[i][m] + solution[m][d]
    <3>1. /\ solution[i][d] <= solution[i][m] + solution[m][d]
          /\ solution[i][m] <= topology[i][m]
      BY DEF DoneMeansClosed, Closed, Below
    <3>2. /\ solution[i][d] \in Int /\ solution[i][m] \in Int
          /\ solution[m][d] \in Int /\ topology[i][m] \in Int
      BY LinksTyped DEF TypeOK, Dist
    <3> QED
      BY <3>1, <3>2
  <2>3. Relaxed(solution, topology)
    BY <2>2 DEF Relaxed, Below
  <2> QED
    BY <2>1, <2>3
<1> QED
  BY <1>1, <1>2, LinksAbove, TypeCorrect, EndsClosed, OnlyShorter, PTL DEF Spec
=============================================================================
