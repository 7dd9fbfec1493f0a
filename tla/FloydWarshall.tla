--------------------------- MODULE FloydWarshall ---------------------------
(***************************************************************************)
(* create_topology() and floyd_warshall() of stress.c.  The first turns    *)
(* the numbers in a file into links, the second computes the solution the  *)
(* routers are compared with: three nested loops over one matrix, in       *)
(* place, in arithmetic of a fixed width with inf_distance as "no path".   *)
(*                                                                         *)
(* One step is one iteration of the innermost loop.                        *)
(***************************************************************************)
EXTENDS Integers

CONSTANTS
    N,            \* num_driver
    Inf,          \* inf_distance, 2^31 - 1 in a distance_t of 32 bits
    Files,        \* the contents of topology files: int's, in rows
    Shortest      \* Shortest[f]: the lengths of the shortest paths in file f

Node == 0 .. N - 1
Dist == 0 .. Inf
UintMax == 2 * Inf + 1       \* the largest distance_t

\* create_topology asserts num_driver > 0.  fscanf("%d") reads an int.
ASSUME GraphAssumption ==
    /\ N \in Nat \ {0}
    /\ Inf \in Nat
    /\ Files \subseteq [Node -> [Node -> -(Inf + 1) .. Inf]]

\* The distance_t that shares its bits with an int
AsUnsigned(v) == IF v < 0 THEN v + UintMax + 1 ELSE v

\* Mutant: the conversion clears the sign bit.
LinkClearsSign(v) == AsUnsigned(v) % (Inf + 1)

\* "negative values get converted to inf_distance"
Link(v) == IF AsUnsigned(v) > Inf THEN Inf ELSE AsUnsigned(v)

create_topology(file) == [s \in Node |-> [d \in Node |-> Link(file[s][d])]]

\* The matrix s is closed: a detour is nowhere shorter.
Closed(s) == \A i, m, d \in Node : s[i][d] <= s[i][m] + s[m][d]

\* s is nowhere above t.
Below(s, t) == \A i, d \in Node : s[i][d] <= t[i][d]

\* s is nowhere above a link in the file f; a negative number is none.
WithinLinks(s, f) == \A i, d \in Node : f[i][d] >= 0 => s[i][d] <= f[i][d]

\* Of the shortest paths only this is used: they are no longer than a link,
\* and a shortest path followed by another is no shorter than the shortest.
ASSUME ShortestAssumption ==
    /\ Shortest \in [Files -> [Node -> [Node -> Dist]]]
    /\ \A f \in Files : Closed(Shortest[f]) /\ WithinLinks(Shortest[f], f)

VARIABLES
    file,          \* the content of the topology file
    topology,      \* the links
    solution,      \* the distances found so far
    intermediate,  \* the index of the outer loop, N when it has ended
    src,           \* of the middle loop
    dst            \* of the inner loop

vars == <<file, topology, solution, intermediate, src, dst>>

\* Mutant: inf_distance is the largest distance_t.
PlusOverflows(a, b) == IF a + b > Inf THEN a + b - (Inf + 1) ELSE a + b

\* a + b in distance_t, for two distances
Plus(a, b) == IF a + b > UintMax THEN a + b - (UintMax + 1) ELSE a + b

\* The loops start after the memcpy.
Init ==
    /\ file \in Files
    /\ topology = create_topology(file)
    /\ solution = topology
    /\ intermediate = 0
    /\ src = 0
    /\ dst = 0

\* The length of the path from s to d by way of intermediate
Detour(s, d) == Plus(solution[s][intermediate], solution[intermediate][d])

\* Mutant: the intermediate node is the index of the inner loop.
AdvanceInnermost ==
    /\ intermediate' = IF intermediate < N - 1 THEN intermediate + 1
                       ELSE IF dst = N - 1 /\ src = N - 1 THEN N ELSE 0
    /\ dst' = IF intermediate < N - 1 THEN dst
              ELSE IF dst < N - 1 THEN dst + 1 ELSE 0
    /\ src' = IF intermediate < N - 1 \/ dst < N - 1 THEN src
              ELSE IF src < N - 1 THEN src + 1 ELSE 0

\* Mutant: the inner loop runs to num_driver.
AdvancePastEnd ==
    /\ dst' = IF dst < N THEN dst + 1 ELSE 0
    /\ src' = IF dst < N THEN src ELSE IF src < N - 1 THEN src + 1 ELSE 0
    /\ intermediate' = IF dst = N /\ src = N - 1
                         THEN intermediate + 1 ELSE intermediate

\* The next iteration of the three loops
Advance ==
    /\ dst' = IF dst < N - 1 THEN dst + 1 ELSE 0
    /\ src' = IF dst < N - 1 THEN src ELSE IF src < N - 1 THEN src + 1 ELSE 0
    /\ intermediate' = IF dst = N - 1 /\ src = N - 1
                         THEN intermediate + 1 ELSE intermediate

Shorten ==
    /\ intermediate < N
    /\ Detour(src, dst) < solution[src][dst]
    /\ solution' = [solution EXCEPT ![src][dst] = Detour(src, dst)]
    /\ Advance
    /\ UNCHANGED <<file, topology>>

Keep ==
    /\ intermediate < N
    /\ Detour(src, dst) >= solution[src][dst]
    /\ Advance
    /\ UNCHANGED <<file, topology, solution>>

Done == intermediate = N /\ UNCHANGED vars

Next == Shorten \/ Keep \/ Done

Spec == Init /\ [][Next]_vars

---------------------------------------------------------------------------
(* Properties *)

\* The variables have their types; in particular neither a link read from the
\* file nor a distance ever exceeds inf_distance.
TypeOK ==
    /\ file \in [Node -> [Node -> -(Inf + 1) .. Inf]]
    /\ topology \in [Node -> [Node -> Dist]]
    /\ solution \in [Node -> [Node -> Dist]]
    /\ intermediate \in 0 .. N
    /\ src \in Node
    /\ dst \in Node

\* When the loops end no detour by way of a third node is shorter: one pass
\* for each intermediate node is enough although the matrix changes under it.
DoneMeansClosed == intermediate = N => Closed(solution)

\* The loops never find a path that is not there: no iteration goes below the
\* shortest path, whatever order the entries are shortened in.
NeverTooShort == Below(Shortest[file], solution)

\* What run_stress compares the routers with are the shortest paths in the file:
\* neither the conversion of its numbers nor the loops add or lose one.
DoneMeansShortest == intermediate = N => solution = Shortest[file]
=============================================================================
