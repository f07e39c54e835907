---------------------------- MODULE TopologicalSort ----------------------------
(***************************************************************************)
(* topological_sort of base/graphs.h: a depth-first search that appends a  *)
(* vertex after all its neighbours, and exits when it meets a vertex that  *)
(* it has entered and not left.  Every plan of vcpkg is ordered by it.     *)
(* Neighbours are visited in any order: a GraphRandomizer may shuffle      *)
(* them.                                                                   *)
(***************************************************************************)
EXTENDS Naturals, Sequences

CONSTANT Vertex

VARIABLES
    graph,    \* the pairs <<v, w>> such that w is in adjacency_list(v)
    starts,   \* starting_vertices
    pending,  \* the starting vertices not yet visited
    status,   \* exploration_status
    frames,   \* the calls of topological_sort_internal: the vertex and the neighbours left
    sorted,   \* the result
    cyclic    \* msgGraphCycleDetected

sortVars == <<graph, starts, pending, status, frames, sorted, cyclic>>

Neighbours(v) == {w \in Vertex : <<v, w>> \in graph}
Explored(s) == {v \in Vertex : status[v] = s}
Top == frames[Len(frames)]

Fresh ==
    /\ status = [v \in Vertex |-> "NOT_EXPLORED"]
    /\ frames = <<>>
    /\ sorted = <<>>
    /\ cyclic = FALSE

InitSort == graph \in SUBSET (Vertex \X Vertex) /\ starts \in SUBSET Vertex /\ pending = starts /\ Fresh

\* A call of topological_sort.
StartSort(g, vertices) ==
    /\ graph' = g
    /\ starts' = vertices
    /\ pending' = vertices
    /\ status' = [v \in Vertex |-> "NOT_EXPLORED"]
    /\ frames' = <<>>
    /\ sorted' = <<>>
    /\ cyclic' = FALSE

\* topological_sort_internal up to its loop; rest are the calls below it.
Enter(v, rest) ==
    /\ status' = IF status[v] = "NOT_EXPLORED" THEN [status EXCEPT ![v] = "PARTIALLY_EXPLORED"] ELSE status
    /\ frames' = IF status[v] = "NOT_EXPLORED" THEN Append(rest, [vertex |-> v, left |-> Neighbours(v)]) ELSE rest
    /\ cyclic' = (status[v] = "PARTIALLY_EXPLORED")

VisitStart(v) ==
    /\ ~ cyclic
    /\ frames = <<>>
    /\ v \in pending
    /\ pending' = pending \ {v}
    /\ Enter(v, frames)
    /\ UNCHANGED <<graph, starts, sorted>>

VisitNeighbour(v) ==
    /\ ~ cyclic
    /\ frames # <<>>
    /\ v \in Top.left
    /\ Enter(v, [frames EXCEPT ![Len(frames)].left = @ \ {v}])
    /\ UNCHANGED <<graph, starts, pending, sorted>>

Return ==
    /\ ~ cyclic
    /\ frames # <<>>
    /\ Top.left = {}
    /\ sorted' = Append(sorted, Top.vertex)
    /\ status' = [status EXCEPT ![Top.vertex] = "FULLY_EXPLORED"]
    /\ frames' = SubSeq(frames, 1, Len(frames) - 1)
    /\ UNCHANGED <<graph, starts, pending, cyclic>>

SortStep == Return \/ \E v \in Vertex : VisitStart(v) \/ VisitNeighbour(v)

SortDone == ~ cyclic /\ frames = <<>> /\ pending = {}

Sort == InitSort /\ [][SortStep]_sortVars

--------------------------------------------------------------------------------
SortTypeOK ==
    /\ graph \subseteq Vertex \X Vertex
    /\ starts \subseteq Vertex
    /\ pending \subseteq starts
    /\ status \in [Vertex -> {"NOT_EXPLORED", "PARTIALLY_EXPLORED", "FULLY_EXPLORED"}]
    /\ frames \in Seq([vertex : Vertex, left : SUBSET Vertex])
    /\ sorted \in Seq(Vertex)
    /\ cyclic \in BOOLEAN

\* The vertices entered and not left are those of the calls, each in one call.
FramesInv ==
    /\ Explored("PARTIALLY_EXPLORED") = {frames[i].vertex : i \in 1 .. Len(frames)}
    /\ \A i, j \in 1 .. Len(frames) : frames[i].vertex = frames[j].vertex => i = j

\* Each call was made for a neighbour of the one below it; what a call has been through is explored
\* or is being explored above it.
PathInv ==
    /\ \A i \in 1 .. Len(frames) : frames[i].left \subseteq Neighbours(frames[i].vertex)
    /\ \A i \in 1 .. Len(frames) - 1 : frames[i + 1].vertex \in Neighbours(frames[i].vertex)
    /\ \A i \in 1 .. Len(frames) : \A w \in Neighbours(frames[i].vertex) \ frames[i].left :
          \/ status[w] = "FULLY_EXPLORED"
          \/ i < Len(frames) /\ w = frames[i + 1].vertex
          \/ i = Len(frames) /\ cyclic

\* What is sorted is what is explored, each vertex once, after all its neighbours.
OrderInv ==
    /\ Explored("FULLY_EXPLORED") = {sorted[i] : i \in 1 .. Len(sorted)}
    /\ \A i, j \in 1 .. Len(sorted) : sorted[i] = sorted[j] => i = j
    /\ \A i \in 1 .. Len(sorted) : \A w \in Neighbours(sorted[i]) : \E j \in 1 .. i - 1 : sorted[j] = w

\* The starting vertices that have been visited are explored; the first call is for the last of them.
StartsInv ==
    \A v \in starts \ pending : status[v] = "FULLY_EXPLORED" \/ (frames # <<>> /\ v = frames[1].vertex)

\* A cycle is reported only if there is one: the last call has met the vertex of a call below it, and
\* the calls between them are linked by edges.
CycleInv ==
    cyclic => \E i \in 1 .. Len(frames) : frames[i].vertex \in Neighbours(Top.vertex)

SortInv == SortTypeOK /\ FramesInv /\ PathInv /\ OrderInv /\ StartsInv /\ CycleInv

\* The result holds all starting vertices, all they lead to, each once and after its neighbours
\* (base/graphs.h:53-103; the removal, installation and export orders rely on it).
SortedAll ==
    SortDone => /\ \A v \in starts : \E i \in 1 .. Len(sorted) : sorted[i] = v
                /\ \A i \in 1 .. Len(sorted) : \A w \in Neighbours(sorted[i]) : \E j \in 1 .. i - 1 : sorted[j] = w
                /\ \A i, j \in 1 .. Len(sorted) : sorted[i] = sorted[j] => i = j

\* The sets in record r are among those in s, and not all the same.
Below(r, s) == r # s /\ \A part \in DOMAIN r : r[part] \subseteq s[part]

\* What there is still to do: starting vertices to visit, edges to follow, calls to return from.
SortLeft ==
    [starts |-> pending,
     edges |-> {e \in graph : \/ status[e[1]] = "NOT_EXPLORED"
                             \/ \E i \in 1 .. Len(frames) : frames[i].vertex = e[1] /\ e[2] \in frames[i].left},
     vertices |-> Vertex \ Explored("FULLY_EXPLORED")]

\* No step is taken twice, on a graph with cycles either: the recursion follows each edge once and enters
\* each vertex once, so it makes at most so many steps (base/graphs.h:53-103).
SortDescends == [][Below(SortLeft', SortLeft)]_sortVars
================================================================================
