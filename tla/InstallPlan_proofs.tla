--------------------------- MODULE InstallPlan_proofs ---------------------------
(***************************************************************************)
(* Classic mode for any finite set of packages and features, any ports,    *)
(* requests and updates.                                                   *)
(*                                                                         *)
(* First TopologicalSort, which orders every plan: SortInv gives that the  *)
(* result holds all that the starting vertices lead to, in order, and that *)
(* a graph without a cycle is never refused.                               *)
(*                                                                         *)
(* Then InstallPlan.  PlanInv says what may still be missing from the plan *)
(* while next_dependencies has entries; it gives PlanBuilds.  RunInv says  *)
(* that plans are made of a sound database and executed in their order.    *)
(* LeastInv says that whatever the solver has planned or has still to look *)
(* at is in every set of specs that holds the request and all that this    *)
(* leads to, DoneInv that nothing is forgotten on the way; together they   *)
(* make the plan that of the least such set, whatever the order.  LackInv  *)
(* says what of the database may be missing, and with it DbInv holds.      *)
(***************************************************************************)
EXTENDS InstallPlan, SequenceTheorems, FiniteSetTheorems, WellFoundedInduction, TLAPS

(***************************************************************************)
(* topological_sort.                                                       *)
(***************************************************************************)
Frame == [vertex : Vertex, left : SUBSET Vertex]

LEMMA InitInv == InitSort => SortInv
  <1> SUFFICES ASSUME InitSort PROVE SortInv
    OBVIOUS
  <1> USE DEF InitSort, Fresh
  <1>1. SortTypeOK
    BY EmptySeq DEF SortTypeOK
  <1>2. FramesInv
    BY DEF FramesInv, Explored
  <1>3. PathInv /\ OrderInv /\ StartsInv /\ CycleInv
    BY DEF PathInv, OrderInv, StartsInv, CycleInv, Explored
  <1> QED
    BY <1>1, <1>2, <1>3 DEF SortInv

\* The calls when the last one goes on to v.
RestOf(v) == [frames EXCEPT ![Len(frames)].left = @ \ {v}]

LEMMA RestOfCalls ==
    ASSUME SortTypeOK, frames # <<>>, NEW v \in Vertex
    PROVE  /\ RestOf(v) \in Seq(Frame)
           /\ Len(RestOf(v)) = Len(frames)
           /\ Len(frames) \in Nat \ {0}
           /\ \A i \in 1 .. Len(frames) : RestOf(v)[i].vertex = frames[i].vertex
           /\ \A i \in 1 .. Len(frames) - 1 : RestOf(v)[i] = frames[i]
           /\ RestOf(v)[Len(frames)].left = frames[Len(frames)].left \ {v}
  <1> DEFINE n == Len(frames)
             next == [frames[n] EXCEPT !.left = @ \ {v}]
  <1>1. frames \in Seq(Frame) /\ n \in Nat \ {0}
    BY EmptySeq DEF SortTypeOK, Frame
  <1>2. frames[n] \in Frame
    BY <1>1, ElementOfSeq
  <1>3. RestOf(v) = [frames EXCEPT ![n] = next]
    BY DEF RestOf
  <1>4. /\ next \in Frame
        /\ next.vertex = frames[n].vertex
        /\ next.left = frames[n].left \ {v}
    BY <1>2 DEF Frame
  <1> HIDE DEF next
  <1>5. /\ [frames EXCEPT ![n] = next] \in Seq(Frame)
        /\ Len([frames EXCEPT ![n] = next]) = n
        /\ \A j \in 1 .. n : [frames EXCEPT ![n] = next][j] = IF j = n THEN next ELSE frames[j]
    BY <1>1, <1>4, ExceptSeq
  <1> HIDE DEF n
  <1>6. \A i \in 1 .. n - 1 : RestOf(v)[i] = frames[i]
    BY <1>1, <1>3, <1>5
  <1>7. RestOf(v)[n] = next
    BY <1>1, <1>3, <1>5
  <1>8. \A i \in 1 .. n : RestOf(v)[i].vertex = frames[i].vertex
    BY <1>1, <1>3, <1>4, <1>5
  <1> QED
    BY <1>1, <1>3, <1>4, <1>5, <1>6, <1>7, <1>8 DEF n

\* A starting vertex that is not explored becomes the only call.
LEMMA StartEnters ==
    ASSUME SortInv, NEW v \in Vertex, VisitStart(v), status[v] = "NOT_EXPLORED"
    PROVE  SortInv'
  <1> DEFINE new == [vertex |-> v, left |-> Neighbours(v)]
  <1>1. /\ frames = <<>> /\ frames' = Append(frames, new)
        /\ status' = [status EXCEPT ![v] = "PARTIALLY_EXPLORED"]
        /\ ~ cyclic /\ cyclic' = FALSE
        /\ pending' = pending \ {v}
        /\ UNCHANGED <<graph, starts, sorted>>
    BY DEF VisitStart, Enter
  <1>2. /\ new \in Frame
        /\ new.vertex = v
        /\ new.left = {w \in Vertex : <<v, w>> \in graph}
    BY DEF Frame, Neighbours
  <1> HIDE DEF new
  <1>3. frames' \in Seq(Frame) /\ Len(frames') = 1 /\ frames'[1] = new
    BY <1>1, <1>2, EmptySeq
  <1>4. SortTypeOK'
    BY <1>1, <1>3 DEF SortInv, SortTypeOK, Frame
  <1>5. FramesInv'
    BY <1>1, <1>2, <1>3 DEF SortInv, SortTypeOK, FramesInv, Explored
  <1>6. PathInv'
    BY <1>1, <1>2, <1>3 DEF PathInv, Neighbours
  <1>7. OrderInv'
    BY <1>1 DEF SortInv, SortTypeOK, OrderInv, Explored, Neighbours
  <1>8. StartsInv'
    <2>1. frames' # <<>> /\ frames'[1].vertex = v
      <3>1. Len(frames') # 0 /\ frames'[1].vertex = new.vertex
        BY <1>3
      <3> QED
        BY <1>2, <3>1
    <2>2. \A w \in starts \ pending : status[w] = "FULLY_EXPLORED"
      BY <1>1 DEF SortInv, StartsInv
    <2>3. \A w \in starts \ pending' : w \in starts \ pending \/ w = v
      BY <1>1
    <2>4. \A w \in starts : w \in Vertex
      BY DEF SortInv, SortTypeOK
    <2> QED
      BY <1>1, <2>1, <2>2, <2>3, <2>4 DEF StartsInv, SortInv, SortTypeOK
  <1>9. CycleInv'
    BY <1>1 DEF CycleInv
  <1> QED
    BY <1>4, <1>5, <1>6, <1>7, <1>8, <1>9 DEF SortInv

\* A starting vertex that is explored already is passed over; none is being explored.
LEMMA StartPasses ==
    ASSUME SortInv, NEW v \in Vertex, VisitStart(v), status[v] # "NOT_EXPLORED"
    PROVE  SortInv'
  <1>1. /\ frames = <<>> /\ frames' = frames /\ status' = status
        /\ cyclic' = (status[v] = "PARTIALLY_EXPLORED")
        /\ pending' = pending \ {v}
        /\ UNCHANGED <<graph, starts, sorted>>
    BY DEF VisitStart, Enter
  <1>2. status[v] = "FULLY_EXPLORED"
    BY <1>1 DEF SortInv, SortTypeOK, FramesInv, Explored
  <1>3. ~ cyclic' /\ ~ cyclic
    BY <1>1, <1>2 DEF VisitStart
  <1>4. SortTypeOK' /\ FramesInv' /\ OrderInv' /\ CycleInv'
    BY <1>1, <1>3 DEF SortInv, SortTypeOK, FramesInv, OrderInv, CycleInv, Explored, Neighbours
  <1>5. PathInv'
    BY <1>1 DEF PathInv
  <1>6. StartsInv'
    BY <1>1, <1>2 DEF SortInv, SortTypeOK, StartsInv
  <1> QED
    BY <1>4, <1>5, <1>6 DEF SortInv

\* A neighbour that is not explored is entered by a new call.
LEMMA NeighbourEnters ==
    ASSUME SortInv, NEW v \in Vertex, VisitNeighbour(v), status[v] = "NOT_EXPLORED"
    PROVE  SortInv'
  <1> DEFINE rest == RestOf(v)
             new == [vertex |-> v, left |-> Neighbours(v)]
             n == Len(frames)
  <1>1. /\ frames # <<>> /\ v \in Top.left /\ frames' = Append(rest, new)
        /\ status' = [status EXCEPT ![v] = "PARTIALLY_EXPLORED"]
        /\ ~ cyclic /\ cyclic' = FALSE
        /\ UNCHANGED <<graph, starts, pending, sorted>>
    BY DEF VisitNeighbour, Enter, RestOf
  <1>2. /\ rest \in Seq(Frame) /\ Len(rest) = n /\ n \in Nat \ {0}
        /\ \A i \in 1 .. n : rest[i].vertex = frames[i].vertex
        /\ \A i \in 1 .. n - 1 : rest[i] = frames[i]
        /\ rest[n].left = frames[n].left \ {v}
    BY <1>1, RestOfCalls DEF SortInv
  <1>3. /\ new \in Frame
        /\ new.vertex = v
        /\ new.left = Neighbours(v)
    BY DEF Frame, Neighbours
  <1> HIDE DEF rest, new
  <1>4. /\ frames' \in Seq(Frame) /\ Len(frames') = n + 1
        /\ \A i \in 1 .. n : frames'[i] = rest[i]
        /\ frames'[n + 1] = new
    BY <1>1, <1>2, <1>3
  <1>5. \A i \in 1 .. n : frames'[i].vertex = frames[i].vertex
    BY <1>2, <1>4
  <1>6. frames'[n + 1].vertex = v /\ frames'[n + 1].left = Neighbours(v)
    BY <1>3, <1>4
  <1>7. SortTypeOK'
    BY <1>1, <1>4 DEF SortInv, SortTypeOK, Frame
  <1>8. FramesInv'
    <2>1. \A i \in 1 .. n : frames[i].vertex # v
      BY DEF SortInv, FramesInv, Explored
    <2>2. ASSUME NEW i \in 1 .. n + 1, NEW j \in 1 .. n + 1, frames'[i].vertex = frames'[j].vertex
          PROVE  i = j
      <3>1. CASE i = n + 1 \/ j = n + 1
        BY <1>2, <1>5, <1>6, <2>1, <2>2, <3>1
      <3>2. CASE i \in 1 .. n /\ j \in 1 .. n
        BY <1>5, <2>2, <3>2 DEF SortInv, FramesInv
      <3> QED
        BY <1>2, <3>1, <3>2
    <2>3. Explored("PARTIALLY_EXPLORED")' = Explored("PARTIALLY_EXPLORED") \cup {v}
      BY <1>1 DEF SortInv, SortTypeOK, Explored
    <2>4. {frames'[i].vertex : i \in 1 .. n + 1} = {frames[i].vertex : i \in 1 .. n} \cup {v}
      <3>1. 1 .. n + 1 = 1 .. n \cup {n + 1}
        BY <1>2
      <3> QED
        BY <1>5, <1>6, <3>1
    <2> QED
      BY <1>4, <2>2, <2>3, <2>4 DEF SortInv, FramesInv
  <1>9. PathInv'
    <2>1. \A w : Neighbours(w)' = Neighbours(w)
      BY <1>1 DEF Neighbours
    <2>2. \A i \in 1 .. n + 1 : frames'[i].left \subseteq Neighbours(frames'[i].vertex)
      <3>1. \A i \in 1 .. n : rest[i].left \subseteq frames[i].left
        BY <1>2
      <3> QED
        BY <1>2, <1>4, <1>5, <1>6, <3>1 DEF SortInv, PathInv
    <2>3. \A i \in 1 .. n : frames'[i + 1].vertex \in Neighbours(frames'[i].vertex)
      <3>1. v \in Neighbours(frames[n].vertex)
        BY <1>1, <1>2 DEF SortInv, PathInv, Top
      <3> QED
        BY <1>2, <1>5, <1>6, <3>1 DEF SortInv, PathInv
    <2>4. ASSUME NEW i \in 1 .. n + 1, NEW w \in Neighbours(frames'[i].vertex) \ frames'[i].left
          PROVE  \/ status'[w] = "FULLY_EXPLORED"
                 \/ i < n + 1 /\ w = frames'[i + 1].vertex
      <3>1. CASE i = n + 1
        BY <1>6, <2>4, <3>1
      <3>2. CASE i = n
        <4>1. w = v \/ w \in Neighbours(frames[n].vertex) \ frames[n].left
          BY <1>2, <1>4, <1>5, <2>4, <3>2
        <4>2. CASE w = v
          BY <1>2, <1>6, <3>2, <4>2
        <4>3. CASE w \in Neighbours(frames[n].vertex) \ frames[n].left
          <5>1. status[w] = "FULLY_EXPLORED"
            BY <1>1, <1>2, <4>3 DEF SortInv, PathInv
          <5> QED
            BY <1>1, <5>1 DEF SortInv, SortTypeOK
        <4> QED
          BY <4>1, <4>2, <4>3
      <3>3. CASE i \in 1 .. n - 1
        <4>1. w \in Neighbours(frames[i].vertex) \ frames[i].left
          BY <1>2, <1>4, <1>5, <2>4, <3>3
        <4>2. status[w] = "FULLY_EXPLORED" \/ w = frames[i + 1].vertex
          BY <1>1, <1>2, <3>3, <4>1 DEF SortInv, PathInv
        <4> QED
          BY <1>1, <1>2, <1>5, <3>3, <4>2 DEF SortInv, SortTypeOK
      <3> QED
        BY <1>2, <3>1, <3>2, <3>3
    <2> QED
      BY <1>2, <1>4, <2>1, <2>2, <2>3, <2>4 DEF PathInv
  <1>10. OrderInv'
    BY <1>1 DEF SortInv, SortTypeOK, OrderInv, Explored, Neighbours
  <1>11. StartsInv'
    <2>1. frames' # <<>> /\ frames'[1].vertex = frames[1].vertex
      BY <1>2, <1>4, <1>5, EmptySeq
    <2> QED
      BY <1>1, <2>1 DEF SortInv, SortTypeOK, StartsInv
  <1>12. CycleInv'
    BY <1>1 DEF CycleInv
  <1> QED
    BY <1>7, <1>8, <1>9, <1>10, <1>11, <1>12 DEF SortInv

\* A neighbour that is explored is passed over, one that is being explored is reported as a cycle.
LEMMA NeighbourPasses ==
    ASSUME SortInv, NEW v \in Vertex, VisitNeighbour(v), status[v] # "NOT_EXPLORED"
    PROVE  SortInv'
  <1> DEFINE n == Len(frames)
  <1>1. /\ frames # <<>> /\ v \in Top.left /\ frames' = RestOf(v)
        /\ ~ cyclic /\ cyclic' = (status[v] = "PARTIALLY_EXPLORED")
        /\ UNCHANGED <<graph, starts, pending, status, sorted>>
    BY DEF VisitNeighbour, Enter, RestOf
  <1>2. /\ frames' \in Seq(Frame) /\ Len(frames') = n /\ n \in Nat \ {0}
        /\ \A i \in 1 .. n : frames'[i].vertex = frames[i].vertex
        /\ \A i \in 1 .. n - 1 : frames'[i] = frames[i]
        /\ frames'[n].left = frames[n].left \ {v}
    BY <1>1, RestOfCalls DEF SortInv
  <1>3. \A w : Neighbours(w)' = Neighbours(w)
    BY <1>1 DEF Neighbours
  <1>4. SortTypeOK'
    BY <1>1, <1>2 DEF SortInv, SortTypeOK, Frame
  <1>5. FramesInv'
    BY <1>1, <1>2 DEF SortInv, FramesInv, Explored
  <1>6. PathInv'
    <2>1. \A i \in 1 .. n : frames'[i].left \subseteq frames[i].left
      BY <1>2
    <2>2. ASSUME NEW i \in 1 .. n, NEW w \in Neighbours(frames'[i].vertex) \ frames'[i].left
          PROVE  \/ status'[w] = "FULLY_EXPLORED"
                 \/ i < n /\ w = frames'[i + 1].vertex
                 \/ i = n /\ cyclic'
      <3>1. CASE i \in 1 .. n - 1
        <4>1. i < n /\ i # n /\ i + 1 \in 1 .. n /\ frames'[i] = frames[i] /\ frames'[i + 1].vertex = frames[i + 1].vertex
          BY <1>2, <3>1
        <4>2. status[w] = "FULLY_EXPLORED" \/ w = frames[i + 1].vertex
          BY <2>2, <4>1 DEF SortInv, PathInv
        <4>. QED
          BY <1>1, <4>1, <4>2
      <3>2. CASE i = n /\ w # v
        BY <1>1, <1>2, <2>2, <3>2 DEF SortInv, PathInv
      <3>3. CASE i = n /\ w = v
        <4>1. status[v] \in {"PARTIALLY_EXPLORED", "FULLY_EXPLORED"}
          BY DEF SortInv, SortTypeOK
        <4> QED
          BY <1>1, <3>3, <4>1
      <3> QED
        BY <1>2, <3>1, <3>2, <3>3
    <2> QED
      BY <1>2, <1>3, <2>1, <2>2 DEF SortInv, PathInv
  <1>7. OrderInv'
    BY <1>1 DEF SortInv, OrderInv, Explored, Neighbours
  <1>8. StartsInv'
    <2>1. frames' # <<>>
      BY <1>2, EmptySeq
    <2> QED
      BY <1>1, <1>2, <2>1 DEF SortInv, StartsInv
  <1>9. CycleInv'
    <2> SUFFICES ASSUME cyclic' PROVE \E i \in 1 .. n : frames'[i].vertex \in Neighbours(frames[n].vertex)
      BY <1>2, <1>3 DEF CycleInv, Top
    <2>1. PICK i \in 1 .. n : frames[i].vertex = v
      BY <1>1 DEF SortInv, FramesInv, Explored
    <2>2. v \in Neighbours(frames[n].vertex)
      BY <1>1, <1>2 DEF SortInv, PathInv, Top
    <2> QED
      BY <1>2, <1>3, <2>1, <2>2
  <1> QED
    BY <1>4, <1>5, <1>6, <1>7, <1>8, <1>9 DEF SortInv

\* What a call leaves when it returns.
LEMMA ReturnedCalls ==
    ASSUME SortTypeOK, Return
    PROVE  /\ frames # <<>> /\ Len(frames) \in Nat \ {0}
           /\ frames' \in Seq(Frame) /\ Len(frames') = Len(frames) - 1
           /\ \A i \in 1 .. Len(frames) - 1 : frames'[i] = frames[i]
           /\ Top \in Frame
           /\ sorted' \in Seq(Vertex) /\ Len(sorted') = Len(sorted) + 1 /\ Len(sorted) \in Nat
           /\ \A i \in 1 .. Len(sorted) : sorted'[i] = sorted[i]
           /\ sorted'[Len(sorted) + 1] = Top.vertex
  <1>1. frames \in Seq(Frame) /\ frames # <<>> /\ Len(frames) \in Nat \ {0}
    BY EmptySeq DEF SortTypeOK, Frame, Return
  <1>2. \A i \in 1 .. Len(frames) : frames[i] \in Frame
    BY <1>1, ElementOfSeq
  <1>3. /\ frames' \in Seq(Frame) /\ Len(frames') = Len(frames) - 1
        /\ \A i \in 1 .. Len(frames) - 1 : frames'[i] = frames[i]
    <2>1. frames' = SubSeq(frames, 1, Len(frames) - 1)
      BY DEF Return
    <2> DEFINE m == Len(frames) - 1
    <2>2. m \in Nat /\ \A i \in 1 .. m : frames[i] \in Frame
      BY <1>1, <1>2
    <2>3. /\ SubSeq(frames, 1, m) \in Seq(Frame)
          /\ Len(SubSeq(frames, 1, m)) = IF 1 <= m THEN m - 1 + 1 ELSE 0
          /\ \A i \in 1 .. m - 1 + 1 : SubSeq(frames, 1, m)[i] = frames[1 + i - 1]
      <3> HIDE DEF m
      <3> QED
        BY <2>2, SubSeqProperties
    <2> HIDE DEF m
    <2>4. Len(SubSeq(frames, 1, m)) = m /\ \A i \in 1 .. m : SubSeq(frames, 1, m)[i] = frames[i]
      BY <2>2, <2>3
    <2> QED
      BY <2>1, <2>3, <2>4 DEF m
  <1>4. Top \in Frame
    BY <1>1, <1>2 DEF Top
  <1>5. Top.vertex \in Vertex
    BY <1>4 DEF Frame
  <1> QED
    BY <1>1, <1>3, <1>4, <1>5 DEF Return, SortTypeOK

LEMMA ButLast ==
    ASSUME NEW calls, Len(calls) \in Nat \ {0},
           \A i, j \in 1 .. Len(calls) : calls[i].vertex = calls[j].vertex => i = j
    PROVE  {calls[i].vertex : i \in 1 .. Len(calls) - 1}
               = {calls[i].vertex : i \in 1 .. Len(calls)} \ {calls[Len(calls)].vertex}
  <1> DEFINE n == Len(calls)
             top == calls[n].vertex
  <1>1. \A i \in 1 .. n - 1 : i \in 1 .. n /\ i # n
    OBVIOUS
  <1>2. \A i \in 1 .. n : i = n \/ i \in 1 .. n - 1
    OBVIOUS
  <1>3. ASSUME NEW i \in 1 .. n - 1 PROVE calls[i].vertex # top
    BY <1>1, <1>3
  <1>4. ASSUME NEW i \in 1 .. n, calls[i].vertex # top PROVE i \in 1 .. n - 1
    BY <1>2, <1>4
  <1> QED
    BY <1>1, <1>3, <1>4

LEMMA ReturnInv ==
    ASSUME SortInv, Return
    PROVE  SortInv'
  <1> DEFINE n == Len(frames)
             k == Len(sorted)
             top == Top.vertex
  <1>1. /\ ~ cyclic /\ Top.left = {}
        /\ status' = [status EXCEPT ![top] = "FULLY_EXPLORED"]
        /\ UNCHANGED <<graph, starts, pending, cyclic>>
    BY DEF Return
  <1>2. /\ frames # <<>> /\ n \in Nat \ {0}
        /\ frames' \in Seq(Frame) /\ Len(frames') = n - 1
        /\ \A i \in 1 .. n - 1 : frames'[i] = frames[i]
        /\ sorted' \in Seq(Vertex) /\ Len(sorted') = k + 1 /\ k \in Nat
        /\ \A i \in 1 .. k : sorted'[i] = sorted[i]
        /\ sorted'[k + 1] = top
    BY ReturnedCalls DEF SortInv
  <1>3. top = frames[n].vertex /\ top \in Vertex
    BY ReturnedCalls DEF SortInv, Top, Frame
  <1> HIDE DEF top
  <1>4. \A w : Neighbours(w)' = Neighbours(w)
    BY <1>1 DEF Neighbours
  <1>5. status[top] = "PARTIALLY_EXPLORED"
    BY <1>2, <1>3 DEF SortInv, FramesInv, Explored
  <1>6. \A v \in Vertex : status'[v] = IF v = top THEN "FULLY_EXPLORED" ELSE status[v]
    BY <1>1 DEF SortInv, SortTypeOK
  <1>7. SortTypeOK'
    BY <1>1, <1>2 DEF SortInv, SortTypeOK, Frame
  <1>8. FramesInv'
    <2>1. Explored("PARTIALLY_EXPLORED")' = Explored("PARTIALLY_EXPLORED") \ {top}
      BY <1>5, <1>6 DEF Explored
    <2>2. {frames[i].vertex : i \in 1 .. n - 1} = {frames[i].vertex : i \in 1 .. n} \ {top}
      <3>1. \A i, j \in 1 .. n : frames[i].vertex = frames[j].vertex => i = j
        BY DEF SortInv, FramesInv
      <3>2. {frames[i].vertex : i \in 1 .. n - 1} = {frames[i].vertex : i \in 1 .. n} \ {frames[n].vertex}
        BY <1>2, <3>1, ButLast
      <3> QED
        BY <1>3, <3>2
    <2>3. {frames'[i].vertex : i \in 1 .. n - 1} = {frames[i].vertex : i \in 1 .. n - 1}
      BY <1>2
    <2>4. ASSUME NEW i \in 1 .. n - 1, NEW j \in 1 .. n - 1, frames'[i].vertex = frames'[j].vertex
          PROVE  i = j
      <3>1. frames'[i] = frames[i] /\ frames'[j] = frames[j]
        BY <1>2
      <3>2. i \in 1 .. n /\ j \in 1 .. n
        BY <1>2
      <3> QED
        BY <2>4, <3>1, <3>2 DEF SortInv, FramesInv
    <2> QED
      BY <1>2, <2>1, <2>2, <2>3, <2>4 DEF SortInv, FramesInv
  <1>9. PathInv'
    <2>1. \A i \in 1 .. n - 1 : frames'[i].left \subseteq Neighbours(frames'[i].vertex)
      BY <1>2 DEF SortInv, PathInv
    <2>2. \A i \in 1 .. n - 2 : frames'[i + 1].vertex \in Neighbours(frames'[i].vertex)
      BY <1>2 DEF SortInv, PathInv
    <2>3. ASSUME NEW i \in 1 .. n - 1, NEW w \in Neighbours(frames'[i].vertex) \ frames'[i].left
          PROVE  status'[w] = "FULLY_EXPLORED" \/ (i < n - 1 /\ w = frames'[i + 1].vertex)
      <3>1. w \in Vertex /\ w \in Neighbours(frames[i].vertex) \ frames[i].left
        BY <1>2, <2>3 DEF Neighbours
      <3>2. status[w] = "FULLY_EXPLORED" \/ w = frames[i + 1].vertex
        BY <1>1, <1>2, <3>1 DEF SortInv, PathInv
      <3>3. CASE i = n - 1
        BY <1>2, <1>3, <1>6, <3>1, <3>2, <3>3
      <3>4. CASE i \in 1 .. n - 2
        BY <1>2, <1>6, <3>1, <3>2, <3>4
      <3> QED
        BY <1>2, <3>3, <3>4
    <2> QED
      BY <1>2, <1>4, <2>1, <2>2, <2>3 DEF PathInv
  <1>10. OrderInv'
    <2>1. Explored("FULLY_EXPLORED")' = Explored("FULLY_EXPLORED") \cup {top}
      BY <1>3, <1>6 DEF Explored
    <2>2. {sorted'[i] : i \in 1 .. k + 1} = {sorted[i] : i \in 1 .. k} \cup {top}
      <3>1. 1 .. k + 1 = 1 .. k \cup {k + 1}
        BY <1>2
      <3> QED
        BY <1>2, <3>1
    <2>3. \A i \in 1 .. k : sorted[i] # top
      BY <1>5 DEF SortInv, OrderInv, Explored
    <2>4. ASSUME NEW i \in 1 .. k + 1, NEW j \in 1 .. k + 1, sorted'[i] = sorted'[j]
          PROVE  i = j
      <3>1. CASE i = k + 1 \/ j = k + 1
        BY <1>2, <2>3, <2>4, <3>1
      <3>2. CASE i \in 1 .. k /\ j \in 1 .. k
        BY <1>2, <2>4, <3>2 DEF SortInv, OrderInv
      <3> QED
        BY <1>2, <3>1, <3>2
    <2>5. ASSUME NEW i \in 1 .. k + 1, NEW w \in Neighbours(sorted'[i])
          PROVE  \E j \in 1 .. i - 1 : sorted'[j] = w
      <3>1. CASE i = k + 1
        <4>1. w \in Neighbours(frames[n].vertex) \ frames[n].left
          BY <1>1, <1>2, <1>3, <2>5, <3>1 DEF Top
        <4>2. status[w] = "FULLY_EXPLORED" /\ w \in Vertex
          BY <1>1, <1>2, <4>1 DEF SortInv, PathInv, Neighbours
        <4>3. PICK j \in 1 .. k : sorted[j] = w
          BY <4>2 DEF SortInv, OrderInv, Explored
        <4> QED
          BY <1>2, <3>1, <4>3
      <3>2. CASE i \in 1 .. k
        <4>1. PICK j \in 1 .. i - 1 : sorted[j] = w
          BY <1>2, <2>5, <3>2 DEF SortInv, OrderInv
        <4> QED
          BY <1>2, <3>2, <4>1
      <3> QED
        BY <1>2, <3>1, <3>2
    <2> QED
      BY <1>2, <1>4, <2>1, <2>2, <2>4, <2>5 DEF SortInv, OrderInv
  <1>11. StartsInv'
    <2> SUFFICES ASSUME NEW v \in starts \ pending
                 PROVE  status'[v] = "FULLY_EXPLORED" \/ (frames' # <<>> /\ v = frames'[1].vertex)
      BY <1>1 DEF StartsInv
    <2>1. v \in Vertex
      BY DEF SortInv, SortTypeOK
    <2>2. CASE status[v] = "FULLY_EXPLORED"
      BY <1>6, <2>1, <2>2
    <2>3. CASE v = frames[1].vertex /\ n = 1
      BY <1>3, <1>6, <2>1, <2>3
    <2>4. CASE v = frames[1].vertex /\ n # 1
      BY <1>2, <2>4, EmptySeq
    <2> QED
      BY <2>2, <2>3, <2>4 DEF SortInv, StartsInv
  <1>12. CycleInv'
    BY <1>1 DEF CycleInv
  <1> QED
    BY <1>7, <1>8, <1>9, <1>10, <1>11, <1>12 DEF SortInv

LEMMA StepInv == SortInv /\ [SortStep]_sortVars => SortInv'
  <1> SUFFICES ASSUME SortInv, [SortStep]_sortVars PROVE SortInv'
    OBVIOUS
  <1>1. ASSUME NEW v \in Vertex, VisitStart(v) PROVE SortInv'
    BY <1>1, StartEnters, StartPasses
  <1>2. ASSUME NEW v \in Vertex, VisitNeighbour(v) PROVE SortInv'
    BY <1>2, NeighbourEnters, NeighbourPasses
  <1>3. CASE Return
    BY <1>3, ReturnInv
  <1>4. CASE UNCHANGED sortVars
    <2>1. UNCHANGED <<graph, starts, pending, status, frames, sorted, cyclic>>
      BY <1>4 DEF sortVars
    <2>2. SortTypeOK' /\ FramesInv' /\ OrderInv' /\ StartsInv'
      BY <2>1 DEF SortInv, SortTypeOK, FramesInv, OrderInv, StartsInv, Explored, Neighbours
    <2>3. PathInv' /\ CycleInv'
      BY <2>1 DEF SortInv, PathInv, CycleInv, Neighbours, Top
    <2> QED
      BY <2>2, <2>3 DEF SortInv
  <1> QED
    BY <1>1, <1>2, <1>3, <1>4 DEF SortStep

\* The invariant of the search holds for every graph and all starting vertices.
THEOREM SortInvHolds == Sort => []SortInv
  <1> QED
    BY InitInv, StepInv, PTL DEF Sort

LEMMA SortInvSorts == SortInv => SortedAll
  BY DEF SortInv, SortedAll, SortDone, StartsInv, OrderInv, Explored, SortTypeOK

\* When the search ends the result holds every starting vertex and, before it, all its neighbours,
\* each once: the order in which packages are removed, installed and exported.
THEOREM SortsAll == Sort => []SortedAll
  <1> QED
    BY SortInvHolds, SortInvSorts, PTL

(***************************************************************************)
(* A graph without a cycle: its vertices can be ranked so that every edge  *)
(* leads to a lower rank.                                                  *)
(***************************************************************************)
Ranked(rank) == \A v, w \in Vertex : <<v, w>> \in graph => rank[w] < rank[v]

\* The calls have lower and lower ranks.
RankInv(rank) ==
    Ranked(rank) => \A i, j \in 1 .. Len(frames) : i < j => rank[frames[j].vertex] < rank[frames[i].vertex]

LEMMA FrameVertex ==
    ASSUME NEW calls \in Seq(Frame)
    PROVE  Len(calls) \in Nat /\ \A i \in 1 .. Len(calls) : calls[i].vertex \in Vertex
  <1>1. Len(calls) \in Nat
    BY LenProperties
  <1>2. \A i \in 1 .. Len(calls) : calls[i] \in Frame
    BY ElementOfSeq
  <1> QED
    BY <1>1, <1>2 DEF Frame

LEMMA OneMoreCall ==
    ASSUME NEW calls \in Seq(Frame), NEW new \in Frame
    PROVE  /\ Len(Append(calls, new)) = Len(calls) + 1 /\ Append(calls, new)[Len(calls) + 1] = new
           /\ \A m \in 1 .. Len(calls) : Append(calls, new)[m] = calls[m]
  BY AppendProperties

LEMMA RankStep ==
    ASSUME NEW rank \in [Vertex -> Nat], SortInv, SortInv', RankInv(rank), [SortStep]_sortVars
    PROVE  RankInv(rank)'
  <1> DEFINE n == Len(frames)
  <1>1. /\ n \in Nat /\ \A i \in 1 .. n : frames[i].vertex \in Vertex
        /\ Len(frames') \in Nat /\ \A i \in 1 .. Len(frames') : frames'[i].vertex \in Vertex
    <2>1. frames \in Seq(Frame) /\ frames' \in Seq(Frame)
      BY DEF SortInv, SortTypeOK, Frame
    <2> QED
      BY <2>1, FrameVertex
  <1>2. graph' = graph
    BY DEF SortStep, VisitStart, VisitNeighbour, Return, sortVars
  <1> SUFFICES ASSUME Ranked(rank), NEW i \in 1 .. Len(frames'), NEW j \in 1 .. Len(frames'), i < j
               PROVE  rank[frames'[j].vertex] < rank[frames'[i].vertex]
    BY <1>2 DEF RankInv, Ranked
  <1>3. \A k, m \in 1 .. n : k < m => rank[frames[m].vertex] < rank[frames[k].vertex]
    BY DEF RankInv
  <1>4. CASE \A m \in 1 .. Len(frames') : m <= n /\ frames'[m].vertex = frames[m].vertex
    BY <1>1, <1>3, <1>4
  <1>5. ASSUME NEW v \in Vertex, VisitStart(v) PROVE Len(frames') <= 1
    <2> DEFINE new == [vertex |-> v, left |-> Neighbours(v)]
    <2>1. frames = <<>> /\ (frames' = frames \/ frames' = Append(frames, new))
      BY <1>5 DEF VisitStart, Enter
    <2>2. new \in Frame
      BY DEF Frame, Neighbours
    <2> HIDE DEF new
    <2>3. frames \in Seq(Frame) /\ Len(frames) = 0
      BY <2>1, EmptySeq
    <2>4. Len(Append(frames, new)) = 1
      BY <2>2, <2>3
    <2>5. Len(frames) <= 1 /\ Len(Append(frames, new)) <= 1
      BY <2>3, <2>4
    <2> QED
      BY <2>1, <2>5
  <1>6. ASSUME NEW v \in Vertex, VisitNeighbour(v), status[v] # "NOT_EXPLORED"
        PROVE  \A m \in 1 .. Len(frames') : m <= n /\ frames'[m].vertex = frames[m].vertex
    <2>1. frames # <<>> /\ frames' = RestOf(v)
      BY <1>6 DEF VisitNeighbour, Enter, RestOf
    <2> QED
      BY <1>1, <2>1, RestOfCalls DEF SortInv
  <1>7. ASSUME NEW v \in Vertex, VisitNeighbour(v), status[v] = "NOT_EXPLORED"
        PROVE  rank[frames'[j].vertex] < rank[frames'[i].vertex]
    <2> DEFINE new == [vertex |-> v, left |-> Neighbours(v)]
    <2>1. frames # <<>> /\ v \in Top.left /\ frames' = Append(RestOf(v), new)
      BY <1>7 DEF VisitNeighbour, Enter, RestOf
    <2>2. new \in Frame /\ new.vertex = v
      BY DEF Frame, Neighbours
    <2> HIDE DEF new
    <2>3. /\ n \in Nat \ {0} /\ Len(frames') = n + 1
          /\ \A m \in 1 .. n : frames'[m].vertex = frames[m].vertex
          /\ frames'[n + 1].vertex = v
      <3>1. SortTypeOK
        BY DEF SortInv
      <3>2. /\ RestOf(v) \in Seq(Frame) /\ Len(RestOf(v)) = n /\ n \in Nat \ {0}
            /\ \A m \in 1 .. n : RestOf(v)[m].vertex = frames[m].vertex
        BY <2>1, <3>1, RestOfCalls
      <3>3. /\ Len(frames') = n + 1 /\ frames'[n + 1] = new
            /\ \A m \in 1 .. n : frames'[m] = RestOf(v)[m]
        <4> DEFINE rest == RestOf(v)
        <4>1. rest \in Seq(Frame) /\ Len(rest) = n /\ frames' = Append(rest, new)
          BY <2>1, <3>2
        <4> HIDE DEF rest
        <4>2. /\ Len(Append(rest, new)) = Len(rest) + 1 /\ Append(rest, new)[Len(rest) + 1] = new
              /\ \A m \in 1 .. Len(rest) : Append(rest, new)[m] = rest[m]
          BY <2>2, <4>1, OneMoreCall
        <4>3. /\ Len(frames') = n + 1 /\ frames'[n + 1] = new
              /\ \A m \in 1 .. n : frames'[m] = rest[m]
          BY <4>1, <4>2
        <4> QED
          BY <4>3 DEF rest
      <3> QED
        BY <2>2, <3>2, <3>3
    <2>4. <<frames[n].vertex, v>> \in graph
      <3>1. n \in 1 .. n /\ v \in frames[n].left
        BY <2>1, <2>3 DEF Top
      <3>2. frames[n].left \subseteq Neighbours(frames[n].vertex)
        BY <3>1 DEF SortInv, PathInv
      <3> QED
        BY <3>1, <3>2 DEF Neighbours
    <2>5. rank[v] < rank[frames[n].vertex]
      BY <1>1, <2>3, <2>4 DEF Ranked
    <2>6. CASE j \in 1 .. n
      <3>1. i \in 1 .. n
        BY <2>3, <2>6
      <3>2. frames'[i].vertex = frames[i].vertex /\ frames'[j].vertex = frames[j].vertex
        BY <2>3, <2>6, <3>1
      <3> QED
        BY <1>3, <2>6, <3>1, <3>2
    <2>7. CASE j = n + 1 /\ i = n
      <3>1. frames'[i].vertex = frames[n].vertex /\ frames'[j].vertex = v
        BY <2>3, <2>7
      <3> QED
        BY <2>5, <3>1
    <2>8. CASE j = n + 1 /\ i \in 1 .. n - 1
      <3>1. rank[frames[n].vertex] < rank[frames[i].vertex]
        BY <1>3, <2>3, <2>8
      <3>2. rank[v] \in Nat /\ rank[frames[n].vertex] \in Nat /\ rank[frames[i].vertex] \in Nat
        BY <1>1, <2>3, <2>8
      <3>3. frames'[i].vertex = frames[i].vertex /\ frames'[j].vertex = v
        BY <2>3, <2>8
      <3> QED
        BY <2>5, <3>1, <3>2, <3>3
    <2>9. j \in 1 .. n \/ (j = n + 1 /\ i = n) \/ (j = n + 1 /\ i \in 1 .. n - 1)
      <3>1. i \in 1 .. n + 1 /\ j \in 1 .. n + 1 /\ n \in Nat
        BY <2>3
      <3> HIDE DEF n
      <3> QED
        BY <3>1
    <2> QED
      BY <2>6, <2>7, <2>8, <2>9
  <1>8. CASE Return
    <2>1. Len(frames') = n - 1 /\ \A m \in 1 .. n - 1 : frames'[m] = frames[m]
      BY <1>8, ReturnedCalls DEF SortInv
    <2>2. i \in 1 .. n - 1 /\ j \in 1 .. n - 1
      BY <2>1
    <2>3. i \in 1 .. n /\ j \in 1 .. n
      BY <1>1, <2>2
    <2>4. rank[frames[j].vertex] < rank[frames[i].vertex]
      BY <1>3, <2>3
    <2>5. frames'[i] = frames[i] /\ frames'[j] = frames[j]
      BY <2>1, <2>2
    <2> QED
      BY <2>4, <2>5
  <1>9. CASE UNCHANGED sortVars
    BY <1>3, <1>9 DEF sortVars
  <1> QED
    BY <1>1, <1>4, <1>5, <1>6, <1>7, <1>8, <1>9 DEF SortStep

LEMMA RankedNoCycle ==
    ASSUME NEW rank \in [Vertex -> Nat], SortInv, RankInv(rank), Ranked(rank)
    PROVE  ~ cyclic
  <1> SUFFICES ASSUME cyclic PROVE FALSE
    OBVIOUS
  <1> DEFINE n == Len(frames)
  <1>1. PICK i \in 1 .. n : frames[i].vertex \in Neighbours(frames[n].vertex)
    BY DEF SortInv, CycleInv, Top
  <1>2. n \in Nat /\ \A m \in 1 .. n : frames[m].vertex \in Vertex
    BY FrameVertex DEF SortInv, SortTypeOK, Frame
  <1>3. rank[frames[i].vertex] < rank[frames[n].vertex]
    BY <1>1, <1>2 DEF Ranked, Neighbours
  <1>4. CASE i = n
    BY <1>2, <1>3, <1>4
  <1>5. CASE i < n
    <2>1. rank[frames[n].vertex] < rank[frames[i].vertex]
      BY <1>2, <1>5 DEF RankInv
    <2>2. rank[frames[n].vertex] \in Nat /\ rank[frames[i].vertex] \in Nat
      BY <1>2
    <2> QED
      BY <1>3, <2>1, <2>2
  <1> QED
    BY <1>2, <1>4, <1>5

\* A graph without a cycle is never reported to have one: topological_sort exits only for a plan
\* that has no order.
THEOREM NoFalseCycle ==
    ASSUME NEW CONSTANT rank \in [Vertex -> Nat]
    PROVE  Sort => [](Ranked(rank) => ~ cyclic)
  <1>1. InitSort => RankInv(rank)
    BY EmptySeq DEF InitSort, Fresh, RankInv
  <1>2. SortInv /\ SortInv' /\ RankInv(rank) /\ [SortStep]_sortVars => RankInv(rank)'
    BY RankStep
  <1>3. SortInv /\ RankInv(rank) => (Ranked(rank) => ~ cyclic)
    BY RankedNoCycle
  <1> QED
    BY <1>1, <1>2, <1>3, SortInvHolds, PTL DEF Sort

(***************************************************************************)
(* Each step of the search leaves less to do.                              *)
(***************************************************************************)
LEMMA LeftParts ==
    ASSUME SortTypeOK, SortTypeOK',
           pending' \subseteq pending, SortLeft'.edges \subseteq SortLeft.edges,
           SortLeft'.vertices \subseteq SortLeft.vertices,
           \/ pending' # pending
           \/ SortLeft'.edges # SortLeft.edges
           \/ SortLeft'.vertices # SortLeft.vertices
    PROVE  Below(SortLeft', SortLeft)
  BY DEF Below, SortLeft

\* What is not left any more when v is entered: the starting vertex or the edge by which it is met.
LEMMA EdgesStay ==
    ASSUME SortInv, NEW v \in Vertex, NEW e \in graph,
           NEW rest, Enter(v, rest), rest \in Seq(Frame),
           status'[e[1]] = "NOT_EXPLORED" \/ \E i \in 1 .. Len(frames') : frames'[i].vertex = e[1] /\ e[2] \in frames'[i].left
    PROVE  status[e[1]] = "NOT_EXPLORED" \/ \E i \in 1 .. Len(rest) : rest[i].vertex = e[1] /\ e[2] \in rest[i].left
  <1> DEFINE new == [vertex |-> v, left |-> Neighbours(v)]
  <1>1. status \in [Vertex -> {"NOT_EXPLORED", "PARTIALLY_EXPLORED", "FULLY_EXPLORED"}] /\ e \in Vertex \X Vertex
    BY DEF SortInv, SortTypeOK
  <1>2. CASE status[v] = "NOT_EXPLORED"
    <2>1. frames' = Append(rest, new) /\ status' = [status EXCEPT ![v] = "PARTIALLY_EXPLORED"]
      BY <1>2 DEF Enter
    <2>2. new \in Frame /\ new.vertex = v
      BY DEF Frame, Neighbours
    <2> HIDE DEF new
    <2>3. Len(rest) \in Nat /\ Len(frames') = Len(rest) + 1 /\ frames'[Len(rest) + 1] = new
          /\ \A m \in 1 .. Len(rest) : frames'[m] = rest[m]
      BY <2>1, <2>2, OneMoreCall, LenProperties
    <2>4. CASE status'[e[1]] = "NOT_EXPLORED"
      BY <1>1, <2>1, <2>4
    <2>5. ASSUME NEW i \in 1 .. Len(frames'), frames'[i].vertex = e[1], e[2] \in frames'[i].left
          PROVE  status[e[1]] = "NOT_EXPLORED" \/ \E j \in 1 .. Len(rest) : rest[j].vertex = e[1] /\ e[2] \in rest[j].left
      <3>1. i = Len(rest) + 1 \/ i \in 1 .. Len(rest)
        BY <2>3
      <3>2. CASE i = Len(rest) + 1
        BY <1>2, <2>2, <2>3, <2>5, <3>2
      <3>3. CASE i \in 1 .. Len(rest)
        BY <2>3, <2>5, <3>3
      <3> QED
        BY <3>1, <3>2, <3>3
    <2> QED
      BY <2>4, <2>5
  <1>3. CASE status[v] # "NOT_EXPLORED"
    BY <1>3 DEF Enter
  <1> QED
    BY <1>2, <1>3

LEMMA EnterVertices ==
    ASSUME SortInv, NEW v \in Vertex, NEW rest, Enter(v, rest)
    PROVE  Explored("FULLY_EXPLORED")' = Explored("FULLY_EXPLORED")
  BY DEF Enter, Explored, SortInv, SortTypeOK

LEMMA StepDescends ==
    ASSUME SortInv, SortStep
    PROVE  Below(SortLeft', SortLeft)
  <1>0. SortTypeOK /\ SortTypeOK'
    BY StepInv DEF SortInv
  <1>1. ASSUME NEW v \in Vertex, VisitStart(v) PROVE Below(SortLeft', SortLeft)
    <2>1. pending' \subseteq pending /\ pending' # pending /\ graph' = graph /\ frames = <<>> /\ Enter(v, frames)
      BY <1>1 DEF VisitStart
    <2>2. SortLeft'.edges \subseteq SortLeft.edges
      <3>1. frames \in Seq(Frame)
        BY <1>0 DEF SortTypeOK, Frame
      <3> QED
        BY <2>1, <3>1, EdgesStay DEF SortLeft
    <2>3. SortLeft'.vertices = SortLeft.vertices
      BY <2>1, EnterVertices DEF SortLeft
    <2> QED
      BY <1>0, <2>1, <2>2, <2>3, LeftParts
  <1>2. ASSUME NEW v \in Vertex, VisitNeighbour(v) PROVE Below(SortLeft', SortLeft)
    <2> DEFINE n == Len(frames)
               rest == RestOf(v)
               edge == <<Top.vertex, v>>
    <2>1. /\ frames # <<>> /\ v \in Top.left /\ pending' = pending /\ graph' = graph /\ Enter(v, rest)
      BY <1>2 DEF VisitNeighbour, RestOf
    <2>2. /\ rest \in Seq(Frame) /\ Len(rest) = n /\ n \in Nat \ {0}
          /\ \A i \in 1 .. n : rest[i].vertex = frames[i].vertex
          /\ \A i \in 1 .. n - 1 : rest[i] = frames[i]
          /\ rest[n].left = frames[n].left \ {v}
      BY <1>0, <2>1, RestOfCalls
    <2> HIDE DEF rest
    <2>3. \A i \in 1 .. n : rest[i].left \subseteq frames[i].left
      <3>1. ASSUME NEW i \in 1 .. n PROVE i = n \/ i \in 1 .. n - 1
        BY <2>2
      <3> QED
        BY <2>2, <3>1
    <2>4. SortLeft'.edges \subseteq SortLeft.edges
      BY <2>1, <2>2, <2>3, EdgesStay DEF SortLeft
    <2>5. edge \in graph /\ n \in 1 .. n /\ frames[n] = Top
      BY <2>1, <2>2 DEF SortInv, PathInv, Neighbours, Top
    <2>6. edge \in SortLeft.edges
      BY <2>1, <2>5 DEF SortLeft
    <2>7. edge \notin SortLeft'.edges
      <3>1. status[Top.vertex] = "PARTIALLY_EXPLORED"
        BY <2>5 DEF SortInv, FramesInv, Explored
      <3>2. ASSUME NEW i \in 1 .. n, rest[i].vertex = Top.vertex PROVE v \notin rest[i].left
        <4>1. i = n
          BY <2>2, <2>5, <3>2 DEF SortInv, FramesInv
        <4> QED
          BY <2>2, <4>1
      <3>3. edge[1] = Top.vertex /\ edge[2] = v
        OBVIOUS
      <3>4. ~ (status[edge[1]] = "NOT_EXPLORED" \/ \E i \in 1 .. Len(rest) : rest[i].vertex = edge[1] /\ edge[2] \in rest[i].left)
        BY <2>2, <3>1, <3>2, <3>3
      <3> HIDE DEF edge
      <3>5. ~ (status'[edge[1]] = "NOT_EXPLORED" \/ \E i \in 1 .. Len(frames') : frames'[i].vertex = edge[1] /\ edge[2] \in frames'[i].left)
        BY <2>1, <2>2, <2>5, <3>4, EdgesStay
      <3> QED
        BY <3>5 DEF SortLeft
    <2>8. SortLeft'.vertices = SortLeft.vertices
      BY <2>1, EnterVertices DEF SortLeft
    <2> QED
      BY <1>0, <2>1, <2>4, <2>6, <2>7, <2>8, LeftParts
  <1>3. CASE Return
    <2>1. /\ frames # <<>> /\ Len(frames) \in Nat \ {0} /\ Len(frames') = Len(frames) - 1
          /\ \A i \in 1 .. Len(frames) - 1 : frames'[i] = frames[i]
          /\ Top \in Frame
      BY <1>0, <1>3, ReturnedCalls
    <2>2. pending' = pending /\ graph' = graph /\ status' = [status EXCEPT ![Top.vertex] = "FULLY_EXPLORED"]
      BY <1>3 DEF Return
    <2>3. Top.vertex \in Vertex /\ Len(frames) \in 1 .. Len(frames)
      BY <2>1 DEF Frame
    <2>4. status[Top.vertex] = "PARTIALLY_EXPLORED"
      BY <2>3 DEF SortInv, FramesInv, Explored, Top
    <2>5. SortLeft'.vertices \subseteq SortLeft.vertices /\ Top.vertex \in SortLeft.vertices /\ Top.vertex \notin SortLeft'.vertices
      BY <1>0, <2>2, <2>3, <2>4 DEF SortLeft, Explored, SortTypeOK
    <2>6. SortLeft'.edges \subseteq SortLeft.edges
      <3>1. ASSUME NEW e \in graph, status'[e[1]] = "NOT_EXPLORED" PROVE status[e[1]] = "NOT_EXPLORED"
        BY <1>0, <2>2, <3>1 DEF SortTypeOK
      <3>2. \A i \in 1 .. Len(frames') : i \in 1 .. Len(frames) /\ frames'[i] = frames[i]
        BY <2>1
      <3> QED
        BY <2>2, <3>1, <3>2 DEF SortLeft
    <2> QED
      BY <1>0, <2>2, <2>5, <2>6, LeftParts
  <1> QED
    BY <1>1, <1>2, <1>3 DEF SortStep

\* The search comes nearer its end with every step, whatever the graph: it follows each edge and returns
\* from each vertex once, so that a cycle makes it exit and never go round.
THEOREM SortDescendsHolds == Sort => SortDescends
  <1>1. SortInv /\ [SortStep]_sortVars => [Below(SortLeft', SortLeft)]_sortVars
    BY StepDescends
  <1> QED
    BY <1>1, SortInvHolds, PTL DEF Sort, SortDescends

(***************************************************************************)
(* Types, record by record.                                                *)
(***************************************************************************)
IsParagraphs(r) ==
    /\ DOMAIN r = {"feats", "defaults", "deps", "lacks", "at"}
    /\ r = [feats |-> r.feats, defaults |-> r.defaults, deps |-> r.deps, lacks |-> r.lacks, at |-> r.at]
    /\ r.feats \subseteq Feat /\ r.defaults \subseteq Feat /\ r.deps \subseteq Pkg /\ r.lacks \subseteq Pkg
    /\ r.at \in 1 .. Len(History)

\* An install info i of the package p, in the ports t.
IsInfo(t, p, i) ==
    /\ DOMAIN i = {"edges", "requested", "defaults", "reduced"}
    /\ i.requested \in BOOLEAN /\ i.reduced \in BOOLEAN /\ i.defaults \subseteq Feat
    /\ DOMAIN i.edges \subseteq Feat \cup {Core}
    /\ \A f \in DOMAIN i.edges : i.edges[f] \subseteq t.needs[<<p, f>>] \cup t.needsIf[<<p, f>>]

IsDb(d) ==
    /\ DOMAIN d \subseteq Pkg
    /\ \A p \in DOMAIN d : IsParagraphs(d[p]) /\ d[p].defaults \subseteq d[p].feats

DbTypeInv ==
    /\ at \in 1 .. Len(History)
    /\ IsDb(db)
    /\ user \subseteq Pkg /\ vars \subseteq Pkg /\ asked \subseteq Installed
    /\ todo \subseteq FeatureSpec /\ batch \subseteq FeatureSpec /\ unsupported \subseteq Key
    /\ DOMAIN info \subseteq Pkg
    /\ \A p \in DOMAIN info : IsInfo(Tree, p, info[p])

(***************************************************************************)
(* While a plan is solved, what it still has to look at is in pending.     *)
(***************************************************************************)
\* The feature f of p is planned, or will be.
Planned(i, ahead, p, f) == f \in DOMAIN i[p].edges \/ <<p, f>> \in ahead

\* What is installed of a planned package is planned, and so are its default features.
Kept(t, d, i, ahead, p) ==
    /\ p \in DOMAIN d => \A f \in {Core} \cup (d[p].feats \cap t.feats[p]) : Planned(i, ahead, p, f)
    /\ \A f \in i[p].defaults : Planned(i, ahead, p, f)

\* There is s, in the plan or where it stays installed.
Met(t, d, i, s) ==
    s[2] # Star =>
        /\ s[1] \in DOMAIN i \cup DOMAIN d
        /\ s[2] # Default => IF s[1] \in DOMAIN i THEN s[2] \in DOMAIN i[s[1]].edges
                             ELSE s[2] \in (d[s[1]].feats \cap t.feats[s[1]]) \cup {Core}

Needed(t, d, i, ahead, p) == \A f \in DOMAIN i[p].edges : \A s \in i[p].edges[f] : s \in ahead \/ Met(t, d, i, s)

Warned(t, i, ahead, p) ==
    \A f \in DOMAIN i[p].edges : <<p, f>> \in t.unsupported => <<p, f>> \in ahead \/ (warn /\ <<p, f>> \in unsupported)

SolveInv ==
    /\ \A p \in DOMAIN info :
        /\ Kept(Tree, db, info, todo \cup batch, p)
        /\ Needed(Tree, db, info, todo \cup batch, p)
        /\ Warned(Tree, info, todo \cup batch, p)
    /\ \A e \in RemoveEdges : e[1] \in DOMAIN info => e[2] \in DOMAIN info

\* What the places of a command mean.
Within(T) == Explored("PARTIALLY_EXPLORED") \cup Explored("FULLY_EXPLORED") \subseteq T

PlaceInv ==
    /\ pc \in {"idle", "sortRemoval", "sortExport"} => DOMAIN info = {} /\ todo = {} /\ batch = {} /\ asked = {}
    /\ pc \in {"sortRemoves", "sortInstalls", "planned"} => todo = {} /\ batch = {}
    /\ pc = "sortRemoval" => graph = RevEdges
    /\ pc = "sortRemoves" => /\ graph = RemoveEdges /\ starts = DOMAIN info \cap Installed
                             /\ Within(DOMAIN info \cap Installed)
    /\ pc = "sortInstalls" => DOMAIN info \subseteq starts
    /\ removes = IF pc \in {"sortInstalls", "planned"} THEN DOMAIN info \cap Installed ELSE {}
    /\ installs = IF pc = "planned" THEN DOMAIN info ELSE {}

PlanInv == DbTypeInv /\ SolveInv /\ PlaceInv /\ SortInv

(***************************************************************************)
(* Operators.                                                              *)
(***************************************************************************)
\* The ports.
LEMMA TreeFacts ==
    ASSUME at \in 1 .. Len(History)
    PROVE  /\ Tree.ports \subseteq Pkg /\ DOMAIN Tree.feats = Pkg
           /\ \A p \in Pkg : Tree.feats[p] \subseteq Feat /\ Tree.defaults[p] \subseteq Tree.feats[p]
           /\ \A k \in Key : Tree.needs[k] \subseteq FeatureSpec /\ Tree.needsIf[k] \subseteq FeatureSpec
           /\ Tree.unsupported \subseteq Tree.supports /\ Tree.supports \subseteq Key
<1>1. LET t == History[at] IN
        /\ t.ports \subseteq Pkg /\ t.qualified \subseteq Pkg
        /\ t.feats \in [Pkg -> SUBSET Feat]
        /\ \A p \in Pkg : t.defaults[p] \subseteq t.feats[p]
        /\ t.needs \in [Key -> SUBSET FeatureSpec] /\ t.needsIf \in [Key -> SUBSET FeatureSpec]
        /\ t.unsupported \subseteq t.supports /\ t.supports \subseteq Key
  BY HistoryAssumption
<1>. QED
  BY <1>1 DEF Tree

\* What is reached is the least closed set.
LEMMA ReachedFacts ==
    ASSUME NEW edges \in SUBSET (Pkg \X Pkg), NEW S \in SUBSET Pkg
    PROVE  /\ S \subseteq Reached(edges, S) /\ Reached(edges, S) \subseteq Pkg
           /\ Closed(edges, Reached(edges, S))
           /\ \A T \in SUBSET Pkg : S \subseteq T /\ Closed(edges, T) => Reached(edges, S) \subseteq T
<1>1. /\ S \subseteq Reached(edges, S) /\ Reached(edges, S) \subseteq Pkg
      /\ \A T \in SUBSET Pkg : S \subseteq T /\ Closed(edges, T) => Reached(edges, S) \subseteq T
  BY DEF Reached
<1>2. ASSUME NEW e \in edges, e[1] \in Reached(edges, S)
      PROVE  e[2] \in Reached(edges, S)
  <2>1. ASSUME NEW T \in SUBSET Pkg, S \subseteq T, Closed(edges, T)
        PROVE  e[2] \in T
    BY <1>1, <1>2, <2>1 DEF Closed
  <2>2. e[2] \in Pkg
    OBVIOUS
  <2>. QED
    BY <2>1, <2>2 DEF Reached
<1>. QED
  BY <1>1, <1>2 DEF Closed

LEMMA RemoveEdgesFacts ==
    /\ RemoveEdges \subseteq Pkg \X Pkg
    /\ \A p, q \in Pkg : <<p, q>> \in RemoveEdges <=> p \in Installed /\ q \in Installed /\ p \in db[q].deps
  BY DEF RemoveEdges

\* A new install info.
LEMMA NewInfoFacts ==
    ASSUME NEW t, NEW p, NEW requested
    PROVE  /\ IsInfo(t, p, NewInfo(p, requested))
           /\ DOMAIN NewInfo(p, requested).edges = {}
           /\ NewInfo(p, requested).defaults = {}
           /\ NewInfo(p, requested).requested = FALSE
  BY DEF NewInfo, NoInfo, IsInfo

LEMMA ReinstallFacts ==
    ASSUME DbTypeInv, NEW p \in Pkg, NEW requested
    PROVE  /\ ReinstallRequirements(p, requested) \subseteq FeatureSpec
           /\ p \in Installed => \A f \in {Core} \cup (db[p].feats \cap Tree.feats[p]) :
                                    <<p, f>> \in ReinstallRequirements(p, requested)
<1>1. Tree.feats[p] \subseteq Feat
  BY TreeFacts DEF DbTypeInv
<1>. QED
  BY <1>1 DEF ReinstallRequirements, FeatureSpec

\* What add_feature adds: the edges of the feature, all of which are handed on, unless it waits for
\* the variables; and the default features, those that are installed excepted.
LEMMA Added ==
    ASSUME DbTypeInv, NEW p \in Pkg, NEW i, IsInfo(Tree, p, i), NEW f \in Tree.feats[p] \cup {Core, Default}
    PROVE  LET j == AddFeature(i, p, f)[1]
               out == AddFeature(i, p, f)[2]
           IN  /\ IsInfo(Tree, p, j) /\ out \subseteq FeatureSpec
               /\ \A g \in DOMAIN i.edges : g \in DOMAIN j.edges /\ j.edges[g] = i.edges[g]
               /\ \A g \in DOMAIN j.edges \ DOMAIN i.edges : g = f /\ f # Default /\ j.edges[g] \subseteq out
               /\ f # Default => f \in DOMAIN j.edges \/ NeedsVars(<<p, f>>)
               /\ \A d \in j.defaults : \/ d \in i.defaults \/ <<p, d>> \in out
                                        \/ p \in Installed /\ d \in db[p].defaults \cap Tree.feats[p]
<1>. SUFFICES ASSUME NEW j, NEW out, j = AddFeature(i, p, f)[1], out = AddFeature(i, p, f)[2]
              PROVE  /\ IsInfo(Tree, p, j) /\ out \subseteq FeatureSpec
                     /\ \A g \in DOMAIN i.edges : g \in DOMAIN j.edges /\ j.edges[g] = i.edges[g]
                     /\ \A g \in DOMAIN j.edges \ DOMAIN i.edges : g = f /\ f # Default /\ j.edges[g] \subseteq out
                     /\ f # Default => f \in DOMAIN j.edges \/ NeedsVars(<<p, f>>)
                     /\ \A d \in j.defaults : \/ d \in i.defaults \/ <<p, d>> \in out
                                              \/ p \in Installed /\ d \in db[p].defaults \cap Tree.feats[p]
  OBVIOUS
<1>. DEFINE k == <<p, f>>
            deps == Tree.needs[k] \cup (IF p \in vars THEN Tree.needsIf[k] ELSE {})
            defaults == IF p \in vars \/ p \notin Tree.qualified THEN Tree.defaults[p] ELSE {}
            old == IF i.reduced /\ p \in Installed THEN db[p].defaults ELSE {}
            known == f # Default /\ (p \in vars \/ k \notin Tree.conditional)
<1>1. /\ Tree.feats[p] \subseteq Feat /\ Tree.defaults[p] \subseteq Tree.feats[p]
      /\ Core # Default /\ Default \notin Feat
  BY TreeFacts, NamesAssumption DEF DbTypeInv
<1>2. CASE (f = Default /\ i.requested) \/ (f # Default /\ f \in DOMAIN i.edges)
  <2>1. AddFeature(i, p, f) = <<i, {}>>
    BY <1>2 DEF AddFeature
  <2>. QED
    BY <1>2, <2>1
<1>3. CASE f = Default /\ ~ i.requested
  <2>. DEFINE new == [i EXCEPT !.requested = (p \in vars \/ p \notin Tree.qualified),
                               !.defaults = defaults, !.reduced = FALSE]
  <2>1. AddFeature(i, p, f) = <<new, {<<p, d>> : d \in defaults \ old}>>
    BY <1>3 DEF AddFeature
  <2>2. new.edges = i.edges /\ new.defaults = defaults /\ IsInfo(Tree, p, new)
    BY <1>1 DEF IsInfo
  <2>3. j = new /\ out = {<<p, d>> : d \in defaults \ old}
    BY <2>1
  <2>. HIDE DEF new
  <2>4. out \subseteq FeatureSpec
    BY <1>1, <2>3 DEF FeatureSpec
  <2>5. \A d \in j.defaults : <<p, d>> \in out \/ (p \in Installed /\ d \in db[p].defaults \cap Tree.feats[p])
    BY <1>1, <2>2, <2>3
  <2>. QED
    BY <1>3, <2>2, <2>3, <2>4, <2>5
<1>4. CASE known /\ f \notin DOMAIN i.edges
  <2>. DEFINE new == [i EXCEPT !.edges = Extended(@, f, deps)]
  <2>1. AddFeature(i, p, f) = <<new, deps>>
    BY <1>4 DEF AddFeature
  <2>2. k \in Key /\ f \in Feat \cup {Core}
    BY <1>1, <1>4 DEF Key
  <2>3. deps \subseteq Tree.needs[k] \cup Tree.needsIf[k] /\ deps \subseteq FeatureSpec
    BY <2>2, TreeFacts DEF DbTypeInv
  <2>. HIDE DEF deps, known, k
  <2>4. /\ new.edges = Extended(i.edges, f, deps) /\ new.defaults = i.defaults
        /\ new.requested = i.requested /\ new.reduced = i.reduced
        /\ DOMAIN new = {"edges", "requested", "defaults", "reduced"}
    BY DEF IsInfo
  <2>5. j = new /\ out = deps
    BY <2>1
  <2>. HIDE DEF new
  <2>6. /\ DOMAIN j.edges = DOMAIN i.edges \cup {f} /\ j.edges[f] = deps
        /\ \A g \in DOMAIN i.edges : j.edges[g] = i.edges[g]
    <3>1. /\ DOMAIN Extended(i.edges, f, deps) = DOMAIN i.edges \cup {f}
          /\ Extended(i.edges, f, deps)[f] = deps
          /\ \A g \in DOMAIN i.edges : g # f => Extended(i.edges, f, deps)[g] = i.edges[g]
      BY DEF Extended
    <3>2. j.edges = Extended(i.edges, f, deps)
      BY <2>4, <2>5
    <3>. QED
      BY <1>4, <3>1, <3>2
  <2>7. IsInfo(Tree, p, j)
    BY <2>2, <2>3, <2>4, <2>5, <2>6 DEF IsInfo, k
  <2>. QED
    BY <1>4, <2>3, <2>4, <2>5, <2>6, <2>7 DEF known
<1>5. CASE f # Default /\ ~ known /\ f \notin DOMAIN i.edges
  <2>1. AddFeature(i, p, f) = <<i, {s \in deps : s[1] # p}>>
    BY <1>5 DEF AddFeature
  <2>2. k \in Key
    BY <1>1, <1>5 DEF Key
  <2>3. deps \subseteq FeatureSpec
    BY <2>2, TreeFacts DEF DbTypeInv
  <2>4. NeedsVars(k)
    BY <1>5 DEF NeedsVars
  <2>5. j = i /\ out = {s \in deps : s[1] # p}
    BY <2>1
  <2>. HIDE DEF deps
  <2>. QED
    BY <1>5, <2>3, <2>4, <2>5
<1>. QED
  BY <1>2, <1>3, <1>4, <1>5

(***************************************************************************)
(* Sorting on the graph of a caller.                                       *)
(***************************************************************************)
LEMMA StartSorts ==
    ASSUME NEW g \in SUBSET (Pkg \X Pkg), NEW S \in SUBSET Pkg, StartSort(g, S)
    PROVE  SortInv' /\ graph' = g /\ starts' = S /\ Within({})'
<1>1. InitSort'
  BY DEF StartSort, InitSort, Fresh, Pkg
<1>2. (InitSort => SortInv)'
  BY InitInv, PTL
<1>3. Within({})'
  BY DEF Within, Explored, StartSort
<1>. QED
  BY <1>1, <1>2, <1>3 DEF StartSort

LEMMA SortStays ==
    ASSUME SortInv, SortStep, NEW T, Within(T), starts \subseteq T, Closed(graph, T)
    PROVE  Within(T)' /\ SortInv' /\ UNCHANGED <<graph, starts>>
<1>1. SortInv' /\ UNCHANGED <<graph, starts>>
  BY StepInv DEF SortStep, VisitStart, VisitNeighbour, Return
<1>2. /\ status \in [Vertex -> {"NOT_EXPLORED", "PARTIALLY_EXPLORED", "FULLY_EXPLORED"}]
      /\ pending \subseteq starts /\ starts \subseteq Vertex
      /\ \A v \in Vertex : status[v] # "NOT_EXPLORED" => v \in T
  BY DEF SortInv, SortTypeOK, Within, Explored
<1>3. frames # <<>> => Top.vertex \in T /\ Top.left \subseteq T
  <2>1. SUFFICES ASSUME frames # <<>>
                 PROVE  Top.vertex \in T /\ Top.left \subseteq T
    OBVIOUS
  <2>2. Len(frames) \in 1 .. Len(frames)
    BY <2>1 DEF SortInv, SortTypeOK
  <2>3. Top.vertex \in Explored("PARTIALLY_EXPLORED") /\ Top.left \subseteq Neighbours(Top.vertex)
    BY <2>2 DEF SortInv, FramesInv, PathInv, Top
  <2>4. Top.vertex \in T
    BY <2>3 DEF Within
  <2>. QED
    BY <2>3, <2>4 DEF Neighbours, Closed
<1>4. \A v, rest : v \in T /\ Enter(v, rest) => \A w \in Vertex : status'[w] # "NOT_EXPLORED" => w \in T
  BY <1>2 DEF Enter
<1>5. \A w \in Vertex : status'[w] # "NOT_EXPLORED" => w \in T
  <2>1. CASE Return
    BY <1>2, <1>3, <2>1 DEF Return
  <2>2. ASSUME NEW v \in Vertex, VisitStart(v)
        PROVE  \A w \in Vertex : status'[w] # "NOT_EXPLORED" => w \in T
    BY <1>2, <1>4, <2>2 DEF VisitStart
  <2>3. ASSUME NEW v \in Vertex, VisitNeighbour(v)
        PROVE  \A w \in Vertex : status'[w] # "NOT_EXPLORED" => w \in T
    BY <1>3, <1>4, <2>3 DEF VisitNeighbour
  <2>. QED
    BY <2>1, <2>2, <2>3 DEF SortStep
<1>6. Within(T)'
  BY <1>5 DEF Within, Explored
<1>. QED
  BY <1>1, <1>6

LEMMA SortedFacts ==
    ASSUME SortInv
    PROVE  /\ \A T : Within(T) => Elements \subseteq T
           /\ Elements \subseteq Pkg
           /\ SortDone => starts \subseteq Elements /\ Closed(graph, Elements)
<1>1. Elements = Explored("FULLY_EXPLORED") /\ graph \subseteq Vertex \X Vertex
  BY DEF SortInv, SortTypeOK, OrderInv, Elements
<1>2. SortedAll /\ sorted \in Seq(Vertex)
  BY SortInvSorts DEF SortInv, SortTypeOK
<1>3. ASSUME SortDone, NEW e \in graph, e[1] \in Elements
      PROVE  e[2] \in Elements
  <2>1. PICK i \in 1 .. Len(sorted) : sorted[i] = e[1]
    BY <1>3 DEF Elements
  <2>2. e[2] \in Neighbours(sorted[i])
    BY <1>1, <2>1 DEF Neighbours
  <2>3. PICK j \in 1 .. i - 1 : sorted[j] = e[2]
    BY <1>2, <1>3, <2>2 DEF SortedAll
  <2>4. j \in 1 .. Len(sorted)
    BY <1>2
  <2>. QED
    BY <2>3, <2>4 DEF Elements
<1>4. SortDone => starts \subseteq Elements
  BY <1>2 DEF SortedAll, Elements
<1>. QED
  BY <1>1, <1>3, <1>4 DEF Within, Explored, Closed, Pkg

(***************************************************************************)
(* Solving.                                                                *)
(***************************************************************************)
\* What a step does to the install infos when it takes s: they grow, and what is added is looked at
\* later.
InfoGrows(s, i, ahead) ==
    /\ DOMAIN info \subseteq DOMAIN i /\ DOMAIN i \subseteq Pkg
    /\ \A p \in DOMAIN i : IsInfo(Tree, p, i[p])
    /\ \A p \in DOMAIN info : \A f \in DOMAIN info[p].edges :
            f \in DOMAIN i[p].edges /\ i[p].edges[f] = info[p].edges[f]
    /\ \A p \in DOMAIN i : \A f \in DOMAIN i[p].edges :
            \/ p \in DOMAIN info /\ f \in DOMAIN info[p].edges
            \/ <<p, f>> = s /\ i[p].edges[f] \subseteq ahead
    /\ \A p \in DOMAIN i : \A d \in i[p].defaults :
            \/ p \in DOMAIN info /\ d \in info[p].defaults
            \/ <<p, d>> \in ahead
            \/ p \in Installed /\ d \in db[p].defaults \cap Tree.feats[p]
    /\ \A p \in DOMAIN i \ DOMAIN info : p \in Installed =>
            \A f \in {Core} \cup (db[p].feats \cap Tree.feats[p]) : <<p, f>> \in ahead
    /\ \A e \in RemoveEdges : e[1] \in DOMAIN i => e[2] \in DOMAIN i

LEMMA TakeFacts ==
    ASSUME PlanInv, NEW s \in todo, Take(s)
    PROVE  /\ s \in FeatureSpec /\ s[1] \in Pkg /\ s = <<s[1], s[2]>>
           /\ s[2] \in Tree.feats[s[1]] \cup {Core, Default, Star}
           /\ UNCHANGED <<at, db, pc, user, warn, vars, removes, installs, sortVars>> /\ pc = "solve"
           /\ batch \subseteq batch' /\ batch' \subseteq batch \cup {s}
           /\ NeedsVars(s) => s \in batch'
           /\ unsupported \subseteq unsupported' /\ unsupported' \subseteq Key
           /\ s \in Tree.unsupported => s \in batch' \/ (warn /\ s \in unsupported')
           /\ Tree' = Tree
<1>1. s \in FeatureSpec
  BY DEF PlanInv, DbTypeInv
<1>2. s[1] \in Pkg /\ s = <<s[1], s[2]>>
  BY <1>1 DEF FeatureSpec
<1>3. s[2] \in Tree.feats[s[1]] \cup {Core, Default, Star} /\ (IsUnsupported(s) => warn)
  BY DEF Take, Fails
<1>4. Tree.unsupported \subseteq Tree.supports /\ Tree.supports \subseteq Key /\ unsupported \subseteq Key
  BY TreeFacts DEF PlanInv, DbTypeInv
<1>5. UNCHANGED <<at, db, pc, user, warn, vars, removes, installs, sortVars>> /\ pc = "solve"
  BY DEF Take
<1>6. /\ batch \subseteq batch' /\ batch' \subseteq batch \cup {s} /\ (NeedsVars(s) => s \in batch')
      /\ unsupported \subseteq unsupported' /\ (IsUnsupported(s) => s \in unsupported')
      /\ unsupported' \subseteq unsupported \cup {s} /\ (s \notin unsupported' \/ s \in unsupported \/ IsUnsupported(s))
  BY DEF Take
<1>7. unsupported' \subseteq Key
  BY <1>4, <1>6 DEF IsUnsupported
<1>8. ASSUME s \in Tree.unsupported
      PROVE  s \in batch' \/ (warn /\ s \in unsupported')
  <2>1. s[2] # Default /\ s \in Tree.supports
    BY <1>4, <1>8, NamesAssumption DEF Key
  <2>2. CASE s[1] \in vars
    BY <1>3, <1>6, <1>8, <2>2 DEF IsUnsupported
  <2>3. CASE s[1] \notin vars
    BY <1>6, <2>1, <2>3 DEF NeedsVars
  <2>. QED
    BY <2>2, <2>3
<1>9. Tree' = Tree
  BY <1>5 DEF Tree
<1>. QED
  BY <1>1, <1>2, <1>3, <1>5, <1>6, <1>7, <1>8, <1>9

\* What has been looked at stays so.
LEMMA MetStays ==
    ASSUME PlanInv, NEW s \in todo, Take(s), todo \ {s} \subseteq todo', InfoGrows(s, info', todo'),
           s \in batch' \/ Met(Tree, db, info', s),
           NEW x \in FeatureSpec, x \in todo \cup batch \/ Met(Tree, db, info, x)
    PROVE  x \in todo' \cup batch' \/ Met(Tree, db, info', x)
<1>1. CASE x \in todo \cup batch
  BY <1>1, TakeFacts
<1>2. CASE Met(Tree, db, info, x) /\ x[1] \in DOMAIN info
  BY <1>2 DEF InfoGrows, Met
<1>3. CASE Met(Tree, db, info, x) /\ x[1] \notin DOMAIN info'
  BY <1>3 DEF InfoGrows, Met
<1>4. CASE Met(Tree, db, info, x) /\ x[1] \in DOMAIN info' \ DOMAIN info
  <2>1. x = <<x[1], x[2]>>
    BY DEF FeatureSpec
  <2>2. CASE x[2] \in {Default, Star}
    BY <1>4, <2>2 DEF Met
  <2>3. CASE x[2] \notin {Default, Star}
    <3>1. x[1] \in Installed /\ x[2] \in {Core} \cup (db[x[1]].feats \cap Tree.feats[x[1]])
      BY <1>4, <2>3 DEF Met, Installed
    <3>2. <<x[1], x[2]>> \in todo'
      BY <1>4, <3>1 DEF InfoGrows
    <3>. QED
      BY <2>1, <3>2
  <2>. QED
    BY <2>2, <2>3
<1>. QED
  BY <1>1, <1>2, <1>3, <1>4

LEMMA Solving ==
    ASSUME PlanInv, NEW s \in todo, Take(s),
           todo' \subseteq FeatureSpec, todo \ {s} \subseteq todo', asked' \subseteq Installed,
           InfoGrows(s, info', todo'), s \in batch' \/ Met(Tree, db, info', s)
    PROVE  PlanInv'
<1>. DEFINE ahead == todo \cup batch
            next == todo' \cup batch'
<1>1. /\ s \in FeatureSpec /\ s[1] \in Pkg /\ s = <<s[1], s[2]>>
      /\ UNCHANGED <<at, db, pc, user, warn, vars, removes, installs, sortVars>> /\ pc = "solve"
      /\ batch' \subseteq batch \cup {s} /\ unsupported \subseteq unsupported' /\ unsupported' \subseteq Key
      /\ s \in Tree.unsupported => s \in batch' \/ (warn /\ s \in unsupported')
      /\ Tree' = Tree
  BY TakeFacts
<1>2. \A x \in ahead : x \in next \/ (x = s /\ s \notin batch')
  BY TakeFacts
<1>3. DbTypeInv'
  <2>1. batch' \subseteq FeatureSpec /\ todo' \subseteq FeatureSpec /\ unsupported' \subseteq Key
    BY <1>1 DEF PlanInv, DbTypeInv
  <2>2. DOMAIN info' \subseteq Pkg /\ \A p \in DOMAIN info' : IsInfo(Tree', p, info'[p])
    BY <1>1 DEF InfoGrows
  <2>3. /\ at' \in 1 .. Len(History) /\ IsDb(db') /\ user' \subseteq Pkg /\ vars' \subseteq Pkg
        /\ asked' \subseteq Installed'
    BY <1>1 DEF PlanInv, DbTypeInv, Installed
  <2>. QED
    BY <2>1, <2>2, <2>3 DEF DbTypeInv
<1>4. ASSUME NEW p \in DOMAIN info'
      PROVE  Kept(Tree, db, info', next, p)
  <2>1. ASSUME NEW f, p \in DOMAIN info, Planned(info, ahead, p, f), f \in Feat \cup {Core}
        PROVE  Planned(info', next, p, f)
    <3>1. CASE f \in DOMAIN info[p].edges
      BY <2>1, <3>1 DEF InfoGrows, Planned
    <3>2. CASE <<p, f>> \in next
      BY <3>2 DEF Planned
    <3>3. CASE <<p, f>> = s /\ Met(Tree, db, info', s)
      BY <1>4, <2>1, <3>3, NamesAssumption DEF Met, Planned
    <3>. QED
      BY <1>2, <2>1, <3>1, <3>2, <3>3 DEF Planned
  <2>2. p \in Pkg /\ Tree.feats[p] \subseteq Feat
    BY <1>4, TreeFacts DEF InfoGrows, PlanInv, DbTypeInv
  <2>3. ASSUME p \in Installed, NEW f \in {Core} \cup (db[p].feats \cap Tree.feats[p])
        PROVE  Planned(info', next, p, f)
    <3>1. CASE p \in DOMAIN info
      <4>1. Kept(Tree, db, info, ahead, p)
        BY <3>1 DEF PlanInv, SolveInv
      <4>2. Planned(info, ahead, p, f)
        BY <2>3, <4>1 DEF Kept, Installed
      <4>3. f \in Feat \cup {Core}
        BY <2>2, <2>3
      <4>. QED
        BY <2>1, <3>1, <4>2, <4>3
    <3>2. CASE p \notin DOMAIN info
      BY <1>4, <2>3, <3>2 DEF InfoGrows, Planned
    <3>. QED
      BY <3>1, <3>2
  <2>4. ASSUME NEW f \in info'[p].defaults
        PROVE  Planned(info', next, p, f)
    <3>1. f \in Feat
      BY <1>4, <2>4 DEF InfoGrows, IsInfo
    <3>2. CASE p \in DOMAIN info /\ f \in info[p].defaults
      BY <2>1, <3>1, <3>2 DEF PlanInv, SolveInv, Kept
    <3>3. CASE <<p, f>> \in todo'
      BY <3>3 DEF Planned
    <3>4. CASE p \in Installed /\ f \in db[p].defaults \cap Tree.feats[p]
      BY <2>3, <3>4 DEF PlanInv, DbTypeInv, IsDb, Installed
    <3>. QED
      BY <1>4, <2>4, <3>2, <3>3, <3>4 DEF InfoGrows
  <2>. QED
    BY <2>3, <2>4 DEF Kept, Installed
<1>5. ASSUME NEW x \in FeatureSpec, x \in ahead \/ Met(Tree, db, info, x)
      PROVE  x \in next \/ Met(Tree, db, info', x)
  BY <1>5, MetStays
<1>6. ASSUME NEW p \in DOMAIN info', NEW f \in DOMAIN info'[p].edges
      PROVE  /\ \A x \in info'[p].edges[f] : x \in next \/ Met(Tree, db, info', x)
             /\ <<p, f>> \in Tree.unsupported => <<p, f>> \in next \/ (warn' /\ <<p, f>> \in unsupported')
  <2>1. CASE p \in DOMAIN info /\ f \in DOMAIN info[p].edges
    <3>1. info'[p].edges[f] = info[p].edges[f]
      BY <2>1 DEF InfoGrows
    <3>2. IsInfo(Tree, p, info[p]) /\ p \in Pkg
      BY <2>1 DEF PlanInv, DbTypeInv
    <3>3. <<p, f>> \in Key
      BY <2>1, <3>2 DEF IsInfo, Key
    <3>4. info[p].edges[f] \subseteq FeatureSpec
      BY <2>1, <3>2, <3>3, TreeFacts DEF IsInfo, PlanInv, DbTypeInv
    <3>5. \A x \in info[p].edges[f] : x \in ahead \/ Met(Tree, db, info, x)
      BY <2>1 DEF PlanInv, SolveInv, Needed
    <3>6. <<p, f>> \in Tree.unsupported => <<p, f>> \in ahead \/ (warn /\ <<p, f>> \in unsupported)
      BY <2>1 DEF PlanInv, SolveInv, Warned
    <3>7. <<p, f>> \in Tree.unsupported => <<p, f>> \in next \/ (warn' /\ <<p, f>> \in unsupported')
      BY <1>1, <1>2, <3>6
    <3>. QED
      BY <1>5, <3>1, <3>4, <3>5, <3>7
  <2>2. CASE <<p, f>> = s /\ info'[p].edges[f] \subseteq todo'
    BY <1>1, <2>2
  <2>. QED
    BY <2>1, <2>2 DEF InfoGrows
<1>7. RemoveEdges' = RemoveEdges
  BY <1>1 DEF RemoveEdges, Installed
<1>8. SolveInv'
  BY <1>1, <1>4, <1>6, <1>7 DEF SolveInv, Needed, Warned, InfoGrows
<1>9. PlaceInv'
  <2>1. PlaceInv /\ pc = "solve" /\ UNCHANGED <<pc, removes, installs>>
    BY <1>1 DEF PlanInv
  <2>. QED
    BY <2>1 DEF PlaceInv
<1>10. SortInv'
  <2>1. SortInv /\ UNCHANGED sortVars
    BY <1>1 DEF PlanInv
  <2>. QED
    BY <2>1, StepInv
<1>. QED
  BY <1>3, <1>8, <1>9, <1>10 DEF PlanInv

LEMMA InfoStays ==
    ASSUME PlanInv, NEW s, NEW ahead
    PROVE  InfoGrows(s, info, ahead)
<1>1. DOMAIN info \subseteq Pkg /\ \A p \in DOMAIN info : IsInfo(Tree, p, info[p])
  BY DEF PlanInv, DbTypeInv
<1>2. \A e \in RemoveEdges : e[1] \in DOMAIN info => e[2] \in DOMAIN info
  BY DEF PlanInv, SolveInv
<1>. QED
  BY <1>1, <1>2 DEF InfoGrows

LEMMA ExpandStarInv ==
    ASSUME PlanInv, NEW s \in todo, ExpandStar(s)
    PROVE  PlanInv'
<1>1. Take(s) /\ s[2] = Star /\ UNCHANGED <<info, asked>>
      /\ todo' = (todo \ {s}) \cup {<<s[1], f>> : f \in Tree.feats[s[1]]}
  BY DEF ExpandStar
<1>2. s[1] \in Pkg /\ todo \subseteq FeatureSpec /\ asked \subseteq Installed
  BY <1>1, TakeFacts DEF PlanInv, DbTypeInv
<1>3. Tree.feats[s[1]] \subseteq Feat
  BY <1>2, TreeFacts DEF PlanInv, DbTypeInv
<1>4. todo' \subseteq FeatureSpec
  BY <1>1, <1>2, <1>3 DEF FeatureSpec
<1>5. InfoGrows(s, info', todo')
  BY <1>1, InfoStays
<1>6. Met(Tree, db, info', s)
  BY <1>1 DEF Met
<1>7. asked' \subseteq Installed /\ todo \ {s} \subseteq todo'
  BY <1>1, <1>2
<1>. QED
  BY <1>1, <1>4, <1>5, <1>6, <1>7, Solving

LEMMA KeepInv ==
    ASSUME PlanInv, NEW s \in todo, Keep(s)
    PROVE  PlanInv'
<1>1. /\ Take(s) /\ s[2] # Star /\ UNCHANGED info /\ todo' = todo \ {s}
      /\ s[1] \in Installed /\ ~ HasInfo(s[1]) /\ ~ MustReinstall(s)
      /\ asked' \subseteq asked \cup {s[1]}
  BY DEF Keep
<1>2. todo \subseteq FeatureSpec /\ asked \subseteq Installed
  BY DEF PlanInv, DbTypeInv
<1>3. InfoGrows(s, info', todo')
  BY <1>1, InfoStays
<1>4. s[2] \in Tree.feats[s[1]] \cup {Core, Default, Star}
  BY <1>1, TakeFacts
<1>5. Met(Tree, db, info', s)
  BY <1>1, <1>4 DEF Met, MustReinstall, HasInfo, Installed
<1>6. todo' \subseteq FeatureSpec /\ asked' \subseteq Installed /\ todo \ {s} \subseteq todo'
  BY <1>1, <1>2
<1>. QED
  BY <1>1, <1>3, <1>5, <1>6, Solving

\* The spec s is handed to add_feature of its cluster, whose install info i may be new; the clusters
\* in T get one.
Adding(s, T, i, j, out) ==
    /\ Take(s) /\ s[2] # Star /\ asked' = asked
    /\ \/ T = {} /\ HasInfo(s[1])
       \/ T = {s[1]} /\ ~ HasInfo(s[1]) /\ s[1] \notin Installed
       \/ T = Reached(RemoveEdges, {s[1]}) /\ MustReinstall(s) /\ s[2] # Default
    /\ i = IF HasInfo(s[1]) THEN info[s[1]] ELSE NewInfo(s[1], asked)
    /\ j = AddFeature(i, s[1], s[2])[1] /\ out = AddFeature(i, s[1], s[2])[2]
    /\ DOMAIN info' = DOMAIN info \cup T /\ info'[s[1]] = j
    /\ \A p \in DOMAIN info : p # s[1] => info'[p] = info[p]
    /\ \A p \in T \ DOMAIN info : p # s[1] => info'[p] = NewInfo(p, asked)
    /\ todo' = (todo \ {s}) \cup out \cup UNION {ReinstallRequirements(q, asked) : q \in T \ DOMAIN info}

LEMMA AddingFacts ==
    ASSUME PlanInv, NEW s \in todo, NEW T, NEW i, NEW j, NEW out, Adding(s, T, i, j, out)
    PROVE  /\ T \in SUBSET Pkg /\ s[1] \in T \cup DOMAIN info
           /\ \A e \in RemoveEdges : e[1] \in T => e[2] \in T \cup DOMAIN info
           /\ asked' \subseteq Installed
           /\ i = IF s[1] \in DOMAIN info THEN info[s[1]] ELSE NewInfo(s[1], asked)
<1>1. s[1] \in Pkg /\ asked \subseteq Installed
  BY TakeFacts DEF Adding, PlanInv, DbTypeInv
<1>2. CASE T = {} /\ HasInfo(s[1])
  BY <1>1, <1>2 DEF Adding, HasInfo
<1>3. CASE T = {s[1]} /\ ~ HasInfo(s[1]) /\ s[1] \notin Installed
  BY <1>1, <1>3 DEF Adding, HasInfo, RemoveEdges
<1>4. CASE T = Reached(RemoveEdges, {s[1]})
  <2>1. RemoveEdges \in SUBSET (Pkg \X Pkg) /\ {s[1]} \in SUBSET Pkg
    BY <1>1, RemoveEdgesFacts
  <2>2. s[1] \in T /\ T \in SUBSET Pkg /\ Closed(RemoveEdges, T)
    BY <1>4, <2>1, ReachedFacts
  <2>. QED
    BY <1>1, <2>2 DEF Adding, Closed, HasInfo
<1>. QED
  BY <1>2, <1>3, <1>4 DEF Adding

LEMMA AddingGrows ==
    ASSUME PlanInv, NEW s \in todo, NEW T, NEW i, NEW j, NEW out, Adding(s, T, i, j, out)
    PROVE  /\ InfoGrows(s, info', todo') /\ (s \in batch' \/ Met(Tree, db, info', s))
           /\ todo' \subseteq FeatureSpec /\ todo \ {s} \subseteq todo'
<1>. DEFINE p == s[1]
            again == UNION {ReinstallRequirements(q, asked) : q \in T \ DOMAIN info}
<1>1. /\ T \in SUBSET Pkg /\ p \in T \cup DOMAIN info /\ asked' \subseteq Installed
      /\ \A e \in RemoveEdges : e[1] \in T => e[2] \in T \cup DOMAIN info
      /\ i = IF p \in DOMAIN info THEN info[p] ELSE NewInfo(p, asked)
  BY AddingFacts
<1>2. /\ Take(s) /\ s[2] # Star
      /\ j = AddFeature(i, p, s[2])[1] /\ out = AddFeature(i, p, s[2])[2]
      /\ DOMAIN info' = DOMAIN info \cup T /\ info'[p] = j
      /\ \A q \in DOMAIN info : q # p => info'[q] = info[q]
      /\ \A q \in T \ DOMAIN info : q # p => info'[q] = NewInfo(q, asked)
      /\ todo' = (todo \ {s}) \cup out \cup again
  BY DEF Adding
<1>3. /\ p \in Pkg /\ s = <<p, s[2]>> /\ s[2] \in Tree.feats[p] \cup {Core, Default}
      /\ NeedsVars(s) => s \in batch'
  BY <1>2, TakeFacts
<1>4. /\ DOMAIN info \subseteq Pkg /\ \A q \in DOMAIN info : IsInfo(Tree, q, info[q])
      /\ todo \subseteq FeatureSpec /\ DbTypeInv
  BY DEF PlanInv, DbTypeInv
<1>5. IsInfo(Tree, p, i)
  BY <1>1, <1>4, NewInfoFacts
<1>6. /\ IsInfo(Tree, p, j) /\ out \subseteq FeatureSpec
      /\ \A g \in DOMAIN i.edges : g \in DOMAIN j.edges /\ j.edges[g] = i.edges[g]
      /\ \A g \in DOMAIN j.edges \ DOMAIN i.edges : g = s[2] /\ s[2] # Default /\ j.edges[g] \subseteq out
      /\ s[2] # Default => s[2] \in DOMAIN j.edges \/ NeedsVars(s)
      /\ \A d \in j.defaults : \/ d \in i.defaults \/ <<p, d>> \in out
                               \/ p \in Installed /\ d \in db[p].defaults \cap Tree.feats[p]
  <2>1. p \in Pkg /\ DbTypeInv /\ IsInfo(Tree, p, i)
    BY <1>3, <1>4, <1>5
  <2>. HIDE DEF p
  <2>2. ASSUME NEW f \in Tree.feats[p] \cup {Core, Default},
               j = AddFeature(i, p, f)[1], out = AddFeature(i, p, f)[2]
        PROVE  /\ IsInfo(Tree, p, j) /\ out \subseteq FeatureSpec
               /\ \A g \in DOMAIN i.edges : g \in DOMAIN j.edges /\ j.edges[g] = i.edges[g]
               /\ \A g \in DOMAIN j.edges \ DOMAIN i.edges : g = f /\ f # Default /\ j.edges[g] \subseteq out
               /\ f # Default => f \in DOMAIN j.edges \/ NeedsVars(<<p, f>>)
               /\ \A d \in j.defaults : \/ d \in i.defaults \/ <<p, d>> \in out
                                        \/ p \in Installed /\ d \in db[p].defaults \cap Tree.feats[p]
    BY <2>1, <2>2, Added
  <2>3. s[2] \in Tree.feats[p] \cup {Core, Default} /\ <<p, s[2]>> = s
    BY <1>3
  <2>4. NeedsVars(<<p, s[2]>>) <=> NeedsVars(s)
    BY <2>3
  <2>. QED
    BY ONLY <1>2, <2>2, <2>3, <2>4
<1>7. /\ i.edges = IF p \in DOMAIN info THEN info[p].edges ELSE NewInfo(p, asked).edges
      /\ i.defaults = IF p \in DOMAIN info THEN info[p].defaults ELSE NewInfo(p, asked).defaults
  BY <1>1
<1>8. \A q : DOMAIN NewInfo(q, asked).edges = {} /\ NewInfo(q, asked).defaults = {}
             /\ IsInfo(Tree, q, NewInfo(q, asked))
  BY NewInfoFacts
<1>9. /\ again \subseteq FeatureSpec
      /\ \A q \in T \ DOMAIN info : q \in Installed =>
            \A f \in {Core} \cup (db[q].feats \cap Tree.feats[q]) : <<q, f>> \in again
  <2>1. ASSUME NEW q \in T \ DOMAIN info
        PROVE  /\ ReinstallRequirements(q, asked) \subseteq FeatureSpec
               /\ q \in Installed => \A f \in {Core} \cup (db[q].feats \cap Tree.feats[q]) :
                                        <<q, f>> \in ReinstallRequirements(q, asked)
    BY <1>1, <1>4, ReinstallFacts
  <2>. QED
    BY <2>1
<1>. HIDE DEF again
<1>10. DOMAIN info' = DOMAIN info \cup T /\ p \in DOMAIN info'
  BY <1>1, <1>2
<1>11. \A q \in DOMAIN info' : IsInfo(Tree, q, info'[q])
  BY <1>2, <1>4, <1>6, <1>8, <1>10
<1>12. \A q \in DOMAIN info : \A f \in DOMAIN info[q].edges :
            f \in DOMAIN info'[q].edges /\ info'[q].edges[f] = info[q].edges[f]
  BY <1>2, <1>6, <1>7
<1>13. \A q \in DOMAIN info' : \A f \in DOMAIN info'[q].edges :
            \/ q \in DOMAIN info /\ f \in DOMAIN info[q].edges
            \/ <<q, f>> = s /\ info'[q].edges[f] \subseteq todo'
  BY <1>2, <1>3, <1>6, <1>7, <1>8, <1>10
<1>14. \A q \in DOMAIN info' : \A d \in info'[q].defaults :
            \/ q \in DOMAIN info /\ d \in info[q].defaults
            \/ <<q, d>> \in todo'
            \/ q \in Installed /\ d \in db[q].defaults \cap Tree.feats[q]
  BY <1>2, <1>6, <1>7, <1>8, <1>10
<1>15. InfoGrows(s, info', todo')
  <2>1. \A e \in RemoveEdges : e[1] \in DOMAIN info' => e[2] \in DOMAIN info'
    BY <1>1, <1>10 DEF PlanInv, SolveInv
  <2>. QED
    BY <1>1, <1>2, <1>4, <1>9, <1>10, <1>11, <1>12, <1>13, <1>14, <2>1 DEF InfoGrows
<1>16. s \in batch' \/ Met(Tree, db, info', s)
  BY <1>2, <1>3, <1>6, <1>10 DEF Met
<1>17. todo' \subseteq FeatureSpec /\ todo \ {s} \subseteq todo'
  BY <1>2, <1>4, <1>6, <1>9
<1>. QED
  BY <1>15, <1>16, <1>17

LEMMA AddingInv ==
    ASSUME PlanInv, NEW s \in todo, NEW T, NEW i, NEW j, NEW out, Adding(s, T, i, j, out)
    PROVE  PlanInv'
<1>1. Take(s) /\ asked' \subseteq Installed
  BY AddingFacts DEF Adding
<1>. QED
  BY <1>1, AddingGrows, Solving

LEMMA AddToPlannedAdds ==
    ASSUME PlanInv, NEW s \in todo, AddToPlanned(s)
    PROVE  \E T, i, j, out : Adding(s, T, i, j, out)
<1>. DEFINE p == s[1]
            i == info[p]
            added == AddFeature(i, p, s[2])
            j == added[1]
            out == added[2]
            none == {ReinstallRequirements(q, asked) : q \in {} \ DOMAIN info}
<1>1. /\ Take(s) /\ s[2] # Star /\ HasInfo(p) /\ asked' = asked
      /\ info' = [info EXCEPT ![p] = j] /\ todo' = (todo \ {s}) \cup out
  BY DEF AddToPlanned
<1>2. UNION none = {}
  OBVIOUS
<1>. HIDE DEF added
<1>3. DOMAIN info' = DOMAIN info /\ info'[p] = j /\ \A q \in DOMAIN info : q # p => info'[q] = info[q]
  BY <1>1 DEF HasInfo
<1>4. todo' = (todo \ {s}) \cup out \cup UNION none
  BY <1>1, <1>2
<1>5. Adding(s, {}, i, j, out)
  BY <1>1, <1>3, <1>4 DEF Adding, added
<1>. QED
  BY <1>5

LEMMA AddNewAdds ==
    ASSUME PlanInv, NEW s \in todo, AddNew(s)
    PROVE  \E T, i, j, out : Adding(s, T, i, j, out)
<1>. DEFINE p == s[1]
            i == NewInfo(p, asked)
            added == AddFeature(i, p, s[2])
            j == added[1]
            out == added[2]
            again == {ReinstallRequirements(q, asked) : q \in {p} \ DOMAIN info}
<1>1. /\ Take(s) /\ s[2] # Star /\ ~ HasInfo(p) /\ p \notin Installed /\ asked' = asked
      /\ info' = Extended(info, p, j)
      /\ todo' = (todo \ {s}) \cup ReinstallRequirements(p, asked) \cup out
  BY DEF AddNew
<1>2. UNION again = ReinstallRequirements(p, asked)
  BY <1>1 DEF HasInfo
<1>. HIDE DEF added
<1>3. DOMAIN info' = DOMAIN info \cup {p} /\ info'[p] = j /\ \A q \in DOMAIN info : q # p => info'[q] = info[q]
  BY <1>1 DEF Extended
<1>4. todo' = (todo \ {s}) \cup out \cup UNION again
  BY <1>1, <1>2
<1>5. Adding(s, {p}, i, j, out)
  BY <1>1, <1>3, <1>4 DEF Adding, added
<1>. QED
  BY <1>5

LEMMA ReinstallAdds ==
    ASSUME PlanInv, NEW s \in todo, Reinstall(s)
    PROVE  \E T, i, j, out : Adding(s, T, i, j, out)
<1>. DEFINE p == s[1]
            i == NewInfo(p, asked)
            added == AddFeature(i, p, s[2])
            j == added[1]
            out == added[2]
            T == Reached(RemoveEdges, {p})
            again == {ReinstallRequirements(q, asked) : q \in T \ DOMAIN info}
<1>1. s[2] # Default
  <2>1. p \in Installed => HasDefaultsInstalled(p)
    BY DEF PlanInv, DbTypeInv, IsDb, HasDefaultsInstalled, Installed
  <2>. QED
    BY <2>1 DEF Reinstall, MustReinstall
<1>2. /\ Take(s) /\ s[2] # Star /\ MustReinstall(s) /\ ~ HasInfo(p) /\ asked' = asked
      /\ info' = [q \in DOMAIN info \cup (T \ DOMAIN info) |->
                     IF q = p THEN j ELSE IF q \in DOMAIN info THEN info[q] ELSE NewInfo(q, asked)]
      /\ todo' = (todo \ {s}) \cup out \cup UNION again
  BY <1>1 DEF Reinstall, MustReinstall, HasInfo, Reinstalled
<1>3. p \in T
  <2>1. p \in Pkg
    BY <1>2, TakeFacts
  <2>2. RemoveEdges \in SUBSET (Pkg \X Pkg) /\ {p} \in SUBSET Pkg
    BY <2>1, RemoveEdgesFacts
  <2>. QED
    BY <2>2, ReachedFacts
<1>. HIDE DEF added, T
<1>4. DOMAIN info' = DOMAIN info \cup T /\ info'[p] = j
  BY <1>2, <1>3
<1>5. \A q \in DOMAIN info : q # p => info'[q] = info[q]
  BY <1>2
<1>6. \A q \in T \ DOMAIN info : q # p => info'[q] = NewInfo(q, asked)
  BY <1>2
<1>7. Adding(s, T, i, j, out)
  BY <1>1, <1>2, <1>4, <1>5, <1>6 DEF Adding, T, added
<1>. QED
  BY <1>7

LEMMA AddInv ==
    ASSUME PlanInv, NEW s \in todo, AddToPlanned(s) \/ AddNew(s) \/ Reinstall(s)
    PROVE  PlanInv'
<1>1. PICK T, i, j, out : Adding(s, T, i, j, out)
  BY AddToPlannedAdds, AddNewAdds, ReinstallAdds
<1>. QED
  BY <1>1, AddingInv

(***************************************************************************)
(* The other steps.                                                        *)
(***************************************************************************)
\* The solver and what is installed stay as they are.
LEMMA SolverStays ==
    ASSUME PlanInv, UNCHANGED <<at, db, solver>>
    PROVE  DbTypeInv' /\ SolveInv' /\ RemoveEdges' = RemoveEdges /\ RevEdges' = RevEdges
<1>1. DbTypeInv /\ SolveInv /\ UNCHANGED <<at, db, user, warn, todo, batch, vars, info, asked, unsupported>>
  BY DEF PlanInv, solver
<1>2. RemoveEdges' = RemoveEdges /\ RevEdges' = RevEdges /\ Tree' = Tree /\ Installed' = Installed
  BY <1>1 DEF RemoveEdges, RevEdges, Installed, Tree
<1>3. DbTypeInv'
  BY <1>1, <1>2 DEF DbTypeInv
<1>4. SolveInv'
  BY <1>1, <1>2 DEF SolveInv, Kept, Needed, Warned, Planned, Met
<1>. QED
  BY <1>2, <1>3, <1>4

LEMMA EndInv ==
    ASSUME PlanInv, End, IsDb(db')
    PROVE  PlanInv'
<1>1. /\ at' = at /\ pc' = "idle" /\ user' = {} /\ todo' = {} /\ batch' = {} /\ vars' = {} /\ info' = NoInfo
      /\ asked' = {} /\ unsupported' = {} /\ removes' = {} /\ installs' = {} /\ StartSort({}, {})
  BY DEF End
<1>2. DOMAIN info' = {}
  BY <1>1 DEF NoInfo
<1>3. DbTypeInv'
  BY <1>1, <1>2 DEF DbTypeInv, PlanInv
<1>4. SolveInv'
  BY <1>2 DEF SolveInv
<1>5. PlaceInv'
  BY <1>1, <1>2 DEF PlaceInv
<1>6. SortInv'
  <2>1. {} \in SUBSET (Pkg \X Pkg) /\ {} \in SUBSET Pkg
    OBVIOUS
  <2>. QED
    BY <1>1, <2>1, StartSorts
<1>. QED
  BY <1>3, <1>4, <1>5, <1>6 DEF PlanInv

LEMMA IdleFacts ==
    ASSUME PlanInv, pc = "idle"
    PROVE  DOMAIN info = {} /\ todo = {} /\ batch = {} /\ asked = {} /\ removes = {} /\ installs = {}
  BY DEF PlanInv, PlaceInv

LEMMA UpdatePortsInv ==
    ASSUME PlanInv, UpdatePorts
    PROVE  PlanInv'
<1>1. /\ at \in 1 .. Len(History) /\ at < Len(History) /\ at' = at + 1 /\ pc = "idle" /\ pc' = pc
      /\ UNCHANGED <<db, user, warn, todo, batch, vars, info, asked, unsupported, removes, installs>>
      /\ UNCHANGED sortVars /\ Len(History) \in Nat
  BY HistoryAssumption DEF UpdatePorts, PlanInv, DbTypeInv, solver
<1>2. DOMAIN info' = {}
  BY <1>1, IdleFacts
<1>3. at' \in 1 .. Len(History)
  BY <1>1
<1>4. DbTypeInv'
  BY <1>1, <1>2, <1>3 DEF PlanInv, DbTypeInv, Installed
<1>5. SolveInv'
  BY <1>2 DEF SolveInv
<1>6. PlaceInv'
  BY <1>1 DEF PlanInv, PlaceInv
<1>7. SortInv'
  BY <1>1, StepInv DEF PlanInv
<1>. QED
  BY <1>4, <1>5, <1>6, <1>7 DEF PlanInv

LEMMA InstallInv ==
    ASSUME PlanInv, NEW specs \in Requests, NEW action, Install(specs, action)
    PROVE  PlanInv'
<1>1. /\ pc = "idle" /\ pc' = "solve" /\ user' = {s[1] : s \in specs} /\ todo' = specs
      /\ UNCHANGED <<at, db, removes, installs, batch, vars, info, asked, unsupported>> /\ UNCHANGED sortVars
  BY DEF Install, Run
<1>2. specs \subseteq FeatureSpec
  BY RequestsAssumption
<1>3. user' \subseteq Pkg
  BY <1>1, <1>2 DEF FeatureSpec
<1>4. DOMAIN info' = {} /\ removes' = {} /\ installs' = {}
  BY <1>1, IdleFacts
<1>5. DbTypeInv'
  BY <1>1, <1>2, <1>3, <1>4 DEF PlanInv, DbTypeInv, Installed
<1>6. SolveInv'
  BY <1>4 DEF SolveInv
<1>7. PlaceInv'
  BY <1>1, <1>4 DEF PlaceInv
<1>8. SortInv'
  BY <1>1, StepInv DEF PlanInv
<1>. QED
  BY <1>5, <1>6, <1>7, <1>8 DEF PlanInv

LEMMA UpgradeInv ==
    ASSUME PlanInv, NEW specs \in SUBSET Pkg, NEW action, Upgrade(specs, action)
    PROVE  PlanInv'
<1>. DEFINE again == Reached(RemoveEdges, specs)
            all == UNION {ReinstallRequirements(p, asked) : p \in again}
<1>1. /\ pc = "idle" /\ pc' = "solve" /\ todo' = all /\ info' = [p \in again |-> NewInfo(p, asked)]
      /\ UNCHANGED <<at, db, removes, installs, user, batch, vars, asked, unsupported>> /\ UNCHANGED sortVars
  BY DEF Upgrade, Run
<1>2. again \subseteq Pkg /\ Closed(RemoveEdges, again)
  <2>1. RemoveEdges \in SUBSET (Pkg \X Pkg)
    BY RemoveEdgesFacts
  <2>. QED
    BY <2>1, ReachedFacts
<1>3. all \subseteq FeatureSpec /\ \A p \in again : p \in Installed =>
            \A f \in {Core} \cup (db[p].feats \cap Tree.feats[p]) : <<p, f>> \in all
  <2>1. ASSUME NEW p \in again
        PROVE  /\ ReinstallRequirements(p, asked) \subseteq FeatureSpec
               /\ p \in Installed => \A f \in {Core} \cup (db[p].feats \cap Tree.feats[p]) :
                                        <<p, f>> \in ReinstallRequirements(p, asked)
    <3>1. p \in Pkg /\ DbTypeInv
      BY <1>2 DEF PlanInv
    <3>. QED
      BY <3>1, ReinstallFacts
  <2>. QED
    BY <2>1
<1>4. removes' = {} /\ installs' = {} /\ batch' = {}
  BY <1>1, IdleFacts
<1>. HIDE DEF again, all
<1>5. /\ DOMAIN info' = again /\ Tree' = Tree /\ RemoveEdges' = RemoveEdges
      /\ \A p \in again : IsInfo(Tree, p, info'[p]) /\ DOMAIN info'[p].edges = {} /\ info'[p].defaults = {}
  BY <1>1, NewInfoFacts DEF Tree, RemoveEdges, Installed
<1>6. DbTypeInv'
  BY <1>1, <1>2, <1>3, <1>5 DEF PlanInv, DbTypeInv, Installed
<1>7. SolveInv'
  <2>1. ASSUME NEW p \in again
        PROVE  /\ Kept(Tree', db', info', (todo \cup batch)', p)
               /\ Needed(Tree', db', info', (todo \cup batch)', p)
               /\ Warned(Tree, info, todo \cup batch, p)'
    BY <1>1, <1>3, <1>5 DEF Kept, Needed, Warned, Planned, Installed
  <2>. QED
    BY <1>2, <1>5, <2>1 DEF SolveInv, Closed
<1>8. PlaceInv'
  BY <1>1, <1>4 DEF PlaceInv
<1>9. SortInv'
  BY <1>1, StepInv DEF PlanInv
<1>. QED
  BY <1>6, <1>7, <1>8, <1>9 DEF PlanInv

LEMMA RemoveInv ==
    ASSUME PlanInv, NEW specs \in SUBSET Pkg, Remove(specs)
    PROVE  PlanInv'
<1>1. /\ pc = "idle" /\ pc' = "sortRemoval" /\ UNCHANGED <<at, db, removes, installs>> /\ UNCHANGED solver
      /\ StartSort(RevEdges, specs) /\ RevEdges \in SUBSET (Pkg \X Pkg)
  BY DEF Remove, Run, RevEdges
<1>2. DbTypeInv' /\ SolveInv' /\ RevEdges' = RevEdges
  BY <1>1, SolverStays
<1>3. SortInv' /\ graph' = RevEdges
  BY <1>1, StartSorts
<1>4. PlaceInv'
  BY <1>1, <1>2, <1>3, IdleFacts DEF PlaceInv, solver
<1>. QED
  BY <1>2, <1>3, <1>4 DEF PlanInv

LEMMA RefuseInv ==
    ASSUME PlanInv, Refuse
    PROVE  PlanInv'
<1>1. /\ pc = "idle" /\ pc' = "idle" /\ UNCHANGED <<at, db, removes, installs>> /\ UNCHANGED solver /\ UNCHANGED sortVars
  BY DEF Refuse, Run
<1>2. DbTypeInv' /\ SolveInv'
  BY <1>1, SolverStays
<1>3. SortInv'
  BY <1>1, StepInv DEF PlanInv
<1>4. PlaceInv'
  BY <1>1, IdleFacts DEF PlaceInv, solver
<1>. QED
  BY <1>2, <1>3, <1>4 DEF PlanInv

LEMMA ExportInv ==
    ASSUME PlanInv, NEW specs \in SUBSET Pkg, Export(specs)
    PROVE  PlanInv'
<1>. DEFINE edges == {e \in Pkg \X Pkg : e[1] \in Installed /\ e[2] \in db[e[1]].deps}
<1>1. /\ pc = "idle" /\ pc' = "sortExport" /\ UNCHANGED <<at, db, removes, installs>> /\ UNCHANGED solver
      /\ StartSort(edges, specs) /\ edges \in SUBSET (Pkg \X Pkg)
  BY DEF Export, Run
<1>2. DbTypeInv' /\ SolveInv'
  BY <1>1, SolverStays
<1>3. SortInv'
  BY <1>1, StartSorts
<1>4. PlaceInv'
  BY <1>1, IdleFacts DEF PlaceInv, solver
<1>. QED
  BY <1>2, <1>3, <1>4 DEF PlanInv

LEMMA LoadVarsInv ==
    ASSUME PlanInv, LoadVars
    PROVE  PlanInv'
<1>1. /\ pc = "solve" /\ todo = {} /\ vars' = vars \cup {s[1] : s \in batch} /\ todo' = batch /\ batch' = {}
      /\ UNCHANGED <<at, db, pc, user, warn, info, asked, unsupported, removes, installs>> /\ UNCHANGED sortVars
  BY DEF LoadVars
<1>2. (todo \cup batch)' = todo \cup batch /\ Tree' = Tree /\ RemoveEdges' = RemoveEdges /\ Installed' = Installed
  BY <1>1 DEF Tree, RemoveEdges, Installed
<1>3. DbTypeInv'
  <2>1. DbTypeInv
    BY DEF PlanInv
  <2>2. vars' \subseteq Pkg
    BY <1>1, <2>1 DEF DbTypeInv, FeatureSpec
  <2>. QED
    BY <1>1, <1>2, <2>1, <2>2 DEF DbTypeInv
<1>4. SolveInv'
  <2>1. SolveInv
    BY DEF PlanInv
  <2>. QED
    BY <1>1, <1>2, <2>1 DEF SolveInv, Kept, Needed, Warned, Planned, Met
<1>5. PlaceInv'
  BY <1>1 DEF PlanInv, PlaceInv
<1>6. SortInv'
  BY <1>1, StepInv DEF PlanInv
<1>. QED
  BY <1>3, <1>4, <1>5, <1>6 DEF PlanInv

LEMMA SerializeInv ==
    ASSUME PlanInv, Serialize
    PROVE  PlanInv'
<1>. DEFINE T == DOMAIN info \cap Installed
<1>1. /\ pc = "solve" /\ pc' = "sortRemoves" /\ todo = {} /\ batch = {} /\ StartSort(RemoveEdges, T)
      /\ UNCHANGED <<at, db, removes, installs>> /\ UNCHANGED solver
  BY DEF Serialize
<1>2. RemoveEdges \in SUBSET (Pkg \X Pkg) /\ T \in SUBSET Pkg
  BY RemoveEdgesFacts DEF PlanInv, DbTypeInv
<1>3. DbTypeInv' /\ SolveInv' /\ RemoveEdges' = RemoveEdges
  BY <1>1, SolverStays
<1>4. T' = T /\ UNCHANGED <<todo, batch, info, asked>>
  BY <1>1 DEF Installed, solver
<1>. HIDE DEF T
<1>5. SortInv' /\ graph' = RemoveEdges /\ starts' = T /\ Within({})'
  BY <1>1, <1>2, StartSorts
<1>6. Within(T)'
  BY <1>5 DEF Within
<1>7. PlaceInv'
  BY <1>1, <1>3, <1>4, <1>5, <1>6 DEF PlanInv, PlaceInv, T
<1>. QED
  BY <1>3, <1>5, <1>7 DEF PlanInv

LEMMA SortingInv ==
    ASSUME PlanInv, Sorting
    PROVE  PlanInv'
<1>. DEFINE T == DOMAIN info \cap Installed
<1>1. /\ SortStep /\ UNCHANGED <<at, db, pc, removes, installs>> /\ UNCHANGED solver
      /\ pc \in {"sortRemoves", "sortInstalls", "sortRemoval", "sortExport"}
  BY DEF Sorting
<1>2. DbTypeInv' /\ SolveInv' /\ RemoveEdges' = RemoveEdges /\ RevEdges' = RevEdges
  BY <1>1, SolverStays
<1>3. T' = T /\ UNCHANGED <<todo, batch, info, asked>>
  BY <1>1 DEF Installed, solver
<1>4. SortInv' /\ UNCHANGED <<graph, starts>>
  BY <1>1, StepInv DEF PlanInv, SortStep, VisitStart, VisitNeighbour, Return
<1>5. ASSUME pc = "sortRemoves"
      PROVE  Within(T)'
  <2>1. graph = RemoveEdges /\ starts = T /\ Within(T)
    BY <1>5 DEF PlanInv, PlaceInv
  <2>2. Closed(RemoveEdges, T)
    BY DEF PlanInv, SolveInv, Closed, RemoveEdges
  <2>3. T' = T
    BY <1>3
  <2>. HIDE DEF T
  <2>4. ASSUME NEW X, X = T
        PROVE  Within(X)'
    <3>1. SortInv /\ SortStep /\ Within(X) /\ starts \subseteq X /\ Closed(graph, X)
      BY <1>1, <2>1, <2>2, <2>4 DEF PlanInv
    <3>. QED
      BY <3>1, SortStays
  <2>. QED
    BY <2>3, <2>4 DEF Within, Explored
<1>6. PlaceInv'
  <2>1. PlaceInv
    BY DEF PlanInv
  <2>2. pc = "sortRemoves" => Within(T)'
    BY <1>5
  <2>. QED
    BY <1>1, <1>2, <1>3, <1>4, <2>1, <2>2 DEF PlaceInv
<1>. QED
  BY <1>2, <1>4, <1>6 DEF PlanInv

LEMMA SerializeInstallsInv ==
    ASSUME PlanInv, SerializeInstalls
    PROVE  PlanInv'
<1>. DEFINE T == DOMAIN info \cap Installed
            S == DOMAIN info \cup user
<1>1. /\ pc = "sortRemoves" /\ SortDone /\ pc' = "sortInstalls" /\ removes' = Elements
      /\ StartSort(InstallEdges, S) /\ UNCHANGED <<at, db, installs>> /\ UNCHANGED solver
  BY DEF SerializeInstalls
<1>2. InstallEdges \in SUBSET (Pkg \X Pkg) /\ S \in SUBSET Pkg
  BY DEF InstallEdges, PlanInv, DbTypeInv
<1>3. Elements = T
  <2>1. Within(T) /\ starts = T /\ SortInv
    BY <1>1 DEF PlanInv, PlaceInv
  <2>. HIDE DEF T
  <2>. QED
    BY <1>1, <2>1, SortedFacts
<1>4. DbTypeInv' /\ SolveInv'
  BY <1>1, SolverStays
<1>5. T' = T /\ S' = S /\ UNCHANGED <<todo, batch, info, asked>>
  BY <1>1 DEF Installed, solver
<1>6. SortInv' /\ starts' = S
  <2>. HIDE DEF S
  <2>. QED
    BY <1>1, <1>2, StartSorts
<1>7. PlaceInv'
  <2>1. todo = {} /\ batch = {} /\ installs = {}
    BY <1>1 DEF PlanInv, PlaceInv
  <2>. QED
    BY <1>1, <1>3, <1>5, <1>6, <2>1 DEF PlaceInv
<1>. QED
  BY <1>4, <1>6, <1>7 DEF PlanInv

LEMMA SerializedInv ==
    ASSUME PlanInv, Serialized
    PROVE  PlanInv'
<1>1. /\ pc = "sortInstalls" /\ SortDone /\ pc' = "planned" /\ installs' = {p \in Elements : HasInfo(p)}
      /\ UNCHANGED <<at, db, removes>> /\ UNCHANGED solver /\ UNCHANGED sortVars
  BY DEF Serialized
<1>2. DOMAIN info \subseteq Elements
  BY <1>1, SortedFacts DEF PlanInv, PlaceInv
<1>3. installs' = DOMAIN info
  BY <1>1, <1>2 DEF HasInfo
<1>4. DbTypeInv' /\ SolveInv'
  BY <1>1, SolverStays
<1>5. SortInv'
  BY <1>1, StepInv DEF PlanInv
<1>6. UNCHANGED <<todo, batch, info, asked>> /\ Installed' = Installed
  BY <1>1 DEF Installed, solver
<1>7. PlaceInv'
  BY <1>1, <1>3, <1>6 DEF PlanInv, PlaceInv
<1>. QED
  BY <1>4, <1>5, <1>7 DEF PlanInv

\* What a package needs, without the defaults that stand for other features.
LEMMA DependenciesFacts ==
    ASSUME PlanInv, todo = {}, batch = {}, NEW p \in DOMAIN info
    PROVE  \A x \in FeatureDependencies(p) : x \in FeatureSpec /\ x[1] \in Pkg
<1>1. p \in Pkg /\ IsInfo(Tree, p, info[p])
  BY DEF PlanInv, DbTypeInv
<1>2. ASSUME NEW f \in DOMAIN info[p].edges, NEW s \in info[p].edges[f], NEW x \in Computed(s)
      PROVE  x \in FeatureSpec /\ x[1] \in Pkg
  <2>1. <<p, f>> \in Key
    BY <1>1 DEF IsInfo, Key
  <2>2. s \in FeatureSpec
    BY <1>1, <2>1, TreeFacts DEF IsInfo, PlanInv, DbTypeInv
  <2>3. s[1] \in Pkg
    BY <2>2 DEF FeatureSpec
  <2>4. CASE s[2] # Default
    BY <2>2, <2>3, <2>4 DEF Computed
  <2>5. CASE s[2] = Default /\ s[1] \in DOMAIN info
    <3>1. x \in {<<s[1], d>> : d \in info[s[1]].defaults}
      BY <2>5 DEF Computed, HasInfo
    <3>2. info[s[1]].defaults \subseteq Feat
      BY <2>5 DEF PlanInv, DbTypeInv, IsInfo
    <3>. QED
      BY <2>3, <3>1, <3>2 DEF FeatureSpec
  <2>6. CASE s[2] = Default /\ s[1] \notin DOMAIN info
    <3>1. x \in {<<s[1], d>> : d \in db[s[1]].defaults}
      BY <2>6 DEF Computed, HasInfo
    <3>2. Met(Tree, db, info, s)
      BY DEF PlanInv, SolveInv, Needed
    <3>3. s[1] \in Installed
      BY <2>6, <3>2, NamesAssumption DEF Met, Installed
    <3>4. db[s[1]].defaults \subseteq Feat
      BY <3>3 DEF PlanInv, DbTypeInv, IsDb, IsParagraphs, Installed
    <3>. QED
      BY <2>3, <3>1, <3>4 DEF FeatureSpec
  <2>. QED
    BY <2>4, <2>5, <2>6
<1>. QED
  BY <1>2 DEF FeatureDependencies

\* What is written of a package, restored or not.
IsWritten(r, p) ==
    /\ IsParagraphs(r) /\ r.defaults \subseteq r.feats
    /\ r.deps = {s[1] : s \in FeatureDependencies(p)} \ {p}

LEMMA WrittenFacts ==
    ASSUME PlanInv, todo = {}, batch = {}, NEW p \in DOMAIN info
    PROVE  /\ IsWritten(Paragraphs(p), p) /\ Paragraphs(p).lacks = {}
           /\ \A defaults \in {OtherDefaults(p), info[p].defaults}, lacks \in SUBSET Paragraphs(p).deps :
                 LET r == CachedParagraphs(p, defaults, lacks) IN IsWritten(r, p) /\ r.lacks = lacks
<1>. DEFINE feats == DOMAIN info[p].edges \ {Core}
            deps == {s[1] : s \in FeatureDependencies(p)} \ {p}
            record(defaults, lacks) == [feats |-> feats, defaults |-> defaults, at |-> at, deps |-> deps, lacks |-> lacks]
<1>1. /\ IsInfo(Tree, p, info[p]) /\ at \in 1 .. Len(History) /\ p \in Pkg
      /\ Tree.defaults[p] \subseteq Feat /\ Core \notin Feat
  BY TreeFacts, NamesAssumption DEF PlanInv, DbTypeInv
<1>2. deps \subseteq Pkg
  BY DependenciesFacts
<1>3. info[p].defaults \subseteq feats /\ feats \subseteq Feat
  <2>1. Kept(Tree, db, info, {}, p)
    BY DEF PlanInv, SolveInv
  <2>2. info[p].defaults \subseteq Feat /\ DOMAIN info[p].edges \subseteq Feat \cup {Core}
    BY <1>1 DEF IsInfo
  <2>. QED
    BY <1>1, <2>1, <2>2 DEF Kept, Planned
<1>4. OtherDefaults(p) \subseteq feats
  BY <1>1 DEF OtherDefaults
<1>5. Paragraphs(p) = record(info[p].defaults, {})
  BY DEF Paragraphs
<1>6. ASSUME NEW defaults \in SUBSET feats, NEW lacks \in SUBSET deps
      PROVE  LET r == record(defaults, lacks) IN IsWritten(r, p) /\ r.lacks = lacks
  <2>. DEFINE r == record(defaults, lacks)
  <2>1. /\ r.feats = feats /\ r.defaults = defaults /\ r.at = at /\ r.deps = deps /\ r.lacks = lacks
        /\ DOMAIN r = {"feats", "defaults", "deps", "lacks", "at"}
        /\ r = [feats |-> r.feats, defaults |-> r.defaults, deps |-> r.deps, lacks |-> r.lacks, at |-> r.at]
    OBVIOUS
  <2>. HIDE DEF r
  <2>2. IsParagraphs(r)
    BY <1>1, <1>2, <1>3, <2>1 DEF IsParagraphs
  <2>. QED
    BY <2>1, <2>2 DEF IsWritten, r
<1>7. IsWritten(Paragraphs(p), p) /\ Paragraphs(p).lacks = {}
  <2>. HIDE DEF record
  <2>. QED
    BY <1>3, <1>5, <1>6
<1>8. ASSUME NEW defaults \in {OtherDefaults(p), info[p].defaults}, NEW lacks \in SUBSET Paragraphs(p).deps
      PROVE  LET r == CachedParagraphs(p, defaults, lacks) IN IsWritten(r, p) /\ r.lacks = lacks
  <2>1. CachedParagraphs(p, defaults, lacks)
          = [[feats |-> feats, defaults |-> info[p].defaults, at |-> at, deps |-> deps, lacks |-> {}]
                EXCEPT !.defaults = defaults, !.lacks = lacks]
    BY <1>5 DEF CachedParagraphs
  <2>2. CachedParagraphs(p, defaults, lacks) = record(defaults, lacks)
    <3>. HIDE DEF feats, deps
    <3>. QED
      BY <2>1
  <2>3. defaults \subseteq feats /\ lacks \subseteq deps
    BY <1>3, <1>4, <1>5
  <2>. HIDE DEF record, feats, deps
  <2>. QED
    BY <1>6, <2>2, <2>3
<1>. QED
  BY <1>7, <1>8

LEMMA ExecuteFacts ==
    ASSUME PlanInv, NEW done \in SUBSET installs, NEW restored, NEW others, NEW keepGoing,
           Execute(done, restored, others, keepGoing)
    PROVE  /\ pc = "planned" /\ End /\ Installed' = (Installed \ removes) \cup done
           /\ todo = {} /\ batch = {} /\ removes = DOMAIN info \cap Installed /\ installs = DOMAIN info
           /\ \A p \in Installed' \ done : p \in Installed /\ db'[p] = db[p]
           /\ \A p \in done : IsWritten(db'[p], p)
           /\ \A p \in done \ restored : db'[p].lacks = {}
           /\ \/ \A p \in done \cap restored : db'[p].lacks = db'[p].deps \ Installed'
              \/ IsPrefix(done) /\ \A p \in done : db'[p].lacks = {}
<1>. DEFINE present == (Installed \ removes) \cup done
            defaults(p) == IF p \in others THEN OtherDefaults(p) ELSE info[p].defaults
            lacks(p) == IF keepGoing THEN Paragraphs(p).deps \ present ELSE {}
            cached(p) == CachedParagraphs(p, defaults(p), lacks(p))
<1>1. /\ pc = "planned" /\ End
      /\ db' = [p \in present |->
                   IF p \notin done THEN db[p] ELSE IF p \notin restored THEN Paragraphs(p) ELSE cached(p)]
      /\ keepGoing \/ IsPrefix(done)
  BY DEF Execute
<1>2. todo = {} /\ batch = {} /\ removes = DOMAIN info \cap Installed /\ installs = DOMAIN info
  BY <1>1 DEF PlanInv, PlaceInv
<1>3. \A p \in done : IsWritten(cached(p), p) /\ cached(p).lacks = lacks(p)
  <2>1. ASSUME NEW p \in done
        PROVE  IsWritten(cached(p), p) /\ cached(p).lacks = lacks(p)
    <3>1. /\ p \in DOMAIN info /\ defaults(p) \in {OtherDefaults(p), info[p].defaults}
          /\ lacks(p) \in SUBSET Paragraphs(p).deps
      BY <1>2
    <3>. HIDE DEF defaults, lacks
    <3>. QED
      BY <1>2, <3>1, WrittenFacts
  <2>. QED
    BY <2>1
<1>4. \A p \in done : IsWritten(Paragraphs(p), p) /\ Paragraphs(p).lacks = {}
  BY <1>2, WrittenFacts
<1>5. /\ keepGoing => \A p \in done : lacks(p) = Paragraphs(p).deps \ present
      /\ ~ keepGoing => \A p \in done : lacks(p) = {}
  OBVIOUS
<1>6. \A p \in done : Paragraphs(p).deps = cached(p).deps
  BY <1>3, <1>4 DEF IsWritten
<1>. HIDE DEF present, cached, lacks
<1>7. Installed' = present /\ done \subseteq present
  BY <1>1 DEF Installed, present
<1>8. \A p \in present \ done : p \in Installed /\ db'[p] = db[p]
  BY <1>1 DEF present
<1>9. \A p \in done \ restored : db'[p] = Paragraphs(p)
  BY <1>1, <1>7
<1>10. \A p \in done \cap restored : db'[p] = cached(p)
  BY <1>1, <1>7
<1>11. (\A p \in done : IsWritten(db'[p], p)) /\ \A p \in done \ restored : db'[p].lacks = {}
  BY <1>3, <1>4, <1>9, <1>10
<1>12. \/ \A p \in done \cap restored : db'[p].lacks = db'[p].deps \ Installed'
       \/ IsPrefix(done) /\ \A p \in done : db'[p].lacks = {}
  <2>1. CASE keepGoing
    BY <1>3, <1>5, <1>6, <1>7, <1>10, <2>1
  <2>2. CASE ~ keepGoing
    BY <1>1, <1>3, <1>5, <1>10, <1>11, <2>2
  <2>. QED
    BY <2>1, <2>2
<1>. QED
  BY <1>1, <1>2, <1>7, <1>8, <1>11, <1>12 DEF present

LEMMA ExecuteInv ==
    ASSUME PlanInv, NEW done \in SUBSET installs, NEW restored, NEW others, NEW keepGoing,
           Execute(done, restored, others, keepGoing)
    PROVE  PlanInv'
<1>1. \A p \in done : IsParagraphs(db'[p]) /\ db'[p].defaults \subseteq db'[p].feats
  BY ExecuteFacts DEF IsWritten
<1>2. \A p \in Installed' \ done : IsParagraphs(db'[p]) /\ db'[p].defaults \subseteq db'[p].feats
  BY ExecuteFacts DEF PlanInv, DbTypeInv, IsDb, Installed
<1>3. Installed' \subseteq Pkg
  BY ExecuteFacts DEF PlanInv, DbTypeInv, IsDb, Installed
<1>4. IsDb(db')
  BY <1>1, <1>2, <1>3 DEF IsDb, Installed
<1>. QED
  BY <1>4, ExecuteFacts, EndInv

LEMMA RemoveSortedInv ==
    ASSUME PlanInv, RemoveSorted
    PROVE  PlanInv'
<1>1. End /\ ((db' = [p \in Installed \ Removed |-> db[p]]) \/ db' = db)
  BY DEF RemoveSorted
<1>2. IsDb(db)
  BY DEF PlanInv, DbTypeInv
<1>3. IsDb(db')
  BY <1>1, <1>2 DEF IsDb, Installed
<1>. QED
  BY <1>1, <1>3, EndInv

LEMMA PlanStutters ==
    ASSUME PlanInv, UNCHANGED planVars
    PROVE  PlanInv'
<1>1. UNCHANGED <<at, db, pc, removes, installs>> /\ UNCHANGED solver /\ UNCHANGED sortVars
  BY DEF planVars
<1>2. DbTypeInv' /\ SolveInv' /\ RemoveEdges' = RemoveEdges /\ RevEdges' = RevEdges
  BY <1>1, SolverStays
<1>3. SortInv'
  BY <1>1, StepInv DEF PlanInv
<1>4. PlaceInv'
  <2>1. PlaceInv /\ UNCHANGED <<pc, removes, installs, todo, batch, info, asked, graph, starts, status, db>>
    BY <1>1 DEF PlanInv, solver, sortVars
  <2>. QED
    BY <1>2, <2>1 DEF PlaceInv, Within, Explored, Installed
<1>. QED
  BY <1>2, <1>3, <1>4 DEF PlanInv

LEMMA PlanStep == PlanInv /\ [NextPlan]_planVars => PlanInv'
<1>. SUFFICES ASSUME PlanInv, [NextPlan]_planVars
              PROVE  PlanInv'
  OBVIOUS
<1>1. CASE UpdatePorts
  BY <1>1, UpdatePortsInv
<1>2. ASSUME NEW specs \in Requests, NEW action \in BOOLEAN, Install(specs, action)
      PROVE  PlanInv'
  BY <1>2, InstallInv
<1>3. ASSUME NEW specs \in SUBSET Pkg, Remove(specs)
      PROVE  PlanInv'
  BY <1>3, RemoveInv
<1>4. ASSUME NEW specs \in SUBSET Pkg, Export(specs)
      PROVE  PlanInv'
  BY <1>4, ExportInv
<1>5. ASSUME NEW specs \in SUBSET Pkg, NEW action \in BOOLEAN, Upgrade(specs, action)
      PROVE  PlanInv'
  BY <1>5, UpgradeInv
<1>6. ASSUME NEW s \in todo, Exit(s)
      PROVE  PlanInv'
  <2>1. End /\ IsDb(db')
    BY <1>6 DEF Exit, PlanInv, DbTypeInv
  <2>. QED
    BY <2>1, EndInv
<1>7. ASSUME NEW s \in todo, ExpandStar(s) \/ AddToPlanned(s) \/ AddNew(s) \/ Keep(s) \/ Reinstall(s)
      PROVE  PlanInv'
  BY <1>7, ExpandStarInv, AddInv, KeepInv
<1>8. CASE LoadVars
  BY <1>8, LoadVarsInv
<1>9. CASE Serialize
  BY <1>9, SerializeInv
<1>10. CASE Sorting
  BY <1>10, SortingInv
<1>11. CASE SerializeInstalls
  BY <1>11, SerializeInstallsInv
<1>12. CASE Serialized
  BY <1>12, SerializedInv
<1>13. CASE CycleExit \/ ExportSorted \/ DryRun
  <2>1. End /\ IsDb(db')
    BY <1>13 DEF CycleExit, ExportSorted, DryRun, PlanInv, DbTypeInv
  <2>. QED
    BY <2>1, EndInv
<1>14. ASSUME NEW done \in SUBSET installs, NEW restored, NEW others, NEW keepGoing,
              Execute(done, restored, others, keepGoing)
       PROVE  PlanInv'
  BY <1>14, ExecuteInv
<1>15. CASE RemoveSorted
  BY <1>15, RemoveSortedInv
<1>16. CASE UNCHANGED planVars
  BY <1>16, PlanStutters
<1>17. CASE Refuse
  BY <1>17, RefuseInv
<1>. QED
  BY <1>1, <1>2, <1>3, <1>4, <1>5, <1>6, <1>7, <1>8, <1>9, <1>10, <1>11, <1>12, <1>13, <1>14, <1>15, <1>16, <1>17
     DEF NextPlan

LEMMA PlanStart == InitPlan => PlanInv
<1>. SUFFICES ASSUME InitPlan
              PROVE  PlanInv
  OBVIOUS
<1>1. /\ at = 1 /\ db = NoInfo /\ pc = "idle" /\ user = {} /\ todo = {} /\ batch = {} /\ vars = {} /\ info = NoInfo
      /\ asked = {} /\ unsupported = {} /\ removes = {} /\ installs = {}
      /\ graph = {} /\ starts = {} /\ pending = {} /\ Fresh
  BY DEF InitPlan
<1>2. DOMAIN NoInfo = {}
  BY DEF NoInfo
<1>3. DbTypeInv
  BY <1>1, <1>2, HistoryAssumption DEF DbTypeInv, IsDb
<1>4. SolveInv
  BY <1>1, <1>2 DEF SolveInv
<1>5. PlaceInv
  BY <1>1, <1>2 DEF PlaceInv
<1>6. SortInv
  <2>1. InitSort
    BY <1>1 DEF InitSort
  <2>. QED
    BY <2>1, InitInv
<1>. QED
  BY <1>3, <1>4, <1>5, <1>6 DEF PlanInv

LEMMA PlanInvHolds == Plans => []PlanInv
<1>1. InitPlan => PlanInv
  BY PlanStart
<1>2. PlanInv /\ [NextPlan]_planVars => PlanInv'
  BY PlanStep
<1>. QED
  BY <1>1, <1>2, PTL DEF Plans

(***************************************************************************)
(* Execution.                                                              *)
(***************************************************************************)
Solves == pc \in {"solve", "sortRemoves", "sortInstalls", "planned"}

\* No plan is made from a corrupted database; it is executed in the order of its dependencies.
RunInv ==
    /\ Solves => ~ Corrupted
    /\ pc \in {"sortInstalls", "planned"} => graph = InstallEdges
    /\ pc = "planned" => SortDone /\ installs \subseteq Elements

LEMMA RunStep == RunInv /\ [NextPlan]_planVars => RunInv'
<1>. SUFFICES ASSUME RunInv, [NextPlan]_planVars
              PROVE  RunInv'
  OBVIOUS
<1>1. CASE pc' \in {"idle", "sortRemoval", "sortExport"}
  BY <1>1 DEF RunInv, Solves
<1>2. CASE UNCHANGED db /\ (pc' = "solve" \/ pc' = "sortRemoves") /\ (Solves \/ ~ Corrupted)
  BY <1>2 DEF RunInv, Solves, Corrupted, Installed
<1>3. CASE SerializeInstalls
  BY <1>3 DEF SerializeInstalls, StartSort, RunInv, Solves, Corrupted, Installed, InstallEdges, HasInfo, solver
<1>4. CASE Sorting
  <2>1. UNCHANGED <<db, pc, info, graph, installs>> /\ pc # "planned"
    BY <1>4 DEF Sorting, solver, SortStep, Return, VisitStart, VisitNeighbour
  <2>. QED
    BY <2>1 DEF RunInv, Solves, Corrupted, Installed, InstallEdges, HasInfo
<1>5. CASE Serialized
  <2>1. pc = "sortInstalls" /\ SortDone /\ installs' \subseteq Elements /\ UNCHANGED <<db, info>> /\ UNCHANGED sortVars
    BY <1>5 DEF Serialized, solver
  <2>. QED
    BY <2>1 DEF RunInv, Solves, Corrupted, Installed, InstallEdges, HasInfo, SortDone, Elements, sortVars
<1>6. CASE UNCHANGED planVars
  BY <1>6 DEF planVars, solver, sortVars, RunInv, Solves, Corrupted, Installed, InstallEdges, HasInfo, SortDone, Elements
<1>7. \A specs, action : Install(specs, action) \/ Upgrade(specs, action) => UNCHANGED db /\ pc' = "solve" /\ ~ Corrupted
  BY DEF Install, Upgrade, Run
<1>8. \A specs : Remove(specs) \/ Export(specs) => pc' \in {"sortRemoval", "sortExport"}
  BY DEF Remove, Export, Run
<1>9. UpdatePorts \/ Refuse \/ CycleExit \/ DryRun \/ RemoveSorted \/ ExportSorted => pc' = "idle"
  BY DEF UpdatePorts, Refuse, Run, CycleExit, DryRun, RemoveSorted, ExportSorted, End
<1>10. \A s, t, u, k : Exit(s) \/ Execute(s, t, u, k) => pc' = "idle"
  BY DEF Exit, Execute, End
<1>11. LoadVars \/ (\E s \in todo : ExpandStar(s) \/ AddToPlanned(s) \/ AddNew(s) \/ Keep(s) \/ Reinstall(s))
       => UNCHANGED db /\ pc' = "solve" /\ Solves
  BY DEF LoadVars, ExpandStar, AddToPlanned, AddNew, Keep, Reinstall, Take, Solves
<1>12. Serialize => UNCHANGED db /\ pc' = "sortRemoves" /\ Solves
  BY DEF Serialize, Solves
<1>. QED
  BY <1>1, <1>2, <1>3, <1>4, <1>5, <1>6, <1>7, <1>8, <1>9, <1>10, <1>11, <1>12 DEF NextPlan

LEMMA RunInvHolds == Plans => []RunInv
<1>1. InitPlan => RunInv
  BY DEF InitPlan, RunInv, Solves
<1>. QED
  BY <1>1, RunStep, PTL DEF Plans

\* What stays installed keeps its dependencies.
LEMMA StayersFacts ==
    ASSUME PlanInv, RunInv, pc = "planned"
    PROVE  \A p \in Installed \ removes : db[p].deps \subseteq Installed \ removes
<1>1. removes = DOMAIN info \cap Installed
  BY DEF PlanInv, PlaceInv
<1>2. \A p \in Installed : db[p].deps \subseteq Installed
  BY DEF RunInv, Solves, Corrupted
<1>3. ASSUME NEW p \in Installed \ removes, NEW q \in db[p].deps, q \in removes
      PROVE  FALSE
  <2>1. Installed \subseteq Pkg
    BY DEF PlanInv, DbTypeInv, IsDb, Installed
  <2>2. <<q, p>> \in RemoveEdges
    BY <1>1, <1>3, <2>1 DEF RemoveEdges
  <2>3. p \in DOMAIN info
    BY <1>1, <1>3, <2>2 DEF PlanInv, SolveInv
  <2>. QED
    BY <1>1, <1>3, <2>3
<1>. QED
  BY <1>2, <1>3

\* No port asks for all the features of another: vcpkg.json does not allow the feature name "*", a
\* CONTROL file does.
NamesFeatures ==
    \A i \in 1 .. Len(History) : \A k \in Key :
        \A s \in History[i].needs[k] \cup History[i].needsIf[k] : s[2] # Star

LEMMA PlanInvImpliesBuilds == NamesFeatures /\ PlanInv /\ RunInv => PlanBuilds
<1>. SUFFICES ASSUME NamesFeatures, PlanInv, RunInv, pc = "planned"
              PROVE  PlanBuilds
  BY DEF PlanBuilds
<1>1. /\ todo = {} /\ batch = {} /\ removes = DOMAIN info \cap Installed /\ installs = DOMAIN info
      /\ \A p \in DOMAIN info : IsInfo(Tree, p, info[p]) /\ p \in Pkg
  BY DEF PlanInv, PlaceInv, DbTypeInv
<1>2. \A k \in Key : \A s \in Tree.needs[k] \cup Tree.needsIf[k] : s[2] # Star
  BY DEF NamesFeatures, Tree, PlanInv, DbTypeInv
<1>3. ASSUME NEW p \in installs, NEW f \in DOMAIN info[p].edges, NEW x \in info[p].edges[f], NEW s \in Computed(x)
      PROVE  Present(s, installs)
  <2>1. <<p, f>> \in Key
    BY <1>1 DEF IsInfo, Key
  <2>2. x \in Tree.needs[<<p, f>>] \cup Tree.needsIf[<<p, f>>]
    BY <1>1 DEF IsInfo
  <2>3. Met(Tree, db, info, x) /\ x[2] # Star
    BY <1>1, <1>2, <2>1, <2>2 DEF PlanInv, SolveInv, Needed
  <2>4. CASE x[2] # Default
    <3>1. s = x
      BY <2>4 DEF Computed
    <3>. QED
      BY <1>1, <2>3, <2>4, <3>1 DEF Met, Present, Installed
  <2>5. CASE x[2] = Default /\ x[1] \in DOMAIN info
    <3>1. PICK d \in info[x[1]].defaults : s = <<x[1], d>>
      BY <2>5 DEF Computed, HasInfo
    <3>2. Kept(Tree, db, info, {}, x[1])
      BY <1>1, <2>5 DEF PlanInv, SolveInv
    <3>3. d \in DOMAIN info[x[1]].edges
      BY <3>1, <3>2 DEF Kept, Planned
    <3>. QED
      BY <1>1, <2>5, <3>1, <3>3 DEF Present
  <2>6. CASE x[2] = Default /\ x[1] \notin DOMAIN info
    <3>1. PICK d \in db[x[1]].defaults : s = <<x[1], d>>
      BY <2>6 DEF Computed, HasInfo
    <3>2. x[1] \in Installed
      BY <2>3, <2>6 DEF Met, Installed
    <3>3. d \in db[x[1]].feats
      BY <3>1, <3>2 DEF PlanInv, DbTypeInv, IsDb, Installed
    <3>. QED
      BY <1>1, <2>6, <3>1, <3>2, <3>3 DEF Present
  <2>. QED
    BY <2>4, <2>5, <2>6
<1>4. \A p \in installs : \A s \in FeatureDependencies(p) : Present(s, installs)
  BY <1>3 DEF FeatureDependencies
<1>5. \A p \in installs : \A f \in DOMAIN info[p].edges :
          <<p, f>> \in Tree.unsupported => warn /\ <<p, f>> \in unsupported
  BY <1>1 DEF PlanInv, SolveInv, Warned
<1>. QED
  BY <1>4, <1>5, StayersFacts DEF PlanBuilds

\* Where ports name the features they need: every feature in a plan is built against features that are
\* in the plan or stay installed, what stays has its dependencies, and a feature that is not supported
\* is warned of.
THEOREM PlanBuildsHolds == NamesFeatures => (Plans => []PlanBuilds)
<1>1. NamesFeatures => [](NamesFeatures)
  BY DEF NamesFeatures
<1>2. NamesFeatures /\ PlanInv /\ RunInv => PlanBuilds
  BY PlanInvImpliesBuilds
<1>. QED
  BY <1>1, <1>2, PlanInvHolds, RunInvHolds, PTL

(***************************************************************************)
(* The plan is the least one.                                              *)
(***************************************************************************)
\* A set of specs that holds what was asked for and all that this leads to.
Grounded(S) == goal.specs \subseteq S /\ LeadsTo(S) \subseteq S

\* Nothing is planned that is not in every such set.
Least(S) ==
    /\ todo \cup batch \subseteq S
    /\ DOMAIN info \subseteq Anew(S)
    /\ \A p \in DOMAIN info : \A f \in DOMAIN info[p].edges : <<p, f>> \in S
    /\ \A p \in DOMAIN info : info[p].requested => <<p, Default>> \in S
    /\ \A p \in asked : <<p, Default>> \in S

LeastInv ==
    /\ goal.upgrade \subseteq Installed
    /\ Solves => \A S \in SUBSET FeatureSpec : Grounded(S) => Least(S)

\* What a set of specs leads to.
LEMMA AgainFacts ==
    ASSUME PlanInv, goal.upgrade \subseteq Installed, NEW S \in SUBSET FeatureSpec
    PROVE  /\ Again(S) \subseteq Installed /\ goal.upgrade \subseteq Again(S) /\ Closed(RemoveEdges, Again(S))
           /\ \A x \in S : x[1] \in Installed /\ x[2] \notin db[x[1]].feats \cup {Core, Default, Star} => x[1] \in Again(S)
           /\ \A T \in SUBSET Pkg :
                 /\ goal.upgrade \subseteq T /\ Closed(RemoveEdges, T)
                 /\ \A x \in S : x[1] \in Installed /\ x[2] \notin db[x[1]].feats \cup {Core, Default, Star} => x[1] \in T
                 => Again(S) \subseteq T
<1>. DEFINE first == goal.upgrade \cup
               {p \in Installed : \E s \in S : s[1] = p /\ s[2] \notin db[p].feats \cup {Core, Default, Star}}
<1>1. RemoveEdges \in SUBSET (Pkg \X Pkg) /\ first \in SUBSET Pkg /\ Again(S) = Reached(RemoveEdges, first)
      /\ Installed \in SUBSET Pkg /\ first \subseteq Installed
  BY RemoveEdgesFacts DEF Again, PlanInv, DbTypeInv, IsDb, Installed
<1>2. \A x \in S : x[1] \in Installed /\ x[2] \notin db[x[1]].feats \cup {Core, Default, Star} => x[1] \in first
  OBVIOUS
<1>3. Closed(RemoveEdges, Installed)
  BY DEF Closed, RemoveEdges
<1>4. goal.upgrade \subseteq first
  OBVIOUS
<1>5. ASSUME NEW T \in SUBSET Pkg, goal.upgrade \subseteq T, Closed(RemoveEdges, T),
             \A x \in S : x[1] \in Installed /\ x[2] \notin db[x[1]].feats \cup {Core, Default, Star} => x[1] \in T
      PROVE  first \subseteq T
  BY <1>5
<1>. HIDE DEF first
<1>6. /\ first \subseteq Again(S) /\ Closed(RemoveEdges, Again(S))
      /\ \A T \in SUBSET Pkg : first \subseteq T /\ Closed(RemoveEdges, T) => Again(S) \subseteq T
  BY <1>1, ReachedFacts
<1>. QED
  BY <1>1, <1>2, <1>3, <1>4, <1>5, <1>6

LEMMA AnewFacts ==
    ASSUME PlanInv, goal.upgrade \subseteq Installed, NEW S \in SUBSET FeatureSpec
    PROVE  /\ Anew(S) \subseteq Pkg /\ Anew(S) \cap Installed = Again(S) /\ Again(S) \subseteq Anew(S)
           /\ \A x \in S : x[1] \notin Installed => x[1] \in Anew(S)
           /\ \A T \in SUBSET Pkg : Again(S) \subseteq T /\ (\A x \in S : x[1] \notin Installed => x[1] \in T) => Anew(S) \subseteq T
<1>1. Again(S) \subseteq Installed /\ Installed \subseteq Pkg
  BY AgainFacts DEF PlanInv, DbTypeInv, IsDb, Installed
<1>2. \A x \in S : x[1] \in Pkg
  BY DEF FeatureSpec
<1>. QED
  BY <1>1, <1>2 DEF Anew

LEMMA GroundedFacts ==
    ASSUME PlanInv, NEW S \in SUBSET FeatureSpec, LeadsTo(S) \subseteq S, NEW p \in Pkg
    PROVE  /\ p \in Again(S) => \A f \in {Core} \cup (db[p].feats \cap Tree.feats[p]) : <<p, f>> \in S
           /\ p \in Anew(S) \ user => <<p, Default>> \in S
           /\ p \in Anew(S) /\ <<p, Default>> \in S => \A d \in Tree.defaults[p] : <<p, d>> \in S
           /\ <<p, Star>> \in S => \A f \in Tree.feats[p] : <<p, f>> \in S
           /\ \A f \in Feat \cup {Core} : p \in Anew(S) /\ <<p, f>> \in S =>
                Tree.needs[<<p, f>>] \cup Tree.needsIf[<<p, f>>] \subseteq S
<1>1. Tree.feats[p] \subseteq Feat /\ Tree.defaults[p] \subseteq Feat
  BY TreeFacts DEF PlanInv, DbTypeInv
<1>. DEFINE again == UNION {{<<q, f>> : f \in {Core} \cup (db[q].feats \cap Tree.feats[q])} : q \in Again(S)}
            byDefault == {<<q, Default>> : q \in Anew(S) \ user}
            defaults == {s \in Key : <<s[1], Default>> \in S /\ s[1] \in Anew(S) /\ s[2] \in Tree.defaults[s[1]]}
            stars == {s \in Key : <<s[1], Star>> \in S /\ s[2] \in Tree.feats[s[1]]}
            needs == UNION {Tree.needs[s] \cup Tree.needsIf[s] : s \in {t \in S \cap Key : t[1] \in Anew(S)}}
<1>2. LeadsTo(S) = S \cup again \cup byDefault \cup defaults \cup stars \cup needs
  BY DEF LeadsTo
<1>. HIDE DEF again, byDefault, defaults, stars, needs
<1>3. again \subseteq S /\ byDefault \subseteq S /\ defaults \subseteq S /\ stars \subseteq S /\ needs \subseteq S
  BY <1>2
<1>4. p \in Again(S) => \A f \in {Core} \cup (db[p].feats \cap Tree.feats[p]) : <<p, f>> \in again
  BY DEF again
<1>5. p \in Anew(S) \ user => <<p, Default>> \in byDefault
  BY DEF byDefault
<1>6. p \in Anew(S) /\ <<p, Default>> \in S => \A d \in Tree.defaults[p] : <<p, d>> \in defaults
  BY <1>1 DEF defaults, Key
<1>7. <<p, Star>> \in S => \A f \in Tree.feats[p] : <<p, f>> \in stars
  BY <1>1 DEF stars, Key
<1>8. ASSUME NEW f \in Feat \cup {Core}, p \in Anew(S), <<p, f>> \in S
      PROVE  Tree.needs[<<p, f>>] \cup Tree.needsIf[<<p, f>>] \subseteq needs
  <2>1. <<p, f>> \in {t \in S \cap Key : t[1] \in Anew(S)}
    BY <1>8 DEF Key
  <2>. QED
    BY <2>1 DEF needs
<1>. QED
  BY <1>3, <1>4, <1>5, <1>6, <1>7, <1>8

\* What add_feature hands on is what the feature needs, or the default features.
LEMMA HandedOn ==
    ASSUME NEW p, NEW i, NEW f
    PROVE  LET out == AddFeature(i, p, f)[2]
           IN  IF f = Default THEN out \subseteq {<<p, d>> : d \in Tree.defaults[p]}
               ELSE out \subseteq Tree.needs[<<p, f>>] \cup Tree.needsIf[<<p, f>>]
<1>. DEFINE k == <<p, f>>
            deps == Tree.needs[k] \cup (IF p \in vars THEN Tree.needsIf[k] ELSE {})
            defaults == IF p \in vars \/ p \notin Tree.qualified THEN Tree.defaults[p] ELSE {}
            old == IF i.reduced /\ p \in Installed THEN db[p].defaults ELSE {}
<1>1. CASE f = Default
  <2>1. AddFeature(i, p, f)[2] \in {{}, {<<p, d>> : d \in defaults \ old}}
    BY <1>1 DEF AddFeature
  <2>. QED
    BY <1>1, <2>1
<1>2. CASE f # Default
  <2>1. AddFeature(i, p, f)[2] \in {{}, deps, {s \in deps : s[1] # p}}
    BY <1>2 DEF AddFeature
  <2>. QED
    BY <1>2, <2>1
<1>. QED
  BY <1>1, <1>2

\* What the question is about stays, while the plan is made.
LEMMA QuestionStays ==
    ASSUME UNCHANGED <<at, db, user, goal>>
    PROVE  /\ \A S : Again(S)' = Again(S) /\ Anew(S)' = Anew(S) /\ (Grounded(S)' <=> Grounded(S))
           /\ Installed' = Installed /\ RemoveEdges' = RemoveEdges /\ Tree' = Tree
<1>1. Installed' = Installed /\ RemoveEdges' = RemoveEdges /\ Tree' = Tree
  BY DEF Installed, RemoveEdges, Tree
<1>2. \A S : Again(S)' = Again(S)
  BY <1>1 DEF Again
<1>3. \A S : Anew(S)' = Anew(S)
  BY <1>1, <1>2 DEF Anew
<1>4. \A S : LeadsTo(S)' = LeadsTo(S)
  <2>1. ASSUME NEW S
        PROVE  LeadsTo(S)' = LeadsTo(S)
    <3>1. Again(S)' = Again(S) /\ Anew(S)' = Anew(S) /\ user' = user /\ db' = db
      BY <1>2, <1>3
    <3>. QED
      BY <1>1, <3>1 DEF LeadsTo
  <2>. QED
    BY <2>1
<1>5. \A S : Grounded(S)' <=> Grounded(S)
  BY <1>4 DEF Grounded
<1>. QED
  BY <1>1, <1>2, <1>3, <1>5

LEMMA LeastStays ==
    ASSUME LeastInv, UNCHANGED <<at, db, user, goal, info, asked>>, (todo \cup batch)' \subseteq todo \cup batch, Solves' => Solves
    PROVE  LeastInv'
<1>1. /\ \A S : Again(S)' = Again(S) /\ Anew(S)' = Anew(S) /\ (Grounded(S)' <=> Grounded(S))
      /\ Installed' = Installed
  BY QuestionStays
<1>2. ASSUME NEW S \in SUBSET FeatureSpec, Solves, Grounded(S)
      PROVE  Least(S)'
  <2>1. Least(S)
    BY <1>2 DEF LeastInv
  <2>. QED
    BY <1>1, <2>1 DEF Least
<1>. QED
  BY <1>1, <1>2 DEF LeastInv

\* A step that takes s.
LEMMA LeastTaking ==
    ASSUME PlanInv, LeastInv, NEW s \in todo, Take(s),
           \A S \in SUBSET FeatureSpec : Grounded(S) /\ s \in S /\ Least(S) =>
                /\ todo' \subseteq S
                /\ DOMAIN info' \subseteq Anew(S)
                /\ \A p \in DOMAIN info' : \A f \in DOMAIN info'[p].edges : <<p, f>> \in S
                /\ \A p \in DOMAIN info' : info'[p].requested => <<p, Default>> \in S
                /\ \A p \in asked' : <<p, Default>> \in S
    PROVE  LeastInv'
<1>1. /\ UNCHANGED <<at, db, user, goal>> /\ pc = "solve" /\ batch' \subseteq batch \cup {s}
  BY DEF Take
<1>2. /\ \A S : Again(S)' = Again(S) /\ Anew(S)' = Anew(S) /\ (Grounded(S)' <=> Grounded(S))
      /\ Installed' = Installed
  BY <1>1, QuestionStays
<1>3. ASSUME NEW S \in SUBSET FeatureSpec, Grounded(S)
      PROVE  Least(S)'
  <2>1. Least(S) /\ s \in S
    BY <1>1, <1>3 DEF LeastInv, Solves, Least
  <2>2. /\ todo' \subseteq S
        /\ DOMAIN info' \subseteq Anew(S)
        /\ \A p \in DOMAIN info' : \A f \in DOMAIN info'[p].edges : <<p, f>> \in S
        /\ \A p \in DOMAIN info' : info'[p].requested => <<p, Default>> \in S
        /\ \A p \in asked' : <<p, Default>> \in S
    BY <1>3, <2>1
  <2>3. batch' \subseteq S
    BY <1>1, <2>1 DEF Least
  <2>. QED
    BY <1>2, <2>2, <2>3 DEF Least
<1>. QED
  BY <1>1, <1>2, <1>3 DEF LeastInv

LEMMA LeastExpandStar ==
    ASSUME PlanInv, LeastInv, NEW s \in todo, ExpandStar(s)
    PROVE  LeastInv'
<1>1. Take(s) /\ s[2] = Star /\ UNCHANGED <<info, asked>>
      /\ todo' = (todo \ {s}) \cup {<<s[1], f>> : f \in Tree.feats[s[1]]}
  BY DEF ExpandStar
<1>2. s[1] \in Pkg /\ s = <<s[1], Star>>
  BY <1>1, TakeFacts
<1>3. ASSUME NEW S \in SUBSET FeatureSpec, Grounded(S), s \in S, Least(S)
      PROVE  todo' \subseteq S
  <2>1. <<s[1], Star>> \in S /\ LeadsTo(S) \subseteq S
    BY <1>2, <1>3 DEF Grounded
  <2>2. \A f \in Tree.feats[s[1]] : <<s[1], f>> \in S
    BY <1>2, <2>1, GroundedFacts
  <2>. QED
    BY <1>1, <1>3, <2>2 DEF Least
<1>. QED
  BY <1>1, <1>3, LeastTaking DEF Least

LEMMA LeastKeep ==
    ASSUME PlanInv, LeastInv, NEW s \in todo, Keep(s)
    PROVE  LeastInv'
<1>1. /\ Take(s) /\ UNCHANGED info /\ todo' = todo \ {s}
      /\ asked' = IF s[2] = Default THEN asked \cup {s[1]} ELSE asked
  BY DEF Keep
<1>2. s = <<s[1], s[2]>>
  BY <1>1, TakeFacts
<1>. QED
  BY <1>1, <1>2, LeastTaking DEF Least

\* A spec that has been looked at: it is met, a request of default features is noted, and all features
\* are met or to come.
Handled(i, requests, ahead, x) ==
    /\ Met(Tree, db, i, x)
    /\ x[2] = Default => IF x[1] \in DOMAIN i THEN i[x[1]].requested ELSE x[1] \in requests
    /\ x[2] = Star => \A f \in Tree.feats[x[1]] : <<x[1], f>> \in ahead \/ Met(Tree, db, i, <<x[1], f>>)

Answered(i, requests, ahead, x) == x \in ahead \/ Handled(i, requests, ahead, x)

Done(i, requests, ahead, p) ==
    /\ \A f \in DOMAIN i[p].edges :
          /\ i[p].edges[f] = Tree.needs[<<p, f>>] \cup Tree.needsIf[<<p, f>>]
          /\ \A x \in i[p].edges[f] : Answered(i, requests, ahead, x)
    /\ p \notin user => <<p, Default>> \in ahead \/ i[p].requested
    /\ i[p].requested => \A d \in Tree.defaults[p] : Planned(i, ahead, p, d)

\* All that was asked for and that the plan needs is in it, or will be.
DoneInv ==
    Solves =>
        /\ goal.specs \in Requests \cup {{}} /\ goal.upgrade \subseteq DOMAIN info
        /\ \A x \in goal.specs : Answered(info, asked, todo \cup batch, x)
        /\ \A p \in DOMAIN info : Done(info, asked, todo \cup batch, p)

\* What a step that takes s does to it.
DoneGrows(s, i, requests, ahead) ==
    /\ asked \subseteq requests
    /\ \A p \in DOMAIN info : info[p].requested => i[p].requested
    /\ \A p \in DOMAIN i \ DOMAIN info : p \in asked \/ p \notin user => <<p, Default>> \in ahead
    /\ \A p \in DOMAIN i : i[p].requested =>
          \/ p \in DOMAIN info /\ info[p].requested
          \/ /\ <<p, Default>> = s
             /\ \A d \in Tree.defaults[p] : <<p, d>> \in ahead \/ (p \in Installed /\ d \in db[p].feats \cap Tree.feats[p])
    /\ \A p \in DOMAIN i : \A f \in DOMAIN i[p].edges :
          \/ p \in DOMAIN info /\ f \in DOMAIN info[p].edges
          \/ i[p].edges[f] = Tree.needs[<<p, f>>] \cup Tree.needsIf[<<p, f>>]

\* add_feature notes a request of the default features when it knows them, and the edges of a feature
\* when it knows them all.
LEMMA AddedDone ==
    ASSUME DbTypeInv, NEW p \in Pkg, NEW i, IsInfo(Tree, p, i), NEW f \in Tree.feats[p] \cup {Core, Default}
    PROVE  LET j == AddFeature(i, p, f)[1]
               out == AddFeature(i, p, f)[2]
           IN  /\ i.requested => j.requested
               /\ j.requested => i.requested \/ f = Default
               /\ f = Default => j.requested \/ NeedsVars(<<p, f>>)
               /\ j.requested => \/ i.requested
                                 \/ \A d \in Tree.defaults[p] :
                                       <<p, d>> \in out \/ (p \in Installed /\ d \in db[p].defaults \cap Tree.feats[p])
               /\ \A g \in DOMAIN j.edges \ DOMAIN i.edges :
                     j.edges[g] = Tree.needs[<<p, g>>] \cup Tree.needsIf[<<p, g>>]
<1>. SUFFICES ASSUME NEW j, NEW out, j = AddFeature(i, p, f)[1], out = AddFeature(i, p, f)[2]
              PROVE  /\ i.requested => j.requested
                     /\ j.requested => i.requested \/ f = Default
                     /\ f = Default => j.requested \/ NeedsVars(<<p, f>>)
                     /\ j.requested => \/ i.requested
                                       \/ \A d \in Tree.defaults[p] :
                                             <<p, d>> \in out \/ (p \in Installed /\ d \in db[p].defaults \cap Tree.feats[p])
                     /\ \A g \in DOMAIN j.edges \ DOMAIN i.edges :
                           j.edges[g] = Tree.needs[<<p, g>>] \cup Tree.needsIf[<<p, g>>]
  OBVIOUS
<1>. DEFINE k == <<p, f>>
            deps == Tree.needs[k] \cup (IF p \in vars THEN Tree.needsIf[k] ELSE {})
            defaults == IF p \in vars \/ p \notin Tree.qualified THEN Tree.defaults[p] ELSE {}
            old == IF i.reduced /\ p \in Installed THEN db[p].defaults ELSE {}
            known == f # Default /\ (p \in vars \/ k \notin Tree.conditional)
<1>1. Tree.feats[p] \subseteq Feat /\ Tree.defaults[p] \subseteq Tree.feats[p] /\ Core # Default /\ Default \notin Feat
  BY TreeFacts, NamesAssumption DEF DbTypeInv
<1>2. CASE (f = Default /\ i.requested) \/ (f # Default /\ f \in DOMAIN i.edges)
  <2>1. AddFeature(i, p, f) = <<i, {}>>
    BY <1>2 DEF AddFeature
  <2>. QED
    BY <1>2, <2>1
<1>3. CASE f = Default /\ ~ i.requested
  <2>. DEFINE new == [i EXCEPT !.requested = (p \in vars \/ p \notin Tree.qualified),
                               !.defaults = defaults, !.reduced = FALSE]
  <2>1. AddFeature(i, p, f) = <<new, {<<p, d>> : d \in defaults \ old}>>
    BY <1>3 DEF AddFeature
  <2>2. new.edges = i.edges /\ (new.requested <=> (p \in vars \/ p \notin Tree.qualified))
    BY DEF IsInfo
  <2>3. j = new /\ out = {<<p, d>> : d \in defaults \ old}
    BY <2>1
  <2>. HIDE DEF new
  <2>4. j.requested => \A d \in Tree.defaults[p] : <<p, d>> \in out \/ (p \in Installed /\ d \in db[p].defaults \cap Tree.feats[p])
    BY <1>1, <2>2, <2>3
  <2>5. j.requested \/ NeedsVars(<<p, f>>)
    BY <1>3, <2>2, <2>3 DEF NeedsVars
  <2>. QED
    BY <1>3, <2>2, <2>3, <2>4, <2>5
<1>4. CASE known /\ f \notin DOMAIN i.edges
  <2>. DEFINE new == [i EXCEPT !.edges = Extended(@, f, deps)]
  <2>1. AddFeature(i, p, f) = <<new, deps>>
    BY <1>4 DEF AddFeature
  <2>2. k \in Key
    BY <1>1, <1>4 DEF Key
  <2>3. deps = Tree.needs[k] \cup Tree.needsIf[k]
    <3>1. Tree.needsIf[k] # {} => k \in Tree.conditional
      BY <2>2, HistoryAssumption DEF Tree, DbTypeInv
    <3>. QED
      BY <1>4, <3>1
  <2>4. j = new /\ f # Default
    BY <1>4, <2>1
  <2>. HIDE DEF deps
  <2>5. new.edges = Extended(i.edges, f, deps) /\ new.requested = i.requested
    BY DEF IsInfo
  <2>. HIDE DEF new
  <2>6. \A g \in DOMAIN j.edges \ DOMAIN i.edges : g = f /\ j.edges[g] = deps
    BY <2>4, <2>5 DEF Extended
  <2>. QED
    BY <2>3, <2>4, <2>5, <2>6
<1>5. CASE f # Default /\ ~ known /\ f \notin DOMAIN i.edges
  <2>1. AddFeature(i, p, f) = <<i, {s \in deps : s[1] # p}>>
    BY <1>5 DEF AddFeature
  <2>2. j = i
    BY <2>1
  <2>. QED
    BY <1>5, <2>2
<1>. QED
  BY <1>2, <1>3, <1>4, <1>5

LEMMA DoneGrowing ==
    ASSUME PlanInv, NEW s \in todo, NEW T, NEW i, NEW j, NEW out, Adding(s, T, i, j, out)
    PROVE  DoneGrows(s, info', asked', todo') /\ (s[2] = Default => s \in batch' \/ info'[s[1]].requested)
<1>. DEFINE p == s[1]
            again == UNION {ReinstallRequirements(q, asked) : q \in T \ DOMAIN info}
<1>1. /\ T \in SUBSET Pkg /\ p \in T \cup DOMAIN info /\ i = IF p \in DOMAIN info THEN info[p] ELSE NewInfo(p, asked)
  BY AddingFacts
<1>2. /\ Take(s) /\ s[2] # Star /\ asked' = asked
      /\ j = AddFeature(i, p, s[2])[1] /\ out = AddFeature(i, p, s[2])[2]
      /\ DOMAIN info' = DOMAIN info \cup T /\ info'[p] = j
      /\ \A q \in DOMAIN info : q # p => info'[q] = info[q]
      /\ \A q \in T \ DOMAIN info : q # p => info'[q] = NewInfo(q, asked)
      /\ todo' = (todo \ {s}) \cup out \cup again
  BY DEF Adding
<1>3. /\ p \in Pkg /\ s = <<p, s[2]>> /\ s[2] \in Tree.feats[p] \cup {Core, Default}
      /\ NeedsVars(s) => s \in batch'
  BY <1>2, TakeFacts
<1>4. DbTypeInv /\ \A q \in DOMAIN info : IsInfo(Tree, q, info[q])
  BY DEF PlanInv, DbTypeInv
<1>5. IsInfo(Tree, p, i)
  BY <1>1, <1>4, NewInfoFacts
<1>6. /\ i.requested => j.requested
      /\ j.requested => i.requested \/ s[2] = Default
      /\ s[2] = Default => j.requested \/ NeedsVars(s)
      /\ j.requested => \/ i.requested
                        \/ \A d \in Tree.defaults[p] :
                              <<p, d>> \in out \/ (p \in Installed /\ d \in db[p].defaults \cap Tree.feats[p])
      /\ \A g \in DOMAIN j.edges \ DOMAIN i.edges :
            j.edges[g] = Tree.needs[<<p, g>>] \cup Tree.needsIf[<<p, g>>]
  <2>1. p \in Pkg /\ DbTypeInv /\ IsInfo(Tree, p, i)
    BY <1>3, <1>4, <1>5
  <2>. HIDE DEF p
  <2>2. ASSUME NEW f \in Tree.feats[p] \cup {Core, Default},
               j = AddFeature(i, p, f)[1], out = AddFeature(i, p, f)[2]
        PROVE  /\ i.requested => j.requested
               /\ j.requested => i.requested \/ f = Default
               /\ f = Default => j.requested \/ NeedsVars(<<p, f>>)
               /\ j.requested => \/ i.requested
                                 \/ \A d \in Tree.defaults[p] :
                                       <<p, d>> \in out \/ (p \in Installed /\ d \in db[p].defaults \cap Tree.feats[p])
               /\ \A g \in DOMAIN j.edges \ DOMAIN i.edges :
                     j.edges[g] = Tree.needs[<<p, g>>] \cup Tree.needsIf[<<p, g>>]
    BY <2>1, <2>2, AddedDone
  <2>3. s[2] \in Tree.feats[p] \cup {Core, Default} /\ <<p, s[2]>> = s
    BY <1>3
  <2>4. NeedsVars(<<p, s[2]>>) <=> NeedsVars(s)
    BY <2>3
  <2>. QED
    BY ONLY <1>2, <2>2, <2>3, <2>4
<1>7. i.edges = IF p \in DOMAIN info THEN info[p].edges ELSE NewInfo(p, asked).edges
  BY <1>1
<1>8. \A q : DOMAIN NewInfo(q, asked).edges = {} /\ ~ NewInfo(q, asked).requested
  BY NewInfoFacts
<1>9. \A q \in T \ DOMAIN info : q \in asked \/ q \notin user => <<q, Default>> \in again
  BY DEF ReinstallRequirements
<1>. HIDE DEF again
<1>10. \A q \in DOMAIN info : info[q].requested => info'[q].requested
  BY <1>1, <1>2, <1>6
<1>11. \A q \in DOMAIN info' \ DOMAIN info : q \in asked \/ q \notin user => <<q, Default>> \in todo'
  BY <1>2, <1>9
<1>12. \A d \in db[p].defaults : p \in Installed => d \in db[p].feats
  BY DEF PlanInv, DbTypeInv, IsDb, Installed
<1>13. \A q \in DOMAIN info' : info'[q].requested =>
          \/ q \in DOMAIN info /\ info[q].requested
          \/ /\ <<q, Default>> = s
             /\ \A d \in Tree.defaults[q] : <<q, d>> \in todo' \/ (q \in Installed /\ d \in db[q].feats \cap Tree.feats[q])
  <2>1. ASSUME info'[p].requested
        PROVE  \/ p \in DOMAIN info /\ info[p].requested
               \/ /\ <<p, Default>> = s
                  /\ \A d \in Tree.defaults[p] : <<p, d>> \in todo' \/ (p \in Installed /\ d \in db[p].feats \cap Tree.feats[p])
    <3>1. CASE i.requested
      BY <1>1, <1>8, <3>1
    <3>2. CASE ~ i.requested
      BY <1>2, <1>3, <1>6, <1>12, <2>1, <3>2
    <3>. QED
      BY <3>1, <3>2
  <2>. QED
    BY <1>2, <1>8, <2>1
<1>14. \A q \in DOMAIN info' : \A f \in DOMAIN info'[q].edges :
          \/ q \in DOMAIN info /\ f \in DOMAIN info[q].edges
          \/ info'[q].edges[f] = Tree.needs[<<q, f>>] \cup Tree.needsIf[<<q, f>>]
  BY <1>2, <1>6, <1>7, <1>8
<1>15. s[2] = Default => s \in batch' \/ info'[p].requested
  BY <1>2, <1>3, <1>6
<1>. QED
  BY <1>2, <1>10, <1>11, <1>13, <1>14, <1>15 DEF DoneGrows

LEMMA LeastAdding ==
    ASSUME PlanInv, LeastInv, NEW s \in todo, NEW T, NEW i, NEW j, NEW out, Adding(s, T, i, j, out)
    PROVE  LeastInv'
<1>. DEFINE p == s[1]
            again == UNION {ReinstallRequirements(q, asked) : q \in T \ DOMAIN info}
<1>1. /\ Take(s) /\ s[2] # Star /\ asked' = asked
      /\ out = AddFeature(i, p, s[2])[2]
      /\ DOMAIN info' = DOMAIN info \cup T
      /\ todo' = (todo \ {s}) \cup out \cup again
  BY DEF Adding
<1>2. p \in Pkg /\ s = <<p, s[2]>> /\ s[2] \in Tree.feats[p] \cup {Core, Default} /\ Tree.feats[p] \subseteq Feat
  BY <1>1, TakeFacts, TreeFacts DEF PlanInv, DbTypeInv
<1>3. InfoGrows(s, info', todo') /\ T \in SUBSET Pkg /\ p \in T \cup DOMAIN info /\ asked \subseteq Installed
  BY AddingGrows, AddingFacts DEF PlanInv, DbTypeInv
<1>4. ASSUME NEW S \in SUBSET FeatureSpec, Grounded(S), s \in S, Least(S)
      PROVE  /\ todo' \subseteq S
             /\ DOMAIN info' \subseteq Anew(S)
             /\ \A q \in DOMAIN info' : \A f \in DOMAIN info'[q].edges : <<q, f>> \in S
             /\ \A q \in DOMAIN info' : info'[q].requested => <<q, Default>> \in S
             /\ \A q \in asked' : <<q, Default>> \in S
  <2>1. LeadsTo(S) \subseteq S /\ goal.upgrade \subseteq Installed
    BY <1>4 DEF Grounded, LeastInv
  <2>2. T \subseteq Anew(S)
    <3>1. CASE T = {}
      BY <3>1
    <3>2. CASE T = {p} /\ p \notin Installed
      BY <1>4, <2>1, <3>2, AnewFacts
    <3>3. CASE T = Reached(RemoveEdges, {p}) /\ MustReinstall(s) /\ s[2] # Default
      <4>1. p \in Installed /\ s[2] \notin db[p].feats \cup {Core, Default, Star}
        BY <1>1, <3>3 DEF MustReinstall
      <4>2. p \in Again(S) /\ Closed(RemoveEdges, Again(S)) /\ Again(S) \in SUBSET Pkg /\ Again(S) \subseteq Anew(S)
        BY <1>4, <2>1, <4>1, AgainFacts, AnewFacts
      <4>3. RemoveEdges \in SUBSET (Pkg \X Pkg) /\ {p} \in SUBSET Pkg /\ {p} \subseteq Again(S)
        BY <1>2, <4>2, RemoveEdgesFacts
      <4>4. Reached(RemoveEdges, {p}) \subseteq Again(S)
        BY <4>2, <4>3, ReachedFacts
      <4>. QED
        BY <3>3, <4>2, <4>4
    <3>. QED
      BY <3>1, <3>2, <3>3 DEF Adding
  <2>3. DOMAIN info' \subseteq Anew(S)
    BY <1>1, <1>4, <2>2 DEF Least
  <2>4. ASSUME NEW q \in T
        PROVE  ReinstallRequirements(q, asked) \subseteq S
    <3>1. q \in Pkg /\ q \in Anew(S) /\ (q \in Installed => q \in Again(S))
      BY <1>3, <2>1, <2>2, AnewFacts
    <3>2. q \in Installed => \A f \in {Core} \cup (db[q].feats \cap Tree.feats[q]) : <<q, f>> \in S
      BY <2>1, <3>1, GroundedFacts
    <3>3. q \in asked \/ q \notin user => <<q, Default>> \in S
      BY <1>4, <2>1, <3>1, GroundedFacts DEF Least
    <3>. QED
      BY <3>2, <3>3 DEF ReinstallRequirements
  <2>5. out \subseteq S
    <3>1. p \in Anew(S)
      BY <1>3, <1>4, <2>2 DEF Least
    <3>2. CASE s[2] = Default
      <4>1. out \subseteq {<<p, d>> : d \in Tree.defaults[p]}
        BY <1>1, <3>2, HandedOn
      <4>2. <<p, Default>> \in S
        BY <1>2, <1>4, <3>2
      <4>3. \A d \in Tree.defaults[p] : <<p, d>> \in S
        BY <1>2, <2>1, <3>1, <4>2, GroundedFacts
      <4>. QED
        BY <4>1, <4>3
    <3>3. CASE s[2] # Default
      <4>1. out \subseteq Tree.needs[<<p, s[2]>>] \cup Tree.needsIf[<<p, s[2]>>]
        BY <1>1, <3>3, HandedOn
      <4>2. s[2] \in Feat \cup {Core} /\ <<p, s[2]>> \in S
        BY <1>2, <1>4, <3>3
      <4>3. Tree.needs[<<p, s[2]>>] \cup Tree.needsIf[<<p, s[2]>>] \subseteq S
        BY <1>2, <2>1, <3>1, <4>2, GroundedFacts
      <4>. QED
        BY <4>1, <4>3
    <3>. QED
      BY <3>2, <3>3
  <2>6. todo' \subseteq S
    BY <1>1, <1>4, <2>4, <2>5 DEF Least
  <2>7. \A q \in DOMAIN info' : \A f \in DOMAIN info'[q].edges : <<q, f>> \in S
    BY <1>3, <1>4 DEF InfoGrows, Least
  <2>8. \A q \in asked' : <<q, Default>> \in S
    BY <1>1, <1>4 DEF Least
  <2>9. \A q \in DOMAIN info' : info'[q].requested => <<q, Default>> \in S
    <3>1. \A q \in DOMAIN info' : info'[q].requested =>
              \/ q \in DOMAIN info /\ info[q].requested
              \/ <<q, Default>> = s
      BY DoneGrowing DEF DoneGrows
    <3>. QED
      BY <1>4, <3>1 DEF Least
  <2>. QED
    BY <2>3, <2>6, <2>7, <2>8, <2>9
<1>. QED
  BY <1>1, <1>4, LeastTaking

LEMMA LeastInstall ==
    ASSUME PlanInv, LeastInv, NEW specs \in Requests, NEW action, Install(specs, action)
    PROVE  LeastInv'
<1>1. /\ pc = "idle" /\ todo' = specs /\ goal' = [specs |-> specs, upgrade |-> {}]
      /\ UNCHANGED <<batch, info, asked>>
  BY DEF Install, Run
<1>2. goal'.specs = specs /\ goal'.upgrade = {}
  BY <1>1
<1>3. DOMAIN info' = {} /\ batch' = {} /\ asked' = {}
  BY <1>1, IdleFacts
<1>4. ASSUME NEW S, Grounded(S)'
      PROVE  Least(S)'
  BY <1>1, <1>2, <1>3, <1>4 DEF Least, Grounded
<1>. QED
  BY <1>2, <1>4 DEF LeastInv

\* What is installed again in S, and what that leads to.
Reinstalls(S) ==
    /\ Again(S) \subseteq Installed /\ goal.upgrade \subseteq Again(S) /\ Closed(RemoveEdges, Again(S))
    /\ Again(S) \subseteq Anew(S)
    /\ LeadsTo(S) \subseteq S => \A p \in Again(S) :
          /\ \A f \in {Core} \cup (db[p].feats \cap Tree.feats[p]) : <<p, f>> \in S
          /\ p \notin user => <<p, Default>> \in S

AllReinstall == goal.upgrade \subseteq Installed => \A S \in SUBSET FeatureSpec : Reinstalls(S)

LEMMA GroundedReinstalls == PlanInv => AllReinstall
<1>. SUFFICES ASSUME PlanInv, goal.upgrade \subseteq Installed, NEW S \in SUBSET FeatureSpec
              PROVE  Reinstalls(S)
  BY DEF AllReinstall
<1>1. /\ Again(S) \subseteq Installed /\ goal.upgrade \subseteq Again(S) /\ Closed(RemoveEdges, Again(S))
      /\ Again(S) \subseteq Anew(S) /\ Installed \subseteq Pkg
  BY AgainFacts, AnewFacts DEF PlanInv, DbTypeInv, IsDb, Installed
<1>2. ASSUME LeadsTo(S) \subseteq S, NEW p \in Again(S)
      PROVE  /\ \A f \in {Core} \cup (db[p].feats \cap Tree.feats[p]) : <<p, f>> \in S
             /\ p \notin user => <<p, Default>> \in S
  <2>1. p \in Pkg /\ p \in Again(S) /\ p \in Anew(S)
    BY <1>1
  <2>. QED
    BY <1>2, <2>1, GroundedFacts
<1>. QED
  BY <1>1, <1>2 DEF Reinstalls

LEMMA LeastUpgrade ==
    ASSUME PlanInv, LeastInv, NEW specs \in SUBSET Pkg, NEW action, Upgrade(specs, action)
    PROVE  LeastInv'
<1>. DEFINE again == Reached(RemoveEdges, specs)
            all == UNION {ReinstallRequirements(p, asked) : p \in again}
<1>1. /\ pc = "idle" /\ specs \subseteq Installed /\ todo' = all /\ goal' = [specs |-> {}, upgrade |-> specs]
      /\ info' = [p \in again |-> NewInfo(p, asked)] /\ UNCHANGED <<at, db, user, batch, asked>>
  BY DEF Upgrade, Run, Outdated
<1>2. goal'.upgrade = specs /\ Installed' = Installed /\ RemoveEdges' = RemoveEdges /\ Tree' = Tree
  BY <1>1 DEF Installed, RemoveEdges, Tree
<1>3. batch' = {} /\ asked' = {} /\ asked = {}
  BY <1>1, IdleFacts
<1>4. RemoveEdges \in SUBSET (Pkg \X Pkg) /\ Installed \subseteq Pkg
  BY RemoveEdgesFacts DEF PlanInv, DbTypeInv, IsDb, Installed
<1>. HIDE DEF again, all
<1>5. DOMAIN info' = again /\ \A p \in again : DOMAIN info'[p].edges = {} /\ ~ info'[p].requested
  BY <1>1, NewInfoFacts
<1>6. PlanInv'
  BY UpgradeInv
<1>7. ASSUME NEW S \in SUBSET FeatureSpec, Grounded(S)'
      PROVE  Least(S)'
  <2>1. /\ Again(S)' \subseteq Installed' /\ goal'.upgrade \subseteq Again(S)' /\ Closed(RemoveEdges', Again(S)')
        /\ (Again(S) \subseteq Anew(S))'
    <3>1. PlanInv' /\ (goal.upgrade \subseteq Installed)'
      BY <1>1, <1>2, <1>6
    <3>2. (PlanInv => AllReinstall)'
      BY GroundedReinstalls, PTL
    <3>. QED
      BY <3>1, <3>2 DEF Closed, Reinstalls, AllReinstall
  <2>2. again \subseteq Again(S)'
    <3>1. Again(S)' \in SUBSET Pkg /\ specs \subseteq Again(S)' /\ Closed(RemoveEdges, Again(S)')
      BY <1>2, <1>4, <2>1 DEF Closed
    <3>. QED
      BY <1>4, <3>1, ReachedFacts DEF again
  <2>3. ASSUME NEW p \in again
        PROVE  ReinstallRequirements(p, asked) \subseteq S
    <3>1. p \in Pkg /\ p \in Again(S)' /\ p \in Anew(S)' /\ p \in Installed
      BY <1>2, <1>4, <2>1, <2>2
    <3>2. /\ \A f \in {Core} \cup (db'[p].feats \cap Tree'.feats[p]) : <<p, f>> \in S
          /\ p \notin user' => <<p, Default>> \in S
      <4>1. (PlanInv => AllReinstall)'
        BY GroundedReinstalls, PTL
      <4>2. Reinstalls(S)'
        BY <1>1, <1>2, <1>6, <4>1 DEF AllReinstall
      <4>. QED
        BY <1>7, <3>1, <4>2 DEF Grounded, Reinstalls
    <3>. QED
      BY <1>1, <1>2, <1>3, <3>1, <3>2 DEF ReinstallRequirements
  <2>4. todo' \subseteq S
    BY <1>1, <2>3 DEF all
  <2>. QED
    BY <1>3, <1>5, <2>1, <2>2, <2>4 DEF Least
<1>. QED
  BY <1>1, <1>2, <1>7 DEF LeastInv

\* What a step is to the plan that is made.
PlanCases ==
    \/ End
    \/ UNCHANGED <<db, goal>> /\ pc' \in {"idle", "sortRemoval", "sortExport"}
    \/ \E specs \in Requests, action \in BOOLEAN : Install(specs, action)
    \/ \E specs \in SUBSET Pkg, action \in BOOLEAN : Upgrade(specs, action)
    \/ \E s \in todo : ExpandStar(s) \/ Keep(s)
    \/ \E s \in todo : AddToPlanned(s) \/ AddNew(s) \/ Reinstall(s)
    \/ UNCHANGED <<at, db, user, goal, info, asked>> /\ (todo \cup batch)' = todo \cup batch /\ (Solves' => Solves)

LEMMA PlanStepCases == ASSUME [NextPlan]_planVars PROVE PlanCases
<1>1. CASE UpdatePorts
  BY <1>1 DEF UpdatePorts, solver, PlanCases
<1>2. ASSUME NEW specs \in SUBSET Pkg, Refuse \/ Remove(specs) \/ Export(specs)
      PROVE  PlanCases
  BY <1>2 DEF Refuse, Remove, Export, Run, solver, PlanCases
<1>3. CASE \E s \in todo : Exit(s)
  BY <1>3 DEF Exit, PlanCases
<1>4. CASE LoadVars
  BY <1>4 DEF LoadVars, Solves, PlanCases
<1>5. CASE Serialize \/ SerializeInstalls \/ Serialized
  BY <1>5 DEF Serialize, SerializeInstalls, Serialized, Solves, solver, PlanCases
<1>6. CASE Sorting
  BY <1>6 DEF Sorting, Solves, solver, PlanCases
<1>7. CASE CycleExit \/ DryRun \/ RemoveSorted \/ ExportSorted
           \/ \E done, restored, others, keepGoing : Execute(done, restored, others, keepGoing)
  BY <1>7 DEF CycleExit, DryRun, RemoveSorted, ExportSorted, Execute, PlanCases
<1>8. CASE UNCHANGED planVars
  BY <1>8 DEF planVars, solver, Solves, PlanCases
<1>9. CASE \E specs \in Requests, action \in BOOLEAN : Install(specs, action)
  BY <1>9 DEF PlanCases
<1>10. CASE \E specs \in SUBSET Pkg, action \in BOOLEAN : Upgrade(specs, action)
  BY <1>10 DEF PlanCases
<1>11. CASE \E s \in todo : ExpandStar(s) \/ Keep(s) \/ AddToPlanned(s) \/ AddNew(s) \/ Reinstall(s)
  BY <1>11 DEF PlanCases
<1>. QED
  BY <1>1, <1>2, <1>3, <1>4, <1>5, <1>6, <1>7, <1>8, <1>9, <1>10, <1>11 DEF NextPlan

LEMMA LeastStep == PlanInv /\ LeastInv /\ [NextPlan]_planVars => LeastInv'
<1>. SUFFICES ASSUME PlanInv, LeastInv, [NextPlan]_planVars
              PROVE  LeastInv'
  OBVIOUS
<1>1. CASE End
  <2>1. goal'.upgrade = {} /\ pc' = "idle"
    BY <1>1 DEF End, NoGoal
  <2>. QED
    BY <2>1 DEF LeastInv, Solves
<1>2. CASE UNCHANGED <<db, goal>> /\ pc' \in {"idle", "sortRemoval", "sortExport"}
  BY <1>2 DEF LeastInv, Solves, Installed
<1>3. ASSUME NEW specs \in Requests, NEW action \in BOOLEAN, Install(specs, action)
      PROVE  LeastInv'
  BY <1>3, LeastInstall
<1>4. ASSUME NEW specs \in SUBSET Pkg, NEW action \in BOOLEAN, Upgrade(specs, action)
      PROVE  LeastInv'
  BY <1>4, LeastUpgrade
<1>5. ASSUME NEW s \in todo, ExpandStar(s) \/ Keep(s)
      PROVE  LeastInv'
  BY <1>5, LeastExpandStar, LeastKeep
<1>6. ASSUME NEW s \in todo, AddToPlanned(s) \/ AddNew(s) \/ Reinstall(s)
      PROVE  LeastInv'
  <2>1. PICK T, i, j, out : Adding(s, T, i, j, out)
    BY <1>6, AddToPlannedAdds, AddNewAdds, ReinstallAdds
  <2>. QED
    BY <2>1, LeastAdding
<1>7. CASE UNCHANGED <<at, db, user, goal, info, asked>> /\ (todo \cup batch)' = todo \cup batch /\ (Solves' => Solves)
  BY <1>7, LeastStays
<1>8. PlanCases
  BY PlanStepCases
<1>. QED
  BY <1>1, <1>2, <1>3, <1>4, <1>5, <1>6, <1>7, <1>8 DEF PlanCases

LEMMA DoneStays ==
    ASSUME DoneInv, UNCHANGED <<at, db, user, goal, info, asked>>, (todo \cup batch)' = todo \cup batch, Solves' => Solves
    PROVE  DoneInv'
<1>1. Tree' = Tree
  BY DEF Tree
<1>2. \A i, r, a, x : Met(Tree, db, i, x)' = Met(Tree, db, i, x)
  BY <1>1 DEF Met
<1>. QED
  BY <1>1, <1>2 DEF DoneInv, Done, Answered, Handled, Planned, Met

LEMMA DoneTaking ==
    ASSUME PlanInv, PlanInv', DoneInv, NEW s \in todo, Take(s), todo' \subseteq FeatureSpec, todo \ {s} \subseteq todo',
           InfoGrows(s, info', todo'), DoneGrows(s, info', asked', todo'),
           s \in batch' \/ Handled(info', asked', todo' \cup batch', s)
    PROVE  DoneInv'
<1>. DEFINE ahead == todo \cup batch
            next == todo' \cup batch'
<1>1. /\ UNCHANGED <<at, db, user, goal>> /\ pc = "solve" /\ Tree' = Tree
  BY TakeFacts DEF Take
<1>2. /\ goal.specs \in Requests \cup {{}} /\ goal.upgrade \subseteq DOMAIN info /\ DOMAIN info \subseteq DOMAIN info'
      /\ DOMAIN info \subseteq Pkg /\ DOMAIN info' \subseteq Pkg
  BY <1>1 DEF DoneInv, Solves, PlanInv, DbTypeInv, InfoGrows
<1>3. ASSUME NEW x \in FeatureSpec, x \in ahead \/ Met(Tree, db, info, x)
      PROVE  x \in next \/ Met(Tree, db, info', x)
  <2>1. s \in batch' \/ Met(Tree, db, info', s)
    BY DEF Handled
  <2>. QED
    BY <1>3, <2>1, MetStays
<1>4. ASSUME NEW x \in FeatureSpec, Answered(info, asked, ahead, x)
      PROVE  Answered(info', asked', next, x)
  <2>1. CASE x \in ahead
    BY <2>1, TakeFacts DEF Answered
  <2>2. CASE Handled(info, asked, ahead, x)
    <3>1. SUFFICES ASSUME x \notin next
                   PROVE  Handled(info', asked', next, x)
      BY DEF Answered
    <3>2. Met(Tree, db, info', x)
      BY <1>3, <2>2, <3>1 DEF Handled
    <3>3. ASSUME x[2] = Default
          PROVE  IF x[1] \in DOMAIN info' THEN info'[x[1]].requested ELSE x[1] \in asked'
      <4>1. CASE x[1] \in DOMAIN info
        BY <1>2, <2>2, <3>3, <4>1 DEF Handled, DoneGrows
      <4>2. CASE x[1] \notin DOMAIN info
        <5>1. x[1] \in asked /\ asked \subseteq asked'
          BY <2>2, <3>3, <4>2 DEF Handled, DoneGrows
        <5>2. x = <<x[1], Default>>
          BY <3>3 DEF FeatureSpec
        <5>3. x[1] \in DOMAIN info' => x \in todo'
          BY <4>2, <5>1, <5>2 DEF DoneGrows
        <5>. QED
          BY <3>1, <5>1, <5>3
      <4>. QED
        BY <4>1, <4>2
    <3>4. ASSUME x[2] = Star, NEW f \in Tree.feats[x[1]]
          PROVE  <<x[1], f>> \in next \/ Met(Tree, db, info', <<x[1], f>>)
      <4>1. x[1] \in Pkg
        BY DEF FeatureSpec
      <4>2. f \in Feat
        BY <4>1, TreeFacts DEF PlanInv, DbTypeInv
      <4>3. <<x[1], f>> \in FeatureSpec
        BY <4>1, <4>2 DEF FeatureSpec
      <4>4. <<x[1], f>> \in ahead \/ Met(Tree, db, info, <<x[1], f>>)
        BY <2>2, <3>4 DEF Handled
      <4>. HIDE DEF ahead, next
      <4>. QED
        BY <1>3, <4>3, <4>4
    <3>. QED
      BY <3>2, <3>3, <3>4 DEF Handled
  <2>. QED
    BY <1>4, <2>1, <2>2 DEF Answered
<1>5. ASSUME NEW p \in DOMAIN info'
      PROVE  Done(info', asked', next, p)
  <2>1. p \in DOMAIN info => Done(info, asked, ahead, p)
    BY <1>1 DEF DoneInv, Solves
  <2>2. p \in Pkg /\ Tree.defaults[p] \subseteq Feat /\ <<p, Default>> \in FeatureSpec
    BY <1>2, TreeFacts DEF PlanInv, DbTypeInv, FeatureSpec
  <2>3. ASSUME NEW f \in DOMAIN info'[p].edges
        PROVE  /\ info'[p].edges[f] = Tree.needs[<<p, f>>] \cup Tree.needsIf[<<p, f>>]
               /\ \A x \in info'[p].edges[f] : Answered(info', asked', next, x)
    <3>1. CASE p \in DOMAIN info /\ f \in DOMAIN info[p].edges
      <4>1. /\ info'[p].edges[f] = info[p].edges[f]
            /\ info[p].edges[f] = Tree.needs[<<p, f>>] \cup Tree.needsIf[<<p, f>>]
            /\ \A x \in info[p].edges[f] : Answered(info, asked, ahead, x)
        BY <2>1, <3>1 DEF Done, InfoGrows
      <4>2. <<p, f>> \in Key
        BY <2>2, <3>1 DEF PlanInv, DbTypeInv, IsInfo, Key
      <4>3. info[p].edges[f] \subseteq FeatureSpec
        BY <4>1, <4>2, TreeFacts DEF PlanInv, DbTypeInv
      <4>. QED
        BY <1>4, <4>1, <4>3
    <3>2. CASE ~ (p \in DOMAIN info /\ f \in DOMAIN info[p].edges)
      BY <3>2 DEF InfoGrows, DoneGrows, Answered
    <3>. QED
      BY <3>1, <3>2
  <2>4. ASSUME p \notin user
        PROVE  <<p, Default>> \in next \/ info'[p].requested
    <3>1. CASE p \notin DOMAIN info
      BY <2>4, <3>1 DEF DoneGrows
    <3>2. CASE p \in DOMAIN info /\ <<p, Default>> \in ahead
      <4>1. Answered(info', asked', next, <<p, Default>>)
        BY <1>4, <2>2, <3>2 DEF Answered
      <4>. QED
        BY <4>1 DEF Answered, Handled
    <3>3. CASE p \in DOMAIN info /\ info[p].requested
      BY <3>3 DEF DoneGrows
    <3>. QED
      BY <2>1, <2>4, <3>1, <3>2, <3>3 DEF Done
  <2>5. ASSUME info'[p].requested, NEW d \in Tree.defaults[p]
        PROVE  Planned(info', next, p, d)
    <3>1. CASE p \in DOMAIN info /\ info[p].requested
      <4>1. Planned(info, ahead, p, d)
        BY <2>1, <3>1, <2>5 DEF Done
      <4>2. CASE d \in DOMAIN info[p].edges
        BY <3>1, <4>2 DEF InfoGrows, Planned
      <4>3. CASE <<p, d>> \in ahead
        <5>1. <<p, d>> \in FeatureSpec /\ d \notin {Default, Star}
          BY <2>2, NamesAssumption DEF FeatureSpec
        <5>2. <<p, d>> \in next \/ Met(Tree, db, info', <<p, d>>)
          BY <1>3, <4>3, <5>1
        <5>. QED
          BY <5>1, <5>2 DEF Planned, Met
      <4>. QED
        BY <4>1, <4>2, <4>3 DEF Planned
    <3>2. CASE ~ (p \in DOMAIN info /\ info[p].requested)
      <4>1. <<p, d>> \in todo' \/ (p \in Installed /\ d \in db[p].feats \cap Tree.feats[p])
        BY <2>5, <3>2 DEF DoneGrows
      <4>2. CASE p \in Installed /\ d \in db[p].feats \cap Tree.feats[p]
        <5>1. Kept(Tree', db', info', next, p)
          BY DEF PlanInv, SolveInv
        <5>. QED
          BY <1>1, <4>2, <5>1 DEF Kept, Installed
      <4>. QED
        BY <4>1, <4>2 DEF Planned
    <3>. QED
      BY <3>1, <3>2
  <2>. QED
    BY <2>3, <2>4, <2>5 DEF Done
<1>6. \A x \in goal.specs : Answered(info', asked', next, x)
  <2>1. goal.specs \subseteq FeatureSpec /\ \A x \in goal.specs : Answered(info, asked, ahead, x)
    BY <1>1, <1>2, RequestsAssumption DEF DoneInv, Solves
  <2>. HIDE DEF ahead, next
  <2>. QED
    BY <1>4, <2>1
<1>7. \A p \in DOMAIN info' : Done(info, asked, todo \cup batch, p)'
  BY <1>1, <1>5 DEF Done, Answered, Handled, Met
<1>8. \A x \in goal.specs : Answered(info, asked, todo \cup batch, x)'
  BY <1>1, <1>6 DEF Answered, Handled, Met
<1>. QED
  BY <1>1, <1>2, <1>7, <1>8 DEF DoneInv

LEMMA DoneAdding ==
    ASSUME PlanInv, DoneInv, NEW s \in todo, NEW T, NEW i, NEW j, NEW out, Adding(s, T, i, j, out)
    PROVE  DoneInv'
<1>1. /\ Take(s) /\ s[2] # Star /\ PlanInv'
      /\ InfoGrows(s, info', todo') /\ (s \in batch' \/ Met(Tree, db, info', s))
      /\ todo' \subseteq FeatureSpec /\ todo \ {s} \subseteq todo'
  BY AddingInv, AddingGrows DEF Adding
<1>2. DoneGrows(s, info', asked', todo') /\ (s[2] = Default => s \in batch' \/ info'[s[1]].requested)
  BY DoneGrowing
<1>3. s[1] \in DOMAIN info'
  BY AddingFacts DEF Adding
<1>4. s \in batch' \/ Handled(info', asked', todo' \cup batch', s)
  BY <1>1, <1>2, <1>3 DEF Handled
<1>. QED
  BY <1>1, <1>2, <1>4, DoneTaking

LEMMA DoneExpandStar ==
    ASSUME PlanInv, DoneInv, NEW s \in todo, ExpandStar(s)
    PROVE  DoneInv'
<1>1. Take(s) /\ s[2] = Star /\ UNCHANGED <<info, asked>>
      /\ todo' = (todo \ {s}) \cup {<<s[1], f>> : f \in Tree.feats[s[1]]}
  BY DEF ExpandStar
<1>2. PlanInv'
  BY ExpandStarInv
<1>3. InfoGrows(s, info', todo')
  BY <1>1, InfoStays
<1>4. DoneGrows(s, info', asked', todo')
  BY <1>1 DEF DoneGrows
<1>5. Handled(info', asked', todo' \cup batch', s)
  BY <1>1, NamesAssumption DEF Handled, Met
<1>6. todo' \subseteq FeatureSpec /\ todo \ {s} \subseteq todo'
  BY <1>1, <1>2 DEF PlanInv, DbTypeInv
<1>. QED
  BY <1>1, <1>2, <1>3, <1>4, <1>5, <1>6, DoneTaking

LEMMA DoneKeep ==
    ASSUME PlanInv, DoneInv, NEW s \in todo, Keep(s)
    PROVE  DoneInv'
<1>1. /\ Take(s) /\ s[2] # Star /\ UNCHANGED info /\ todo' = todo \ {s}
      /\ s[1] \in Installed /\ ~ HasInfo(s[1]) /\ ~ MustReinstall(s)
      /\ asked' = IF s[2] = Default THEN asked \cup {s[1]} ELSE asked
  BY DEF Keep
<1>2. PlanInv'
  BY KeepInv
<1>3. InfoGrows(s, info', todo')
  BY <1>1, InfoStays
<1>4. DoneGrows(s, info', asked', todo')
  BY <1>1 DEF DoneGrows
<1>5. s[2] \in Tree.feats[s[1]] \cup {Core, Default, Star}
  BY <1>1, TakeFacts
<1>6. Met(Tree, db, info', s)
  BY <1>1, <1>5 DEF Met, MustReinstall, HasInfo, Installed
<1>7. Handled(info', asked', todo' \cup batch', s)
  BY <1>1, <1>6 DEF Handled, HasInfo
<1>8. todo' \subseteq FeatureSpec /\ todo \ {s} \subseteq todo'
  BY <1>1, <1>2 DEF PlanInv, DbTypeInv
<1>. QED
  BY <1>1, <1>2, <1>3, <1>4, <1>7, <1>8, DoneTaking

LEMMA DoneInstall ==
    ASSUME PlanInv, NEW specs \in Requests, NEW action, Install(specs, action)
    PROVE  DoneInv'
<1>1. /\ pc = "idle" /\ todo' = specs /\ goal' = [specs |-> specs, upgrade |-> {}] /\ UNCHANGED info
  BY DEF Install, Run
<1>2. goal'.specs = specs /\ goal'.upgrade = {} /\ DOMAIN info' = {}
  BY <1>1, IdleFacts
<1>. QED
  BY <1>1, <1>2 DEF DoneInv, Answered

LEMMA DoneUpgrade ==
    ASSUME PlanInv, NEW specs \in SUBSET Pkg, NEW action, Upgrade(specs, action)
    PROVE  DoneInv'
<1>. DEFINE again == Reached(RemoveEdges, specs)
            all == UNION {ReinstallRequirements(p, asked) : p \in again}
<1>1. /\ todo' = all /\ goal' = [specs |-> {}, upgrade |-> specs] /\ UNCHANGED <<at, user>>
      /\ info' = [p \in again |-> NewInfo(p, asked)]
  BY DEF Upgrade, Run
<1>2. specs \subseteq again
  <2>1. RemoveEdges \in SUBSET (Pkg \X Pkg)
    BY RemoveEdgesFacts
  <2>. QED
    BY <2>1, ReachedFacts
<1>3. \A p \in again : p \notin user => <<p, Default>> \in all
  BY DEF ReinstallRequirements
<1>. HIDE DEF again, all
<1>4. DOMAIN info' = again /\ \A p \in again : DOMAIN info'[p].edges = {} /\ ~ info'[p].requested
  BY <1>1, NewInfoFacts
<1>5. goal'.specs = {} /\ goal'.upgrade = specs
  BY <1>1
<1>. QED
  BY <1>1, <1>2, <1>3, <1>4, <1>5 DEF DoneInv, Done

LEMMA DoneStep == PlanInv /\ DoneInv /\ [NextPlan]_planVars => DoneInv'
<1>. SUFFICES ASSUME PlanInv, DoneInv, [NextPlan]_planVars
              PROVE  DoneInv'
  OBVIOUS
<1>1. CASE End
  BY <1>1 DEF End, DoneInv, Solves
<1>2. CASE pc' \in {"idle", "sortRemoval", "sortExport"}
  BY <1>2 DEF DoneInv, Solves
<1>3. ASSUME NEW specs \in Requests, NEW action \in BOOLEAN, Install(specs, action)
      PROVE  DoneInv'
  BY <1>3, DoneInstall
<1>4. ASSUME NEW specs \in SUBSET Pkg, NEW action \in BOOLEAN, Upgrade(specs, action)
      PROVE  DoneInv'
  BY <1>4, DoneUpgrade
<1>5. ASSUME NEW s \in todo, ExpandStar(s) \/ Keep(s)
      PROVE  DoneInv'
  BY <1>5, DoneExpandStar, DoneKeep
<1>6. ASSUME NEW s \in todo, AddToPlanned(s) \/ AddNew(s) \/ Reinstall(s)
      PROVE  DoneInv'
  <2>1. PICK T, i, j, out : Adding(s, T, i, j, out)
    BY <1>6, AddToPlannedAdds, AddNewAdds, ReinstallAdds
  <2>. QED
    BY <2>1, DoneAdding
<1>7. CASE UNCHANGED <<at, db, user, goal, info, asked>> /\ (todo \cup batch)' = todo \cup batch /\ (Solves' => Solves)
  BY <1>7, DoneStays
<1>8. PlanCases
  BY PlanStepCases
<1>. QED
  BY <1>1, <1>2, <1>3, <1>4, <1>5, <1>6, <1>7, <1>8 DEF PlanCases

LEMMA LeastInvHolds == Plans => [](LeastInv /\ DoneInv)
<1>1. InitPlan => LeastInv /\ DoneInv
  BY DEF InitPlan, LeastInv, DoneInv, Solves, NoGoal
<1>2. PlanInv /\ LeastInv /\ [NextPlan]_planVars => LeastInv'
  BY LeastStep
<1>3. PlanInv /\ DoneInv /\ [NextPlan]_planVars => DoneInv'
  BY DoneStep
<1>. QED
  BY <1>1, <1>2, <1>3, PlanInvHolds, PTL DEF Plans

(***************************************************************************)
(* What a plan stands for.                                                 *)
(***************************************************************************)
Built == {k \in Key : k[1] \in DOMAIN info /\ k[2] \in DOMAIN info[k[1]].edges}

Base ==
    goal.specs \cup Built \cup {<<p, Default>> : p \in {q \in DOMAIN info : info[q].requested}}
    \cup (UNION {Tree.needs[k] \cup Tree.needsIf[k] : k \in Built})

PlanSpecs == Base \cup {k \in Key : <<k[1], Star>> \in Base /\ k[2] \in Tree.feats[k[1]]}

IsLeast(S) ==
    /\ S \in SUBSET FeatureSpec /\ Grounded(S)
    /\ \A T \in SUBSET FeatureSpec : Grounded(T) => S \subseteq T

\* The plan is that of the specs S.
PlanIs(S) ==
    /\ removes = Again(S)
    /\ installs = Anew(S)
    /\ \A p \in installs : {<<p, f>> : f \in DOMAIN info[p].edges} = {s \in S \cap Key : s[1] = p}

LEMMA KeyFacts ==
    \A k \in Key : k = <<k[1], k[2]>> /\ k[1] \in Pkg /\ k[2] \in Feat \cup {Core} /\ k[2] \notin {Default, Star}
<1>. QED
  BY NamesAssumption DEF Key

LEMMA BaseFacts ==
    ASSUME PlanInv, DoneInv, pc = "planned"
    PROVE  /\ todo = {} /\ batch = {} /\ removes = DOMAIN info \cap Installed /\ installs = DOMAIN info
           /\ Base \subseteq FeatureSpec /\ \A x \in Base : Handled(info, asked, {}, x)
           /\ \A x \in Base : x[2] = Star => <<x[1], Core>> \in Base
           /\ \A p \in DOMAIN info : \A f \in DOMAIN info[p].edges : <<p, f>> \in Built
<1>1. /\ todo = {} /\ batch = {} /\ removes = DOMAIN info \cap Installed /\ installs = DOMAIN info
      /\ DOMAIN info \subseteq Pkg /\ \A p \in DOMAIN info : IsInfo(Tree, p, info[p])
  BY DEF PlanInv, PlaceInv, DbTypeInv
<1>2. /\ goal.specs \in Requests \cup {{}}
      /\ \A x \in goal.specs : Handled(info, asked, {}, x)
      /\ \A p \in DOMAIN info : Done(info, asked, {}, p)
  BY <1>1 DEF DoneInv, Solves, Answered
<1>3. \A p \in DOMAIN info : \A f \in DOMAIN info[p].edges : <<p, f>> \in Built
  BY <1>1 DEF Built, Key, IsInfo
<1>4. ASSUME NEW k \in Built
      PROVE  /\ Tree.needs[k] \cup Tree.needsIf[k] \subseteq FeatureSpec
             /\ \A x \in Tree.needs[k] \cup Tree.needsIf[k] : Handled(info, asked, {}, x)
             /\ WithCore(Tree.needs[k] \cup Tree.needsIf[k])
             /\ k \in FeatureSpec /\ Handled(info, asked, {}, k)
  <2>1. k \in Key /\ k = <<k[1], k[2]>> /\ k[1] \in DOMAIN info /\ k[2] \in DOMAIN info[k[1]].edges
        /\ k[2] \notin {Default, Star}
    BY NamesAssumption DEF Built, Key
  <2>2. Tree.needs[k] \cup Tree.needsIf[k] \subseteq FeatureSpec
    BY <2>1, TreeFacts DEF PlanInv, DbTypeInv
  <2>3. info[k[1]].edges[k[2]] = Tree.needs[k] \cup Tree.needsIf[k]
        /\ \A x \in info[k[1]].edges[k[2]] : Handled(info, asked, {}, x)
    BY <1>2, <2>1 DEF Done, Answered
  <2>4. WithCore(Tree.needs[k] \cup Tree.needsIf[k])
    BY <2>1, CoreAssumption DEF Tree, PlanInv, DbTypeInv
  <2>5. k \in FeatureSpec /\ Handled(info, asked, {}, k)
    BY <2>1 DEF Key, FeatureSpec, Handled, Met
  <2>. QED
    BY <2>2, <2>3, <2>4, <2>5
<1>5. ASSUME NEW p \in DOMAIN info, info[p].requested
      PROVE  <<p, Default>> \in FeatureSpec /\ Handled(info, asked, {}, <<p, Default>>)
  BY <1>1, <1>5, NamesAssumption DEF FeatureSpec, Handled, Met
<1>6. goal.specs \subseteq FeatureSpec /\ WithCore(goal.specs)
  BY <1>2, RequestsAssumption, CoreAssumption DEF WithCore
<1>7. ASSUME NEW x \in Base
      PROVE  x \in FeatureSpec /\ Handled(info, asked, {}, x)
  BY <1>2, <1>4, <1>5, <1>6 DEF Base
<1>8. ASSUME NEW x \in Base, x[2] = Star
      PROVE  <<x[1], Core>> \in Base
  <2>1. CASE x \in goal.specs
    BY <2>1, <1>6 DEF WithCore, Base
  <2>2. ASSUME NEW k \in Built, x \in Tree.needs[k] \cup Tree.needsIf[k]
        PROVE  <<x[1], Core>> \in Base
    BY <2>2, <1>4 DEF WithCore, Base
  <2>3. x \notin Built /\ x \notin {<<p, Default>> : p \in {q \in DOMAIN info : info[q].requested}}
    BY <1>8, NamesAssumption DEF Built, Key
  <2>. QED
    BY <2>1, <2>2, <2>3 DEF Base
<1>. QED
  BY <1>1, <1>3, <1>7, <1>8

LEMMA PlanSpecsFacts ==
    ASSUME PlanInv, LeastInv, DoneInv, pc = "planned"
    PROVE  /\ PlanSpecs \in SUBSET FeatureSpec /\ \A x \in PlanSpecs : Handled(info, asked, {}, x)
           /\ \A x \in PlanSpecs \ Base : x \in Key
           /\ Again(PlanSpecs) \subseteq DOMAIN info /\ Anew(PlanSpecs) \subseteq DOMAIN info
<1>1. /\ \A x \in Base : x \in FeatureSpec /\ Handled(info, asked, {}, x)
      /\ \A x \in Base : x[2] = Star => <<x[1], Core>> \in Base
  BY BaseFacts
<1>2. Base \subseteq PlanSpecs /\ \A x \in PlanSpecs \ Base :
        x \in Key /\ <<x[1], Star>> \in Base /\ x[2] \in Tree.feats[x[1]]
  BY DEF PlanSpecs
<1>3. ASSUME NEW x \in PlanSpecs \ Base
      PROVE  x \in FeatureSpec /\ Handled(info, asked, {}, x)
  <2>1. x \in Key /\ x = <<x[1], x[2]>> /\ x[2] \notin {Default, Star}
    BY <1>2, KeyFacts
  <2>2. Handled(info, asked, {}, <<x[1], Star>>)
    BY <1>1, <1>2
  <2>3. \A f \in Tree.feats[x[1]] : Met(Tree, db, info, <<x[1], f>>)
    BY <2>2 DEF Handled
  <2>4. Met(Tree, db, info, x)
    BY <2>1, <2>3, <1>2
  <2>. QED
    BY <2>1, <2>4 DEF Handled, Key, FeatureSpec
<1>4. PlanSpecs \in SUBSET FeatureSpec /\ \A x \in PlanSpecs : Handled(info, asked, {}, x)
  BY <1>1, <1>3
<1>5. goal.upgrade \subseteq Installed /\ goal.upgrade \subseteq DOMAIN info /\ DOMAIN info \in SUBSET Pkg
      /\ Closed(RemoveEdges, DOMAIN info)
  BY DEF LeastInv, DoneInv, Solves, PlanInv, DbTypeInv, SolveInv, Closed
<1>6. ASSUME NEW x \in PlanSpecs, x[2] # Star
      PROVE  /\ x[1] \in DOMAIN info \cup Installed
             /\ x[1] \notin DOMAIN info => x[2] \in db[x[1]].feats \cup {Core, Default, Star}
  BY <1>4, <1>6 DEF Handled, Met, Installed
<1>7. Again(PlanSpecs) \subseteq DOMAIN info
  <2>1. \A x \in PlanSpecs : x[1] \in Installed /\ x[2] \notin db[x[1]].feats \cup {Core, Default, Star} => x[1] \in DOMAIN info
    BY <1>6
  <2>. QED
    BY <1>4, <1>5, <2>1, AgainFacts
<1>8. ASSUME NEW x \in PlanSpecs, x[1] \notin Installed
      PROVE  x[1] \in DOMAIN info
  <2>1. CASE x[2] = Star
    <3>1. x \in Base
      BY <2>1, <1>2, KeyFacts
    <3>2. <<x[1], Core>> \in PlanSpecs
      BY <3>1, <2>1, <1>1, <1>2
    <3>. QED
      BY <3>2, <1>6, <1>8, NamesAssumption
  <2>2. CASE x[2] # Star
    BY <2>2, <1>6, <1>8
  <2>. QED
    BY <2>1, <2>2
<1>9. Anew(PlanSpecs) \subseteq DOMAIN info
  BY <1>4, <1>5, <1>7, <1>8, AnewFacts
<1>. QED
  BY <1>2, <1>4, <1>7, <1>9

LEMMA PlanSpecsLead ==
    ASSUME PlanInv, LeastInv, DoneInv, pc = "planned"
    PROVE  Grounded(PlanSpecs)
<1>1. /\ \A x \in PlanSpecs : Handled(info, asked, {}, x) /\ Met(Tree, db, info, x)
      /\ \A x \in PlanSpecs \ Base : x \in Key
      /\ Again(PlanSpecs) \subseteq DOMAIN info \cap Installed /\ Anew(PlanSpecs) \subseteq DOMAIN info
  BY PlanSpecsFacts, AgainFacts DEF Handled, LeastInv
<1>2. \A p \in DOMAIN info : \A f \in DOMAIN info[p].edges : <<p, f>> \in Built
  BY BaseFacts
<1>3. \A p \in DOMAIN info : Kept(Tree, db, info, {}, p) /\ Done(info, asked, {}, p)
  BY BaseFacts DEF PlanInv, SolveInv, DoneInv, Solves
<1>4. Built \subseteq Base /\ Base \subseteq PlanSpecs /\ goal.specs \subseteq PlanSpecs
  BY DEF Base, PlanSpecs
<1>5. \A p \in DOMAIN info : info[p].requested => <<p, Default>> \in PlanSpecs
  BY <1>4 DEF Base
<1>6. (UNION {{<<p, f>> : f \in {Core} \cup (db[p].feats \cap Tree.feats[p])} : p \in Again(PlanSpecs)}) \subseteq PlanSpecs
  <2>1. ASSUME NEW p \in Again(PlanSpecs), NEW f \in {Core} \cup (db[p].feats \cap Tree.feats[p])
        PROVE  <<p, f>> \in PlanSpecs
    <3>1. p \in DOMAIN info /\ p \in DOMAIN db
      BY <1>1 DEF Installed
    <3>2. f \in DOMAIN info[p].edges
      BY <3>1, <1>3 DEF Kept, Planned
    <3>. QED
      BY <3>1, <3>2, <1>2, <1>4
  <2>. QED
    BY <2>1
<1>7. {<<p, Default>> : p \in Anew(PlanSpecs) \ user} \subseteq PlanSpecs
  <2>1. ASSUME NEW p \in Anew(PlanSpecs) \ user
        PROVE  <<p, Default>> \in PlanSpecs
    <3>1. p \in DOMAIN info /\ info[p].requested
      BY <1>1, <1>3 DEF Done
    <3>. QED
      BY <3>1, <1>5
  <2>. QED
    BY <2>1
<1>8. ASSUME NEW s \in Key, <<s[1], Default>> \in PlanSpecs, s[1] \in Anew(PlanSpecs), s[2] \in Tree.defaults[s[1]]
      PROVE  s \in PlanSpecs
  <2>1. s[1] \in DOMAIN info /\ s = <<s[1], s[2]>>
    BY <1>1, <1>8 DEF Key
  <2>2. Handled(info, asked, {}, <<s[1], Default>>)
    BY <1>1, <1>8
  <2>3. info[s[1]].requested
    BY <2>1, <2>2 DEF Handled
  <2>4. s[2] \in DOMAIN info[s[1]].edges
    BY <2>1, <2>3, <1>3, <1>8 DEF Done, Planned
  <2>. QED
    BY <2>1, <2>4, <1>2, <1>4
<1>9. ASSUME NEW s \in Key, <<s[1], Star>> \in PlanSpecs, s[2] \in Tree.feats[s[1]]
      PROVE  s \in PlanSpecs
  <2>1. <<s[1], Star>> \notin Key
    BY NamesAssumption DEF Key
  <2>2. <<s[1], Star>> \in Base
    BY <2>1, <1>1, <1>9
  <2>. QED
    BY <2>2, <1>9 DEF PlanSpecs
<1>10. ASSUME NEW s \in PlanSpecs \cap Key, s[1] \in Anew(PlanSpecs)
       PROVE  Tree.needs[s] \cup Tree.needsIf[s] \subseteq PlanSpecs
  <2>1. s[1] \in DOMAIN info /\ s[2] \notin {Default, Star} /\ Met(Tree, db, info, s)
    BY <1>1, <1>10, NamesAssumption DEF Key
  <2>2. s \in Built
    BY <2>1 DEF Met, Built
  <2>. QED
    BY <2>2, <1>4 DEF Base
<1>. DEFINE needs == UNION {Tree.needs[s] \cup Tree.needsIf[s] : s \in {t \in PlanSpecs \cap Key : t[1] \in Anew(PlanSpecs)}}
<1>11. needs \subseteq PlanSpecs
  BY <1>10
<1>12. LeadsTo(PlanSpecs) \subseteq PlanSpecs
  BY <1>6, <1>7, <1>8, <1>9, <1>11 DEF LeadsTo
<1>. QED
  BY <1>4, <1>12 DEF Grounded

LEMMA PlanSpecsLeast ==
    ASSUME PlanInv, LeastInv, DoneInv, pc = "planned", NEW T \in SUBSET FeatureSpec, Grounded(T)
    PROVE  PlanSpecs \subseteq T
<1>1. Least(T) /\ goal.specs \subseteq T /\ LeadsTo(T) \subseteq T
  BY DEF LeastInv, Solves, Grounded
<1>2. ASSUME NEW k \in Built
      PROVE  k \in T /\ Tree.needs[k] \cup Tree.needsIf[k] \subseteq T
  <2>1. /\ k \in Key /\ k = <<k[1], k[2]>> /\ k[1] \in Pkg /\ k[2] \in Feat \cup {Core}
        /\ k[1] \in DOMAIN info /\ k[2] \in DOMAIN info[k[1]].edges
    BY DEF Built, Key
  <2>2. k \in T /\ k[1] \in Anew(T)
    BY <1>1, <2>1 DEF Least
  <2>3. ASSUME NEW p \in Pkg, NEW f \in Feat \cup {Core}, p \in Anew(T), <<p, f>> \in T
        PROVE  Tree.needs[<<p, f>>] \cup Tree.needsIf[<<p, f>>] \subseteq T
    BY <1>1, <2>3, GroundedFacts
  <2>4. Tree.needs[<<k[1], k[2]>>] \cup Tree.needsIf[<<k[1], k[2]>>] \subseteq T
    <3>1. <<k[1], k[2]>> \in T
      BY <2>1, <2>2
    <3>. QED
      BY <2>1, <2>2, <2>3, <3>1
  <2>. QED
    BY <2>1, <2>2, <2>4
<1>3. \A p \in DOMAIN info : info[p].requested => <<p, Default>> \in T
  BY <1>1 DEF Least
<1>4. Base \subseteq T
  BY <1>1, <1>2, <1>3 DEF Base
<1>5. ASSUME NEW k \in Key, <<k[1], Star>> \in Base, k[2] \in Tree.feats[k[1]]
      PROVE  k \in T
  <2>1. k[1] \in Pkg /\ k = <<k[1], k[2]>> /\ <<k[1], Star>> \in T
    BY <1>4, <1>5 DEF Key
  <2>2. \A f \in Tree.feats[k[1]] : <<k[1], f>> \in T
    BY <1>1, <2>1, GroundedFacts
  <2>. QED
    BY <2>1, <2>2, <1>5
<1>. QED
  BY <1>4, <1>5 DEF PlanSpecs

LEMMA PlanSpecsPlanned ==
    ASSUME PlanInv, LeastInv, DoneInv, pc = "planned"
    PROVE  IsLeast(PlanSpecs) /\ PlanIs(PlanSpecs)
<1>1. PlanSpecs \in SUBSET FeatureSpec /\ Grounded(PlanSpecs) /\ Anew(PlanSpecs) \subseteq DOMAIN info
      /\ \A x \in PlanSpecs : Met(Tree, db, info, x)
  BY PlanSpecsFacts, PlanSpecsLead DEF Handled
<1>2. IsLeast(PlanSpecs)
  BY <1>1, PlanSpecsLeast DEF IsLeast
<1>3. /\ removes = DOMAIN info \cap Installed /\ installs = DOMAIN info
      /\ \A p \in DOMAIN info : \A f \in DOMAIN info[p].edges : <<p, f>> \in Built
  BY BaseFacts
<1>4. goal.upgrade \subseteq Installed /\ DOMAIN info = Anew(PlanSpecs)
  BY <1>1 DEF LeastInv, Solves, Least
<1>5. Anew(PlanSpecs) \cap Installed = Again(PlanSpecs)
  BY <1>1, <1>4, AnewFacts
<1>6. ASSUME NEW p \in DOMAIN info
      PROVE  {<<p, f>> : f \in DOMAIN info[p].edges} = {s \in PlanSpecs \cap Key : s[1] = p}
  <2>1. ASSUME NEW f \in DOMAIN info[p].edges
        PROVE  <<p, f>> \in PlanSpecs \cap Key
    BY <1>3 DEF Built, Base, PlanSpecs
  <2>2. ASSUME NEW s \in PlanSpecs \cap Key, s[1] = p
        PROVE  s[2] \in DOMAIN info[p].edges /\ s = <<p, s[2]>>
    BY <1>1, <2>2, NamesAssumption DEF Met, Key
  <2>. QED
    BY <2>1, <2>2
<1>. QED
  BY <1>2, <1>3, <1>4, <1>5, <1>6 DEF PlanIs

(***************************************************************************)
(* The least set, step by step: what LeastPlan computes.                   *)
(***************************************************************************)
LEMMA LeastNatural ==
    ASSUME NEW S \in SUBSET Nat, S # {}
    PROVE  \E m \in S : \A n \in S : m <= n
<1>. DEFINE R == OpToRel(<, Nat)
<1>1. IsWellFoundedOn(R, Nat)
  BY NatLessThanWellFounded
<1>2. \A x, y \in Nat : <<y, x>> \in R <=> y < x
  BY DEF OpToRel
<1>. HIDE DEF R
<1>3. \E x \in S : \A y \in S : ~ (<<y, x>> \in R)
  BY <1>1, WFMin
<1>4. PICK m \in S : \A n \in S : ~ (<<n, m>> \in R)
  BY <1>3
<1>5. ASSUME NEW n \in S
      PROVE  m <= n
  <2>1. ~ (n < m)
    BY <1>2, <1>4
  <2>2. n \in Nat /\ m \in Nat
    OBVIOUS
  <2>. QED
    BY <2>1, <2>2
<1>. QED
  BY <1>5

\* Of some subsets of a finite set, one is in no other.
LEMMA GreatestSubset ==
    ASSUME NEW U, IsFiniteSet(U), NEW C \in SUBSET SUBSET U, C # {}
    PROVE  \E s \in C : \A t \in C : s \subseteq t => s = t
<1>. DEFINE missing == {Cardinality(U \ s) : s \in C}
<1>1. ASSUME NEW s \in SUBSET U
      PROVE  IsFiniteSet(U \ s) /\ Cardinality(U \ s) \in Nat
  BY FS_Difference, FS_CardinalityType
<1>2. missing \in SUBSET Nat /\ missing # {}
  BY <1>1
<1>3. \E m \in missing : \A n \in missing : m <= n
  BY <1>2, LeastNatural
<1>4. PICK s \in C : \A t \in C : Cardinality(U \ s) <= Cardinality(U \ t)
  BY <1>3
<1>5. ASSUME NEW t \in C, s \subseteq t
      PROVE  s = t
  <2>1. (U \ t) \in SUBSET (U \ s) /\ IsFiniteSet(U \ s)
    BY <1>1, <1>5
  <2>2. /\ Cardinality(U \ t) <= Cardinality(U \ s)
        /\ Cardinality(U \ s) = Cardinality(U \ t) => U \ s = U \ t
    BY <2>1, FS_Subset
  <2>3. Cardinality(U \ s) <= Cardinality(U \ t) /\ Cardinality(U \ s) \in Nat /\ Cardinality(U \ t) \in Nat
    BY <1>1, <1>4
  <2>4. U \ s = U \ t
    BY <2>2, <2>3
  <2>. QED
    BY <2>4
<1>. QED
  BY <1>5

LEMMA FiniteSpecs == IsFiniteSet(FeatureSpec)
<1>1. IsFiniteSet(Feat \cup {Core} \cup {Default} \cup {Star})
  BY FiniteAssumption, FS_AddElement
<1>2. Feat \cup {Core, Default, Star} = Feat \cup {Core} \cup {Default} \cup {Star}
  OBVIOUS
<1>3. IsFiniteSet(Feat \cup {Core, Default, Star}) /\ IsFiniteSet(Pkg)
  BY <1>1, <1>2, FiniteAssumption
<1>. QED
  BY <1>3, FS_Product DEF FeatureSpec

\* More specs lead to more.
LEMMA LeadsToFacts ==
    ASSUME PlanInv, goal.upgrade \subseteq Installed, NEW S \in SUBSET FeatureSpec
    PROVE  /\ S \subseteq LeadsTo(S) /\ LeadsTo(S) \in SUBSET FeatureSpec
           /\ \A T \in SUBSET FeatureSpec : S \subseteq T => LeadsTo(S) \subseteq LeadsTo(T)
<1>. DEFINE again(X) == UNION {{<<q, f>> : f \in {Core} \cup (db[q].feats \cap Tree.feats[q])} : q \in Again(X)}
            byDefault(X) == {<<q, Default>> : q \in Anew(X) \ user}
            defaults(X) == {s \in Key : <<s[1], Default>> \in X /\ s[1] \in Anew(X) /\ s[2] \in Tree.defaults[s[1]]}
            stars(X) == {s \in Key : <<s[1], Star>> \in X /\ s[2] \in Tree.feats[s[1]]}
            needs(X) == UNION {Tree.needs[s] \cup Tree.needsIf[s] : s \in {t \in X \cap Key : t[1] \in Anew(X)}}
<1>1. \A X : LeadsTo(X) = X \cup again(X) \cup byDefault(X) \cup defaults(X) \cup stars(X) \cup needs(X)
  BY DEF LeadsTo
<1>2. ASSUME NEW T \in SUBSET FeatureSpec, S \subseteq T
      PROVE  Again(S) \subseteq Again(T) /\ Anew(S) \subseteq Anew(T)
  <2>1. /\ Again(T) \in SUBSET Pkg /\ goal.upgrade \subseteq Again(T) /\ Closed(RemoveEdges, Again(T))
        /\ \A x \in S : x[1] \in Installed /\ x[2] \notin db[x[1]].feats \cup {Core, Default, Star} => x[1] \in Again(T)
    BY <1>2, AgainFacts, AnewFacts
  <2>2. Again(S) \subseteq Again(T)
    BY <2>1, AgainFacts
  <2>. QED
    BY <1>2, <2>2 DEF Anew
<1>3. /\ again(S) \subseteq FeatureSpec /\ byDefault(S) \subseteq FeatureSpec /\ defaults(S) \subseteq FeatureSpec
      /\ stars(S) \subseteq FeatureSpec /\ needs(S) \subseteq FeatureSpec
  <2>1. Again(S) \subseteq Pkg /\ Anew(S) \subseteq Pkg
    BY AnewFacts
  <2>2. \A p \in Pkg : Tree.feats[p] \subseteq Feat
    BY TreeFacts DEF PlanInv, DbTypeInv
  <2>3. \A k \in Key : Tree.needs[k] \cup Tree.needsIf[k] \subseteq FeatureSpec
    BY TreeFacts DEF PlanInv, DbTypeInv
  <2>4. needs(S) \subseteq FeatureSpec
    BY <2>3
  <2>5. again(S) \subseteq FeatureSpec /\ byDefault(S) \subseteq FeatureSpec
    BY <2>1, <2>2 DEF FeatureSpec
  <2>6. defaults(S) \subseteq FeatureSpec /\ stars(S) \subseteq FeatureSpec
    BY DEF FeatureSpec, Key
  <2>. QED
    BY <2>4, <2>5, <2>6
<1>4. ASSUME NEW T \in SUBSET FeatureSpec, S \subseteq T
      PROVE  /\ again(S) \subseteq again(T) /\ byDefault(S) \subseteq byDefault(T) /\ defaults(S) \subseteq defaults(T)
             /\ stars(S) \subseteq stars(T) /\ needs(S) \subseteq needs(T)
  <2>1. Again(S) \subseteq Again(T) /\ Anew(S) \subseteq Anew(T)
    BY <1>2, <1>4
  <2>2. {t \in S \cap Key : t[1] \in Anew(S)} \subseteq {t \in T \cap Key : t[1] \in Anew(T)}
    BY <2>1, <1>4
  <2>3. needs(S) \subseteq needs(T)
    BY <2>2
  <2>4. again(S) \subseteq again(T)
    BY <2>1
  <2>5. byDefault(S) \subseteq byDefault(T) /\ defaults(S) \subseteq defaults(T) /\ stars(S) \subseteq stars(T)
    BY <2>1, <1>4
  <2>. QED
    BY <2>3, <2>4, <2>5
<1>. HIDE DEF again, byDefault, defaults, stars, needs
<1>5. S \subseteq LeadsTo(S) /\ LeadsTo(S) \in SUBSET FeatureSpec
  BY <1>1, <1>3
<1>6. ASSUME NEW T \in SUBSET FeatureSpec, S \subseteq T
      PROVE  LeadsTo(S) \subseteq LeadsTo(T)
  BY <1>1, <1>4, <1>6
<1>. QED
  BY <1>5, <1>6

\* What is in every set that holds the specs and all that this leads to.
Bound(specs) ==
    {x \in FeatureSpec : \A T \in SUBSET FeatureSpec : specs \subseteq T /\ LeadsTo(T) \subseteq T => x \in T}

LEMMA BoundFacts ==
    ASSUME PlanInv, goal.upgrade \subseteq Installed, NEW S \in SUBSET FeatureSpec
    PROVE  /\ S \subseteq Bound(S) /\ LeadsTo(Bound(S)) \subseteq Bound(S)
           /\ \A T \in SUBSET FeatureSpec : S \subseteq T /\ LeadsTo(T) \subseteq T => Bound(S) \subseteq T
           /\ LeadsTo(S) = S => Bound(S) = S
           /\ Bound(S) = Bound(LeadsTo(S))
<1>1. /\ Bound(S) \in SUBSET FeatureSpec /\ S \subseteq Bound(S)
      /\ \A T \in SUBSET FeatureSpec : S \subseteq T /\ LeadsTo(T) \subseteq T => Bound(S) \subseteq T
  BY DEF Bound
<1>2. LeadsTo(Bound(S)) \in SUBSET FeatureSpec /\ LeadsTo(S) \in SUBSET FeatureSpec /\ S \subseteq LeadsTo(S)
  BY <1>1, LeadsToFacts
<1>3. ASSUME NEW T \in SUBSET FeatureSpec, S \subseteq T, LeadsTo(T) \subseteq T
      PROVE  LeadsTo(Bound(S)) \subseteq T /\ LeadsTo(S) \subseteq T
  <2>1. Bound(S) \subseteq T
    BY <1>1, <1>3
  <2>2. LeadsTo(Bound(S)) \subseteq LeadsTo(T) /\ LeadsTo(S) \subseteq LeadsTo(T)
    BY <1>1, <2>1, <1>3, LeadsToFacts
  <2>. QED
    BY <2>2, <1>3
<1>4. LeadsTo(Bound(S)) \subseteq Bound(S)
  BY <1>2, <1>3 DEF Bound
<1>5. LeadsTo(S) = S => Bound(S) = S
  BY <1>1
<1>6. \A T \in SUBSET FeatureSpec : LeadsTo(T) \subseteq T => (S \subseteq T <=> LeadsTo(S) \subseteq T)
  BY <1>2, <1>3
<1>7. Bound(S) = Bound(LeadsTo(S))
  BY <1>6 DEF Bound
<1>. QED
  BY <1>1, <1>4, <1>5, <1>7

LEMMA GrownFacts ==
    ASSUME PlanInv, goal.upgrade \subseteq Installed
    PROVE  \A S \in SUBSET FeatureSpec : Grown[S] = Bound(S)
<1>. DEFINE body(g, s) == IF LeadsTo(s) = s THEN s ELSE g[LeadsTo(s)]
            bound == [s \in SUBSET FeatureSpec |-> Bound(s)]
<1>1. bound = [s \in SUBSET FeatureSpec |-> body(bound, s)]
  <2>1. ASSUME NEW s \in SUBSET FeatureSpec
        PROVE  Bound(s) = body(bound, s)
    <3>1. LeadsTo(s) \in SUBSET FeatureSpec
      BY LeadsToFacts
    <3>. QED
      BY <3>1, BoundFacts
  <2>. QED
    BY <2>1
<1>2. Grown = CHOOSE g : g = [s \in SUBSET FeatureSpec |-> body(g, s)]
  BY DEF Grown
<1>3. Grown = [s \in SUBSET FeatureSpec |-> body(Grown, s)]
  BY <1>1, <1>2
<1>. DEFINE wrong == {s \in SUBSET FeatureSpec : Grown[s] # Bound(s)}
<1>4. wrong \in SUBSET SUBSET FeatureSpec /\ \A s \in SUBSET FeatureSpec : s \in wrong <=> Grown[s] # Bound(s)
  OBVIOUS
<1>. HIDE DEF wrong
<1>5. ASSUME wrong # {}
      PROVE  FALSE
  <2>1. PICK s \in wrong : \A t \in wrong : s \subseteq t => s = t
    BY <1>4, <1>5, FiniteSpecs, GreatestSubset
  <2>2. s \subseteq LeadsTo(s) /\ LeadsTo(s) \in SUBSET FeatureSpec /\ Bound(s) = Bound(LeadsTo(s))
        /\ (LeadsTo(s) = s => Bound(s) = s)
    BY <1>4, LeadsToFacts, BoundFacts
  <2>3. Grown[s] = body(Grown, s) /\ Grown[s] # Bound(s)
    BY <1>3, <1>4
  <2>4. LeadsTo(s) # s /\ LeadsTo(s) \in wrong
    BY <1>4, <2>2, <2>3
  <2>. QED
    BY <2>1, <2>2, <2>4
<1>. QED
  BY <1>4, <1>5

LEMMA LeastPlanFacts ==
    ASSUME PlanInv, goal.upgrade \subseteq Installed, goal.specs \in SUBSET FeatureSpec
    PROVE  IsLeast(LeastPlan)
<1>1. LeastPlan = Bound(goal.specs) /\ LeastPlan \in SUBSET FeatureSpec
  BY GrownFacts DEF LeastPlan, Bound
<1>2. /\ goal.specs \subseteq LeastPlan /\ LeadsTo(LeastPlan) \subseteq LeastPlan
      /\ \A T \in SUBSET FeatureSpec : goal.specs \subseteq T /\ LeadsTo(T) \subseteq T => LeastPlan \subseteq T
  BY <1>1, BoundFacts
<1>. QED
  BY <1>1, <1>2 DEF IsLeast, Grounded

\* Whatever the ports and the commands before, every plan is that of the least set, which the property
\* computes: nothing is removed, built or added that is not asked for or led to, and nothing is missing
\* (install and mark_for_reinstall, dependencies.cpp:791-971).
THEOREM PlanIsLeastHolds == Plans => []PlanIsLeast
<1>1. ASSUME PlanInv, LeastInv, DoneInv, pc = "planned"
      PROVE  PlanIs(LeastPlan)
  <2>1. goal.upgrade \subseteq Installed /\ goal.specs \in SUBSET FeatureSpec
    BY <1>1, RequestsAssumption DEF LeastInv, DoneInv, Solves
  <2>2. IsLeast(LeastPlan) /\ IsLeast(PlanSpecs) /\ PlanIs(PlanSpecs)
    BY <1>1, <2>1, LeastPlanFacts, PlanSpecsPlanned
  <2>3. PlanSpecs = LeastPlan
    BY <2>2 DEF IsLeast
  <2>. QED
    BY <2>2, <2>3
<1>2. PlanInv /\ LeastInv /\ DoneInv => PlanIsLeast
  BY <1>1 DEF PlanIs, PlanIsLeast
<1>. QED
  BY <1>2, PlanInvHolds, LeastInvHolds, PTL

(***************************************************************************)
(* What the database lacks.                                                *)
(***************************************************************************)
LackInv == \A p \in Installed : db[p].deps \ Installed = db[p].lacks

\* What an install action depends on is in the plan or stays installed, and if it is in the plan an edge
\* leads to it.
LEMMA ActionFacts ==
    ASSUME PlanInv, DoneInv, pc = "planned", NEW p \in DOMAIN info,
           NEW q \in {s[1] : s \in FeatureDependencies(p)} \ {p}
    PROVE  q \in DOMAIN info \cup Installed /\ <<p, q>> \in InstallEdges
<1>1. DOMAIN info \subseteq Pkg /\ IsInfo(Tree, p, info[p])
  BY DEF PlanInv, DbTypeInv
<1>2. PICK f \in DOMAIN info[p].edges : \E x \in info[p].edges[f] : \E s \in Computed(x) : s[1] = q
  BY DEF FeatureDependencies
<1>3. PICK x \in info[p].edges[f] : \E s \in Computed(x) : s[1] = q
  BY <1>2
<1>4. x[1] = q
  BY <1>3 DEF Computed
<1>5. <<p, f>> \in Built /\ <<p, f>> \in Key
  BY <1>1, <1>2, BaseFacts DEF Built
<1>6. info[p].edges[f] = Tree.needs[<<p, f>>] \cup Tree.needsIf[<<p, f>>]
  <2>1. Done(info, asked, {}, p)
    BY DEF DoneInv, Solves, PlanInv, PlaceInv
  <2>. QED
    BY <1>2, <1>5, <2>1 DEF Done
<1>7. Tree.needs[<<p, f>>] \cup Tree.needsIf[<<p, f>>] \subseteq Base
  BY <1>5 DEF Base
<1>8. x \in Base /\ x \in FeatureSpec /\ q \in Pkg
  <2>1. x \in Base /\ x \in FeatureSpec
    BY <1>3, <1>6, <1>7, BaseFacts
  <2>. QED
    BY <1>4, <2>1 DEF FeatureSpec
<1>9. q \in DOMAIN info \cup Installed
  <2>1. PICK y \in Base : y[1] = q /\ y[2] # Star
    <3>1. CASE x[2] = Star
      <4>1. <<q, Core>> \in Base
        BY <1>4, <1>8, <3>1, BaseFacts
      <4>. QED
        BY <4>1, NamesAssumption
    <3>2. CASE x[2] # Star
      BY <1>4, <1>8, <3>2
    <3>. QED
      BY <3>1, <3>2
  <2>2. Handled(info, asked, {}, y)
    BY BaseFacts
  <2>. QED
    BY <2>1, <2>2 DEF Handled, Met, Installed
<1>. QED
  BY <1>1, <1>2, <1>3, <1>4, <1>8, <1>9 DEF InstallEdges, HasInfo

\* A package that is built finds what it depends on; one that is restored lacks it only in a run that
\* keeps going.
LEMMA ExecuteLacks ==
    ASSUME PlanInv, DoneInv, RunInv, LackInv,
           NEW done \in SUBSET installs, NEW restored, NEW others, NEW keepGoing,
           Execute(done, restored, others, keepGoing)
    PROVE  LackInv'
<1>. DEFINE deps(p) == {s[1] : s \in FeatureDependencies(p)} \ {p}
<1>1. /\ pc = "planned" /\ removes = DOMAIN info \cap Installed /\ installs = DOMAIN info
      /\ Installed' = (Installed \ removes) \cup done
      /\ \A p \in Installed' \ done : p \in Installed /\ db'[p] = db[p]
  BY ExecuteFacts
<1>2. \A p \in done \ restored : \A s \in FeatureDependencies(p) : s[1] # p => Present(s, done)
  BY DEF Execute
<1>3. \A p \in done : db'[p].deps = deps(p)
  BY ExecuteFacts DEF IsWritten
<1>4. \A p \in done \ restored : db'[p].lacks = {} /\ deps(p) \subseteq Installed'
  <2>1. ASSUME NEW p \in done \ restored, NEW s \in FeatureDependencies(p), s[1] # p
        PROVE  s[1] \in Installed'
    BY <1>1, <1>2, <2>1 DEF Present
  <2>2. \A p \in done \ restored : db'[p].lacks = {}
    BY ExecuteFacts
  <2>. QED
    BY <2>1, <2>2
<1>5. ASSUME IsPrefix(done), NEW p \in done, NEW q \in deps(p)
      PROVE  q \in Installed'
  <2>1. p \in DOMAIN info
    BY <1>1
  <2>2. q \in DOMAIN info \cup Installed /\ <<p, q>> \in graph
    BY <1>1, <2>1, ActionFacts DEF RunInv
  <2>3. CASE q \notin DOMAIN info
    BY <1>1, <2>2, <2>3
  <2>4. CASE q \in DOMAIN info
    <3>1. OrderInv /\ graph \subseteq Vertex \X Vertex /\ sorted \in Seq(Vertex)
      BY DEF PlanInv, SortInv, SortTypeOK
    <3>2. PICK i \in 1 .. Len(sorted) : sorted[i] = p
      BY <1>1 DEF RunInv, Elements
    <3>3. q \in Neighbours(sorted[i])
      BY <2>2, <3>1, <3>2 DEF Neighbours
    <3>4. PICK j \in 1 .. i - 1 : sorted[j] = q
      BY <3>1, <3>2, <3>3 DEF OrderInv
    <3>5. j \in 1 .. Len(sorted) /\ j < i
      BY <3>1
    <3>6. q \in done
      BY <1>1, <1>5, <2>4, <3>2, <3>4, <3>5 DEF IsPrefix
    <3>. QED
      BY <1>1, <3>6
  <2>. QED
    BY <2>2, <2>3, <2>4
<1>6. \A p \in done \cap restored : deps(p) \ Installed' = db'[p].lacks
  <2>1. CASE \A p \in done \cap restored : db'[p].lacks = db'[p].deps \ Installed'
    BY <1>3, <2>1
  <2>2. CASE IsPrefix(done) /\ \A p \in done : db'[p].lacks = {}
    BY <1>5, <2>2
  <2>. QED
    BY <2>1, <2>2, ExecuteFacts
<1>7. \A p \in Installed' \ done : db'[p].deps \subseteq Installed' /\ db'[p].lacks = {}
  <2>1. \A p \in Installed \ removes : db[p].deps \subseteq Installed \ removes
    BY <1>1, StayersFacts
  <2>. QED
    BY <1>1, <2>1 DEF LackInv
<1>. HIDE DEF deps
<1>8. ASSUME NEW p \in Installed'
      PROVE  db'[p].deps \ Installed' = db'[p].lacks
  <2>1. CASE p \notin done
    BY <1>7, <2>1
  <2>2. CASE p \in done \ restored
    BY <1>3, <1>4, <2>2
  <2>3. CASE p \in done \cap restored
    BY <1>3, <1>6, <2>3
  <2>. QED
    BY <2>1, <2>2, <2>3
<1>. QED
  BY <1>8 DEF LackInv

\* What something that stays installed depends on is not removed.
LEMMA RemoveLacks ==
    ASSUME PlanInv, LackInv, RemoveSorted
    PROVE  LackInv'
<1>1. CASE UNCHANGED db
  BY <1>1 DEF LackInv, Installed
<1>2. CASE db' = [p \in Installed \ Removed |-> db[p]]
  <2>1. Installed' = Installed \ Removed /\ \A p \in Installed' : db'[p] = db[p]
    BY <1>2 DEF Installed
  <2>2. graph = RevEdges /\ OrderInv /\ sorted \in Seq(Vertex) /\ Installed \subseteq Pkg
    BY DEF RemoveSorted, PlanInv, PlaceInv, SortInv, SortTypeOK, DbTypeInv, IsDb, Installed
  <2>3. ASSUME NEW p \in Installed, NEW q \in db[p].deps, q \in Removed
        PROVE  p \in Removed
    <3>1. PICK i \in 1 .. Len(sorted) : sorted[i] = q /\ \A k \in 1 .. i : ~ IsMissing(sorted[k])
      BY <2>3 DEF Removed
    <3>2. q \in Pkg
      BY <2>2, <3>1 DEF Pkg
    <3>3. p \in Neighbours(sorted[i])
      BY <2>2, <3>1, <3>2 DEF RevEdges, Neighbours, Pkg
    <3>4. PICK j \in 1 .. i - 1 : sorted[j] = p
      BY <2>2, <3>3 DEF OrderInv
    <3>5. j \in 1 .. Len(sorted) /\ 1 .. j \subseteq 1 .. i
      BY <2>2
    <3>. QED
      BY <3>1, <3>4, <3>5 DEF Removed
  <2>. QED
    BY <2>1, <2>3 DEF LackInv
<1>. QED
  BY <1>1, <1>2 DEF RemoveSorted

LEMMA LackStep == PlanInv /\ DoneInv /\ RunInv /\ LackInv /\ [NextPlan]_planVars => LackInv'
<1>. SUFFICES ASSUME PlanInv, DoneInv, RunInv, LackInv, [NextPlan]_planVars
              PROVE  LackInv'
  OBVIOUS
<1>1. ASSUME NEW done \in SUBSET installs, NEW restored, NEW others, NEW keepGoing,
             Execute(done, restored, others, keepGoing)
      PROVE  LackInv'
  BY <1>1, ExecuteLacks
<1>2. CASE RemoveSorted
  BY <1>2, RemoveLacks
<1>3. CASE UNCHANGED db
  BY <1>3 DEF LackInv, Installed
<1>. QED
  BY <1>1, <1>2, <1>3
     DEF NextPlan, planVars, UpdatePorts, Run, Refuse, Install, Upgrade, Remove, Export, Exit, Take, ExpandStar,
         AddToPlanned, AddNew, Keep, Reinstall, LoadVars, Serialize, Sorting, SerializeInstalls, Serialized, CycleExit,
         DryRun, ExportSorted

LEMMA LackInvHolds == Plans => []LackInv
<1>1. InitPlan => LackInv
  BY DEF InitPlan, LackInv, NoInfo, Installed
<1>. QED
  BY <1>1, LackStep, PlanInvHolds, LeastInvHolds, RunInvHolds, PTL DEF Plans

LEMMA PlanInvImpliesDbInv == PlanInv /\ LackInv => DbInv
<1>. SUFFICES ASSUME PlanInv, LackInv
              PROVE  DbInv
  OBVIOUS
<1>1. ASSUME NEW p \in Installed
      PROVE  /\ db[p] \in [feats : SUBSET Feat, defaults : SUBSET Feat, deps : SUBSET Pkg, lacks : SUBSET Pkg,
                           at : 1 .. Len(History)]
             /\ HasDefaultsInstalled(p)
  <2>1. IsParagraphs(db[p]) /\ db[p].defaults \subseteq db[p].feats
    BY DEF PlanInv, DbTypeInv, IsDb, Installed
  <2>. QED
    BY <2>1 DEF IsParagraphs, HasDefaultsInstalled
<1>2. /\ removes \subseteq Installed /\ installs \subseteq DOMAIN info
      /\ \A p \in DOMAIN info : DOMAIN info[p].edges \subseteq Feat \cup {Core}
  BY DEF PlanInv, PlaceInv, DbTypeInv, IsInfo
<1>3. PlanTypeOK
  BY <1>1, <1>2 DEF PlanInv, DbTypeInv, IsDb, Installed, PlanTypeOK
<1>4. SortInv /\ SortedAll
  BY SortInvSorts DEF PlanInv
<1>. QED
  BY <1>1, <1>3, <1>4 DEF DbInv, LackInv

\* Whatever has been installed, upgraded, restored from the cache, removed and exported before, of ports
\* updated in between: a package lacks no more than what a run that kept going restored it without, so
\* that only such a run leads to msgCorruptedDatabase; the default features that it records are
\* installed; and each plan is sorted on its graph.
THEOREM DbInvHolds == Plans => []DbInv
<1>1. PlanInv /\ LackInv => DbInv
  BY PlanInvImpliesDbInv
<1>. QED
  BY <1>1, PlanInvHolds, LackInvHolds, PTL

(***************************************************************************)
(* Each step of the solver brings it nearer its end.                       *)
(***************************************************************************)
Reaches(p, q) == q \in Behind[at][p]

LEMMA ReachesFacts ==
    ASSUME at \in DOMAIN History, NEW p \in Pkg
    PROVE  /\ Reaches(p, p)
           /\ \A q \in Pkg : <<p, q>> \in Successors[at] => Reaches(p, q)
           /\ \A q, r \in Pkg : Reaches(p, q) /\ Reaches(q, r) => Reaches(p, r)
<1>. DEFINE R(q) == Behind[at][q]
<1>1. Successors[at] \in SUBSET (Pkg \X Pkg)
  BY DEF Successors
<1>2. ASSUME NEW q \in Pkg
      PROVE  /\ q \in R(q) /\ R(q) \subseteq Pkg /\ Closed(Successors[at], R(q))
             /\ \A T \in SUBSET Pkg : q \in T /\ Closed(Successors[at], T) => R(q) \subseteq T
  <2>1. {q} \in SUBSET Pkg /\ R(q) = Reached(Successors[at], {q})
    BY DEF Behind
  <2>. HIDE DEF R
  <2>. QED
    BY <1>1, <2>1, ReachedFacts
<1>3. \A q \in Pkg : q \in R(p) => R(q) \subseteq R(p)
  BY <1>2
<1>4. \A q \in Pkg : <<p, q>> \in Successors[at] => q \in R(p)
  BY <1>2 DEF Closed
<1>. QED
  BY <1>2, <1>3, <1>4 DEF Reaches

Beneath(t, s) ==
    \/ t[1] = s[1] /\ t[2] # Star /\ s[2] = Star
    \/ Reaches(s[1], t[1]) /\ ~ Reaches(t[1], s[1])

\* Lower entries are beneath in a strict partial order, so that none comes back in the place of those that
\* have taken its place.
LEMMA LowerIsBeneath ==
    ASSUME at \in DOMAIN History, NEW r \in FeatureSpec, NEW s \in FeatureSpec, NEW t \in FeatureSpec
    PROVE  /\ Lower(s, t) => Beneath(s, t)
           /\ ~ Beneath(s, s)
           /\ Beneath(r, s) /\ Beneath(s, t) => Beneath(r, t)
<1>1. r[1] \in Pkg /\ s[1] \in Pkg /\ t[1] \in Pkg
  BY DEF FeatureSpec
<1>2. Lower(s, t) => Beneath(s, t)
  BY <1>1, ReachesFacts DEF Lower, Beneath, Reaches
<1>3. Beneath(r, s) /\ Beneath(s, t) => Beneath(r, t)
  BY <1>1, ReachesFacts DEF Beneath
<1>. QED
  BY <1>1, <1>2, <1>3, ReachesFacts DEF Beneath

\* What waits for variables is of packages whose variables are not loaded.
BatchInv == \A s \in batch : s[1] \notin vars

LEMMA BatchStep == BatchInv /\ [NextPlan]_planVars => BatchInv'
<1>. SUFFICES ASSUME BatchInv, [NextPlan]_planVars
              PROVE  BatchInv'
  OBVIOUS
<1>1. CASE End
  BY <1>1 DEF End, BatchInv
<1>2. ASSUME NEW s \in todo, Take(s)
      PROVE  BatchInv'
  BY <1>2 DEF Take, NeedsVars, BatchInv
<1>3. CASE LoadVars
  BY <1>3 DEF LoadVars, BatchInv
<1>4. CASE UNCHANGED <<batch, vars>>
  BY <1>4 DEF BatchInv
<1>. QED
  BY <1>1, <1>2, <1>3, <1>4
     DEF NextPlan, planVars, solver, UpdatePorts, Run, Refuse, Install, Upgrade, Remove, Export, Exit, ExpandStar,
         AddToPlanned, AddNew, Keep, Reinstall, Serialize, Sorting, SerializeInstalls, Serialized, CycleExit, Execute,
         DryRun, RemoveSorted, ExportSorted

LEMMA SolvedParts ==
    ASSUME vars \subseteq vars', asked \subseteq asked', DOMAIN info \subseteq DOMAIN info',
           \A p \in DOMAIN info : info[p].requested => info'[p].requested,
           \A p \in DOMAIN info : DOMAIN info[p].edges \subseteq DOMAIN info'[p].edges
    PROVE  /\ Below(Solved, Solved') \/ Solved' = Solved
           /\ \/ vars' # vars \/ asked' # asked \/ DOMAIN info' # DOMAIN info
              \/ \E p \in DOMAIN info : info'[p].requested /\ ~ info[p].requested
              \/ \E k \in Key : HasInfo(k[1]) /\ k[2] \in DOMAIN info'[k[1]].edges /\ k[2] \notin DOMAIN info[k[1]].edges
              => Below(Solved, Solved')
<1>1. /\ Solved.vars \subseteq Solved'.vars /\ Solved.asked \subseteq Solved'.asked
      /\ Solved.planned \subseteq Solved'.planned
      /\ Solved.requested \subseteq Solved'.requested /\ Solved.features \subseteq Solved'.features
  BY DEF Solved, HasInfo
<1>2. DOMAIN Solved = {"vars", "asked", "planned", "requested", "features"}
  BY DEF Solved
<1>3. Solved' # Solved => Below(Solved, Solved')
  BY <1>1, <1>2 DEF Below
<1>4. vars' # vars => Solved' # Solved
  BY DEF Solved
<1>5. asked' # asked => Solved' # Solved
  BY DEF Solved
<1>6. DOMAIN info' # DOMAIN info => Solved' # Solved
  BY DEF Solved
<1>7. ASSUME NEW p \in DOMAIN info, info'[p].requested, ~ info[p].requested
      PROVE  Solved' # Solved
  <2>1. p \in Solved'.requested /\ p \notin Solved.requested
    BY <1>7 DEF Solved
  <2>. QED
    BY <2>1
<1>8. ASSUME NEW k \in Key, HasInfo(k[1]), k[2] \in DOMAIN info'[k[1]].edges, k[2] \notin DOMAIN info[k[1]].edges
      PROVE  Solved' # Solved
  <2>1. k \in Solved'.features /\ k \notin Solved.features
    BY <1>8 DEF Solved, HasInfo
  <2>. QED
    BY <2>1
<1>. QED
  BY <1>3, <1>4, <1>5, <1>6, <1>7, <1>8

Descends ==
    \/ Below(Solved, Solved')
    \/ /\ Solved' = Solved
       /\ \/ \E s \in todo \ todo' : \A t \in todo' \ todo : Lower(t, s)
          \/ QualifiedCycle

\* What add_feature does to an install info: it records the feature, or marks the defaults as requested,
\* or hands on nothing, or hands on what a feature with platform expressions needs of other packages.
LEMMA AddFeatureKinds ==
    ASSUME DbTypeInv, NEW p \in Pkg, NEW i, IsInfo(Tree, p, i), NEW f \in Tree.feats[p] \cup {Core, Default}
    PROVE  LET j == AddFeature(i, p, f)[1]
               out == AddFeature(i, p, f)[2]
           IN  /\ DOMAIN i.edges \subseteq DOMAIN j.edges
               /\ i.requested => j.requested
               /\ \/ f # Default /\ f \notin DOMAIN i.edges /\ f \in DOMAIN j.edges
                  \/ j.requested /\ ~ i.requested
                  \/ out = {}
                  \/ /\ <<p, f>> \in Tree.conditional /\ <<p, f>> \in Key
                     /\ out = {s \in Tree.needs[<<p, f>>] : s[1] # p}
<1>. DEFINE k == <<p, f>>
            deps == Tree.needs[k] \cup (IF p \in vars THEN Tree.needsIf[k] ELSE {})
            defaults == IF p \in vars \/ p \notin Tree.qualified THEN Tree.defaults[p] ELSE {}
            old == IF i.reduced /\ p \in Installed THEN db[p].defaults ELSE {}
            known == f # Default /\ (p \in vars \/ k \notin Tree.conditional)
<1>0. Tree.feats[p] \subseteq Feat /\ DOMAIN i = {"edges", "requested", "defaults", "reduced"} /\ i.requested \in BOOLEAN
  BY TreeFacts DEF DbTypeInv, IsInfo
<1>. SUFFICES ASSUME NEW j, NEW out, j = AddFeature(i, p, f)[1], out = AddFeature(i, p, f)[2]
              PROVE  /\ DOMAIN i.edges \subseteq DOMAIN j.edges
                     /\ i.requested => j.requested
                     /\ \/ f # Default /\ f \notin DOMAIN i.edges /\ f \in DOMAIN j.edges
                        \/ j.requested /\ ~ i.requested
                        \/ out = {}
                        \/ k \in Tree.conditional /\ k \in Key /\ out = {s \in Tree.needs[k] : s[1] # p}
  OBVIOUS
<1>1. CASE (f = Default /\ i.requested) \/ (f # Default /\ f \in DOMAIN i.edges)
  <2>1. AddFeature(i, p, f) = <<i, {}>>
    BY <1>1 DEF AddFeature
  <2>. QED
    BY <2>1
<1>2. CASE f = Default /\ ~ i.requested
  <2>. DEFINE loaded == p \in vars \/ p \notin Tree.qualified
              new == [i EXCEPT !.requested = loaded, !.defaults = defaults, !.reduced = FALSE]
  <2>1. AddFeature(i, p, f) = <<new, {<<p, d>> : d \in defaults \ old}>>
    BY <1>2 DEF AddFeature
  <2>2. new.edges = i.edges /\ new.requested = loaded
    BY <1>0
  <2>3. j = new /\ out = {<<p, d>> : d \in defaults \ old}
    BY <2>1
  <2>4. ~ loaded => out = {}
    BY <2>3
  <2>. HIDE DEF new
  <2>. QED
    BY <1>2, <2>2, <2>3, <2>4
<1>3. CASE known /\ f \notin DOMAIN i.edges
  <2>. DEFINE new == [i EXCEPT !.edges = Extended(@, f, deps)]
  <2>1. AddFeature(i, p, f) = <<new, deps>>
    BY <1>3 DEF AddFeature
  <2>2. new.edges = Extended(i.edges, f, deps) /\ new.requested = i.requested
    BY <1>0
  <2>3. j = new
    BY <2>1
  <2>. HIDE DEF new, deps
  <2>4. DOMAIN j.edges = DOMAIN i.edges \cup {f}
    BY <2>2, <2>3 DEF Extended
  <2>. QED
    BY <1>3, <2>2, <2>3, <2>4
<1>4. CASE f # Default /\ ~ known /\ f \notin DOMAIN i.edges
  <2>1. AddFeature(i, p, f) = <<i, {s \in deps : s[1] # p}>>
    BY <1>4 DEF AddFeature
  <2>2. j = i /\ out = {s \in deps : s[1] # p}
    BY <2>1
  <2>3. deps = Tree.needs[k] /\ k \in Tree.conditional
    BY <1>4
  <2>4. k \in Key
    BY <1>0, <1>4 DEF Key
  <2>. HIDE DEF deps
  <2>. QED
    BY <2>2, <2>3, <2>4
<1>. QED
  BY <1>1, <1>2, <1>3, <1>4

\* What a feature with platform expressions needs of other packages is lower than it.
LEMMA QualifiedLower ==
    ASSUME DbTypeInv, ~ QualifiedCycle, NEW k \in Key, k \in Tree.conditional, NEW t \in Tree.needs[k]
    PROVE  Lower(t, k)
<1>1. t \in FeatureSpec
  BY TreeFacts DEF DbTypeInv
<1>2. k[1] \in Pkg /\ k[2] \in Feat \cup {Core} /\ k = <<k[1], k[2]>> /\ t[1] \in Pkg
  BY <1>1 DEF Key, FeatureSpec
<1>3. PICK e : e = <<k[1], t[1]>>
  OBVIOUS
<1>4. e \in Successors[at]
  <2>1. t \in History[at].needs[<<e[1], k[2]>>] /\ t[1] = e[2] /\ at \in DOMAIN History
    BY <1>2, <1>3 DEF Tree, DbTypeInv
  <2>. QED
    BY <1>2, <1>3, <2>1 DEF Successors
<1>5. k[1] \notin Behind[at][e[2]]
  BY <1>3, <1>4 DEF QualifiedCycle
<1>. QED
  BY <1>3, <1>4, <1>5 DEF Lower

LEMMA AddingDescends ==
    ASSUME PlanInv, NEW s \in todo, NEW T, NEW i, NEW j, NEW out, Adding(s, T, i, j, out)
    PROVE  Descends
<1>. DEFINE p == s[1]
<1>1. /\ T \in SUBSET Pkg /\ p \in T \cup DOMAIN info
      /\ i = IF p \in DOMAIN info THEN info[p] ELSE NewInfo(p, asked)
  BY AddingFacts
<1>2. /\ Take(s) /\ s[2] # Star /\ asked' = asked
      /\ HasInfo(p) => T = {}
      /\ j = AddFeature(i, p, s[2])[1] /\ out = AddFeature(i, p, s[2])[2]
      /\ DOMAIN info' = DOMAIN info \cup T /\ info'[p] = j
      /\ \A q \in DOMAIN info : q # p => info'[q] = info[q]
      /\ todo' = (todo \ {s}) \cup out \cup UNION {ReinstallRequirements(q, asked) : q \in T \ DOMAIN info}
  BY DEF Adding, MustReinstall
<1>3. p \in Pkg /\ s = <<p, s[2]>> /\ s[2] \in Tree.feats[p] \cup {Core, Default} /\ vars' = vars
  BY <1>2, TakeFacts
<1>4. DbTypeInv /\ \A q \in DOMAIN info : IsInfo(Tree, q, info[q])
  BY DEF PlanInv, DbTypeInv
<1>5. CASE ~ HasInfo(p)
  <2>1. DOMAIN info' # DOMAIN info /\ \A q \in DOMAIN info : info'[q] = info[q]
    BY <1>1, <1>2, <1>5 DEF HasInfo
  <2>2. Below(Solved, Solved')
    BY <1>2, <1>3, <2>1, SolvedParts
  <2>. QED
    BY <2>2 DEF Descends
<1>6. CASE T = {} /\ HasInfo(p)
  <2>1. p \in DOMAIN info /\ i = info[p] /\ IsInfo(Tree, p, i)
    BY <1>1, <1>4, <1>6 DEF HasInfo
  <2>2. /\ DOMAIN i.edges \subseteq DOMAIN j.edges
        /\ i.requested => j.requested
        /\ \/ s[2] # Default /\ s[2] \notin DOMAIN i.edges /\ s[2] \in DOMAIN j.edges
           \/ j.requested /\ ~ i.requested
           \/ out = {}
           \/ s \in Tree.conditional /\ s \in Key /\ out = {t \in Tree.needs[s] : t[1] # p}
    <3>1. DbTypeInv /\ p \in Pkg /\ IsInfo(Tree, p, i)
      BY <1>3, <1>4, <2>1
    <3>. HIDE DEF p
    <3>2. ASSUME NEW f \in Tree.feats[p] \cup {Core, Default}, j = AddFeature(i, p, f)[1], out = AddFeature(i, p, f)[2]
          PROVE  /\ DOMAIN i.edges \subseteq DOMAIN j.edges
                 /\ i.requested => j.requested
                 /\ \/ f # Default /\ f \notin DOMAIN i.edges /\ f \in DOMAIN j.edges
                    \/ j.requested /\ ~ i.requested
                    \/ out = {}
                    \/ <<p, f>> \in Tree.conditional /\ <<p, f>> \in Key /\ out = {t \in Tree.needs[<<p, f>>] : t[1] # p}
      BY <3>1, <3>2, AddFeatureKinds
    <3>3. s[2] \in Tree.feats[p] \cup {Core, Default} /\ <<p, s[2]>> = s
      BY <1>3
    <3>. QED
      BY ONLY <1>2, <3>2, <3>3
  <2>3. UNION {ReinstallRequirements(q, asked) : q \in T \ DOMAIN info} = {}
    BY <1>6
  <2>4. todo' = (todo \ {s}) \cup out
    BY <1>2, <2>3
  <2>5. /\ DOMAIN info' = DOMAIN info
        /\ \A q \in DOMAIN info : info[q].requested => info'[q].requested
        /\ \A q \in DOMAIN info : DOMAIN info[q].edges \subseteq DOMAIN info'[q].edges
    BY <1>2, <1>6, <2>1, <2>2
  <2>6. Below(Solved, Solved') \/ Solved' = Solved
    BY <1>2, <1>3, <2>5, SolvedParts
  <2>7. CASE s[2] # Default /\ s[2] \notin DOMAIN i.edges /\ s[2] \in DOMAIN j.edges
    <3>1. s \in Key /\ HasInfo(s[1]) /\ s[2] \in DOMAIN info'[s[1]].edges /\ s[2] \notin DOMAIN info[s[1]].edges
      <4>1. s[2] \in Feat \cup {Core}
        BY <1>3, <1>4, <2>7, TreeFacts DEF DbTypeInv
      <4>. QED
        BY <1>2, <1>3, <1>6, <2>1, <2>7, <4>1 DEF Key
    <3>2. Below(Solved, Solved')
      BY <1>2, <1>3, <2>5, <3>1, SolvedParts
    <3>. QED
      BY <3>2 DEF Descends
  <2>8. CASE j.requested /\ ~ i.requested
    <3>1. Below(Solved, Solved')
      BY <1>2, <1>3, <2>1, <2>5, <2>8, SolvedParts
    <3>. QED
      BY <3>1 DEF Descends
  <2>9. CASE out = {}
    BY <2>4, <2>6, <2>9 DEF Descends
  <2>10. CASE s \in Tree.conditional /\ s \in Key /\ out = {t \in Tree.needs[s] : t[1] # p}
    <3>1. ~ QualifiedCycle => \A t \in out : Lower(t, s)
      BY <1>4, <2>10, QualifiedLower
    <3>2. s \notin todo'
      BY <2>4, <2>10
    <3>. QED
      BY <2>4, <2>6, <3>1, <3>2 DEF Descends
  <2>. QED
    BY <2>2, <2>7, <2>8, <2>9, <2>10
<1>. QED
  BY <1>2, <1>5, <1>6

LEMMA OthersDescend ==
    ASSUME PlanInv, BatchInv,
           LoadVars \/ \E s \in todo : ExpandStar(s) \/ Keep(s)
    PROVE  Descends
<1>1. CASE LoadVars
  <2>1. batch # {} /\ vars' = vars \cup {s[1] : s \in batch} /\ asked' = asked /\ info' = info
    BY <1>1 DEF LoadVars
  <2>2. vars' # vars
    BY <2>1 DEF BatchInv
  <2>. QED
    BY <2>1, <2>2, SolvedParts DEF Descends
<1>2. ASSUME NEW s \in todo, ExpandStar(s)
      PROVE  Descends
  <2>1. /\ Take(s) /\ s[2] = Star /\ UNCHANGED <<info, asked>>
        /\ todo' = (todo \ {s}) \cup {<<s[1], f>> : f \in Tree.feats[s[1]]}
    BY <1>2 DEF ExpandStar
  <2>2. s[1] \in Pkg /\ vars' = vars
    BY <2>1, TakeFacts
  <2>3. Star \notin Tree.feats[s[1]]
    BY <2>2, TreeFacts, NamesAssumption DEF PlanInv, DbTypeInv
  <2>4. s \notin todo' /\ \A t \in todo' \ todo : Lower(t, s)
    BY <2>1, <2>3 DEF Lower
  <2>5. Below(Solved, Solved') \/ Solved' = Solved
    BY <2>1, <2>2, SolvedParts
  <2>. QED
    BY <2>4, <2>5 DEF Descends
<1>3. ASSUME NEW s \in todo, Keep(s)
      PROVE  Descends
  <2>1. Take(s) /\ info' = info /\ todo' = todo \ {s} /\ asked \subseteq asked'
    BY <1>3 DEF Keep
  <2>2. vars' = vars
    BY <2>1, TakeFacts
  <2>3. Below(Solved, Solved') \/ Solved' = Solved
    BY <2>1, <2>2, SolvedParts
  <2>. QED
    BY <2>1, <2>3 DEF Descends
<1>. QED
  BY <1>1, <1>2, <1>3

\* Each step of a command brings its end nearer, for any ports, requests and updates: what the solver has
\* learnt and decided grows in a finite set, or an entry of next_dependencies is replaced by lower ones,
\* unless a package with platform expressions leads back to itself; and sorts follow no edge twice.
THEOREM PlanDescendsHolds == Plans => PlanDescends
<1>. DEFINE A == /\ Sorting => Below(SortLeft', SortLeft)
                 /\ pc = "solve" /\ pc' = "solve" => Descends
<1>1. PlanInv /\ BatchInv /\ NextPlan => A
  <2>. SUFFICES ASSUME PlanInv, BatchInv, NextPlan
                PROVE  A
    OBVIOUS
  <2>1. Sorting => Below(SortLeft', SortLeft)
    BY StepDescends DEF Sorting, PlanInv
  <2>2. ASSUME NEW s \in todo, AddToPlanned(s) \/ AddNew(s) \/ Reinstall(s)
        PROVE  Descends
    <3>1. PICK T, i, j, out : Adding(s, T, i, j, out)
      BY <2>2, AddToPlannedAdds, AddNewAdds, ReinstallAdds
    <3>. QED
      BY <3>1, AddingDescends
  <2>3. CASE LoadVars \/ \E s \in todo : ExpandStar(s) \/ Keep(s)
    BY <2>1, <2>3, OthersDescend
  <2>4. CASE pc # "solve" \/ pc' # "solve"
    BY <2>1, <2>4
  <2>5. \/ UpdatePorts \/ Refuse \/ Serialize \/ SerializeInstalls \/ Serialized \/ CycleExit \/ DryRun
        \/ RemoveSorted \/ ExportSorted
        => pc # "solve" \/ pc' # "solve"
    BY DEF UpdatePorts, Refuse, Run, Serialize, SerializeInstalls, Serialized, CycleExit, DryRun, End, RemoveSorted,
           ExportSorted
  <2>6. Sorting => pc # "solve"
    BY DEF Sorting
  <2>7. \A specs, action : Install(specs, action) \/ Upgrade(specs, action) \/ Remove(specs) \/ Export(specs) => pc # "solve"
    BY DEF Install, Upgrade, Remove, Export, Run
  <2>8. \A s, t, u, k : Exit(s) \/ Execute(s, t, u, k) => pc' # "solve"
    BY DEF Exit, Execute, End
  <2>. QED
    BY <2>1, <2>2, <2>3, <2>4, <2>5, <2>6, <2>7, <2>8 DEF NextPlan
<1>2. InitPlan => BatchInv
  BY DEF InitPlan, BatchInv
<1>3. PlanInv /\ BatchInv /\ [NextPlan]_planVars => [A]_planVars
  BY <1>1
<1>4. Plans => [](PlanInv /\ BatchInv)
  BY <1>2, BatchStep, PlanInvHolds, PTL DEF Plans
<1>5. Plans => [][A]_planVars
  BY <1>3, <1>4, PTL DEF Plans
<1>. QED
  BY <1>5 DEF PlanDescends, Descends
================================================================================
