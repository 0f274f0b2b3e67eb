--------------------- MODULE FlexBarrierXYPollingProofs ---------------------
(* Theorems about FlexBarrierXYPolling for every mesh, every number of      *)
(* cores, every number of calls, every width of the iteration words and     *)
(* every value they start from.                                             *)
EXTENDS FlexBarrierXYPollingInv, ClusterCoresProofs

USE GridAssumption, RoundsAssumption, IterationModAssumption

-----------------------------------------------------------------------------
(* The labels and the words. *)

LEMMA LabelFacts ==
  /\ WorkerLabels \subseteq Labels
  /\ \A l \in {"readX", "readY", "pollX"} \cup Leading \cup {"amoX"} : WorkLabel(l) /\ l \in Labels
  /\ "sync2" \in Labels /\ ~WorkLabel("sync2")
  BY DEF Labels, WorkerLabels, WorkLabel, Leading

\* A word that has been advanced has changed, even when it wraps around.
LEMMA IteratedChanges ==
  ASSUME NEW word \in Iterations
  PROVE  Iterated(word) \in Iterations /\ Iterated(word) # word
  BY AdvancedWord DEF Iterations, Iterated

LEMMA RoundTypes ==
  ASSUME TypeOK, NEW c \in Clusters
  PROVE  /\ Passed(c) \in Nat
         /\ RowOf(c) \in Rows
         /\ prev_x[c] \in Iterations /\ prev_y[c] \in Iterations
         /\ barrier_ix[RowOf(c)] \in Iterations /\ barrier_iy \in Iterations
<1>1. entered[<<c, DM>>] \in Nat
  BY EnteredNat DEF TypeOK
<1>2. RowOf(c) \in Rows
  BY DEF RowOf, Clusters
<1> QED BY <1>1, <1>2 DEF TypeOK, Passed

LEMMA TypeInit == Init => TypeOK
<1> SUFFICES ASSUME Init PROVE TypeOK
  OBVIOUS
<1>1. CoresType(Labels)
  BY DEF Init, CoresInit, CoresType, Labels, WorkerLabels
<1>2. 0 \in Iterations
  BY DEF Iterations
<1> QED BY <1>1, <1>2 DEF Init, TypeOK

-----------------------------------------------------------------------------
(* What a step leaves alone. *)

\* The counters are not touched, no cluster is counted and no leader moves.
LEMMA CountsFrame ==
  ASSUME TypeOK, NEW g \in Nat, NEW r \in [Rows -> Nat], RoundInv(g, r),
         UNCHANGED <<barrier_x, barrier_y>>,
         \A d \in Clusters :
           /\ Arrived(d, r)' <=> Arrived(d, r)
           /\ pc'[d][DM] = pc[d][DM] \/ {pc[d][DM], pc'[d][DM]} \cap Leading = {}
  PROVE  /\ \A y \in Rows : RowInStep(y, g, r)' /\ RowCounts(y, r)'
         /\ MeshCounts(g, r)'
<1>1. \A x \in Columns, y \in Rows : <<x, y>> \in Clusters
  BY DEF Clusters
<1>2. \A y \in Rows : ArrivedColumns(y, r)' = ArrivedColumns(y, r)
  BY <1>1 DEF ArrivedColumns
<1>3. \A y \in Rows, L \in SUBSET Leading : RowHas(y, L)' <=> RowHas(y, L)
  BY <1>1 DEF RowHas
<1>4. ASSUME NEW y \in Rows PROVE RowInStep(y, g, r)' /\ RowCounts(y, r)'
  <2>1. \A x1, x2 \in Columns :
          pc'[<<x1, y>>][DM] \in Leading /\ pc'[<<x2, y>>][DM] \in Leading => x1 = x2
    BY <1>1 DEF RoundInv, RowCounts
  <2>2. /\ RowHas(y, Leading)' <=> RowHas(y, Leading)
        /\ RowHas(y, {"resetX"})' <=> RowHas(y, {"resetX"})
        /\ RowHas(y, {"pollY", "iterateX"})' <=> RowHas(y, {"pollY", "iterateX"})
    BY <1>3 DEF Leading
  <2> QED BY <1>2, <2>1, <2>2 DEF RoundInv, RowInStep, RowCounts
<1>5. \A y \in Rows :
        /\ RowHas(y, {"resetY"})' <=> RowHas(y, {"resetY"})
        /\ RowHas(y, {"resetY", "iterateY"})' <=> RowHas(y, {"resetY", "iterateY"})
        /\ RowHas(y, {"resetY", "iterateY", "pollY"})'
             <=> RowHas(y, {"resetY", "iterateY", "pollY"})
  BY <1>3 DEF Leading
<1>6. ArrivedRows(g, r)' = ArrivedRows(g, r)
  BY <1>5 DEF ArrivedRows
<1>7. MeshCounts(g, r)'
  BY <1>5, <1>6 DEF RoundInv, MeshCounts
<1> QED BY <1>4, <1>7

\* A step of a data mover outside the lead: reading, or seeing the end.
LEMMA RoundReadX ==
  ASSUME TypeOK, NEW g \in Nat, NEW r \in [Rows -> Nat], RoundInv(g, r),
         NEW c \in Clusters, ReadX(c)
  PROVE  RoundInv(g, r)'
<1>1. /\ pc[c][DM] = "readX"
      /\ \A d \in Clusters : /\ pc'[d][DM] = IF d = c THEN "readY" ELSE pc[d][DM]
                             /\ Passed(d)' = Passed(d)
  BY PassedGoto, LabelFacts DEF ReadX, TypeOK
<1>2. /\ UNCHANGED <<barrier_x, barrier_y, barrier_ix, barrier_iy, prev_y>>
      /\ \A d \in Clusters : prev_x'[d] = IF d = c THEN barrier_ix[RowOf(c)] ELSE prev_x[d]
  BY DEF ReadX, TypeOK
<1>3. ASSUME NEW d \in Clusters PROVE InStep(d, g, r)' /\ Remembered(d, g, r)'
  BY <1>1, <1>2 DEF RoundInv, InStep, Remembered, Leading
<1>4. \A d \in Clusters :
        /\ Arrived(d, r)' <=> Arrived(d, r)
        /\ pc'[d][DM] = pc[d][DM] \/ {pc[d][DM], pc'[d][DM]} \cap Leading = {}
  BY <1>1 DEF Arrived, Counted, Leading
<1> QED BY <1>2, <1>3, <1>4, CountsFrame DEF RoundInv

LEMMA RoundReadY ==
  ASSUME TypeOK, NEW g \in Nat, NEW r \in [Rows -> Nat], RoundInv(g, r),
         NEW c \in Clusters, ReadY(c)
  PROVE  RoundInv(g, r)'
<1>1. /\ pc[c][DM] = "readY"
      /\ \A d \in Clusters : /\ pc'[d][DM] = IF d = c THEN "amoX" ELSE pc[d][DM]
                             /\ Passed(d)' = Passed(d)
  BY PassedGoto, LabelFacts DEF ReadY, TypeOK
<1>2. /\ UNCHANGED <<barrier_x, barrier_y, barrier_ix, barrier_iy, prev_x>>
      /\ \A d \in Clusters : prev_y'[d] = IF d = c THEN barrier_iy ELSE prev_y[d]
  BY DEF ReadY, TypeOK
<1>3. ASSUME NEW d \in Clusters PROVE InStep(d, g, r)' /\ Remembered(d, g, r)'
  BY <1>1, <1>2 DEF RoundInv, InStep, Remembered, Leading
<1>4. \A d \in Clusters :
        /\ Arrived(d, r)' <=> Arrived(d, r)
        /\ pc'[d][DM] = pc[d][DM] \/ {pc[d][DM], pc'[d][DM]} \cap Leading = {}
  BY <1>1 DEF Arrived, Counted, Leading
<1> QED BY <1>2, <1>3, <1>4, CountsFrame DEF RoundInv

\* A cluster that sees its row's word changed was counted in a barrier that the
\* row has announced since.
LEMMA RoundPollX ==
  ASSUME TypeOK, NEW g \in Nat, NEW r \in [Rows -> Nat], RoundInv(g, r),
         NEW c \in Clusters, PollX(c)
  PROVE  RoundInv(g, r)'
<1>1. /\ pc[c][DM] = "pollX"
      /\ \A d \in Clusters :
           /\ pc'[d][DM] = IF d = c THEN "sync2" ELSE pc[d][DM]
           /\ Passed(d)' = IF d = c THEN Passed(d) + 1 ELSE Passed(d)
  BY PassedGoto, LabelFacts DEF PollX, TypeOK
<1>2. UNCHANGED <<barrier_x, barrier_y, barrier_ix, barrier_iy, prev_x, prev_y>>
  BY DEF PollX
<1>3. Passed(c) = r[RowOf(c)] - 1 /\ Passed(c) \in Nat /\ r[RowOf(c)] \in Nat
  BY <1>1, RoundTypes DEF PollX, RoundInv, InStep, Remembered
<1>4. ASSUME NEW d \in Clusters PROVE InStep(d, g, r)' /\ Remembered(d, g, r)'
  BY <1>1, <1>2, <1>3 DEF RoundInv, InStep, Remembered, Leading
<1>5. \A d \in Clusters :
        /\ Arrived(d, r)' <=> Arrived(d, r)
        /\ pc'[d][DM] = pc[d][DM] \/ {pc[d][DM], pc'[d][DM]} \cap Leading = {}
  BY <1>1, <1>3 DEF Arrived, Counted, Leading
<1> QED BY <1>2, <1>4, <1>5, CountsFrame DEF RoundInv

LEMMA RoundCall ==
  ASSUME TypeOK, SyncInv, NEW g \in Nat, NEW r \in [Rows -> Nat], RoundInv(g, r),
         NEW c \in Clusters, NEW k \in Cores, CoreStep(c, k)
  PROVE  RoundInv(g, r)'
<1>1. CallStep(c, k, "readX") /\ WorkLabel("readX") /\ CoresType(Labels)
  BY LabelFacts DEF CoreStep, Enter, SecondSync, CallStep, TypeOK
<1>2. ASSUME NEW d \in Clusters
      PROVE  /\ Passed(d)' = Passed(d)
             /\ \/ pc'[d][DM] = pc[d][DM]
                \/ {pc[d][DM], pc'[d][DM]} \subseteq WorkerLabels \cup {"readX"}
  BY <1>1, PassedCall
<1>3. UNCHANGED <<barrier_x, barrier_y, barrier_ix, barrier_iy, prev_x, prev_y>>
  BY DEF CoreStep, Enter, SecondSync
<1>4. ASSUME NEW d \in Clusters PROVE InStep(d, g, r)' /\ Remembered(d, g, r)'
  BY <1>2, <1>3 DEF RoundInv, InStep, Remembered, Leading, WorkerLabels
<1>5. \A d \in Clusters :
        /\ Arrived(d, r)' <=> Arrived(d, r)
        /\ pc'[d][DM] = pc[d][DM] \/ {pc[d][DM], pc'[d][DM]} \cap Leading = {}
  BY <1>2 DEF Arrived, Counted, Leading, WorkerLabels
<1> QED BY <1>3, <1>4, <1>5, CountsFrame DEF RoundInv
-----------------------------------------------------------------------------
(* The lead of a row. *)

\* A cluster that leads its row: the row is full, no other cluster leads it, the
\* rest of it polls, and nobody in it has passed the barrier that is ending.
LEMMA LeaderAlone ==
  ASSUME TypeOK, NEW g \in Nat, NEW r \in [Rows -> Nat], RoundInv(g, r),
         NEW x0 \in Columns, NEW y0 \in Rows, pc[<<x0, y0>>][DM] \in Leading
  PROVE  /\ ArrivedColumns(y0, r) = Columns
         /\ \A x \in Columns : /\ x # x0 => pc[<<x, y0>>][DM] = "pollX"
                               /\ Passed(<<x, y0>>) = r[y0]
         /\ \A L \in SUBSET Leading : RowHas(y0, L) <=> pc[<<x0, y0>>][DM] \in L
<1>1. RowCounts(y0, r)
  BY DEF RoundInv
<1>2. ArrivedColumns(y0, r) = Columns
  BY <1>1 DEF RowCounts, RowHas
<1>3. \A x \in Columns : Counted(<<x, y0>>) /\ Passed(<<x, y0>>) = r[y0]
  BY <1>2 DEF ArrivedColumns, Arrived, RowOf
<1>4. \A x \in Columns : x # x0 => pc[<<x, y0>>][DM] \notin Leading
  BY <1>1 DEF RowCounts
<1>5. \A L \in SUBSET Leading : RowHas(y0, L) <=> pc[<<x0, y0>>][DM] \in L
  BY <1>4 DEF RowHas
<1> QED BY <1>2, <1>3, <1>4, <1>5 DEF Counted

\* The leader of a row goes on to its next label of the lead: who is counted
\* and who leads stay the same.
LEMMA LeaderMove ==
  ASSUME TypeOK, NEW g \in Nat, NEW r \in [Rows -> Nat], RoundInv(g, r),
         NEW x0 \in Columns, NEW y0 \in Rows,
         NEW from \in Leading, NEW to \in Leading, Goto(<<x0, y0>>, from, to)
  PROVE  /\ pc[<<x0, y0>>][DM] = from
         /\ \A d \in Clusters :
              /\ pc'[d][DM] = IF d = <<x0, y0>> THEN to ELSE pc[d][DM]
              /\ Passed(d)' = Passed(d)
         /\ \A y \in Rows : ArrivedColumns(y, r)' = ArrivedColumns(y, r)
         /\ \A L \in SUBSET Leading : /\ RowHas(y0, L) <=> from \in L
                                      /\ RowHas(y0, L)' <=> to \in L
         /\ \A y \in Rows : y # y0 => \A L : (RowHas(y, L)' <=> RowHas(y, L))
         /\ \A y \in Rows, x1, x2 \in Columns :
              pc'[<<x1, y>>][DM] \in Leading /\ pc'[<<x2, y>>][DM] \in Leading => x1 = x2
<1>1. \A x \in Columns, y \in Rows : <<x, y>> \in Clusters
  BY DEF Clusters
<1>2. WorkLabel(from) /\ WorkLabel(to) /\ CoresType(Labels)
  BY LabelFacts DEF TypeOK
<1>3. /\ pc[<<x0, y0>>][DM] = from
      /\ \A d \in Clusters : /\ pc'[d][DM] = IF d = <<x0, y0>> THEN to ELSE pc[d][DM]
                             /\ Passed(d)' = Passed(d)
  BY <1>1, <1>2, PassedGoto DEF WorkLabel, WorkerLabels
<1>4. \A d \in Clusters : Arrived(d, r)' <=> Arrived(d, r)
  BY <1>3 DEF Arrived, Counted
<1>5. \A y \in Rows : ArrivedColumns(y, r)' = ArrivedColumns(y, r)
  BY <1>1, <1>4 DEF ArrivedColumns
<1>6. /\ \A x \in Columns : x # x0 => pc[<<x, y0>>][DM] \notin Leading
      /\ \A L \in SUBSET Leading : RowHas(y0, L) <=> from \in L
  BY <1>3, LeaderAlone DEF Leading
<1>7. \A L \in SUBSET Leading : RowHas(y0, L)' <=> to \in L
  BY <1>1, <1>3, <1>6 DEF RowHas
<1>8. \A y \in Rows : y # y0 => \A L : (RowHas(y, L)' <=> RowHas(y, L))
  BY <1>1, <1>3 DEF RowHas
<1>9. \A y \in Rows, x1, x2 \in Columns :
        pc'[<<x1, y>>][DM] \in Leading /\ pc'[<<x2, y>>][DM] \in Leading => x1 = x2
  <2> TAKE y \in Rows, x1 \in Columns, x2 \in Columns
  <2>1. CASE y = y0
    BY <2>1, <1>1, <1>3, <1>6
  <2>2. CASE y # y0
    BY <2>2, <1>1, <1>3 DEF RoundInv, RowCounts
  <2> QED BY <2>1, <2>2
<1> QED BY <1>3, <1>5, <1>6, <1>7, <1>8, <1>9

\* Nobody counts a cluster of a row whose leader is at work, so such a row is a
\* row whose barrier the mesh has not announced, except at the lead's very end.
LEMMA LeaderMoveRows ==
  ASSUME TypeOK, NEW g \in Nat, NEW r \in [Rows -> Nat], RoundInv(g, r),
         NEW x0 \in Columns, NEW y0 \in Rows,
         NEW from \in Leading \ {"iterateX"}, NEW to \in Leading \ {"resetX"},
         Goto(<<x0, y0>>, from, to),
         to = "iterateX" \/ r[y0] = g,
         \A y \in Rows : barrier_x'[y] = IF y = y0 THEN 0 ELSE barrier_x[y]
  PROVE  \A y \in Rows : RowInStep(y, g, r)' /\ RowCounts(y, r)'
<1>1. /\ \A y \in Rows : ArrivedColumns(y, r)' = ArrivedColumns(y, r)
      /\ \A L \in SUBSET Leading : RowHas(y0, L)' <=> to \in L
      /\ \A y \in Rows : y # y0 => \A L : (RowHas(y, L)' <=> RowHas(y, L))
      /\ \A y \in Rows, x1, x2 \in Columns :
           pc'[<<x1, y>>][DM] \in Leading /\ pc'[<<x2, y>>][DM] \in Leading => x1 = x2
      /\ pc[<<x0, y0>>][DM] = from
  BY LeaderMove
<1>2. ArrivedColumns(y0, r) = Columns
  BY <1>1, LeaderAlone
<1>3. /\ RowHas(y0, Leading)' /\ ~RowHas(y0, {"resetX"})'
      /\ RowHas(y0, {"pollY", "iterateX"})' <=> to \in {"pollY", "iterateX"}
  BY <1>1 DEF Leading
<1>4. RowInStep(y0, g, r)' /\ RowCounts(y0, r)'
  BY <1>1, <1>2, <1>3 DEF RoundInv, RowInStep, RowCounts
<1>5. ASSUME NEW y \in Rows, y # y0 PROVE RowInStep(y, g, r)' /\ RowCounts(y, r)'
  BY <1>1, <1>5 DEF RoundInv, RowInStep, RowCounts
<1> QED BY <1>4, <1>5

LEMMA RoundResetX ==
  ASSUME TypeOK, NEW g \in Nat, NEW r \in [Rows -> Nat], RoundInv(g, r),
         NEW c \in Clusters, ResetX(c)
  PROVE  RoundInv(g, r)'
<1>1. PICK x0 \in Columns, y0 \in Rows : c = <<x0, y0>>
  BY DEF Clusters
<1>2. /\ Goto(<<x0, y0>>, "resetX", "amoY")
      /\ UNCHANGED <<barrier_y, barrier_ix, barrier_iy, prev_x, prev_y>>
      /\ \A y \in Rows : barrier_x'[y] = IF y = y0 THEN 0 ELSE barrier_x[y]
  BY <1>1 DEF ResetX, RowOf, TypeOK
<1>3. "resetX" \in Leading \ {"iterateX"} /\ "amoY" \in Leading \ {"resetX"}
  BY DEF Leading
<1>4. /\ pc[c][DM] = "resetX"
      /\ \A d \in Clusters : /\ pc'[d][DM] = IF d = c THEN "amoY" ELSE pc[d][DM]
                             /\ Passed(d)' = Passed(d)
      /\ \A L \in SUBSET Leading : /\ RowHas(y0, L) <=> "resetX" \in L
                                   /\ RowHas(y0, L)' <=> "amoY" \in L
      /\ \A y \in Rows : y # y0 => \A L : (RowHas(y, L)' <=> RowHas(y, L))
  BY <1>1, <1>2, <1>3, LeaderMove
<1>5. r[y0] = g
  BY <1>1, <1>4 DEF RoundInv, InStep, RowOf
<1>6. \A y \in Rows : RowInStep(y, g, r)' /\ RowCounts(y, r)'
  BY <1>2, <1>3, <1>5, LeaderMoveRows
<1>7. ASSUME NEW d \in Clusters PROVE InStep(d, g, r)' /\ Remembered(d, g, r)'
  BY <1>2, <1>4, <1>1, <1>5 DEF RoundInv, InStep, Remembered, Leading, RowOf
<1>8. /\ ~RowHas(y0, {"resetY"}) /\ ~RowHas(y0, {"resetY"})'
      /\ ~RowHas(y0, {"resetY", "iterateY"}) /\ ~RowHas(y0, {"resetY", "iterateY"})'
      /\ ~RowHas(y0, {"resetY", "iterateY", "pollY"})
      /\ ~RowHas(y0, {"resetY", "iterateY", "pollY"})'
  BY <1>4 DEF Leading
<1>9. ArrivedRows(g, r)' = ArrivedRows(g, r)
  BY <1>4, <1>8 DEF ArrivedRows
<1>10. MeshCounts(g, r)'
  <2>1. \A y \in Rows :
          /\ RowHas(y, {"resetY"})' <=> RowHas(y, {"resetY"})
          /\ RowHas(y, {"resetY", "iterateY"})' <=> RowHas(y, {"resetY", "iterateY"})
    BY <1>4, <1>8
  <2> QED BY <2>1, <1>2, <1>9 DEF RoundInv, MeshCounts
<1> QED BY <1>6, <1>7, <1>10 DEF RoundInv

LEMMA RoundAmoY ==
  ASSUME TypeOK, NEW g \in Nat, NEW r \in [Rows -> Nat], RoundInv(g, r),
         NEW c \in Clusters, AmoY(c)
  PROVE  RoundInv(g, r)' /\ barrier_y' \in 0 .. NumY
<1>1. PICK x0 \in Columns, y0 \in Rows : c = <<x0, y0>>
  BY DEF Clusters
<1>2. PICK to : /\ to = IF barrier_y = NumY - 1 THEN "resetY" ELSE "pollY"
                /\ Goto(<<x0, y0>>, "amoY", to)
                /\ UNCHANGED <<barrier_x, barrier_ix, barrier_iy, prev_x, prev_y>>
                /\ barrier_y' = barrier_y + 1
  BY <1>1 DEF AmoY
<1>3. /\ "amoY" \in Leading \ {"iterateX"} /\ to \in Leading \ {"resetX"}
      /\ to \in {"resetY", "pollY"}
  BY <1>2 DEF Leading
<1>4. /\ pc[c][DM] = "amoY"
      /\ \A d \in Clusters : /\ pc'[d][DM] = IF d = c THEN to ELSE pc[d][DM]
                             /\ Passed(d)' = Passed(d)
      /\ \A L \in SUBSET Leading : /\ RowHas(y0, L) <=> "amoY" \in L
                                   /\ RowHas(y0, L)' <=> to \in L
      /\ \A y \in Rows : y # y0 => \A L : (RowHas(y, L)' <=> RowHas(y, L))
  BY <1>1, <1>2, <1>3, LeaderMove
<1>5. r[y0] = g
  BY <1>1, <1>4 DEF RoundInv, InStep, RowOf
<1>6. \A y \in Rows : RowInStep(y, g, r)' /\ RowCounts(y, r)'
  <2>1. barrier_x[y0] = 0
    <3>1. ArrivedColumns(y0, r) = Columns /\ ~RowHas(y0, {"resetX"})
      BY <1>1, <1>3, <1>4, LeaderAlone DEF Leading
    <3> QED BY <3>1 DEF RoundInv, RowCounts
  <2>2. \A y \in Rows : barrier_x'[y] = IF y = y0 THEN 0 ELSE barrier_x[y]
    BY <1>2, <2>1
  <2> QED BY <1>2, <1>3, <1>5, <2>2, LeaderMoveRows
<1>7. ASSUME NEW d \in Clusters PROVE InStep(d, g, r)' /\ Remembered(d, g, r)'
  <2>1. Remembered(c, g, r)
    BY DEF RoundInv
  <2> QED BY <1>2, <1>3, <1>4, <1>1, <1>5, <2>1 DEF RoundInv, InStep, Remembered, Leading, RowOf
<1>8. /\ ~RowHas(y0, {"resetY", "iterateY"})
      /\ RowHas(y0, {"resetY"})' <=> to = "resetY"
      /\ RowHas(y0, {"resetY", "iterateY"})' <=> to = "resetY"
      /\ ~RowHas(y0, {"resetY", "iterateY", "pollY"})
      /\ RowHas(y0, {"resetY", "iterateY", "pollY"})'
  BY <1>3, <1>4 DEF Leading
<1>9. ArrivedRows(g, r)' = ArrivedRows(g, r) \cup {y0} /\ y0 \notin ArrivedRows(g, r)
  BY <1>4, <1>5, <1>8 DEF ArrivedRows
\* Nobody leads the mesh before its last row is counted.
<1>10. ArrivedRows(g, r) # Rows /\ ~\E y \in Rows : RowHas(y, {"resetY", "iterateY"})
  BY <1>9 DEF RoundInv, MeshCounts
<1>11. barrier_y = Cardinality(ArrivedRows(g, r))
  BY <1>10 DEF RoundInv, MeshCounts
<1>12. /\ Cardinality(ArrivedRows(g, r)') = Cardinality(ArrivedRows(g, r)) + 1
       /\ Cardinality(ArrivedRows(g, r)) = NumY - 1 <=> ArrivedRows(g, r)' = Rows
       /\ Cardinality(ArrivedRows(g, r)) \in Nat /\ Cardinality(ArrivedRows(g, r)) < NumY
  <2>1. ArrivedRows(g, r) \subseteq Rows
    BY DEF ArrivedRows
  <2> QED BY <1>9, <2>1, OneMore, Intervals
<1>13. \A y \in Rows : /\ RowHas(y, {"resetY"})' <=> y = y0 /\ to = "resetY"
                       /\ RowHas(y, {"resetY", "iterateY"})' <=> y = y0 /\ to = "resetY"
  <2>1. \A y \in Rows : RowHas(y, {"resetY"}) => RowHas(y, {"resetY", "iterateY"})
    BY DEF RowHas
  <2> QED BY <2>1, <1>4, <1>8, <1>10
<1>14. MeshCounts(g, r)'
  <2>1. ArrivedRows(g, r)' = Rows <=> to = "resetY"
    BY <1>2, <1>11, <1>12
  <2> QED BY <2>1, <1>2, <1>11, <1>12, <1>13 DEF MeshCounts
<1>15. barrier_y' \in 0 .. NumY
  BY <1>2, <1>11, <1>12
<1> QED BY <1>6, <1>7, <1>14, <1>15 DEF RoundInv

LEMMA RoundResetY ==
  ASSUME TypeOK, NEW g \in Nat, NEW r \in [Rows -> Nat], RoundInv(g, r),
         NEW c \in Clusters, ResetY(c)
  PROVE  RoundInv(g, r)'
<1>1. PICK x0 \in Columns, y0 \in Rows : c = <<x0, y0>>
  BY DEF Clusters
<1>2. /\ Goto(<<x0, y0>>, "resetY", "iterateY") /\ barrier_y' = 0
      /\ UNCHANGED <<barrier_x, barrier_ix, barrier_iy, prev_x, prev_y>>
  BY <1>1 DEF ResetY
<1>3. "resetY" \in Leading \ {"iterateX"} /\ "iterateY" \in Leading \ {"resetX"}
  BY DEF Leading
<1>4. /\ pc[c][DM] = "resetY"
      /\ \A d \in Clusters : /\ pc'[d][DM] = IF d = c THEN "iterateY" ELSE pc[d][DM]
                             /\ Passed(d)' = Passed(d)
      /\ \A L \in SUBSET Leading : /\ RowHas(y0, L) <=> "resetY" \in L
                                   /\ RowHas(y0, L)' <=> "iterateY" \in L
      /\ \A y \in Rows : y # y0 => \A L : (RowHas(y, L)' <=> RowHas(y, L))
  BY <1>1, <1>2, <1>3, LeaderMove
<1>5. r[y0] = g
  BY <1>1, <1>4 DEF RoundInv, InStep, RowOf
<1>6. \A y \in Rows : RowInStep(y, g, r)' /\ RowCounts(y, r)'
  <2>1. barrier_x[y0] = 0
    <3>1. ArrivedColumns(y0, r) = Columns /\ ~RowHas(y0, {"resetX"})
      BY <1>1, <1>3, <1>4, LeaderAlone DEF Leading
    <3> QED BY <3>1 DEF RoundInv, RowCounts
  <2>2. \A y \in Rows : barrier_x'[y] = IF y = y0 THEN 0 ELSE barrier_x[y]
    BY <1>2, <2>1
  <2> QED BY <1>2, <1>3, <1>5, <2>2, LeaderMoveRows
<1>7. ASSUME NEW d \in Clusters PROVE InStep(d, g, r)' /\ Remembered(d, g, r)'
  BY <1>2, <1>4, <1>1, <1>5 DEF RoundInv, InStep, Remembered, Leading, RowOf
<1>8. /\ ~RowHas(y0, {"resetY"})'
      /\ RowHas(y0, {"resetY", "iterateY"}) /\ RowHas(y0, {"resetY", "iterateY"})'
      /\ RowHas(y0, {"resetY", "iterateY", "pollY"})
      /\ RowHas(y0, {"resetY", "iterateY", "pollY"})'
  BY <1>4 DEF Leading
<1>9. ArrivedRows(g, r)' = ArrivedRows(g, r) /\ ArrivedRows(g, r) = Rows
  BY <1>4, <1>8 DEF ArrivedRows, RoundInv, MeshCounts
<1>10. \A y \in Rows : RowHas(y, {"resetY", "iterateY"}) => y = y0
  BY <1>8 DEF RoundInv, MeshCounts
<1>11. \A y \in Rows : /\ ~RowHas(y, {"resetY"})'
                       /\ RowHas(y, {"resetY", "iterateY"})' <=> y = y0
  <2>1. \A y \in Rows : RowHas(y, {"resetY"}) => RowHas(y, {"resetY", "iterateY"})
    BY DEF RowHas
  <2> QED BY <2>1, <1>4, <1>8, <1>10
<1>12. MeshCounts(g, r)'
  BY <1>2, <1>9, <1>11 DEF MeshCounts
<1> QED BY <1>6, <1>7, <1>12 DEF RoundInv

\* The leader of a row that sees the mesh's word changed announces a barrier
\* that the mesh has announced.
LEMMA RoundPollY ==
  ASSUME TypeOK, NEW g \in Nat, NEW r \in [Rows -> Nat], RoundInv(g, r),
         NEW c \in Clusters, PollY(c)
  PROVE  RoundInv(g, r)'
<1>1. PICK x0 \in Columns, y0 \in Rows : c = <<x0, y0>>
  BY DEF Clusters
<1>2. /\ Goto(<<x0, y0>>, "pollY", "iterateX") /\ barrier_iy # prev_y[c]
      /\ UNCHANGED <<barrier_x, barrier_y, barrier_ix, barrier_iy, prev_x, prev_y>>
  BY <1>1 DEF PollY
<1>3. "pollY" \in Leading \ {"iterateX"} /\ "iterateX" \in Leading \ {"resetX"}
  BY DEF Leading
<1>4. /\ pc[c][DM] = "pollY"
      /\ \A d \in Clusters : /\ pc'[d][DM] = IF d = c THEN "iterateX" ELSE pc[d][DM]
                             /\ Passed(d)' = Passed(d)
      /\ \A L \in SUBSET Leading : /\ RowHas(y0, L) <=> "pollY" \in L
                                   /\ RowHas(y0, L)' <=> "iterateX" \in L
      /\ \A y \in Rows : y # y0 => \A L : (RowHas(y, L)' <=> RowHas(y, L))
  <2>1. Goto(<<x0, y0>>, "pollY", "iterateX") /\ "pollY" \in Leading /\ "iterateX" \in Leading
    BY <1>2, <1>3
  <2> QED BY <1>1, <2>1, LeaderMove
<1>5. r[y0] = g - 1
  <2>1. r[y0] # g
    BY <1>1, <1>2, <1>4 DEF RoundInv, Remembered, RowOf
  <2> QED BY <2>1 DEF RoundInv, RowInStep
<1>6. \A y \in Rows : RowInStep(y, g, r)' /\ RowCounts(y, r)'
  <2>1. barrier_x[y0] = 0
    <3>1. ArrivedColumns(y0, r) = Columns /\ ~RowHas(y0, {"resetX"})
      BY <1>1, <1>3, <1>4, LeaderAlone DEF Leading
    <3> QED BY <3>1 DEF RoundInv, RowCounts
  <2>2. \A y \in Rows : barrier_x'[y] = IF y = y0 THEN 0 ELSE barrier_x[y]
    BY <1>2, <2>1
  <2> QED BY <1>2, <1>3, <2>2, LeaderMoveRows
<1>7. ASSUME NEW d \in Clusters PROVE InStep(d, g, r)' /\ Remembered(d, g, r)'
  BY <1>2, <1>4, <1>1, <1>5 DEF RoundInv, InStep, Remembered, Leading, RowOf
<1>8. /\ ~RowHas(y0, {"resetY"}) /\ ~RowHas(y0, {"resetY"})'
      /\ ~RowHas(y0, {"resetY", "iterateY"}) /\ ~RowHas(y0, {"resetY", "iterateY"})'
  BY <1>4 DEF Leading
<1>9. ArrivedRows(g, r)' = ArrivedRows(g, r)
  BY <1>4, <1>5 DEF ArrivedRows
<1>10. MeshCounts(g, r)'
  <2>1. \A y \in Rows :
          /\ RowHas(y, {"resetY"})' <=> RowHas(y, {"resetY"})
          /\ RowHas(y, {"resetY", "iterateY"})' <=> RowHas(y, {"resetY", "iterateY"})
    BY <1>4, <1>8
  <2> QED BY <2>1, <1>2, <1>9 DEF RoundInv, MeshCounts
<1> QED BY <1>6, <1>7, <1>10 DEF RoundInv

\* The leader of the mesh announces the barrier: every row is full, and every
\* cluster that is counted polls, so nobody has remembered the word for later.
LEMMA RoundIterateY ==
  ASSUME TypeOK, NEW g \in Nat, NEW r \in [Rows -> Nat], RoundInv(g, r),
         NEW c \in Clusters, IterateY(c)
  PROVE  RoundInv(g + 1, r)'
<1>1. PICK x0 \in Columns, y0 \in Rows : c = <<x0, y0>>
  BY DEF Clusters
<1>2. /\ Goto(<<x0, y0>>, "iterateY", "iterateX") /\ barrier_iy' = Iterated(barrier_iy)
      /\ UNCHANGED <<barrier_x, barrier_y, barrier_ix, prev_x, prev_y>>
  BY <1>1 DEF IterateY
<1>3. /\ pc[c][DM] = "iterateY"
      /\ \A d \in Clusters : /\ pc'[d][DM] = IF d = c THEN "iterateX" ELSE pc[d][DM]
                             /\ Passed(d)' = Passed(d)
      /\ \A y \in Rows : ArrivedColumns(y, r)' = ArrivedColumns(y, r)
      /\ \A L \in SUBSET Leading : /\ RowHas(y0, L) <=> "iterateY" \in L
                                   /\ RowHas(y0, L)' <=> "iterateX" \in L
      /\ \A y \in Rows : y # y0 => \A L : (RowHas(y, L)' <=> RowHas(y, L))
      /\ \A y \in Rows, x1, x2 \in Columns :
           pc'[<<x1, y>>][DM] \in Leading /\ pc'[<<x2, y>>][DM] \in Leading => x1 = x2
  <2>1. /\ Goto(<<x0, y0>>, "iterateY", "iterateX")
        /\ "iterateY" \in Leading /\ "iterateX" \in Leading
    BY <1>2 DEF Leading
  <2> QED BY <1>1, <2>1, LeaderMove
<1>4. RowHas(y0, {"resetY", "iterateY"}) /\ ~RowHas(y0, {"resetY"})
  BY <1>3 DEF Leading
<1>5. /\ ArrivedRows(g, r) = Rows
      /\ \A y \in Rows : RowHas(y, {"resetY", "iterateY"}) => y = y0
  BY <1>4 DEF RoundInv, MeshCounts
<1>6. ASSUME NEW y \in Rows, y # y0
      PROVE  /\ r[y] = g /\ RowHas(y, {"pollY"})
             /\ ~RowHas(y, {"resetY"}) /\ ~RowHas(y, {"resetY", "iterateY"})
  <2>1. r[y] = g /\ RowHas(y, {"resetY", "iterateY", "pollY"})
    BY <1>5 DEF ArrivedRows
  <2>2. ~RowHas(y, {"resetY", "iterateY"})
    BY <1>5, <1>6
  <2> QED BY <2>1, <2>2 DEF RowHas
<1>7. r[y0] = g
  BY <1>5 DEF ArrivedRows
\* Where everybody is: the other leaders and the rest of the rows poll.
<1>8. ASSUME NEW d \in Clusters, d # c PROVE pc[d][DM] \in {"pollX", "pollY"}
  <2>1. PICK x \in Columns, y \in Rows : d = <<x, y>>
    BY DEF Clusters
  <2>2. CASE y = y0
    BY <1>1, <1>3, <1>8, <2>1, <2>2, LeaderAlone DEF Leading
  <2>3. CASE y # y0
    <3>1. PICK x1 \in Columns : pc[<<x1, y>>][DM] = "pollY"
      BY <1>6, <2>3 DEF RowHas
    <3>2. x # x1 => pc[<<x, y>>][DM] = "pollX"
      BY <3>1, LeaderAlone DEF Leading
    <3> QED BY <2>1, <3>1, <3>2
  <2> QED BY <2>2, <2>3
<1>9. ASSUME NEW d \in Clusters PROVE InStep(d, g + 1, r)' /\ Remembered(d, g + 1, r)'
  <2>1. RowOf(d) \in Rows /\ r[RowOf(d)] = g
    BY <1>6, <1>7 DEF RowOf, Clusters
  <2>2. InStep(d, g, r) /\ Remembered(d, g, r)
    BY DEF RoundInv
  <2>3. CASE d = c
    BY <1>2, <1>3, <2>1, <2>2, <2>3 DEF InStep, Remembered, Leading
  <2>4. CASE d # c
    <3>1. pc[d][DM] \in {"pollX", "pollY"} /\ pc'[d][DM] = pc[d][DM]
      BY <1>3, <1>8, <2>4
    <3> QED BY <1>2, <1>3, <2>1, <2>2, <3>1 DEF InStep, Remembered, Leading
  <2> QED BY <2>3, <2>4
<1>10. ASSUME NEW y \in Rows PROVE RowInStep(y, g + 1, r)' /\ RowCounts(y, r)'
  <2>1. RowHas(y, {"pollY", "iterateX"})' /\ r[y] = g
    <3>1. CASE y = y0
      BY <1>3, <1>7, <3>1 DEF Leading
    <3>2. CASE y # y0
      BY <1>3, <1>6, <3>2 DEF RowHas
    <3> QED BY <3>1, <3>2
  <2>2. RowInStep(y, g + 1, r)'
    BY <2>1 DEF RowInStep
  <2>3. /\ RowHas(y, Leading)' <=> RowHas(y, Leading)
        /\ RowHas(y, {"resetX"})' <=> RowHas(y, {"resetX"})
    BY <1>3 DEF Leading
  <2>4. RowCounts(y, r)'
    BY <1>2, <1>3, <2>3 DEF RoundInv, RowCounts
  <2> QED BY <2>2, <2>4
<1>11. MeshCounts(g + 1, r)'
  <2>1. \A y \in Rows : ~RowHas(y, {"resetY"})' /\ ~RowHas(y, {"resetY", "iterateY"})'
    <3> TAKE y \in Rows
    <3>1. CASE y = y0
      BY <1>3, <3>1 DEF Leading
    <3>2. CASE y # y0
      BY <1>3, <1>6, <3>2
    <3> QED BY <3>1, <3>2
  <2>2. ArrivedRows(g + 1, r)' = {}
    BY <1>6, <1>7 DEF ArrivedRows
  <2>3. barrier_y' = 0 /\ Cardinality({}) = 0 /\ Rows # {}
    <3>1. barrier_y = 0
      BY <1>4, <1>5, <1>6 DEF RoundInv, MeshCounts
    <3> QED BY <1>2, <3>1, FS_EmptySet
  <2> QED BY <2>1, <2>2, <2>3 DEF MeshCounts
<1> QED BY <1>9, <1>10, <1>11 DEF RoundInv

\* The leader of a row announces the barrier to it, and passes it first.
LEMMA RoundIterateX ==
  ASSUME TypeOK, NEW g \in Nat, NEW r \in [Rows -> Nat], RoundInv(g, r),
         NEW c \in Clusters, IterateX(c)
  PROVE  RoundInv(g, [r EXCEPT ![RowOf(c)] = @ + 1])'
<1> DEFINE s == [r EXCEPT ![RowOf(c)] = @ + 1]
<1>1. PICK x0 \in Columns, y0 \in Rows : c = <<x0, y0>>
  BY DEF Clusters
<1>2. /\ UNCHANGED <<barrier_x, barrier_y, barrier_iy, prev_x, prev_y>>
      /\ \A y \in Rows : barrier_ix'[y] = IF y = y0 THEN Iterated(barrier_ix[y])
                                          ELSE barrier_ix[y]
  BY <1>1 DEF IterateX, RowOf, TypeOK
<1>3. /\ pc[c][DM] = "iterateX"
      /\ \A d \in Clusters :
           /\ pc'[d][DM] = IF d = c THEN "sync2" ELSE pc[d][DM]
           /\ Passed(d)' = IF d = c THEN Passed(d) + 1 ELSE Passed(d)
  BY PassedGoto, LabelFacts DEF IterateX, TypeOK, Leading
<1>4. \A y \in Rows : s[y] = IF y = y0 THEN r[y0] + 1 ELSE r[y]
  BY <1>1 DEF RowOf
<1>5. r[y0] = g - 1 /\ r[y0] \in Nat
  BY <1>1, <1>3 DEF RoundInv, InStep, RowOf
<1>6. /\ ArrivedColumns(y0, r) = Columns
      /\ \A x \in Columns : /\ x # x0 => pc[<<x, y0>>][DM] = "pollX"
                            /\ Passed(<<x, y0>>) = r[y0]
      /\ ~RowHas(y0, {"resetX"}) /\ ~RowHas(y0, {"resetY"})
      /\ ~RowHas(y0, {"resetY", "iterateY"})
  BY <1>1, <1>3, LeaderAlone DEF Leading
<1>7. \A x \in Columns, y \in Rows : <<x, y>> \in Clusters
  BY DEF Clusters
<1>8. ASSUME NEW d \in Clusters PROVE InStep(d, g, s)' /\ Remembered(d, g, s)'
  <2>1. PICK x \in Columns, y \in Rows : d = <<x, y>>
    BY DEF Clusters
  <2>2. InStep(d, g, r) /\ Remembered(d, g, r) /\ RowOf(d) = y
    BY <2>1 DEF RoundInv, RowOf
  <2>3. CASE y # y0
    BY <1>1, <1>2, <1>3, <1>4, <2>1, <2>2, <2>3 DEF InStep, Remembered
  <2>4. CASE y = y0 /\ x # x0
    <3>1. pc[d][DM] = "pollX" /\ Passed(d) = r[y0] /\ pc'[d][DM] = pc[d][DM]
          /\ Passed(d)' = Passed(d)
      BY <1>1, <1>3, <1>6, <2>1, <2>4
    <3> QED BY <1>2, <1>4, <1>5, <2>2, <2>4, <3>1 DEF InStep, Remembered, Leading
  <2>5. CASE y = y0 /\ x = x0
    <3>1. Passed(d) = r[y0] /\ pc'[d][DM] = "sync2" /\ Passed(d)' = Passed(d) + 1
      BY <1>1, <1>3, <1>6, <2>1, <2>5
    <3> QED BY <1>4, <2>2, <2>5, <3>1 DEF InStep, Remembered, Leading
  <2> QED BY <2>3, <2>4, <2>5
<1>9. \A y \in Rows : y # y0 => /\ ArrivedColumns(y, s)' = ArrivedColumns(y, r)
                                /\ \A L : (RowHas(y, L)' <=> RowHas(y, L))
  <2> SUFFICES ASSUME NEW y \in Rows, y # y0
               PROVE  /\ ArrivedColumns(y, s)' = ArrivedColumns(y, r)
                      /\ \A L : (RowHas(y, L)' <=> RowHas(y, L))
    OBVIOUS
  <2>1. \A x \in Columns : /\ pc'[<<x, y>>][DM] = pc[<<x, y>>][DM]
                           /\ Passed(<<x, y>>)' = Passed(<<x, y>>)
    BY <1>1, <1>3, <1>7
  <2>2. \A x \in Columns : Arrived(<<x, y>>, s)' <=> Arrived(<<x, y>>, r)
    BY <1>4, <2>1 DEF Arrived, Counted, RowOf
  <2> QED BY <2>1, <2>2 DEF ArrivedColumns, RowHas
<1>10. ArrivedColumns(y0, s)' = {}
  <2>1. ASSUME NEW x \in Columns PROVE ~Arrived(<<x, y0>>, s)'
    <3>1. x = x0 => pc'[<<x, y0>>][DM] = "sync2"
      BY <1>1, <1>3
    <3>2. x # x0 => Passed(<<x, y0>>)' = r[y0]
      BY <1>1, <1>3, <1>6, <1>7
    <3>3. s[RowOf(<<x, y0>>)] = r[y0] + 1
      BY <1>4 DEF RowOf
    <3> QED BY <3>1, <3>2, <3>3, <1>5 DEF Arrived, Counted, Leading
  <2> QED BY <2>1 DEF ArrivedColumns
<1>11. \A L \in SUBSET Leading : ~RowHas(y0, L)'
  BY <1>1, <1>3, <1>6, <1>7 DEF RowHas, Leading
<1>12. Columns # {} /\ Cardinality({}) = 0
  BY FS_EmptySet DEF Columns
<1>13. RowInStep(y0, g, s)' /\ RowCounts(y0, s)'
  <2>1. barrier_x[y0] = 0
    BY <1>6 DEF RoundInv, RowCounts
  <2>2. \A x1, x2 \in Columns :
          pc'[<<x1, y0>>][DM] \in Leading /\ pc'[<<x2, y0>>][DM] \in Leading => x1 = x2
    BY <1>11 DEF RowHas, Leading
  <2>3. ~RowHas(y0, Leading)' /\ s[y0] = g
    BY <1>4, <1>5, <1>11
  <2> QED BY <1>2, <1>10, <1>12, <2>1, <2>2, <2>3 DEF RowInStep, RowCounts
<1>14. ASSUME NEW y \in Rows, y # y0 PROVE RowInStep(y, g, s)' /\ RowCounts(y, s)'
  <2>1. \A x1, x2 \in Columns :
          pc'[<<x1, y>>][DM] \in Leading /\ pc'[<<x2, y>>][DM] \in Leading => x1 = x2
    BY <1>1, <1>3, <1>7, <1>14 DEF RoundInv, RowCounts
  <2>2. /\ ArrivedColumns(y, s)' = ArrivedColumns(y, r) /\ s[y] = r[y]
        /\ RowHas(y, Leading)' <=> RowHas(y, Leading)
        /\ RowHas(y, {"resetX"})' <=> RowHas(y, {"resetX"})
        /\ RowHas(y, {"pollY", "iterateX"})' <=> RowHas(y, {"pollY", "iterateX"})
    BY <1>4, <1>9, <1>14
  <2> QED BY <1>2, <2>1, <2>2 DEF RoundInv, RowInStep, RowCounts
<1>15. MeshCounts(g, s)'
  <2>1. /\ ~RowHas(y0, {"resetY"})' /\ ~RowHas(y0, {"resetY", "iterateY"})'
        /\ ~RowHas(y0, {"resetY", "iterateY", "pollY"})'
    BY <1>11 DEF Leading
  <2>2. \A y \in Rows :
          /\ RowHas(y, {"resetY"})' <=> RowHas(y, {"resetY"})
          /\ RowHas(y, {"resetY", "iterateY"})' <=> RowHas(y, {"resetY", "iterateY"})
    BY <1>6, <1>9, <2>1
  <2>3. ArrivedRows(g, s)' = ArrivedRows(g, r)
    <3>1. \A y \in Rows : y # y0 =>
            (y \in ArrivedRows(g, s)' <=> y \in ArrivedRows(g, r))
      BY <1>4, <1>9 DEF ArrivedRows
    <3>2. y0 \notin ArrivedRows(g, s)' /\ y0 \notin ArrivedRows(g, r)
      BY <1>5, <2>1 DEF ArrivedRows
    <3> QED BY <3>1, <3>2 DEF ArrivedRows
  <2> QED BY <1>2, <2>2, <2>3 DEF RoundInv, MeshCounts
<1> QED BY <1>8, <1>13, <1>14, <1>15 DEF RoundInv

\* A cluster is counted; the last of its row finds that the mesh has announced
\* no more than the row, and leads it.
LEMMA RoundAmoX ==
  ASSUME TypeOK, NEW g \in Nat, NEW r \in [Rows -> Nat], RoundInv(g, r),
         NEW c \in Clusters, AmoX(c)
  PROVE  RoundInv(g, r)' /\ barrier_x' \in [Rows -> 0 .. NumX]
<1>1. PICK x0 \in Columns, y0 \in Rows : c = <<x0, y0>>
  BY DEF Clusters
<1>2. PICK to : /\ to = IF barrier_x[y0] = NumX - 1 THEN "resetX" ELSE "pollX"
                /\ Goto(c, "amoX", to)
                /\ UNCHANGED <<barrier_y, barrier_ix, barrier_iy, prev_x, prev_y>>
  BY <1>1 DEF AmoX, RowOf
<1>3. to \in {"resetX", "pollX"} /\ WorkLabel(to) /\ WorkLabel("amoX") /\ CoresType(Labels)
  BY <1>2, LabelFacts DEF TypeOK, Leading
<1>4. /\ pc[c][DM] = "amoX"
      /\ \A d \in Clusters : /\ pc'[d][DM] = IF d = c THEN to ELSE pc[d][DM]
                             /\ Passed(d)' = Passed(d)
  BY <1>2, <1>3, PassedGoto
<1>5. barrier_x' = [barrier_x EXCEPT ![y0] = @ + 1]
  BY <1>1 DEF AmoX, RowOf
<1>6. Passed(c) = r[y0] /\ ~Arrived(c, r)
  BY <1>1, <1>4 DEF RoundInv, InStep, RowOf, Arrived, Counted, Leading
<1>7. \A d \in Clusters : Arrived(d, r)' <=> Arrived(d, r) \/ d = c
  BY <1>1, <1>3, <1>4, <1>6 DEF Arrived, Counted, Leading, RowOf
<1>8. \A x \in Columns, y \in Rows : <<x, y>> \in Clusters
  BY DEF Clusters
<1>9. /\ ArrivedColumns(y0, r)' = ArrivedColumns(y0, r) \cup {x0}
      /\ x0 \notin ArrivedColumns(y0, r)
  BY <1>1, <1>6, <1>7, <1>8 DEF ArrivedColumns
<1>10. \A y \in Rows : y # y0 => ArrivedColumns(y, r)' = ArrivedColumns(y, r)
  BY <1>1, <1>7, <1>8 DEF ArrivedColumns
\* Nobody leads the row before its last cluster is counted.
<1>11. ArrivedColumns(y0, r) # Columns /\ ~RowHas(y0, Leading)
  BY <1>9 DEF RoundInv, RowCounts
<1>12. \A L \in SUBSET Leading : ~RowHas(y0, L)
  BY <1>11 DEF RowHas
<1>13. r[y0] = g
  BY <1>12 DEF RoundInv, RowInStep, Leading
<1>14. /\ Cardinality(ArrivedColumns(y0, r)') = Cardinality(ArrivedColumns(y0, r)) + 1
       /\ Cardinality(ArrivedColumns(y0, r)) = NumX - 1 <=> ArrivedColumns(y0, r)' = Columns
       /\ Cardinality(ArrivedColumns(y0, r)) \in Nat
       /\ Cardinality(ArrivedColumns(y0, r)) < NumX
  <2>1. ArrivedColumns(y0, r) \subseteq Columns
    BY DEF ArrivedColumns
  <2> QED BY <1>9, <2>1, OneMore, Intervals
<1>15. barrier_x[y0] = Cardinality(ArrivedColumns(y0, r))
  BY <1>11 DEF RoundInv, RowCounts
<1>16. /\ barrier_x'[y0] = barrier_x[y0] + 1
       /\ \A y \in Rows : y # y0 => barrier_x'[y] = barrier_x[y]
       /\ barrier_x' \in [Rows -> 0 .. NumX]
  <2>1. barrier_x[y0] + 1 \in 0 .. NumX
    BY <1>14, <1>15
  <2> QED BY <1>5, <2>1 DEF TypeOK
<1>17. ASSUME NEW d \in Clusters PROVE InStep(d, g, r)' /\ Remembered(d, g, r)'
  <2>1. InStep(d, g, r) /\ Remembered(d, g, r)
    BY DEF RoundInv
  <2>2. CASE d # c
    BY <1>2, <1>4, <2>1, <2>2 DEF InStep, Remembered
  <2>3. CASE d = c
    BY <1>1, <1>2, <1>3, <1>4, <1>6, <1>13, <2>1, <2>3
    DEF InStep, Remembered, Leading, RowOf
  <2> QED BY <2>2, <2>3
<1>18. /\ \A L \in SUBSET Leading : (RowHas(y0, L)' <=> to \in L)
       /\ \A y \in Rows : y # y0 => \A L : (RowHas(y, L)' <=> RowHas(y, L))
  <2>1. ASSUME NEW L \in SUBSET Leading PROVE RowHas(y0, L)' <=> to \in L
    BY <1>1, <1>4, <1>8, <1>12 DEF RowHas
  <2>2. ASSUME NEW y \in Rows, y # y0, NEW L PROVE RowHas(y, L)' <=> RowHas(y, L)
    BY <1>1, <1>4, <1>8, <2>2 DEF RowHas
  <2> QED BY <2>1, <2>2
<1>19. RowInStep(y0, g, r)' /\ RowCounts(y0, r)'
  <2>1. /\ RowHas(y0, Leading)' <=> to = "resetX"
        /\ RowHas(y0, {"resetX"})' <=> to = "resetX"
    BY <1>3, <1>18 DEF Leading
  <2>2. to = "resetX" <=> ArrivedColumns(y0, r)' = Columns
    BY <1>2, <1>14, <1>15
  <2>3. \A x1, x2 \in Columns :
          pc'[<<x1, y0>>][DM] \in Leading /\ pc'[<<x2, y0>>][DM] \in Leading => x1 = x2
    BY <1>1, <1>4, <1>8, <1>12 DEF RowHas
  <2> QED BY <2>1, <2>2, <2>3, <1>13, <1>14, <1>15, <1>16 DEF RowInStep, RowCounts
<1>20. ASSUME NEW y \in Rows, y # y0 PROVE RowInStep(y, g, r)' /\ RowCounts(y, r)'
  <2>1. \A x1, x2 \in Columns :
          pc'[<<x1, y>>][DM] \in Leading /\ pc'[<<x2, y>>][DM] \in Leading => x1 = x2
    BY <1>1, <1>4, <1>8, <1>20 DEF RoundInv, RowCounts
  <2>2. /\ RowHas(y, Leading)' <=> RowHas(y, Leading)
        /\ RowHas(y, {"resetX"})' <=> RowHas(y, {"resetX"})
        /\ RowHas(y, {"pollY", "iterateX"})' <=> RowHas(y, {"pollY", "iterateX"})
    BY <1>18, <1>20
  <2> QED BY <2>1, <2>2, <1>10, <1>16, <1>20 DEF RoundInv, RowInStep, RowCounts
<1>21. MeshCounts(g, r)'
  <2>1. /\ ~RowHas(y0, {"resetY"}) /\ ~RowHas(y0, {"resetY"})'
        /\ ~RowHas(y0, {"resetY", "iterateY"}) /\ ~RowHas(y0, {"resetY", "iterateY"})'
        /\ ~RowHas(y0, {"resetY", "iterateY", "pollY"})
        /\ ~RowHas(y0, {"resetY", "iterateY", "pollY"})'
    BY <1>3, <1>12, <1>18 DEF Leading
  <2>2. \A y \in Rows :
          /\ RowHas(y, {"resetY"})' <=> RowHas(y, {"resetY"})
          /\ RowHas(y, {"resetY", "iterateY"})' <=> RowHas(y, {"resetY", "iterateY"})
          /\ RowHas(y, {"resetY", "iterateY", "pollY"})'
               <=> RowHas(y, {"resetY", "iterateY", "pollY"})
    BY <1>18, <2>1
  <2>3. ArrivedRows(g, r)' = ArrivedRows(g, r)
    BY <2>2 DEF ArrivedRows
  <2> QED BY <1>2, <2>2, <2>3 DEF RoundInv, MeshCounts
<1> QED BY <1>16, <1>17, <1>19, <1>20, <1>21 DEF RoundInv

-----------------------------------------------------------------------------
(* The inductive invariant. *)

LEMMA RoundInit == Init => RoundInv(1, [y \in Rows |-> 1])
<1> DEFINE r == [y \in Rows |-> 1]
<1> SUFFICES ASSUME Init PROVE RoundInv(1, r)
  OBVIOUS
<1>1. \A c \in Clusters : /\ pc[c][DM] = "work" /\ Passed(c) = 1
                          /\ RowOf(c) \in Rows
  BY DEF Init, CoresInit, Passed, Participants, RowOf, Clusters
<1>2. \A c \in Clusters : InStep(c, 1, r) /\ Remembered(c, 1, r)
  BY <1>1 DEF InStep, Remembered, Leading
<1>3. \A x \in Columns, y \in Rows : <<x, y>> \in Clusters
  BY DEF Clusters
<1>4. \A y \in Rows : ArrivedColumns(y, r) = {} /\ \A L \in SUBSET Leading : ~RowHas(y, L)
  BY <1>1, <1>3 DEF ArrivedColumns, Arrived, Counted, RowHas, Leading
<1>5. 0 \in Columns /\ 0 \in Rows /\ Cardinality({}) = 0
  BY FS_EmptySet DEF Columns, Rows
<1>6. ASSUME NEW y \in Rows PROVE RowInStep(y, 1, r) /\ RowCounts(y, r)
  <2>1. ~RowHas(y, Leading) /\ barrier_x[y] = 0
    BY <1>4 DEF Init
  <2>2. \A x \in Columns : pc[<<x, y>>][DM] \notin Leading
    BY <2>1 DEF RowHas
  <2> QED BY <1>4, <1>5, <2>1, <2>2 DEF RowInStep, RowCounts
<1>7. MeshCounts(1, r)
  <2>1. \A y \in Rows : /\ ~RowHas(y, {"resetY"}) /\ ~RowHas(y, {"resetY", "iterateY"})
                        /\ ~RowHas(y, {"resetY", "iterateY", "pollY"})
    BY <1>4 DEF Leading
  <2>2. ArrivedRows(1, r) = {}
    BY <2>1 DEF ArrivedRows
  <2> QED BY <1>5, <2>1, <2>2 DEF MeshCounts, Init
<1> QED BY <1>2, <1>6, <1>7 DEF RoundInv

LEMMA SyncInit == Init => SyncInv
<1> SUFFICES ASSUME Init, NEW c \in Clusters, NEW k \in Cores
             PROVE  /\ Syncs(c, k) = Syncs(c, DM)
                    /\ k \in barrier_status[c] <=> pc[c][k] \in {"wait1", "wait2"}
                    /\ k # DM => pc[c][k] \in WorkerLabels
                    /\ pc[c][k] = "wait1" => entered[<<c, k>>] > 0
                    /\ left[<<c, k>>] = IF pc[c][k] = "work" \/ entered[<<c, k>>] = 0
                                        THEN entered[<<c, k>>] ELSE entered[<<c, k>>] - 1
  BY DEF SyncInv
<1> QED BY DEF Init, CoresInit, Participants, Syncs, WorkerLabels

LEMMA SyncNext ==
  ASSUME TypeOK, SyncInv, Next
  PROVE  SyncInv'
<1>1. ASSUME NEW c \in Clusters, DMStep(c) PROVE SyncInv'
  <2>1. PICK from, to : /\ Goto(c, from, to)
                        /\ from \notin {"work", "wait1", "wait2"}
                        /\ to \notin {"work", "wait1", "wait2"}
    BY <1>1 DEF DMStep, ReadX, ReadY, AmoX, ResetX, AmoY, ResetY, IterateY, PollY,
                IterateX, PollX
  <2> QED BY <2>1, SyncInvGoto DEF TypeOK
<1>2. ASSUME NEW c \in Clusters, NEW k \in Cores, CoreStep(c, k) PROVE SyncInv'
  <2>1. CallStep(c, k, "readX") /\ WorkLabel("readX") /\ CoresType(Labels)
    BY <1>2, LabelFacts DEF CoreStep, Enter, SecondSync, CallStep, TypeOK
  <2> QED BY <2>1, SyncInvCall
<1>3. CASE Terminating
  BY <1>3 DEF Terminating, vars, SyncInv, Syncs
<1> QED BY <1>1, <1>2, <1>3 DEF Next

LEMMA CoresNext ==
  ASSUME TypeOK, Next
  PROVE  CoresType(Labels)'
<1>1. ASSUME NEW c \in Clusters, DMStep(c) PROVE CoresType(Labels)'
  <2>1. PICK from, to \in Labels : Goto(c, from, to)
    BY <1>1 DEF DMStep, ReadX, ReadY, AmoX, ResetX, AmoY, ResetY, IterateY, PollY,
                IterateX, PollX, Labels, WorkerLabels
  <2> QED BY <2>1, CoresGotoType DEF TypeOK
<1>2. ASSUME NEW c \in Clusters, NEW k \in Cores, CoreStep(c, k) PROVE CoresType(Labels)'
  <2>1. /\ CallStep(c, k, "readX") /\ "readX" \in Labels /\ CoresType(Labels)
        /\ WorkerLabels \subseteq Labels
    BY <1>2, LabelFacts DEF CoreStep, Enter, SecondSync, CallStep, TypeOK
  <2> QED BY <2>1, CallStepType
<1>3. CASE Terminating
  BY <1>3 DEF Terminating, vars, TypeOK, CoresType
<1> QED BY <1>1, <1>2, <1>3 DEF Next

\* The types of the words: the counters' bounds are what the counting shows.
LEMMA TypeNext ==
  ASSUME TypeOK, NEW g \in Nat, NEW r \in [Rows -> Nat], RoundInv(g, r), Next
  PROVE  TypeOK'
<1>1. CoresType(Labels)'
  BY CoresNext
<1>2. ASSUME NEW c \in Clusters, DMStep(c) PROVE TypeOK'
  <2>1. /\ RowOf(c) \in Rows
        /\ barrier_ix[RowOf(c)] \in Iterations /\ barrier_iy \in Iterations
        /\ Iterated(barrier_ix[RowOf(c)]) \in Iterations /\ Iterated(barrier_iy) \in Iterations
    BY RoundTypes, IteratedChanges
  <2>2. CASE ReadX(c)    BY <1>1, <2>1, <2>2 DEF ReadX, TypeOK
  <2>3. CASE ReadY(c)    BY <1>1, <2>1, <2>3 DEF ReadY, TypeOK
  <2>4. CASE AmoX(c)     BY <1>1, <2>4, RoundAmoX DEF AmoX, TypeOK
  <2>5. CASE ResetX(c)   BY <1>1, <2>1, <2>5 DEF ResetX, TypeOK
  <2>6. CASE AmoY(c)     BY <1>1, <2>6, RoundAmoY DEF AmoY, TypeOK
  <2>7. CASE ResetY(c)   BY <1>1, <2>7 DEF ResetY, TypeOK
  <2>8. CASE IterateY(c) BY <1>1, <2>1, <2>8 DEF IterateY, TypeOK
  <2>9. CASE PollY(c)    BY <1>1, <2>9 DEF PollY, TypeOK
  <2>10. CASE IterateX(c) BY <1>1, <2>1, <2>10 DEF IterateX, TypeOK
  <2>11. CASE PollX(c)   BY <1>1, <2>11 DEF PollX, TypeOK
  <2> QED BY <1>2, <2>2, <2>3, <2>4, <2>5, <2>6, <2>7, <2>8, <2>9, <2>10, <2>11 DEF DMStep
<1>3. ASSUME NEW c \in Clusters, NEW k \in Cores, CoreStep(c, k) PROVE TypeOK'
  BY <1>1, <1>3 DEF CoreStep, Enter, SecondSync, TypeOK
<1>4. CASE Terminating
  BY <1>1, <1>4 DEF Terminating, vars, TypeOK
<1> QED BY <1>2, <1>3, <1>4 DEF Next

LEMMA RoundNext ==
  ASSUME TypeOK, SyncInv, NEW g \in Nat, NEW r \in [Rows -> Nat], RoundInv(g, r), Next
  PROVE  \E h \in Nat, s \in [Rows -> Nat] : RoundInv(h, s)'
<1>1. CASE RoundInv(g, r)'
  BY <1>1
<1>2. ASSUME NEW c \in Clusters, IterateY(c)
      PROVE  \E h \in Nat, s \in [Rows -> Nat] : RoundInv(h, s)'
  <2>1. RoundInv(g + 1, r)' /\ g + 1 \in Nat
    BY <1>2, RoundIterateY
  <2> QED BY <2>1
<1>3. ASSUME NEW c \in Clusters, IterateX(c)
      PROVE  \E h \in Nat, s \in [Rows -> Nat] : RoundInv(h, s)'
  <2> DEFINE s == [r EXCEPT ![RowOf(c)] = @ + 1]
  <2>1. s \in [Rows -> Nat]
    <3>1. RowOf(c) \in Rows
      BY RoundTypes
    <3>2. r[RowOf(c)] + 1 \in Nat
      BY <3>1
    <3> QED BY <3>2
  <2>2. RoundInv(g, s)'
    BY <1>3, RoundIterateX
  <2> HIDE DEF s
  <2> QED BY <2>1, <2>2
<1>4. ASSUME NEW c \in Clusters, DMStep(c), ~IterateY(c), ~IterateX(c)
      PROVE  RoundInv(g, r)'
  BY <1>4, RoundReadX, RoundReadY, RoundAmoX, RoundResetX, RoundAmoY, RoundResetY,
     RoundPollY, RoundPollX DEF DMStep
<1>5. ASSUME NEW c \in Clusters, NEW k \in Cores, CoreStep(c, k) PROVE RoundInv(g, r)'
  BY <1>5, RoundCall
<1>6. CASE Terminating
  <2>1. UNCHANGED <<barrier_x, barrier_y, barrier_ix, barrier_iy, prev_x, prev_y, pc, entered>>
    BY <1>6 DEF Terminating, vars
  <2>2. \A d \in Clusters : InStep(d, g, r)' /\ Remembered(d, g, r)'
    BY <2>1 DEF RoundInv, InStep, Remembered, Passed
  <2>3. \A d \in Clusters : /\ Arrived(d, r)' <=> Arrived(d, r)
                            /\ pc'[d][DM] = pc[d][DM]
    BY <2>1 DEF Arrived, Counted, Passed
  <2>4. RoundInv(g, r)'
    BY <2>1, <2>2, <2>3, CountsFrame DEF RoundInv
  <2> QED BY <2>4
<1> QED BY <1>1, <1>2, <1>3, <1>4, <1>5, <1>6 DEF Next

LEMMA IInvInit == Init => IInv
<1> SUFFICES ASSUME Init PROVE IInv
  OBVIOUS
<1> DEFINE r == [y \in Rows |-> 1]
<1>1. RoundInv(1, r) /\ r \in [Rows -> Nat] /\ 1 \in Nat
  BY RoundInit
<1> HIDE DEF r
<1>2. \E g \in Nat, s \in [Rows -> Nat] : RoundInv(g, s)
  BY <1>1
<1> QED BY <1>2, TypeInit, SyncInit DEF IInv

LEMMA IInvNext == IInv /\ [Next]_vars => IInv'
<1> SUFFICES ASSUME IInv, [Next]_vars PROVE IInv'
  OBVIOUS
<1>1. PICK g \in Nat, r \in [Rows -> Nat] : RoundInv(g, r)
  BY DEF IInv
<1>2. CASE Next
  <2>1. TypeOK' /\ SyncInv'
    BY <1>1, <1>2, TypeNext, SyncNext DEF IInv
  <2>2. \E h \in Nat, s \in [Rows -> Nat] : RoundInv(h, s)'
    BY <1>1, <1>2, RoundNext DEF IInv
  <2> QED BY <2>1, <2>2 DEF IInv
<1>3. CASE UNCHANGED vars
  <2>1. UNCHANGED <<barrier_x, barrier_y, barrier_ix, barrier_iy, prev_x, prev_y, pc,
                    entered, left, barrier_status>>
    BY <1>3 DEF vars
  <2>2. TypeOK' /\ SyncInv'
    BY <2>1 DEF IInv, TypeOK, CoresType, SyncInv, Syncs
  <2>3. \A d \in Clusters : InStep(d, g, r)' /\ Remembered(d, g, r)'
    BY <1>1, <2>1 DEF RoundInv, InStep, Remembered, Passed
  <2>4. \A d \in Clusters : /\ Arrived(d, r)' <=> Arrived(d, r)
                            /\ pc'[d][DM] = pc[d][DM]
    BY <2>1 DEF Arrived, Counted, Passed
  <2>5. RoundInv(g, r)'
    BY <1>1, <2>1, <2>3, <2>4, CountsFrame DEF RoundInv, IInv
  <2> QED BY <2>2, <2>5 DEF IInv
<1> QED BY <1>2, <1>3

\* The inductive invariant holds throughout.
THEOREM Invariance == Spec => []IInv
  BY IInvInit, IInvNext, PTL DEF Spec

-----------------------------------------------------------------------------
(* What follows. *)

\* Every variable keeps its type; the counters never exceed the clusters of a
\* row, or the rows.
THEOREM TypeCorrect == Spec => []TypeOK
<1>1. IInv => TypeOK
  BY DEF IInv
<1> QED BY <1>1, Invariance, PTL

\* The iteration words never advance twice under a data mover's memory of them,
\* whatever their width: one bit would do.
THEOREM IterationsCorrect == Spec => []IterationsInStep
<1>1. IInv => IterationsInStep
  <2> SUFFICES ASSUME IInv, NEW c \in Clusters,
                      NEW g \in Nat, NEW r \in [Rows -> Nat], RoundInv(g, r)
               PROVE  /\ At(c, {"amoX", "resetX", "amoY", "resetY", "iterateY"}) =>
                           barrier_iy = prev_y[c]
                      /\ At(c, {"pollY"}) => barrier_iy \in {prev_y[c], Iterated(prev_y[c])}
                      /\ At(c, {"readY", "amoX", "resetX", "amoY", "resetY", "iterateY",
                                "pollY", "iterateX"}) => barrier_ix[RowOf(c)] = prev_x[c]
                      /\ At(c, {"pollX"}) =>
                           barrier_ix[RowOf(c)] \in {prev_x[c], Iterated(prev_x[c])}
    BY DEF IterationsInStep, IInv
  <2> QED BY DEF RoundInv, Remembered, At, Leading
<1> QED BY <1>1, Invariance, PTL

\* Clearing a counter loses no arrival: at both resets it holds the full count.
THEOREM ResetsCorrect == Spec => []ResetLosesNobody
<1>1. IInv => ResetLosesNobody
  <2> SUFFICES ASSUME IInv, NEW c \in Clusters,
                      NEW g \in Nat, NEW r \in [Rows -> Nat], RoundInv(g, r)
               PROVE  /\ At(c, {"resetX"}) => barrier_x[RowOf(c)] = NumX
                      /\ At(c, {"resetY"}) => barrier_y = NumY
    BY DEF ResetLosesNobody, IInv
  <2>1. PICK x0 \in Columns, y0 \in Rows : c = <<x0, y0>>
    BY DEF Clusters
  <2>2. ASSUME pc[c][DM] = "resetX" PROVE barrier_x[RowOf(c)] = NumX
    <3>1. ArrivedColumns(y0, r) = Columns /\ RowHas(y0, {"resetX"})
      BY <2>1, <2>2, LeaderAlone DEF IInv, Leading
    <3> QED BY <2>1, <3>1, Intervals DEF RoundInv, RowCounts, RowOf
  <2>3. ASSUME pc[c][DM] = "resetY" PROVE barrier_y = NumY
    <3>1. RowHas(y0, {"resetY"}) /\ RowHas(y0, {"resetY", "iterateY"})
      BY <2>1, <2>3 DEF RowHas
    <3> QED BY <3>1, Intervals DEF RoundInv, MeshCounts
  <2> QED BY <2>2, <2>3 DEF At
<1> QED BY <1>1, Invariance, PTL

\* No cluster is past a barrier that some core has still to enter: the mesh
\* announces no more barriers than every cluster is counted in.
LEMMA NobodyIsAhead == IInv => NobodyAhead
<1> SUFFICES ASSUME IInv, NEW g \in Nat, NEW r \in [Rows -> Nat], RoundInv(g, r),
                    NEW c \in Clusters, NEW d \in Clusters, NEW j \in Cores
             PROVE  Passed(c) <= entered[<<d, j>>] + 1
  BY DEF IInv, NobodyAhead
<1>1. /\ Passed(c) \in Nat /\ Passed(d) \in Nat
      /\ RowOf(c) \in Rows /\ RowOf(d) \in Rows
      /\ entered[<<d, j>>] \in Nat
  BY RoundTypes, EnteredNat DEF IInv, TypeOK
<1>2. Passed(c) <= g
  BY <1>1 DEF RoundInv, InStep, RowInStep
<1>3. /\ Passed(d) <= entered[<<d, j>>] + 1
      /\ WorkLabel(pc[d][DM]) => Passed(d) = entered[<<d, j>>]
  BY PassedBounds DEF IInv, TypeOK
<1>4. CASE Passed(d) = r[RowOf(d)] - 1
  <2>1. pc[d][DM] = "pollX" /\ WorkLabel(pc[d][DM])
    BY <1>1, <1>4, LabelFacts DEF RoundInv, InStep
  \* A row that has announced a barrier its mesh has yet another one of is full.
  <2>2. r[RowOf(d)] = g
    <3>1. ASSUME RowHas(RowOf(d), {"pollY", "iterateX"}) PROVE FALSE
      <4>1. PICK x1 \in Columns : pc[<<x1, RowOf(d)>>][DM] \in Leading
        BY <3>1 DEF RowHas, Leading
      <4>2. \A x \in Columns : Passed(<<x, RowOf(d)>>) = r[RowOf(d)]
        BY <1>1, <4>1, LeaderAlone DEF IInv
      <4>3. Passed(d) = r[RowOf(d)]
        BY <4>2 DEF RowOf, Clusters
      <4> QED BY <4>3, <1>1, <1>4
    <3> QED BY <1>1, <3>1 DEF RoundInv, RowInStep
  <2> QED BY <1>1, <1>2, <1>3, <1>4, <2>1, <2>2
<1>5. CASE Passed(d) = r[RowOf(d)] /\ r[RowOf(d)] = g
  BY <1>1, <1>2, <1>3, <1>5
<1>6. CASE Passed(d) = r[RowOf(d)] /\ r[RowOf(d)] = g - 1
  <2>1. PICK x1 \in Columns : pc[<<x1, RowOf(d)>>][DM] \in {"pollY", "iterateX"}
    BY <1>1, <1>6 DEF RoundInv, RowInStep, RowHas
  <2>2. pc[d][DM] \in Leading \cup {"pollX"}
    <3>1. ArrivedColumns(RowOf(d), r) = Columns
      BY <1>1, <2>1, LeaderAlone DEF Leading, IInv
    <3>2. d[1] \in Columns /\ d = <<d[1], RowOf(d)>>
      BY DEF Clusters, RowOf
    <3> QED BY <3>1, <3>2 DEF ArrivedColumns, Arrived, Counted
  <2>3. WorkLabel(pc[d][DM])
    BY <2>2, LabelFacts
  <2> QED BY <1>1, <1>2, <1>3, <1>6, <2>3
<1> QED BY <1>1, <1>4, <1>5, <1>6 DEF RoundInv, InStep, RowInStep

\* No core returns from its n-th call of flex_global_barrier_xy_polling before
\* every core of every cluster has made its n-th call.
THEOREM BarrierCorrect == Spec => []BarrierSafety
<1>1. IInv => BarrierSafety
  BY NobodyIsAhead, NobodyAheadIsSafe DEF IInv, TypeOK, BarrierSafety
<1> QED BY <1>1, Invariance, PTL

AbstractStep == [AbstractBarrier!Next]_(AbstractBarrier!vars)

\* The polling barrier implements the abstract one, its liveness apart.
THEOREM BarrierRefinement == Spec => AbstractBarrier!SafeSpec
<1>1. Init => AbstractBarrier!Init
  BY DEF Init, CoresInit, AbstractBarrier!Init
<1>2. IInv /\ [Next]_vars => AbstractStep
  <2> SUFFICES ASSUME IInv, [Next]_vars PROVE AbstractStep
    OBVIOUS
  <2>0. CoresType(Labels) /\ WorkerLabels \subseteq Labels /\ "readX" \in Labels
    BY LabelFacts DEF IInv, TypeOK
  <2>1. ASSUME NEW c \in Clusters, NEW k \in Cores, CoreStep(c, k) PROVE AbstractStep
    <3>1. CASE Enter(c, k)
      <4>1. Calls!Enter(<<c, k>>)
        BY <2>0, <3>1, EnterCallImplements DEF IInv, Enter
      <4> QED BY <4>1 DEF AbstractStep, AbstractBarrier!Next, AbstractBarrier!Enter,
                          Calls!Enter, Participants
    <3>2. CASE SecondSync(c, k)
      <4>1. \/ UNCHANGED <<entered, left>>
            \/ \E P \in SUBSET Participants : Calls!Leave(P)
        BY <2>0, <3>2, NobodyIsAhead, LeaveCallImplements DEF IInv, SecondSync
      <4> QED BY <4>1 DEF AbstractStep, AbstractBarrier!Next, AbstractBarrier!Leave,
                          Calls!Leave, AbstractBarrier!vars
    <3> QED BY <2>1, <3>1, <3>2 DEF CoreStep
  <2>2. CASE (\E c \in Clusters : DMStep(c)) \/ Terminating \/ UNCHANGED vars
    <3>1. UNCHANGED <<entered, left>>
      BY <2>2 DEF DMStep, ReadX, ReadY, AmoX, ResetX, AmoY, ResetY, IterateY, PollY,
                  IterateX, PollX, Goto, Terminating, vars
    <3> QED BY <3>1 DEF AbstractStep, AbstractBarrier!vars
  <2> QED BY <2>1, <2>2 DEF Next
<1> QED BY <1>1, <1>2, Invariance, PTL DEF Spec, AbstractStep, AbstractBarrier!SafeSpec
=============================================================================
