---------------------- MODULE FlexBarrierXYPollingInv -----------------------
(***************************************************************************)
(* The inductive invariant of FlexBarrierXYPolling: there is a number of    *)
(* barriers that the mesh has announced, and one for each row, from which   *)
(* the clusters, the iteration words and the counters all follow.           *)
(***************************************************************************)
EXTENDS FlexBarrierXYPolling, ClusterCoresInv, FiniteSets

\* The labels of the cluster that is the last of its row, and those of every
\* cluster whose atomic add is done.
Leading == {"resetX", "amoY", "resetY", "iterateY", "pollY", "iterateX"}
Counted(c) == pc[c][DM] \in Leading \cup {"pollX"}

\* A row has announced as many barriers as each of its clusters has passed, or
\* one more if that cluster has still to see it.
InStep(c, g, r) ==
  /\ \/ Passed(c) = r[RowOf(c)]
     \/ Passed(c) = r[RowOf(c)] - 1 /\ pc[c][DM] = "pollX"
  /\ pc[c][DM] \in {"resetX", "amoY", "resetY", "iterateY"} => r[RowOf(c)] = g
  /\ pc[c][DM] = "iterateX" => r[RowOf(c)] = g - 1

\* The mesh has announced as many as each of its rows, or one more if the
\* leader of that row has still to pass it on.
RowInStep(y, g, r) ==
  \/ r[y] = g
  \/ r[y] = g - 1 /\ RowHas(y, {"pollY", "iterateX"})

\* The words that a data mover remembers, by the barriers announced since.
Remembered(c, g, r) ==
  /\ pc[c][DM] \in {"readY", "amoX"} \cup Leading => barrier_ix[RowOf(c)] = prev_x[c]
  /\ pc[c][DM] = "pollX" =>
       barrier_ix[RowOf(c)] = IF Passed(c) = r[RowOf(c)]
                              THEN prev_x[c] ELSE Iterated(prev_x[c])
  /\ pc[c][DM] \in {"amoX", "resetX", "amoY", "resetY", "iterateY"} =>
       barrier_iy = prev_y[c]
  /\ pc[c][DM] = "pollY" =>
       barrier_iy = IF r[RowOf(c)] = g THEN prev_y[c] ELSE Iterated(prev_y[c])

\* A cluster is counted towards the next barrier of its row; the columns of
\* those of row y, and the rows counted towards the next barrier of the mesh.
Arrived(c, r) == Counted(c) /\ Passed(c) = r[RowOf(c)]

ArrivedColumns(y, r) == {x \in Columns : Arrived(<<x, y>>, r)}

ArrivedRows(g, r) ==
  {y \in Rows : r[y] = g /\ RowHas(y, {"resetY", "iterateY", "pollY"})}

\* A counter holds the number of arrivals until the last of them clears it; a
\* full row has one leader, a full mesh one row that leads it, and no other has.
RowCounts(y, r) ==
  /\ barrier_x[y] = IF ArrivedColumns(y, r) = Columns /\ ~RowHas(y, {"resetX"})
                    THEN 0 ELSE Cardinality(ArrivedColumns(y, r))
  /\ RowHas(y, Leading) <=> ArrivedColumns(y, r) = Columns
  /\ \A x1, x2 \in Columns :
       pc[<<x1, y>>][DM] \in Leading /\ pc[<<x2, y>>][DM] \in Leading => x1 = x2

MeshCounts(g, r) ==
  /\ barrier_y = IF ArrivedRows(g, r) = Rows /\ ~\E y \in Rows : RowHas(y, {"resetY"})
                 THEN 0 ELSE Cardinality(ArrivedRows(g, r))
  /\ (\E y \in Rows : RowHas(y, {"resetY", "iterateY"})) <=> ArrivedRows(g, r) = Rows
  /\ \A y1, y2 \in Rows :
       /\ RowHas(y1, {"resetY", "iterateY"})
       /\ RowHas(y2, {"resetY", "iterateY"})
       => y1 = y2

RoundInv(g, r) ==
  /\ \A c \in Clusters : InStep(c, g, r) /\ Remembered(c, g, r)
  /\ \A y \in Rows : RowInStep(y, g, r) /\ RowCounts(y, r)
  /\ MeshCounts(g, r)

IInv ==
  /\ TypeOK
  /\ SyncInv
  /\ \E g \in Nat, r \in [Rows -> Nat] : RoundInv(g, r)
=============================================================================
