-------------------------- MODULE FlexBarrierXYInv --------------------------
(***************************************************************************)
(* The inductive invariant of FlexBarrierXY, in the parts the argument has: *)
(* the cores of a cluster are in step; wake-ups are conserved; the initial  *)
(* call clears the counters; each counter counts exactly the arrivals.      *)
(***************************************************************************)
EXTENDS FlexBarrierXY, ClusterCoresInv, FiniteSets

\* Wake-ups are conserved, none is owed to a cluster that has not waited, and
\* the only held store is the data mover's.
WakeInv ==
  /\ WakeupsConserved
  /\ \A c \in Clusters :
       /\ Consumed(c) <= wakes
       /\ wakes <= Consumed(c) + 1
       /\ wakes = Consumed(c) + 1 => pc[c][DM] \in {"wfi", "blocked"}
       /\ global_barrier_query[c] = IF pc[c][DM] = "blocked" THEN DM ELSE NULL
       /\ pc[c][DM] = "blocked" => global_barrier_mutex[c] = 0

\* Until the first wake-up only cluster 0 works, clearing the counters.
InitInv ==
  IF wakes = 0
  THEN /\ pc[Cluster0][DM] \in {"initY", "initX", "wake"}
       /\ \A c \in Clusters :
            /\ c # Cluster0 => pc[c][DM] \in {"wfi", "blocked"}
            /\ entered[<<c, DM>>] = 0
       /\ pc[Cluster0][DM] = "initY" => init_row = 0
       /\ pc[Cluster0][DM] = "initX" => init_row < NumY
       /\ pc[Cluster0][DM] # "initY" => barrier_y = 0
       /\ \A y \in Rows : y < init_row \/ pc[Cluster0][DM] = "wake"
                            => barrier_x[y] = 0
  ELSE \A c \in Clusters : pc[c][DM] \notin {"initY", "initX"}

\* Cluster c is counted in the current call: its atomic add is done.
Counted(c) ==
  /\ pc[c][DM] \in {"resetX", "amoY", "resetY", "wake", "wfi", "blocked"}
  /\ Consumed(c) = wakes

\* The counted clusters of row y, by their columns.
ArrivedColumns(y) == {x \in Columns : Counted(<<x, y>>)}

\* The rows counted in the current call.
ArrivedRows ==
  {y \in Rows : ArrivedColumns(y) = Columns /\ ~RowHas(y, {"resetX", "amoY"})}

Leading == {"resetX", "amoY", "resetY", "wake"}

\* A counter holds the number of arrivals until the last of them clears it; a
\* row has at most one leader, and only once it is full; so has the mesh.
MeshInv ==
  wakes > 0 =>
    /\ \A y \in Rows :
         /\ barrier_x[y] =
              IF ArrivedColumns(y) = Columns /\ ~RowHas(y, {"resetX"})
              THEN 0 ELSE Cardinality(ArrivedColumns(y))
         /\ RowHas(y, Leading) => ArrivedColumns(y) = Columns
         /\ \A x1, x2 \in Columns :
              /\ pc[<<x1, y>>][DM] \in Leading
              /\ pc[<<x2, y>>][DM] \in Leading
              => x1 = x2
    /\ barrier_y = IF ArrivedRows = Rows /\ ~\E y \in Rows : RowHas(y, {"resetY"})
                   THEN 0 ELSE Cardinality(ArrivedRows)
    /\ (\E y \in Rows : RowHas(y, {"resetY", "wake"})) => ArrivedRows = Rows
    /\ \A y1, y2 \in Rows :
         RowHas(y1, {"resetY", "wake"}) /\ RowHas(y2, {"resetY", "wake"}) => y1 = y2

IInv == TypeOK /\ SyncInv /\ WakeInv /\ InitInv /\ MeshInv
=============================================================================
