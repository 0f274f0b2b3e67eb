------------------------ MODULE FlexGroupBarrierInv -------------------------
(***************************************************************************)
(* The inductive invariant of FlexGroupBarrier: for each cluster there is a *)
(* number g of barriers that have ended for its group, and a number r that  *)
(* its row of the group has announced, from which the clusters, the         *)
(* wake-ups, the iteration words and the counters all follow.               *)
(***************************************************************************)
EXTENDS FlexGroupBarrier, ClusterCoresInv

\* The program synchronises the mesh between grid_sync_group_init and the first
\* barrier of a group, as hello_world does.
FirstIsGlobal == Rounds > 0 => Program[1] = "global"

-----------------------------------------------------------------------------
(* The words that a call counts in, and the clusters that share them. *)

Kinds == {"global", "group"}
Kind(n) == IF Program[n] = "global" THEN "global" ELSE "group"

Team(kind, c)     == IF kind = "global" THEN Clusters ELSE Group(c)
TeamRow(kind, c)  == {d \in Team(kind, c) : RowOf(d) = RowOf(c)}
TeamRows(kind, c) == {RowOf(d) : d \in Team(kind, c)}

XWord(kind, c) == IF kind = "global" THEN <<<<NumX \div 2, c[2]>>, "barrier_x">>
                  ELSE <<SyncXCluster(c), "sync_x_point">>
YWord(kind, c) == IF kind = "global" THEN <<<<NumX \div 2, NumY \div 2>>, "barrier_y">>
                  ELSE <<SyncYCluster(c), "sync_y_point">>

\* The words of a group hold garbage until core 0 of their cluster clears them.
XCleared(kind, c) == kind = "global" \/ init[SyncXCluster(c)] # "sync_x_point"
YCleared(kind, c) == kind = "global" \/ init[SyncYCluster(c)] = "done"

\* A cluster whose core 0 is not done with the initialisation has not begun.
InitInv == \A c \in Clusters : init[c] # "done" => entered[<<c, First>>] = 0

-----------------------------------------------------------------------------
(* Where the data mover of a cluster is. *)

\* The labels of the last cluster of a row, those of the last one of all, and
\* those of every cluster whose atomic add is done.
Last    == {"resetY", "wake", "iterateY"}
Leading == Last \cup {"resetX", "amoY", "pollY", "iterateX"}
Counted == Leading \cup {"pollX", "wfi", "blocked"}

Polling(c) == Program[Passed(c)] = "poll"

\* The data mover is at one of the labels in a call of the kind.
At(kind, c, labels) == pc[c][DM] \in labels /\ Kind(Passed(c)) = kind

\* A row has announced as many barriers as each of its clusters has passed, or
\* one more if that cluster has still to see it.
InStep(c, g, r) ==
  /\ Passed(c) > 0
  /\ \/ Passed(c) = r[c]
     \/ Passed(c) = r[c] - 1 /\ pc[c][DM] \in {"pollX", "wfi", "blocked"}
  /\ pc[c][DM] \in {"resetX", "amoY"} \cup Last => r[c] = g[c]
  /\ pc[c][DM] = "iterateX" => r[c] = g[c] - 1
  /\ pc[c][DM] \in {"readX", "readY", "iterateY", "pollY", "iterateX", "pollX"} =>
       Polling(c)
  /\ pc[c][DM] \in {"wake", "wfi", "blocked"} => ~Polling(c)

\* The group has announced as many as each of its rows, or one more if the leader
\* of that row has still to pass it on.
RowInStep(c, g, r) ==
  \/ r[c] = g[c]
  \/ /\ r[c] = g[c] - 1
     /\ \E d \in TeamRow("group", c) : pc[d][DM] \in {"pollY", "iterateX"}

\* The clusters of a group agree, and so do all about the global barriers.
Grouped(g, r) ==
  \A c, d \in Clusters :
    /\ d \in Group(c) => g[d] = g[c]
    /\ d \in TeamRow("group", c) => r[d] = r[c]
    /\ \A n \in 1 .. Rounds : Program[n] = "global" /\ n < g[c] => n < g[d]

-----------------------------------------------------------------------------
(* Wake-ups, and the words of the polling barrier. *)

\* A wake-up is on its way to a cluster, or kept for it, exactly while a barrier
\* that wakes it has ended and it has not passed it.
Owed(c, g) == Passed(c) < g[c] /\ ~Polling(c)

Woken(c, g) ==
  /\ \A s, t \in InFlight(c) : s = t
  /\ global_barrier_mutex[c] + (IF InFlight(c) = {} THEN 0 ELSE 1)
       = IF Owed(c, g) THEN 1 ELSE 0
  /\ global_barrier_query[c] = IF pc[c][DM] = "blocked" THEN DM ELSE NULL
  /\ pc[c][DM] = "blocked" => global_barrier_mutex[c] = 0
  /\ wakes[c] = Cardinality({n \in 1 .. g[c] - 1 : Program[n] # "poll"})

Iterated(word) == (word + 1) % IterationMod

\* The words that the data mover of a polling call remembers, by the barriers
\* announced since.
Remembered(c, g, r) ==
  /\ sync[XIter(c)] \in Iterations /\ sync[YIter(c)] \in Iterations
  /\ pc[c][DM] \in {"readY", "amoX"} \cup Leading /\ Polling(c) =>
       sync[XIter(c)] = prev_x[c]
  /\ pc[c][DM] = "pollX" =>
       sync[XIter(c)] = IF Passed(c) = r[c] THEN prev_x[c] ELSE Iterated(prev_x[c])
  /\ pc[c][DM] \in {"amoX", "resetX", "amoY", "resetY", "iterateY"} /\ Polling(c) =>
       sync[YIter(c)] = prev_y[c]
  /\ pc[c][DM] = "pollY" =>
       sync[YIter(c)] = IF r[c] = g[c] THEN prev_y[c] ELSE Iterated(prev_y[c])

-----------------------------------------------------------------------------
(* The counters. *)

\* A cluster is counted towards the next barrier of its row; its row, if it is
\* the last of it, is counted towards the next one of its team.
Arrived(kind, c, r) == At(kind, c, Counted) /\ Passed(c) = r[c]

Reported(kind, c, g, r) ==
  Arrived(kind, c, r) /\ pc[c][DM] \notin {"resetX", "amoY"} /\ r[c] = g[c]

ArrivedOf(kind, c, r) == {d \in TeamRow(kind, c) : Arrived(kind, d, r)}

ReportedRows(kind, c, g, r) ==
  {y \in TeamRows(kind, c) :
     \A d \in Team(kind, c) : RowOf(d) = y => Reported(kind, d, g, r)}

RowFull(kind, c, r)     == ArrivedOf(kind, c, r) = TeamRow(kind, c)
TeamFull(kind, c, g, r) == ReportedRows(kind, c, g, r) = TeamRows(kind, c)

SomeInRow(kind, c, labels)  == \E d \in TeamRow(kind, c) : At(kind, d, labels)
SomeInTeam(kind, c, labels) == \E d \in Team(kind, c) : At(kind, d, labels)

\* A counter holds the number of arrivals until the last of them clears it; a
\* full row has one leader, until the call ends if that is a polling one.
RowCounts(kind, c, r) ==
  /\ XCleared(kind, c) =>
       sync[XWord(kind, c)] =
         IF RowFull(kind, c, r) /\ ~SomeInRow(kind, c, {"resetX"})
         THEN 0 ELSE Cardinality(ArrivedOf(kind, c, r))
  /\ SomeInRow(kind, c, Leading) => RowFull(kind, c, r)
  /\ \A d, e \in TeamRow(kind, c) :
       At(kind, d, Leading) /\ At(kind, e, Leading) => d = e
  /\ RowFull(kind, c, r) /\ (\E d \in TeamRow(kind, c) : Polling(d)) =>
       SomeInRow(kind, c, Leading)

\* And one of its rows leads a full team.
TeamCounts(kind, c, g, r) ==
  /\ YCleared(kind, c) =>
       sync[YWord(kind, c)] =
         IF TeamFull(kind, c, g, r) /\ ~SomeInTeam(kind, c, {"resetY"})
         THEN 0 ELSE Cardinality(ReportedRows(kind, c, g, r))
  /\ SomeInTeam(kind, c, Last) => TeamFull(kind, c, g, r)
  /\ \A d, e \in Team(kind, c) : At(kind, d, Last) /\ At(kind, e, Last) => d = e

GroupInv(g, r) ==
  /\ Grouped(g, r)
  /\ \A c \in Clusters : /\ InStep(c, g, r) /\ RowInStep(c, g, r)
                         /\ Woken(c, g) /\ Remembered(c, g, r)
  /\ \A kind \in Kinds, c \in Clusters : RowCounts(kind, c, r) /\ TeamCounts(kind, c, g, r)

IInv ==
  /\ TypeOK
  /\ SyncInv
  /\ InitInv
  /\ \E g, r \in [Clusters -> Nat] : GroupInv(g, r)
=============================================================================
