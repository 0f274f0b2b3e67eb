-------------------------- MODULE ClusterCoresInv ---------------------------
(***************************************************************************)
(* What every global barrier keeps true of the cores of a cluster, whatever *)
(* the data mover does between the two syncs of a call.                     *)
(***************************************************************************)
EXTENDS ClusterCores, Integers

\* How many intra-cluster syncs core k of c has been released from: one in the
\* initialisation, two in each call.
Syncs(c, k) ==
  2 * entered[<<c, k>>] + (IF pc[c][k] = "work" THEN 1
                           ELSE IF pc[c][k] = "wait1" THEN -1 ELSE 0)

\* The cores of a cluster have always passed the same number of syncs, and the
\* status bits are those of the cores held in one.
SyncInv ==
  \A c \in Clusters, k \in Cores :
    /\ Syncs(c, k) = Syncs(c, DM)
    /\ k \in barrier_status[c] <=> pc[c][k] \in {"wait1", "wait2"}
    /\ k # DM => pc[c][k] \in WorkerLabels
    /\ pc[c][k] = "wait1" => entered[<<c, k>>] > 0
    /\ left[<<c, k>>] = IF pc[c][k] = "work" \/ entered[<<c, k>>] = 0
                    THEN entered[<<c, k>>] ELSE entered[<<c, k>>] - 1

\* How many barriers the data mover of c has behind it, the initialisation
\* being the first: it is past the end of one from its second sync on.
Passed(c) ==
  IF pc[c][DM] \in {"sync2", "wait2", "work"} THEN entered[<<c, DM>>] + 1
                                              ELSE entered[<<c, DM>>]

\* Some data mover of row y is at one of the labels.
RowHas(y, labels) == \E x \in Columns : pc[<<x, y>>][DM] \in labels
=============================================================================
