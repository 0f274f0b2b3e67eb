---------------------------- MODULE ClusterGrid ----------------------------
(***************************************************************************)
(* The mesh of clusters and the cores of a cluster, as the runtime library *)
(* numbers them.  A cluster is its position <<x, y>>; get_pos maps the     *)
(* cluster id y * NumX + x to it one to one.                               *)
(***************************************************************************)
EXTENDS Naturals

CONSTANTS
  NumX, NumY,   \* ARCH_NUM_CLUSTER_X, ARCH_NUM_CLUSTER_Y
  Cores,        \* the cores of one cluster
  DM            \* the data-mover core, the one that takes part in barriers

ASSUME GridAssumption ==
  /\ NumX \in Nat \ {0}
  /\ NumY \in Nat \ {0}
  /\ DM \in Cores

Columns  == 0 .. NumX - 1
Rows     == 0 .. NumY - 1
Clusters == Columns \X Rows

RowOf(c) == c[2]

\* Cluster id 0, the one that initialises the shared words.
Cluster0 == <<0, 0>>
=============================================================================
