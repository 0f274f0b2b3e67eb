---------------------------- MODULE ClusterCores ----------------------------
(***************************************************************************)
(* The cores of the clusters while a program calls a global barrier, and   *)
(* the barrier in hardware among the cores of one cluster: the first half  *)
(* of cluster_registers, read through CSR 0x7C2.  One status bit per core; *)
(* the last bit to be set clears them all and acknowledges all the cores.  *)
(*                                                                         *)
(* Every global barrier of the runtime is a first intra-cluster sync, some *)
(* work of the data-mover core alone, and a second sync.  A core is at the *)
(* label "work" between calls, "wait1" and "wait2" while a sync holds it,  *)
(* and "sync2" before its second sync; the labels of the data mover's work *)
(* are those of the barrier.                                               *)
(***************************************************************************)
EXTENDS ClusterGrid

CONSTANT Rounds     \* bound: how many times the program calls the barrier

ASSUME RoundsAssumption == Rounds \in Nat

VARIABLES
  barrier_status,   \* cluster -> the cores whose bit is set
  pc,               \* cluster -> core -> where the core is
  entered,          \* history: <<cluster, core>> -> calls made
  left              \* history: <<cluster, core>> -> calls returned

Participants == Clusters \X Cores

WorkerLabels == {"work", "wait1", "sync2", "wait2"}

CoresType(labels) ==
  /\ barrier_status \in [Clusters -> SUBSET Cores]
  /\ pc \in [Clusters -> [Cores -> labels]]
  /\ entered \in [Participants -> 0 .. Rounds]
  /\ left \in [Participants -> 0 .. Rounds]

\* Every core is done with the initialisation.
CoresInit ==
  /\ barrier_status = [c \in Clusters |-> {}]
  /\ pc = [c \in Clusters |-> [k \in Cores |-> "work"]]
  /\ entered = [p \in Participants |-> 0]
  /\ left = [p \in Participants |-> 0]

\* The data-mover core of c moves from one label to another.
Goto(c, from, to) == /\ pc[c][DM] = from
                     /\ pc' = [pc EXCEPT ![c][DM] = to]
                     /\ UNCHANGED <<barrier_status, entered, left>>

-----------------------------------------------------------------------------
(* The hardware barrier of a cluster. *)

\* The bit of core k completes the set: the cores are acknowledged.
CompletesBarrier(c, k) == barrier_status[c] \cup {k} = Cores

BarrierSync(c, k) ==
  barrier_status' = [barrier_status EXCEPT ![c] =
                       IF CompletesBarrier(c, k) THEN {} ELSE @ \cup {k}]

\* Where the acknowledgement lets core k of a cluster go on from: after the
\* first sync the data mover starts its work.
Released(k, label, start) ==
  IF label = "wait1" THEN (IF k = DM THEN start ELSE "sync2")
  ELSE IF label = "wait2" THEN "work" ELSE label

\* Core k of c reads the barrier CSR and is held at the given label; the last
\* core of the cluster releases them all, and a second sync ends the call.
SyncCores(c, k, label, start) ==
  LET held == [pc[c] EXCEPT ![k] = label]
  IN  /\ BarrierSync(c, k)
      /\ IF CompletesBarrier(c, k)
         THEN /\ pc' = [pc EXCEPT ![c] =
                          [j \in Cores |-> Released(j, held[j], start)]]
              /\ left' = [p \in Participants |->
                            IF p[1] = c /\ held[p[2]] = "wait2"
                            THEN entered[p] ELSE left[p]]
         ELSE /\ pc' = [pc EXCEPT ![c] = held]
              /\ UNCHANGED left

\* A core calls the barrier: its first sync, then the data mover's start.
EnterCall(c, k, start) ==
  /\ pc[c][k] = "work"
  /\ entered[<<c, k>>] < Rounds
  /\ entered' = [entered EXCEPT ![<<c, k>>] = @ + 1]
  /\ SyncCores(c, k, "wait1", start)

LeaveCall(c, k, start) ==
  /\ pc[c][k] = "sync2"
  /\ SyncCores(c, k, "wait2", start)
  /\ UNCHANGED entered

Finished == \A p \in Participants : left[p] = Rounds
=============================================================================
