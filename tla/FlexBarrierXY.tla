--------------------------- MODULE FlexBarrierXY ----------------------------
(***************************************************************************)
(* flex_barrier_xy_init followed by a program's calls of                   *)
(* flex_global_barrier_xy, on every core of every cluster.                 *)
(*                                                                         *)
(* A call synchronises the cores of the cluster, then the data-mover core  *)
(* counts its cluster in the word of its row; the last of a row clears the *)
(* word and counts the row in the word of the mesh; the last of the rows   *)
(* clears that and wakes every cluster.  Everybody then waits in the       *)
(* wait-for-wakeup register, and the cores synchronise again.              *)
(*                                                                         *)
(* Stores and atomics block the core until they are answered, so each is   *)
(* one step; the wake-up store is answered before its copies arrive.       *)
(***************************************************************************)
EXTENDS ClusterRegisters

CONSTANT Garbage    \* values an uninitialised word of sync memory may hold

ASSUME GarbageAssumption == Garbage \subseteq Nat

VARIABLES
  init_row,     \* the loop counter of flex_barrier_xy_init on cluster 0
  barrier_x,    \* row -> its counter, at +8 of the row's middle cluster
  barrier_y,    \* the counter of rows, at +16 of the middle cluster
  wakes         \* history: wake-up broadcasts issued

counters == <<init_row, barrier_x, barrier_y>>
program == <<barrier_status, pc, entered, left, counters, wakes>>
vars == <<registers, program>>

\* "blocked": held by the wait-for-wakeup register.
Labels == WorkerLabels \cup {"initY", "initX", "amoX", "resetX", "amoY", "resetY",
                             "wake", "wfi", "blocked"}

TypeOK ==
  /\ RegistersType
  /\ CoresType(Labels)
  /\ init_row \in Nat
  /\ barrier_x \in [Rows -> Nat]
  /\ barrier_y \in Nat
  /\ wakes \in Nat

Init ==
  /\ RegistersInit
  /\ barrier_status = [c \in Clusters |-> {}]
  /\ pc = [c \in Clusters |-> [k \in Cores |->
             IF k # DM THEN "sync2" ELSE IF c = Cluster0 THEN "initY" ELSE "wfi"]]
  /\ init_row = 0
  /\ barrier_x \in [Rows -> Garbage]
  /\ barrier_y \in Garbage
  /\ entered = [p \in Participants |-> 0]
  /\ left = [p \in Participants |-> 0]
  /\ wakes = 0

-----------------------------------------------------------------------------
(* flex_barrier_xy_init: cluster 0 clears every counter and wakes all. *)

InitResetY ==
  /\ Goto(Cluster0, "initY", "initX")
  /\ barrier_y' = 0
  /\ UNCHANGED <<registers, init_row, barrier_x, wakes>>

\* Mutant: the initialisation forgets the words of the rows.
InitResetXForgets ==
  /\ Goto(Cluster0, "initX", IF init_row + 1 = NumY THEN "wake" ELSE "initX")
  /\ init_row' = init_row + 1
  /\ UNCHANGED <<registers, barrier_x, barrier_y, wakes>>

InitResetX ==
  /\ Goto(Cluster0, "initX", IF init_row + 1 = NumY THEN "wake" ELSE "initX")
  /\ barrier_x' = [barrier_x EXCEPT ![init_row] = 0]
  /\ init_row' = init_row + 1
  /\ UNCHANGED <<registers, barrier_y, wakes>>

-----------------------------------------------------------------------------
(* flex_intra_cluster_sync, at either end of a call. *)

Enter(c, k) ==
  /\ EnterCall(c, k, "amoX")
  /\ UNCHANGED <<registers, counters, wakes>>

SecondSync(c, k) ==
  /\ LeaveCall(c, k, "amoX")
  /\ UNCHANGED <<registers, counters, wakes>>

-----------------------------------------------------------------------------
(* The data-mover core between the two syncs. *)

\* flex_amo_fetch_add(barrier_x), and whether it was the last of the row.
AmoX(c) ==
  /\ Goto(c, "amoX", IF barrier_x[RowOf(c)] = NumX - 1 THEN "resetX" ELSE "wfi")
  /\ barrier_x' = [barrier_x EXCEPT ![RowOf(c)] = @ + 1]
  /\ UNCHANGED <<registers, init_row, barrier_y, wakes>>

\* Mutant: the last of a row does not clear its word.
ResetXForgets(c) ==
  /\ Goto(c, "resetX", "amoY")
  /\ UNCHANGED <<registers, counters, wakes>>

ResetX(c) ==
  /\ Goto(c, "resetX", "amoY")
  /\ barrier_x' = [barrier_x EXCEPT ![RowOf(c)] = 0]
  /\ UNCHANGED <<registers, init_row, barrier_y, wakes>>

AmoY(c) ==
  /\ Goto(c, "amoY", IF barrier_y = NumY - 1 THEN "resetY" ELSE "wfi")
  /\ barrier_y' = barrier_y + 1
  /\ UNCHANGED <<registers, init_row, barrier_x, wakes>>

ResetY(c) ==
  /\ Goto(c, "resetY", "wake")
  /\ barrier_y' = 0
  /\ UNCHANGED <<registers, init_row, barrier_x, wakes>>

\* flex_wakeup_all_clusters: masks of 0 select every cluster.
WakeAll(c) ==
  /\ Goto(c, "wake", "wfi")
  /\ SendWakeup(c, Clusters)
  /\ wakes' = wakes + 1
  /\ UNCHANGED <<counters, global_barrier_mutex, global_barrier_query>>

\* *cluster_reg = 1
Wfi(c) ==
  /\ Goto(c, "wfi", IF WaitPends(c) THEN "blocked" ELSE "sync2")
  /\ WaitForWakeup(c, DM)
  /\ UNCHANGED <<counters, wakes, wakeup>>

\* The broadcast of s reaches c, and answers the store it finds held.
DeliverWakeup(s, c) ==
  /\ GlobalBarrierSync(s, c)
  /\ pc' = [pc EXCEPT ![c] = [k \in Cores |->
              IF k = global_barrier_query[c] THEN "sync2" ELSE pc[c][k]]]
  /\ UNCHANGED <<barrier_status, entered, left, counters, wakes>>

-----------------------------------------------------------------------------
\* The program is over: the model has nothing left to do.
Terminating == Finished /\ UNCHANGED vars

DMStep(c) == \/ AmoX(c) \/ ResetX(c) \/ AmoY(c) \/ ResetY(c)
             \/ WakeAll(c) \/ Wfi(c)

CoreStep(c, k) == Enter(c, k) \/ SecondSync(c, k)

Next ==
  \/ InitResetY
  \/ InitResetX
  \/ \E c \in Clusters : DMStep(c)
  \/ \E c \in Clusters, k \in Cores : CoreStep(c, k)
  \/ \E s, c \in Clusters : DeliverWakeup(s, c)
  \/ Terminating

Spec == Init /\ [][Next]_vars

\* Some core or the NoC goes on as long as one of them can: the weakest
\* fairness there is, and enough for calls that are finitely many.
FairSpec == Spec /\ WF_vars(Next)

-----------------------------------------------------------------------------
(* Properties. *)

\* No core of any cluster returns from its n-th call of flex_global_barrier_xy
\* before every core of every cluster has made its n-th call: the promise of
\* the barrier, through both intra-cluster syncs, the two counters, the
\* register and the asynchronous broadcast.
BarrierSafety ==
  \A p, q \in Participants : left[p] <= entered[q]

\* How many wake-ups the data-mover core of c has consumed: one for the
\* initialisation and one for each call whose wait is behind it.
Consumed(c) ==
  IF pc[c][DM] \in {"sync2", "wait2", "work"} THEN entered[<<c, DM>>] + 1
                                              ELSE entered[<<c, DM>>]

InFlight(c) == {s \in Clusters : c \in wakeup[s]}

\* No wake-up is lost, duplicated or merged: for each cluster, every broadcast
\* issued so far is consumed, kept as the token, or still on its way, and at
\* most one of them is not consumed.  It would fail if a wake-up met a token
\* not yet taken (global_barrier_mutex saturates).
WakeupsConserved ==
  \A c \in Clusters :
    /\ \A s, t \in InFlight(c) : s = t
    /\ wakes = Consumed(c) + global_barrier_mutex[c]
                 + (IF InFlight(c) = {} THEN 0 ELSE 1)

\* global_barrier_master_req is one object: a cluster never issues a broadcast
\* while copies of its previous one are still in the NoC.
MasterRequestFree ==
  [][\A c \in Clusters : wakeup'[c] \subseteq wakeup[c] \/ wakeup[c] = {}]_vars

\* The barrier implements the abstract one, and every call returns.
AbstractBarrier == INSTANCE Barrier
ImplementsBarrier == AbstractBarrier!Spec
=============================================================================
