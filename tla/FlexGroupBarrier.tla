-------------------------- MODULE FlexGroupBarrier --------------------------
(***************************************************************************)
(* grid_sync_group_init and the barriers of the groups it cuts the mesh    *)
(* into, in a program that also calls flex_global_barrier_xy.              *)
(*                                                                         *)
(* A group of GridX by GridY clusters counts its arrivals in words of two  *)
(* of its own clusters, and either is woken by a broadcast masked to the   *)
(* group or polls iteration words.  The groups run ahead of each other,    *)
(* and all the barriers share the wait-for-wakeup registers.               *)
(*                                                                         *)
(* The program starts where flex_barrier_xy_init ends.                     *)
(***************************************************************************)
EXTENDS ClusterRegisters, FiniteSets, Sequences

CONSTANTS
  First,          \* the core with id 0, which clears its cluster's words
  GridX, GridY,   \* grid_x_dim, grid_y_dim: grid_sync_group_init takes no others
                  \* than powers of two
  Program,        \* the calls: "global", "group" or "poll"
  Garbage,        \* values an uninitialised word of sync memory may hold
  IterationMod    \* the iteration words count modulo this (2^32)

ASSUME ProgramAssumption ==
  /\ First \in Cores
  /\ GridX \in Nat \ {0} /\ GridY \in Nat \ {0}
  /\ \E n \in 0 .. NumX : GridX = 2 ^ n
  /\ \E n \in 0 .. NumY : GridY = 2 ^ n
  /\ Program \in Seq({"global", "group", "poll"}) /\ Len(Program) = Rounds
  /\ Garbage \subseteq Nat
  /\ IterationMod \in Nat /\ IterationMod > 1

VARIABLES
  init,       \* cluster -> the word its core 0 clears next, or "done"
  sync,       \* <<cluster, word>> -> the sync memory
  prev_x,     \* cluster -> prev_barrier_iter_x of its data mover
  prev_y,     \* cluster -> prev_barrier_iter_y
  wakes       \* history: cluster -> wake-up broadcasts that select it

words == <<sync, prev_x, prev_y, wakes>>
vars == <<registers, barrier_status, pc, entered, left, init, words>>

\* The words of a cluster's sync memory, at +8, +16, +24, +28, +32 and +36.
Words == {"barrier_x", "barrier_y", "sync_x_point", "sync_x_piter",
          "sync_y_point", "sync_y_piter"}

Iterations == 0 .. IterationMod - 1

Labels == WorkerLabels \cup {"readX", "readY", "amoX", "resetX", "amoY", "resetY",
                             "wake", "wfi", "blocked",
                             "iterateY", "pollY", "iterateX", "pollX"}

-----------------------------------------------------------------------------
(* GridSyncGroupInfo of a cluster. *)

\* The end of a group is cut off at the border of the mesh.
Clip(last, border) == IF last >= border THEN border - 1 ELSE last

GridId(c) == <<c[1] \div GridX, c[2] \div GridY>>

LeftMost(c)   == GridId(c)[1] * GridX
RightMost(c)  == Clip((GridId(c)[1] + 1) * GridX - 1, NumX)
BottomMost(c) == GridId(c)[2] * GridY
TopMost(c)    == Clip((GridId(c)[2] + 1) * GridY - 1, NumY)

\* Mutant: off by one.
GroupNumXShort(c) == RightMost(c) - LeftMost(c)

GroupNumX(c) == RightMost(c) + 1 - LeftMost(c)
GroupNumY(c) == TopMost(c) + 1 - BottomMost(c)

SyncXCluster(c) == <<(LeftMost(c) + RightMost(c)) \div 2, c[2]>>
SyncYCluster(c) == <<SyncXCluster(c)[1], (BottomMost(c) + TopMost(c)) \div 2>>

Group(c) == {d \in Clusters : GridId(d) = GridId(c)}

\* The masks ~(dim - 1) keep the bits of a position above those of dim.
MaskSelects(c, d) ==
  /\ d[1] - (d[1] % GridX) = c[1] - (c[1] % GridX)
  /\ d[2] - (d[2] % GridY) = c[2] - (c[2] % GridY)

-----------------------------------------------------------------------------
(* The call that the data mover of c is in, and the words it uses. *)

Call(c)   == Program[entered[<<c, DM>>]]
Global(c) == Call(c) = "global"

XPoint(c) == IF Global(c) THEN <<<<NumX \div 2, c[2]>>, "barrier_x">>
             ELSE <<SyncXCluster(c), "sync_x_point">>
YPoint(c) == IF Global(c) THEN <<<<NumX \div 2, NumY \div 2>>, "barrier_y">>
             ELSE <<SyncYCluster(c), "sync_y_point">>
XIter(c)  == <<SyncXCluster(c), "sync_x_piter">>
YIter(c)  == <<SyncYCluster(c), "sync_y_piter">>

CountX(c) == IF Global(c) THEN NumX ELSE GroupNumX(c)
CountY(c) == IF Global(c) THEN NumY ELSE GroupNumY(c)

\* Everybody, or the clusters of the group.
Joined(n, c) == IF Program[n] = "global" THEN Clusters ELSE Group(c)

TypeOK ==
  /\ RegistersType
  /\ CoresType(Labels)
  /\ init \in [Clusters -> {"sync_x_point", "sync_y_point", "done"}]
  /\ sync \in [Clusters \X Words -> Nat]
  /\ prev_x \in [Clusters -> Iterations] /\ prev_y \in [Clusters -> Iterations]
  /\ wakes \in [Clusters -> Nat]

\* The group's words hold anything; to bound the initial states, the same in
\* every cluster.
Init ==
  /\ RegistersInit
  /\ CoresInit
  /\ init = [c \in Clusters |-> "sync_x_point"]
  /\ \E g \in Garbage, i \in Iterations :
       sync = [w \in Clusters \X Words |->
                 CASE w[2] \in {"barrier_x", "barrier_y"}       -> 0
                   [] w[2] \in {"sync_x_point", "sync_y_point"} -> g
                   [] OTHER                                     -> i]
  /\ prev_x = [c \in Clusters |-> 0] /\ prev_y = [c \in Clusters |-> 0]
  /\ wakes = [c \in Clusters |-> 0]

-----------------------------------------------------------------------------
(* grid_sync_group_init: core 0 clears the two words of its own cluster. *)

InitReset(c, from, to, word) ==
  /\ init[c] = from
  /\ init' = [init EXCEPT ![c] = to]
  /\ sync' = [sync EXCEPT ![<<c, word>>] = 0]
  /\ UNCHANGED <<registers, barrier_status, pc, entered, left, prev_x, prev_y, wakes>>

\* Mutant: the second store clears the first word again.
InitResetYWrongWord(c) == InitReset(c, "sync_y_point", "done", "sync_x_point")

InitResetX(c) == InitReset(c, "sync_x_point", "sync_y_point", "sync_x_point")
InitResetY(c) == InitReset(c, "sync_y_point", "done", "sync_y_point")

-----------------------------------------------------------------------------
(* The calls. *)

Enter(c, k) ==
  /\ k = First => init[c] = "done"
  /\ EnterCall(c, k, IF Program[entered[<<c, k>>] + 1] = "poll" THEN "readX" ELSE "amoX")
  /\ UNCHANGED <<registers, init, words>>

SecondSync(c, k) ==
  /\ LeaveCall(c, k, "amoX")
  /\ UNCHANGED <<registers, init, words>>

ReadX(c) ==
  /\ Goto(c, "readX", "readY")
  /\ prev_x' = [prev_x EXCEPT ![c] = sync[XIter(c)]]
  /\ UNCHANGED <<registers, init, sync, prev_y, wakes>>

ReadY(c) ==
  /\ Goto(c, "readY", "amoX")
  /\ prev_y' = [prev_y EXCEPT ![c] = sync[YIter(c)]]
  /\ UNCHANGED <<registers, init, sync, prev_x, wakes>>

AmoX(c) ==
  /\ Goto(c, "amoX", IF sync[XPoint(c)] = CountX(c) - 1 THEN "resetX"
                     ELSE IF Call(c) = "poll" THEN "pollX" ELSE "wfi")
  /\ sync' = [sync EXCEPT ![XPoint(c)] = @ + 1]
  /\ UNCHANGED <<registers, init, prev_x, prev_y, wakes>>

ResetX(c) ==
  /\ Goto(c, "resetX", "amoY")
  /\ sync' = [sync EXCEPT ![XPoint(c)] = 0]
  /\ UNCHANGED <<registers, init, prev_x, prev_y, wakes>>

AmoY(c) ==
  /\ Goto(c, "amoY", IF sync[YPoint(c)] = CountY(c) - 1 THEN "resetY"
                     ELSE IF Call(c) = "poll" THEN "pollY" ELSE "wfi")
  /\ sync' = [sync EXCEPT ![YPoint(c)] = @ + 1]
  /\ UNCHANGED <<registers, init, prev_x, prev_y, wakes>>

ResetY(c) ==
  /\ Goto(c, "resetY", IF Call(c) = "poll" THEN "iterateY" ELSE "wake")
  /\ sync' = [sync EXCEPT ![YPoint(c)] = 0]
  /\ UNCHANGED <<registers, init, prev_x, prev_y, wakes>>

Selected(c) == IF Global(c) THEN Clusters ELSE {d \in Clusters : MaskSelects(c, d)}

\* Mutant: the last cluster of a group wakes the whole mesh.
WakeEverybody(c) ==
  /\ Goto(c, "wake", "wfi")
  /\ SendWakeup(c, Clusters)
  /\ wakes' = [d \in Clusters |-> wakes[d] + 1]
  /\ UNCHANGED <<global_barrier_mutex, global_barrier_query, init, sync, prev_x, prev_y>>

\* Mutant: the last cluster does not wake itself.
WakeOthers(c) ==
  /\ Goto(c, "wake", "wfi")
  /\ SendWakeup(c, Selected(c) \ {c})
  /\ wakes' = [d \in Clusters |-> IF d \in Selected(c) THEN wakes[d] + 1 ELSE wakes[d]]
  /\ UNCHANGED <<global_barrier_mutex, global_barrier_query, init, sync, prev_x, prev_y>>

\* flex_wakeup_all_clusters, or flex_wakeup_clusters with the group's masks.
Wake(c) ==
  /\ Goto(c, "wake", "wfi")
  /\ SendWakeup(c, Selected(c))
  /\ wakes' = [d \in Clusters |-> IF d \in Selected(c) THEN wakes[d] + 1 ELSE wakes[d]]
  /\ UNCHANGED <<global_barrier_mutex, global_barrier_query, init, sync, prev_x, prev_y>>

Wfi(c) ==
  /\ Goto(c, "wfi", IF WaitPends(c) THEN "blocked" ELSE "sync2")
  /\ WaitForWakeup(c, DM)
  /\ UNCHANGED <<wakeup, init, words>>

DeliverWakeup(s, c) ==
  /\ GlobalBarrierSync(s, c)
  /\ pc' = [pc EXCEPT ![c] = [k \in Cores |->
              IF k = global_barrier_query[c] THEN "sync2" ELSE pc[c][k]]]
  /\ UNCHANGED <<barrier_status, entered, left, init, words>>

Advance(c, from, to, word) ==
  /\ Goto(c, from, to)
  /\ sync' = [sync EXCEPT ![word] = (@ + 1) % IterationMod]
  /\ UNCHANGED <<registers, init, prev_x, prev_y, wakes>>

IterateY(c) == Advance(c, "iterateY", "iterateX", YIter(c))
IterateX(c) == Advance(c, "iterateX", "sync2", XIter(c))

\* The loops that poll: only the read that ends them is a step.
PollY(c) ==
  /\ sync[YIter(c)] # prev_y[c]
  /\ Goto(c, "pollY", "iterateX")
  /\ UNCHANGED <<registers, init, words>>

PollX(c) ==
  /\ sync[XIter(c)] # prev_x[c]
  /\ Goto(c, "pollX", "sync2")
  /\ UNCHANGED <<registers, init, words>>

-----------------------------------------------------------------------------
\* The program is over: the model has nothing left to do.
Terminating == Finished /\ UNCHANGED vars

DMStep(c) ==
  \/ ReadX(c) \/ ReadY(c) \/ AmoX(c) \/ ResetX(c) \/ AmoY(c) \/ ResetY(c)
  \/ Wake(c) \/ Wfi(c) \/ IterateY(c) \/ PollY(c) \/ IterateX(c) \/ PollX(c)

CoreStep(c, k) == Enter(c, k) \/ SecondSync(c, k)

GroupInit(c) == InitResetX(c) \/ InitResetY(c)

Next ==
  \/ \E c \in Clusters : GroupInit(c) \/ DMStep(c)
  \/ \E c \in Clusters, k \in Cores : CoreStep(c, k)
  \/ \E s, c \in Clusters : DeliverWakeup(s, c)
  \/ Terminating

Spec == Init /\ [][Next]_vars

\* Some core or the NoC goes on as long as one of them can.
FairSpec == Spec /\ WF_vars(Next)

-----------------------------------------------------------------------------
(* Properties. *)

\* No core returns from its n-th call before every core of its group, or of the
\* mesh when that call is a global one, has made its n-th.
GroupSafety ==
  \A c \in Clusters, k \in Cores : \A n \in 1 .. left[<<c, k>>] :
    \A d \in Joined(n, c), j \in Cores : n <= entered[<<d, j>>]

\* The wake-ups the data mover of c has consumed: one for each of its calls, but
\* the polling ones, whose wait is behind it.
Consumed(c) ==
  LET behind == {n \in 1 .. entered[<<c, DM>>] :
                   n < entered[<<c, DM>>] \/ pc[c][DM] \in {"sync2", "wait2", "work"}}
  IN  Cardinality({n \in behind : Program[n] # "poll"})

InFlight(c) == {s \in Clusters : c \in wakeup[s]}

\* A broadcast of a group never meets, at any cluster, one of another group or
\* of a global barrier: each is consumed once, kept as the token or on its way.
WakeupsConserved ==
  \A c \in Clusters :
    /\ \A s, t \in InFlight(c) : s = t
    /\ wakes[c] = Consumed(c) + global_barrier_mutex[c]
                    + (IF InFlight(c) = {} THEN 0 ELSE 1)

\* Clearing a counter loses no arrival of a later call: it holds the full count
\* of the call that is ending when flex_reset_barrier clears it.
ResetLosesNobody ==
  \A c \in Clusters : /\ pc[c][DM] = "resetX" => sync[XPoint(c)] = CountX(c)
                      /\ pc[c][DM] = "resetY" => sync[YPoint(c)] = CountY(c)

\* The barriers implement the abstract one, and every call returns.
Peers == [n \in 1 .. Rounds |-> [p \in Participants |-> Joined(n, p[1]) \X Cores]]
AbstractBarrier == INSTANCE GroupBarrier
ImplementsGroupBarrier == AbstractBarrier!Spec
=============================================================================
