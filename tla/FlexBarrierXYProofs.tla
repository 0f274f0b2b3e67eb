------------------------ MODULE FlexBarrierXYProofs -------------------------
(* Theorems about FlexBarrierXY for every mesh, every number of cores, every *)
(* number of calls and every initial content of the sync memory.             *)
EXTENDS FlexBarrierXYInv, ClusterCoresProofs

USE GridAssumption, NullAssumption, RoundsAssumption, GarbageAssumption

-----------------------------------------------------------------------------
(* Type correctness. *)

LEMMA TypeInit == Init => TypeOK
<1> SUFFICES ASSUME Init PROVE TypeOK
  OBVIOUS
<1>1. RegistersType
  BY DEF Init, RegistersInit, RegistersType
<1>2. pc \in [Clusters -> [Cores -> Labels]]
  BY DEF Init, Labels, WorkerLabels
<1>3. barrier_x \in [Rows -> Nat] /\ barrier_y \in Nat
  BY DEF Init
<1>4. entered \in [Participants -> 0 .. Rounds] /\ left \in [Participants -> 0 .. Rounds]
  BY DEF Init
<1> QED BY <1>1, <1>2, <1>3, <1>4 DEF Init, TypeOK, CoresType

LEMMA LabelFacts ==
  /\ WorkerLabels \subseteq Labels
  /\ "amoX" \in Labels /\ WorkLabel("amoX")
  BY DEF Labels, WorkerLabels, WorkLabel

LEMMA EnteredType ==
  ASSUME TypeOK, NEW c \in Clusters, NEW k \in Cores
  PROVE  entered[<<c, k>>] \in Nat /\ left[<<c, k>>] \in Nat
  BY EnteredNat DEF TypeOK

LEMMA GotoPoint ==
  ASSUME TypeOK, NEW c \in Clusters, NEW from, NEW to, Goto(c, from, to)
  PROVE  /\ pc[c][DM] = from
         /\ \A d \in Clusters, j \in Cores :
              pc'[d][j] = IF d = c /\ j = DM THEN to ELSE pc[d][j]
         /\ UNCHANGED <<barrier_status, entered, left>>
  BY GotoEffect DEF TypeOK

LEMMA SyncInvInit == Init => SyncInv
<1> SUFFICES ASSUME Init, NEW c \in Clusters, NEW k \in Cores
             PROVE  /\ Syncs(c, k) = Syncs(c, DM)
                    /\ k \in barrier_status[c] <=> pc[c][k] \in {"wait1", "wait2"}
                    /\ k # DM => pc[c][k] \in WorkerLabels
                    /\ pc[c][k] = "wait1" => entered[<<c, k>>] > 0
                    /\ left[<<c, k>>] = IF pc[c][k] = "work" \/ entered[<<c, k>>] = 0
                                        THEN entered[<<c, k>>] ELSE entered[<<c, k>>] - 1
  BY DEF SyncInv
<1> QED BY DEF Init, Participants, Syncs, WorkerLabels

-----------------------------------------------------------------------------
(* Wake-ups are conserved. *)

\* What the invariant says of one cluster.
WakeInvAt(c) ==
  /\ \A s, t \in InFlight(c) : s = t
  /\ wakes = Consumed(c) + global_barrier_mutex[c]
               + (IF InFlight(c) = {} THEN 0 ELSE 1)
  /\ Consumed(c) <= wakes
  /\ wakes <= Consumed(c) + 1
  /\ wakes = Consumed(c) + 1 => pc[c][DM] \in {"wfi", "blocked"}
  /\ global_barrier_query[c] = IF pc[c][DM] = "blocked" THEN DM ELSE NULL
  /\ pc[c][DM] = "blocked" => global_barrier_mutex[c] = 0

LEMMA WakeInvPointwise == WakeInv <=> \A c \in Clusters : WakeInvAt(c)
  BY DEF WakeInv, WakeInvAt, WakeupsConserved

LEMMA WakeTypes ==
  ASSUME TypeOK, NEW c \in Clusters
  PROVE  Consumed(c) \in Nat /\ global_barrier_mutex[c] \in {0, 1} /\ wakes \in Nat
  BY EnteredType, GridAssumption DEF TypeOK, RegistersType, Consumed

LEMMA WakeInvInit == Init => WakeInv
<1> SUFFICES ASSUME Init, NEW c \in Clusters PROVE WakeInvAt(c)
  BY WakeInvPointwise
<1>1. /\ InFlight(c) = {} /\ global_barrier_mutex[c] = 0
      /\ global_barrier_query[c] = NULL /\ wakes = 0
  BY DEF Init, RegistersInit, InFlight
<1>2. pc[c][DM] \in {"initY", "wfi"} /\ entered[<<c, DM>>] = 0
  BY DEF Init, Participants
<1> QED BY <1>1, <1>2 DEF WakeInvAt, Consumed

\* A step that moves the data mover of c, at most, between labels on the same
\* side of the wait, and does not touch the registers of the wait.
LEMMA WakeInvFrame ==
  ASSUME TypeOK, WakeInv, NEW c \in Clusters,
         UNCHANGED <<global_barrier_mutex, global_barrier_query, wakeup, wakes>>,
         Consumed(c)' = Consumed(c),
         pc'[c][DM] = pc[c][DM] \/ {pc[c][DM], pc'[c][DM]} \cap {"wfi", "blocked"} = {}
  PROVE  WakeInvAt(c)'
<1>1. InFlight(c)' = InFlight(c)
  BY DEF InFlight
<1>2. WakeInvAt(c)
  BY WakeInvPointwise
<1> QED BY <1>1, <1>2 DEF WakeInvAt

\* The labels that the initialisation and a call have between the two syncs
\* and after the atomic add of the row.
Busy == {"initY", "initX", "resetX", "amoY", "resetY", "wake", "wfi", "blocked"}

\* A sync moves no data mover into or out of those, and consumes no wake-up.
LEMMA CoreStepDM ==
  ASSUME TypeOK, SyncInv, NEW c \in Clusters, NEW k \in Cores, CoreStep(c, k),
         NEW d \in Clusters
  PROVE  /\ Consumed(d)' = Consumed(d)
         /\ \/ pc'[d][DM] = pc[d][DM]
            \/ {pc[d][DM], pc'[d][DM]} \cap Busy = {}
<1>1. CallStep(c, k, "amoX") /\ WorkLabel("amoX") /\ CoresType(Labels)
  BY LabelFacts DEF CoreStep, Enter, SecondSync, CallStep, TypeOK
<1>2. /\ Passed(d)' = Passed(d)
      /\ \/ pc'[d][DM] = pc[d][DM]
         \/ {pc[d][DM], pc'[d][DM]} \subseteq WorkerLabels
         \/ pc[d][DM] \in WorkerLabels /\ pc'[d][DM] = "amoX"
  BY <1>1, PassedCall
<1>3. Consumed(d)' = Consumed(d)
  BY <1>2 DEF Consumed, Passed
<1> QED BY <1>2, <1>3 DEF Busy, WorkerLabels

\* Before the broadcast, everybody else waits and every counter is clear: in
\* the initialisation, and when the leader of the last row has cleared the
\* counter of the mesh.
LEMMA AllWaiting ==
  ASSUME TypeOK, WakeInv, InitInv, MeshInv,
         NEW c \in Clusters, pc[c][DM] = "wake"
  PROVE  /\ \A d \in Clusters : /\ Consumed(d) = wakes
                                /\ d # c => pc[d][DM] \in {"wfi", "blocked"}
         /\ \A y \in Rows : barrier_x[y] = 0
         /\ barrier_y = 0
<1>1. CASE wakes = 0
  <2>1. c = Cluster0
    BY <1>1 DEF InitInv
  <2>2. \A d \in Clusters : /\ d # c => pc[d][DM] \in {"wfi", "blocked"}
                            /\ Consumed(d) = 0
    BY <1>1, <2>1 DEF InitInv, Consumed
  <2>3. barrier_y = 0 /\ \A y \in Rows : barrier_x[y] = 0
    BY <1>1, <2>1 DEF InitInv
  <2> QED BY <1>1, <2>2, <2>3
<1>2. CASE wakes # 0
  <2>1. wakes > 0
    BY <1>2 DEF TypeOK
  <2>2. PICK x0 \in Columns, y0 \in Rows : c = <<x0, y0>>
    BY DEF Clusters
  <2>3. RowHas(y0, {"resetY", "wake"})
    BY <2>2 DEF RowHas
  <2>4. ArrivedRows = Rows
    BY <2>1, <2>3 DEF MeshInv
  <2>5. \A y \in Rows : /\ ArrivedColumns(y) = Columns
                        /\ ~RowHas(y, {"resetX", "amoY"})
    BY <2>4 DEF ArrivedRows
  <2>6. ASSUME NEW d \in Clusters
        PROVE  Consumed(d) = wakes /\ (d # c => pc[d][DM] \in {"wfi", "blocked"})
    <3>1. PICK x \in Columns, y \in Rows : d = <<x, y>>
      BY DEF Clusters
    <3>2. Counted(d)
      BY <3>1, <2>5 DEF ArrivedColumns
    <3>3. pc[d][DM] \notin {"resetX", "amoY"}
      BY <3>1, <2>5 DEF RowHas
    <3>4. ASSUME pc[d][DM] \in {"resetY", "wake"} PROVE d = c
      <4>1. RowHas(y, {"resetY", "wake"})
        BY <3>1, <3>4 DEF RowHas
      <4>2. y = y0
        BY <2>1, <2>3, <4>1 DEF MeshInv
      <4>3. pc[<<x, y0>>][DM] \in Leading /\ pc[<<x0, y0>>][DM] \in Leading
        BY <3>1, <3>4, <4>2, <2>2 DEF Leading
      <4>4. x = x0
        BY <2>1, <4>3 DEF MeshInv
      <4> QED BY <3>1, <2>2, <4>2, <4>4
    <3> QED BY <3>2, <3>3, <3>4 DEF Counted
  <2>7. \A y \in Rows : ~RowHas(y, {"resetX"}) /\ ~RowHas(y, {"resetY"})
    BY <2>2, <2>5, <2>6 DEF RowHas, Clusters
  <2>8. \A y \in Rows : barrier_x[y] = 0
    BY <2>1, <2>5, <2>7 DEF MeshInv
  <2>9. barrier_y = 0
    BY <2>1, <2>4, <2>7 DEF MeshInv
  <2> QED BY <2>6, <2>8, <2>9
<1> QED BY <1>1, <1>2

LEMMA WakeInvNext ==
  ASSUME TypeOK, SyncInv, WakeInv, InitInv, MeshInv, Next
  PROVE  WakeInv'
<1> SUFFICES ASSUME NEW d \in Clusters PROVE WakeInvAt(d)'
  BY WakeInvPointwise DEF WakeInv, WakeInvAt, WakeupsConserved
<1>0. WakeInvAt(d) /\ Consumed(d) \in Nat /\ global_barrier_mutex[d] \in {0, 1} /\ wakes \in Nat
  BY WakeInvPointwise, WakeTypes
<1>1. CASE InitResetY \/ InitResetX
  <2>1. Cluster0 \in Clusters
    BY Cluster0InMesh
  <2>2. PICK from, to : /\ Goto(Cluster0, from, to)
                        /\ {from, to} \subseteq {"initY", "initX", "wake"}
    BY <1>1 DEF InitResetY, InitResetX
  <2>3. /\ pc[Cluster0][DM] = from
        /\ pc'[d][DM] = IF d = Cluster0 THEN to ELSE pc[d][DM]
    BY <2>1, <2>2, GotoPoint
  <2>4. UNCHANGED <<registers, entered, wakes>>
    BY <1>1 DEF InitResetY, InitResetX, Goto
  <2> QED BY <2>2, <2>3, <2>4, WakeInvFrame DEF Consumed, registers
<1>2. ASSUME NEW c \in Clusters, AmoX(c) \/ ResetX(c) \/ AmoY(c) \/ ResetY(c)
      PROVE  WakeInvAt(d)'
  <2>1. PICK from, to : /\ Goto(c, from, to)
                        /\ from \in {"amoX", "resetX", "amoY", "resetY"}
                        /\ to \in {"resetX", "amoY", "resetY", "wake", "wfi"}
    BY <1>2 DEF AmoX, ResetX, AmoY, ResetY
  <2>2. /\ pc[c][DM] = from
        /\ pc'[d][DM] = IF d = c THEN to ELSE pc[d][DM]
    BY <2>1, GotoPoint
  <2>3. UNCHANGED <<registers, entered, wakes>>
    BY <1>2 DEF AmoX, ResetX, AmoY, ResetY, Goto
  <2>4. Consumed(d)' = Consumed(d) /\ InFlight(d)' = InFlight(d)
    BY <2>1, <2>2, <2>3 DEF Consumed, InFlight, registers
  <2> QED BY <2>1, <2>2, <2>3, <2>4, <1>0 DEF WakeInvAt, registers
<1>3. ASSUME NEW c \in Clusters, WakeAll(c) PROVE WakeInvAt(d)'
  <2>1. Consumed(d) = wakes /\ (d # c => pc[d][DM] \in {"wfi", "blocked"})
    BY <1>3, AllWaiting DEF WakeAll, Goto
  <2>2. pc[c][DM] = "wake" /\ pc'[d][DM] = IF d = c THEN "wfi" ELSE pc[d][DM]
    BY <1>3, GotoPoint DEF WakeAll
  <2>3. InFlight(d) = {} /\ global_barrier_mutex[d] = 0
    BY <2>1, <1>0 DEF WakeInvAt
  <2>4. InFlight(d)' = {c}
    BY <1>3, <2>3 DEF WakeAll, SendWakeup, InFlight, TypeOK, RegistersType
  <2>5. Consumed(d)' = Consumed(d)
    BY <1>3, <2>2 DEF Consumed, WakeAll, Goto
  <2> QED BY <1>3, <1>0, <2>1, <2>2, <2>3, <2>4, <2>5 DEF WakeInvAt, WakeAll
<1>4. ASSUME NEW c \in Clusters, Wfi(c) PROVE WakeInvAt(d)'
  <2>1. /\ pc[c][DM] = "wfi"
        /\ pc'[d][DM] = IF d # c THEN pc[d][DM]
                        ELSE IF WaitPends(c) THEN "blocked" ELSE "sync2"
    BY <1>4, GotoPoint DEF Wfi
  <2>2. InFlight(d)' = InFlight(d) /\ UNCHANGED <<wakes, entered>>
    BY <1>4 DEF Wfi, InFlight, Goto
  <2>3. CASE d # c
    <3>1. /\ global_barrier_mutex'[d] = global_barrier_mutex[d]
          /\ global_barrier_query'[d] = global_barrier_query[d]
      BY <1>4, <2>3 DEF Wfi, WaitForWakeup, TypeOK, RegistersType
    <3> QED BY <1>0, <2>1, <2>2, <2>3, <3>1 DEF WakeInvAt, Consumed
  <2>4. CASE d = c
    <3>1. global_barrier_query[c] = NULL
      BY <1>0, <2>1, <2>4 DEF WakeInvAt
    <3>2. /\ global_barrier_mutex'[c] = 0
          /\ global_barrier_query'[c] = IF WaitPends(c) THEN DM ELSE NULL
      BY <1>4, <3>1 DEF Wfi, WaitForWakeup, TypeOK, RegistersType
    <3>3. CASE WaitPends(c)
      BY <1>0, <2>1, <2>2, <2>4, <3>2, <3>3 DEF WakeInvAt, Consumed, WaitPends
    <3>4. CASE ~WaitPends(c)
      <4>1. global_barrier_mutex[c] = 1
        BY <3>1, <3>4, <1>0, <2>4 DEF WaitPends
      <4>2. Consumed(c)' = Consumed(c) + 1
        BY <2>1, <2>2, <2>4, <3>4 DEF Consumed
      <4> QED BY <1>0, <2>1, <2>2, <2>4, <3>2, <3>4, <4>1, <4>2 DEF WakeInvAt
    <3> QED BY <3>3, <3>4
  <2> QED BY <2>3, <2>4
<1>5. ASSUME NEW c \in Clusters, NEW k \in Cores, CoreStep(c, k)
      PROVE  WakeInvAt(d)'
  <2>1. UNCHANGED <<global_barrier_mutex, global_barrier_query, wakeup, wakes>>
    BY <1>5 DEF CoreStep, Enter, SecondSync, registers
  <2>2. /\ Consumed(d)' = Consumed(d)
        /\ \/ pc'[d][DM] = pc[d][DM]
           \/ {pc[d][DM], pc'[d][DM]} \cap {"wfi", "blocked"} = {}
    BY <1>5, CoreStepDM DEF Busy
  <2> QED BY <2>1, <2>2, WakeInvFrame
<1>6. ASSUME NEW s \in Clusters, NEW c \in Clusters, DeliverWakeup(s, c)
      PROVE  WakeInvAt(d)'
  <2>1. UNCHANGED <<wakes, entered>>
    BY <1>6 DEF DeliverWakeup
  <2>2. CASE d # c
    <3>1. /\ global_barrier_mutex'[d] = global_barrier_mutex[d]
          /\ global_barrier_query'[d] = global_barrier_query[d]
          /\ pc'[d][DM] = pc[d][DM]
          /\ InFlight(d)' = InFlight(d)
      BY <1>6, <2>2 DEF DeliverWakeup, GlobalBarrierSync, InFlight, TypeOK, RegistersType
    <3> QED BY <1>0, <2>1, <2>2, <3>1 DEF WakeInvAt, Consumed
  <2>3. CASE d = c
    <3>1. s \in InFlight(c)
      BY <1>6 DEF DeliverWakeup, GlobalBarrierSync, InFlight
    <3>2. /\ wakes = Consumed(c) + 1 /\ global_barrier_mutex[c] = 0
          /\ pc[c][DM] \in {"wfi", "blocked"}
      BY <1>0, <3>1, <2>3 DEF WakeInvAt
    <3>3. InFlight(c)' = {}
      BY <1>6, <1>0, <3>1, <2>3 DEF DeliverWakeup, GlobalBarrierSync, InFlight,
                                    WakeInvAt, TypeOK, RegistersType, CoresType
    <3>4. /\ global_barrier_mutex'[c] = IF global_barrier_query[c] = NULL THEN 1 ELSE 0
          /\ global_barrier_query'[c] = NULL
          /\ pc'[c][DM] = IF DM = global_barrier_query[c] THEN "sync2" ELSE pc[c][DM]
      BY <1>6 DEF DeliverWakeup, GlobalBarrierSync, TypeOK, RegistersType, CoresType
    <3>5. CASE pc[c][DM] = "wfi"
      BY <1>0, <2>1, <2>3, <3>2, <3>3, <3>4, <3>5 DEF WakeInvAt, Consumed
    <3>6. CASE pc[c][DM] = "blocked"
      <4>1. global_barrier_query[c] = DM /\ DM # NULL
        BY <1>0, <2>3, <3>6 DEF WakeInvAt
      <4>2. Consumed(c)' = Consumed(c) + 1
        BY <2>1, <3>4, <3>6, <4>1 DEF Consumed
      <4> QED BY <1>0, <2>1, <2>3, <3>2, <3>3, <3>4, <3>6, <4>1, <4>2 DEF WakeInvAt
    <3> QED BY <3>2, <3>5, <3>6
  <2> QED BY <2>2, <2>3
<1>7. CASE Terminating
  <2>1. UNCHANGED vars
    BY <1>7 DEF Terminating
  <2> QED BY <1>0, <2>1 DEF vars, registers, program, WakeInvAt, Consumed, InFlight
<1> QED BY <1>1, <1>2, <1>3, <1>4, <1>5, <1>6, <1>7 DEF Next, DMStep

-----------------------------------------------------------------------------
(* The initialisation. *)

LEMMA InitInvInit == Init => InitInv
<1> SUFFICES ASSUME Init PROVE InitInv
  OBVIOUS
<1>1. Cluster0 \in Clusters
  BY Cluster0InMesh
<1>2. /\ pc[Cluster0][DM] = "initY"
      /\ \A c \in Clusters : c # Cluster0 => pc[c][DM] = "wfi"
  BY <1>1 DEF Init
<1>3. \A c \in Clusters : entered[<<c, DM>>] = 0
  BY DEF Init, Participants
<1>4. \A y \in Rows : ~(y < 0)
  BY DEF Rows
<1> QED BY <1>2, <1>3, <1>4 DEF Init, InitInv

\* What the invariant says of the labels, once and before cluster 0 has woken
\* everybody.
LEMMA InitInvLabels ==
  ASSUME TypeOK, InitInv, NEW c \in Clusters
  PROVE  /\ wakes = 0 => pc[c][DM] \in {"initY", "initX", "wake", "wfi", "blocked"}
         /\ wakes # 0 => pc[c][DM] \notin {"initY", "initX"}
         /\ pc[c][DM] \in {"initY", "initX"} => wakes = 0 /\ c = Cluster0
  BY DEF InitInv

LEMMA InitInvNext ==
  ASSUME TypeOK, SyncInv, WakeInv, InitInv, MeshInv, Next
  PROVE  InitInv'
<1>0. Cluster0 \in Clusters /\ wakes \in Nat
  BY Cluster0InMesh DEF TypeOK
<1>1. CASE InitResetY
  <2>1. /\ pc[Cluster0][DM] = "initY"
        /\ \A d \in Clusters : pc'[d][DM] = IF d = Cluster0 THEN "initX" ELSE pc[d][DM]
    BY <1>0, <1>1, GotoPoint DEF InitResetY
  <2>2. wakes = 0
    BY <2>1, <1>0, InitInvLabels
  <2>3. UNCHANGED <<init_row, barrier_x, entered, wakes>> /\ barrier_y' = 0
    BY <1>1 DEF InitResetY, Goto
  <2>4. init_row < NumY /\ \A y \in Rows : ~(y < init_row)
    BY <2>1, <2>2 DEF InitInv, Rows
  <2> QED BY <2>1, <2>2, <2>3, <2>4, <1>0 DEF InitInv
<1>2. CASE InitResetX
  <2> DEFINE to == IF init_row + 1 = NumY THEN "wake" ELSE "initX"
  <2>1. /\ pc[Cluster0][DM] = "initX"
        /\ \A d \in Clusters : pc'[d][DM] = IF d = Cluster0 THEN to ELSE pc[d][DM]
    BY <1>0, <1>2, GotoPoint DEF InitResetX
  <2>2. wakes = 0 /\ init_row < NumY /\ barrier_y = 0
        /\ \A y \in Rows : y < init_row => barrier_x[y] = 0
    BY <2>1, <1>0, InitInvLabels DEF InitInv
  <2>3. UNCHANGED <<barrier_y, entered, wakes>> /\ init_row' = init_row + 1
    BY <1>2 DEF InitResetX, Goto
  <2>4. \A y \in Rows : y < init_row' => barrier_x'[y] = 0
    BY <1>2, <2>2, <2>3 DEF InitResetX, TypeOK, Rows
  <2>5. to = "wake" => \A y \in Rows : y < init_row'
    BY <2>3 DEF Rows
  <2>6. to = "initX" => init_row' < NumY
    BY <2>2, <2>3 DEF TypeOK
  <2> QED BY <2>1, <2>2, <2>3, <2>4, <2>5, <2>6, <1>0 DEF InitInv
<1>3. ASSUME NEW c \in Clusters, AmoX(c) \/ ResetX(c) \/ AmoY(c) \/ ResetY(c)
      PROVE  InitInv'
  <2>1. PICK from, to : /\ Goto(c, from, to)
                        /\ from \in {"amoX", "resetX", "amoY", "resetY"}
                        /\ to \in {"resetX", "amoY", "resetY", "wake", "wfi"}
    BY <1>3 DEF AmoX, ResetX, AmoY, ResetY
  <2>2. /\ pc[c][DM] = from
        /\ \A d \in Clusters : pc'[d][DM] = IF d = c THEN to ELSE pc[d][DM]
    BY <2>1, GotoPoint
  <2>3. wakes # 0 /\ wakes' = wakes
    BY <1>3, <2>1, <2>2, InitInvLabels DEF AmoX, ResetX, AmoY, ResetY
  <2> QED BY <2>1, <2>2, <2>3 DEF InitInv
<1>4. ASSUME NEW c \in Clusters, WakeAll(c) PROVE InitInv'
  <2>1. /\ pc[c][DM] = "wake"
        /\ \A d \in Clusters : pc'[d][DM] = IF d = c THEN "wfi" ELSE pc[d][DM]
    BY <1>4, GotoPoint DEF WakeAll
  <2>2. wakes' # 0
    BY <1>0, <1>4 DEF WakeAll
  <2>3. \A d \in Clusters : d # c => pc[d][DM] \in {"wfi", "blocked"}
    BY <2>1, AllWaiting
  <2> QED BY <2>1, <2>2, <2>3 DEF InitInv
<1>5. ASSUME NEW c \in Clusters, Wfi(c) PROVE InitInv'
  <2>1. /\ pc[c][DM] = "wfi"
        /\ \A d \in Clusters :
             pc'[d][DM] = IF d # c THEN pc[d][DM]
                          ELSE IF WaitPends(c) THEN "blocked" ELSE "sync2"
    BY <1>5, GotoPoint DEF Wfi
  <2>2. UNCHANGED <<wakes, entered, init_row, barrier_x, barrier_y>>
    BY <1>5 DEF Wfi, Goto, counters
  <2>3. ASSUME wakes = 0 PROVE c # Cluster0 /\ WaitPends(c)
    <3>1. c # Cluster0
      BY <2>1, <2>3 DEF InitInv
    <3>2. WakeInvAt(c) /\ Consumed(c) \in Nat /\ global_barrier_mutex[c] \in {0, 1}
      BY WakeInvPointwise, WakeTypes
    <3> QED BY <2>1, <2>3, <3>1, <3>2 DEF WakeInvAt, WaitPends
  <2> QED BY <2>1, <2>2, <2>3, <1>0 DEF InitInv
<1>6. ASSUME NEW c \in Clusters, NEW k \in Cores, CoreStep(c, k) PROVE InitInv'
  <2>1. UNCHANGED <<wakes, init_row, barrier_x, barrier_y>>
    BY <1>6 DEF CoreStep, Enter, SecondSync, SyncCores, counters
  <2>2. \A d \in Clusters :
          /\ \/ pc'[d][DM] = pc[d][DM]
             \/ {pc[d][DM], pc'[d][DM]} \cap Busy = {}
          /\ Consumed(d)' = Consumed(d)
    BY <1>6, CoreStepDM
  <2>3. CASE wakes = 0
    <3>1. \A d \in Clusters : pc[d][DM] \in Busy /\ pc[d][DM] \notin {"sync2", "wait2", "work"}
      BY <2>3, InitInvLabels DEF Busy
    <3>2. \A d \in Clusters : pc'[d][DM] = pc[d][DM]
      BY <3>1, <2>2
    <3>3. \A d \in Clusters : entered'[<<d, DM>>] = entered[<<d, DM>>]
      BY <3>1, <3>2, <2>2 DEF Consumed
    <3> QED BY <2>1, <2>3, <3>2, <3>3, <1>0 DEF InitInv
  <2>4. CASE wakes # 0
    BY <2>1, <2>2, <2>4 DEF InitInv, Busy
  <2> QED BY <2>3, <2>4
<1>7. ASSUME NEW s \in Clusters, NEW c \in Clusters, DeliverWakeup(s, c)
      PROVE  InitInv'
  <2>1. UNCHANGED <<wakes, entered, init_row, barrier_x, barrier_y>>
    BY <1>7 DEF DeliverWakeup, counters
  <2>2. wakes # 0
    <3>1. s \in InFlight(c)
      BY <1>7 DEF DeliverWakeup, GlobalBarrierSync, InFlight
    <3>2. WakeInvAt(c) /\ Consumed(c) \in Nat /\ global_barrier_mutex[c] \in {0, 1}
      BY WakeInvPointwise, WakeTypes
    <3> QED BY <3>1, <3>2 DEF WakeInvAt
  <2>3. \A d \in Clusters : pc'[d][DM] \in {pc[d][DM], "sync2"}
    BY <1>7 DEF DeliverWakeup, TypeOK
  <2> QED BY <2>1, <2>2, <2>3 DEF InitInv
<1>8. CASE Terminating
  BY <1>8 DEF Terminating, vars, program, InitInv, counters
<1> QED BY <1>1, <1>2, <1>3, <1>4, <1>5, <1>6, <1>7, <1>8 DEF Next, DMStep

-----------------------------------------------------------------------------
(* The counters. *)

\* One row of the mesh.
MeshInvRow(y) ==
  /\ barrier_x[y] = IF ArrivedColumns(y) = Columns /\ ~RowHas(y, {"resetX"})
                    THEN 0 ELSE Cardinality(ArrivedColumns(y))
  /\ RowHas(y, Leading) => ArrivedColumns(y) = Columns
  /\ \A x1, x2 \in Columns :
       /\ pc[<<x1, y>>][DM] \in Leading
       /\ pc[<<x2, y>>][DM] \in Leading
       => x1 = x2

\* The rows together.
MeshInvRows ==
  /\ barrier_y = IF ArrivedRows = Rows /\ ~\E y \in Rows : RowHas(y, {"resetY"})
                 THEN 0 ELSE Cardinality(ArrivedRows)
  /\ (\E y \in Rows : RowHas(y, {"resetY", "wake"})) => ArrivedRows = Rows
  /\ \A y1, y2 \in Rows :
       RowHas(y1, {"resetY", "wake"}) /\ RowHas(y2, {"resetY", "wake"}) => y1 = y2

LEMMA MeshInvParts ==
  MeshInv <=> (wakes > 0 => (\A y \in Rows : MeshInvRow(y)) /\ MeshInvRows)
  BY DEF MeshInv, MeshInvRow, MeshInvRows

LEMMA MeshInvInit == Init => MeshInv
  BY DEF Init, MeshInv

\* A step that counts nobody and moves no leader, and leaves the counters.
LEMMA MeshFrame ==
  ASSUME MeshInv, UNCHANGED <<wakes, barrier_x, barrier_y>>,
         \A d \in Clusters :
           /\ Counted(d)' <=> Counted(d)
           /\ pc'[d][DM] = pc[d][DM] \/ {pc[d][DM], pc'[d][DM]} \cap Leading = {}
  PROVE  MeshInv'
<1>1. \A x \in Columns, y \in Rows : <<x, y>> \in Clusters
  BY DEF Clusters
<1>2. \A y \in Rows : ArrivedColumns(y)' = ArrivedColumns(y)
  BY <1>1 DEF ArrivedColumns
<1>3. \A y \in Rows, L \in SUBSET Leading : RowHas(y, L)' <=> RowHas(y, L)
  BY <1>1 DEF RowHas
<1>4. ArrivedRows' = ArrivedRows
  BY <1>2, <1>3 DEF ArrivedRows, Leading
<1>5. ASSUME NEW y \in Rows, MeshInvRow(y) PROVE MeshInvRow(y)'
  <2>1. \A x1, x2 \in Columns :
          pc'[<<x1, y>>][DM] \in Leading /\ pc'[<<x2, y>>][DM] \in Leading => x1 = x2
    BY <1>1, <1>5 DEF MeshInvRow
  <2>2. /\ RowHas(y, Leading)' <=> RowHas(y, Leading)
        /\ RowHas(y, {"resetX"})' <=> RowHas(y, {"resetX"})
    BY <1>3 DEF Leading
  <2> QED BY <1>2, <1>5, <2>1, <2>2 DEF MeshInvRow
<1>6. ASSUME MeshInvRows PROVE MeshInvRows'
  <2>1. \A y \in Rows : /\ RowHas(y, {"resetY"})' <=> RowHas(y, {"resetY"})
                        /\ RowHas(y, {"resetY", "wake"})' <=> RowHas(y, {"resetY", "wake"})
    BY <1>3 DEF Leading
  <2> QED BY <1>4, <1>6, <2>1 DEF MeshInvRows
<1> QED BY <1>5, <1>6, MeshInvParts DEF MeshInv, MeshInvRow, MeshInvRows

\* A cluster that is neither waiting nor between calls has consumed every
\* wake-up issued so far.
LEMMA ConsumedAll ==
  ASSUME TypeOK, WakeInv, NEW c \in Clusters, pc[c][DM] \notin {"wfi", "blocked"}
  PROVE  Consumed(c) = wakes
<1>1. WakeInvAt(c) /\ Consumed(c) \in Nat /\ wakes \in Nat
  BY WakeInvPointwise, WakeTypes
<1> QED BY <1>1 DEF WakeInvAt

LEMMA MeshInvAmoX ==
  ASSUME TypeOK, WakeInv, InitInv, MeshInv, NEW c \in Clusters, AmoX(c)
  PROVE  MeshInv'
<1>1. PICK x0 \in Columns, y0 \in Rows : c = <<x0, y0>>
  BY DEF Clusters
<1>2. PICK to : /\ to = IF barrier_x[y0] = NumX - 1 THEN "resetX" ELSE "wfi"
                /\ Goto(c, "amoX", to) /\ UNCHANGED <<barrier_y, entered, wakes>>
  BY <1>1 DEF AmoX, RowOf, Goto
<1>3. /\ pc[c][DM] = "amoX"
      /\ \A d \in Clusters : pc'[d][DM] = IF d = c THEN to ELSE pc[d][DM]
  BY <1>2, GotoPoint
<1>4. wakes > 0 /\ Consumed(c) = wakes
  BY <1>3, InitInvLabels, ConsumedAll DEF TypeOK
<1>5. (\A y \in Rows : MeshInvRow(y)) /\ MeshInvRows
  BY <1>4, MeshInvParts
<1>6. \A d \in Clusters : Counted(d)' <=> Counted(d) \/ d = c
  BY <1>2, <1>3, <1>4 DEF Counted, Consumed
<1>7. ~Counted(c)
  BY <1>3 DEF Counted
<1>8. \A x \in Columns, y \in Rows : <<x, y>> \in Clusters
  BY DEF Clusters
<1>9. ArrivedColumns(y0)' = ArrivedColumns(y0) \cup {x0} /\ x0 \notin ArrivedColumns(y0)
  BY <1>1, <1>6, <1>7, <1>8 DEF ArrivedColumns
<1>10. \A y \in Rows : y # y0 => ArrivedColumns(y)' = ArrivedColumns(y)
  BY <1>1, <1>6, <1>8 DEF ArrivedColumns
\* Nobody leads the row before its last cluster is counted.
<1>11. ArrivedColumns(y0) # Columns /\ ~RowHas(y0, Leading)
  BY <1>5, <1>9 DEF MeshInvRow
<1>12. /\ Cardinality(ArrivedColumns(y0)') = Cardinality(ArrivedColumns(y0)) + 1
       /\ Cardinality(ArrivedColumns(y0)) = NumX - 1 <=> ArrivedColumns(y0)' = Columns
  <2>1. ArrivedColumns(y0) \subseteq Columns
    BY DEF ArrivedColumns
  <2> QED BY <1>9, <2>1, OneMore, Intervals
<1>13. barrier_x[y0] = Cardinality(ArrivedColumns(y0))
  BY <1>5, <1>11 DEF MeshInvRow
<1>14. /\ barrier_x'[y0] = barrier_x[y0] + 1
       /\ \A y \in Rows : y # y0 => barrier_x'[y] = barrier_x[y]
  BY <1>1 DEF AmoX, RowOf, TypeOK
<1>15. \A L : /\ RowHas(y0, L)' <=> to \in L \/ \E x \in Columns : pc[<<x, y0>>][DM] \in L /\ x # x0
              /\ \A y \in Rows : y # y0 => (RowHas(y, L)' <=> RowHas(y, L))
  <2> TAKE L
  <2>1. ASSUME NEW y \in Rows
        PROVE  RowHas(y, L)' <=> \/ y = y0 /\ to \in L
                                 \/ \E x \in Columns : /\ pc[<<x, y>>][DM] \in L
                                                       /\ y # y0 \/ x # x0
    <3>1. CoresType(Labels) /\ Goto(<<x0, y0>>, "amoX", to)
      BY <1>1, <1>2 DEF TypeOK
    <3> QED BY <3>1, RowHasGoto
  <2>2. RowHas(y0, L)' <=> to \in L \/ \E x \in Columns : pc[<<x, y0>>][DM] \in L /\ x # x0
    BY <2>1
  <2>3. \A y \in Rows : y # y0 => (RowHas(y, L)' <=> RowHas(y, L))
    BY <2>1 DEF RowHas
  <2> QED BY <2>2, <2>3
<1>16. \A x \in Columns : x # x0 => pc[<<x, y0>>][DM] \notin Leading
  BY <1>11 DEF RowHas
<1>17. MeshInvRow(y0)'
  <2>1. RowHas(y0, Leading)' <=> to = "resetX"
    BY <1>2, <1>15, <1>16 DEF Leading
  <2>2. RowHas(y0, {"resetX"})' <=> to = "resetX"
    BY <1>2, <1>15, <1>16 DEF Leading
  <2>3. to = "resetX" <=> ArrivedColumns(y0)' = Columns
    BY <1>2, <1>12, <1>13
  <2>4. \A x1, x2 \in Columns :
          pc'[<<x1, y0>>][DM] \in Leading /\ pc'[<<x2, y0>>][DM] \in Leading => x1 = x2
    BY <1>1, <1>3, <1>8, <1>16
  <2> QED BY <2>1, <2>2, <2>3, <2>4, <1>12, <1>13, <1>14 DEF MeshInvRow
<1>18. ASSUME NEW y \in Rows, y # y0 PROVE MeshInvRow(y)'
  <2>1. \A x \in Columns : pc'[<<x, y>>][DM] = pc[<<x, y>>][DM]
    BY <1>1, <1>3, <1>8, <1>18
  <2>2. /\ RowHas(y, Leading)' <=> RowHas(y, Leading)
        /\ RowHas(y, {"resetX"})' <=> RowHas(y, {"resetX"})
    BY <1>15, <1>18
  <2> QED BY <2>1, <2>2, <1>5, <1>10, <1>14, <1>18 DEF MeshInvRow
\* The row does not count as a whole before the step, nor yet after it.
<1>19. ArrivedRows' = ArrivedRows
  <2>1. y0 \notin ArrivedRows
    BY <1>11 DEF ArrivedRows
  <2>2. ArrivedColumns(y0)' = Columns => RowHas(y0, {"resetX", "amoY"})'
    BY <1>2, <1>12, <1>13, <1>15
  <2>3. \A y \in Rows : y # y0 =>
          (RowHas(y, {"resetX", "amoY"})' <=> RowHas(y, {"resetX", "amoY"}))
    BY <1>15
  <2> QED BY <2>1, <2>2, <2>3, <1>10 DEF ArrivedRows
<1>20. MeshInvRows'
  <2>1. /\ ~RowHas(y0, {"resetY", "wake"}) /\ ~RowHas(y0, {"resetY"})
        /\ ~RowHas(y0, {"resetY", "wake"})' /\ ~RowHas(y0, {"resetY"})'
    BY <1>2, <1>11, <1>15, <1>16 DEF RowHas, Leading
  <2>2. \A y \in Rows : /\ RowHas(y, {"resetY"})' <=> RowHas(y, {"resetY"})
                        /\ RowHas(y, {"resetY", "wake"})' <=> RowHas(y, {"resetY", "wake"})
    BY <2>1, <1>15
  <2> QED BY <2>2, <1>2, <1>5, <1>19 DEF MeshInvRows
<1> QED
  BY <1>17, <1>18, <1>20 DEF MeshInv, MeshInvRow, MeshInvRows

\* The leader of a row goes on to its next label, or gives the lead up and
\* waits: who is counted does not change, and its row had no other leader.
LEMMA LeaderMove ==
  ASSUME TypeOK, WakeInv, InitInv, MeshInv,
         NEW x0 \in Columns, NEW y0 \in Rows, NEW from \in Leading,
         NEW to \in {"amoY", "resetY", "wake", "wfi"},
         wakes > 0, Goto(<<x0, y0>>, from, to), UNCHANGED <<entered, wakes>>
  PROVE  /\ \A y \in Rows : MeshInvRow(y)
         /\ MeshInvRows
         /\ ArrivedColumns(y0) = Columns
         /\ \A y \in Rows : ArrivedColumns(y)' = ArrivedColumns(y)
         /\ \A L \in SUBSET Leading : (RowHas(y0, L) <=> from \in L)
         /\ \A L \in SUBSET Leading : (RowHas(y0, L)' <=> to \in L)
         /\ \A y \in Rows : y # y0 => \A L : (RowHas(y, L)' <=> RowHas(y, L))
         /\ \A y \in Rows, x1, x2 \in Columns :
              pc'[<<x1, y>>][DM] \in Leading /\ pc'[<<x2, y>>][DM] \in Leading => x1 = x2
<1>1. (\A y \in Rows : MeshInvRow(y)) /\ MeshInvRows
  BY MeshInvParts
<1>2. \A x \in Columns, y \in Rows : <<x, y>> \in Clusters
  BY DEF Clusters
<1>3. /\ pc[<<x0, y0>>][DM] = from
      /\ \A d \in Clusters : pc'[d][DM] = IF d = <<x0, y0>> THEN to ELSE pc[d][DM]
  BY <1>2, GotoPoint
<1>4. Consumed(<<x0, y0>>) = wakes
  BY <1>2, <1>3, ConsumedAll DEF Leading
<1>5. \A d \in Clusters : Counted(d)' <=> Counted(d)
  BY <1>3, <1>4 DEF Counted, Consumed, Leading
<1>6. \A y \in Rows : ArrivedColumns(y)' = ArrivedColumns(y)
  BY <1>2, <1>5 DEF ArrivedColumns
<1>7. RowHas(y0, Leading)
  BY <1>3 DEF RowHas
<1>8. ArrivedColumns(y0) = Columns
  BY <1>1, <1>7 DEF MeshInvRow
<1>9. \A x \in Columns : x # x0 => pc[<<x, y0>>][DM] \notin Leading
  BY <1>1, <1>3 DEF MeshInvRow
<1>10. \A L \in SUBSET Leading : (RowHas(y0, L) <=> from \in L)
  BY <1>3, <1>9 DEF RowHas
<1>11. \A L \in SUBSET Leading : (RowHas(y0, L)' <=> to \in L)
  <2> TAKE L \in SUBSET Leading
  <2> QED BY <1>9, RowHasGoto DEF TypeOK
<1>12. \A y \in Rows : y # y0 => \A L : (RowHas(y, L)' <=> RowHas(y, L))
  BY <1>2, <1>3 DEF RowHas
<1>13. \A y \in Rows, x1, x2 \in Columns :
         pc'[<<x1, y>>][DM] \in Leading /\ pc'[<<x2, y>>][DM] \in Leading => x1 = x2
  <2> TAKE y \in Rows, x1 \in Columns, x2 \in Columns
  <2>1. CASE y = y0
    BY <2>1, <1>2, <1>3, <1>9
  <2>2. CASE y # y0
    BY <2>2, <1>1, <1>2, <1>3 DEF MeshInvRow
  <2> QED BY <2>1, <2>2
<1> QED BY <1>1, <1>6, <1>8, <1>10, <1>11, <1>12, <1>13

LEMMA MeshInvResetX ==
  ASSUME TypeOK, WakeInv, InitInv, MeshInv, NEW c \in Clusters, ResetX(c)
  PROVE  MeshInv'
<1>1. PICK x0 \in Columns, y0 \in Rows : c = <<x0, y0>>
  BY DEF Clusters
<1>2. /\ Goto(<<x0, y0>>, "resetX", "amoY") /\ UNCHANGED <<barrier_y, entered, wakes>>
      /\ barrier_x'[y0] = 0
      /\ \A y \in Rows : y # y0 => barrier_x'[y] = barrier_x[y]
  BY <1>1 DEF ResetX, RowOf, TypeOK, Goto
<1>3. pc[<<x0, y0>>][DM] = "resetX" /\ wakes > 0
  BY <1>1, <1>2, InitInvLabels DEF Goto, TypeOK
<1> DEFINE from == "resetX"  to == "amoY"
<1>4. /\ \A y \in Rows : MeshInvRow(y)
      /\ MeshInvRows
      /\ ArrivedColumns(y0) = Columns
      /\ \A y \in Rows : ArrivedColumns(y)' = ArrivedColumns(y)
      /\ \A L \in SUBSET Leading : (RowHas(y0, L) <=> from \in L)
      /\ \A L \in SUBSET Leading : (RowHas(y0, L)' <=> to \in L)
      /\ \A y \in Rows : y # y0 => \A L : (RowHas(y, L)' <=> RowHas(y, L))
      /\ \A y \in Rows, x1, x2 \in Columns :
           pc'[<<x1, y>>][DM] \in Leading /\ pc'[<<x2, y>>][DM] \in Leading => x1 = x2
  <2>1. "resetX" \in Leading
    BY DEF Leading
  <2> QED BY <2>1, <1>2, <1>3, LeaderMove
<1>5. /\ RowHas(y0, Leading) /\ RowHas(y0, Leading)'
      /\ ~RowHas(y0, {"resetX"})'
      /\ RowHas(y0, {"resetX", "amoY"}) /\ RowHas(y0, {"resetX", "amoY"})'
      /\ ~RowHas(y0, {"resetY"}) /\ ~RowHas(y0, {"resetY"})'
      /\ ~RowHas(y0, {"resetY", "wake"}) /\ ~RowHas(y0, {"resetY", "wake"})'
  BY <1>4 DEF Leading
<1>6. MeshInvRow(y0)'
  BY <1>2, <1>4, <1>5 DEF MeshInvRow
<1>7. ASSUME NEW y \in Rows, y # y0 PROVE MeshInvRow(y)'
  BY <1>2, <1>4, <1>7 DEF MeshInvRow
<1>8. ArrivedRows' = ArrivedRows
  BY <1>4, <1>5 DEF ArrivedRows
<1>9. MeshInvRows'
  <2>1. \A y \in Rows : /\ RowHas(y, {"resetY"})' <=> RowHas(y, {"resetY"})
                        /\ RowHas(y, {"resetY", "wake"})' <=> RowHas(y, {"resetY", "wake"})
    BY <1>4, <1>5
  <2> QED BY <2>1, <1>2, <1>4, <1>8 DEF MeshInvRows
<1> QED BY <1>6, <1>7, <1>9 DEF MeshInv, MeshInvRow, MeshInvRows

LEMMA MeshInvAmoY ==
  ASSUME TypeOK, WakeInv, InitInv, MeshInv, NEW c \in Clusters, AmoY(c)
  PROVE  MeshInv'
<1>1. PICK x0 \in Columns, y0 \in Rows : c = <<x0, y0>>
  BY DEF Clusters
<1>2. PICK to : /\ to = IF barrier_y = NumY - 1 THEN "resetY" ELSE "wfi"
                /\ Goto(<<x0, y0>>, "amoY", to)
                /\ UNCHANGED <<barrier_x, entered, wakes>>
                /\ barrier_y' = barrier_y + 1
  BY <1>1 DEF AmoY, Goto
<1>3. pc[<<x0, y0>>][DM] = "amoY" /\ wakes > 0
  BY <1>1, <1>2, InitInvLabels DEF Goto, TypeOK
<1>4. /\ \A y \in Rows : MeshInvRow(y)
      /\ MeshInvRows
      /\ ArrivedColumns(y0) = Columns
      /\ \A y \in Rows : ArrivedColumns(y)' = ArrivedColumns(y)
      /\ \A L \in SUBSET Leading : (RowHas(y0, L) <=> "amoY" \in L)
      /\ \A L \in SUBSET Leading : (RowHas(y0, L)' <=> to \in L)
      /\ \A y \in Rows : y # y0 => \A L : (RowHas(y, L)' <=> RowHas(y, L))
      /\ \A y \in Rows, x1, x2 \in Columns :
           pc'[<<x1, y>>][DM] \in Leading /\ pc'[<<x2, y>>][DM] \in Leading => x1 = x2
  <2>1. "amoY" \in Leading
    BY DEF Leading
  <2> QED BY <2>1, <1>2, <1>3, LeaderMove
<1>5. /\ ~RowHas(y0, {"resetX"}) /\ ~RowHas(y0, {"resetX"})'
      /\ RowHas(y0, {"resetX", "amoY"}) /\ ~RowHas(y0, {"resetX", "amoY"})'
      /\ RowHas(y0, {"resetY"})' <=> to = "resetY"
      /\ RowHas(y0, {"resetY", "wake"})' <=> to = "resetY"
  BY <1>2, <1>4 DEF Leading
<1>6. MeshInvRow(y0)'
  BY <1>2, <1>4, <1>5 DEF MeshInvRow
<1>7. ASSUME NEW y \in Rows, y # y0 PROVE MeshInvRow(y)'
  BY <1>2, <1>4, <1>7 DEF MeshInvRow
<1>8. ArrivedRows' = ArrivedRows \cup {y0} /\ y0 \notin ArrivedRows
  BY <1>4, <1>5 DEF ArrivedRows
\* Nobody leads the mesh before its last row is counted.
<1>9. ArrivedRows # Rows /\ ~\E y \in Rows : RowHas(y, {"resetY", "wake"})
  BY <1>4, <1>8 DEF MeshInvRows
<1>10. barrier_y = Cardinality(ArrivedRows)
  BY <1>4, <1>9 DEF MeshInvRows
<1>11. /\ Cardinality(ArrivedRows') = Cardinality(ArrivedRows) + 1
       /\ Cardinality(ArrivedRows) = NumY - 1 <=> ArrivedRows' = Rows
  <2>1. ArrivedRows \subseteq Rows
    BY DEF ArrivedRows
  <2> QED BY <1>8, <2>1, OneMore, Intervals
<1>12. \A y \in Rows : /\ RowHas(y, {"resetY"})' <=> y = y0 /\ to = "resetY"
                       /\ RowHas(y, {"resetY", "wake"})' <=> y = y0 /\ to = "resetY"
  <2>1. \A y \in Rows : RowHas(y, {"resetY"}) => RowHas(y, {"resetY", "wake"})
    BY DEF RowHas
  <2> QED BY <2>1, <1>4, <1>5, <1>9
<1>13. MeshInvRows'
  <2>1. ArrivedRows' = Rows <=> to = "resetY"
    BY <1>2, <1>10, <1>11
  <2> QED BY <2>1, <1>2, <1>10, <1>11, <1>12 DEF MeshInvRows
<1> QED BY <1>6, <1>7, <1>13 DEF MeshInv, MeshInvRow, MeshInvRows

LEMMA MeshInvResetY ==
  ASSUME TypeOK, WakeInv, InitInv, MeshInv, NEW c \in Clusters, ResetY(c)
  PROVE  MeshInv'
<1>1. PICK x0 \in Columns, y0 \in Rows : c = <<x0, y0>>
  BY DEF Clusters
<1>2. /\ Goto(<<x0, y0>>, "resetY", "wake") /\ UNCHANGED <<barrier_x, entered, wakes>>
      /\ barrier_y' = 0
  BY <1>1 DEF ResetY, Goto
<1>3. pc[<<x0, y0>>][DM] = "resetY" /\ wakes > 0
  BY <1>1, <1>2, InitInvLabels DEF Goto, TypeOK
<1>4. /\ \A y \in Rows : MeshInvRow(y)
      /\ MeshInvRows
      /\ ArrivedColumns(y0) = Columns
      /\ \A y \in Rows : ArrivedColumns(y)' = ArrivedColumns(y)
      /\ \A L \in SUBSET Leading : (RowHas(y0, L) <=> "resetY" \in L)
      /\ \A L \in SUBSET Leading : (RowHas(y0, L)' <=> "wake" \in L)
      /\ \A y \in Rows : y # y0 => \A L : (RowHas(y, L)' <=> RowHas(y, L))
      /\ \A y \in Rows, x1, x2 \in Columns :
           pc'[<<x1, y>>][DM] \in Leading /\ pc'[<<x2, y>>][DM] \in Leading => x1 = x2
  <2>1. "resetY" \in Leading
    BY DEF Leading
  <2> QED BY <2>1, <1>2, <1>3, LeaderMove
<1>5. /\ ~RowHas(y0, {"resetX"}) /\ ~RowHas(y0, {"resetX"})'
      /\ ~RowHas(y0, {"resetX", "amoY"}) /\ ~RowHas(y0, {"resetX", "amoY"})'
      /\ ~RowHas(y0, {"resetY"})'
      /\ RowHas(y0, {"resetY", "wake"}) /\ RowHas(y0, {"resetY", "wake"})'
  BY <1>4 DEF Leading
<1>6. MeshInvRow(y0)'
  BY <1>2, <1>4, <1>5 DEF MeshInvRow
<1>7. ASSUME NEW y \in Rows, y # y0 PROVE MeshInvRow(y)'
  BY <1>2, <1>4, <1>7 DEF MeshInvRow
<1>8. ArrivedRows' = ArrivedRows /\ ArrivedRows = Rows
  BY <1>4, <1>5 DEF ArrivedRows, MeshInvRows
<1>9. \A y \in Rows : RowHas(y, {"resetY", "wake"}) => y = y0
  BY <1>4, <1>5 DEF MeshInvRows
<1>10. \A y \in Rows : /\ ~RowHas(y, {"resetY"})'
                       /\ RowHas(y, {"resetY", "wake"})' <=> y = y0
  <2>1. \A y \in Rows : RowHas(y, {"resetY"}) => RowHas(y, {"resetY", "wake"})
    BY DEF RowHas
  <2> QED BY <2>1, <1>4, <1>5, <1>9
<1>11. MeshInvRows'
  BY <1>2, <1>8, <1>10 DEF MeshInvRows
<1> QED BY <1>6, <1>7, <1>11 DEF MeshInv, MeshInvRow, MeshInvRows

LEMMA MeshInvWakeAll ==
  ASSUME TypeOK, WakeInv, InitInv, MeshInv, NEW c \in Clusters, WakeAll(c)
  PROVE  MeshInv'
<1>1. /\ pc[c][DM] = "wake"
      /\ \A d \in Clusters : pc'[d][DM] = IF d = c THEN "wfi" ELSE pc[d][DM]
      /\ UNCHANGED <<barrier_x, barrier_y, entered>> /\ wakes' = wakes + 1
  BY GotoPoint DEF WakeAll, counters
<1>2. /\ \A d \in Clusters : /\ Consumed(d) = wakes
                             /\ d # c => pc[d][DM] \in {"wfi", "blocked"}
      /\ \A y \in Rows : barrier_x[y] = 0
      /\ barrier_y = 0
  BY <1>1, AllWaiting
<1>3. \A d \in Clusters : ~Counted(d)'
  BY <1>1, <1>2 DEF Counted, Consumed, TypeOK
<1>4. \A x \in Columns, y \in Rows : <<x, y>> \in Clusters
  BY DEF Clusters
<1>5. \A y \in Rows : ArrivedColumns(y)' = {}
  BY <1>3, <1>4 DEF ArrivedColumns
<1>6. 0 \in Columns /\ 0 \in Rows
  BY DEF Columns, Rows
<1>7. ArrivedRows' = {}
  BY <1>5, <1>6 DEF ArrivedRows
<1>8. \A x \in Columns, y \in Rows : pc'[<<x, y>>][DM] \notin Leading
  BY <1>1, <1>2, <1>4 DEF Leading
<1>9. \A y \in Rows, L \in SUBSET Leading : ~RowHas(y, L)'
  BY <1>8 DEF RowHas
<1>10. Cardinality({}) = 0
  BY FS_EmptySet
<1>11. ASSUME NEW y \in Rows PROVE MeshInvRow(y)'
  BY <1>1, <1>2, <1>5, <1>6, <1>8, <1>9, <1>10 DEF MeshInvRow, Leading
<1>12. MeshInvRows'
  BY <1>1, <1>2, <1>6, <1>7, <1>9, <1>10 DEF MeshInvRows, Leading
<1> QED BY <1>11, <1>12 DEF MeshInv, MeshInvRow, MeshInvRows

\* What the wait-for-wakeup register does to the labels: a held data mover is
\* not counted in the call of the wake-up that releases it.
WaitEffect(c) ==
  /\ \A d \in Clusters : d # c => pc'[d][DM] = pc[d][DM]
  /\ \/ pc'[c][DM] = pc[c][DM]
     \/ pc[c][DM] = "wfi" /\ pc'[c][DM] = "blocked"
     \/ /\ pc[c][DM] \in {"wfi", "blocked"} /\ pc'[c][DM] = "sync2"
        /\ Consumed(c) # wakes

\* The steps that count nobody.
LEMMA MeshInvWait ==
  ASSUME TypeOK, WakeInv, MeshInv, NEW c \in Clusters,
         Wfi(c) \/ \E s \in Clusters : DeliverWakeup(s, c)
  PROVE  MeshInv'
<1>1. WakeInvAt(c) /\ Consumed(c) \in Nat /\ global_barrier_mutex[c] \in {0, 1} /\ wakes \in Nat
  BY WakeInvPointwise, WakeTypes
<1>2. UNCHANGED <<wakes, entered, barrier_x, barrier_y>>
  BY DEF Wfi, DeliverWakeup, Goto, counters
<1>3. WaitEffect(c)
  <2>1. CASE Wfi(c)
    <3>1. /\ pc[c][DM] = "wfi"
          /\ \A d \in Clusters :
               pc'[d][DM] = IF d # c THEN pc[d][DM]
                            ELSE IF WaitPends(c) THEN "blocked" ELSE "sync2"
      BY <2>1, GotoPoint DEF Wfi
    <3>2. WaitPends(c) \/ Consumed(c) # wakes
      BY <1>1, <3>1 DEF WakeInvAt, WaitPends
    <3> QED BY <3>1, <3>2 DEF WaitEffect
  <2>2. ASSUME NEW s \in Clusters, DeliverWakeup(s, c) PROVE WaitEffect(c)
    <3>1. /\ \A d \in Clusters : d # c => pc'[d][DM] = pc[d][DM]
          /\ pc'[c][DM] = IF DM = global_barrier_query[c] THEN "sync2" ELSE pc[c][DM]
      BY <2>2 DEF DeliverWakeup, TypeOK, CoresType
    <3>2. s \in InFlight(c)
      BY <2>2 DEF DeliverWakeup, GlobalBarrierSync, InFlight
    <3>3. Consumed(c) # wakes
      BY <3>2, <1>1 DEF WakeInvAt
    <3>4. DM = global_barrier_query[c] => pc[c][DM] = "blocked"
      BY <1>1 DEF WakeInvAt
    <3> QED BY <3>1, <3>3, <3>4 DEF WaitEffect
  <2> QED BY <2>1, <2>2
<1>4. \A d \in Clusters :
        /\ Counted(d)' <=> Counted(d)
        /\ pc'[d][DM] = pc[d][DM] \/ {pc[d][DM], pc'[d][DM]} \cap Leading = {}
  BY <1>2, <1>3 DEF WaitEffect, Counted, Consumed, Leading
<1> QED BY <1>2, <1>4, MeshFrame

LEMMA MeshInvNext ==
  ASSUME TypeOK, SyncInv, WakeInv, InitInv, MeshInv, Next
  PROVE  MeshInv'
<1>1. CASE InitResetY \/ InitResetX
  <2>1. Cluster0 \in Clusters
    BY Cluster0InMesh
  <2>2. wakes = 0 /\ wakes' = wakes
    BY <1>1, <2>1, InitInvLabels DEF InitResetY, InitResetX, Goto
  <2> QED BY <2>2 DEF MeshInv
<1>2. ASSUME NEW c \in Clusters, DMStep(c) PROVE MeshInv'
  BY <1>2, MeshInvAmoX, MeshInvResetX, MeshInvAmoY, MeshInvResetY, MeshInvWakeAll,
     MeshInvWait DEF DMStep, Goto
<1>3. ASSUME NEW c \in Clusters, NEW k \in Cores, CoreStep(c, k) PROVE MeshInv'
  <2>1. UNCHANGED <<wakes, barrier_x, barrier_y>>
    BY <1>3 DEF CoreStep, Enter, SecondSync, SyncCores, counters
  <2>2. ASSUME NEW d \in Clusters
        PROVE  /\ Counted(d)' <=> Counted(d)
               /\ pc'[d][DM] = pc[d][DM] \/ {pc[d][DM], pc'[d][DM]} \cap Leading = {}
    <3>1. /\ Consumed(d)' = Consumed(d)
          /\ \/ pc'[d][DM] = pc[d][DM]
             \/ {pc[d][DM], pc'[d][DM]} \cap Busy = {}
      BY <1>3, CoreStepDM
    <3> QED BY <2>1, <3>1 DEF Counted, Busy, Leading
  <2> QED BY <2>1, <2>2, MeshFrame
<1>4. ASSUME NEW s \in Clusters, NEW c \in Clusters, DeliverWakeup(s, c)
      PROVE  MeshInv'
  BY <1>4, MeshInvWait
<1>5. CASE Terminating
  <2>1. UNCHANGED <<wakes, barrier_x, barrier_y, pc, entered>>
    BY <1>5 DEF Terminating, vars, program, counters
  <2>2. \A d \in Clusters : Counted(d)' <=> Counted(d)
    BY <2>1 DEF Counted, Consumed
  <2> QED BY <2>1, <2>2, MeshFrame
<1> QED BY <1>1, <1>2, <1>3, <1>4, <1>5 DEF Next

-----------------------------------------------------------------------------
(* The inductive invariant. *)

\* The arrival of a wake-up releases the data mover that is held, and no other
\* core.
LEMMA DeliverGoto ==
  ASSUME TypeOK, WakeInv, NEW s \in Clusters, NEW c \in Clusters, DeliverWakeup(s, c)
  PROVE  IF pc[c][DM] = "blocked"
         THEN Goto(c, "blocked", "sync2")
         ELSE UNCHANGED <<pc, barrier_status, entered, left>>
<1> DEFINE released == [k \in Cores |->
                          IF k = global_barrier_query[c] THEN "sync2" ELSE pc[c][k]]
<1>1. pc' = [pc EXCEPT ![c] = released] /\ UNCHANGED <<barrier_status, entered, left>>
  BY DEF DeliverWakeup
<1>2. global_barrier_query[c] = IF pc[c][DM] = "blocked" THEN DM ELSE NULL
  BY DEF WakeInv
<1>3. pc \in [Clusters -> [Cores -> Labels]]
  BY DEF TypeOK, CoresType
<1>4. CASE pc[c][DM] = "blocked"
  <2>1. released = [pc[c] EXCEPT ![DM] = "sync2"]
    BY <1>2, <1>3, <1>4
  <2> QED BY <1>1, <1>3, <1>4, <2>1 DEF Goto
<1>5. CASE pc[c][DM] # "blocked"
  <2>1. released = pc[c]
    BY <1>2, <1>3, <1>5
  <2> QED BY <1>1, <1>3, <1>5, <2>1
<1> QED BY <1>4, <1>5

\* Every step of a data mover is a move of its program counter, and a delivery
\* is one or none.
LEMMA StepGoto ==
  ASSUME TypeOK, WakeInv, Next, ~\E c \in Clusters, k \in Cores : CoreStep(c, k)
  PROVE  \/ UNCHANGED <<pc, barrier_status, entered, left>>
         \/ \E c \in Clusters : \E from, to \in Labels \ {"work", "wait1", "wait2"} :
              Goto(c, from, to)
<1>1. {"initY", "initX", "amoX", "resetX", "amoY", "resetY", "wake", "wfi", "blocked", "sync2"}
        \subseteq Labels \ {"work", "wait1", "wait2"}
  BY DEF Labels, WorkerLabels
<1>2. CASE InitResetY \/ InitResetX
  BY <1>1, <1>2, Cluster0InMesh DEF InitResetY, InitResetX
<1>3. ASSUME NEW c \in Clusters, DMStep(c)
      PROVE  \E from, to \in Labels \ {"work", "wait1", "wait2"} : Goto(c, from, to)
  BY <1>1, <1>3 DEF DMStep, AmoX, ResetX, AmoY, ResetY, WakeAll, Wfi
<1>4. ASSUME NEW s \in Clusters, NEW c \in Clusters, DeliverWakeup(s, c)
      PROVE  \/ UNCHANGED <<pc, barrier_status, entered, left>>
             \/ \E from, to \in Labels \ {"work", "wait1", "wait2"} : Goto(c, from, to)
  BY <1>1, <1>4, DeliverGoto
<1>5. CASE Terminating
  BY <1>5 DEF Terminating, vars, program
<1> QED BY <1>2, <1>3, <1>4, <1>5 DEF Next

LEMMA CoresNext ==
  ASSUME TypeOK, SyncInv, WakeInv, Next
  PROVE  CoresType(Labels)' /\ SyncInv'
<1>0. CoresType(Labels) /\ WorkerLabels \subseteq Labels /\ "amoX" \in Labels /\ WorkLabel("amoX")
  BY LabelFacts DEF TypeOK
<1>1. ASSUME NEW c \in Clusters, NEW k \in Cores, CoreStep(c, k)
      PROVE  CoresType(Labels)' /\ SyncInv'
  <2>1. CallStep(c, k, "amoX")
    BY <1>1 DEF CoreStep, Enter, SecondSync, CallStep
  <2> QED BY <1>0, <2>1, CallStepType, SyncInvCall
<1>2. ASSUME NEW c \in Clusters, NEW from \in Labels \ {"work", "wait1", "wait2"},
             NEW to \in Labels \ {"work", "wait1", "wait2"}, Goto(c, from, to)
      PROVE  CoresType(Labels)' /\ SyncInv'
  BY <1>0, <1>2, CoresGotoType, SyncInvGoto
<1>3. CASE UNCHANGED <<pc, barrier_status, entered, left>>
  BY <1>0, <1>3 DEF CoresType, SyncInv, Syncs
<1> QED BY <1>1, <1>2, <1>3, StepGoto

LEMMA TypeNext ==
  ASSUME TypeOK, SyncInv, WakeInv, Next
  PROVE  TypeOK'
<1>1. CoresType(Labels)'
  BY CoresNext
<1>2. CASE InitResetY
  BY <1>1, <1>2 DEF InitResetY, TypeOK, RegistersType, registers
<1>3. CASE InitResetX
  <2>1. barrier_x' = [barrier_x EXCEPT ![init_row] = 0] /\ init_row' = init_row + 1
    BY <1>3 DEF InitResetX
  <2>3. barrier_x \in [Rows -> Nat] /\ init_row \in Nat
    BY DEF TypeOK
  <2>4. barrier_x' \in [Rows -> Nat]
    BY <2>1, <2>3
  <2>5. init_row' \in Nat
    BY <2>1, <2>3
  <2>2. UNCHANGED <<registers, barrier_y, wakes>>
    BY <1>3 DEF InitResetX
  <2> QED BY <1>1, <2>4, <2>5, <2>2 DEF TypeOK, RegistersType, registers
<1>4. ASSUME NEW c \in Clusters, DMStep(c) PROVE TypeOK'
  <2>1. RowOf(c) \in Rows
    BY DEF RowOf, Clusters
  <2>2. CASE AmoX(c)    BY <1>1, <2>1, <2>2 DEF AmoX, TypeOK, RegistersType, registers
  <2>3. CASE ResetX(c)  BY <1>1, <2>1, <2>3 DEF ResetX, TypeOK, RegistersType, registers
  <2>4. CASE AmoY(c)    BY <1>1, <2>4 DEF AmoY, TypeOK, RegistersType, registers
  <2>5. CASE ResetY(c)  BY <1>1, <2>5 DEF ResetY, TypeOK, RegistersType, registers
  <2>6. CASE WakeAll(c)
    BY <1>1, <2>6 DEF WakeAll, SendWakeup, TypeOK, RegistersType, counters
  <2>7. CASE Wfi(c)
    BY <1>1, <2>7 DEF Wfi, WaitForWakeup, TypeOK, RegistersType, counters
  <2> QED BY <1>4, <2>2, <2>3, <2>4, <2>5, <2>6, <2>7 DEF DMStep
<1>5. ASSUME NEW c \in Clusters, NEW k \in Cores, CoreStep(c, k) PROVE TypeOK'
  <2>1. UNCHANGED <<registers, counters, wakes>>
    BY <1>5 DEF CoreStep, Enter, SecondSync
  <2> QED BY <1>1, <2>1 DEF TypeOK, RegistersType, registers, counters
<1>6. ASSUME NEW s \in Clusters, NEW c \in Clusters, DeliverWakeup(s, c) PROVE TypeOK'
  BY <1>1, <1>6 DEF DeliverWakeup, GlobalBarrierSync, TypeOK, RegistersType, counters
<1>7. CASE Terminating
  BY <1>1, <1>7 DEF Terminating, vars, program, TypeOK, RegistersType, registers, counters
<1> QED BY <1>2, <1>3, <1>4, <1>5, <1>6, <1>7 DEF Next

LEMMA IInvInit == Init => IInv
  BY TypeInit, SyncInvInit, WakeInvInit, InitInvInit, MeshInvInit DEF IInv

LEMMA IInvNext == IInv /\ [Next]_vars => IInv'
<1> SUFFICES ASSUME IInv, [Next]_vars PROVE IInv'
  OBVIOUS
<1>1. TypeOK /\ SyncInv /\ WakeInv /\ InitInv /\ MeshInv
  BY DEF IInv
<1>2. CASE Next
  BY <1>1, <1>2, TypeNext, CoresNext, WakeInvNext, InitInvNext, MeshInvNext DEF IInv
<1>3. CASE UNCHANGED vars
  <2>1. UNCHANGED <<registers, barrier_status, pc, init_row, barrier_x, barrier_y, entered, left, wakes>>
    BY <1>3 DEF vars, program, counters
  <2>2. TypeOK' /\ SyncInv'
    BY <1>1, <2>1 DEF TypeOK, CoresType, RegistersType, registers, SyncInv, Syncs
  <2>3. WakeInv'
    BY <1>1, <2>1 DEF registers, WakeInv, WakeupsConserved, Consumed, InFlight
  <2>4. InitInv'
    BY <1>1, <2>1 DEF InitInv
  <2>5. MeshInv'
    <3>1. \A d \in Clusters : Counted(d)' <=> Counted(d)
      BY <2>1 DEF Counted, Consumed
    <3> QED BY <1>1, <2>1, <3>1, MeshFrame
  <2> QED BY <2>2, <2>3, <2>4, <2>5 DEF IInv
<1> QED BY <1>2, <1>3

\* The inductive invariant holds throughout.
THEOREM Invariance == Spec => []IInv
  BY IInvInit, IInvNext, PTL DEF Spec

-----------------------------------------------------------------------------
(* What follows. *)

\* Every variable keeps its type, whatever the mesh and the calls.
THEOREM TypeCorrect == Spec => []TypeOK
<1>1. IInv => TypeOK
  BY DEF IInv
<1> QED BY <1>1, Invariance, PTL

\* No cluster is past a barrier that some core has still to enter: its wake-up
\* is issued when every cluster is counted.
LEMMA NobodyIsAhead == IInv => NobodyAhead
<1> SUFFICES ASSUME IInv, NEW c \in Clusters, NEW d \in Clusters, NEW j \in Cores
             PROVE  Passed(c) <= entered[<<d, j>>] + 1
  BY DEF NobodyAhead
<1>1. /\ Passed(c) = Consumed(c) /\ Passed(d) = Consumed(d)
      /\ Passed(c) \in Nat /\ Passed(d) \in Nat /\ wakes \in Nat
      /\ entered[<<d, j>>] \in Nat
  BY EnteredType DEF Passed, Consumed, IInv, TypeOK
<1>2. /\ Passed(c) <= wakes /\ wakes <= Passed(d) + 1
      /\ wakes = Passed(d) + 1 => pc[d][DM] \in {"wfi", "blocked"}
  BY <1>1 DEF IInv, WakeInv
<1>3. /\ Passed(d) <= entered[<<d, j>>] + 1
      /\ WorkLabel(pc[d][DM]) => Passed(d) = entered[<<d, j>>]
  BY PassedBounds DEF IInv, TypeOK
<1>4. wakes = Passed(d) + 1 => WorkLabel(pc[d][DM])
  BY <1>2 DEF WorkLabel, WorkerLabels
<1> QED BY <1>1, <1>2, <1>3, <1>4

\* No core returns from its n-th call of flex_global_barrier_xy before every
\* core of every cluster has made its n-th call.
THEOREM BarrierCorrect == Spec => []BarrierSafety
<1>1. IInv => BarrierSafety
  BY NobodyIsAhead, NobodyAheadIsSafe DEF IInv, TypeOK, BarrierSafety
<1> QED BY <1>1, Invariance, PTL

\* Every broadcast of flex_wakeup_all_clusters is, for every cluster, consumed
\* once, kept as the token or on its way: none is lost in a saturated token.
THEOREM WakeupsCorrect == Spec => []WakeupsConserved
<1>1. IInv => WakeupsConserved
  BY DEF IInv, WakeInv
<1> QED BY <1>1, Invariance, PTL

\* No cluster issues a broadcast from global_barrier_master_req while copies of
\* the previous one are on their way.
THEOREM MasterRequestCorrect == Spec => MasterRequestFree
<1> DEFINE Free == \A c \in Clusters : wakeup'[c] \subseteq wakeup[c] \/ wakeup[c] = {}
<1>1. IInv /\ [Next]_vars => Free
  <2> SUFFICES ASSUME IInv, [Next]_vars, NEW c \in Clusters
               PROVE  wakeup'[c] \subseteq wakeup[c] \/ wakeup[c] = {}
    OBVIOUS
  <2> USE DEF IInv
  <2>1. CASE WakeAll(c)
    <3>1. pc[c][DM] = "wake"
      BY <2>1 DEF WakeAll, Goto
    <3>2. ASSUME NEW d \in Clusters PROVE InFlight(d) = {}
      <4>1. WakeInvAt(d) /\ Consumed(d) \in Nat /\ global_barrier_mutex[d] \in {0, 1}
        BY WakeInvPointwise, WakeTypes
      <4>2. Consumed(d) = wakes
        BY <3>1, AllWaiting
      <4> QED BY <4>1, <4>2 DEF WakeInvAt
    <3>3. wakeup[c] = {}
      BY <3>2 DEF InFlight, TypeOK, RegistersType
    <3> QED BY <3>3
  <2>2. ASSUME NEW d \in Clusters, d # c, WakeAll(d) PROVE wakeup'[c] = wakeup[c]
    BY <2>2 DEF WakeAll, SendWakeup, TypeOK, RegistersType
  <2>3. ASSUME NEW s \in Clusters, NEW d \in Clusters, DeliverWakeup(s, d)
        PROVE  wakeup'[c] \subseteq wakeup[c]
    BY <2>3 DEF DeliverWakeup, GlobalBarrierSync, TypeOK, RegistersType
  <2>4. CASE \/ InitResetY \/ InitResetX
             \/ \E d \in Clusters : AmoX(d) \/ ResetX(d) \/ AmoY(d) \/ ResetY(d) \/ Wfi(d)
             \/ \E d \in Clusters, k \in Cores : CoreStep(d, k)
             \/ Terminating \/ UNCHANGED vars
    <3>1. UNCHANGED wakeup
      BY <2>4 DEF InitResetY, InitResetX, AmoX, ResetX, AmoY, ResetY, Wfi, CoreStep,
                  Enter, SecondSync, SyncCores, Terminating, vars, registers, EnterCall, LeaveCall, CoresType, Goto, counters
    <3> QED BY <3>1
  <2> QED BY <2>1, <2>2, <2>3, <2>4 DEF Next, DMStep
<1>2. IInv /\ [Next]_vars => [Free]_vars
  BY <1>1
<1> QED BY <1>2, Invariance, PTL DEF Spec, MasterRequestFree

-----------------------------------------------------------------------------
(* The barrier implements the abstract one. *)

AbstractStep == [AbstractBarrier!Next]_(AbstractBarrier!vars)

\* flex_barrier_xy_init and the calls of flex_global_barrier_xy after it
\* implement the abstract barrier, its liveness apart.
THEOREM BarrierRefinement == Spec => AbstractBarrier!SafeSpec
<1>1. Init => AbstractBarrier!Init
  BY DEF Init, AbstractBarrier!Init
<1>2. IInv /\ [Next]_vars => AbstractStep
  <2> SUFFICES ASSUME IInv, [Next]_vars PROVE AbstractStep
    OBVIOUS
  <2>0. CoresType(Labels) /\ WorkerLabels \subseteq Labels /\ "amoX" \in Labels
    BY LabelFacts DEF IInv, TypeOK
  <2>1. ASSUME NEW c \in Clusters, NEW k \in Cores, CoreStep(c, k) PROVE AbstractStep
    <3>1. CASE Enter(c, k)
      <4>1. Calls!Enter(<<c, k>>)
        BY <2>0, <3>1, EnterCallImplements DEF IInv, Enter
      <4> QED BY <4>1 DEF AbstractStep, AbstractBarrier!Next, AbstractBarrier!Enter,
                          Calls!Enter, Participants
    <3>2. CASE SecondSync(c, k)
      <4>1. \/ UNCHANGED <<entered, left>>
            \/ \E P \in SUBSET Participants : Calls!Leave(P)
        BY <2>0, <3>2, NobodyIsAhead, LeaveCallImplements DEF IInv, SecondSync
      <4> QED BY <4>1 DEF AbstractStep, AbstractBarrier!Next, AbstractBarrier!Leave,
                          Calls!Leave, AbstractBarrier!vars
    <3> QED BY <2>1, <3>1, <3>2 DEF CoreStep
  <2>2. CASE \/ InitResetY \/ InitResetX
             \/ \E c \in Clusters : DMStep(c)
             \/ \E s, c \in Clusters : DeliverWakeup(s, c)
             \/ Terminating \/ UNCHANGED vars
    <3>1. UNCHANGED <<entered, left>>
      BY <2>2 DEF InitResetY, InitResetX, DMStep, AmoX, ResetX, AmoY, ResetY, WakeAll,
                  Wfi, DeliverWakeup, Terminating, vars, program, Goto, counters
    <3> QED BY <3>1 DEF AbstractStep, AbstractBarrier!vars
  <2> QED BY <2>1, <2>2 DEF Next
<1> QED BY <1>1, <1>2, Invariance, PTL DEF Spec, AbstractStep, AbstractBarrier!SafeSpec
=============================================================================
