---------------------- MODULE FlexGlobalBarrierProofs -----------------------
(* Theorems about FlexGlobalBarrier for every mesh, every number of cores,  *)
(* every program of waiting and polling calls, every width of the iteration *)
(* word and every initial content of the sync memory.                       *)
EXTENDS FlexGlobalBarrierInv, ClusterCoresProofs

USE GridAssumption, RoundsAssumption, NullAssumption, ProgramAssumption

-----------------------------------------------------------------------------
(* The labels, the words and the number of broadcasts. *)

LEMMA LabelFacts ==
  /\ WorkerLabels \subseteq Labels
  /\ \A l \in Leading \cup {"read", "amo", "wfi", "blocked", "poll"} : WorkLabel(l) /\ l \in Labels
  /\ "sync2" \in Labels /\ ~WorkLabel("sync2")
  BY DEF Labels, WorkerLabels, WorkLabel, Leading

LEMMA IteratedChanges ==
  ASSUME NEW word \in Iterations
  PROVE  Iterated(word) \in Iterations /\ Iterated(word) # word
  BY AdvancedWord DEF Iterations, Iterated

LEMMA GlobalTypes ==
  ASSUME TypeOK, NEW c \in Clusters
  PROVE  /\ Passed(c) \in Nat /\ entered[<<c, DM>>] \in Nat
         /\ prev_iteration[c] \in Iterations /\ barrier_iter \in Iterations
         /\ global_barrier_mutex[c] \in {0, 1}
<1>1. entered[<<c, DM>>] \in Nat
  BY EnteredNat DEF TypeOK
<1> QED BY <1>1 DEF TypeOK, Passed, RegistersType

\* A waiting barrier adds one broadcast, a polling one none.
LEMMA WaitsNext ==
  ASSUME NEW n \in Nat
  PROVE  /\ Waits(0) = 0
         /\ Waits(n) \in Nat
         /\ Waits(n + 1) = Waits(n) + (IF n \in Polls THEN 0 ELSE 1)
<1> DEFINE W(m) == (0 .. m - 1) \ Polls
<1>1. W(0) = {} /\ Cardinality({}) = 0
  BY FS_EmptySet
<1>2. IsFiniteSet(W(n)) /\ Cardinality(W(n)) \in Nat
  <2>1. IsFiniteSet(0 .. n - 1) /\ W(n) \subseteq 0 .. n - 1
    BY FS_Interval
  <2>2. IsFiniteSet(W(n))
    BY <2>1, FS_Subset
  <2> QED BY <2>2, FS_CardinalityType
<1>3. CASE n \in Polls
  <2>1. W(n + 1) = W(n)
    BY <1>3
  <2> QED BY <1>1, <1>2, <1>3, <2>1 DEF Waits
<1>4. CASE n \notin Polls
  <2>1. W(n + 1) = W(n) \cup {n} /\ n \notin W(n)
    BY <1>4
  <2>2. Cardinality(W(n) \cup {n}) = Cardinality(W(n)) + 1
    BY <1>2, <2>1, FS_AddElement
  <2> QED BY <1>1, <1>2, <1>4, <2>1, <2>2 DEF Waits
<1> QED BY <1>3, <1>4

\* The broadcasts that a cluster has consumed are those of the barriers that it
\* has passed.
LEMMA ConsumedWaits ==
  ASSUME TypeOK, NEW c \in Clusters
  PROVE  Consumed(c) = Waits(Passed(c))
<1>1. Passed(c) \in Nat
  BY GlobalTypes
<1>2. Consumed(c) = IF Passed(c) = 0 THEN 0 ELSE 1 + Cardinality((1 .. Passed(c) - 1) \ Polls)
  <2> DEFINE behind == Passed(c) - 1
  <2>1. behind = IF pc[c][DM] \in {"sync2", "wait2", "work"}
                 THEN entered[<<c, DM>>] ELSE entered[<<c, DM>>] - 1
    BY GlobalTypes DEF Passed
  <2>2. Consumed(c) = IF behind = -1 THEN 0 ELSE 1 + Cardinality((1 .. behind) \ Polls)
    BY <2>1, Zenon DEF Consumed
  <2>3. behind = -1 <=> Passed(c) = 0
    BY <1>1
  <2> QED BY <2>2, <2>3
<1>3. CASE Passed(c) = 0
  BY <1>2, <1>3, WaitsNext
<1>4. CASE Passed(c) # 0
  <2> DEFINE P == (1 .. Passed(c) - 1) \ Polls
  <2>1. (0 .. Passed(c) - 1) \ Polls = P \cup {0} /\ 0 \notin P
    BY <1>1, <1>4
  <2>2. IsFiniteSet(P)
    <3>1. IsFiniteSet(1 .. Passed(c) - 1) /\ P \subseteq 1 .. Passed(c) - 1
      BY <1>1, FS_Interval
    <3> QED BY <3>1, FS_Subset
  <2>3. Cardinality(P \cup {0}) = Cardinality(P) + 1 /\ Cardinality(P) \in Nat
    BY <2>1, <2>2, FS_AddElement, FS_CardinalityType
  <2>4. Waits(Passed(c)) = Cardinality(P \cup {0})
    BY <2>1 DEF Waits
  <2> QED BY <1>2, <1>4, <2>3, <2>4
<1> QED BY <1>3, <1>4

-----------------------------------------------------------------------------
(* What the invariant says of who leads. *)

\* A cluster that leads: every cluster is counted, nobody has passed the barrier
\* that is ending, and the others wait for it in the way of their call.
LEMMA LeaderAlone ==
  ASSUME TypeOK, NEW g \in Nat, GlobalInv(g), NEW c \in Clusters, pc[c][DM] \in Leading
  PROVE  /\ Arrivals(g) = Clusters
         /\ \A d \in Clusters :
              /\ Passed(d) = g
              /\ PollingCall(d) <=> g \in Polls
              /\ d # c => pc[d][DM] = "poll" \/ pc[d][DM] \in {"wfi", "blocked"}
              /\ d # c => pc[d][DM] \notin Leading
<1>1. Arrivals(g) = Clusters
  BY DEF GlobalInv, Counts
<1>2. \A d \in Clusters : Arrived(d, g)
  BY <1>1 DEF Arrivals
<1>3. \A d \in Clusters : d # c => pc[d][DM] \notin Leading
  BY DEF GlobalInv, Counts
<1>4. \A d \in Clusters : PollingCall(d) <=> g \in Polls
  BY <1>2 DEF Arrived, Passed, PollingCall, Leading
<1> QED BY <1>1, <1>2, <1>3, <1>4 DEF Arrived

\* A data mover about to add itself: nobody leads, so the counter holds the
\* number of the others that have, and this one completes it or does not.
LEMMA AboutToArrive ==
  ASSUME TypeOK, NEW g \in Nat, GlobalInv(g), NEW c \in Clusters, pc[c][DM] = "amo"
  PROVE  /\ Passed(c) = g /\ c \notin Arrivals(g) /\ Arrivals(g) # Clusters
         /\ \A d \in Clusters : pc[d][DM] \notin Leading
         /\ barrier = Cardinality(Arrivals(g)) /\ barrier \in Nat /\ barrier < NumClusters
         /\ Cardinality(Arrivals(g) \cup {c}) = barrier + 1
         /\ barrier = NumClusters - 1 <=> Arrivals(g) \cup {c} = Clusters
<1>1. Passed(c) = g
  BY DEF GlobalInv, InStep
<1>2. c \notin Arrivals(g) /\ Arrivals(g) # Clusters /\ Arrivals(g) \subseteq Clusters
  BY DEF Arrivals, Arrived, Leading
<1>3. \A d \in Clusters : pc[d][DM] \notin Leading
  BY <1>2 DEF GlobalInv, Counts
<1>4. barrier = Cardinality(Arrivals(g))
  BY <1>3 DEF GlobalInv, Counts, Leading
<1>5. /\ Cardinality(Arrivals(g) \cup {c}) = Cardinality(Arrivals(g)) + 1
      /\ Cardinality(Arrivals(g)) = Cardinality(Clusters) - 1
           <=> Arrivals(g) \cup {c} = Clusters
      /\ Cardinality(Arrivals(g)) \in Nat
      /\ Cardinality(Arrivals(g)) < Cardinality(Clusters)
  BY <1>2, OneMore, MeshSize
<1> QED BY <1>1, <1>2, <1>3, <1>4, <1>5, MeshSize DEF NumClusters

-----------------------------------------------------------------------------
(* What a step leaves alone. *)

\* The counter is not touched, no cluster is counted and no leader moves.
LEMMA CountsFrame ==
  ASSUME TypeOK, NEW g \in Nat, GlobalInv(g), UNCHANGED barrier,
         \A d \in Clusters :
           /\ Arrived(d, g)' <=> Arrived(d, g)
           /\ pc'[d][DM] = pc[d][DM] \/ {pc[d][DM], pc'[d][DM]} \cap Leading = {}
  PROVE  Counts(g)'
<1>1. Arrivals(g)' = Arrivals(g)
  BY DEF Arrivals
<1>2. \A l \in Leading, d \in Clusters : pc'[d][DM] = l <=> pc[d][DM] = l
  OBVIOUS
<1> QED BY <1>1, <1>2 DEF GlobalInv, Counts, Leading

\* The registers are not touched, and no data mover starts or ends a wait.
LEMMA WokenFrame ==
  ASSUME TypeOK, NEW g \in Nat, GlobalInv(g), UNCHANGED registers,
         NEW d \in Clusters, Owed(d, g)' <=> Owed(d, g),
         pc'[d][DM] = "blocked" <=> pc[d][DM] = "blocked"
  PROVE  Woken(d, g)'
<1>1. InFlight(d)' = InFlight(d)
  BY DEF registers, InFlight
<1> QED BY <1>1 DEF GlobalInv, Woken, registers

\* The effect of a data mover's step that passes no barrier.
LEMMA WorkStep ==
  ASSUME TypeOK, NEW c \in Clusters, NEW from, NEW to, WorkLabel(from), WorkLabel(to),
         Goto(c, from, to)
  PROVE  /\ pc[c][DM] = from
         /\ \A d \in Clusters : /\ pc'[d][DM] = IF d = c THEN to ELSE pc[d][DM]
                                /\ Passed(d)' = Passed(d)
                                /\ PollingCall(d)' <=> PollingCall(d)
  BY PassedGoto DEF TypeOK, PollingCall, WorkLabel, WorkerLabels

\* And of one that does.
LEMMA LastStep ==
  ASSUME TypeOK, NEW c \in Clusters, NEW from, WorkLabel(from), Goto(c, from, "sync2")
  PROVE  /\ pc[c][DM] = from
         /\ \A d \in Clusters :
              /\ pc'[d][DM] = IF d = c THEN "sync2" ELSE pc[d][DM]
              /\ Passed(d)' = IF d = c THEN Passed(d) + 1 ELSE Passed(d)
              /\ PollingCall(d)' <=> PollingCall(d)
  BY PassedGoto DEF TypeOK, PollingCall

-----------------------------------------------------------------------------
(* Each step, one after the other. *)

LEMMA GlobalRead ==
  ASSUME TypeOK, NEW g \in Nat, GlobalInv(g), NEW c \in Clusters, Read(c)
  PROVE  GlobalInv(g)'
<1>1. /\ pc[c][DM] = "read"
      /\ \A d \in Clusters : /\ pc'[d][DM] = IF d = c THEN "amo" ELSE pc[d][DM]
                             /\ Passed(d)' = Passed(d)
                             /\ PollingCall(d)' <=> PollingCall(d)
  BY WorkStep, LabelFacts DEF Read
<1>2. /\ UNCHANGED <<registers, barrier, barrier_iter, wakes>>
      /\ \A d \in Clusters :
           prev_iteration'[d] = IF d = c THEN barrier_iter ELSE prev_iteration[d]
  BY DEF Read, TypeOK
<1>3. \A d \in Clusters : /\ Arrived(d, g)' <=> Arrived(d, g)
                          /\ Owed(d, g)' <=> Owed(d, g)
                          /\ pc'[d][DM] = "blocked" <=> pc[d][DM] = "blocked"
                          /\ \/ pc'[d][DM] = pc[d][DM]
                             \/ {pc[d][DM], pc'[d][DM]} \cap Leading = {}
  BY <1>1 DEF Arrived, Owed, Leading
<1>4. ASSUME NEW d \in Clusters PROVE InStep(d, g)' /\ Remembered(d, g)'
  BY <1>1, <1>2 DEF GlobalInv, InStep, Remembered
<1> QED BY <1>2, <1>3, <1>4, CountsFrame, WokenFrame DEF GlobalInv

\* A data mover that leads goes on to another label of the lead.
LEMMA LeaderMove ==
  ASSUME TypeOK, NEW g \in Nat, GlobalInv(g), NEW c \in Clusters,
         NEW from \in Leading, NEW to \in {"wake", "iterate"}, Goto(c, from, to),
         PollingCall(c) <=> to = "iterate", barrier' = 0,
         UNCHANGED <<registers, barrier_iter, prev_iteration, wakes>>,
         to = "iterate" => from = "reset"
  PROVE  GlobalInv(g)'
<1>1. WorkLabel(from) /\ WorkLabel(to) /\ to \in Leading
  BY LabelFacts DEF Leading
<1>2. /\ pc[c][DM] = from
      /\ \A d \in Clusters : /\ pc'[d][DM] = IF d = c THEN to ELSE pc[d][DM]
                             /\ Passed(d)' = Passed(d)
                             /\ PollingCall(d)' <=> PollingCall(d)
  BY <1>1, WorkStep
<1>3. \A d \in Clusters : d # c => pc[d][DM] \notin Leading
  BY <1>2, LeaderAlone
<1>4. \A d \in Clusters : /\ Arrived(d, g)' <=> Arrived(d, g)
                          /\ Owed(d, g)' <=> Owed(d, g)
                          /\ pc'[d][DM] = "blocked" <=> pc[d][DM] = "blocked"
  BY <1>2 DEF Arrived, Owed, Leading
<1>5. ASSUME NEW d \in Clusters PROVE InStep(d, g)' /\ Remembered(d, g)'
  <2>1. Passed(c) = g
    BY <1>2, LeaderAlone
  <2> QED BY <1>2, <2>1 DEF GlobalInv, InStep, Remembered, Leading
<1>6. Arrivals(g)' = Clusters
  <2>1. Arrivals(g)' = Arrivals(g)
    BY <1>4 DEF Arrivals
  <2> QED BY <2>1, <1>2, LeaderAlone
<1>7. Counts(g)'
  BY <1>1, <1>2, <1>3, <1>6 DEF Counts
<1> QED BY <1>4, <1>5, <1>7, WokenFrame DEF GlobalInv

LEMMA GlobalInitReset ==
  ASSUME TypeOK, NEW g \in Nat, GlobalInv(g), InitReset
  PROVE  GlobalInv(g)'
<1>1. /\ Goto(Cluster0, "init", "wake") /\ pc[Cluster0][DM] = "init" /\ barrier' = 0
      /\ UNCHANGED <<registers, barrier_iter, prev_iteration, wakes>>
  BY DEF InitReset, Goto
<1>2. Cluster0 \in Clusters /\ "init" \in Leading
  BY Cluster0InMesh DEF Leading
<1>3. ~PollingCall(Cluster0)
  BY <1>1, <1>2 DEF GlobalInv, InStep
<1> QED BY <1>1, <1>2, <1>3, LeaderMove

LEMMA GlobalReset ==
  ASSUME TypeOK, NEW g \in Nat, GlobalInv(g), NEW c \in Clusters, Reset(c)
  PROVE  GlobalInv(g)'
<1> DEFINE to == IF PollingCall(c) THEN "iterate" ELSE "wake"
<1>1. /\ Goto(c, "reset", to) /\ barrier' = 0
      /\ UNCHANGED <<registers, barrier_iter, prev_iteration, wakes>>
  BY DEF Reset
<1>2. "reset" \in Leading /\ to \in {"wake", "iterate"} /\ (PollingCall(c) <=> to = "iterate")
  BY DEF Leading
<1> HIDE DEF to
<1> QED BY <1>1, <1>2, LeaderMove

\* A cluster adds itself to the counter.
LEMMA GlobalAmo ==
  ASSUME TypeOK, NEW g \in Nat, GlobalInv(g), NEW c \in Clusters, Amo(c)
  PROVE  GlobalInv(g)' /\ barrier' \in Nat
<1>1. PICK to : /\ to = IF barrier = NumClusters - 1 THEN "reset"
                        ELSE IF PollingCall(c) THEN "poll" ELSE "wfi"
                /\ Goto(c, "amo", to)
                /\ barrier' = barrier + 1
                /\ UNCHANGED <<registers, barrier_iter, prev_iteration, wakes>>
  BY DEF Amo
<1>2. WorkLabel(to) /\ to \in {"reset", "poll", "wfi"}
  BY <1>1, LabelFacts DEF Leading
<1>3. /\ pc[c][DM] = "amo"
      /\ \A d \in Clusters : /\ pc'[d][DM] = IF d = c THEN to ELSE pc[d][DM]
                             /\ Passed(d)' = Passed(d)
                             /\ PollingCall(d)' <=> PollingCall(d)
  BY <1>1, <1>2, LabelFacts, WorkStep
<1>4. /\ Passed(c) = g /\ c \notin Arrivals(g) /\ Arrivals(g) # Clusters
      /\ \A d \in Clusters : pc[d][DM] \notin Leading
      /\ barrier = Cardinality(Arrivals(g)) /\ barrier \in Nat /\ barrier < NumClusters
      /\ Cardinality(Arrivals(g) \cup {c}) = barrier + 1
      /\ barrier = NumClusters - 1 <=> Arrivals(g) \cup {c} = Clusters
  BY <1>3, AboutToArrive
<1>5. \A d \in Clusters : /\ Owed(d, g)' <=> Owed(d, g)
                          /\ pc'[d][DM] = "blocked" <=> pc[d][DM] = "blocked"
  BY <1>2, <1>3 DEF Owed
<1>6. ASSUME NEW d \in Clusters PROVE InStep(d, g)' /\ Remembered(d, g)'
  BY <1>1, <1>2, <1>3, <1>4 DEF GlobalInv, InStep, Remembered
<1>7. Arrivals(g)' = Arrivals(g) \cup {c}
  <2>1. \A d \in Clusters : Arrived(d, g)' <=> Arrived(d, g) \/ d = c
    BY <1>2, <1>3, <1>4 DEF Arrived, Leading
  <2> QED BY <2>1 DEF Arrivals
<1>8. \A d \in Clusters : pc'[d][DM] \in Leading <=> d = c /\ to = "reset"
  BY <1>2, <1>3, <1>4 DEF Leading
<1>9. to = "reset" <=> Arrivals(g)' = Clusters
  BY <1>1, <1>4, <1>7
<1>10. Counts(g)'
  <2>1. \A d \in Clusters : pc'[d][DM] \notin {"wake", "iterate"}
    BY <1>2, <1>3, <1>4 DEF Leading
  <2>2. barrier' = Cardinality(Arrivals(g)')
    BY <1>1, <1>4, <1>7
  <2>3. (\E d \in Clusters : pc'[d][DM] \in Leading) <=> Arrivals(g)' = Clusters
    BY <1>8, <1>9
  <2> QED BY <2>1, <2>2, <2>3, <1>8 DEF Counts
<1> QED BY <1>1, <1>4, <1>5, <1>6, <1>10, WokenFrame DEF GlobalInv

\* A barrier has ended: nobody is counted in the next one yet.
LEMMA Emptied ==
  ASSUME NEW g \in Nat, barrier' = 0,
         \A d \in Clusters : pc'[d][DM] \notin Leading /\ ~Arrived(d, g + 1)'
  PROVE  Counts(g + 1)'
<1>1. Arrivals(g + 1)' = {} /\ Cardinality({}) = 0
  BY FS_EmptySet DEF Arrivals
<1>2. Clusters # {}
  BY Cluster0InMesh
<1> QED BY <1>1, <1>2 DEF Counts

\* The leader of a waiting call, or of the initialisation, wakes everybody: it
\* ends the barrier, and owes a wake-up to every cluster.
LEMMA GlobalWakeAll ==
  ASSUME TypeOK, NEW g \in Nat, GlobalInv(g), NEW c \in Clusters, WakeAll(c)
  PROVE  GlobalInv(g + 1)'
<1>1. /\ pc[c][DM] = "wake"
      /\ \A d \in Clusters : /\ pc'[d][DM] = IF d = c THEN "wfi" ELSE pc[d][DM]
                             /\ Passed(d)' = Passed(d)
                             /\ PollingCall(d)' <=> PollingCall(d)
  BY WorkStep, LabelFacts DEF WakeAll, Leading
<1>2. /\ Arrivals(g) = Clusters
      /\ \A d \in Clusters : /\ Passed(d) = g
                             /\ PollingCall(d) <=> g \in Polls
                             /\ d # c => pc[d][DM] = "poll" \/ pc[d][DM] \in {"wfi", "blocked"}
                             /\ d # c => pc[d][DM] \notin Leading
  BY <1>1, LeaderAlone DEF Leading
<1>3. g \notin Polls
  BY <1>1, <1>2 DEF GlobalInv, InStep
<1>4. \A d \in Clusters : d # c => pc[d][DM] \in {"wfi", "blocked"}
  BY <1>2, <1>3 DEF GlobalInv, InStep
<1>5. UNCHANGED <<global_barrier_mutex, global_barrier_query, barrier, barrier_iter, prev_iteration>>
  BY DEF WakeAll
<1>6. wakes' = Waits(g + 1)
  BY <1>3, WaitsNext DEF WakeAll, GlobalInv
<1>7. ASSUME NEW d \in Clusters PROVE InStep(d, g + 1)' /\ Remembered(d, g + 1)'
  BY <1>1, <1>2, <1>3, <1>4, <1>5 DEF InStep, Remembered
<1>8. ASSUME NEW d \in Clusters PROVE Woken(d, g + 1)'
  <2>1. InFlight(d) = {} /\ global_barrier_mutex[d] = 0
    <3>1. ~Owed(d, g)
      BY <1>2 DEF Owed
    <3>2. global_barrier_mutex[d] + (IF InFlight(d) = {} THEN 0 ELSE 1) = 0
      BY <3>1 DEF GlobalInv, Woken
    <3>3. global_barrier_mutex[d] \in {0, 1}
      BY GlobalTypes
    <3> QED BY <3>2, <3>3
  <2>2. InFlight(d)' = {c}
    <3>1. \A s \in Clusters : d \in wakeup'[s] <=> s = c \/ d \in wakeup[s]
      BY DEF WakeAll, SendWakeup, TypeOK, RegistersType
    <3> QED BY <3>1, <2>1 DEF InFlight
  <2>3. Owed(d, g + 1)'
    BY <1>1, <1>2, <1>3 DEF Owed
  <2>4. global_barrier_query[d] = IF pc[d][DM] = "blocked" THEN DM ELSE NULL
    BY DEF GlobalInv, Woken
  <2>5. global_barrier_query'[d] = IF pc'[d][DM] = "blocked" THEN DM ELSE NULL
    BY <1>1, <1>5, <2>4
  <2> QED BY <1>5, <2>1, <2>2, <2>3, <2>5 DEF Woken
<1>9. Counts(g + 1)'
  <2>1. \A d \in Clusters : pc'[d][DM] \notin Leading
    BY <1>1, <1>2 DEF Leading
  <2>2. \A d \in Clusters : ~Arrived(d, g + 1)'
    BY <1>1, <1>2 DEF Arrived
  <2>3. barrier' = 0
    BY <1>1, <1>2, <1>5 DEF GlobalInv, Counts, Leading
  <2> QED BY <2>1, <2>2, <2>3, Emptied
<1> QED BY <1>6, <1>7, <1>8, <1>9 DEF GlobalInv

\* The leader of a polling call advances the iteration word, and is the first
\* to have passed the barrier.
LEMMA GlobalIterate ==
  ASSUME TypeOK, NEW g \in Nat, GlobalInv(g), NEW c \in Clusters, Iterate(c)
  PROVE  GlobalInv(g + 1)'
<1>1. /\ pc[c][DM] = "iterate"
      /\ \A d \in Clusters :
           /\ pc'[d][DM] = IF d = c THEN "sync2" ELSE pc[d][DM]
           /\ Passed(d)' = IF d = c THEN Passed(d) + 1 ELSE Passed(d)
           /\ PollingCall(d)' <=> PollingCall(d)
  BY LastStep, LabelFacts DEF Iterate, Leading
<1>2. /\ Arrivals(g) = Clusters
      /\ \A d \in Clusters : /\ Passed(d) = g
                             /\ PollingCall(d) <=> g \in Polls
                             /\ d # c => pc[d][DM] = "poll" \/ pc[d][DM] \in {"wfi", "blocked"}
                             /\ d # c => pc[d][DM] \notin Leading
  BY <1>1, LeaderAlone DEF Leading
<1>3. g \in Polls
  BY <1>1, <1>2 DEF GlobalInv, InStep
<1>4. \A d \in Clusters : d # c => pc[d][DM] = "poll"
  BY <1>2, <1>3 DEF GlobalInv, InStep
<1>5. UNCHANGED <<registers, barrier, prev_iteration, wakes>> /\ barrier_iter' = Iterated(barrier_iter)
  BY DEF Iterate, Iterated
<1>6. wakes' = Waits(g + 1)
  BY <1>3, <1>5, WaitsNext DEF GlobalInv
<1>7. ASSUME NEW d \in Clusters PROVE InStep(d, g + 1)' /\ Remembered(d, g + 1)'
  BY <1>1, <1>2, <1>3, <1>4, <1>5 DEF GlobalInv, InStep, Remembered
<1>8. ASSUME NEW d \in Clusters PROVE Woken(d, g + 1)'
  <2>1. ~Owed(d, g) /\ ~Owed(d, g + 1)'
    BY <1>1, <1>2, <1>3 DEF Owed
  <2>2. InFlight(d)' = InFlight(d)
    BY <1>5 DEF InFlight, registers
  <2>3. pc'[d][DM] = "blocked" <=> pc[d][DM] = "blocked"
    BY <1>1
  <2> QED BY <1>5, <2>1, <2>2, <2>3 DEF GlobalInv, Woken, registers
<1>9. Counts(g + 1)'
  <2>1. \A d \in Clusters : pc'[d][DM] \notin Leading
    BY <1>1, <1>2 DEF Leading
  <2>2. \A d \in Clusters : ~Arrived(d, g + 1)'
    BY <1>1, <1>2 DEF Arrived, Leading
  <2>3. barrier' = 0
    BY <1>1, <1>2, <1>5 DEF GlobalInv, Counts, Leading
  <2> QED BY <2>1, <2>2, <2>3, Emptied
<1> QED BY <1>6, <1>7, <1>8, <1>9 DEF GlobalInv

\* A cluster that sees the word changed was counted in a barrier that has ended.
LEMMA GlobalPoll ==
  ASSUME TypeOK, NEW g \in Nat, GlobalInv(g), NEW c \in Clusters, Poll(c)
  PROVE  GlobalInv(g)'
<1>1. /\ pc[c][DM] = "poll"
      /\ \A d \in Clusters :
           /\ pc'[d][DM] = IF d = c THEN "sync2" ELSE pc[d][DM]
           /\ Passed(d)' = IF d = c THEN Passed(d) + 1 ELSE Passed(d)
           /\ PollingCall(d)' <=> PollingCall(d)
  BY LastStep, LabelFacts DEF Poll
<1>2. UNCHANGED <<registers, barrier, barrier_iter, prev_iteration, wakes>>
  BY DEF Poll, words
<1>3. Passed(c) = g - 1 /\ PollingCall(c)
  BY <1>1 DEF Poll, GlobalInv, InStep, Remembered
<1>4. \A d \in Clusters : /\ Arrived(d, g)' <=> Arrived(d, g)
                          /\ Owed(d, g)' <=> Owed(d, g)
                          /\ pc'[d][DM] = "blocked" <=> pc[d][DM] = "blocked"
                          /\ \/ pc'[d][DM] = pc[d][DM]
                             \/ {pc[d][DM], pc'[d][DM]} \cap Leading = {}
  BY <1>1, <1>3 DEF Arrived, Owed, Leading
<1>5. ASSUME NEW d \in Clusters PROVE InStep(d, g)' /\ Remembered(d, g)'
  BY <1>1, <1>2, <1>3 DEF GlobalInv, InStep, Remembered
<1> QED BY <1>2, <1>4, <1>5, CountsFrame, WokenFrame DEF GlobalInv

\* What the invariant says of one cluster's wait, in numbers.
LEMMA WaitFacts ==
  ASSUME TypeOK, NEW g \in Nat, GlobalInv(g), NEW c \in Clusters
  PROVE  /\ global_barrier_mutex[c] = 1 => Owed(c, g) /\ InFlight(c) = {}
         /\ InFlight(c) # {} => Owed(c, g) /\ global_barrier_mutex[c] = 0
         /\ Owed(c, g) => pc[c][DM] \in {"wfi", "blocked"} /\ Passed(c) = g - 1
<1>1. /\ global_barrier_mutex[c] + (IF InFlight(c) = {} THEN 0 ELSE 1)
           = IF Owed(c, g) THEN 1 ELSE 0
      /\ global_barrier_mutex[c] \in {0, 1}
  BY GlobalTypes DEF GlobalInv, Woken
<1>2. Owed(c, g) => pc[c][DM] \in {"wfi", "blocked"} /\ Passed(c) = g - 1
  BY GlobalTypes DEF GlobalInv, InStep, Owed
<1> QED BY <1>1, <1>2

\* A data mover stores to the wait-for-wakeup register: the wake-up that came
\* early lets it pass, or it is held.
LEMMA GlobalWfi ==
  ASSUME TypeOK, NEW g \in Nat, GlobalInv(g), NEW c \in Clusters, Wfi(c)
  PROVE  GlobalInv(g)'
<1> DEFINE to == IF WaitPends(c) THEN "blocked" ELSE "sync2"
<1>1. /\ pc[c][DM] = "wfi"
      /\ \A d \in Clusters :
           /\ pc'[d][DM] = IF d = c THEN to ELSE pc[d][DM]
           /\ Passed(d)' = IF d = c /\ ~WaitPends(c) THEN Passed(d) + 1 ELSE Passed(d)
           /\ PollingCall(d)' <=> PollingCall(d)
  <2>1. CASE WaitPends(c)
    BY <2>1, WorkStep, LabelFacts DEF Wfi
  <2>2. CASE ~WaitPends(c)
    BY <2>2, LastStep, LabelFacts DEF Wfi
  <2> QED BY <2>1, <2>2
<1>2. UNCHANGED <<wakeup, barrier, barrier_iter, prev_iteration, wakes>>
  BY DEF Wfi, words
<1>3. /\ \A d \in Clusters : d # c =>
           /\ global_barrier_mutex'[d] = global_barrier_mutex[d]
           /\ global_barrier_query'[d] = global_barrier_query[d]
      /\ global_barrier_query[c] = NULL
      /\ global_barrier_mutex'[c] = 0
      /\ global_barrier_query'[c] = IF WaitPends(c) THEN DM ELSE NULL
  <2>1. global_barrier_query[c] = NULL
    BY <1>1 DEF GlobalInv, Woken
  <2> QED BY <2>1 DEF Wfi, WaitForWakeup, TypeOK, RegistersType
<1>4. /\ WaitPends(c) => global_barrier_mutex[c] = 0
      /\ ~WaitPends(c) => /\ global_barrier_mutex[c] = 1
                          /\ Owed(c, g) /\ InFlight(c) = {} /\ Passed(c) = g - 1
  BY <1>3, GlobalTypes, WaitFacts DEF WaitPends
<1>5. \A d \in Clusters : /\ Arrived(d, g)' <=> Arrived(d, g)
                          /\ \/ pc'[d][DM] = pc[d][DM]
                             \/ {pc[d][DM], pc'[d][DM]} \cap Leading = {}
  BY <1>1, <1>4 DEF Arrived, Leading
<1>6. ASSUME NEW d \in Clusters PROVE InStep(d, g)' /\ Remembered(d, g)'
  BY <1>1, <1>2, <1>4 DEF GlobalInv, InStep, Remembered
<1>7. ASSUME NEW d \in Clusters PROVE Woken(d, g)'
  <2>1. InFlight(d)' = InFlight(d) /\ \A s, t \in InFlight(d) : s = t
    BY <1>2 DEF InFlight, GlobalInv, Woken
  <2>2. CASE d # c
    BY <1>1, <1>3, <2>1, <2>2 DEF GlobalInv, Woken, Owed
  <2>3. CASE d = c /\ WaitPends(c)
    <3>1. Owed(c, g)' <=> Owed(c, g)
      BY <1>1, <2>3 DEF Owed
    <3> QED BY <1>1, <1>3, <1>4, <2>1, <2>3, <3>1 DEF GlobalInv, Woken
  <2>4. CASE d = c /\ ~WaitPends(c)
    <3>1. ~Owed(c, g)'
      BY <1>1, <1>4, <2>4 DEF Owed
    <3> QED BY <1>1, <1>3, <1>4, <2>1, <2>4, <3>1 DEF Woken
  <2> QED BY <2>2, <2>3, <2>4
<1> QED BY <1>2, <1>5, <1>6, <1>7, CountsFrame DEF GlobalInv

\* What the arrival of a wake-up does to the labels: it releases the data mover
\* that is held, and no other core.
LEMMA DeliverGoto ==
  ASSUME TypeOK, NEW g \in Nat, GlobalInv(g), NEW s \in Clusters, NEW c \in Clusters,
         DeliverWakeup(s, c)
  PROVE  IF pc[c][DM] = "blocked"
         THEN Goto(c, "blocked", "sync2")
         ELSE UNCHANGED <<pc, barrier_status, entered, left>>
<1> DEFINE released == [k \in Cores |->
                          IF k = global_barrier_query[c] THEN "sync2" ELSE pc[c][k]]
<1>1. pc' = [pc EXCEPT ![c] = released] /\ UNCHANGED <<barrier_status, entered, left>>
  BY DEF DeliverWakeup
<1>2. global_barrier_query[c] = IF pc[c][DM] = "blocked" THEN DM ELSE NULL
  BY DEF GlobalInv, Woken
<1>3. pc \in [Clusters -> [Cores -> Labels]]
  BY DEF TypeOK, CoresType
<1>4. CASE pc[c][DM] = "blocked"
  <2>1. released = [pc[c] EXCEPT ![DM] = "sync2"]
    BY <1>2, <1>3, <1>4
  <2> QED BY <1>1, <1>3, <1>4, <2>1 DEF Goto
<1>5. CASE pc[c][DM] # "blocked"
  <2>1. released = pc[c]
    BY <1>2, <1>3, <1>5
  <2> QED BY <1>1, <1>3, <1>5, <2>1
<1> QED BY <1>4, <1>5

LEMMA GlobalDeliver ==
  ASSUME TypeOK, NEW g \in Nat, GlobalInv(g), NEW s \in Clusters, NEW c \in Clusters,
         DeliverWakeup(s, c)
  PROVE  GlobalInv(g)'
<1>1. UNCHANGED <<barrier, barrier_iter, prev_iteration, wakes>>
  BY DEF DeliverWakeup, words
<1>2. /\ Owed(c, g) /\ global_barrier_mutex[c] = 0 /\ s \in InFlight(c)
      /\ pc[c][DM] \in {"wfi", "blocked"} /\ Passed(c) = g - 1
  <2>1. s \in InFlight(c)
    BY DEF DeliverWakeup, GlobalBarrierSync, InFlight
  <2> QED BY <2>1, WaitFacts
<1>3. \A d \in Clusters :
        /\ pc'[d][DM] = IF d = c /\ pc[c][DM] = "blocked" THEN "sync2" ELSE pc[d][DM]
        /\ Passed(d)' = IF d = c /\ pc[c][DM] = "blocked" THEN Passed(d) + 1 ELSE Passed(d)
        /\ PollingCall(d)' <=> PollingCall(d)
  <2>1. CASE pc[c][DM] = "blocked"
    BY <2>1, DeliverGoto, LastStep, LabelFacts
  <2>2. CASE pc[c][DM] # "blocked"
    BY <2>2, DeliverGoto DEF Passed, PollingCall
  <2> QED BY <2>1, <2>2
<1>4. /\ \A d \in Clusters : d # c =>
           /\ global_barrier_mutex'[d] = global_barrier_mutex[d]
           /\ global_barrier_query'[d] = global_barrier_query[d]
           /\ InFlight(d)' = InFlight(d)
      /\ global_barrier_mutex'[c] = IF pc[c][DM] = "blocked" THEN 0 ELSE 1
      /\ global_barrier_query'[c] = NULL
      /\ InFlight(c)' = InFlight(c) \ {s}
  <2>1. global_barrier_query[c] = IF pc[c][DM] = "blocked" THEN DM ELSE NULL
    BY DEF GlobalInv, Woken
  <2>2. wakeup' = [wakeup EXCEPT ![s] = @ \ {c}] /\ wakeup \in [Clusters -> SUBSET Clusters]
    BY DEF DeliverWakeup, GlobalBarrierSync, TypeOK, RegistersType
  <2>3. InFlight(c)' = InFlight(c) \ {s} /\ \A d \in Clusters : d # c => InFlight(d)' = InFlight(d)
    BY <2>2 DEF InFlight
  <2>4. /\ global_barrier_mutex' = [global_barrier_mutex EXCEPT ![c] =
                                      IF global_barrier_query[c] = NULL THEN 1 ELSE 0]
        /\ global_barrier_query' = [global_barrier_query EXCEPT ![c] = NULL]
        /\ global_barrier_mutex \in [Clusters -> {0, 1}]
        /\ global_barrier_query \in [Clusters -> Cores \cup {NULL}]
    BY DEF DeliverWakeup, GlobalBarrierSync, TypeOK, RegistersType
  <2> QED BY <2>1, <2>3, <2>4
<1>5. InFlight(c)' = {}
  BY <1>2, <1>4 DEF GlobalInv, Woken
<1>6. \A d \in Clusters : /\ Arrived(d, g)' <=> Arrived(d, g)
                          /\ \/ pc'[d][DM] = pc[d][DM]
                             \/ {pc[d][DM], pc'[d][DM]} \cap Leading = {}
  BY <1>2, <1>3 DEF Arrived, Leading
<1>7. ASSUME NEW d \in Clusters PROVE InStep(d, g)' /\ Remembered(d, g)'
  BY <1>1, <1>2, <1>3 DEF GlobalInv, InStep, Remembered
<1>8. ASSUME NEW d \in Clusters PROVE Woken(d, g)'
  <2>1. CASE d # c
    BY <1>3, <1>4, <2>1 DEF GlobalInv, Woken, Owed
  <2>2. CASE d = c /\ pc[c][DM] = "blocked"
    <3>1. ~Owed(c, g)'
      BY <1>2, <1>3, <2>2 DEF Owed
    <3> QED BY <1>3, <1>4, <1>5, <2>2, <3>1 DEF Woken
  <2>3. CASE d = c /\ pc[c][DM] # "blocked"
    <3>1. Owed(c, g)'
      BY <1>2, <1>3, <2>3 DEF Owed
    <3> QED BY <1>2, <1>3, <1>4, <1>5, <2>3, <3>1 DEF Woken
  <2> QED BY <2>1, <2>2, <2>3
<1> QED BY <1>1, <1>6, <1>7, <1>8, CountsFrame DEF GlobalInv

\* The first label of the data mover's work in the next call of core k of c.
Start(c, k) == IF entered[<<c, k>>] + 1 \in Polls THEN "read" ELSE "amo"

LEMMA CallParts ==
  ASSUME NEW c \in Clusters, NEW k \in Cores, CoreStep(c, k)
  PROVE  \E start \in {"read", "amo"} :
           /\ CallStep(c, k, start) /\ WorkLabel(start) /\ start \in Labels
           /\ EnterCall(c, k, start) => start = Start(c, k)
           /\ UNCHANGED <<registers, words>>
<1>1. CASE Enter(c, k)
  BY <1>1, LabelFacts DEF Enter, CallStep, Start
<1>2. CASE SecondSync(c, k)
  BY <1>2, LabelFacts DEF SecondSync, CallStep, EnterCall, LeaveCall
<1> QED BY <1>1, <1>2 DEF CoreStep

LEMMA GlobalCall ==
  ASSUME TypeOK, SyncInv, NEW g \in Nat, GlobalInv(g),
         NEW c \in Clusters, NEW k \in Cores, CoreStep(c, k)
  PROVE  GlobalInv(g)'
<1>1. PICK start \in {"read", "amo"} :
        /\ CallStep(c, k, start) /\ WorkLabel(start)
        /\ EnterCall(c, k, start) => start = Start(c, k)
        /\ UNCHANGED <<registers, words>>
  BY CallParts
<1>2. ASSUME NEW d \in Clusters
      PROVE  /\ Passed(d)' = Passed(d)
             /\ \/ /\ pc'[d][DM] = pc[d][DM]
                   /\ PollingCall(d)' <=> PollingCall(d)
                \/ {pc[d][DM], pc'[d][DM]} \subseteq WorkerLabels
                \/ /\ pc[d][DM] \in WorkerLabels /\ pc'[d][DM] = start
                   /\ PollingCall(d)' <=> start = "read"
  <2>1. CoresType(Labels)
    BY DEF TypeOK
  <2>2. /\ Passed(d)' = Passed(d)
        /\ \/ pc'[d][DM] = pc[d][DM] /\ entered'[<<d, DM>>] = entered[<<d, DM>>]
           \/ {pc[d][DM], pc'[d][DM]} \subseteq WorkerLabels
           \/ /\ pc[d][DM] \in WorkerLabels /\ pc'[d][DM] = start
              /\ EnterCall(c, k, start)
              /\ entered'[<<d, DM>>] = entered[<<c, k>>] + 1
    BY <1>1, <2>1, PassedCall
  <2> QED BY <1>1, <2>2 DEF PollingCall, Start
<1>3. UNCHANGED <<barrier, barrier_iter, prev_iteration, wakes>>
  BY <1>1 DEF words
<1>4. \A d \in Clusters : pc[d][DM] \in WorkerLabels => Passed(d) = g
  BY DEF GlobalInv, InStep, WorkerLabels
<1>5. ASSUME NEW d \in Clusters
      PROVE  /\ Arrived(d, g)' <=> Arrived(d, g)
             /\ Owed(d, g)' <=> Owed(d, g)
             /\ pc'[d][DM] = "blocked" <=> pc[d][DM] = "blocked"
             /\ \/ pc'[d][DM] = pc[d][DM]
                \/ {pc[d][DM], pc'[d][DM]} \cap Leading = {}
  BY <1>1, <1>2, <1>4 DEF Arrived, Owed, Leading, WorkerLabels
<1>6. ASSUME NEW d \in Clusters PROVE InStep(d, g)' /\ Remembered(d, g)'
  BY <1>1, <1>2, <1>3, <1>4 DEF GlobalInv, InStep, Remembered, WorkerLabels
<1> QED BY <1>1, <1>3, <1>5, <1>6, CountsFrame, WokenFrame DEF GlobalInv

-----------------------------------------------------------------------------
(* The inductive invariant. *)

LEMMA TypeInit == Init => TypeOK
<1> SUFFICES ASSUME Init PROVE TypeOK
  OBVIOUS
<1>1. RegistersType
  BY DEF Init, RegistersInit, RegistersType
<1>2. CoresType(Labels)
  BY DEF Init, RegistersInit, CoresType, Labels, WorkerLabels
<1>3. 0 \in Iterations
  BY DEF Iterations
<1> QED BY <1>1, <1>2, <1>3 DEF Init, TypeOK

LEMMA SyncInit == Init => SyncInv
<1> SUFFICES ASSUME Init, NEW c \in Clusters, NEW k \in Cores
             PROVE  /\ Syncs(c, k) = Syncs(c, DM)
                    /\ k \in barrier_status[c] <=> pc[c][k] \in {"wait1", "wait2"}
                    /\ k # DM => pc[c][k] \in WorkerLabels
                    /\ pc[c][k] = "wait1" => entered[<<c, k>>] > 0
                    /\ left[<<c, k>>] = IF pc[c][k] = "work" \/ entered[<<c, k>>] = 0
                                        THEN entered[<<c, k>>] ELSE entered[<<c, k>>] - 1
  BY DEF SyncInv
<1> QED BY DEF Init, Participants, Syncs, WorkerLabels

LEMMA GlobalInit == Init => GlobalInv(0)
<1> SUFFICES ASSUME Init PROVE GlobalInv(0)
  OBVIOUS
<1>1. \A c \in Clusters : /\ pc[c][DM] = IF c = Cluster0 THEN "init" ELSE "wfi"
                          /\ entered[<<c, DM>>] = 0 /\ Passed(c) = 0
                          /\ ~PollingCall(c)
  BY DEF Init, Participants, Passed, PollingCall
<1>2. \A c \in Clusters : InStep(c, 0) /\ Remembered(c, 0)
  BY <1>1 DEF InStep, Remembered
<1>3. ASSUME NEW c \in Clusters PROVE Woken(c, 0)
  <2>1. /\ InFlight(c) = {} /\ global_barrier_mutex[c] = 0
        /\ global_barrier_query[c] = NULL
    BY DEF Init, RegistersInit, InFlight
  <2>2. ~Owed(c, 0)
    <3>1. Passed(c) = 0
      BY <1>1
    <3> QED BY <3>1 DEF Owed
  <2>3. pc[c][DM] # "blocked"
    BY <1>1
  <2> QED BY <2>1, <2>2, <2>3 DEF Woken
<1>4. Counts(0)
  <2>1. Arrivals(0) = Clusters
    BY <1>1 DEF Arrivals, Arrived, Leading
  <2>2. Cluster0 \in Clusters
    BY Cluster0InMesh
  <2> QED BY <1>1, <2>1, <2>2 DEF Counts, Leading
<1>5. wakes = Waits(0)
  BY WaitsNext DEF Init
<1> QED BY <1>2, <1>3, <1>4, <1>5 DEF GlobalInv

\* Every step of a data mover is a move of its program counter, and a delivery
\* is one or none.
LEMMA StepGoto ==
  ASSUME TypeOK, NEW g \in Nat, GlobalInv(g), Next,
         ~\E c \in Clusters, k \in Cores : CoreStep(c, k)
  PROVE  \/ UNCHANGED <<pc, barrier_status, entered, left>>
         \/ \E c \in Clusters : \E from, to \in Labels \ {"work", "wait1", "wait2"} :
              Goto(c, from, to)
<1>1. {"init", "read", "amo", "reset", "wake", "wfi", "blocked", "iterate", "poll", "sync2"}
        \subseteq Labels \ {"work", "wait1", "wait2"}
  BY DEF Labels, WorkerLabels
<1>2. CASE InitReset
  BY <1>1, <1>2, Cluster0InMesh DEF InitReset
<1>3. ASSUME NEW c \in Clusters, DMStep(c)
      PROVE  \E from, to \in Labels \ {"work", "wait1", "wait2"} : Goto(c, from, to)
  BY <1>1, <1>3 DEF DMStep, Read, Amo, Reset, WakeAll, Wfi, Iterate, Poll
<1>4. ASSUME NEW s \in Clusters, NEW c \in Clusters, DeliverWakeup(s, c)
      PROVE  \/ UNCHANGED <<pc, barrier_status, entered, left>>
             \/ \E from, to \in Labels \ {"work", "wait1", "wait2"} : Goto(c, from, to)
  BY <1>1, <1>4, DeliverGoto
<1>5. CASE Terminating
  BY <1>5 DEF Terminating, vars
<1> QED BY <1>2, <1>3, <1>4, <1>5 DEF Next

LEMMA CoresNext ==
  ASSUME TypeOK, SyncInv, NEW g \in Nat, GlobalInv(g), Next
  PROVE  CoresType(Labels)' /\ SyncInv'
<1>0. CoresType(Labels) /\ WorkerLabels \subseteq Labels
  BY LabelFacts DEF TypeOK
<1>1. ASSUME NEW c \in Clusters, NEW k \in Cores, CoreStep(c, k)
      PROVE  CoresType(Labels)' /\ SyncInv'
  <2>1. PICK start \in {"read", "amo"} :
          CallStep(c, k, start) /\ WorkLabel(start) /\ start \in Labels
    BY <1>1, CallParts
  <2> QED BY <1>0, <2>1, CallStepType, SyncInvCall
<1>2. ASSUME NEW c \in Clusters, NEW from \in Labels \ {"work", "wait1", "wait2"},
             NEW to \in Labels \ {"work", "wait1", "wait2"}, Goto(c, from, to)
      PROVE  CoresType(Labels)' /\ SyncInv'
  BY <1>0, <1>2, CoresGotoType, SyncInvGoto
<1>3. CASE UNCHANGED <<pc, barrier_status, entered, left>>
  BY <1>0, <1>3 DEF CoresType, SyncInv, Syncs
<1> QED BY <1>1, <1>2, <1>3, StepGoto

LEMMA TypeNext ==
  ASSUME TypeOK, SyncInv, NEW g \in Nat, GlobalInv(g), Next
  PROVE  TypeOK'
<1>1. CoresType(Labels)'
  BY CoresNext
<1>2. CASE InitReset
  BY <1>1, <1>2 DEF InitReset, TypeOK, RegistersType, registers
<1>3. ASSUME NEW c \in Clusters, DMStep(c) PROVE TypeOK'
  <2>1. Iterated(barrier_iter) \in Iterations
    BY IteratedChanges DEF TypeOK
  <2>2. CASE Read(c)
    BY <1>1, <2>2 DEF Read, TypeOK, RegistersType, registers
  <2>3. CASE Amo(c)
    BY <1>1, <2>3, GlobalAmo DEF Amo, TypeOK, RegistersType, registers
  <2>4. CASE Reset(c)
    BY <1>1, <2>4 DEF Reset, TypeOK, RegistersType, registers
  <2>5. CASE WakeAll(c)
    BY <1>1, <2>5 DEF WakeAll, SendWakeup, TypeOK, RegistersType
  <2>6. CASE Wfi(c)
    BY <1>1, <2>6 DEF Wfi, WaitForWakeup, TypeOK, RegistersType, words
  <2>7. CASE Iterate(c)
    BY <1>1, <2>1, <2>7 DEF Iterate, Iterated, TypeOK, RegistersType, registers
  <2>8. CASE Poll(c)
    BY <1>1, <2>8 DEF Poll, TypeOK, RegistersType, registers, words
  <2> QED BY <1>3, <2>2, <2>3, <2>4, <2>5, <2>6, <2>7, <2>8 DEF DMStep
<1>4. ASSUME NEW c \in Clusters, NEW k \in Cores, CoreStep(c, k) PROVE TypeOK'
  <2>1. UNCHANGED <<registers, words>>
    BY <1>4, CallParts
  <2> QED BY <1>1, <2>1 DEF TypeOK, RegistersType, registers, words
<1>5. ASSUME NEW s \in Clusters, NEW c \in Clusters, DeliverWakeup(s, c) PROVE TypeOK'
  BY <1>1, <1>5 DEF DeliverWakeup, GlobalBarrierSync, TypeOK, RegistersType, words
<1>6. CASE Terminating
  BY <1>1, <1>6 DEF Terminating, vars, TypeOK, RegistersType, registers, words
<1> QED BY <1>2, <1>3, <1>4, <1>5, <1>6 DEF Next

LEMMA GlobalStutter ==
  ASSUME TypeOK, NEW g \in Nat, GlobalInv(g), UNCHANGED vars
  PROVE  GlobalInv(g)'
<1>1. UNCHANGED <<registers, barrier, barrier_iter, prev_iteration, wakes, pc, entered>>
  BY DEF vars, words
<1>2. \A d \in Clusters : /\ Arrived(d, g)' <=> Arrived(d, g)
                          /\ Owed(d, g)' <=> Owed(d, g)
                          /\ pc'[d] = pc[d]
  BY <1>1 DEF Arrived, Owed, Passed, PollingCall
<1>3. \A d \in Clusters : InStep(d, g)' /\ Remembered(d, g)'
  BY <1>1 DEF GlobalInv, InStep, Remembered, Passed, PollingCall
<1> QED BY <1>1, <1>2, <1>3, CountsFrame, WokenFrame DEF GlobalInv

LEMMA GlobalNext ==
  ASSUME TypeOK, SyncInv, NEW g \in Nat, GlobalInv(g), Next
  PROVE  \E h \in Nat : GlobalInv(h)'
<1>1. g + 1 \in Nat
  OBVIOUS
<1>2. ASSUME NEW c \in Clusters, DMStep(c) PROVE GlobalInv(g)' \/ GlobalInv(g + 1)'
  BY <1>2, GlobalRead, GlobalAmo, GlobalReset, GlobalWakeAll, GlobalWfi, GlobalIterate,
     GlobalPoll DEF DMStep
<1>3. CASE Terminating
  BY <1>3, GlobalStutter DEF Terminating
<1>4. InitReset => GlobalInv(g)'
  BY GlobalInitReset
<1>5. ASSUME NEW c \in Clusters, NEW k \in Cores, CoreStep(c, k) PROVE GlobalInv(g)'
  BY <1>5, GlobalCall
<1>6. ASSUME NEW s \in Clusters, NEW c \in Clusters, DeliverWakeup(s, c) PROVE GlobalInv(g)'
  BY <1>6, GlobalDeliver
<1> QED BY <1>1, <1>2, <1>3, <1>4, <1>5, <1>6 DEF Next

LEMMA IInvInit == Init => IInv
  BY TypeInit, SyncInit, GlobalInit DEF IInv

LEMMA IInvNext == IInv /\ [Next]_vars => IInv'
<1> SUFFICES ASSUME IInv, [Next]_vars PROVE IInv'
  OBVIOUS
<1>1. PICK g \in Nat : GlobalInv(g)
  BY DEF IInv
<1>2. CASE Next
  BY <1>1, <1>2, TypeNext, CoresNext, GlobalNext DEF IInv
<1>3. CASE UNCHANGED vars
  <2>1. TypeOK' /\ SyncInv'
    BY <1>3 DEF IInv, vars, TypeOK, CoresType, RegistersType, SyncInv, Syncs, registers, words
  <2> QED BY <1>1, <1>3, <2>1, GlobalStutter DEF IInv
<1> QED BY <1>2, <1>3

\* The inductive invariant holds throughout.
THEOREM Invariance == Spec => []IInv
  BY IInvInit, IInvNext, PTL DEF Spec

-----------------------------------------------------------------------------
(* What follows. *)

\* Every variable keeps its type, whatever the mesh and the calls.
THEOREM TypeCorrect == Spec => []TypeOK
<1>1. IInv => TypeOK
  BY DEF IInv
<1> QED BY <1>1, Invariance, PTL

\* Each broadcast is, for each cluster, consumed once, kept as the token or on
\* its way, however the program mixes waiting and polling calls.
THEOREM WakeupsCorrect == Spec => []WakeupsConserved
<1>1. IInv => WakeupsConserved
  <2> SUFFICES ASSUME IInv, NEW g \in Nat, GlobalInv(g), NEW c \in Clusters
               PROVE  /\ \A s, t \in InFlight(c) : s = t
                      /\ wakes = Consumed(c) + global_barrier_mutex[c]
                                   + (IF InFlight(c) = {} THEN 0 ELSE 1)
    BY DEF IInv, WakeupsConserved
  <2>1. /\ \A s, t \in InFlight(c) : s = t
        /\ global_barrier_mutex[c] + (IF InFlight(c) = {} THEN 0 ELSE 1)
             = IF Owed(c, g) THEN 1 ELSE 0
        /\ wakes = Waits(g)
    BY DEF GlobalInv, Woken
  <2>2. Consumed(c) = Waits(Passed(c)) /\ Passed(c) \in Nat
    BY ConsumedWaits, GlobalTypes DEF IInv
  <2>3. global_barrier_mutex[c] \in {0, 1}
    BY GlobalTypes DEF IInv
  <2>4. Waits(g) = Waits(Passed(c)) + IF Owed(c, g) THEN 1 ELSE 0
    <3>1. CASE Passed(c) = g
      BY <3>1, WaitsNext DEF Owed
    <3>2. CASE Passed(c) = g - 1
      <4>1. PollingCall(c) <=> Passed(c) \in Polls
        BY <3>2 DEF GlobalInv, InStep, Passed, PollingCall
      <4>2. Waits(Passed(c) + 1) = Waits(Passed(c)) + (IF Passed(c) \in Polls THEN 0 ELSE 1)
        BY <2>2, WaitsNext
      <4>3. Passed(c) + 1 = g
        BY <2>2, <3>2
      <4> QED BY <3>2, <4>1, <4>2, <4>3 DEF Owed
    <3> QED BY <3>1, <3>2 DEF GlobalInv, InStep
  <2>5. Waits(Passed(c)) \in Nat
    BY <2>2, WaitsNext
  <2> QED BY <2>1, <2>2, <2>3, <2>4, <2>5
<1> QED BY <1>1, Invariance, PTL

\* Clearing the counter loses no arrival of the next call, whichever its kind.
THEOREM ResetsCorrect == Spec => []ResetLosesNobody
<1>1. IInv => ResetLosesNobody
  <2> SUFFICES ASSUME IInv, NEW g \in Nat, GlobalInv(g),
                      NEW c \in Clusters, pc[c][DM] = "reset"
               PROVE  barrier = NumClusters
    BY DEF IInv, ResetLosesNobody
  <2>1. /\ Arrivals(g) = Clusters
        /\ \A d \in Clusters : d # c => pc[d][DM] \notin Leading
    BY LeaderAlone DEF IInv, Leading
  <2>2. barrier = Cardinality(Clusters)
    BY <2>1 DEF GlobalInv, Counts, Leading
  <2> QED BY <2>2, MeshSize DEF NumClusters
<1> QED BY <1>1, Invariance, PTL

\* No cluster is past a barrier that some core has still to enter.
LEMMA NobodyIsAhead == IInv => NobodyAhead
<1> SUFFICES ASSUME IInv, NEW g \in Nat, GlobalInv(g),
                    NEW c \in Clusters, NEW d \in Clusters, NEW j \in Cores
             PROVE  Passed(c) <= entered[<<d, j>>] + 1
  BY DEF IInv, NobodyAhead
<1>1. Passed(c) \in Nat /\ Passed(d) \in Nat /\ entered[<<d, j>>] \in Nat
  BY GlobalTypes, EnteredNat DEF IInv, TypeOK
<1>2. Passed(c) <= g
  BY <1>1 DEF GlobalInv, InStep
<1>3. /\ Passed(d) <= entered[<<d, j>>] + 1
      /\ WorkLabel(pc[d][DM]) => Passed(d) = entered[<<d, j>>]
  BY PassedBounds DEF IInv, TypeOK
<1>4. CASE Passed(d) = g
  BY <1>1, <1>2, <1>3, <1>4
<1>5. CASE Passed(d) = g - 1 /\ pc[d][DM] \in {"wfi", "blocked", "poll"}
  <2>1. WorkLabel(pc[d][DM])
    BY <1>5, LabelFacts
  <2> QED BY <1>1, <1>2, <1>3, <1>5, <2>1
<1> QED BY <1>4, <1>5 DEF GlobalInv, InStep

\* No core returns from its n-th barrier, of either kind, before every core of
\* every cluster has called its n-th.
THEOREM BarrierCorrect == Spec => []BarrierSafety
<1>1. IInv => BarrierSafety
  BY NobodyIsAhead, NobodyAheadIsSafe DEF IInv, TypeOK, BarrierSafety
<1> QED BY <1>1, Invariance, PTL

AbstractStep == [AbstractBarrier!Next]_(AbstractBarrier!vars)

\* The two barriers, mixed as a program likes, implement the abstract one, its
\* liveness apart.
THEOREM BarrierRefinement == Spec => AbstractBarrier!SafeSpec
<1>1. Init => AbstractBarrier!Init
  BY DEF Init, AbstractBarrier!Init
<1>2. IInv /\ [Next]_vars => AbstractStep
  <2> SUFFICES ASSUME IInv, [Next]_vars PROVE AbstractStep
    OBVIOUS
  <2>0. CoresType(Labels) /\ WorkerLabels \subseteq Labels /\ {"read", "amo"} \subseteq Labels
    BY LabelFacts DEF IInv, TypeOK
  <2>1. ASSUME NEW c \in Clusters, NEW k \in Cores, CoreStep(c, k) PROVE AbstractStep
    <3>1. PICK start \in {"read", "amo"} : CallStep(c, k, start)
      BY <2>1, CallParts
    <3>2. CASE EnterCall(c, k, start)
      <4>1. Calls!Enter(<<c, k>>)
        BY <2>0, <3>2, EnterCallImplements DEF IInv
      <4> QED BY <4>1 DEF AbstractStep, AbstractBarrier!Next, AbstractBarrier!Enter,
                          Calls!Enter, Participants
    <3>3. CASE LeaveCall(c, k, start)
      <4>1. \/ UNCHANGED <<entered, left>>
            \/ \E P \in SUBSET Participants : Calls!Leave(P)
        BY <2>0, <3>3, NobodyIsAhead, LeaveCallImplements DEF IInv
      <4> QED BY <4>1 DEF AbstractStep, AbstractBarrier!Next, AbstractBarrier!Leave,
                          Calls!Leave, AbstractBarrier!vars
    <3> QED BY <3>1, <3>2, <3>3 DEF CallStep
  <2>2. CASE \/ InitReset \/ \E c \in Clusters : DMStep(c)
             \/ \E s, c \in Clusters : DeliverWakeup(s, c)
             \/ Terminating \/ UNCHANGED vars
    <3>1. UNCHANGED <<entered, left>>
      BY <2>2 DEF InitReset, DMStep, Read, Amo, Reset, WakeAll, Wfi, Iterate, Poll,
                  DeliverWakeup, Goto, Terminating, vars
    <3> QED BY <3>1 DEF AbstractStep, AbstractBarrier!vars
  <2> QED BY <2>1, <2>2 DEF Next
<1> QED BY <1>1, <1>2, Invariance, PTL DEF Spec, AbstractStep, AbstractBarrier!SafeSpec
=============================================================================
