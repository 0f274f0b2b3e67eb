------------------------- MODULE ClusterCoresProofs -------------------------
(* What the two syncs of a call do to the cores of the clusters, and what   *)
(* they promise once nobody passes a barrier that somebody has not entered: *)
(* lemmas for every barrier, whatever its labels and its data movers' work. *)
EXTENDS ClusterCoresInv, FiniteSetTheorems, TLAPS

USE GridAssumption, RoundsAssumption

Calls == INSTANCE Barrier

\* One of the two syncs of a call, by core k of c.
CallStep(c, k, start) == EnterCall(c, k, start) \/ LeaveCall(c, k, start)

\* A label that the data mover may have between its two syncs.
WorkLabel(label) == label \notin WorkerLabels

-----------------------------------------------------------------------------
(* The mesh, and counting on it. *)

LEMMA Intervals ==
  /\ IsFiniteSet(Columns) /\ Cardinality(Columns) = NumX
  /\ IsFiniteSet(Rows) /\ Cardinality(Rows) = NumY
  BY FS_Interval DEF Columns, Rows

LEMMA Cluster0InMesh == Cluster0 \in Clusters
  BY DEF Cluster0, Clusters, Columns, Rows

LEMMA MeshSize == IsFiniteSet(Clusters) /\ Cardinality(Clusters) = NumX * NumY
  BY Intervals, FS_Product DEF Clusters

\* A word that counts modulo m has changed when it is advanced, even if it wraps.
LEMMA AdvancedWord ==
  ASSUME NEW m \in Nat, m > 1, NEW word \in 0 .. m - 1
  PROVE  /\ (word + 1) % m \in 0 .. m - 1
         /\ (word + 1) % m # word
<1>1. CASE word = m - 1
  <2>1. (word + 1) % m = 0
    BY <1>1
  <2> QED BY <2>1, <1>1
<1>2. CASE word # m - 1
  <2>1. (word + 1) % m = word + 1
    BY <1>2
  <2> QED BY <2>1, <1>2
<1> QED BY <1>1, <1>2

\* One more element in a subset of a set of size n makes it the whole set
\* exactly when the subset had n - 1.
LEMMA OneMore ==
  ASSUME NEW S, IsFiniteSet(S), NEW T, T \subseteq S, NEW e \in S, e \notin T
  PROVE  /\ Cardinality(T \cup {e}) = Cardinality(T) + 1
         /\ Cardinality(T) = Cardinality(S) - 1 <=> T \cup {e} = S
         /\ Cardinality(T) \in Nat /\ Cardinality(T) < Cardinality(S)
<1>1. IsFiniteSet(T) /\ Cardinality(T) \in Nat /\ Cardinality(S) \in Nat
  BY FS_Subset, FS_CardinalityType
<1>2. Cardinality(T \cup {e}) = Cardinality(T) + 1
  BY <1>1, FS_AddElement
<1>3. T \cup {e} \in SUBSET S
  OBVIOUS
<1>4. /\ Cardinality(S) = Cardinality(T \cup {e}) => S = T \cup {e}
      /\ Cardinality(T \cup {e}) <= Cardinality(S)
  BY <1>3, FS_Subset
<1>5. S = T \cup {e} => Cardinality(S) = Cardinality(T \cup {e})
  OBVIOUS
<1>6. Cardinality(T) = Cardinality(S) - 1 <=> Cardinality(S) = Cardinality(T \cup {e})
  BY <1>1, <1>2
<1> QED BY <1>1, <1>2, <1>4, <1>5, <1>6

-----------------------------------------------------------------------------
(* Type correctness. *)

LEMMA EnteredNat ==
  ASSUME NEW L, CoresType(L), NEW c \in Clusters, NEW k \in Cores
  PROVE  entered[<<c, k>>] \in Nat /\ left[<<c, k>>] \in Nat
  BY DEF CoresType, Participants

LEMMA CoresGotoType ==
  ASSUME NEW L, CoresType(L), NEW c \in Clusters, NEW from, NEW to \in L,
         Goto(c, from, to)
  PROVE  CoresType(L)'
  BY DEF Goto, CoresType

\* A sync of core k keeps the types it touches.
LEMMA SyncCoresType ==
  ASSUME NEW L, CoresType(L), WorkerLabels \subseteq L,
         NEW c \in Clusters, NEW k \in Cores, NEW label \in L, NEW start \in L,
         SyncCores(c, k, label, start)
  PROVE  /\ pc' \in [Clusters -> [Cores -> L]]
         /\ left' \in [Participants -> 0 .. Rounds]
         /\ barrier_status' \in [Clusters -> SUBSET Cores]
<1> DEFINE held == [pc[c] EXCEPT ![k] = label]
<1>1. held \in [Cores -> L]
  BY DEF CoresType
<1>2. \A j \in Cores : Released(j, held[j], start) \in L
  BY <1>1 DEF Released, WorkerLabels
<1>3. [j \in Cores |-> Released(j, held[j], start)] \in [Cores -> L]
  BY <1>2
<1>4. pc' \in [Clusters -> [Cores -> L]]
  <2>1. \/ pc' = [pc EXCEPT ![c] = [j \in Cores |-> Released(j, held[j], start)]]
        \/ pc' = [pc EXCEPT ![c] = held]
    BY DEF SyncCores
  <2> QED BY <2>1, <1>1, <1>3 DEF CoresType
<1>5. left' \in [Participants -> 0 .. Rounds]
  BY DEF SyncCores, CoresType
<1>6. barrier_status' \in [Clusters -> SUBSET Cores]
  BY DEF SyncCores, BarrierSync, CoresType
<1> QED BY <1>4, <1>5, <1>6

LEMMA CallStepType ==
  ASSUME NEW L, CoresType(L), WorkerLabels \subseteq L,
         NEW c \in Clusters, NEW k \in Cores, NEW start \in L,
         CallStep(c, k, start)
  PROVE  CoresType(L)'
<1>1. PICK label \in L : SyncCores(c, k, label, start)
  BY DEF CallStep, EnterCall, LeaveCall, WorkerLabels
<1>2. entered' \in [Participants -> 0 .. Rounds]
  <2>1. CASE EnterCall(c, k, start)
    BY <2>1 DEF EnterCall, CoresType, Participants
  <2>2. CASE LeaveCall(c, k, start)
    BY <2>2 DEF LeaveCall, CoresType
  <2> QED BY <2>1, <2>2 DEF CallStep
<1> QED BY <1>1, <1>2, SyncCoresType DEF CoresType

-----------------------------------------------------------------------------
(* What a step does to the labels, core by core. *)

LEMMA GotoEffect ==
  ASSUME NEW L, CoresType(L), NEW c \in Clusters, NEW from, NEW to,
         Goto(c, from, to)
  PROVE  /\ pc[c][DM] = from
         /\ \A d \in Clusters, j \in Cores :
              pc'[d][j] = IF d = c /\ j = DM THEN to ELSE pc[d][j]
         /\ UNCHANGED <<barrier_status, entered, left>>
  BY DEF Goto, CoresType

\* A sync of core k of c that holds it: what becomes of every core j of d.
HeldEffect(c, k, label) ==
  /\ left' = left
  /\ \A d \in Clusters, j \in Cores :
       /\ pc'[d][j] = IF d = c /\ j = k THEN label ELSE pc[d][j]
       /\ j \in barrier_status'[d]
            <=> j \in barrier_status[d] \/ (d = c /\ j = k)

LEMMA SyncPointHeld ==
  ASSUME NEW L, CoresType(L), NEW c \in Clusters, NEW k \in Cores,
         NEW label, NEW start,
         SyncCores(c, k, label, start), ~CompletesBarrier(c, k)
  PROVE  HeldEffect(c, k, label)
  BY DEF SyncCores, BarrierSync, HeldEffect, CoresType

\* And one that releases the cores, because k is the last.
ReleasedEffect(c, k, label, start) ==
  /\ \A j \in Cores : j = k \/ j \in barrier_status[c]
  /\ \A d \in Clusters, j \in Cores :
       /\ pc'[d][j] = IF d = c
                      THEN Released(j, IF j = k THEN label ELSE pc[c][j], start)
                      ELSE pc[d][j]
       /\ j \in barrier_status'[d] <=> d # c /\ j \in barrier_status[d]
       /\ left'[<<d, j>>] = IF d = c /\ (IF j = k THEN label ELSE pc[c][j]) = "wait2"
                           THEN entered[<<d, j>>] ELSE left[<<d, j>>]

LEMMA SyncPointReleased ==
  ASSUME NEW L, CoresType(L), NEW c \in Clusters, NEW k \in Cores,
         NEW label, NEW start,
         SyncCores(c, k, label, start), CompletesBarrier(c, k)
  PROVE  ReleasedEffect(c, k, label, start)
<1>1. \A j \in Cores : j = k \/ j \in barrier_status[c]
  BY DEF CompletesBarrier, CoresType
<1>2. \A d \in Clusters, j \in Cores :
        pc'[d][j] = IF d = c THEN Released(j, IF j = k THEN label ELSE pc[c][j], start)
                             ELSE pc[d][j]
  BY DEF SyncCores, CoresType
<1>3. \A d \in Clusters, j \in Cores :
        j \in barrier_status'[d] <=> d # c /\ j \in barrier_status[d]
  BY DEF SyncCores, BarrierSync, CoresType
<1>4. \A d \in Clusters, j \in Cores :
        left'[<<d, j>>] = IF d = c /\ (IF j = k THEN label ELSE pc[c][j]) = "wait2"
                          THEN entered[<<d, j>>] ELSE left[<<d, j>>]
  <2> TAKE d \in Clusters, j \in Cores
  <2>1. <<d, j>> \in Participants
    BY DEF Participants
  <2>2. left'[<<d, j>>] =
          IF <<d, j>>[1] = c /\ [pc[c] EXCEPT ![k] = label][<<d, j>>[2]] = "wait2"
          THEN entered[<<d, j>>] ELSE left[<<d, j>>]
    BY <2>1 DEF SyncCores
  <2> QED BY <2>2 DEF CoresType
<1> QED BY <1>1, <1>2, <1>3, <1>4 DEF ReleasedEffect

\* The label a sync holds core k at, and what it does to the calls made.
LEMMA CallStepParts ==
  ASSUME NEW L, CoresType(L), NEW c \in Clusters, NEW k \in Cores, NEW start,
         CallStep(c, k, start)
  PROVE  \E label :
           /\ label = IF pc[c][k] = "work" THEN "wait1" ELSE "wait2"
           /\ pc[c][k] \in {"work", "sync2"}
           /\ SyncCores(c, k, label, start)
           /\ \A d \in Clusters, j \in Cores :
                entered'[<<d, j>>] = IF d = c /\ j = k /\ pc[c][k] = "work"
                                     THEN entered[<<d, j>>] + 1 ELSE entered[<<d, j>>]
  BY DEF CallStep, EnterCall, LeaveCall, CoresType, Participants

-----------------------------------------------------------------------------
(* The cores of a cluster are in step. *)

\* A data mover's step away from the syncs leaves them alone.
LEMMA SyncInvGoto ==
  ASSUME NEW L, CoresType(L), SyncInv, NEW c \in Clusters,
         NEW from, from \notin {"work", "wait1", "wait2"},
         NEW to, to \notin {"work", "wait1", "wait2"},
         Goto(c, from, to)
  PROVE  SyncInv'
<1> SUFFICES ASSUME NEW d \in Clusters, NEW k \in Cores
             PROVE  /\ Syncs(d, k)' = Syncs(d, DM)'
                    /\ k \in barrier_status'[d] <=> pc'[d][k] \in {"wait1", "wait2"}
                    /\ k # DM => pc'[d][k] \in WorkerLabels
                    /\ pc'[d][k] = "wait1" => entered'[<<d, k>>] > 0
                    /\ left'[<<d, k>>] =
                         IF pc'[d][k] = "work" \/ entered'[<<d, k>>] = 0
                         THEN entered'[<<d, k>>] ELSE entered'[<<d, k>>] - 1
  BY DEF SyncInv
<1>1. /\ pc[c][DM] = from
      /\ pc'[d][k] = IF d = c /\ k = DM THEN to ELSE pc[d][k]
      /\ pc'[d][DM] = IF d = c THEN to ELSE pc[d][DM]
      /\ UNCHANGED <<barrier_status, entered, left>>
  BY GotoEffect
<1>2. Syncs(d, k)' = Syncs(d, k) /\ Syncs(d, DM)' = Syncs(d, DM)
  BY <1>1 DEF Syncs
<1> QED BY <1>1, <1>2 DEF SyncInv

\* A core arrives at a sync: at the first of its next call, or at the second.
LEMMA SyncInvCall ==
  ASSUME NEW L, CoresType(L), SyncInv, NEW c \in Clusters, NEW k \in Cores,
         NEW start, WorkLabel(start), CallStep(c, k, start)
  PROVE  SyncInv'
<1>1. PICK label :
        /\ label = IF pc[c][k] = "work" THEN "wait1" ELSE "wait2"
        /\ pc[c][k] \in {"work", "sync2"}
        /\ SyncCores(c, k, label, start)
        /\ \A d \in Clusters, j \in Cores :
             entered'[<<d, j>>] = IF d = c /\ j = k /\ pc[c][k] = "work"
                                  THEN entered[<<d, j>>] + 1 ELSE entered[<<d, j>>]
  BY CallStepParts
<1> DEFINE After(j) == IF j = k THEN label ELSE pc[c][j]
<1>2. SUFFICES ASSUME NEW d \in Clusters, NEW j \in Cores
               PROVE  /\ Syncs(d, j)' = Syncs(d, DM)'
                      /\ j \in barrier_status'[d] <=> pc'[d][j] \in {"wait1", "wait2"}
                      /\ j # DM => pc'[d][j] \in WorkerLabels
                      /\ pc'[d][j] = "wait1" => entered'[<<d, j>>] > 0
                      /\ left'[<<d, j>>] =
                           IF pc'[d][j] = "work" \/ entered'[<<d, j>>] = 0
                           THEN entered'[<<d, j>>] ELSE entered'[<<d, j>>] - 1
  BY DEF SyncInv
<1>3. /\ Syncs(c, j) = Syncs(c, DM)
      /\ Syncs(d, j) = Syncs(d, DM)
      /\ Syncs(c, k) = Syncs(c, DM)
  BY DEF SyncInv
<1>4. /\ entered[<<c, j>>] \in Nat /\ entered[<<c, k>>] \in Nat
      /\ entered[<<c, DM>>] \in Nat /\ left[<<c, j>>] \in Nat
  BY EnteredNat
<1>5. CASE d # c
  <2>1. /\ pc'[d][j] = pc[d][j] /\ pc'[d][DM] = pc[d][DM]
        /\ j \in barrier_status'[d] <=> j \in barrier_status[d]
        /\ left'[<<d, j>>] = left[<<d, j>>]
    <3>1. CASE CompletesBarrier(c, k)
      <4>1. ReleasedEffect(c, k, label, start)
        BY <1>1, <3>1, SyncPointReleased
      <4> QED BY <1>5, <4>1 DEF ReleasedEffect
    <3>2. CASE ~CompletesBarrier(c, k)
      <4>1. HeldEffect(c, k, label)
        BY <1>1, <3>2, SyncPointHeld
      <4> QED BY <1>5, <4>1 DEF HeldEffect
    <3> QED BY <3>1, <3>2
  <2>2. /\ entered'[<<d, j>>] = entered[<<d, j>>]
        /\ entered'[<<d, DM>>] = entered[<<d, DM>>]
    BY <1>1, <1>5
  <2>3. Syncs(d, j)' = Syncs(d, j) /\ Syncs(d, DM)' = Syncs(d, DM)
    BY <2>1, <2>2 DEF Syncs
  <2> QED BY <2>1, <2>2, <2>3 DEF SyncInv
<1>6. CASE d = c /\ ~CompletesBarrier(c, k)
  <2>1. /\ pc'[c][j] = After(j) /\ pc'[c][DM] = After(DM)
        /\ j \in barrier_status'[c] <=> j \in barrier_status[c] \/ j = k
        /\ left' = left
    <3>1. HeldEffect(c, k, label)
      BY <1>1, <1>6, SyncPointHeld
    <3> QED BY <3>1 DEF HeldEffect
  <2>2. Syncs(c, j)' = Syncs(c, j) /\ Syncs(c, DM)' = Syncs(c, DM)
    BY <2>1, <1>1, <1>4 DEF Syncs
  <2>3. /\ entered'[<<c, j>>] = IF j = k /\ pc[c][k] = "work"
                                THEN entered[<<c, j>>] + 1 ELSE entered[<<c, j>>]
        /\ left[<<c, j>>] = IF pc[c][j] = "work" \/ entered[<<c, j>>] = 0
                            THEN entered[<<c, j>>] ELSE entered[<<c, j>>] - 1
        /\ j \in barrier_status[c] <=> pc[c][j] \in {"wait1", "wait2"}
        /\ j # DM => pc[c][j] \in WorkerLabels
        /\ pc[c][j] = "wait1" => entered[<<c, j>>] > 0
    BY <1>1, <1>6 DEF SyncInv
  <2> QED BY <2>1, <2>2, <2>3, <1>1, <1>3, <1>4, <1>6 DEF WorkerLabels
<1>7. CASE d = c /\ CompletesBarrier(c, k)
  <2>1. /\ j = k \/ j \in barrier_status[c]
        /\ DM = k \/ DM \in barrier_status[c]
        /\ pc'[c][j] = Released(j, After(j), start)
        /\ pc'[c][DM] = Released(DM, After(DM), start)
        /\ j \notin barrier_status'[c]
        /\ left'[<<c, j>>] = IF After(j) = "wait2"
                             THEN entered[<<c, j>>] ELSE left[<<c, j>>]
    <3>1. ReleasedEffect(c, k, label, start)
      BY <1>1, <1>7, SyncPointReleased
    <3> QED BY <3>1 DEF ReleasedEffect
  <2>2. After(j) \in {"wait1", "wait2"} /\ After(DM) \in {"wait1", "wait2"}
    BY <1>1, <2>1 DEF SyncInv
  <2>3. /\ Syncs(c, j)' = Syncs(c, j) + 1
        /\ Syncs(c, DM)' = Syncs(c, DM) + 1
    BY <2>1, <2>2, <1>1, <1>4 DEF Syncs, Released, WorkLabel, WorkerLabels
  <2>4. /\ entered'[<<c, j>>] = IF j = k /\ pc[c][k] = "work"
                                THEN entered[<<c, j>>] + 1 ELSE entered[<<c, j>>]
        /\ left[<<c, j>>] = IF pc[c][j] = "work" \/ entered[<<c, j>>] = 0
                            THEN entered[<<c, j>>] ELSE entered[<<c, j>>] - 1
        /\ pc[c][j] = "wait1" => entered[<<c, j>>] > 0
    BY <1>1, <1>7 DEF SyncInv
  <2>5. /\ pc'[c][j] \notin {"wait1", "wait2"}
        /\ j # DM => pc'[c][j] \in WorkerLabels
    BY <2>1, <2>2 DEF Released, WorkerLabels, WorkLabel
  <2>6. left'[<<c, j>>] = IF pc'[c][j] = "work" \/ entered'[<<c, j>>] = 0
                          THEN entered'[<<c, j>>] ELSE entered'[<<c, j>>] - 1
    <3>1. CASE After(j) = "wait1"
      <4>1. pc'[c][j] # "work" /\ left'[<<c, j>>] = left[<<c, j>>]
        BY <2>1, <3>1 DEF Released, WorkLabel, WorkerLabels
      <4>2. entered'[<<c, j>>] > 0
        BY <2>4, <3>1, <1>1, <1>4
      <4> QED BY <4>1, <4>2, <2>4, <3>1, <1>1, <1>4
    <3>2. CASE After(j) = "wait2"
      <4>1. pc'[c][j] = "work" /\ left'[<<c, j>>] = entered[<<c, j>>]
        BY <2>1, <3>2 DEF Released
      <4>2. entered'[<<c, j>>] = entered[<<c, j>>]
        BY <2>4, <3>2, <1>1
      <4> QED BY <4>1, <4>2
    <3> QED BY <3>1, <3>2, <2>2
  <2>7. Syncs(c, j)' = Syncs(c, DM)'
    BY <2>3, <1>3, <1>7
  <2> QED BY <2>1, <2>5, <2>6, <2>7, <1>7
<1> QED BY <1>5, <1>6, <1>7

\* All the cores that a sync releases were held in the same one, and at the
\* same call.
LEMMA SameSync ==
  ASSUME NEW L, CoresType(L), SyncInv, NEW c \in Clusters, NEW k \in Cores,
         NEW start, CallStep(c, k, start), CompletesBarrier(c, k),
         NEW j \in Cores, j # k
  PROVE  /\ pc[c][j] = IF pc[c][k] = "work" THEN "wait1" ELSE "wait2"
         /\ entered[<<c, j>>] = IF pc[c][k] = "work" THEN entered[<<c, k>>] + 1
                                ELSE entered[<<c, k>>]
<1>1. pc[c][k] \in {"work", "sync2"}
  BY CallStepParts
<1>2. pc[c][j] \in {"wait1", "wait2"}
  BY DEF CompletesBarrier, SyncInv, CoresType
<1>3. Syncs(c, j) = Syncs(c, k)
  BY DEF SyncInv
<1>4. entered[<<c, j>>] \in Nat /\ entered[<<c, k>>] \in Nat
  BY EnteredNat
<1> QED BY <1>1, <1>2, <1>3, <1>4 DEF Syncs

-----------------------------------------------------------------------------
(* The data movers. *)

\* A step of the work of a data mover passes a barrier if it is the last.
LEMMA PassedGoto ==
  ASSUME NEW L, CoresType(L), NEW c \in Clusters,
         NEW from, WorkLabel(from), NEW to, WorkLabel(to) \/ to = "sync2",
         Goto(c, from, to)
  PROVE  /\ pc[c][DM] = from
         /\ \A d \in Clusters :
              /\ pc'[d][DM] = IF d = c THEN to ELSE pc[d][DM]
              /\ Passed(d)' = IF d = c /\ to = "sync2" THEN Passed(d) + 1 ELSE Passed(d)
         /\ UNCHANGED <<barrier_status, entered, left>>
<1>1. /\ pc[c][DM] = from
      /\ \A d \in Clusters : pc'[d][DM] = IF d = c THEN to ELSE pc[d][DM]
      /\ UNCHANGED <<barrier_status, entered, left>>
  BY GotoEffect
<1> QED BY <1>1 DEF Passed, WorkLabel, WorkerLabels

\* The data mover of <<x0, y0>> moves; what the rows see of it.
LEMMA RowHasGoto ==
  ASSUME NEW T, CoresType(T), NEW x0 \in Columns, NEW y0 \in Rows, NEW from, NEW to,
         Goto(<<x0, y0>>, from, to), NEW y \in Rows, NEW L
  PROVE  RowHas(y, L)' <=> \/ y = y0 /\ to \in L
                           \/ \E x \in Columns : /\ pc[<<x, y>>][DM] \in L
                                                 /\ y # y0 \/ x # x0
<1>1. <<x0, y0>> \in Clusters /\ \A x \in Columns : <<x, y>> \in Clusters
  BY DEF Clusters
<1>2. \A x \in Columns :
        pc'[<<x, y>>][DM] = IF <<x, y>> = <<x0, y0>> THEN to ELSE pc[<<x, y>>][DM]
  BY <1>1, GotoEffect
<1> QED BY <1>2 DEF RowHas

\* A sync moves no data mover past the end of a barrier; it moves one between
\* the labels of its worker life, or to the start of its work.
LEMMA PassedCall ==
  ASSUME NEW L, CoresType(L), SyncInv, NEW c \in Clusters, NEW k \in Cores,
         NEW start, WorkLabel(start), CallStep(c, k, start),
         NEW d \in Clusters
  PROVE  /\ Passed(d)' = Passed(d)
         /\ \/ pc'[d][DM] = pc[d][DM] /\ entered'[<<d, DM>>] = entered[<<d, DM>>]
            \/ {pc[d][DM], pc'[d][DM]} \subseteq WorkerLabels
            \/ /\ pc[d][DM] \in WorkerLabels /\ pc'[d][DM] = start
               /\ EnterCall(c, k, start)
               /\ entered'[<<d, DM>>] = entered[<<c, k>>] + 1
<1>1. PICK label :
        /\ label = IF pc[c][k] = "work" THEN "wait1" ELSE "wait2"
        /\ pc[c][k] \in {"work", "sync2"}
        /\ SyncCores(c, k, label, start)
        /\ \A e \in Clusters, j \in Cores :
             entered'[<<e, j>>] = IF e = c /\ j = k /\ pc[c][k] = "work"
                                  THEN entered[<<e, j>>] + 1 ELSE entered[<<e, j>>]
  BY CallStepParts
<1>2. entered[<<d, DM>>] \in Nat /\ entered[<<c, k>>] \in Nat
  BY EnteredNat
<1>3. CASE ~CompletesBarrier(c, k)
  <2>1. HeldEffect(c, k, label)
    BY <1>1, <1>3, SyncPointHeld
  <2>2. pc'[d][DM] = IF d = c /\ DM = k THEN label ELSE pc[d][DM]
    BY <2>1 DEF HeldEffect
  <2> QED BY <2>2, <1>1, <1>2 DEF Passed, WorkerLabels
<1>4. CASE CompletesBarrier(c, k) /\ d # c
  <2>1. ReleasedEffect(c, k, label, start)
    BY <1>1, <1>4, SyncPointReleased
  <2>2. pc'[d][DM] = pc[d][DM]
    BY <2>1, <1>4 DEF ReleasedEffect
  <2> QED BY <2>2, <1>1, <1>4 DEF Passed
<1>5. CASE CompletesBarrier(c, k) /\ d = c
  <2>1. ReleasedEffect(c, k, label, start)
    BY <1>1, <1>5, SyncPointReleased
  <2>2. pc'[c][DM] = Released(DM, IF DM = k THEN label ELSE pc[c][DM], start)
    BY <2>1 DEF ReleasedEffect
  <2>3. (IF DM = k THEN label ELSE pc[c][DM]) = label
    BY <1>1, <1>5, SameSync
  <2>4. DM # k => entered[<<c, DM>>] = IF pc[c][k] = "work" THEN entered[<<c, k>>] + 1
                                      ELSE entered[<<c, k>>]
    BY <1>5, SameSync
  <2>5. CASE pc[c][k] = "work"
    <3>1. pc'[c][DM] = start /\ pc[c][DM] \in {"work", "wait1"}
      BY <2>2, <2>3, <2>5, <1>1 DEF Released
    <3>2. entered'[<<c, DM>>] = entered[<<c, k>>] + 1
      BY <1>1, <2>4, <2>5
    <3>3. EnterCall(c, k, start)
      BY <2>5 DEF CallStep, LeaveCall
    <3>4. Passed(c)' = Passed(c)
      BY <3>1, <3>2, <1>1, <1>2, <2>4, <2>5, <2>3 DEF Passed, WorkLabel, WorkerLabels
    <3> QED BY <3>1, <3>2, <3>3, <3>4, <1>5 DEF WorkerLabels
  <2>6. CASE pc[c][k] = "sync2"
    <3>1. pc'[c][DM] = "work" /\ pc[c][DM] \in {"sync2", "wait2"}
      BY <2>2, <2>3, <2>6, <1>1 DEF Released
    <3>2. entered'[<<c, DM>>] = entered[<<c, DM>>]
      BY <1>1, <2>6
    <3> QED BY <3>1, <3>2, <1>5 DEF Passed, WorkerLabels
  <2> QED BY <2>5, <2>6, <1>1
<1> QED BY <1>3, <1>4, <1>5

\* What a cluster has passed, against the calls of its cores: each of them has
\* entered all but the last barrier it passed, and also that one while the data
\* mover works; and it has passed every call that one of its cores has left.
LEMMA PassedBounds ==
  ASSUME NEW L, CoresType(L), SyncInv, NEW c \in Clusters, NEW k \in Cores
  PROVE  /\ Passed(c) \in Nat
         /\ Passed(c) <= entered[<<c, k>>] + 1
         /\ WorkLabel(pc[c][DM]) => Passed(c) = entered[<<c, k>>]
         /\ pc[c][DM] \in {"sync2", "wait2"} => entered[<<c, k>>] <= Passed(c) - 1
         /\ left[<<c, k>>] > 0 => left[<<c, k>>] + 1 <= Passed(c)
<1>1. /\ entered[<<c, k>>] \in Nat /\ left[<<c, k>>] \in Nat
      /\ entered[<<c, DM>>] \in Nat
  BY EnteredNat
<1>2. /\ Syncs(c, k) = Syncs(c, DM)
      /\ k # DM => pc[c][k] \in WorkerLabels
      /\ pc[c][k] = "wait1" => entered[<<c, k>>] > 0
      /\ left[<<c, k>>] = IF pc[c][k] = "work" \/ entered[<<c, k>>] = 0
                      THEN entered[<<c, k>>] ELSE entered[<<c, k>>] - 1
  BY DEF SyncInv
<1>3. Passed(c) \in Nat
  BY <1>1 DEF Passed
<1>4. Passed(c) <= entered[<<c, k>>] + 1
  <2>1. Syncs(c, k) <= 2 * entered[<<c, k>>] + 1 /\ Syncs(c, k) \in Int
    BY <1>1 DEF Syncs
  <2>2. 2 * Passed(c) - 2 <= Syncs(c, DM)
    BY <1>1 DEF Syncs, Passed
  <2> QED BY <1>1, <1>2, <1>3, <2>1, <2>2
<1>5. WorkLabel(pc[c][DM]) => Passed(c) = entered[<<c, k>>]
  BY <1>1, <1>2 DEF Syncs, Passed, WorkLabel, WorkerLabels
<1>6. pc[c][DM] \in {"sync2", "wait2"} => entered[<<c, k>>] <= Passed(c) - 1
  BY <1>1, <1>2 DEF Syncs, Passed
<1>7. left[<<c, k>>] > 0 => left[<<c, k>>] + 1 <= Passed(c)
  <2>1. left[<<c, k>>] > 0 => Syncs(c, k) >= 2 * left[<<c, k>>] + 1
    BY <1>1, <1>2 DEF Syncs
  <2>2. Syncs(c, DM) >= 2 * left[<<c, k>>] + 1 => left[<<c, k>>] + 1 <= Passed(c)
    BY <1>1 DEF Syncs, Passed
  <2> QED BY <1>2, <2>1, <2>2
<1> QED BY <1>3, <1>4, <1>5, <1>6, <1>7

-----------------------------------------------------------------------------
(* The promise of a barrier. *)

\* No cluster has passed a barrier that some core has still to enter: what each
\* barrier has to show of its data movers' work.
NobodyAhead ==
  \A c, d \in Clusters, j \in Cores : Passed(c) <= entered[<<d, j>>] + 1

LEMMA NobodyAheadIsSafe ==
  ASSUME NEW L, CoresType(L), SyncInv, NobodyAhead
  PROVE  \A p, q \in Participants : left[p] <= entered[q]
<1> SUFFICES ASSUME NEW c \in Clusters, NEW k \in Cores,
                    NEW d \in Clusters, NEW j \in Cores
             PROVE  left[<<c, k>>] <= entered[<<d, j>>]
  BY DEF Participants
<1>1. left[<<c, k>>] \in Nat /\ entered[<<d, j>>] \in Nat
  BY EnteredNat
<1>2. Passed(c) \in Nat /\ (left[<<c, k>>] > 0 => left[<<c, k>>] + 1 <= Passed(c))
  BY PassedBounds
<1>3. Passed(c) <= entered[<<d, j>>] + 1
  BY DEF NobodyAhead
<1> QED BY <1>1, <1>2, <1>3

\* The first sync of a call is the abstract Enter.
LEMMA EnterCallImplements ==
  ASSUME NEW L, CoresType(L), WorkerLabels \subseteq L, SyncInv,
         NEW c \in Clusters, NEW k \in Cores, NEW start \in L,
         EnterCall(c, k, start)
  PROVE  Calls!Enter(<<c, k>>)
<1>1. /\ pc[c][k] = "work" /\ entered[<<c, k>>] < Rounds
      /\ entered' = [entered EXCEPT ![<<c, k>>] = @ + 1]
      /\ SyncCores(c, k, "wait1", start)
  BY DEF EnterCall
<1>2. left[<<c, k>>] = entered[<<c, k>>]
  BY <1>1 DEF SyncInv
<1>3. UNCHANGED left
  <2>1. CASE ~CompletesBarrier(c, k)
    BY <1>1, <2>1 DEF SyncCores
  <2>2. CASE CompletesBarrier(c, k)
    <3>1. ReleasedEffect(c, k, "wait1", start)
      BY <1>1, <2>2, SyncPointReleased
    <3>2. ASSUME NEW j \in Cores, j # k PROVE pc[c][j] = "wait1"
      BY <1>1, <2>2, <3>2, SameSync DEF CallStep
    <3>3. \A d \in Clusters, j \in Cores : left'[<<d, j>>] = left[<<d, j>>]
      BY <3>1, <3>2 DEF ReleasedEffect
    <3>4. left' \in [Participants -> 0 .. Rounds] /\ left \in [Participants -> 0 .. Rounds]
      BY CallStepType DEF CallStep, CoresType
    <3> QED BY <3>3, <3>4 DEF Participants
  <2> QED BY <2>1, <2>2
<1> QED BY <1>1, <1>2, <1>3 DEF Calls!Enter

\* The second sync of a call, when it releases the cores, returns those of the
\* cluster from a call that it has passed; that of an initialisation returns
\* them from none.
LEMMA LeaveCallReleases ==
  ASSUME NEW L, CoresType(L), WorkerLabels \subseteq L, SyncInv,
         NEW c \in Clusters, NEW k \in Cores, NEW start \in L,
         LeaveCall(c, k, start)
  PROVE  \/ UNCHANGED <<entered, left>>
         \/ \E P \in SUBSET Participants :
              /\ \A p \in P : left[p] < entered[p] /\ entered[p] < Passed(p[1])
              /\ left' = [p \in Participants |-> IF p \in P THEN entered[p] ELSE left[p]]
              /\ UNCHANGED entered
<1>1. /\ pc[c][k] = "sync2" /\ UNCHANGED entered
      /\ SyncCores(c, k, "wait2", start)
  BY DEF LeaveCall
<1>2. CASE ~CompletesBarrier(c, k)
  BY <1>1, <1>2 DEF SyncCores
<1>3. CASE CompletesBarrier(c, k)
  <2>1. ReleasedEffect(c, k, "wait2", start)
    BY <1>1, <1>3, SyncPointReleased
  <2>2. ASSUME NEW j \in Cores
        PROVE  /\ pc[c][j] \in {"sync2", "wait2"}
               /\ entered[<<c, j>>] = entered[<<c, k>>]
               /\ j # k => pc[c][j] = "wait2"
    BY <1>1, <1>3, SameSync DEF CallStep
  <2>3. \A d \in Clusters, j \in Cores :
          left'[<<d, j>>] = IF d = c THEN entered[<<d, j>>] ELSE left[<<d, j>>]
    BY <2>1, <2>2 DEF ReleasedEffect
  <2>4. left' \in [Participants -> 0 .. Rounds] /\ left \in [Participants -> 0 .. Rounds]
    BY CallStepType DEF CallStep, CoresType
  <2>5. \A j \in Cores : left[<<c, j>>] = IF entered[<<c, k>>] = 0
                                          THEN entered[<<c, j>>] ELSE entered[<<c, j>>] - 1
    BY <2>2 DEF SyncInv
  <2>6. CASE entered[<<c, k>>] = 0
    <3>1. \A d \in Clusters, j \in Cores : left'[<<d, j>>] = left[<<d, j>>]
      BY <2>3, <2>5, <2>6
    <3>2. UNCHANGED left
      BY <2>4, <3>1 DEF Participants
    <3> QED BY <1>1, <3>2
  <2>7. CASE entered[<<c, k>>] # 0
    <3> DEFINE P == {c} \X Cores
    <3>1. P \in SUBSET Participants
      BY DEF Participants
    <3>2. ASSUME NEW p \in P PROVE left[p] < entered[p] /\ entered[p] < Passed(p[1])
      <4>1. PICK j \in Cores : p = <<c, j>>
        OBVIOUS
      <4>2. left[<<c, j>>] = entered[<<c, j>>] - 1 /\ entered[<<c, j>>] \in Nat
        BY <2>2, <2>5, <2>7, EnteredNat
      <4>3. pc[c][DM] \in {"sync2", "wait2"}
        BY <2>2
      <4>4. Passed(c) \in Nat /\ entered[<<c, j>>] <= Passed(c) - 1
        BY <4>3, PassedBounds
      <4> QED BY <4>1, <4>2, <4>4
    <3>3. \A p \in Participants : left'[p] = IF p \in P THEN entered[p] ELSE left[p]
      BY <2>3 DEF Participants
    <3>4. left' = [p \in Participants |-> IF p \in P THEN entered[p] ELSE left[p]]
      BY <2>4, <3>3
    <3> QED BY <1>1, <3>1, <3>2, <3>4
  <2> QED BY <2>6, <2>7
<1> QED BY <1>2, <1>3

\* That is the abstract Leave, when nobody is ahead.
LEMMA LeaveCallImplements ==
  ASSUME NEW L, CoresType(L), WorkerLabels \subseteq L, SyncInv, NobodyAhead,
         NEW c \in Clusters, NEW k \in Cores, NEW start \in L,
         LeaveCall(c, k, start)
  PROVE  \/ UNCHANGED <<entered, left>>
         \/ \E P \in SUBSET Participants : Calls!Leave(P)
<1>1. CASE ~UNCHANGED <<entered, left>>
  <2>1. PICK P \in SUBSET Participants :
          /\ \A p \in P : left[p] < entered[p] /\ entered[p] < Passed(p[1])
          /\ left' = [p \in Participants |-> IF p \in P THEN entered[p] ELSE left[p]]
          /\ UNCHANGED entered
    BY <1>1, LeaveCallReleases
  <2>2. ASSUME NEW p \in P, NEW q \in Participants PROVE entered[p] <= entered[q]
    <3>1. p \in Participants
      BY <2>2
    <3>2. PICK d \in Clusters, j \in Cores : p = <<d, j>>
      BY <3>1 DEF Participants
    <3>3. PICK e \in Clusters, i \in Cores : q = <<e, i>>
      BY DEF Participants
    <3>4. entered[p] \in Nat /\ entered[q] \in Nat /\ Passed(d) \in Nat
      BY <3>2, <3>3, EnteredNat, PassedBounds
    <3>5. entered[p] < Passed(d) /\ Passed(d) <= entered[q] + 1
      BY <2>1, <2>2, <3>2, <3>3 DEF NobodyAhead
    <3> QED BY <3>4, <3>5
  <2>3. Calls!Leave(P)
    BY <2>1, <2>2 DEF Calls!Leave
  <2> QED BY <2>3
<1> QED BY <1>1
=============================================================================
