------------------------ MODULE FlexGlobalBarrierInv ------------------------
(***************************************************************************)
(* The inductive invariant of FlexGlobalBarrier: there is a number g of     *)
(* barriers that have ended, the initialisation first, from which every     *)
(* cluster's place, its wake-ups, the iteration word and the counter follow.*)
(***************************************************************************)
EXTENDS FlexGlobalBarrier, ClusterCoresInv

Iterated(word) == (word + 1) % IterationMod

\* How many of the first n barriers end with a broadcast: the initialisation,
\* numbered 0, and the calls that do not poll.
Waits(n) == Cardinality((0 .. n - 1) \ Polls)

\* A cluster has passed every barrier that has ended, or all but the last, which
\* it has still to see.
InStep(c, g) ==
  /\ Passed(c) = g \/ (Passed(c) = g - 1 /\ pc[c][DM] \in {"wfi", "blocked", "poll"})
  /\ pc[c][DM] \in {"init", "wake", "wfi", "blocked"} => ~PollingCall(c)
  /\ pc[c][DM] \in {"read", "iterate", "poll"} => PollingCall(c)

\* A wake-up is on its way to a cluster, or kept for it, exactly while the last
\* barrier that ended is one of those it waits for and it has not passed it.
Owed(c, g) == Passed(c) = g - 1 /\ ~PollingCall(c)

Woken(c, g) ==
  /\ \A s, t \in InFlight(c) : s = t
  /\ global_barrier_mutex[c] + (IF InFlight(c) = {} THEN 0 ELSE 1)
       = IF Owed(c, g) THEN 1 ELSE 0
  /\ global_barrier_query[c] = IF pc[c][DM] = "blocked" THEN DM ELSE NULL
  /\ pc[c][DM] = "blocked" => global_barrier_mutex[c] = 0

\* The word that the data mover of a polling call remembers.
Remembered(c, g) ==
  /\ pc[c][DM] \in {"amo", "reset", "iterate"} /\ PollingCall(c)
       => barrier_iter = prev_iteration[c]
  /\ pc[c][DM] = "poll" =>
       barrier_iter = IF Passed(c) = g THEN prev_iteration[c]
                                       ELSE Iterated(prev_iteration[c])

\* The labels of the last cluster of a barrier, and the clusters that are
\* counted in the barrier that is to end next.
Leading == {"init", "reset", "wake", "iterate"}

Arrived(c, g) == /\ pc[c][DM] \in Leading \cup {"wfi", "blocked", "poll"}
                 /\ Passed(c) = g

Arrivals(g) == {c \in Clusters : Arrived(c, g)}

\* The counter holds the number of arrivals until the last of them clears it,
\* once there is an initial value to speak of; one cluster leads a full mesh.
Counts(g) ==
  /\ (\A c \in Clusters : pc[c][DM] # "init") =>
       barrier = IF \E c \in Clusters : pc[c][DM] \in {"wake", "iterate"}
                 THEN 0 ELSE Cardinality(Arrivals(g))
  /\ (\E c \in Clusters : pc[c][DM] \in Leading) <=> Arrivals(g) = Clusters
  /\ \A c, d \in Clusters : pc[c][DM] \in Leading /\ pc[d][DM] \in Leading => c = d

GlobalInv(g) ==
  /\ wakes = Waits(g)
  /\ \A c \in Clusters : InStep(c, g) /\ Woken(c, g) /\ Remembered(c, g)
  /\ Counts(g)

IInv ==
  /\ TypeOK
  /\ SyncInv
  /\ \E g \in Nat : GlobalInv(g)
=============================================================================
