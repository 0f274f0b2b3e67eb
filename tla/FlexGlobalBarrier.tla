-------------------------- MODULE FlexGlobalBarrier -------------------------
(***************************************************************************)
(* flex_barrier_init followed by a program's calls of flex_global_barrier  *)
(* and flex_global_barrier_polling, on every core of every cluster.        *)
(*                                                                         *)
(* Both count the clusters in one word, at the base of the sync memory, so *)
(* a program may use one after the other.  The last cluster clears it, and *)
(* either wakes everybody or advances the iteration word they poll.        *)
(***************************************************************************)
EXTENDS ClusterRegisters, Integers, FiniteSets

CONSTANTS
  Garbage,        \* values an uninitialised word of sync memory may hold
  IterationMod,   \* the iteration word counts modulo this (2^32)
  Polls           \* the calls of the program that are polling ones

ASSUME ProgramAssumption ==
  /\ Garbage \subseteq Nat
  /\ IterationMod \in Nat /\ IterationMod > 1
  /\ Polls \subseteq 1 .. Rounds

VARIABLES
  barrier,          \* the counter of clusters
  barrier_iter,     \* the iteration word, at +4
  prev_iteration,   \* cluster -> prev_barrier_iteration of its data mover
  wakes             \* history: wake-up broadcasts issued

words == <<barrier, barrier_iter, prev_iteration, wakes>>
vars == <<registers, barrier_status, pc, entered, left, words>>

NumClusters == NumX * NumY
Iterations == 0 .. IterationMod - 1

Labels == WorkerLabels \cup {"init", "read", "amo", "reset", "wake", "wfi", "blocked",
                             "iterate", "poll"}

TypeOK ==
  /\ RegistersType
  /\ CoresType(Labels)
  /\ barrier \in Nat
  /\ barrier_iter \in Iterations
  /\ prev_iteration \in [Clusters -> Iterations]
  /\ wakes \in Nat

Init ==
  /\ RegistersInit
  /\ barrier_status = [c \in Clusters |-> {}]
  /\ entered = [p \in Participants |-> 0]
  /\ left = [p \in Participants |-> 0]
  /\ pc = [c \in Clusters |-> [k \in Cores |->
             IF k # DM THEN "sync2" ELSE IF c = Cluster0 THEN "init" ELSE "wfi"]]
  /\ barrier \in Garbage
  /\ barrier_iter \in Iterations
  /\ prev_iteration = [c \in Clusters |-> 0]
  /\ wakes = 0

\* The call that the data mover of c is in.
PollingCall(c) == entered[<<c, DM>>] \in Polls

-----------------------------------------------------------------------------
\* flex_barrier_init: cluster 0 clears the counter, then wakes everybody.
InitReset ==
  /\ Goto(Cluster0, "init", "wake")
  /\ barrier' = 0
  /\ UNCHANGED <<registers, barrier_iter, prev_iteration, wakes>>

\* The data mover of a polling call starts by reading the iteration word.
Enter(c, k) ==
  /\ EnterCall(c, k, IF entered[<<c, k>>] + 1 \in Polls THEN "read" ELSE "amo")
  /\ UNCHANGED <<registers, words>>

SecondSync(c, k) ==
  /\ LeaveCall(c, k, "amo")
  /\ UNCHANGED <<registers, words>>

Read(c) ==
  /\ Goto(c, "read", "amo")
  /\ prev_iteration' = [prev_iteration EXCEPT ![c] = barrier_iter]
  /\ UNCHANGED <<registers, barrier, barrier_iter, wakes>>

Amo(c) ==
  /\ Goto(c, "amo", IF barrier = NumClusters - 1 THEN "reset"
                    ELSE IF PollingCall(c) THEN "poll" ELSE "wfi")
  /\ barrier' = barrier + 1
  /\ UNCHANGED <<registers, barrier_iter, prev_iteration, wakes>>

\* Mutant: the leader goes on without clearing the counter.
ResetForgets(c) ==
  /\ Goto(c, "reset", IF PollingCall(c) THEN "iterate" ELSE "wake")
  /\ UNCHANGED <<registers, barrier, barrier_iter, prev_iteration, wakes>>

Reset(c) ==
  /\ Goto(c, "reset", IF PollingCall(c) THEN "iterate" ELSE "wake")
  /\ barrier' = 0
  /\ UNCHANGED <<registers, barrier_iter, prev_iteration, wakes>>

WakeAll(c) ==
  /\ Goto(c, "wake", "wfi")
  /\ SendWakeup(c, Clusters)
  /\ wakes' = wakes + 1
  /\ UNCHANGED <<global_barrier_mutex, global_barrier_query, barrier, barrier_iter,
                 prev_iteration>>

Wfi(c) ==
  /\ Goto(c, "wfi", IF WaitPends(c) THEN "blocked" ELSE "sync2")
  /\ WaitForWakeup(c, DM)
  /\ UNCHANGED <<wakeup, words>>

DeliverWakeup(s, c) ==
  /\ GlobalBarrierSync(s, c)
  /\ pc' = [pc EXCEPT ![c] = [k \in Cores |->
              IF k = global_barrier_query[c] THEN "sync2" ELSE pc[c][k]]]
  /\ UNCHANGED <<barrier_status, entered, left, words>>

\* The leader of a polling call ends it without waiting.
Iterate(c) ==
  /\ Goto(c, "iterate", "sync2")
  /\ barrier_iter' = (barrier_iter + 1) % IterationMod
  /\ UNCHANGED <<registers, barrier, prev_iteration, wakes>>

\* Mutant: the loop ends at the first read.
PollOnce(c) ==
  /\ Goto(c, "poll", "sync2")
  /\ UNCHANGED <<registers, words>>

\* The loop that polls: only the read that ends it is a step.
Poll(c) ==
  /\ barrier_iter # prev_iteration[c]
  /\ Goto(c, "poll", "sync2")
  /\ UNCHANGED <<registers, words>>

-----------------------------------------------------------------------------
\* The program is over: the model has nothing left to do.
Terminating == Finished /\ UNCHANGED vars

DMStep(c) == \/ Read(c) \/ Amo(c) \/ Reset(c) \/ WakeAll(c) \/ Wfi(c)
             \/ Iterate(c) \/ Poll(c)

CoreStep(c, k) == Enter(c, k) \/ SecondSync(c, k)

Next ==
  \/ InitReset
  \/ \E c \in Clusters : DMStep(c)
  \/ \E c \in Clusters, k \in Cores : CoreStep(c, k)
  \/ \E s, c \in Clusters : DeliverWakeup(s, c)
  \/ Terminating

Spec == Init /\ [][Next]_vars

\* Every core keeps executing its program, and the NoC delivers.
FairSpec ==
  /\ Spec
  /\ WF_vars(InitReset)
  /\ \A c \in Clusters : WF_vars(DMStep(c))
  /\ \A c \in Clusters, k \in Cores : WF_vars(CoreStep(c, k))
  /\ \A s, c \in Clusters : WF_vars(DeliverWakeup(s, c))

-----------------------------------------------------------------------------
(* Properties. *)

\* No core returns from its n-th barrier, of either kind, before every core of
\* every cluster has called its n-th.
BarrierSafety ==
  \A p, q \in Participants : left[p] <= entered[q]

\* The wake-ups the data mover of c has consumed: one for the initialisation
\* and one for each of its waiting calls whose wait is behind it.
Consumed(c) ==
  LET behind == IF pc[c][DM] \in {"sync2", "wait2", "work"}
                THEN entered[<<c, DM>>] ELSE entered[<<c, DM>>] - 1
  IN  IF behind = -1 THEN 0 ELSE 1 + Cardinality((1 .. behind) \ Polls)

InFlight(c) == {s \in Clusters : c \in wakeup[s]}

\* A polling call between two waiting ones loses no wake-up: each broadcast
\* is, for each cluster, consumed once, kept as the token or on its way.
WakeupsConserved ==
  \A c \in Clusters :
    /\ \A s, t \in InFlight(c) : s = t
    /\ wakes = Consumed(c) + global_barrier_mutex[c]
                 + (IF InFlight(c) = {} THEN 0 ELSE 1)

\* Clearing the counter loses no arrival of the next call, whichever its kind.
ResetLosesNobody ==
  \A c \in Clusters : pc[c][DM] = "reset" => barrier = NumClusters

\* The two barriers together implement the abstract one, and every call returns.
AbstractBarrier == INSTANCE Barrier
ImplementsBarrier == AbstractBarrier!Spec
=============================================================================
