-------------------------- MODULE ClusterRegisters --------------------------
(***************************************************************************)
(* The rest of the synchronisation in cluster_registers:                   *)
(*                                                                         *)
(*  - the wait-for-wakeup register (offset 0): a store either consumes a   *)
(*    wake-up that came early, or blocks the core until one comes;         *)
(*  - the wake-up register (offset 28): a store sends one broadcast over   *)
(*    the synchronisation NoC, from a request object the peripheral owns   *)
(*    and reuses.  Copies of it reach the target clusters one at a time    *)
(*    and in any order.                                                    *)
(*                                                                         *)
(* Every operator is a part of an action: it says what becomes of the      *)
(* registers it touches, and the caller says the rest.                     *)
(***************************************************************************)
EXTENDS ClusterCores

CONSTANT NULL     \* no request: global_barrier_query == NULL

VARIABLES
  global_barrier_mutex,   \* cluster -> 1 when a wake-up came before its wait
  global_barrier_query,   \* cluster -> the core whose store is held, or NULL
  wakeup                  \* cluster -> clusters its broadcast is still to reach

registers == <<global_barrier_mutex, global_barrier_query, wakeup>>

ASSUME NullAssumption == NULL \notin Cores

RegistersType ==
  /\ global_barrier_mutex \in [Clusters -> {0, 1}]
  /\ global_barrier_query \in [Clusters -> Cores \cup {NULL}]
  /\ wakeup \in [Clusters -> SUBSET Clusters]

RegistersInit ==
  /\ global_barrier_mutex = [c \in Clusters |-> 0]
  /\ global_barrier_query = [c \in Clusters |-> NULL]
  /\ wakeup = [c \in Clusters |-> {}]

-----------------------------------------------------------------------------
(* The store to offset 0: the core waits for a wake-up. *)

\* The store is answered later, by the wake-up (IO_REQ_PENDING).
WaitPends(c) == /\ global_barrier_query[c] = NULL
                /\ global_barrier_mutex[c] = 0

\* Mutant: an early wake-up stays after it is consumed.
WaitForWakeupKeepsToken(c, k) ==
  /\ global_barrier_query' = [global_barrier_query EXCEPT ![c] =
                                IF WaitPends(c) THEN k ELSE @]
  /\ UNCHANGED global_barrier_mutex

\* Mutant: the token is counted down even when the store is held.
WaitForWakeupCountsDown(c, k) ==
  /\ global_barrier_query' = [global_barrier_query EXCEPT ![c] =
                                IF WaitPends(c) THEN k ELSE @]
  /\ global_barrier_mutex' = [global_barrier_mutex EXCEPT ![c] = @ - 1]

\* With a store already held, the handler falls through and answers at once
\* without touching the token.
WaitForWakeup(c, k) ==
  /\ global_barrier_query' = [global_barrier_query EXCEPT ![c] =
                                IF WaitPends(c) THEN k ELSE @]
  /\ global_barrier_mutex' = [global_barrier_mutex EXCEPT ![c] =
                                IF global_barrier_query[c] = NULL THEN 0 ELSE @]

(* The store to offset 28 and the arrival of its copies. *)

\* Cluster s broadcasts to the clusters its row and column masks select.
SendWakeup(s, targets) == wakeup' = [wakeup EXCEPT ![s] = @ \cup targets]

\* Mutant: a wake-up that answers a held store leaves the token as well.
GlobalBarrierSyncLeavesToken(s, c) ==
  /\ c \in wakeup[s]
  /\ wakeup' = [wakeup EXCEPT ![s] = @ \ {c}]
  /\ global_barrier_mutex' = [global_barrier_mutex EXCEPT ![c] = 1]
  /\ global_barrier_query' = [global_barrier_query EXCEPT ![c] = NULL]

\* A copy of the broadcast of s reaches c.  The token saturates at 1.
GlobalBarrierSync(s, c) ==
  /\ c \in wakeup[s]
  /\ wakeup' = [wakeup EXCEPT ![s] = @ \ {c}]
  /\ global_barrier_mutex' = [global_barrier_mutex EXCEPT ![c] =
                                IF global_barrier_query[c] = NULL THEN 1 ELSE 0]
  /\ global_barrier_query' = [global_barrier_query EXCEPT ![c] = NULL]
=============================================================================
