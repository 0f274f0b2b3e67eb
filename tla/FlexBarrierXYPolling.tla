------------------------ MODULE FlexBarrierXYPolling ------------------------
(***************************************************************************)
(* A program's calls of flex_global_barrier_xy_polling, on every core of   *)
(* every cluster, once flex_barrier_xy_init has cleared the counters.      *)
(*                                                                         *)
(* Arrivals are counted as in flex_global_barrier_xy, but nobody is woken: *)
(* each data mover remembers the iteration words of its row and of the     *)
(* mesh before it counts itself, and polls until the word has changed.     *)
(* Nothing ever clears the iteration words, and they wrap around.          *)
(***************************************************************************)
EXTENDS ClusterCores

CONSTANT IterationMod   \* the iteration words count modulo this (2^32)

ASSUME IterationModAssumption == IterationMod \in Nat /\ IterationMod > 1

VARIABLES
  barrier_x,    \* row -> its counter of clusters
  barrier_y,    \* the counter of rows
  barrier_ix,   \* row -> its iteration word, at +12
  barrier_iy,   \* the iteration word of the mesh, at +20
  prev_x,       \* cluster -> prev_barrier_iter_x of its data mover
  prev_y        \* cluster -> prev_barrier_iter_y

vars == <<barrier_status, pc, entered, left, barrier_x, barrier_y, barrier_ix,
          barrier_iy, prev_x, prev_y>>

Iterations == 0 .. IterationMod - 1

Labels == WorkerLabels \cup {"readX", "readY", "amoX", "resetX", "amoY", "resetY",
                             "iterateY", "pollY", "iterateX", "pollX"}

TypeOK ==
  /\ CoresType(Labels)
  /\ barrier_x \in [Rows -> 0 .. NumX] /\ barrier_y \in 0 .. NumY
  /\ barrier_ix \in [Rows -> Iterations] /\ barrier_iy \in Iterations
  /\ prev_x \in [Clusters -> Iterations] /\ prev_y \in [Clusters -> Iterations]

\* The iteration words hold anything: the initialisation does not write them.
Init ==
  /\ CoresInit
  /\ barrier_x = [y \in Rows |-> 0] /\ barrier_y = 0
  /\ barrier_ix \in [Rows -> Iterations] /\ barrier_iy \in Iterations
  /\ prev_x = [c \in Clusters |-> 0] /\ prev_y = [c \in Clusters |-> 0]

\* Mutant: the words never wrap around.
IteratedUnbounded(word) == word + 1

\* One more iteration, as the 32-bit atomic add counts it.
Iterated(word) == (word + 1) % IterationMod

-----------------------------------------------------------------------------
Enter(c, k) ==
  /\ EnterCall(c, k, "readX")
  /\ UNCHANGED <<barrier_x, barrier_y, barrier_ix, barrier_iy, prev_x, prev_y>>

SecondSync(c, k) ==
  /\ LeaveCall(c, k, "readX")
  /\ UNCHANGED <<barrier_x, barrier_y, barrier_ix, barrier_iy, prev_x, prev_y>>

ReadX(c) ==
  /\ Goto(c, "readX", "readY")
  /\ prev_x' = [prev_x EXCEPT ![c] = barrier_ix[RowOf(c)]]
  /\ UNCHANGED <<barrier_x, barrier_y, barrier_ix, barrier_iy, prev_y>>

\* Mutant: the word of the row is remembered in the place of the mesh's.
ReadYOfRow(c) ==
  /\ Goto(c, "readY", "amoX")
  /\ prev_y' = [prev_y EXCEPT ![c] = barrier_ix[RowOf(c)]]
  /\ UNCHANGED <<barrier_x, barrier_y, barrier_ix, barrier_iy, prev_x>>

ReadY(c) ==
  /\ Goto(c, "readY", "amoX")
  /\ prev_y' = [prev_y EXCEPT ![c] = barrier_iy]
  /\ UNCHANGED <<barrier_x, barrier_y, barrier_ix, barrier_iy, prev_x>>

AmoX(c) ==
  /\ Goto(c, "amoX", IF barrier_x[RowOf(c)] = NumX - 1 THEN "resetX" ELSE "pollX")
  /\ barrier_x' = [barrier_x EXCEPT ![RowOf(c)] = @ + 1]
  /\ UNCHANGED <<barrier_y, barrier_ix, barrier_iy, prev_x, prev_y>>

ResetX(c) ==
  /\ Goto(c, "resetX", "amoY")
  /\ barrier_x' = [barrier_x EXCEPT ![RowOf(c)] = 0]
  /\ UNCHANGED <<barrier_y, barrier_ix, barrier_iy, prev_x, prev_y>>

\* Mutant: the last row but one is taken for the last.
AmoYEarly(c) ==
  /\ Goto(c, "amoY", IF barrier_y + 2 >= NumY THEN "resetY" ELSE "pollY")
  /\ barrier_y' = barrier_y + 1
  /\ UNCHANGED <<barrier_x, barrier_ix, barrier_iy, prev_x, prev_y>>

AmoY(c) ==
  /\ Goto(c, "amoY", IF barrier_y = NumY - 1 THEN "resetY" ELSE "pollY")
  /\ barrier_y' = barrier_y + 1
  /\ UNCHANGED <<barrier_x, barrier_ix, barrier_iy, prev_x, prev_y>>

ResetY(c) ==
  /\ Goto(c, "resetY", "iterateY")
  /\ barrier_y' = 0
  /\ UNCHANGED <<barrier_x, barrier_ix, barrier_iy, prev_x, prev_y>>

IterateY(c) ==
  /\ Goto(c, "iterateY", "iterateX")
  /\ barrier_iy' = Iterated(barrier_iy)
  /\ UNCHANGED <<barrier_x, barrier_y, barrier_ix, prev_x, prev_y>>

\* The loops that poll: only the read that ends them is a step.
PollY(c) ==
  /\ barrier_iy # prev_y[c]
  /\ Goto(c, "pollY", "iterateX")
  /\ UNCHANGED <<barrier_x, barrier_y, barrier_ix, barrier_iy, prev_x, prev_y>>

\* Mutant: the leader of a row does not announce the end to it.
IterateXForgets(c) ==
  /\ Goto(c, "iterateX", "sync2")
  /\ UNCHANGED <<barrier_x, barrier_y, barrier_ix, barrier_iy, prev_x, prev_y>>

IterateX(c) ==
  /\ Goto(c, "iterateX", "sync2")
  /\ barrier_ix' = [barrier_ix EXCEPT ![RowOf(c)] = Iterated(@)]
  /\ UNCHANGED <<barrier_x, barrier_y, barrier_iy, prev_x, prev_y>>

\* Mutant: the row's word is compared with what was remembered of the mesh's.
PollXWrongWord(c) ==
  /\ barrier_ix[RowOf(c)] # prev_y[c]
  /\ Goto(c, "pollX", "sync2")
  /\ UNCHANGED <<barrier_x, barrier_y, barrier_ix, barrier_iy, prev_x, prev_y>>

PollX(c) ==
  /\ barrier_ix[RowOf(c)] # prev_x[c]
  /\ Goto(c, "pollX", "sync2")
  /\ UNCHANGED <<barrier_x, barrier_y, barrier_ix, barrier_iy, prev_x, prev_y>>

-----------------------------------------------------------------------------
\* The program is over: the model has nothing left to do.
Terminating == Finished /\ UNCHANGED vars

DMStep(c) ==
  \/ ReadX(c) \/ ReadY(c) \/ AmoX(c) \/ ResetX(c) \/ AmoY(c) \/ ResetY(c)
  \/ IterateY(c) \/ PollY(c) \/ IterateX(c) \/ PollX(c)

CoreStep(c, k) == Enter(c, k) \/ SecondSync(c, k)

Next ==
  \/ \E c \in Clusters : DMStep(c)
  \/ \E c \in Clusters, k \in Cores : CoreStep(c, k)
  \/ Terminating

Spec == Init /\ [][Next]_vars

\* Every core keeps executing its program.
FairSpec ==
  /\ Spec
  /\ \A c \in Clusters : WF_vars(DMStep(c))
  /\ \A c \in Clusters, k \in Cores : WF_vars(CoreStep(c, k))

-----------------------------------------------------------------------------
(* Properties. *)

At(c, labels) == pc[c][DM] \in labels

\* No core returns from its n-th call of flex_global_barrier_xy_polling before
\* every core of every cluster has made its n-th call.
BarrierSafety ==
  \A p, q \in Participants : left[p] <= entered[q]

\* Clearing a counter loses no arrival of the next call: the word still holds
\* the full count of the call that is ending when flex_reset_barrier clears it.
ResetLosesNobody ==
  \A c \in Clusters : /\ At(c, {"resetX"}) => barrier_x[RowOf(c)] = NumX
                      /\ At(c, {"resetY"}) => barrier_y = NumY

\* No iteration is missed, however often the words wrap around: while a data
\* mover holds the value it remembered, the word advances once at most; and a
\* word that has advanced was advanced in its own call, after it was counted.
IterationsInStep ==
  \A c \in Clusters :
    /\ At(c, {"amoX", "resetX", "amoY", "resetY", "iterateY"}) =>
         barrier_iy = prev_y[c]
    /\ At(c, {"pollY"}) => barrier_iy \in {prev_y[c], Iterated(prev_y[c])}
    /\ At(c, {"readY", "amoX", "resetX", "amoY", "resetY", "iterateY", "pollY",
              "iterateX"}) => barrier_ix[RowOf(c)] = prev_x[c]
    /\ At(c, {"pollX"}) => barrier_ix[RowOf(c)] \in {prev_x[c], Iterated(prev_x[c])}

\* The barrier implements the abstract one, and every call returns.
AbstractBarrier == INSTANCE Barrier
ImplementsBarrier == AbstractBarrier!Spec
=============================================================================
