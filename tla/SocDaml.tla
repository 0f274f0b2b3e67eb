------------------------------ MODULE SocDaml -------------------------------
(***************************************************************************)
(* How soc_daml.h finds memory that is free at the same addresses in every *)
(* cluster.  Each core has an allocator on its arena of its cluster's heap *)
(* and uploads its free list; the heap is cut into slots, and the slots    *)
(* that have free memory become a bitmap of the core; the bitmaps are ORed *)
(* over a cluster and ANDed over the system, and what is left is           *)
(* compressed into ranges.                                                 *)
(*                                                                         *)
(* The program calls each function on the core that owns the data, one     *)
(* core after the other: there is a global barrier before and after each.  *)
(***************************************************************************)
EXTENDS Naturals, Sequences, FiniteSets

CONSTANTS
  NumClusters, NumCores,        \* g_rt_num_clusters, g_rt_cores_per_cluster
  HEAP_BASE, HEAP_END,
  SLOT_SIZE,
  MAX_FREE_BLOCKS_PER_CORE, MAX_COMMON_BLOCKS

ASSUME DamlAssumption ==
  /\ NumClusters \in Nat \ {0} /\ NumCores \in Nat \ {0}
  /\ HEAP_BASE \in Nat /\ HEAP_END \in Nat
  /\ 16 * NumCores <= HEAP_END - HEAP_BASE    \* room for a block, rounded up, in each share
  /\ SLOT_SIZE \in Nat \ {0}
  /\ MAX_FREE_BLOCKS_PER_CORE \in Nat /\ MAX_COMMON_BLOCKS \in Nat

VARIABLES
  phase,      \* the loop of the program that every core is in
  turn,       \* the cluster or core whose turn it is in that loop
  used,       \* cluster -> granules of its heap that its cores have allocated
  g_hbm_core_free,          \* <<cluster, core>> -> its uploaded free list
  g_core_free_bitmap,       \* <<cluster, core>> -> its slots that are FREE
  g_cluster_free_bitmap,    \* cluster -> slots FREE in any of its cores
  g_system_common_bitmap,   \* slots FREE in all clusters
  g_hbm_system_common       \* the ranges

tables == <<g_hbm_core_free, g_core_free_bitmap, g_cluster_free_bitmap,
            g_system_common_bitmap, g_hbm_system_common>>
vars == <<phase, turn, used, tables>>

Clusters == 0 .. NumClusters - 1
Owners   == Clusters \X (0 .. NumCores - 1)

Align == 8                    \* sizeof(alloc_block_t)
L1_SLOT_COUNT == (HEAP_END - HEAP_BASE) \div SLOT_SIZE
Slots == 0 .. L1_SLOT_COUNT - 1

\* A set of numbers, the least first.
InOrder(S) == CHOOSE s \in [1 .. Cardinality(S) -> S] :
                \A i, j \in 1 .. Cardinality(S) : i < j => s[i] < s[j]

-----------------------------------------------------------------------------
AlignDown(n) == n - (n % Align)
AlignUp(n)   == AlignDown(n + Align - 1)

(* daml_compute_core_arena *)
Share == AlignDown((HEAP_END - HEAP_BASE) \div NumCores)
CoreBase(k) == HEAP_BASE + k * Share
CoreSize(k) == IF k = NumCores - 1 THEN AlignDown(HEAP_END - CoreBase(k)) ELSE Share

(* flex_cluster_alloc_init *)
ArenaBase(k) == AlignUp(CoreBase(k))
ArenaSize(k) == AlignDown(CoreSize(k) - (ArenaBase(k) - CoreBase(k)))

\* Where the allocator of a core may start a block.
Arena(k) == {a \in ArenaBase(k) .. ArenaBase(k) + ArenaSize(k) - 1 :
               (a - ArenaBase(k)) % Align = 0}

\* The free list the allocator keeps: the gaps, lowest first (FlexAlloc).
FreeGranules(c, k) == Arena(k) \ used[c]
BlockAt(c, k, a) ==
  LET end == CHOOSE e \in a + 1 .. ArenaBase(k) + ArenaSize(k) :
               /\ (e - ArenaBase(k)) % Align = 0 /\ e \notin FreeGranules(c, k)
               /\ \A g \in Arena(k) : a <= g /\ g < e => g \in FreeGranules(c, k)
  IN  [addr |-> a, size |-> end - a]
FreeList(c, k) ==
  LET starts == {a \in FreeGranules(c, k) : a - Align \notin FreeGranules(c, k)}
      order  == InOrder(starts)
  IN  [i \in DOMAIN order |-> BlockAt(c, k, order[i])]

-----------------------------------------------------------------------------
Entries(seq) == {seq[i] : i \in DOMAIN seq}
Blocks == [addr : HEAP_BASE .. HEAP_END, size : 1 .. HEAP_END - HEAP_BASE]

TypeOK ==
  /\ phase \in {"preload", "upload", "core", "cluster", "system", "finished"}
  /\ turn \in 0 .. NumClusters * NumCores - 1
  /\ used \in [Clusters -> SUBSET (HEAP_BASE .. HEAP_END)]
  /\ \A o \in Owners : Entries(g_hbm_core_free[o]) \subseteq Blocks
  /\ g_core_free_bitmap \in [Owners -> SUBSET Slots]
  /\ g_cluster_free_bitmap \in [Clusters -> SUBSET Slots]
  /\ g_system_common_bitmap \subseteq Slots
  /\ Entries(g_hbm_system_common) \subseteq Blocks

\* After soc_daml_init_allocators_this_cluster on every cluster.
Init ==
  /\ phase = "preload" /\ turn = 0
  /\ used = [c \in Clusters |-> {}]
  /\ g_hbm_core_free = [o \in Owners |-> <<>>]
  /\ g_core_free_bitmap = [o \in Owners |-> {}]
  /\ g_cluster_free_bitmap = [c \in Clusters |-> {}]
  /\ g_system_common_bitmap = {}
  /\ g_hbm_system_common = <<>>

\* The barrier that ends a turn of a loop, and the loop after the last.
EndTurn(turns, following) ==
  IF turn + 1 = turns THEN turn' = 0 /\ phase' = following
                      ELSE turn' = turn + 1 /\ UNCHANGED phase

ClusterTurn(c)    == turn = c
OwnerTurn(c, k)   == turn = c * NumCores + k

-----------------------------------------------------------------------------
\* The first core of a cluster allocates and frees in the arenas of all.
Preload(c) ==
  /\ phase = "preload" /\ ClusterTurn(c)
  /\ \E taken \in SUBSET UNION {Arena(k) : k \in 0 .. NumCores - 1} :
       used' = [used EXCEPT ![c] = taken]
  /\ EndTurn(NumClusters, "upload")
  /\ UNCHANGED tables

\* The snapshot ends where a block is not one of the heap, or the table is full.
BadPointer(p) == p < HEAP_BASE \/ p + Align > HEAP_END \/ p % Align # 0

UploadFreeList(c, k) ==
  /\ phase = "upload" /\ OwnerTurn(c, k)
  /\ LET list == FreeList(c, k)
         good == {n \in 0 .. Len(list) :
                    /\ n <= MAX_FREE_BLOCKS_PER_CORE
                    /\ \A i \in 1 .. n : ~BadPointer(list[i].addr)}
         count == CHOOSE n \in good : \A m \in good : m <= n
     IN  g_hbm_core_free' = [g_hbm_core_free EXCEPT ![<<c, k>>] = SubSeq(list, 1, count)]
  /\ EndTurn(NumClusters * NumCores, "core")
  /\ UNCHANGED <<used, g_core_free_bitmap, g_cluster_free_bitmap,
                 g_system_common_bitmap, g_hbm_system_common>>

\* Mutant: not clipped to the slots there are.
SlotsOfUnclipped(block) ==
  {s \in 0 .. L1_SLOT_COUNT :
     /\ (block.addr - HEAP_BASE) \div SLOT_SIZE <= s
     /\ s < (block.addr + block.size - HEAP_BASE + SLOT_SIZE - 1) \div SLOT_SIZE}

\* From the slot the block starts in up to the one it ends in, rounded up.
SlotsOf(block) ==
  {s \in Slots : /\ (block.addr - HEAP_BASE) \div SLOT_SIZE <= s
                 /\ s < (block.addr + block.size - HEAP_BASE + SLOT_SIZE - 1) \div SLOT_SIZE}

BuildCoreBitmap(c, k) ==
  /\ phase = "core" /\ OwnerTurn(c, k)
  /\ g_core_free_bitmap' = [g_core_free_bitmap EXCEPT ![<<c, k>>] =
                              UNION {SlotsOf(b) : b \in Entries(g_hbm_core_free[<<c, k>>])}]
  /\ EndTurn(NumClusters * NumCores, "cluster")
  /\ UNCHANGED <<used, g_hbm_core_free, g_cluster_free_bitmap,
                 g_system_common_bitmap, g_hbm_system_common>>

BuildClusterFreeBitmap(c) ==
  /\ phase = "cluster" /\ ClusterTurn(c)
  /\ g_cluster_free_bitmap' = [g_cluster_free_bitmap EXCEPT ![c] =
                                 UNION {g_core_free_bitmap[<<c, k>>] : k \in 0 .. NumCores - 1}]
  /\ EndTurn(NumClusters, "system")
  /\ UNCHANGED <<used, g_hbm_core_free, g_core_free_bitmap,
                 g_system_common_bitmap, g_hbm_system_common>>

\* Mutant: the list is taken for full one range early.
ShownEarly(runs) == IF runs >= MAX_COMMON_BLOCKS THEN MAX_COMMON_BLOCKS - 1 ELSE runs

\* How many runs the list holds.
Shown(runs) == IF runs > MAX_COMMON_BLOCKS THEN MAX_COMMON_BLOCKS ELSE runs

\* The runs of consecutive slots, lowest first, as many as the table holds.
ToRanges(bitmap) ==
  LET starts == {s \in bitmap : s = 0 \/ s - 1 \notin bitmap}
      order  == InOrder(starts)
      end(s) == CHOOSE e \in s + 1 .. L1_SLOT_COUNT :
                  e \notin bitmap /\ \A t \in s .. e - 1 : t \in bitmap
      range(s) == [addr |-> HEAP_BASE + s * SLOT_SIZE, size |-> (end(s) - s) * SLOT_SIZE]
  IN  [i \in 1 .. Shown(Len(order)) |-> range(order[i])]

\* Mutant: the slots of any cluster are taken for common.
InAnyCluster == {s \in Slots : \E c \in Clusters : s \in g_cluster_free_bitmap[c]}

InAllClusters == {s \in Slots : \A c \in Clusters : s \in g_cluster_free_bitmap[c]}

BuildSystemCommon ==
  /\ phase = "system"
  /\ g_system_common_bitmap' = InAllClusters
  /\ g_hbm_system_common' = ToRanges(InAllClusters)
  /\ phase' = "finished"
  /\ UNCHANGED <<turn, used, g_hbm_core_free, g_core_free_bitmap, g_cluster_free_bitmap>>

Next ==
  \/ \E c \in Clusters : Preload(c) \/ BuildClusterFreeBitmap(c)
  \/ \E o \in Owners : UploadFreeList(o[1], o[2]) \/ BuildCoreBitmap(o[1], o[2])
  \/ BuildSystemCommon

Spec == Init /\ [][Next]_vars

-----------------------------------------------------------------------------
(* Properties. *)

\* The bytes of a slot, by the granules they are in, and what is free of them.
Granules(slot) == {a \in UNION {Arena(k) : k \in 0 .. NumCores - 1} :
                     /\ HEAP_BASE + slot * SLOT_SIZE < a + Align
                     /\ a < HEAP_BASE + (slot + 1) * SLOT_SIZE}

InRanges(slot) ==
  \E r \in Entries(g_hbm_system_common) :
    /\ r.addr <= HEAP_BASE + slot * SLOT_SIZE
    /\ HEAP_BASE + (slot + 1) * SLOT_SIZE <= r.addr + r.size

\* A table is full of blocks that end before a slot: it has no room for the slot's.
FullBefore(table, limit, slot) ==
  Len(table) = limit /\ \A b \in Entries(table) : b.addr + b.size <= HEAP_BASE + slot * SLOT_SIZE

StartsIn(slot, k) ==
  HEAP_BASE + slot * SLOT_SIZE \in ArenaBase(k) .. ArenaBase(k) + ArenaSize(k) - 1

\* A slot that is free in every cluster, whichever of its cores' arenas it lies
\* in, is found, unless there was no room for it: in the list of ranges, or in
\* the table of a core in whose arena the slot starts.
NoCommonSlotMissed ==
  phase = "finished" =>
    \A s \in Slots : (\A c \in Clusters : Granules(s) \cap used[c] = {}) =>
      \/ InRanges(s)
      \/ FullBefore(g_hbm_system_common, MAX_COMMON_BLOCKS, s)
      \/ \E o \in Owners : StartsIn(s, o[2])
           /\ FullBefore(g_hbm_core_free[o], MAX_FREE_BLOCKS_PER_CORE, s)

\* A slot that was found has free memory in every cluster, tables full or not.
CommonSlotsHaveSpace ==
  phase = "finished" =>
    \A s \in Slots : InRanges(s) => \A c \in Clusters : Granules(s) \ used[c] # {}

\* "slot FREE in all clusters" (soc_daml.h:85): nothing of a slot that was found
\* is allocated in any cluster.
CommonSlotsFree ==
  phase = "finished" =>
    \A s \in Slots : InRanges(s) => \A c \in Clusters : Granules(s) \cap used[c] = {}
=============================================================================
