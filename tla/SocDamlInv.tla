----------------------------- MODULE SocDamlInv -----------------------------
(***************************************************************************)
(* The inductive invariant of SocDaml: whoever has had its turn in a loop   *)
(* has the table that the heaps and the tables of the loop before give it.   *)
(***************************************************************************)
EXTENDS SocDaml

\* The heap starts at a block, and a slot has room for one.
HeapAligned == HEAP_BASE % Align = 0 /\ Align <= SLOT_SIZE

\* The program is in a loop after this one, or in this one after turn t.
Later(loop) ==
  CASE loop = "preload" -> {"upload", "core", "cluster", "system", "finished"}
    [] loop = "upload"  -> {"core", "cluster", "system", "finished"}
    [] loop = "core"    -> {"cluster", "system", "finished"}
    [] loop = "cluster" -> {"system", "finished"}
    [] loop = "system"  -> {"finished"}
Done(loop, t) == phase \in Later(loop) \/ (phase = loop /\ t < turn)

TurnOf(o) == o[1] * NumCores + o[2]

\* What an upload leaves: as much of the list as the table holds and as has
\* good pointers.
IsUploaded(table, c, k) ==
  /\ Len(table) <= Len(FreeList(c, k)) /\ Len(table) <= MAX_FREE_BLOCKS_PER_CORE
  /\ table = SubSeq(FreeList(c, k), 1, Len(table))
  /\ HeapAligned /\ Len(table) < MAX_FREE_BLOCKS_PER_CORE =>
       Len(table) = Len(FreeList(c, k))

TurnsInRange ==
  /\ phase \in {"preload", "cluster"} => turn \in Clusters
  /\ phase \in {"system", "finished"} => turn = 0

TablesBuilt ==
  /\ \A o \in Owners :
       /\ Done("upload", TurnOf(o)) => IsUploaded(g_hbm_core_free[o], o[1], o[2])
       /\ Done("core", TurnOf(o)) =>
            g_core_free_bitmap[o] = UNION {SlotsOf(b) : b \in Entries(g_hbm_core_free[o])}
  /\ \A c \in Clusters : Done("cluster", c) =>
       g_cluster_free_bitmap[c] = UNION {g_core_free_bitmap[<<c, k>>] : k \in 0 .. NumCores - 1}
  /\ Done("system", 0) => /\ g_system_common_bitmap = InAllClusters
                          /\ g_hbm_system_common = ToRanges(InAllClusters)

\* The owners take their turns after the heaps are as they stay.
TablesTyped ==
  /\ g_hbm_core_free \in [Owners -> Seq(Blocks)]
  /\ \A c \in Clusters : used[c] \subseteq UNION {Arena(k) : k \in 0 .. NumCores - 1}

IInv == TypeOK /\ TablesTyped /\ TurnsInRange /\ TablesBuilt
=============================================================================
