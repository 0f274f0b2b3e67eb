# SoftHier in TLA+

SoftHier is a simulated many-cluster accelerator: a mesh of clusters, each with
a few cores, a matrix engine, a DMA engine and a local memory, joined by a NoC
and surrounded by HBM channels. `src/soft_hier/` holds the simulator's models
of those parts (C++ components and patches for GVSoC) and the C runtime that
programs are written on. The rest of the repository (`gapy`, `docs`, `examples`,
`tutorial`, DRAM configurations) is tooling, third-party code or programs that
use the runtime.

## 1. Inventory

Paths are relative to `src/soft_hier/`; *runtime* is
`flex_cluster_sdk/runtime/include/`.

| Component | State | Operations | What makes it correct |
|---|---|---|---|
| Cluster registers (`flex_cluster/cluster_registers.cpp`) | status bits of the cores; a one-bit wake-up token; the held store; a broadcast request it reuses | `barrier_sync`, `req` (wait, wake), `global_barrier_sync` | a core is released exactly when all are there; no wake-up lost, duplicated or merged; the request is free when reused |
| Tree barriers (*runtime* `flex_runtime.h`) | a counter per row and one for the mesh; iteration words | `flex_barrier_xy_init`, `flex_global_barrier_xy`, `..._polling` | nobody leaves before everybody came; every call returns; a counter is cleared when no new arrival is in it |
| One-counter barriers (same file) | one counter, one iteration word | `flex_barrier_init`, `flex_global_barrier`, `..._polling` | the same, with the two kinds mixed |
| Group barriers (*runtime* `flex_group_barrier.h`) | counters and iteration words of each group, in its own clusters | `grid_sync_group_init`, two barriers | the same for each group; groups do not disturb each other or the global barriers |
| Heap allocator (*runtime* `flex_alloc.h`) | a sorted free list in the memory it manages; a canary per block | malloc, free, init | blocks disjoint and inside the heap; the list sorted and coalesced; sizes do not wrap |
| Distributed allocation (*runtime* `soc_daml.h`) | snapshots of free lists, bitmaps per core, cluster and system, common ranges | init, upload, build, combine, compress | every slot free in all clusters is reported; a reported slot has free memory in each |
| Matrix engine (`flex_cluster/light_redmule.cpp`, *runtime* `flex_redmule.h`) | FSM, queue of outstanding requests, iteration, address generators, buffers, held load | configure, trigger, wait, FSM steps | every row of the result is computed from its own operands and stored once before the wait is answered; each wait is answered; the queue is bounded |
| Collective NoC (`gvsoc_pulp.patch`, FlooNoC part) | router queues, stalls, kids of split requests | inject, route, split, gather, grant, answer | each selected target gets a request exactly once; each initiator one answer; a reduction takes each cluster once |
| HBM controller (`flex_cluster/hbm_ctrl.cpp`, the mappings of `flex_cluster.py`) | none but the address map | `req_muxed` | an address is one place, whichever cluster asks and whichever node it asks |
| DMA engine (`gvsoc_pulp.patch`, iDMA part) | transfer ids, bursts in flight, reorder buffer | enqueue, burst, answer, complete | bytes arrive in order; ids complete in order |
| TCDM interleaver (`flex_cluster/hwpe_interleaver.cpp`) | none but the address map | `req` | the map is injective |
| Control registers (`flex_cluster/ctrl_registers.cpp`) | queue of timed wake-ups, preload state | `req`, timed events | every core is woken once, after the preload |
| DRAM bridge | pending requests | send, answer | each request answered once |

Interactions: programs call the runtime; the runtime stores to registers of the
cluster, reads a CSR that raises the barrier line of its core, and does atomics
on words of the synchronisation memory of other clusters over the
synchronisation NoC. The wake-up register sends one collective request over that
NoC, which calls `global_barrier_sync` in each selected cluster, which answers a
store that a core may be blocked on. The DMA engines use a second NoC of the same
kind, which also reaches the HBM nodes at the edge of the mesh. The matrix engine
reads and writes the local memory of its cluster; a core starts it with stores
and waits with a load that the engine holds.

What is hard: the runtime runs on every core at once and all of it is shared
memory and asynchronous delivery. Nothing is persistent, so there is no crash
recovery. `PROJECT.json` lists the hazards at their lines.

## 2. Modules

    ClusterGrid            the mesh, the cores
      ClusterCores         program counters; the barrier among a cluster's cores
        FlexBarrierXYPolling          (implements Barrier)
        ClusterRegisters   wait-for-wakeup token, wake-up broadcasts
          FlexBarrierXY               (implements Barrier)
          FlexGlobalBarrier           (implements Barrier)
          FlexGroupBarrier            (implements GroupBarrier)
    Barrier, GroupBarrier  what a barrier promises

    Heap                   what an allocator promises
    FlexAlloc              (implements Heap)
    SocDaml                free memory common to all clusters

    MatrixEngine           what the matrix engine promises
    LightRedmule           (implements MatrixEngine)

    NocRouting             positions, and where a router sends a request
      HbmMap               where an address of the HBM is
        CollectiveNoc      queues, splits, answers   (implements Multicast)
    Multicast              what the NoC promises

Beside a model `M`, `MInv` has its inductive invariant, which extends `M`, and
`MProofs` its theorems, which extends `MInv`. The four barriers, the allocator,
the distributed allocation and the matrix engine have both; `ClusterCoresInv` and
`ClusterCoresProofs` hold what all barriers share. The invariants are in modules
of their own so that TLC can check them without the proof library.

**ClusterCores** and **ClusterRegisters** model `cluster_registers.cpp`.
Their operators are parts of actions: the barrier modules conjoin them with what
happens in the program. `SyncCores` is a read of CSR 0x7C2: the core raises its
barrier line (`barrier_sync`) and stalls; the core that completes the set clears
`barrier_status` and releases them all in the same step, as `barrier_ack` does
within the call. `WaitForWakeup` is the store to offset 0, with its three
outcomes (token taken, held, or answered at once because another is held).
`SendWakeup` is the store to offset 28: the request goes to the NoC and the store
is answered at once. `wakeup[s]` is the set of clusters the broadcast of `s` has
still to reach; `GlobalBarrierSync` delivers one of its copies, in any order and
at any later time.

**FlexBarrierXY**, **FlexBarrierXYPolling**, **FlexGlobalBarrier** and
**FlexGroupBarrier** have one action per store, load or atomic of the C
functions, named for it (`AmoX`, `ResetX`, ...). The label in `pc` of a data
mover is the next memory operation it does; other cores only synchronise. A loop
that polls is a step that is enabled when the loop would end: reads that find the
old value change nothing. Loads of read-only registers, address arithmetic and
annotations for the log are folded into the next operation. The words of the
sync memory start with garbage where no code initialises them.

FlexGlobalBarrier lets a program mix the waiting and the polling barrier, since
both count in the same word. FlexGroupBarrier runs a program of global, group
and polling group calls; its words are indexed by the cluster they live in and
their offset, computed as `grid_sync_group_init` does, so that a word counted in
the wrong place would show. Core 0 of a cluster clears its two words before its
own first call (`init`), while the other cores of the cluster go on.

**Barrier** and **GroupBarrier** are the specifications: two counters per
participant, and leaving a call requires that every (peer) participant has
entered it. `entered` and `left` are history variables of the detailed
specifications with the same meaning, so the refinement mapping is the identity.

**FlexAlloc** models `flex_alloc.h` for one caller: the memory of the heap word
by word, with the list entries, the headers and the caller's data in it, so that
a wrong link or a wrong size would damage something. Each turn of a loop over
the list is a step; the end of a call, from the test that ends the loop to the
return, is one. `TakeWhole` and `Split` are the two branches of
`allocate_memory`; `Insert` is the rest of `free_memory` once the position is
found, with the two merges in the order of the code. Sizes are computed modulo
the width of a word. `call`, `allocated` and `result` are history variables,
those of **Heap**, which `FlexAlloc` implements with the sizes `BlockSize` gives:
first fit, NULL only when nothing fits. `Overrun` is a caller that stores one
word too far, the error the canary is there for.

**SocDaml** models `soc_daml.h`: the tables in HBM and the functions that fill
them. Every function runs on one core, between two global barriers of
`main_soc_daml_test.c`, so each is one step and `turn` follows the loops of the
program. The state of the heaps is chosen freely (`Preload`), as any sequence of
allocations and frees may leave them; `FreeList` derives the list the allocators
then have, which `ListIsGaps` of `FlexAlloc` justifies. An arena is a core's share
of the heap (`CoreBase`, `CoreSize`), its base rounded up as `flex_cluster_alloc_init`
does. A bitmap is the set of its slots.

**LightRedmule** models `light_redmule.cpp` as `flex_redmule.h` drives it:
`Configure`, `Trigger`, `AsyncTrigger`, `SyncTrigger` and `Wait` are the core's
stores and loads (it may also configure and trigger an engine that is running,
which ignores it), `Activate` is a call of `fsm_handler`, `Acknowledge` the one in
state `ACKNOWLEDGE`, which answers the held load. A call sends at most one access
(`Access`, which is `next_addr` and `process_iter_instruction`) and receives any
number of the answers due, so memory latency is arbitrary. Data are abstracted
to where they came from: a row in a buffer is the address it was read at, how
much of it was read, and what lies under a short row; a row of the result is the
row of Y it starts from and the list of products that were added. So a stored
row tells which operands went into it, and `IsResult` compares it with the
definition of the product. **MatrixEngine** is the specification: between a
trigger and the answer of the wait, each row of the result is written once.

**NocRouting** has the mesh and the decisions of a router: `get_next_router_pos`
for a request to one target, `collective_analyze` for one to many. **HbmMap** has
the address arithmetic of the network interfaces and of `hbm_ctrl`.
**CollectiveNoc** has the state: an activation of `fsm_handler` of a router
serves the head of each of its five input queues and then of the five queues of
generated kids, in the order of the code, and one action is all of that.
`handle_request_end` goes up the tree of parents in the step that ends the last
kid, as the recursion in the code does. `Inject` is a network interface, `Grant`
and `Respond` are a target. The parts of the routers that the patch leaves as they
were are not in the repository; `Enqueue`, `Pop` (which opens the sender's output
again when its queue was over-full), `Grant` and the queue a router starts
with are modelled from how the patch uses them and marked external. **Multicast**
is the specification: a request reaches each of its targets once and is answered
when all have answered.

## 3. Runs

| Run | Instance | Shows |
|---|---|---|
| `xy_two_rounds` | 2x2 clusters, 2 cores, 2 calls | safety of the tree barrier and of its wake-ups, the inductive invariant of the proofs, every call returns; refinement of Barrier; two calls are what a stale counter, a stale token or a reused request needs |
| `xy_polling` | 2x2, 1 core, 3 calls, iteration words modulo 3 | the words wrap around within the run, from every initial value; every call returns; refinement of Barrier |
| `global_mixed` | 3x1, 2 cores, 3 calls, the second polling | the shared counter survives each change of kind; every call returns; refinement of Barrier |
| `group_ahead` | 2x2 cut into two columns, 4 calls: global, group, group, global | a group two calls ahead of the other; wake-ups of groups and of the mesh on the same registers; every call returns; refinement of GroupBarrier |
| `group_cut` | 3x1 cut into a pair and a single, 2 cores, core 0 not the data mover: global, poll, group | counts at the border; the initialisation by another core than the one that counts; refinement of GroupBarrier |
| `alloc` | 4 granules from an unaligned base, 16-bit words, requests of 1, 2 and 3 granules and one too large, a caller that overruns | the free list is the gaps, blocks are disjoint, no call changes a caller's data, every call returns; refinement of Heap; a block whose header was overwritten is leaked, not merged |
| `alloc_wrap` | a request at the limit of the word | violated: see section 5 |
| `daml` | 2 clusters of 2 cores, 7 granules, 3 slots and a rest, tables of 1 | a slot free everywhere is found, unless a table was full before it; a slot full somewhere is not, tables full or not |
| `daml_free` | 6 granules, 3 slots | violated: see section 5 |
| `redmule` | tiles of 2 x 2, queue depth 2, three shapes (less than a tile; cut in every direction; whole), 16-bit, 8-bit and no format, two operations, a core that also configures and triggers a running engine | the software pipeline of loads, products and stores is in step at every border; refinement of MatrixEngine |
| `noc` | 4x4 mesh, two requests at a time out of a reduction, a broadcast, a single one and 22 to the HBM, west nodes that deny | no queue ever holds two copies of a request, so none is over-full, and outputs stall only for the nodes that deny; kids are accounted for, a reduction takes each cluster once, an HBM address is one place for all; everything is answered; refinement of Multicast |
| `noc_east` | 2x2 mesh with channels in the east | violated: see section 5 |

Bounds: `NumX`, `NumY`, `Cores`, `Rounds` (calls per core), `Garbage` (initial
values of an uninitialised counter; one that is not zero is the case that can go
wrong, and the algorithm compares a counter with one value only), `IterationMod`
(2^32 in the code). Two clusters per row and two rows are the least where the
first, the last and the leader differ at both levels; the runs on 3x1 add a
cluster that is none of them, and the proofs hold for every mesh. A single core
per cluster removes interleavings inside a cluster, which the two-core runs
cover. The counters of the `history`
variables are bounded by `Rounds`.

In `group_ahead` and `group_cut` the words of the groups start
with the same garbage in every cluster, to keep the initial states few.

Allocator: four granules hold blocks with free ones before and after them, which
is what the two merges of a free need. A word of 16 bits with
a canary of 8 keeps the ratio that the checks on sizes depend on while every
address stays distinct from every canary that `Overruns` writes. `Data` has
32, which looks like a size or an address, and zero, which looks like NULL.

Distributed allocation: two clusters and two cores are the least for an OR that
differs from an AND; an arena ends inside a slot. Tables of one entry are full
after the first block or range, and many states of the heaps have two free blocks in
an arena, or two common runs, so both kinds of table overflow.

Matrix engine: one shape is smaller than a tile in each dimension, one needs
several tiles with a rest in each, one is a multiple of the tile; the three, in
two operations, give every change from one to another, with both mappings of the
tiles in memory and buffers that start clear or not. A core that writes to a
running engine does so at any moment of an operation. `Formats` has one of two
bytes, one of one byte, which doubles the depth of a tile, and none.

NoC: two columns and two rows that a request selects, with others between them
and beyond, need a mesh of four by four. `MaxRequests` of two lets any two
requests meet; an interface has one outstanding. Two requests cannot fill a queue
sized for all the interfaces; `QueuesHaveRoom` therefore says of every queue that it
has no more than one copy of each request, whatever was split before, from which the
bound follows for any number of them. `Addresses` has one granule or
two of every part of the map: both nodes of a pair that share addresses, both
pairs of a controller, granules of one channel and of others, and banks of one bit
and of two, scrambled by the digits above them.

Deadlock is checked in every run but those of `SocDaml`, whose program ends: a
barrier in which everybody waits on everybody would be one. `Terminating` lets
a program that is over stutter.

Fairness: the tree barrier, the group barriers and the NoC assume the weakest,
weak fairness of `Next`: as long as something can move, something does. It is
enough because everything they do is bounded by the program, so no part can
starve another for ever. The other barriers assume weak fairness of each core and
of each delivery. A simulated core executes an instruction per cycle unless it
stalls, and a program calls the barrier the same number of times on every core, so
a core that can move does. That a wake-up is delivered is an assumption of the
barriers on the NoC, which `CollectiveNoc` justifies: a broadcast reaches each
selected cluster once (`ImplementsMulticast`) and everything is answered
(`AllAnswered`). No strong fairness is needed: nothing that is waited for is ever
withdrawn. For the allocator, the core that called goes on executing; for the
matrix engine, its clock runs and memory answers; that anything is called at all
is assumed of neither.

## 4. Proofs

The theorems hold for every value of the constants that satisfies the named
assumptions of the modules (`GridAssumption`: the dimensions are positive and the
data mover is a core; `NullAssumption`; `RoundsAssumption`; `GarbageAssumption`;
`ProgramAssumption`; ...), which TLC evaluates on every run. Some need one
hypothesis more, stated in the theorem; every passing run of its module satisfies it:

| Hypothesis | Of | Why |
|---|---|---|
| `FirstIsGlobal` | `FlexGroupBarrier` | a program's first call is a global barrier, as in `hello_world`. Nothing in `grid_sync_group_init` keeps a fast cluster from counting in words that another one has still to clear; the global barrier does |
| `RequestsFit` | `FlexAlloc` | no request is so large that the size of its block wraps around; `alloc_wrap` (section 5) shows what happens otherwise |
| `OverrunsCaught` | `FlexAlloc` | what a caller writes over the next header does not happen to have that header's canary in its low byte, which is all that one byte can promise |
| `HeapAligned` | `SocDaml`, `NothingMissed` and its part of the invariant only | the heaps begin at a multiple of the alignment, and a slot holds a block |

| Module | Theorems |
|---|---|
| `FlexBarrierXYProofs` | `TypeCorrect`, `BarrierCorrect`, `WakeupsCorrect`, `MasterRequestCorrect` (an action property), `BarrierRefinement` |
| `FlexBarrierXYPollingProofs` | `TypeCorrect`, `BarrierCorrect`, `ResetsCorrect`, `IterationsCorrect`, `BarrierRefinement` |
| `FlexGlobalBarrierProofs` | `TypeCorrect`, `BarrierCorrect`, `WakeupsCorrect`, `ResetsCorrect`, `BarrierRefinement` |
| `FlexGroupBarrierProofs` | `TypeCorrect`, `GroupCorrect`, `WakeupsCorrect`, `ResetsCorrect`, `GroupRefinement` |
| `FlexAllocProofs` | `TypeCorrect`, `ListCorrect`, `DataCorrect`, `UserDataCorrect` (an action property), `HeapRefinement` |
| `SocDamlProofs` | `TypeCorrect`, `SpaceCorrect`, `NothingMissed` |
| `LightRedmuleProofs` | `TypeCorrect`, `PipelineCorrect`, `EngineRefinement` |

Each module also has `Invariance`, `Spec => []IInv`, from which the rest follow.
With them, every safety invariant that a run checks of these seven models is proved,
and every refinement except for liveness. `BarrierRefinement`, `GroupRefinement`,
`HeapRefinement` and `EngineRefinement` conclude `SafeSpec`, the abstract specification without its
fairness.

**What the barriers share** (`ClusterCoresProofs`). `SyncInv`: the cores of a
cluster have passed the same number of intra-cluster syncs (`Syncs`), and the
status bits are those of the held cores. So what the data mover has done, every
core of the cluster has entered. `Passed(c)` is how many barriers the data mover
of `c` is past; a barrier shows that nobody has passed one that somebody has still
to enter (`NobodyAhead`), and `NobodyAheadIsSafe` and `LeaveCallImplements`
turn that into the safety property and the refinement: the first sync maps to
`Enter` of the abstract barrier, a second sync that releases a cluster to `Leave`
of its cores, and the rest to stuttering.

**FlexBarrierXY.** `BarrierSafety` is not inductive: it says nothing of tokens,
counters or leaders. `IInv` adds `WakeInv` (for each cluster, wake-ups issued =
consumed + token + in flight, with at most one outstanding; this is what makes a
one-bit token and a reused request object enough), `InitInv` (before the first
wake-up only cluster 0 acts, and the counters it has passed are zero) and
`MeshInv` (each counter equals the number of clusters, or rows, counted in the
current call until its leader clears it, and there is at most one leader of a
row, and one of the mesh, only when all are counted). A wake-up is issued by the
leader of the mesh, when all clusters are counted (`WakeupsNeedEveryone`), hence
waiting (`AllWaiting`), hence entered.

**FlexBarrierXYPolling.** Rows run apart: the leader of one may have read the
word of the column while another still polls. No variable says how many barriers
have been announced, since the iteration words wrap around. So the invariant says
that such numbers exist: `\E g, r` with `g` for the mesh and `r[y]` for row `y`,
where `r[y]` is `g`, or `g - 1` while its leader is on its way (`RowInStep`), and
`Passed(c)` is `r[RowOf(c)]`, or one less while `c` polls (`InStep`). Everything
else is a function of `g`, `r` and the program counters: the words (`Remembered`)
and the counters (`RowCounts`, `MeshCounts`). A step keeps `g` and `r`, but the two
that advance an iteration word, which add one. One such step changes a word by
one modulo `IterationMod`, which is more than 1 (`IteratedChanges`), so a poll for a
change sees it even when it wraps.

**FlexGlobalBarrier.** The same with one number `g`, which a broadcast or an
advance of the iteration word increases. `Owed(c, g)` says that a wake-up is due
to `c`; token and broadcasts in flight are exactly what is owed (`Woken`), so a
polling call, which owes none, cannot leave a token behind that would end a later
wait. `Waits(g)`, the barriers below `g` that do not poll, gives the history of
wake-ups.

**FlexGroupBarrier.** `g` and `r` are per cluster: `g[c]` is how many barriers have
ended for the group of `c`, `r[c]` how many its row of the group has announced.
`Grouped` says that the clusters of a group agree on them, and that nobody is past
a global call that another is not. The counters of the two kinds of
call are the same predicates (`RowCounts`, `TeamCounts`) over `Team(kind, c)` and
`TeamRow(kind, c)`: the mesh and its rows, or the group and its rows. That every
step disturbs at most one row and one team rests on geometry: a group is a
rectangle, cut off at the border or not (`Rectangle`, `TeamSizes`), the clusters
that hold its words are in it (`SyncClusters`), two rows or teams have the same word
only if they are the same (`WordFacts`), and the masks of the broadcast select the
group (`MaskFacts`). `Initialised` uses `FirstIsGlobal`: whoever is in a call of
its group is past a global one, which every core 0 entered after it had cleared
its words.

**FlexAlloc.** `IInv` is `TypeOK`, blocks of whole granules inside the heap
(`BlockInHeap`), apart from each other (`BlocksApart`), the property `ListIsGaps`
itself, and `Walk`: the position of a running call is a gap of the list, those
before it are too small for it or before its block, and `curr` is what `prev` links
to. The gaps are defined from the blocks alone, so the two merges of a free and the
two branches of `allocate_memory` become statements about which gaps appear and
vanish when a block does. That a sorted walk ends at the last gap before an address
needs the least element of a set of numbers (`WFMin` of the well-ordering
theorems).

**SocDaml.** `IInv` says of every table what the earlier tables make of it once its
turn is over (`TablesBuilt`); an upload may end early (`IsUploaded`) when it meets a
pointer outside the heap or its table is full. `SpaceCorrect` then follows a slot back through the
bitmaps of the system, the clusters and the cores to an entry of a free list, and
`NothingMissed` follows it forward. A slot that is free in every cluster may be
missing for two reasons only, both a table without room for it (`FullBefore`): the
ranges, which are listed from the lowest slot on, or the free list of a core in whose
arena the slot starts, whose blocks come in the order of addresses, and which are then
full of what lies before the slot.

**LightRedmule.** `PipelineInStep` is about the start of an iteration only; to be
inductive it needs what is true in the middle of one. `EngineInv(e, st, c)` says it
of an engine `e` in state `st` after `c` accesses, as a function of the iteration
(`i`, `j`, `k`) and of how many blocks of each operand are still to send:

- `Progress`: blocks planned for this state and blocks left add up, and operands are
  sent in the order of `next_addr`;
- `Addresses`: each address generator is at the next row of its tile: W of this
  iteration, X and Y of the next, Z of the tile before (`Ahead`, `Behind`);
- `Operand`, `YBuffer`, `Computed`, `Previous`: `x_buffer` is of this iteration until
  its multiplication and of the next one after it (`Multiplied`); each sum has
  exactly the terms of the iterations before, and what lies behind a cut row is zero
  or, before the first multiplication after a reset, what the buffers were allocated
  with;
- `Stored`: the rows that are stored are those of the tiles before this one, the last
  of them as far as it is sent (`Done`), each once.

The proof has two halves. An access keeps `EngineInv` (`AccessStep`, with a lemma for
each conjunct: `AddressesStep` to `StoredStep`). The end of a state turns it into what the
next state begins with: `Ready` says what an engine has between two states, so that
`PRELOAD` to `ROUTINE`, one iteration to the next, and `ROUTINE` to `STORING` each
show `Ready` once and plan from there (`PreloadReady`, `RoutineReady`, `RoutineStart`,
`StoringStart`). Both rest on three facts of arithmetic: a tile is cut only at the
border (`TilesFacts`, `TileOfIndex`); the generator's steps visit the rows of a tile
in both layouts of memory (`TileBase`, `NextRow`); and two rows of tiles lie at one
address only if they are the same (`LocationInjective`). The last is why a Y row read
ahead has not been overwritten (`FreshRow`) and why as many rows are final as were
stored (`StoredResults`), from which `EngineRefinement` maps a step that stores a row to
`Write`, the acknowledgement to `Answer`, and every other activation to stuttering.
A trigger or a configuration of a running engine maps to stuttering: it finds the
engine busy (`BusyStays`), which accepts neither.
X and W may lie anywhere: that they do not overlap the result is the caller's part
and no hypothesis of the theorems, which say only from where each operand was read.

Only model-checked:

- all liveness: fairness and ENABLED are out of the prover's reach. So
  `ImplementsBarrier` and its likes are proved without their fairness;
- `CollectiveNoc`: `TypeOK`, `QueuesHaveRoom`, `KidsAccounted`, `ReducedOnce`,
  `OnePlacePerAddress` and the refinement of `Multicast`. An activation of a router is
  a fold over its queues, and an answer a fold up a tree of splits whose depth depends
  on the mesh. What a fold computes is shown by induction over data, which the
  provers cannot do. The scrambling of banks in `HbmMap` is a sum over digits, with
  the same difficulty;
- the properties of the three runs that are violated.

The invariants of the seven models were checked by TLC on the small instances of
section 3 before they were proved; `xy_two_rounds` keeps its own as part of the run.

## 5. Where the code disagrees with its comments

- `alloc_wrap`, `RequestsBounded`. `domain_malloc` (`flex_alloc.h:200`) adds the
  header and rounds up in 32 bits before it compares with the largest block. A
  request of 2^32 - 11 bytes or more wraps to a block of 0 or 8 bytes, passes and
  is granted; the comment and the message next to the check say it is refused.
- `daml_free`, `CommonSlotsFree`. `soc_daml_build_core_bitmap`
  (`soc_daml.h:265`) rounds the start of a free block down and its end up, so a
  slot that is partly allocated counts as free. The comments on the bitmaps say
  "slot FREE". What does hold is weaker, `CommonSlotsHaveSpace`: some of the slot
  is free in every cluster. One allocation is enough: the header makes its size
  no multiple of a slot.
- `noc_east`, `ReachesItsNode`. `get_next_router_pos` (`gvsoc_pulp.patch:765`)
  keeps a request to the nodes in the east inside the mesh until it is in their
  row, but compares with `dim_x + 1`, while `dim_x` already counts the border. The
  request leaves the mesh in its sender's row and the node there serves it. The
  test for the west is right, and the shipped configurations place no channels in
  the east (`ImplementsMulticast` holds in `noc`, which has none there either).

## 6. Not modelled

The heap in HBM when several cores call it: the code takes no lock, and
`FlexAlloc` has one caller. A second free of a block: no comment or test says
what it does. The program's broadcast into a common range, and the locks of
`soc_daml.h`, which nothing takes.

The barriers assume that a broadcast reaches each selected cluster once, after an
arbitrary delay, and that atomics on the synchronisation memory are atomic and
answered before the core goes on (a core blocks on the answer to a store). The
first is what `CollectiveNoc` shows; the two are not composed in one model, whose
states would be their product. The core's stall logic, which belongs to the
third-party instruction-set simulator, is modelled from how it is used. The
register that annotates barriers only logs. Dimensions of groups that are not
powers of two are left out: `grid_sync_group_init` returns an information record
marked invalid for them, which no program passes on.

Matrix engine: the values of elements (a product is the list of its operands),
cycles, and the registers at offsets 0 to 24, which the runtime does not use.
What lies behind a cut row in a buffer is taken to multiply to zero once the
buffer was cleared, as it is after each product. The first operation after a
reset is the exception, since the buffers are allocated and not cleared: where its
rows of X and columns of W are cut, it multiplies what the memory held and adds that to
its result. `RestIsZero` excepts that operation. Format 4 is left out, for which
`process_compute` does nothing and which `flex_redmule.h` never sends.

NoC: bandwidth, latency and the splitting of a burst into requests, which only
repeat `Inject`; the interleaving of addresses in the interface, which
`flex_cluster.py` never enables. A queue holds at most one copy of each request
(`QueuesHaveRoom`) and is sized for all that the interfaces may have outstanding,
so no router stalls on a full queue. That matters, since a request that ends or is
split leaves its queue without opening the sender's output. The retry path is
taken only behind a target that denies: in `noc` nodes at the border, where requests
to many do not go. If the entry of a cluster denied a request, the path would go
wrong: the direction a router has found is written into the request
(`gvsoc_pulp.patch:480`) before the output is tested, and for a copy that is for this
cluster alone it is `MOMENTUM_ZERO`, which stands for a request at its initiator; when
it is retried it is split in all directions, and targets are served twice. A cluster in
`Denying` shows it (`ImplementsMulticast` then fails). The repository has no component
of a cluster that denies, and the platform's router at its entry is not in it;
`global_barrier_sync`, which synchronisation broadcasts call, never does.

A kid of a reduction starts as a copy of the initiator's buffer and adds what that
held; `ReducedOnce` counts the clusters' data only. `HbmAssumption` asks for more than the assertions of
`flex_cluster.py`: that aliased nodes divide the nodes of a controller.

DMA engine: the patch changes parts of an engine whose middle end and whose
state machines are not in the repository. When a transfer starts and a burst is
sent cannot be told from what is here. TCDM interleaver: it forwards each access
at once and keeps no state. Control registers: the offsets of the timed wake-ups
are written by no code of the runtime. The DRAM bridge adapts a third-party
simulator. Applications, tutorials and examples are programs on the runtime, and
most of the repository's lines (binary-format headers under `gapy`, vendored
tools) are third-party: the models cover the part that is SoftHier's own, and a
small share of all the files. `PROJECT.json` gives the reason for each component.

## 7. What is left

Proofs: `OnePlacePerAddress` without scrambling of the banks is arithmetic on
`NodeFor` and `req_muxed` and could be a lemma on `HbmMap`. `KidsAccounted` needs a
form of `handle_request_end` without a fold: which ancestors end is a question about
`pend_kids` along a path, but the data of a reduction are a sum along it.

Model, if the code grows: the heap in HBM with several callers once it takes a
lock, and the DMA engine once its middle end is in the repository.
