---------------------------- MODULE LightRedmule ----------------------------
(***************************************************************************)
(* The matrix engine of light_redmule.cpp, driven by one core through      *)
(* flex_redmule.h: Z = Y + X * W, tile by tile, in the place of Y.         *)
(*                                                                         *)
(* Each activation of fsm_handler is a step.  Memory is accessed row by    *)
(* row of a tile; what a buffer holds of a row is the address it was read  *)
(* from, so that a result shows which operands went into it.               *)
(*                                                                         *)
(* The latency of a memory access is any: an activation receives some of   *)
(* the answers that are due, in order.  Sizes count elements, addresses    *)
(* bytes.                                                                  *)
(***************************************************************************)
EXTENDS Naturals, Sequences

CONSTANTS
  ce_height,      \* rows of a tile
  TileWidth,      \* ce_width * (ce_pipe + 1)
  bandwidth,      \* bytes of a memory access
  queue_depth,
  Shapes,         \* what the core passes to flex_redmule_config: [m, n, k]
  Formats,        \* the formats of flex_redmule_trigger, REDMULE_NONE_16 = 0
  X, W, Y,        \* the addresses of the operands
  MaxOps          \* bound: operations the core starts

ASSUME EngineAssumption ==
  /\ ce_height \in Nat \ {0} /\ TileWidth \in Nat \ {0}
  /\ bandwidth \in Nat \ {0} /\ bandwidth % 2 = 0
  /\ queue_depth \in Nat /\ MaxOps \in Nat
  /\ Shapes \subseteq [m : Nat \ {0}, n : Nat \ {0}, k : Nat \ {0}]
  /\ Formats \subseteq (0 .. 7) \ {4}    \* flex_redmule_trigger has no format 4
  /\ X \in Nat /\ W \in Nat /\ Y \in Nat

VARIABLES
  fold_tiles_mapping,  \* constant: the rows of a tile lie one after the other
  state, fsm_counter, tcdm_block_total,
  pending,        \* pending_req_queue: how many accesses are not answered
  redmule_query,  \* the core's load from the wait register is held
  shape,          \* m_size, n_size, k_size
  compute_able, elem_size,
  engine,         \* the iteration, the address generators and the buffers
  driver,         \* what the core does: "free", "configured", "running", "waiting"
  ops             \* operations started so far

fsm == <<state, fsm_counter, tcdm_block_total, pending, engine>>
registers == <<shape, compute_able, elem_size>>
vars == <<fold_tiles_mapping, fsm, redmule_query, registers, driver, ops>>

States == {"IDLE", "PRELOAD", "ROUTINE", "STORING", "FINISHED", "ACKNOWLEDGE"}
Operands == {"y", "w", "x", "z"}

-----------------------------------------------------------------------------
(* The tiles of an operation. *)

Least(a, b) == IF a < b THEN a ELSE b
Tiles(size, tile) == size \div tile + (IF size % tile > 0 THEN 1 ELSE 0)
Cut(size, tile, index) == Least(size - index * tile, tile)

\* Elements of a row of X, and rows of W, that one access brings.
TileDepth == bandwidth \div elem_size

x_row_tiles == Tiles(shape.n, TileDepth)
z_row_tiles == Tiles(shape.k, TileWidth)
z_col_tiles == Tiles(shape.m, ce_height)

\* Tiles of the result go row by row; those of X and W that add to one, k by k.
NextTile(i, j) == IF j + 1 = z_row_tiles THEN <<i + 1, 0>> ELSE <<i, j + 1>>
PreviousTile(i, j) == IF j = 0 THEN <<i - 1, z_row_tiles - 1>> ELSE <<i, j - 1>>

next_iteration(e) ==
  IF e.k + 1 = x_row_tiles
  THEN [e EXCEPT !.i = NextTile(e.i, e.j)[1], !.j = NextTile(e.i, e.j)[2], !.k = 0]
  ELSE [e EXCEPT !.k = @ + 1]

calculate_tile_base_address(base, stride, height, width, i, j) ==
  base + elem_size * (IF fold_tiles_mapping
                      THEN (i * Tiles(stride, width) + j) * width * height
                      ELSE i * height * stride + j * width)

inc_addr(addr, stride, width) ==
  addr + elem_size * (IF fold_tiles_mapping THEN width ELSE stride)

-----------------------------------------------------------------------------
(* What is accessed in each state: blocks of each operand, from an address. *)

NoBlocks == [o \in Operands |-> 0]
Total(blocks) == blocks["y"] + blocks["w"] + blocks["x"] + blocks["z"]

Preload(e) ==
  [e EXCEPT !.blocks = [NoBlocks EXCEPT !["x"] = Least(shape.m, ce_height),
                                        !["y"] = Least(shape.m, ce_height)]]

WRows(k) == IF k = x_row_tiles - 1 /\ shape.n % TileDepth > 0
            THEN shape.n % TileDepth ELSE TileDepth

\* The tile before this one is stored while the first operands are computed.
StoresPrevious(e) == e.k = 0 /\ <<e.i, e.j, e.k>> # <<0, 0, 0>>

Routine(e) ==
  LET next == next_iteration(e)
      last == next.i = z_col_tiles
      lastOfTile == e.k = x_row_tiles - 1
      previous == PreviousTile(e.i, e.j)
  IN  [e EXCEPT
         !.blocks = [o \in Operands |->
            CASE o = "w" -> WRows(e.k)
              [] o = "x" -> IF last THEN 0 ELSE Cut(shape.m, ce_height, next.i)
              [] o = "y" -> IF last \/ ~lastOfTile THEN 0
                            ELSE Cut(shape.m, ce_height, next.i)
              [] o = "z" -> IF StoresPrevious(e) THEN e.z_store.height ELSE 0],
         !.addr = [o \in Operands |->
            CASE o = "w" -> calculate_tile_base_address(W, shape.k, TileDepth, TileWidth,
                                                        e.k, e.j)
              [] o = "x" /\ ~last ->
                   calculate_tile_base_address(X, shape.n, ce_height, TileDepth,
                                               next.i, next.k)
              [] o = "y" /\ ~last /\ lastOfTile ->
                   calculate_tile_base_address(Y, shape.k, ce_height, TileWidth,
                                               next.i, next.j)
              [] o = "z" /\ StoresPrevious(e) ->
                   calculate_tile_base_address(Y, shape.k, ce_height, TileWidth,
                                               previous[1], previous[2])
              [] OTHER -> e.addr[o]]]

Storing(e) ==
  [e EXCEPT !.blocks = [NoBlocks EXCEPT !["z"] = e.z_store.height],
            !.addr["z"] = calculate_tile_base_address(Y, shape.k, ce_height, TileWidth,
                                                      z_col_tiles - 1, z_row_tiles - 1)]

-----------------------------------------------------------------------------
(* The buffers.  A row holds width elements read at an address, before or  *)
(* after this operation wrote there; what lay under them shows behind.     *)

NoRow(contents) == [at |-> 0, width |-> 0, fresh |-> TRUE, under |-> contents]
Zero == NoRow("zero")
Buffer(rows, row) == [r \in 0 .. rows - 1 |-> row]

\* Where the operation has stored rows of the result.
StoredAt(e) == {e.stored[s].at : s \in DOMAIN e.stored}

Loaded(e, row, addr, width) ==
  [at |-> addr, width |-> width, fresh |-> addr \notin StoredAt(e),
   under |-> IF row.width = 0 THEN row.under ELSE "row"]

\* The X tile of the next iteration and the Y tile of the next tile are loaded
\* ahead, the first ones in PRELOAD.
XCut(e) == Cut(shape.n, TileDepth,
               IF state = "PRELOAD" \/ e.k + 1 = x_row_tiles THEN 0 ELSE e.k + 1)

\* Mutant: the Y tile loaded ahead is taken to be as wide as this one.
YCutOfThisTile(e) == Cut(shape.k, TileWidth, e.j)

YCut(e) == Cut(shape.k, TileWidth,
               IF state = "PRELOAD" \/ e.j + 1 = z_row_tiles THEN 0 ELSE e.j + 1)

WCut(e) == Cut(shape.k, TileWidth, e.j)

\* Mutant: the buffers are not cleared after the multiplication.
ComputeUncleared(e) ==
  [e EXCEPT !.z_compute.terms = Append(@, [x |-> e.x_buffer, w |-> e.w_buffer])]

\* z_compute += x_buffer * w_buffer, as a term of the sum.
process_compute(e) ==
  [e EXCEPT !.z_compute.terms = Append(@, [x |-> e.x_buffer, w |-> e.w_buffer]),
            !.x_buffer = Buffer(ce_height, Zero),
            !.w_buffer = Buffer(bandwidth, Zero)]

\* Row r of the tile that is stored.
PreviousRow(e, r) ==
  [at |-> e.addr["z"], width |-> e.z_store.width, y |-> e.z_previos.y[r],
   terms |-> [t \in DOMAIN e.z_previos.terms |->
                [x |-> e.z_previos.terms[t].x[r], w |-> e.z_previos.terms[t].w]]]

\* INSTR_FORWARD_YZ.
ForwardYZ(e) ==
  [e EXCEPT !.z_previos = e.z_compute,
            !.z_compute = [y |-> e.y_buffer_preload, terms |-> <<>>],
            !.y_buffer_preload = Buffer(ce_height, Zero),
            !.z_store = [width |-> WCut(e), height |-> Cut(shape.m, ce_height, e.i)]]

-----------------------------------------------------------------------------
(* next_addr and process_iter_instruction: one access. *)

NextOperand(e) ==
  IF e.blocks["y"] > 0 THEN "y"
  ELSE IF e.blocks["w"] > 0 THEN "w"
  ELSE IF e.blocks["x"] > 0 THEN "x" ELSE "z"

\* The address generator after an access of operand o.
Advanced(e, o) ==
  [e EXCEPT !.blocks[o] = @ - 1,
            !.addr[o] = IF o = "x" THEN inc_addr(@, shape.n, TileDepth)
                                   ELSE inc_addr(@, shape.k, TileWidth)]

\* The data of the access, when the operation computes.
Transferred(e, o) ==
  LET addr == e.addr[o]
      row  == e.row[o]
  IN  CASE o = "y" -> [e EXCEPT !.y_buffer_preload[row] = Loaded(e, @, addr, YCut(e))]
        [] o = "x" -> [e EXCEPT !.x_buffer[row] = Loaded(e, @, addr, XCut(e))]
        [] o = "z" -> [e EXCEPT !.stored = Append(@, PreviousRow(e, row))]
        [] o = "w" -> LET loaded == [e EXCEPT !.w_buffer[row] = Loaded(e, @, addr, WCut(e))]
                      IN  IF e.blocks["w"] = 1 THEN process_compute(loaded) ELSE loaded

Access(e) ==
  LET o == NextOperand(e)
  IN  IF compute_able = 0 THEN Advanced(e, o)
      ELSE [Advanced(Transferred(e, o), o) EXCEPT
              !.row[o] = IF e.blocks[o] = 1 THEN 0 ELSE @ + 1]

-----------------------------------------------------------------------------
(* fsm_handler: an activation sends an access if it may, receives what has  *)
(* arrived, and goes on when everything is sent and received.               *)

\* Mutant: the depth of the queue is ignored.
SendsUnbounded == fsm_counter < tcdm_block_total

Sends == fsm_counter < tcdm_block_total /\ pending <= queue_depth

counter  == IF Sends THEN fsm_counter + 1 ELSE fsm_counter
issued   == IF Sends THEN pending + 1 ELSE pending
accessed == IF Sends THEN Access(engine) ELSE engine

Working(st) ==
  /\ state = st
  /\ pending' \in 0 .. issued
  /\ counter < tcdm_block_total \/ pending' # 0
  /\ fsm_counter' = counter
  /\ engine' = accessed
  /\ UNCHANGED <<state, tcdm_block_total>>

\* The last answer of this state's accesses has come, and e is what follows.
Leave(st, next, e) ==
  /\ state = st /\ state' = next
  /\ counter >= tcdm_block_total
  /\ pending' = 0
  /\ fsm_counter' = 0
  /\ engine' = e
  /\ tcdm_block_total' = Total(e.blocks)

PreloadDone ==
  Leave("PRELOAD", "ROUTINE",
        IF compute_able # 0 THEN ForwardYZ(Routine(accessed)) ELSE Routine(accessed))

\* The engine at the end of an iteration, moved to the next one.
Iterated ==
  next_iteration(IF compute_able # 0 /\ accessed.k + 1 = x_row_tiles
                 THEN ForwardYZ(accessed) ELSE accessed)

RoutineDone ==
  IF Iterated.i # z_col_tiles
  THEN Leave("ROUTINE", "ROUTINE", Routine(Iterated))
  ELSE Leave("ROUTINE", "STORING", Storing(Iterated))

StoringDone == Leave("STORING", "FINISHED", accessed)

Polled ==
  /\ state = "FINISHED" /\ redmule_query
  /\ state' = "ACKNOWLEDGE"
  /\ UNCHANGED <<fsm_counter, tcdm_block_total, pending, engine>>

Activate ==
  /\ \/ \E st \in {"PRELOAD", "ROUTINE", "STORING"} : Working(st)
     \/ PreloadDone
     \/ RoutineDone
     \/ StoringDone
     \/ Polled
  /\ UNCHANGED <<fold_tiles_mapping, redmule_query, registers, driver, ops>>

\* The held load is answered, and the core goes on.
Acknowledge ==
  /\ state = "ACKNOWLEDGE" /\ state' = "IDLE"
  /\ redmule_query' = FALSE
  /\ driver' = "free"
  /\ UNCHANGED <<fold_tiles_mapping, fsm_counter, tcdm_block_total, pending, engine,
                 registers, ops>>

-----------------------------------------------------------------------------
(* core_acc_req and req: what the core does. *)

\* Mutant: a running engine takes what the core writes.
AcceptsAlways == TRUE

Accepts == state = "IDLE"

\* flex_redmule_config, also of an engine that is running.
Configure ==
  /\ \/ driver = "free" /\ ops < MaxOps /\ driver' = "configured"
     \/ driver = "running" /\ UNCHANGED driver
  /\ IF Accepts THEN shape' \in Shapes ELSE UNCHANGED shape
  /\ UNCHANGED <<fold_tiles_mapping, fsm, redmule_query, compute_able, elem_size, ops>>

\* init_redmule_meta_data; history: nothing is stored yet.
Meta(e) ==
  [e EXCEPT !.i = 0, !.j = 0, !.k = 0,
            !.blocks = NoBlocks,
            !.addr = [o \in Operands |-> CASE o = "x" -> X [] o = "w" -> W [] OTHER -> Y],
            !.row = [o \in Operands |-> 0],
            !.stored = <<>>]

Start(format) ==
  /\ \/ driver = "configured" /\ ops' = ops + 1
     \/ driver = "running" /\ UNCHANGED ops
  /\ IF Accepts
     THEN /\ compute_able' = format
          /\ engine' = Preload(Meta(engine))
          /\ tcdm_block_total' = Total(Preload(Meta(engine)).blocks)
          /\ state' = "PRELOAD" /\ fsm_counter' = 0
          /\ UNCHANGED pending
     ELSE UNCHANGED <<fsm, compute_able>>
  /\ UNCHANGED <<fold_tiles_mapping, shape>>

\* flex_redmule_trigger.
Trigger(format) ==
  /\ Start(format)
  /\ elem_size' = IF ~Accepts THEN elem_size ELSE IF format < 4 THEN 2 ELSE 1
  /\ driver' = "running"
  /\ UNCHANGED redmule_query

\* A load from offset 36 starts an operation that does not compute, and one from
\* offset 32 waits for it as well, but returns at once if the engine is running.
AsyncTrigger ==
  /\ Start(0)
  /\ driver' = "running"
  /\ UNCHANGED <<redmule_query, elem_size>>

SyncTrigger ==
  /\ state = "IDLE" /\ ~redmule_query
  /\ Start(0)
  /\ redmule_query' = TRUE /\ driver' = "waiting"
  /\ UNCHANGED elem_size

\* flex_redmule_wait, offset 40.
Wait ==
  /\ driver = "running"
  /\ IF state # "IDLE" /\ ~redmule_query
     THEN redmule_query' = TRUE /\ driver' = "waiting"
     ELSE redmule_query' = redmule_query /\ driver' = "free"
  /\ UNCHANGED <<fold_tiles_mapping, fsm, registers, ops>>

-----------------------------------------------------------------------------
\* The buffers are allocated and not cleared.
Init ==
  /\ fold_tiles_mapping \in BOOLEAN
  /\ state = "IDLE" /\ fsm_counter = 0 /\ tcdm_block_total = 0 /\ pending = 0
  /\ redmule_query = FALSE
  /\ shape \in Shapes /\ compute_able = 0 /\ elem_size = 2
  /\ driver = "free" /\ ops = 0
  /\ \E contents \in {"zero", "garbage"} :
       LET tile == Buffer(ce_height, NoRow(contents))
       IN  engine = [i |-> 0, j |-> 0, k |-> 0, blocks |-> NoBlocks,
                     addr |-> [o \in Operands |-> 0], row |-> [o \in Operands |-> 0],
                     z_store |-> [width |-> 0, height |-> 0],
                     x_buffer |-> tile, y_buffer_preload |-> tile,
                     w_buffer |-> Buffer(bandwidth, NoRow(contents)),
                     z_compute |-> [y |-> tile, terms |-> <<>>],
                     z_previos |-> [y |-> tile, terms |-> <<>>],
                     stored |-> <<>>]

\* The program is over.
Terminating == ops = MaxOps /\ driver = "free" /\ UNCHANGED vars

Next ==
  \/ Activate
  \/ Acknowledge
  \/ Configure
  \/ \E format \in Formats : Trigger(format)
  \/ AsyncTrigger
  \/ SyncTrigger
  \/ Wait
  \/ Terminating

\* The clock runs, and every memory access is answered.
Spec == Init /\ [][Next]_vars /\ WF_vars(Activate) /\ WF_vars(Acknowledge)

-----------------------------------------------------------------------------
(* Properties. *)

Row == [at : Nat, width : 0 .. bandwidth + TileWidth, fresh : BOOLEAN,
        under : {"zero", "garbage", "row"}]
Rows(n) == [0 .. n - 1 -> Row]

TypeOK ==
  /\ fold_tiles_mapping \in BOOLEAN /\ redmule_query \in BOOLEAN
  /\ state \in States
  /\ fsm_counter \in 0 .. tcdm_block_total
  /\ pending \in 0 .. queue_depth + 1
  /\ shape \in Shapes /\ compute_able \in Formats \cup {0} /\ elem_size \in {1, 2}
  /\ driver \in {"free", "configured", "running", "waiting"} /\ ops \in 0 .. MaxOps
  /\ engine.x_buffer \in Rows(ce_height) /\ engine.y_buffer_preload \in Rows(ce_height)
  /\ engine.w_buffer \in Rows(bandwidth)
  /\ engine.z_compute.y \in Rows(ce_height) /\ engine.z_previos.y \in Rows(ce_height)

\* Where row r of a matrix lies, in the tile with that index in the row.
Location(base, stride, height, width, r, tile) ==
  base + elem_size *
    (IF fold_tiles_mapping
     THEN ((r \div height) * Tiles(stride, width) + tile) * width * height
            + (r % height) * width
     ELSE r * stride + tile * width)

IsXRow(row, r, k) ==
  /\ row.at = Location(X, shape.n, ce_height, TileDepth, r, k)
  /\ row.width = Cut(shape.n, TileDepth, k)

IsYRow(row, r, j) ==
  /\ row.at = Location(Y, shape.k, ce_height, TileWidth, r, j)
  /\ row.width = Cut(shape.k, TileWidth, j)
  /\ row.fresh

\* What X and W hold behind a cut multiplies to zero, except what the buffers
\* were allocated with: the first operation after a reset adds that to its
\* result when its inner dimension is less than a tile's.
RestIsZero(x, w) ==
  \/ x.under = "zero" \/ w = Zero
  \/ x.under = "garbage" /\ w = NoRow("garbage") /\ shape.n < TileDepth

IsTerm(term, r, j, k) ==
  LET depth == Cut(shape.n, TileDepth, k)
  IN  /\ IsXRow(term.x, r, k)
      /\ \A d \in 0 .. depth - 1 :
           /\ term.w[d].at = Location(W, shape.k, TileDepth, TileWidth, k * TileDepth + d, j)
           /\ term.w[d].width = Cut(shape.k, TileWidth, j)
      /\ \A d \in depth .. TileDepth - 1 : RestIsZero(term.x, term.w[d])

\* A stored row is row r of tile j of the product: its own place, its own row of
\* Y as it was before the operation, and every term of the sum once.
IsResult(s, r, j) ==
  /\ IsYRow(s.y, r, j) /\ s.at = s.y.at /\ s.width = s.y.width
  /\ Len(s.terms) = x_row_tiles
  /\ \A k \in 0 .. x_row_tiles - 1 : IsTerm(s.terms[k + 1], r, j, k)

\* The software pipeline is in step: when an iteration starts, the operands
\* loaded ahead are its own, its sum has the terms of the iterations before,
\* and no access of an earlier iteration is still outstanding.
PipelineInStep ==
  state = "ROUTINE" /\ fsm_counter = 0 =>
    /\ pending = 0
    /\ compute_able # 0 =>
         /\ Len(engine.z_compute.terms) = engine.k
         /\ \A r \in 0 .. Cut(shape.m, ce_height, engine.i) - 1 :
              /\ IsXRow(engine.x_buffer[r], engine.i * ce_height + r, engine.k)
              /\ IsYRow(engine.z_compute.y[r], engine.i * ce_height + r, engine.j)

\* The engine implements the abstract one: every row of the result is stored
\* once and complete before the wait is answered, in place of a Y that is no
\* longer needed, and every wait is answered.
Results == {rj \in (0 .. shape.m - 1) \X (0 .. z_row_tiles - 1) :
              \E s \in DOMAIN engine.stored : IsResult(engine.stored[s], rj[1], rj[2])}

Running == driver \in {"running", "waiting"}

AbstractEngine == INSTANCE MatrixEngine WITH
  format <- compute_able,
  written <- IF Running THEN Results ELSE {},
  stores <- IF Running THEN Len(engine.stored) ELSE 0
ImplementsMatrixEngine == AbstractEngine!Spec
=============================================================================
