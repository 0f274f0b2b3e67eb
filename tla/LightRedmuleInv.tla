--------------------------- MODULE LightRedmuleInv ---------------------------
(***************************************************************************)
(* The inductive invariant of LightRedmule.  While the engine computes the  *)
(* tile of one iteration, it loads ahead for the next one and stores what   *)
(* an earlier one has computed.  Everything that the buffers hold follows   *)
(* from the iteration and from how much of it has been sent.                *)
(*                                                                         *)
(* The predicates are about an engine e in a state st of the machine after  *)
(* c accesses; IInv says them of the variables.                             *)
(***************************************************************************)
EXTENDS LightRedmule, FiniteSets

Phases == {"PRELOAD", "ROUTINE", "STORING"}

Blocks == [Operands -> Nat]
Sum == [y : Rows(ce_height), terms : Seq([x : Rows(ce_height), w : Rows(bandwidth)])]
StoredRow == [at : Nat, width : Nat, y : Row,
              terms : Seq([x : Row, w : Rows(bandwidth)])]
EngineType ==
  [i : Nat, j : Nat, k : Nat, blocks : Blocks, addr : Blocks, row : Blocks,
   z_store : [width : 0 .. TileWidth, height : 0 .. ce_height],
   x_buffer : Rows(ce_height), y_buffer_preload : Rows(ce_height),
   w_buffer : Rows(bandwidth), z_compute : Sum, z_previos : Sum,
   stored : Seq(StoredRow)]

-----------------------------------------------------------------------------
(* The iteration, and how far it is. *)

\* What the state sends in all.
Planned(e, st) ==
  CASE st = "PRELOAD" -> Preload(e).blocks
    [] st = "ROUTINE" -> Routine(e).blocks
    [] st = "STORING" -> Storing(e).blocks
    [] OTHER -> NoBlocks

Sent(e, st, o) == Planned(e, st)[o] - e.blocks[o]

Iteration(e, st) ==
  CASE st = "PRELOAD" -> e.i = 0 /\ e.j = 0 /\ e.k = 0
    [] st = "ROUTINE" -> e.i < z_col_tiles /\ e.j < z_row_tiles /\ e.k < x_row_tiles
    [] st \in {"STORING", "FINISHED", "ACKNOWLEDGE"} -> e.i = z_col_tiles /\ e.j = 0 /\ e.k = 0
    [] OTHER -> TRUE

\* Operands are sent one after the other.
Progress(e, st, c) ==
  /\ tcdm_block_total = Total(Planned(e, st))
  /\ c = tcdm_block_total - Total(e.blocks)
  /\ \A o \in Operands : e.blocks[o] <= Planned(e, st)[o]
  /\ e.blocks["y"] > 0 => Sent(e, st, "w") = 0
  /\ e.blocks["y"] > 0 \/ e.blocks["w"] > 0 => Sent(e, st, "x") = 0
  /\ e.blocks["y"] > 0 \/ e.blocks["w"] > 0 \/ e.blocks["x"] > 0 => Sent(e, st, "z") = 0

-----------------------------------------------------------------------------
(* The address generators, when the operation computes. *)

\* The tiles that are loaded ahead, and the one that is stored.
Ahead(e, st)  == IF st = "PRELOAD" THEN e ELSE next_iteration(e)
Behind(e) == PreviousTile(e.i, e.j)

RowAddress(e, st, o, r) ==
  CASE o = "w" -> Location(W, shape.k, TileDepth, TileWidth, e.k * TileDepth + r, e.j)
    [] o = "x" -> Location(X, shape.n, ce_height, TileDepth,
                           Ahead(e, st).i * ce_height + r, Ahead(e, st).k)
    [] o = "y" -> Location(Y, shape.k, ce_height, TileWidth,
                           Ahead(e, st).i * ce_height + r, Ahead(e, st).j)
    [] o = "z" -> Location(Y, shape.k, ce_height, TileWidth,
                           Behind(e)[1] * ce_height + r, Behind(e)[2])

Addresses(e, st) ==
  \A o \in Operands :
    /\ e.row[o] = IF e.blocks[o] = 0 THEN 0 ELSE Sent(e, st, o)
    /\ e.blocks[o] > 0 => e.addr[o] = RowAddress(e, st, o, Sent(e, st, o))

-----------------------------------------------------------------------------
(* The buffers. *)

\* Rows of X are of this iteration until its multiplication, then of the next.
Multiplied(e, st) == st # "ROUTINE" \/ e.blocks["w"] = 0
XTile(e, st) == IF Multiplied(e, st) THEN Ahead(e, st) ELSE e
XLoaded(e, st) == IF Multiplied(e, st) THEN Sent(e, st, "x") ELSE Cut(shape.m, ce_height, e.i)
WLoaded(e, st) == IF Multiplied(e, st) THEN 0 ELSE Sent(e, st, "w")

\* What was never loaded is as the buffers were allocated, and zero once they
\* have been cleared after a multiplication.
Uncleared(e, st) ==
  \/ st = "PRELOAD"
  \/ st = "ROUTINE" /\ e.i = 0 /\ e.j = 0 /\ e.k = 0 /\ e.blocks["w"] > 0

XBuffer(e, st, contents) ==
  \A r \in 0 .. ce_height - 1 :
    IF r < XLoaded(e, st)
    THEN /\ IsXRow(e.x_buffer[r], XTile(e, st).i * ce_height + r, XTile(e, st).k)
         /\ e.x_buffer[r].under = contents
    ELSE e.x_buffer[r] = NoRow(contents)

IsWRow(row, d, j, k) ==
  /\ row.at = Location(W, shape.k, TileDepth, TileWidth, k * TileDepth + d, j)
  /\ row.width = Cut(shape.k, TileWidth, j)

WBuffer(e, st, contents) ==
  \A d \in 0 .. bandwidth - 1 :
    IF d < WLoaded(e, st) THEN IsWRow(e.w_buffer[d], d, e.j, e.k)
                          ELSE e.w_buffer[d] = NoRow(contents)

Operand(e, st) ==
  \E contents \in {"zero", "garbage"} :
    /\ contents = "garbage" => Uncleared(e, st)
    /\ XBuffer(e, st, contents)
    /\ WBuffer(e, st, contents)

YBuffer(e, st) ==
  \A r \in 0 .. ce_height - 1 :
    r < Sent(e, st, "y") =>
      IsYRow(e.y_buffer_preload[r], Ahead(e, st).i * ce_height + r, Ahead(e, st).j)

\* The first n terms of the sum of each row of a tile.
IsSum(sum, i, j, n) ==
  /\ Len(sum.terms) = n
  /\ \A r \in 0 .. Cut(shape.m, ce_height, i) - 1 :
       /\ IsYRow(sum.y[r], i * ce_height + r, j)
       /\ \A t \in 0 .. n - 1 :
            IsTerm([x |-> sum.terms[t + 1].x[r], w |-> sum.terms[t + 1].w],
                   i * ce_height + r, j, t)

Computed(e, st) ==
  st = "ROUTINE" => IsSum(e.z_compute, e.i, e.j, IF Multiplied(e, st) THEN e.k + 1 ELSE e.k)

HasPrevious(e, st) ==
  \/ st = "STORING"
  \/ st = "ROUTINE" /\ (e.i > 0 \/ e.j > 0)

Previous(e, st) ==
  HasPrevious(e, st) =>
    /\ e.z_store.width = Cut(shape.k, TileWidth, Behind(e)[2])
    /\ e.z_store.height = Cut(shape.m, ce_height, Behind(e)[1])
    /\ IsSum(e.z_previos, Behind(e)[1], Behind(e)[2], x_row_tiles)

-----------------------------------------------------------------------------
(* The result. *)

TileOf(rj) == <<rj[1] \div ce_height, rj[2]>>
Before(ij, kl) ==
  \/ ij[1] < kl[1]
  \/ ij[1] = kl[1] /\ ij[2] < kl[2]

\* The tiles before the one that is computed are stored, except that the last
\* of them may still be on its way.
StoresNow(e, st) ==
  \/ st = "STORING"
  \/ st = "ROUTINE" /\ e.k = 0

Done(e, st) ==
  {rj \in (0 .. shape.m - 1) \X (0 .. z_row_tiles - 1) :
     /\ Before(TileOf(rj), <<e.i, e.j>>)
     /\ StoresNow(e, st) /\ TileOf(rj) = Behind(e) =>
          rj[1] < Behind(e)[1] * ce_height + Sent(e, st, "z")}

Stored(e, st) ==
  /\ Len(e.stored) = Cardinality(Done(e, st))
  /\ \A rj \in Done(e, st) : \E s \in DOMAIN e.stored : IsResult(e.stored[s], rj[1], rj[2])
  /\ \A s \in DOMAIN e.stored : \E rj \in Done(e, st) : IsResult(e.stored[s], rj[1], rj[2])

-----------------------------------------------------------------------------
Untouched(e) ==
  \E contents \in {"zero", "garbage"} :
    /\ e.x_buffer = Buffer(ce_height, NoRow(contents))
    /\ e.w_buffer = Buffer(bandwidth, NoRow(contents))

Computes(e, st) ==
  /\ Addresses(e, st)
  /\ Operand(e, st)
  /\ YBuffer(e, st)
  /\ Computed(e, st)
  /\ Previous(e, st)
  /\ Stored(e, st)

EngineInv(e, st, c) ==
  /\ e \in EngineType
  /\ Iteration(e, st)
  /\ Progress(e, st, c)
  /\ IF st = "IDLE" THEN Untouched(e)
     ELSE IF compute_able = 0 THEN Untouched(e) /\ e.stored = <<>>
     ELSE Computes(e, st)

\* The driver waits for the engine it has started, and for nothing else; what it
\* configures or triggers in between, the engine does not accept.
DriverInv ==
  /\ state = "IDLE" <=> driver \in {"free", "configured"}
  /\ redmule_query <=> driver = "waiting"
  /\ state = "ACKNOWLEDGE" => driver = "waiting"
  /\ driver = "configured" => ops < MaxOps

\* Nothing is due that was not sent in this state.
PendingInv == fsm_counter \in Nat /\ pending \in 0 .. fsm_counter

\* The inductive invariant: in every state of fsm_handler the engine is at an
\* iteration of the operation, and its address generators, its buffers and the
\* rows it has stored are what that iteration and the accesses sent so far
\* make of them; the core waits for nothing else.
IInv ==
  /\ TypeOK
  /\ DriverInv
  /\ PendingInv
  /\ \E e \in {engine}, st \in {state}, c \in {fsm_counter} : EngineInv(e, st, c)
=============================================================================
