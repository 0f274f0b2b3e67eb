----------------------------- MODULE NocRouting -----------------------------
(***************************************************************************)
(* The mesh of the NoC and the decisions of a router (the FlooNoc part of  *)
(* gvsoc_pulp.patch).  A router is its position <<x, y>>, from <<1, 1>>.   *)
(* Around the routers lie the positions of the HBM nodes, which have none. *)
(***************************************************************************)
EXTENDS Naturals

CONSTANTS NumX, NumY    \* ARCH_NUM_CLUSTER_X, ARCH_NUM_CLUSTER_Y

ASSUME MeshAssumption == NumX \in 1 .. 256 /\ NumY \in 1 .. 256

dim_x == NumX + 2
dim_y == NumY + 2

Routers == (1 .. NumX) \X (1 .. NumY)
WestNodes  == {0} \X (1 .. NumY)
NorthNodes == (1 .. NumX) \X {NumY + 1}
EastNodes  == {NumX + 1} \X (1 .. NumY)
SouthNodes == (1 .. NumX) \X {0}

\* The queues of a router, and the ways a request leaves it: to the target at
\* its own position, or to a neighbour.
Directions == {"right", "left", "up", "down", "local"}

Neighbour(at, direction) ==
  CASE direction = "right" -> <<at[1] + 1, at[2]>>
    [] direction = "left"  -> <<at[1] - 1, at[2]>>
    [] direction = "up"    -> <<at[1], at[2] + 1>>
    [] direction = "down"  -> <<at[1], at[2] - 1>>
    [] direction = "local" -> at

get_req_queue(at, from) == CHOOSE d \in Directions : Neighbour(at, d) = from

-----------------------------------------------------------------------------
(* A request to one target: along the row, then along the column.  The HBM  *)
(* nodes in the west are entered from their own row.                        *)

StepTowards(from, to) == IF to < from THEN from - 1 ELSE from + 1

eff_dest_x(at, dest) ==
  CASE dest[1] = 0 /\ dest[2] # at[2] -> 1
    [] dest[1] = dim_x + 1 /\ dest[2] # at[2] -> dim_x
    [] OTHER -> dest[1]

get_next_router_pos(at, dest) ==
  LET x == eff_dest_x(at, dest)
  IN  IF <<x, dest[2]>> = at THEN at
      ELSE IF x = at[1] THEN <<x, StepTowards(at[2], dest[2])>>
                        ELSE <<StepTowards(at[1], x), at[2]>>

-----------------------------------------------------------------------------
(* A request to many: the clusters that agree with its source in the bits of *)
(* two masks.                                                                *)

Bit(n, i) == (n \div 2 ^ i) % 2
SameUnder(mask, a, b) == \A i \in 0 .. 7 : Bit(mask, i) = 1 => Bit(a, i) = Bit(b, i)

check_target(at, src, row_mask, col_mask) ==
  SameUnder(row_mask, src[1] - 1, at[1] - 1) /\ SameUnder(col_mask, src[2] - 1, at[2] - 1)

Targets(src, row_mask, col_mask) ==
  {at \in Routers : check_target(at, src, row_mask, col_mask)}

\* Mutant: the columns end with the nodes at the edge.
BeyondTheEdge(at, direction) ==
  CASE direction = "right" -> (at[1] + 1 .. NumX) \X {at[2]}
    [] direction = "left"  -> (1 .. at[1] - 1) \X {at[2]}
    [] direction = "up"    -> {at[1]} \X (at[2] + 1 .. NumY + 1)
    [] direction = "down"  -> {at[1]} \X (1 .. at[2] - 1)

Beyond(at, direction) ==
  CASE direction = "right" -> (at[1] + 1 .. NumX) \X {at[2]}
    [] direction = "left"  -> (1 .. at[1] - 1) \X {at[2]}
    [] direction = "up"    -> {at[1]} \X (at[2] + 1 .. NumY)
    [] direction = "down"  -> {at[1]} \X (1 .. at[2] - 1)

check_momentum(direction, at, src, row_mask, col_mask) ==
  \E t \in Beyond(at, direction) : check_target(t, src, row_mask, col_mask)

\* Where a request may turn, by its momentum: the row first, then columns.
Turns(momentum) ==
  CASE momentum = "local" -> {"right", "left", "up", "down"}
    [] momentum \in {"right", "left"} -> {momentum, "up", "down"}
    [] momentum \in {"up", "down"} -> {momentum}

\* Mutant: a request that came along the row may turn back.
AnalyzeTurningBack(at, src, momentum, row_mask, col_mask) ==
  {d \in {"local"} : check_target(at, src, row_mask, col_mask)} \cup
  {d \in {"right", "left", "up", "down"} : check_momentum(d, at, src, row_mask, col_mask)}

collective_analyze(at, src, momentum, row_mask, col_mask) ==
  {d \in {"local"} : check_target(at, src, row_mask, col_mask)} \cup
  {d \in Turns(momentum) : check_momentum(d, at, src, row_mask, col_mask)}

=============================================================================
