------------------------------- MODULE HbmMap -------------------------------
(***************************************************************************)
(* Where an address of the HBM is: flex_cluster.py gives every node at the *)
(* edge a part of the addresses, the network interfaces alias nodes        *)
(* (gvsoc_pulp.patch) and the controllers of an edge spread the addresses  *)
(* over their channels (hbm_ctrl.cpp).  Addresses count from               *)
(* hbm_start_base.                                                         *)
(***************************************************************************)
EXTENDS NocRouting, FiniteSetsExt

CONSTANTS
  NodeSpace,          \* hbm_node_addr_space
  NodesPerCtrl,       \* num_node_per_ctrl
  Alias,              \* hbm_node_aliase
  Channels,           \* hbm_chan_placement: edge -> channels
  InterleavingBits,   \* interleaving_bits
  XorScrambling, RedScrambling

Edges == {"west", "north", "east", "south"}
NodesOf(edge) == IF edge \in {"west", "east"} THEN NumY ELSE NumX

\* The assertions of flex_cluster.py.  It only asks for Alias <= NodesPerCtrl;
\* the nodes that share addresses are those of one controller when it divides.
ASSUME HbmAssumption ==
  /\ NodeSpace \in Nat \ {0} /\ NodesPerCtrl \in Nat \ {0} /\ Alias \in Nat \ {0}
  /\ NumX % NodesPerCtrl = 0 /\ NumY % NodesPerCtrl = 0 /\ NodesPerCtrl % Alias = 0
  /\ \A e \in Edges : Channels[e] = 0 \/ Channels[e] >= NodesOf(e) \div NodesPerCtrl
  /\ InterleavingBits \in 0 .. 30
  /\ XorScrambling \in BOOLEAN /\ RedScrambling \in BOOLEAN

-----------------------------------------------------------------------------
(* The network interface. *)

NodesBefore(edge) ==
  CASE edge = "west"  -> 0
    [] edge = "north" -> NumY
    [] edge = "east"  -> NumY + NumX
    [] edge = "south" -> NumY + NumX + NumY

EdgeBase(edge) == NodeSpace * NodesBefore(edge)

EdgeOf(addr) ==
  CHOOSE e \in Edges : addr \in EdgeBase(e) .. EdgeBase(e) + NodesOf(e) * NodeSpace - 1

NodePosition(edge, node) ==
  CASE edge = "west"  -> <<0, node + 1>>
    [] edge = "north" -> <<node + 1, NumY + 1>>
    [] edge = "east"  -> <<NumX + 1, node + 1>>
    [] edge = "south" -> <<node + 1, 0>>

\* Of the nodes that share an address, a cluster takes one by its row or column.
NodeFor(from, addr) ==
  LET edge == EdgeOf(addr)
      row  == (addr - EdgeBase(edge)) \div (NodeSpace * Alias)
      own  == (IF edge \in {"west", "east"} THEN from[2] ELSE from[1]) - 1
  IN  NodePosition(edge, row * Alias + (own % Alias))

NodeOffset(addr) == (addr - EdgeBase(EdgeOf(addr))) % (NodeSpace * Alias)

-----------------------------------------------------------------------------
(* The controller. *)

EdgeAt(position) ==
  CASE position \in WestNodes  -> "west"
    [] position \in NorthNodes -> "north"
    [] position \in EastNodes  -> "east"
    [] position \in SouthNodes -> "south"

NodeAt(position) ==
  (IF EdgeAt(position) \in {"west", "east"} THEN position[2] ELSE position[1]) - 1

NbSlaves(edge)   == Channels[edge] \div (NodesOf(edge) \div NodesPerCtrl)
StageBits(edge)  == CHOOSE b \in 0 .. 30 : 2 ^ b <= NbSlaves(edge) /\ NbSlaves(edge) < 2 ^ (b + 1)

\* The digits of the granule's number, each as wide as a bank's, xor-ed.
XorBank(granule, bits) ==
  LET digits == 0 .. (31 - InterleavingBits) \div bits
  IN  MapThenSumSet(LAMBDA b : 2 ^ b * (MapThenSumSet(LAMBDA i : Bit(granule, i * bits + b),
                                                      digits) % 2),
                    0 .. bits - 1)

\* Mutant: nodes that share addresses are told apart.
MuxOfEach(node) == node % NodesPerCtrl

MuxId(node) == (node % NodesPerCtrl) \div Alias

\* The controller, its channel, and the granule and byte in the channel.
req_muxed(position, offset) ==
  LET edge    == EdgeAt(position)
      node    == NodeAt(position)
      bits    == StageBits(edge)
      at      == offset + MuxId(node) * NodeSpace * Alias
      granule == at \div 2 ^ InterleavingBits
      bank    == IF RedScrambling THEN granule % (NbSlaves(edge) - 1)
                 ELSE IF XorScrambling /\ bits > 0 THEN XorBank(granule, bits)
                 ELSE granule % 2 ^ bits
      row     == granule \div (IF RedScrambling THEN NbSlaves(edge) - 1 ELSE 2 ^ bits)
  IN  <<edge, node \div NodesPerCtrl, bank, row, at % 2 ^ InterleavingBits>>
=============================================================================
