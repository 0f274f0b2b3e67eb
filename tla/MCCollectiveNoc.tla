-------------------------- MODULE MCCollectiveNoc --------------------------
(* A mesh of four columns and four rows: a request to many that has to pass *)
(* columns and rows it is not for, and one to a group of neighbours.  And a  *)
(* small one with nodes in the east.                                        *)
EXTENDS CollectiveNoc

ToMany(from, type, row_mask, col_mask) ==
  [from |-> from, type |-> type, row_mask |-> row_mask, col_mask |-> col_mask,
   addr |-> <<"cluster", from>>]
ToOne(from, addr) ==
  [from |-> from, type |-> "single", row_mask |-> 0, col_mask |-> 0, addr |-> addr]

\* The nodes in the west and in the north, in pairs that share addresses.
Addresses == {0, 1, 4, 8, 12, 28} \cup {32, 36, 40, 44, 48}

CrossingLoads ==
  {ToMany(<<2, 1>>, "reduce", 2, 2), ToMany(<<1, 2>>, "broadcast", 1, 3),
   ToOne(<<3, 1>>, <<"cluster", <<1, 2>>>>)}
  \cup {ToOne(from, <<"hbm", a>>) : from \in {<<2, 1>>, <<1, 2>>}, a \in Addresses}
SomeDenying == WestNodes
TwoAndFourChannels == [e \in Edges |-> CASE e = "west" -> 2 [] e = "north" -> 4 [] OTHER -> 0]

\* Both rows ask for the memory of both nodes in the east.
EastLoads == {ToOne(from, <<"hbm", a>>) : from \in {<<1, 1>>, <<2, 2>>}, a \in {32, 40}}
TwoEastChannels == [e \in Edges |-> IF e = "east" THEN 2 ELSE 0]
=============================================================================
