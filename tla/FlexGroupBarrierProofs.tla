----------------------- MODULE FlexGroupBarrierProofs -----------------------
(* Theorems about FlexGroupBarrier for every mesh, every size of the groups *)
(* and every program that starts with a global barrier, as hello_world.      *)
EXTENDS FlexGroupBarrierInv, ClusterCoresProofs

USE GridAssumption, RoundsAssumption

-----------------------------------------------------------------------------
(* The groups are rectangles of the mesh. *)

LEMMA GridType == GridX \in Nat \ {0} /\ GridY \in Nat \ {0}
  BY ProgramAssumption

LEMMA Quotient ==
  ASSUME NEW a \in Nat, NEW b \in Nat \ {0}
  PROVE  /\ a \div b \in Nat /\ (a \div b) * b \in Nat
         /\ (a \div b) * b <= a /\ a < (a \div b) * b + b
         /\ a - (a % b) = (a \div b) * b
         /\ ((a \div b) + 1) * b = (a \div b) * b + b
  OBVIOUS

LEMMA QuotientUnique ==
  ASSUME NEW a \in Nat, NEW b \in Nat \ {0}, NEW q \in Nat,
         q * b <= a, a < q * b + b
  PROVE  a \div b = q
  OBVIOUS

LEMMA QuotientInjective ==
  ASSUME NEW q \in Nat, NEW p \in Nat, NEW b \in Nat \ {0}, q * b = p * b
  PROVE  q = p
  OBVIOUS

\* The positions low to high are those below num that are cut with x.
Cut(x, size, num, low, high) ==
  /\ low \in Nat /\ high \in Nat
  /\ low <= x /\ x <= high /\ high < num
  /\ \A z \in Nat : z < num =>
       (z \div size = x \div size <=> low <= z /\ z <= high)

LEMMA Interval ==
  ASSUME NEW x \in Nat, NEW size \in Nat \ {0}, NEW num \in Nat, x < num,
         NEW p, p = (x \div size) * size,
         NEW high, high = Clip(((x \div size) + 1) * size - 1, num)
  PROVE  Cut(x, size, num, p, high)
<1> DEFINE q == x \div size
<1>1. /\ q \in Nat /\ p \in Nat /\ p <= x /\ x < p + size
      /\ (q + 1) * size = p + size /\ p = q * size
  BY Quotient
<1>0. high = Clip((q + 1) * size - 1, num)
  OBVIOUS
<1> HIDE DEF q
<1>2. high = IF p + size - 1 >= num THEN num - 1 ELSE p + size - 1
  BY <1>0, <1>1 DEF Clip
<1>3. high \in Nat /\ x <= high /\ high < num
  BY <1>1, <1>2
<1>4. ASSUME NEW z \in Nat, z < num PROVE z \div size = q <=> p <= z /\ z <= high
  <2>1. ASSUME z \div size = q PROVE p <= z /\ z <= high
    <3>0. (z \div size) * size = p
      BY <2>1, <1>1
    <3>1. p <= z /\ z < p + size
      BY <3>0, Quotient
    <3> QED BY <3>1, <1>1, <1>2, <1>4
  <2>2. ASSUME p <= z, z <= high PROVE z \div size = q
    <3>1. z < p + size
      BY <2>2, <1>1, <1>2
    <3> QED BY <3>1, <2>2, <1>1, QuotientUnique
  <2> QED BY <2>1, <2>2
<1> QED BY <1>1, <1>3, <1>4 DEF q, Cut

\* A group is the positions between its corners, and its words are in it.
LEMMA Rectangle ==
  ASSUME NEW c \in Clusters
  PROVE  /\ LeftMost(c) \in Nat /\ RightMost(c) \in Nat
         /\ BottomMost(c) \in Nat /\ TopMost(c) \in Nat
         /\ LeftMost(c) <= c[1] /\ c[1] <= RightMost(c) /\ RightMost(c) < NumX
         /\ BottomMost(c) <= c[2] /\ c[2] <= TopMost(c) /\ TopMost(c) < NumY
         /\ Group(c) = (LeftMost(c) .. RightMost(c)) \X (BottomMost(c) .. TopMost(c))
         /\ Group(c) \subseteq Clusters
<1>1. c[1] \in Nat /\ c[1] < NumX /\ c[2] \in Nat /\ c[2] < NumY
  BY DEF Clusters, Columns, Rows
<1>2. /\ LeftMost(c) \in Nat /\ RightMost(c) \in Nat
      /\ LeftMost(c) <= c[1] /\ c[1] <= RightMost(c) /\ RightMost(c) < NumX
      /\ \A z \in Nat : z < NumX =>
           (z \div GridX = c[1] \div GridX <=> LeftMost(c) <= z /\ z <= RightMost(c))
  <2>1. LeftMost(c) = (c[1] \div GridX) * GridX
    BY DEF LeftMost, GridId
  <2>2. RightMost(c) = Clip(((c[1] \div GridX) + 1) * GridX - 1, NumX)
    BY DEF RightMost, GridId
  <2>3. NumX \in Nat
    OBVIOUS
  <2>4. GridX \in Nat \ {0}
    BY GridType
  <2>5. Cut(c[1], GridX, NumX, LeftMost(c), RightMost(c))
    BY <1>1, <2>1, <2>2, <2>3, <2>4, Interval
  <2> QED BY <2>5 DEF Cut
<1>3. /\ BottomMost(c) \in Nat /\ TopMost(c) \in Nat
      /\ BottomMost(c) <= c[2] /\ c[2] <= TopMost(c) /\ TopMost(c) < NumY
      /\ \A z \in Nat : z < NumY =>
           (z \div GridY = c[2] \div GridY <=> BottomMost(c) <= z /\ z <= TopMost(c))
  <2>1. BottomMost(c) = (c[2] \div GridY) * GridY
    BY DEF BottomMost, GridId
  <2>2. TopMost(c) = Clip(((c[2] \div GridY) + 1) * GridY - 1, NumY)
    BY DEF TopMost, GridId
  <2>3. NumY \in Nat
    OBVIOUS
  <2>4. GridY \in Nat \ {0}
    BY GridType
  <2>5. Cut(c[2], GridY, NumY, BottomMost(c), TopMost(c))
    BY <1>1, <2>1, <2>2, <2>3, <2>4, Interval
  <2> QED BY <2>5 DEF Cut
<1>4. ASSUME NEW d
      PROVE  d \in Group(c) <=>
               d \in (LeftMost(c) .. RightMost(c)) \X (BottomMost(c) .. TopMost(c))
  <2>1. CASE d \in Clusters
    <3>1. d = <<d[1], d[2]>> /\ d[1] \in Nat /\ d[1] < NumX /\ d[2] \in Nat /\ d[2] < NumY
      BY <2>1 DEF Clusters, Columns, Rows
    <3>2. d \in Group(c) <=> /\ d[1] \div GridX = c[1] \div GridX
                             /\ d[2] \div GridY = c[2] \div GridY
      BY <2>1 DEF Group, GridId
    <3>3. d \in Group(c) <=> /\ LeftMost(c) <= d[1] /\ d[1] <= RightMost(c)
                             /\ BottomMost(c) <= d[2] /\ d[2] <= TopMost(c)
      BY <3>1, <3>2, <1>2, <1>3
    <3> QED BY <3>1, <3>3, <1>2, <1>3
  <2>2. CASE d \notin Clusters
    <3>1. (LeftMost(c) .. RightMost(c)) \X (BottomMost(c) .. TopMost(c)) \subseteq Clusters
      BY <1>2, <1>3 DEF Clusters, Columns, Rows
    <3> QED BY <2>2, <3>1 DEF Group
  <2> QED BY <2>1, <2>2
<1>5. Group(c) = (LeftMost(c) .. RightMost(c)) \X (BottomMost(c) .. TopMost(c))
  BY <1>4 DEF Group
<1>6. Group(c) \subseteq Clusters
  BY DEF Group
<1> QED BY <1>2, <1>3, <1>5, <1>6

-----------------------------------------------------------------------------
(* Teams: the clusters that join a call of a kind, row by row. *)

LEMMA TeamFacts ==
  ASSUME NEW kind \in Kinds, NEW c \in Clusters
  PROVE  /\ c \in Team(kind, c) /\ c \in TeamRow(kind, c)
         /\ RowOf(c) \in TeamRows(kind, c)
         /\ Team(kind, c) \subseteq Clusters
         /\ TeamRow(kind, c) \subseteq Team(kind, c)
         /\ TeamRow("group", c) \subseteq TeamRow(kind, c)
         /\ \A d \in Team(kind, c) : /\ c \in Team(kind, d)
                                     /\ Team(kind, d) = Team(kind, c)
                                     /\ TeamRows(kind, d) = TeamRows(kind, c)
         /\ \A d \in TeamRow(kind, c) : /\ c \in TeamRow(kind, d)
                                        /\ TeamRow(kind, d) = TeamRow(kind, c)
<1>1. c \in Team(kind, c) /\ Team(kind, c) \subseteq Clusters
  BY DEF Team, Group
<1>2. ASSUME NEW d \in Team(kind, c)
      PROVE  c \in Team(kind, d) /\ Team(kind, d) = Team(kind, c)
  BY DEF Team, Group
<1>3. \A d \in Team(kind, c) : TeamRows(kind, d) = TeamRows(kind, c)
  BY <1>2 DEF TeamRows
<1>4. ASSUME NEW d \in TeamRow(kind, c)
      PROVE  c \in TeamRow(kind, d) /\ TeamRow(kind, d) = TeamRow(kind, c)
  <2>1. d \in Team(kind, c) /\ RowOf(d) = RowOf(c)
    BY DEF TeamRow
  <2>2. Team(kind, d) = Team(kind, c)
    BY <2>1, <1>2
  <2> QED BY <2>1, <2>2, <1>1 DEF TeamRow
<1>5. TeamRow("group", c) \subseteq TeamRow(kind, c)
  BY DEF TeamRow, Team, Group
<1> QED BY <1>1, <1>2, <1>3, <1>4, <1>5 DEF TeamRow, TeamRows

\* How many clusters of a row, and how many rows, a call counts.
LEMMA TeamSizes ==
  ASSUME NEW kind \in Kinds, NEW c \in Clusters
  PROVE  /\ IsFiniteSet(TeamRow(kind, c))
         /\ Cardinality(TeamRow(kind, c)) =
              IF kind = "global" THEN NumX ELSE GroupNumX(c)
         /\ IsFiniteSet(TeamRows(kind, c))
         /\ Cardinality(TeamRows(kind, c)) =
              IF kind = "global" THEN NumY ELSE GroupNumY(c)
<1>1. PICK X, Y : /\ IsFiniteSet(X) /\ IsFiniteSet(Y)
                  /\ Cardinality(X) = IF kind = "global" THEN NumX ELSE GroupNumX(c)
                  /\ Cardinality(Y) = IF kind = "global" THEN NumY ELSE GroupNumY(c)
                  /\ Team(kind, c) = X \X Y
                  /\ c[1] \in X /\ c[2] \in Y
  <2>1. CASE kind = "global"
    BY <2>1, Intervals DEF Team, Clusters
  <2>2. CASE kind # "global"
    <3>1. /\ Group(c) = (LeftMost(c) .. RightMost(c)) \X (BottomMost(c) .. TopMost(c))
          /\ LeftMost(c) \in Nat /\ RightMost(c) \in Nat
          /\ BottomMost(c) \in Nat /\ TopMost(c) \in Nat
          /\ LeftMost(c) <= c[1] /\ c[1] <= RightMost(c)
          /\ BottomMost(c) <= c[2] /\ c[2] <= TopMost(c)
      BY Rectangle
    <3>2. c[1] \in LeftMost(c) .. RightMost(c) /\ c[2] \in BottomMost(c) .. TopMost(c)
      BY <3>1 DEF Clusters, Columns, Rows
    <3>3. LeftMost(c) <= RightMost(c) /\ BottomMost(c) <= TopMost(c)
      BY <3>1 DEF Clusters, Columns, Rows
    <3>4. /\ IsFiniteSet(LeftMost(c) .. RightMost(c))
          /\ Cardinality(LeftMost(c) .. RightMost(c)) = GroupNumX(c)
          /\ IsFiniteSet(BottomMost(c) .. TopMost(c))
          /\ Cardinality(BottomMost(c) .. TopMost(c)) = GroupNumY(c)
      <4>1. \A a, b \in Nat : a <= b => /\ IsFiniteSet(a .. b)
                                        /\ Cardinality(a .. b) = b + 1 - a
        BY FS_Interval
      <4>2. /\ IsFiniteSet(LeftMost(c) .. RightMost(c))
            /\ Cardinality(LeftMost(c) .. RightMost(c)) = RightMost(c) + 1 - LeftMost(c)
            /\ IsFiniteSet(BottomMost(c) .. TopMost(c))
            /\ Cardinality(BottomMost(c) .. TopMost(c)) = TopMost(c) + 1 - BottomMost(c)
        BY <3>1, <3>3, <4>1
      <4> QED BY <4>2 DEF GroupNumX, GroupNumY
    <3> QED BY <2>2, <3>1, <3>2, <3>4 DEF Team
  <2> QED BY <2>1, <2>2
<1>2. TeamRow(kind, c) = X \X {c[2]}
  BY <1>1 DEF TeamRow, RowOf
<1>3. TeamRows(kind, c) = Y
  <2>1. \A y \in Y : <<c[1], y>> \in X \X Y /\ RowOf(<<c[1], y>>) = y
    BY <1>1 DEF RowOf
  <2>2. \A d \in X \X Y : RowOf(d) \in Y
    BY DEF RowOf
  <2> QED BY <1>1, <2>1, <2>2 DEF TeamRows
<1>4. IsFiniteSet({c[2]}) /\ Cardinality({c[2]}) = 1
  BY FS_Singleton
<1>5. /\ IsFiniteSet(X \X {c[2]})
      /\ Cardinality(X \X {c[2]}) = Cardinality(X) * 1
      /\ Cardinality(X) \in Nat
  BY <1>1, <1>4, FS_Product, FS_CardinalityType
<1>6. Cardinality(X) * 1 = Cardinality(X)
  BY <1>5
<1> QED BY <1>1, <1>2, <1>3, <1>5, <1>6

\* The words of a row are in it, those of a group in the group.
LEMMA SyncClusters ==
  ASSUME NEW c \in Clusters, NEW d \in Clusters
  PROVE  /\ SyncXCluster(c) \in TeamRow("group", c)
         /\ SyncYCluster(c) \in Group(c)
         /\ SyncXCluster(c) = SyncXCluster(d) <=> d \in TeamRow("group", c)
         /\ SyncYCluster(c) = SyncYCluster(d) <=> d \in Group(c)
<1>1. ASSUME NEW e \in Clusters
      PROVE  /\ SyncXCluster(e) \in TeamRow("group", e)
             /\ SyncYCluster(e) \in Group(e)
  <2>1. /\ LeftMost(e) \in Nat /\ RightMost(e) \in Nat
        /\ BottomMost(e) \in Nat /\ TopMost(e) \in Nat
        /\ LeftMost(e) <= RightMost(e) /\ BottomMost(e) <= TopMost(e)
        /\ e[2] \in BottomMost(e) .. TopMost(e)
        /\ Group(e) = (LeftMost(e) .. RightMost(e)) \X (BottomMost(e) .. TopMost(e))
    BY Rectangle DEF Clusters, Columns, Rows
  <2>2. /\ (LeftMost(e) + RightMost(e)) \div 2 \in LeftMost(e) .. RightMost(e)
        /\ (BottomMost(e) + TopMost(e)) \div 2 \in BottomMost(e) .. TopMost(e)
    BY <2>1
  <2>3. SyncXCluster(e) \in Group(e) /\ SyncYCluster(e) \in Group(e)
    BY <2>1, <2>2 DEF SyncXCluster, SyncYCluster
  <2> QED BY <2>3 DEF TeamRow, Team, RowOf, SyncXCluster
<1>2. ASSUME GridId(c) = GridId(d)
      PROVE  /\ SyncYCluster(c) = SyncYCluster(d)
             /\ c[2] = d[2] => SyncXCluster(c) = SyncXCluster(d)
  BY <1>2 DEF SyncXCluster, SyncYCluster, LeftMost, RightMost, BottomMost, TopMost
<1>3. \A e \in Clusters : e \in Group(c) <=> GridId(e) = GridId(c)
  BY DEF Group
<1>4. SyncYCluster(c) = SyncYCluster(d) <=> d \in Group(c)
  BY <1>1, <1>2, <1>3 DEF Group
<1>5. SyncXCluster(c) = SyncXCluster(d) <=> d \in TeamRow("group", c)
  <2>1. \A e \in Clusters : e \in TeamRow("group", c) <=> e \in Group(c) /\ e[2] = c[2]
    BY <1>3 DEF TeamRow, Team, Group, RowOf
  <2>2. SyncXCluster(c)[2] = c[2] /\ SyncXCluster(d)[2] = d[2]
    BY DEF SyncXCluster
  <2>3. SyncXCluster(c) \in Group(c) /\ SyncXCluster(d) \in Group(d)
    BY <1>1 DEF TeamRow, Team
  <2> QED BY <2>1, <2>2, <2>3, <1>2 DEF Group
<1> QED BY <1>1, <1>4, <1>5

LEMMA WordFacts ==
  ASSUME NEW kind \in Kinds, NEW kind2 \in Kinds, NEW c \in Clusters, NEW d \in Clusters
  PROVE  /\ XWord(kind, c) = XWord(kind2, d) <=> kind2 = kind /\ d \in TeamRow(kind, c)
         /\ YWord(kind, c) = YWord(kind2, d) <=> kind2 = kind /\ d \in Team(kind, c)
         /\ XIter(c) = XIter(d) <=> d \in TeamRow("group", c)
         /\ YIter(c) = YIter(d) <=> d \in Team("group", c)
         /\ XWord(kind, c) # YWord(kind2, d)
         /\ XIter(c) # YIter(d)
         /\ {XWord(kind, c), YWord(kind, c)} \cap {XIter(d), YIter(d)} = {}
<1>1. /\ d \in TeamRow("global", c) <=> d[2] = c[2]
      /\ d \in Team("global", c)
      /\ Team("group", c) = Group(c)
  BY DEF TeamRow, Team, RowOf
<1>2. XWord(kind, c) = XWord(kind2, d) <=> kind2 = kind /\ d \in TeamRow(kind, c)
  <2>1. CASE kind # kind2
    BY <2>1 DEF XWord, Kinds
  <2>2. CASE kind = kind2 /\ kind = "global"
    BY <2>2, <1>1 DEF XWord
  <2>3. CASE kind = kind2 /\ kind = "group"
    BY <2>3, SyncClusters DEF XWord
  <2> QED BY <2>1, <2>2, <2>3 DEF Kinds
<1>3. YWord(kind, c) = YWord(kind2, d) <=> kind2 = kind /\ d \in Team(kind, c)
  <2>1. CASE kind # kind2
    BY <2>1 DEF YWord, Kinds
  <2>2. CASE kind = kind2 /\ kind = "global"
    BY <2>2, <1>1 DEF YWord
  <2>3. CASE kind = kind2 /\ kind = "group"
    BY <2>3, <1>1, SyncClusters DEF YWord
  <2> QED BY <2>1, <2>2, <2>3 DEF Kinds
<1>4. /\ XIter(c) = XIter(d) <=> d \in TeamRow("group", c)
      /\ YIter(c) = YIter(d) <=> d \in Team("group", c)
  BY <1>1, SyncClusters DEF XIter, YIter
<1>5. /\ XWord(kind, c) # YWord(kind2, d)
      /\ XIter(c) # YIter(d)
  BY DEF XWord, YWord, XIter, YIter
<1>6. {XWord(kind, c), YWord(kind, c)} \cap {XIter(d), YIter(d)} = {}
  BY DEF XWord, YWord, XIter, YIter
<1> QED BY <1>2, <1>3, <1>4, <1>5, <1>6

LEMMA WordTypes ==
  ASSUME NEW kind \in Kinds, NEW c \in Clusters
  PROVE  {XWord(kind, c), YWord(kind, c), XIter(c), YIter(c)} \subseteq Clusters \X Words
<1>1. SyncXCluster(c) \in Clusters /\ SyncYCluster(c) \in Clusters
  BY SyncClusters DEF TeamRow, Team, Group
<1>2. <<NumX \div 2, c[2]>> \in Clusters /\ <<NumX \div 2, NumY \div 2>> \in Clusters
  BY DEF Clusters, Columns, Rows
<1> QED BY <1>1, <1>2 DEF XWord, YWord, XIter, YIter, Words

\* The masks select the group.
LEMMA MaskFacts ==
  ASSUME NEW c \in Clusters, NEW d \in Clusters
  PROVE  MaskSelects(c, d) <=> d \in Group(c)
<1>1. c[1] \in Nat /\ c[2] \in Nat /\ d[1] \in Nat /\ d[2] \in Nat
  BY DEF Clusters, Columns, Rows
<1>2. /\ d[1] - (d[1] % GridX) = (d[1] \div GridX) * GridX
      /\ c[1] - (c[1] % GridX) = (c[1] \div GridX) * GridX
      /\ d[2] - (d[2] % GridY) = (d[2] \div GridY) * GridY
      /\ c[2] - (c[2] % GridY) = (c[2] \div GridY) * GridY
      /\ d[1] \div GridX \in Nat /\ c[1] \div GridX \in Nat
      /\ d[2] \div GridY \in Nat /\ c[2] \div GridY \in Nat
  BY <1>1, GridType, Quotient
<1>3. /\ (d[1] \div GridX) * GridX = (c[1] \div GridX) * GridX
           <=> d[1] \div GridX = c[1] \div GridX
      /\ (d[2] \div GridY) * GridY = (c[2] \div GridY) * GridY
           <=> d[2] \div GridY = c[2] \div GridY
  BY <1>2, GridType, QuotientInjective
<1> QED BY <1>2, <1>3 DEF MaskSelects, Group, GridId

-----------------------------------------------------------------------------
(* Labels, words and the call that a data mover is in. *)

LEMMA LabelFacts ==
  /\ WorkerLabels \subseteq Labels
  /\ \A l \in {"readX", "readY", "amoX"} \cup Counted : WorkLabel(l) /\ l \in Labels
  /\ Last \subseteq Leading /\ Leading \subseteq Counted
  /\ "sync2" \in Labels /\ ~WorkLabel("sync2")
  BY DEF Labels, WorkerLabels, WorkLabel, Counted, Leading, Last

\* A word that has been advanced has changed, even when it wraps around.
LEMMA IteratedChanges ==
  ASSUME NEW word \in Iterations
  PROVE  Iterated(word) \in Iterations /\ Iterated(word) # word
  BY AdvancedWord, ProgramAssumption DEF Iterations, Iterated

LEMMA GroupTypes ==
  ASSUME TypeOK, NEW c \in Clusters
  PROVE  /\ Passed(c) \in Nat
         /\ prev_x[c] \in Iterations /\ prev_y[c] \in Iterations
         /\ global_barrier_mutex[c] \in {0, 1}
         /\ global_barrier_query[c] \in Cores \cup {NULL}
         /\ WorkLabel(pc[c][DM]) => /\ Passed(c) = entered[<<c, DM>>]
                                    /\ Passed(c) <= Rounds
<1>1. entered[<<c, DM>>] \in Nat /\ entered[<<c, DM>>] <= Rounds
  BY DEF TypeOK, CoresType, Participants
<1>2. Passed(c) \in Nat
  BY <1>1 DEF Passed
<1>3. WorkLabel(pc[c][DM]) => Passed(c) = entered[<<c, DM>>]
  BY DEF Passed, WorkLabel, WorkerLabels
<1> QED BY <1>1, <1>2, <1>3 DEF TypeOK, RegistersType

LEMMA CallFacts ==
  ASSUME TypeOK, NEW c \in Clusters, WorkLabel(pc[c][DM]), Passed(c) > 0
  PROVE  /\ Passed(c) \in 1 .. Rounds
         /\ Program[Passed(c)] \in {"global", "group", "poll"}
         /\ Kind(Passed(c)) \in Kinds
         /\ Polling(c) => Kind(Passed(c)) = "group"
         /\ Global(c) <=> Kind(Passed(c)) = "global"
         /\ Call(c) = "poll" <=> Polling(c)
         /\ XPoint(c) = XWord(Kind(Passed(c)), c)
         /\ YPoint(c) = YWord(Kind(Passed(c)), c)
         /\ CountX(c) = Cardinality(TeamRow(Kind(Passed(c)), c))
         /\ CountY(c) = Cardinality(TeamRows(Kind(Passed(c)), c))
         /\ Joined(Passed(c), c) = Team(Kind(Passed(c)), c)
<1>1. Passed(c) = entered[<<c, DM>>] /\ Passed(c) \in 1 .. Rounds
  BY GroupTypes
<1>2. Program[Passed(c)] \in {"global", "group", "poll"}
  BY <1>1, ProgramAssumption
<1>3. /\ Kind(Passed(c)) \in Kinds
      /\ Polling(c) => Kind(Passed(c)) = "group"
      /\ Global(c) <=> Kind(Passed(c)) = "global"
      /\ Call(c) = "poll" <=> Polling(c)
  BY <1>1 DEF Kind, Kinds, Polling, Global, Call
<1>4. /\ XPoint(c) = XWord(Kind(Passed(c)), c)
      /\ YPoint(c) = YWord(Kind(Passed(c)), c)
  BY <1>3 DEF XPoint, YPoint, XWord, YWord
<1>5. /\ CountX(c) = Cardinality(TeamRow(Kind(Passed(c)), c))
      /\ CountY(c) = Cardinality(TeamRows(Kind(Passed(c)), c))
  <2>1. PICK kind \in Kinds : kind = Kind(Passed(c))
    BY <1>3
  <2>2. /\ Cardinality(TeamRow(kind, c)) = IF kind = "global" THEN NumX ELSE GroupNumX(c)
        /\ Cardinality(TeamRows(kind, c)) = IF kind = "global" THEN NumY ELSE GroupNumY(c)
    BY TeamSizes
  <2> QED BY <2>1, <2>2, <1>3 DEF CountX, CountY
<1>6. Joined(Passed(c), c) = Team(Kind(Passed(c)), c)
  BY DEF Joined, Team, Kind
<1> QED BY <1>1, <1>2, <1>3, <1>4, <1>5, <1>6

-----------------------------------------------------------------------------
(* What the invariant says of a row, and of who has begun. *)

\* A row that its group is one barrier ahead of is full, in a polling call.
LEMMA RowAhead ==
  ASSUME TypeOK, NEW g \in [Clusters -> Nat], NEW r \in [Clusters -> Nat],
         GroupInv(g, r), NEW c \in Clusters, r[c] # g[c]
  PROVE  r[c] = g[c] - 1 /\ Arrived("group", c, r) /\ Polling(c)
<1>0. "group" \in Kinds
  BY DEF Kinds
<1>1. PICK e \in TeamRow("group", c) : pc[e][DM] \in {"pollY", "iterateX"}
  BY DEF GroupInv, RowInStep
<1>2. e \in Clusters /\ r[e] = r[c]
  BY <1>0, TeamFacts DEF GroupInv, Grouped
<1>3. Polling(e) /\ Passed(e) > 0 /\ Passed(e) = r[e]
  BY <1>1, <1>2 DEF GroupInv, InStep
<1>4. pc[e][DM] \in Leading /\ WorkLabel(pc[e][DM])
  BY <1>1, LabelFacts DEF Leading
<1>5. At("group", e, Leading)
  BY <1>2, <1>3, <1>4, CallFacts DEF At
<1>6. RowFull("group", c, r)
  BY <1>0, <1>5 DEF GroupInv, RowCounts, SomeInRow
<1>7. Arrived("group", c, r)
  BY <1>0, <1>6, TeamFacts DEF RowFull, ArrivedOf
<1>8. Polling(c)
  BY <1>2, <1>3, <1>7 DEF Arrived, Polling
<1> QED BY <1>7, <1>8 DEF GroupInv, RowInStep

\* Every core has entered the barriers that its group has ended.
LEMMA EveryoneEntered ==
  ASSUME TypeOK, SyncInv, NEW g \in [Clusters -> Nat], NEW r \in [Clusters -> Nat],
         GroupInv(g, r), NEW c \in Clusters, NEW k \in Cores
  PROVE  g[c] - 1 <= entered[<<c, k>>]
<1>1. /\ Passed(c) \in Nat /\ entered[<<c, k>>] \in Nat
      /\ g[c] \in Nat /\ r[c] \in Nat
  BY GroupTypes, EnteredNat DEF TypeOK
<1>2. /\ Passed(c) <= entered[<<c, k>>] + 1
      /\ WorkLabel(pc[c][DM]) => Passed(c) = entered[<<c, k>>]
  BY PassedBounds DEF TypeOK
<1>3. CASE r[c] # g[c]
  <2>1. r[c] = g[c] - 1 /\ Passed(c) = r[c] /\ pc[c][DM] \in Counted
    BY <1>3, RowAhead DEF Arrived, At
  <2>2. WorkLabel(pc[c][DM])
    BY <2>1, LabelFacts
  <2> QED BY <2>1, <2>2, <1>1, <1>2
<1>4. CASE r[c] = g[c] /\ Passed(c) = r[c]
  BY <1>1, <1>2, <1>4
<1>5. CASE r[c] = g[c] /\ Passed(c) # r[c]
  <2>1. Passed(c) = r[c] - 1 /\ pc[c][DM] \in {"pollX", "wfi", "blocked"}
    BY <1>5 DEF GroupInv, InStep
  <2>2. WorkLabel(pc[c][DM])
    BY <2>1, LabelFacts DEF Counted
  <2> QED BY <2>1, <2>2, <1>1, <1>2, <1>5
<1> QED BY <1>3, <1>4, <1>5

\* A call of a group comes after a global one, so every core 0 is done with the
\* initialisation by then.
LEMMA Initialised ==
  ASSUME FirstIsGlobal, TypeOK, SyncInv, InitInv,
         NEW g \in [Clusters -> Nat], NEW r \in [Clusters -> Nat],
         GroupInv(g, r), NEW c \in Clusters, WorkLabel(pc[c][DM]),
         Kind(Passed(c)) = "group"
  PROVE  \A d \in Clusters : init[d] = "done"
<1>1. Passed(c) > 0 /\ Passed(c) <= r[c]
  BY GroupTypes DEF GroupInv, InStep
<1>2. Passed(c) \in 1 .. Rounds
  BY <1>1, CallFacts
<1>3. Program[1] = "global" /\ Passed(c) > 1 /\ 1 \in 1 .. Rounds
  BY <1>2 DEF FirstIsGlobal, Kind
<1>4. r[c] <= g[c]
  BY RowAhead
<1>5. 1 < g[c]
  BY <1>1, <1>2, <1>3, <1>4
<1> TAKE d \in Clusters
<1>6. 1 < g[d]
  BY <1>3, <1>5 DEF GroupInv, Grouped
<1>7. First \in Cores
  BY ProgramAssumption
<1>8. entered[<<d, First>>] \in Nat /\ g[d] - 1 <= entered[<<d, First>>]
  BY <1>7, EveryoneEntered, EnteredNat DEF TypeOK
<1> QED BY <1>6, <1>8 DEF InitInv

-----------------------------------------------------------------------------
(* What a step leaves alone. *)

\* The words of a row, and of a team, are the same for all its clusters.
LEMMA RowShared ==
  ASSUME NEW kind \in Kinds, NEW c \in Clusters, NEW d \in TeamRow(kind, c),
         NEW r \in [Clusters -> Nat]
  PROVE  /\ RowCounts(kind, c, r) => RowCounts(kind, d, r)
         /\ RowCounts(kind, c, r)' => RowCounts(kind, d, r)'
<1>1. d \in Clusters /\ TeamRow(kind, d) = TeamRow(kind, c)
  BY TeamFacts
<1>2. XWord(kind, d) = XWord(kind, c)
  BY <1>1, WordFacts
<1>3. kind # "global" => SyncXCluster(d) = SyncXCluster(c)
  BY <1>2 DEF XWord
<1>4. /\ XCleared(kind, d) <=> XCleared(kind, c)
      /\ XCleared(kind, d)' <=> XCleared(kind, c)'
  BY <1>3 DEF XCleared
<1>5. /\ RowFull(kind, d, r) <=> RowFull(kind, c, r)
      /\ RowFull(kind, d, r)' <=> RowFull(kind, c, r)'
      /\ ArrivedOf(kind, d, r) = ArrivedOf(kind, c, r)
      /\ ArrivedOf(kind, d, r)' = ArrivedOf(kind, c, r)'
      /\ \A L : /\ SomeInRow(kind, d, L) <=> SomeInRow(kind, c, L)
                /\ SomeInRow(kind, d, L)' <=> SomeInRow(kind, c, L)'
  BY <1>1 DEF RowFull, ArrivedOf, SomeInRow
<1>6. RowCounts(kind, c, r) => RowCounts(kind, d, r)
  BY <1>1, <1>2, <1>4, <1>5 DEF RowCounts
<1>7. RowCounts(kind, c, r)' => RowCounts(kind, d, r)'
  BY <1>1, <1>2, <1>4, <1>5 DEF RowCounts
<1> QED BY <1>6, <1>7

LEMMA TeamShared ==
  ASSUME NEW kind \in Kinds, NEW c \in Clusters, NEW d \in Team(kind, c),
         NEW g \in [Clusters -> Nat], NEW r \in [Clusters -> Nat]
  PROVE  /\ TeamCounts(kind, c, g, r) => TeamCounts(kind, d, g, r)
         /\ TeamCounts(kind, c, g, r)' => TeamCounts(kind, d, g, r)'
<1>1. /\ d \in Clusters /\ Team(kind, d) = Team(kind, c)
      /\ TeamRows(kind, d) = TeamRows(kind, c)
  BY TeamFacts
<1>2. YWord(kind, d) = YWord(kind, c)
  BY <1>1, WordFacts
<1>3. kind # "global" => SyncYCluster(d) = SyncYCluster(c)
  BY <1>2 DEF YWord
<1>4. /\ YCleared(kind, d) <=> YCleared(kind, c)
      /\ YCleared(kind, d)' <=> YCleared(kind, c)'
  BY <1>3 DEF YCleared
<1>5. /\ TeamFull(kind, d, g, r) <=> TeamFull(kind, c, g, r)
      /\ TeamFull(kind, d, g, r)' <=> TeamFull(kind, c, g, r)'
      /\ ReportedRows(kind, d, g, r) = ReportedRows(kind, c, g, r)
      /\ ReportedRows(kind, d, g, r)' = ReportedRows(kind, c, g, r)'
      /\ \A L : /\ SomeInTeam(kind, d, L) <=> SomeInTeam(kind, c, L)
                /\ SomeInTeam(kind, d, L)' <=> SomeInTeam(kind, c, L)'
  BY <1>1 DEF TeamFull, ReportedRows, SomeInTeam
<1>6. TeamCounts(kind, c, g, r) => TeamCounts(kind, d, g, r)
  BY <1>1, <1>2, <1>4, <1>5 DEF TeamCounts
<1>7. TeamCounts(kind, c, g, r)' => TeamCounts(kind, d, g, r)'
  BY <1>1, <1>2, <1>4, <1>5 DEF TeamCounts
<1> QED BY <1>6, <1>7

\* A step that makes no difference to whether cluster d counts, and leads, in a
\* call of the kind, when g and r become h and s: for its row, and for its team.
SameRow(kind, d, r, s) ==
  /\ Arrived(kind, d, s)' <=> Arrived(kind, d, r)
  /\ \A L \in {Leading, {"resetX"}} : At(kind, d, L)' <=> At(kind, d, L)
  /\ Arrived(kind, d, r) => (Polling(d)' <=> Polling(d))

SameTeam(kind, d, g, r, h, s) ==
  /\ Reported(kind, d, h, s)' <=> Reported(kind, d, g, r)
  /\ \A L \in {Last, {"resetY"}} : At(kind, d, L)' <=> At(kind, d, L)

LEMMA SameWhenUntouched ==
  ASSUME NEW kind \in Kinds, NEW d \in Clusters,
         NEW g \in [Clusters -> Nat], NEW r \in [Clusters -> Nat],
         NEW h \in [Clusters -> Nat], NEW s \in [Clusters -> Nat],
         pc'[d][DM] = pc[d][DM], Passed(d)' = Passed(d), g[d] = h[d], r[d] = s[d]
  PROVE  SameRow(kind, d, r, s) /\ SameTeam(kind, d, g, r, h, s)
<1>1. \A L : At(kind, d, L)' <=> At(kind, d, L)
  BY DEF At
<1>2. Polling(d)' <=> Polling(d)
  BY DEF Polling
<1>3. /\ Arrived(kind, d, s)' <=> Arrived(kind, d, r)
      /\ Reported(kind, d, h, s)' <=> Reported(kind, d, g, r)
  BY <1>1 DEF Arrived, Reported
<1> QED BY <1>1, <1>2, <1>3 DEF SameRow, SameTeam

LEMMA SameWhenElsewhere ==
  ASSUME NEW kind \in Kinds, NEW d \in Clusters,
         NEW g \in [Clusters -> Nat], NEW r \in [Clusters -> Nat],
         NEW h \in [Clusters -> Nat], NEW s \in [Clusters -> Nat],
         ~At(kind, d, Counted), ~At(kind, d, Counted)'
  PROVE  SameRow(kind, d, r, s) /\ SameTeam(kind, d, g, r, h, s)
<1>1. \A L \in {Leading, Last, {"resetX"}, {"resetY"}} : L \subseteq Counted
  BY DEF Counted, Leading, Last
<1>2. \A L \in {Leading, Last, {"resetX"}, {"resetY"}} : ~At(kind, d, L) /\ ~At(kind, d, L)'
  BY <1>1 DEF At
<1> QED BY <1>2 DEF SameRow, SameTeam, Arrived, Reported

LEMMA RowFrame ==
  ASSUME NEW kind \in Kinds, NEW c \in Clusters,
         NEW r \in [Clusters -> Nat], NEW s \in [Clusters -> Nat],
         RowCounts(kind, c, r),
         XCleared(kind, c)' => XCleared(kind, c) /\ sync'[XWord(kind, c)] = sync[XWord(kind, c)],
         \A d \in TeamRow(kind, c) : SameRow(kind, d, r, s)
  PROVE  RowCounts(kind, c, s)'
<1>1. ArrivedOf(kind, c, s)' = ArrivedOf(kind, c, r)
  BY DEF ArrivedOf, SameRow
<1>2. RowFull(kind, c, s)' <=> RowFull(kind, c, r)
  BY <1>1 DEF RowFull
<1>3. \A L \in {Leading, {"resetX"}} : SomeInRow(kind, c, L)' <=> SomeInRow(kind, c, L)
  BY DEF SomeInRow, SameRow
<1>4. \A d \in TeamRow(kind, c) : At(kind, d, Leading)' <=> At(kind, d, Leading)
  BY DEF SameRow
<1>5. RowFull(kind, c, r) => \A d \in TeamRow(kind, c) : Polling(d)' <=> Polling(d)
  BY DEF RowFull, ArrivedOf, SameRow
<1>6. XCleared(kind, c)' =>
        sync'[XWord(kind, c)] =
          IF RowFull(kind, c, s)' /\ ~SomeInRow(kind, c, {"resetX"})'
          THEN 0 ELSE Cardinality(ArrivedOf(kind, c, s)')
  BY <1>1, <1>2, <1>3 DEF RowCounts
<1>7. /\ SomeInRow(kind, c, Leading)' => RowFull(kind, c, s)'
      /\ \A d, e \in TeamRow(kind, c) :
           At(kind, d, Leading)' /\ At(kind, e, Leading)' => d = e
      /\ RowFull(kind, c, s)' /\ (\E d \in TeamRow(kind, c) : Polling(d)') =>
           SomeInRow(kind, c, Leading)'
  BY <1>2, <1>3, <1>4, <1>5 DEF RowCounts
<1> QED BY <1>6, <1>7 DEF RowCounts

LEMMA TeamFrame ==
  ASSUME NEW kind \in Kinds, NEW c \in Clusters,
         NEW g \in [Clusters -> Nat], NEW r \in [Clusters -> Nat],
         NEW h \in [Clusters -> Nat], NEW s \in [Clusters -> Nat],
         TeamCounts(kind, c, g, r),
         YCleared(kind, c)' => YCleared(kind, c) /\ sync'[YWord(kind, c)] = sync[YWord(kind, c)],
         ReportedRows(kind, c, h, s)' = ReportedRows(kind, c, g, r),
         \A d \in Team(kind, c), L \in {Last, {"resetY"}} : At(kind, d, L)' <=> At(kind, d, L)
  PROVE  TeamCounts(kind, c, h, s)'
<1>1. TeamFull(kind, c, h, s)' <=> TeamFull(kind, c, g, r)
  BY DEF TeamFull
<1>2. \A L \in {Last, {"resetY"}} : SomeInTeam(kind, c, L)' <=> SomeInTeam(kind, c, L)
  BY DEF SomeInTeam
<1>3. YCleared(kind, c)' =>
        sync'[YWord(kind, c)] =
          IF TeamFull(kind, c, h, s)' /\ ~SomeInTeam(kind, c, {"resetY"})'
          THEN 0 ELSE Cardinality(ReportedRows(kind, c, h, s)')
  BY <1>1, <1>2 DEF TeamCounts
<1>4. /\ SomeInTeam(kind, c, Last)' => TeamFull(kind, c, h, s)'
      /\ \A d, e \in Team(kind, c) :
           At(kind, d, Last)' /\ At(kind, e, Last)' => d = e
  BY <1>1, <1>2 DEF TeamCounts
<1> QED BY <1>3, <1>4 DEF TeamCounts

LEMMA TeamFrameSame ==
  ASSUME NEW kind \in Kinds, NEW c \in Clusters,
         NEW g \in [Clusters -> Nat], NEW r \in [Clusters -> Nat],
         NEW h \in [Clusters -> Nat], NEW s \in [Clusters -> Nat],
         TeamCounts(kind, c, g, r),
         YCleared(kind, c)' => YCleared(kind, c) /\ sync'[YWord(kind, c)] = sync[YWord(kind, c)],
         \A d \in Team(kind, c) : SameTeam(kind, d, g, r, h, s)
  PROVE  TeamCounts(kind, c, h, s)'
<1>1. ReportedRows(kind, c, h, s)' = ReportedRows(kind, c, g, r)
  BY DEF ReportedRows, SameTeam
<1>2. \A d \in Team(kind, c), L \in {Last, {"resetY"}} : At(kind, d, L)' <=> At(kind, d, L)
  BY DEF SameTeam
<1> QED BY <1>1, <1>2, TeamFrame

\* A step touches the words and the counts of one row, and of one team.
LEMMA RowsStep ==
  ASSUME NEW kind0 \in Kinds, NEW c \in Clusters,
         NEW r \in [Clusters -> Nat], NEW s \in [Clusters -> Nat],
         \A kind \in Kinds, d \in Clusters : RowCounts(kind, d, r),
         UNCHANGED init,
         \A kind \in Kinds, d \in Clusters :
           kind # kind0 \/ d \notin TeamRow(kind0, c) =>
             SameRow(kind, d, r, s) /\ sync'[XWord(kind, d)] = sync[XWord(kind, d)],
         RowCounts(kind0, c, s)'
  PROVE  \A kind \in Kinds, d \in Clusters : RowCounts(kind, d, s)'
<1> SUFFICES ASSUME NEW kind \in Kinds, NEW d \in Clusters PROVE RowCounts(kind, d, s)'
  OBVIOUS
<1>1. CASE kind = kind0 /\ d \in TeamRow(kind0, c)
  BY <1>1, RowShared
<1>2. CASE kind # kind0 \/ d \notin TeamRow(kind0, c)
  <2>1. ASSUME NEW e \in TeamRow(kind, d) PROVE SameRow(kind, e, r, s)
    <3>1. e \in Clusters /\ d \in TeamRow(kind, e) /\ TeamRow(kind, e) = TeamRow(kind, d)
      BY TeamFacts
    <3>2. kind # kind0 \/ e \notin TeamRow(kind0, c)
      BY <1>2, <3>1, TeamFacts
    <3> QED BY <3>1, <3>2
  <2>2. XCleared(kind, d)' <=> XCleared(kind, d)
    BY DEF XCleared
  <2> QED BY <1>2, <2>1, <2>2, RowFrame
<1> QED BY <1>1, <1>2

LEMMA TeamsStep ==
  ASSUME NEW kind0 \in Kinds, NEW c \in Clusters,
         NEW g \in [Clusters -> Nat], NEW r \in [Clusters -> Nat],
         NEW h \in [Clusters -> Nat], NEW s \in [Clusters -> Nat],
         \A kind \in Kinds, d \in Clusters : TeamCounts(kind, d, g, r),
         UNCHANGED init,
         \A kind \in Kinds, d \in Clusters :
           kind # kind0 \/ d \notin Team(kind0, c) =>
             SameTeam(kind, d, g, r, h, s) /\ sync'[YWord(kind, d)] = sync[YWord(kind, d)],
         TeamCounts(kind0, c, h, s)'
  PROVE  \A kind \in Kinds, d \in Clusters : TeamCounts(kind, d, h, s)'
<1> SUFFICES ASSUME NEW kind \in Kinds, NEW d \in Clusters PROVE TeamCounts(kind, d, h, s)'
  OBVIOUS
<1>1. CASE kind = kind0 /\ d \in Team(kind0, c)
  BY <1>1, TeamShared
<1>2. CASE kind # kind0 \/ d \notin Team(kind0, c)
  <2>1. ASSUME NEW e \in Team(kind, d) PROVE SameTeam(kind, e, g, r, h, s)
    <3>1. e \in Clusters /\ d \in Team(kind, e) /\ Team(kind, e) = Team(kind, d)
      BY TeamFacts
    <3>2. kind # kind0 \/ e \notin Team(kind0, c)
      BY <1>2, <3>1, TeamFacts
    <3> QED BY <3>1, <3>2
  <2>2. YCleared(kind, d)' <=> YCleared(kind, d)
    BY DEF YCleared
  <2> QED BY <1>2, <2>1, <2>2, TeamFrameSame
<1> QED BY <1>1, <1>2

\* And one that touches none.
LEMMA CountsSame ==
  ASSUME NEW g \in [Clusters -> Nat], NEW r \in [Clusters -> Nat],
         \A kind \in Kinds, d \in Clusters : RowCounts(kind, d, r) /\ TeamCounts(kind, d, g, r),
         UNCHANGED init,
         \A kind \in Kinds, d \in Clusters :
           /\ SameRow(kind, d, r, r) /\ SameTeam(kind, d, g, r, g, r)
           /\ sync'[XWord(kind, d)] = sync[XWord(kind, d)]
           /\ sync'[YWord(kind, d)] = sync[YWord(kind, d)]
  PROVE  \A kind \in Kinds, d \in Clusters : RowCounts(kind, d, r)' /\ TeamCounts(kind, d, g, r)'
<1> SUFFICES ASSUME NEW kind \in Kinds, NEW d \in Clusters
             PROVE  RowCounts(kind, d, r)' /\ TeamCounts(kind, d, g, r)'
  OBVIOUS
<1>1. /\ XCleared(kind, d)' <=> XCleared(kind, d)
      /\ YCleared(kind, d)' <=> YCleared(kind, d)
  BY DEF XCleared, YCleared
<1>2. TeamRow(kind, d) \subseteq Clusters /\ Team(kind, d) \subseteq Clusters
  BY TeamFacts
<1>3. RowCounts(kind, d, r)'
  BY <1>1, <1>2, RowFrame
<1>4. TeamCounts(kind, d, g, r)'
  BY <1>1, <1>2, TeamFrameSame
<1> QED BY <1>3, <1>4

-----------------------------------------------------------------------------
(* The moves of a data mover. *)

\* What a move from one label to another does to the labels and to the barriers
\* that the clusters have passed.
Moved(c, from, to) ==
  /\ pc[c][DM] = from
  /\ \A d \in Clusters :
       /\ pc'[d][DM] = IF d = c THEN to ELSE pc[d][DM]
       /\ Passed(d)' = IF d = c /\ to = "sync2" THEN Passed(d) + 1 ELSE Passed(d)

LEMMA MoveFacts ==
  ASSUME TypeOK, NEW c \in Clusters, NEW from, WorkLabel(from),
         NEW to, WorkLabel(to) \/ to = "sync2", Goto(c, from, to)
  PROVE  /\ Moved(c, from, to)
         /\ UNCHANGED <<barrier_status, entered, left>>
  BY PassedGoto DEF TypeOK, Moved

\* A move changes no counts but those of its own cluster in its own call.
LEMMA SameOutside ==
  ASSUME NEW c \in Clusters, NEW from, NEW to, Moved(c, from, to),
         NEW kind0 \in Kinds, kind0 = Kind(Passed(c)),
         NEW g \in [Clusters -> Nat], NEW r \in [Clusters -> Nat],
         NEW kind \in Kinds, NEW d \in Clusters, kind # kind0 \/ d # c
  PROVE  SameRow(kind, d, r, r) /\ SameTeam(kind, d, g, r, g, r)
<1>1. CASE d # c
  BY <1>1, SameWhenUntouched DEF Moved
<1>2. CASE d = c /\ kind # kind0
  <2>1. ~At(kind, d, Counted)
    BY <1>2 DEF At
  <2>2. ~At(kind, d, Counted)'
    <3>1. CASE to = "sync2"
      BY <1>2, <3>1 DEF At, Moved, Counted, Leading, Last
    <3>2. CASE to # "sync2"
      <4>1. Passed(c)' = Passed(c)
        BY <3>2 DEF Moved
      <4> QED BY <4>1, <1>2 DEF At
    <3> QED BY <3>1, <3>2
  <2> QED BY <2>1, <2>2, SameWhenElsewhere
<1> QED BY <1>1, <1>2

\* The registers are not touched, and no data mover starts or ends a wait.
LEMMA WokenFrame ==
  ASSUME NEW g \in [Clusters -> Nat], NEW d \in Clusters, Woken(d, g),
         UNCHANGED <<registers, wakes>>,
         Owed(d, g)' <=> Owed(d, g),
         pc'[d][DM] = "blocked" <=> pc[d][DM] = "blocked"
  PROVE  Woken(d, g)'
<1>1. InFlight(d)' = InFlight(d)
  BY DEF registers, InFlight
<1> QED BY <1>1 DEF Woken, registers

\* A cluster that does not move keeps its step, its wake-ups and its words, if
\* nobody touches them.
LEMMA StillFrame ==
  ASSUME NEW g \in [Clusters -> Nat], NEW r \in [Clusters -> Nat], GroupInv(g, r),
         NEW d \in Clusters, pc'[d][DM] = pc[d][DM], Passed(d)' = Passed(d)
  PROVE  /\ InStep(d, g, r)'
         /\ UNCHANGED <<registers, wakes>> => Woken(d, g)'
         /\ /\ sync'[XIter(d)] = sync[XIter(d)] /\ sync'[YIter(d)] = sync[YIter(d)]
            /\ prev_x'[d] = prev_x[d] /\ prev_y'[d] = prev_y[d]
            => Remembered(d, g, r)'
<1>1. Polling(d)' <=> Polling(d)
  BY DEF Polling
<1>2. InStep(d, g, r)'
  BY <1>1 DEF GroupInv, InStep
<1>3. Owed(d, g)' <=> Owed(d, g)
  BY <1>1 DEF Owed
<1>4. UNCHANGED <<registers, wakes>> => Woken(d, g)'
  BY <1>3, WokenFrame DEF GroupInv
<1>5. /\ sync'[XIter(d)] = sync[XIter(d)] /\ sync'[YIter(d)] = sync[YIter(d)]
      /\ prev_x'[d] = prev_x[d] /\ prev_y'[d] = prev_y[d]
      => Remembered(d, g, r)'
  BY <1>1 DEF GroupInv, Remembered
<1> QED BY <1>2, <1>4, <1>5

\* The leader of a row that its group is ahead of stays on its way.
LEMMA RowInStepFrame ==
  ASSUME NEW g \in [Clusters -> Nat], NEW r \in [Clusters -> Nat], GroupInv(g, r),
         NEW c \in Clusters, NEW from, NEW to, Moved(c, from, to),
         from \in {"pollY", "iterateX"} => to \in {"pollY", "iterateX"},
         NEW d \in Clusters
  PROVE  RowInStep(d, g, r)'
<1>1. CASE r[d] = g[d]
  BY <1>1 DEF RowInStep
<1>2. CASE r[d] # g[d]
  <2>1. r[d] = g[d] - 1
    BY <1>2 DEF GroupInv, RowInStep
  <2>2. PICK e \in TeamRow("group", d) : pc[e][DM] \in {"pollY", "iterateX"}
    BY <1>2 DEF GroupInv, RowInStep
  <2>3. e \in Clusters
    BY TeamFacts DEF Kinds
  <2>4. pc'[e][DM] \in {"pollY", "iterateX"}
    BY <2>2, <2>3 DEF Moved
  <2> QED BY <2>1, <2>2, <2>4 DEF RowInStep
<1> QED BY <1>1, <1>2

\* The words of a team are none of those that count iterations.
LEMMA WordsApart ==
  ASSUME TypeOK, NEW kind0 \in Kinds, NEW c \in Clusters, NEW v,
         NEW word \in {XWord(kind0, c), YWord(kind0, c), XIter(c), YIter(c)},
         sync' = [sync EXCEPT ![word] = v]
  PROVE  /\ sync'[word] = v
         /\ \A kind \in Kinds, d \in Clusters :
              /\ word # XWord(kind, d) => sync'[XWord(kind, d)] = sync[XWord(kind, d)]
              /\ word # YWord(kind, d) => sync'[YWord(kind, d)] = sync[YWord(kind, d)]
         /\ \A d \in Clusters :
              /\ word # XIter(d) => sync'[XIter(d)] = sync[XIter(d)]
              /\ word # YIter(d) => sync'[YIter(d)] = sync[YIter(d)]
<1>1. sync \in [Clusters \X Words -> Nat]
  BY DEF TypeOK
<1>2. \A kind \in Kinds, d \in Clusters :
        {XWord(kind, d), YWord(kind, d), XIter(d), YIter(d)} \subseteq Clusters \X Words
  BY WordTypes
<1>3. word \in Clusters \X Words
  BY <1>2
<1>4. \A w \in Clusters \X Words : sync'[w] = IF w = word THEN v ELSE sync[w]
  BY <1>1
<1>5. "group" \in Kinds
  BY DEF Kinds
<1> QED BY <1>2, <1>3, <1>4, <1>5

\* A move that no barrier ends with: what is left to show of it.
LEMMA MoveInv ==
  ASSUME NEW g \in [Clusters -> Nat], NEW r \in [Clusters -> Nat], GroupInv(g, r),
         NEW c \in Clusters, NEW from, NEW to, Moved(c, from, to),
         from \in {"pollY", "iterateX"} => to \in {"pollY", "iterateX"},
         \A d \in Clusters :
           /\ sync'[XIter(d)] = sync[XIter(d)] /\ sync'[YIter(d)] = sync[YIter(d)]
           /\ d # c => prev_x'[d] = prev_x[d] /\ prev_y'[d] = prev_y[d],
         UNCHANGED <<registers, wakes>> \/ \A d \in Clusters : d # c => Woken(d, g)',
         InStep(c, g, r)', Woken(c, g)', Remembered(c, g, r)',
         \A kind \in Kinds, d \in Clusters : RowCounts(kind, d, r)' /\ TeamCounts(kind, d, g, r)'
  PROVE  GroupInv(g, r)'
<1>1. Grouped(g, r)'
  BY DEF GroupInv, Grouped
<1>2. ASSUME NEW d \in Clusters
      PROVE  InStep(d, g, r)' /\ RowInStep(d, g, r)' /\ Woken(d, g)' /\ Remembered(d, g, r)'
  <2>1. RowInStep(d, g, r)'
    BY RowInStepFrame
  <2>2. CASE d = c
    BY <2>1, <2>2
  <2>3. CASE d # c
    <3>1. pc'[d][DM] = pc[d][DM] /\ Passed(d)' = Passed(d)
      BY <2>3 DEF Moved
    <3> QED BY <2>1, <2>3, <3>1, StillFrame
  <2> QED BY <2>2, <2>3
<1> QED BY <1>1, <1>2 DEF GroupInv

\* A move between labels that are not counted.
LEMMA UncountedMove ==
  ASSUME NEW g \in [Clusters -> Nat], NEW r \in [Clusters -> Nat], GroupInv(g, r),
         NEW c \in Clusters, NEW from, NEW to, Moved(c, from, to),
         {from, to} \cap Counted = {}, UNCHANGED <<init, sync>>
  PROVE  \A kind \in Kinds, d \in Clusters : RowCounts(kind, d, r)' /\ TeamCounts(kind, d, g, r)'
<1>1. ASSUME NEW kind \in Kinds, NEW d \in Clusters
      PROVE  SameRow(kind, d, r, r) /\ SameTeam(kind, d, g, r, g, r)
  <2>1. CASE d = c
    <3>1. ~At(kind, d, Counted) /\ ~At(kind, d, Counted)'
      BY <2>1 DEF At, Moved
    <3> QED BY <3>1, SameWhenElsewhere
  <2>2. CASE d # c
    BY <2>2, SameWhenUntouched DEF Moved
  <2> QED BY <2>1, <2>2
<1> QED BY <1>1, CountsSame DEF GroupInv

-----------------------------------------------------------------------------
(* Each step, one after the other. *)

LEMMA GroupReadX ==
  ASSUME TypeOK, NEW g \in [Clusters -> Nat], NEW r \in [Clusters -> Nat],
         GroupInv(g, r), NEW c \in Clusters, ReadX(c)
  PROVE  GroupInv(g, r)'
<1>1. /\ Goto(c, "readX", "readY")
      /\ UNCHANGED <<registers, init, sync, prev_y, wakes>>
      /\ \A d \in Clusters : prev_x'[d] = IF d = c THEN sync[XIter(c)] ELSE prev_x[d]
  BY DEF ReadX, TypeOK
<1>2. Moved(c, "readX", "readY")
  BY <1>1, MoveFacts, LabelFacts
<1>3. pc[c][DM] = "readX" /\ pc'[c][DM] = "readY" /\ Passed(c)' = Passed(c)
  BY <1>2 DEF Moved
<1>4. Polling(c)' <=> Polling(c)
  BY <1>3 DEF Polling
<1>5. \A kind \in Kinds, d \in Clusters : RowCounts(kind, d, r)' /\ TeamCounts(kind, d, g, r)'
  BY <1>1, <1>2, UncountedMove DEF Counted, Leading, Last
<1>6. InStep(c, g, r)'
  BY <1>3, <1>4 DEF GroupInv, InStep, Last
<1>7. Owed(c, g)' <=> Owed(c, g)
  BY <1>3, <1>4 DEF Owed
<1>8. Woken(c, g)'
  BY <1>1, <1>3, <1>7, WokenFrame DEF GroupInv
<1>9. \A d \in Clusters : /\ sync'[XIter(d)] = sync[XIter(d)]
                          /\ sync'[YIter(d)] = sync[YIter(d)]
  BY <1>1 DEF XIter, YIter
<1>10. Remembered(c, g, r)'
  BY <1>1, <1>3, <1>9 DEF GroupInv, Remembered
<1> QED BY <1>1, <1>2, <1>5, <1>6, <1>8, <1>9, <1>10, MoveInv

LEMMA GroupReadY ==
  ASSUME TypeOK, NEW g \in [Clusters -> Nat], NEW r \in [Clusters -> Nat],
         GroupInv(g, r), NEW c \in Clusters, ReadY(c)
  PROVE  GroupInv(g, r)'
<1>1. /\ Goto(c, "readY", "amoX")
      /\ UNCHANGED <<registers, init, sync, prev_x, wakes>>
      /\ \A d \in Clusters : prev_y'[d] = IF d = c THEN sync[YIter(c)] ELSE prev_y[d]
  BY DEF ReadY, TypeOK
<1>2. Moved(c, "readY", "amoX")
  BY <1>1, MoveFacts, LabelFacts
<1>3. pc[c][DM] = "readY" /\ pc'[c][DM] = "amoX" /\ Passed(c)' = Passed(c)
  BY <1>2 DEF Moved
<1>4. Polling(c)' <=> Polling(c)
  BY <1>3 DEF Polling
<1>5. \A kind \in Kinds, d \in Clusters : RowCounts(kind, d, r)' /\ TeamCounts(kind, d, g, r)'
  BY <1>1, <1>2, UncountedMove DEF Counted, Leading, Last
<1>6. InStep(c, g, r)'
  BY <1>3, <1>4 DEF GroupInv, InStep, Last
<1>7. Owed(c, g)' <=> Owed(c, g)
  BY <1>3, <1>4 DEF Owed
<1>8. Woken(c, g)'
  BY <1>1, <1>3, <1>7, WokenFrame DEF GroupInv
<1>9. \A d \in Clusters : /\ sync'[XIter(d)] = sync[XIter(d)]
                          /\ sync'[YIter(d)] = sync[YIter(d)]
  BY <1>1 DEF XIter, YIter
<1>10. Remembered(c, g, r)'
  BY <1>1, <1>3, <1>4, <1>9 DEF GroupInv, Remembered
<1> QED BY <1>1, <1>2, <1>5, <1>6, <1>8, <1>9, <1>10, MoveInv

-----------------------------------------------------------------------------
(* Who leads. *)

\* In a call: its kind, and what it is counted in.
LEMMA InCall ==
  ASSUME TypeOK, NEW g \in [Clusters -> Nat], NEW r \in [Clusters -> Nat],
         GroupInv(g, r), NEW c \in Clusters,
         pc[c][DM] \in {"readX", "readY", "amoX"} \cup Counted
  PROVE  /\ Kind(Passed(c)) \in Kinds
         /\ Polling(c) => Kind(Passed(c)) = "group"
         /\ Call(c) = "poll" <=> Polling(c)
         /\ Global(c) <=> Kind(Passed(c)) = "global"
         /\ XPoint(c) = XWord(Kind(Passed(c)), c)
         /\ YPoint(c) = YWord(Kind(Passed(c)), c)
         /\ CountX(c) = Cardinality(TeamRow(Kind(Passed(c)), c))
         /\ CountY(c) = Cardinality(TeamRows(Kind(Passed(c)), c))
         /\ Joined(Passed(c), c) = Team(Kind(Passed(c)), c)
         /\ pc[c][DM] \in Counted => At(Kind(Passed(c)), c, Counted)
         /\ \A kind \in Kinds : kind # Kind(Passed(c)) => ~At(kind, c, Counted)
<1>1. WorkLabel(pc[c][DM])
  BY LabelFacts
<1>2. Passed(c) > 0
  BY DEF GroupInv, InStep
<1> QED BY <1>1, <1>2, CallFacts DEF At

\* The words that a call counts in are cleared.
LEMMA Cleared ==
  ASSUME FirstIsGlobal, TypeOK, SyncInv, InitInv,
         NEW g \in [Clusters -> Nat], NEW r \in [Clusters -> Nat],
         GroupInv(g, r), NEW c \in Clusters,
         pc[c][DM] \in {"readX", "readY", "amoX"} \cup Counted
  PROVE  XCleared(Kind(Passed(c)), c) /\ YCleared(Kind(Passed(c)), c)
<1>1. WorkLabel(pc[c][DM])
  BY LabelFacts
<1>2. CASE Kind(Passed(c)) = "global"
  BY <1>2 DEF XCleared, YCleared
<1>3. CASE Kind(Passed(c)) # "global"
  <2>1. Kind(Passed(c)) = "group"
    BY <1>3 DEF Kind
  <2>2. \A d \in Clusters : init[d] = "done"
    BY <1>1, <2>1, Initialised
  <2>3. SyncXCluster(c) \in Clusters /\ SyncYCluster(c) \in Clusters
    BY SyncClusters DEF TeamRow, Team, Group
  <2> QED BY <2>2, <2>3 DEF XCleared, YCleared
<1> QED BY <1>2, <1>3

\* The leader of a row is alone; every other cluster of it is counted and waits.
LEMMA LeaderFacts ==
  ASSUME TypeOK, NEW g \in [Clusters -> Nat], NEW r \in [Clusters -> Nat],
         GroupInv(g, r), NEW c \in Clusters, pc[c][DM] \in Leading,
         NEW kind0 \in Kinds, kind0 = Kind(Passed(c))
  PROVE  /\ RowFull(kind0, c, r)
         /\ At(kind0, c, Leading)
         /\ Passed(c) = r[c]
         /\ \A d \in TeamRow(kind0, c) :
              /\ d \in Clusters /\ Arrived(kind0, d, r)
              /\ d # c => /\ ~At(kind0, d, Leading)
                          /\ pc[d][DM] \in {"pollX", "wfi", "blocked"}
<1>1. At(kind0, c, Leading)
  BY DEF At
<1>2. c \in TeamRow(kind0, c) /\ TeamRow(kind0, c) \subseteq Clusters
  BY TeamFacts
<1>3. RowCounts(kind0, c, r)
  BY DEF GroupInv
<1>4. RowFull(kind0, c, r)
  BY <1>1, <1>2, <1>3 DEF RowCounts, SomeInRow
<1>5. \A d \in TeamRow(kind0, c) : Arrived(kind0, d, r)
  BY <1>4 DEF RowFull, ArrivedOf
<1>6. \A d \in TeamRow(kind0, c) : d # c => ~At(kind0, d, Leading)
  BY <1>1, <1>2, <1>3 DEF RowCounts
<1>7. \A d \in TeamRow(kind0, c) : d # c => pc[d][DM] \in {"pollX", "wfi", "blocked"}
  BY <1>5, <1>6 DEF Arrived, At, Counted
<1> QED BY <1>1, <1>2, <1>4, <1>5, <1>6, <1>7 DEF Arrived

\* The last cluster of all is alone too, and every row has reported.
LEMMA LastFacts ==
  ASSUME TypeOK, NEW g \in [Clusters -> Nat], NEW r \in [Clusters -> Nat],
         GroupInv(g, r), NEW c \in Clusters, pc[c][DM] \in Last,
         NEW kind0 \in Kinds, kind0 = Kind(Passed(c))
  PROVE  /\ TeamFull(kind0, c, g, r)
         /\ At(kind0, c, Last)
         /\ \A d \in Team(kind0, c) :
              /\ d \in Clusters /\ Reported(kind0, d, g, r)
              /\ d # c => ~At(kind0, d, Last) /\ pc[d][DM] \notin Last
<1>1. At(kind0, c, Last)
  BY DEF At
<1>2. c \in Team(kind0, c) /\ Team(kind0, c) \subseteq Clusters
  BY TeamFacts
<1>3. TeamCounts(kind0, c, g, r)
  BY DEF GroupInv
<1>4. TeamFull(kind0, c, g, r)
  BY <1>1, <1>2, <1>3 DEF TeamCounts, SomeInTeam
<1>5. \A d \in Team(kind0, c) : Reported(kind0, d, g, r)
  <2> TAKE d \in Team(kind0, c)
  <2>1. RowOf(d) \in TeamRows(kind0, c)
    BY DEF TeamRows
  <2> QED BY <2>1, <1>4 DEF TeamFull, ReportedRows
<1>6. \A d \in Team(kind0, c) : d # c => ~At(kind0, d, Last)
  BY <1>1, <1>2, <1>3 DEF TeamCounts
<1>7. \A d \in Team(kind0, c) : d # c => pc[d][DM] \notin Last
  BY <1>5, <1>6 DEF Reported, Arrived, At
<1> QED BY <1>1, <1>2, <1>4, <1>5, <1>6, <1>7

\* A cluster that is not counted: its row is not full, nobody leads it, and its
\* group is not ahead.
LEMMA NotFull ==
  ASSUME TypeOK, NEW g \in [Clusters -> Nat], NEW r \in [Clusters -> Nat],
         GroupInv(g, r), NEW kind \in Kinds, NEW c \in Clusters, ~Arrived(kind, c, r)
  PROVE  /\ ~RowFull(kind, c, r) /\ c \notin ArrivedOf(kind, c, r)
         /\ \A d \in TeamRow(kind, c) : ~At(kind, d, Leading)
         /\ XCleared(kind, c) => sync[XWord(kind, c)] = Cardinality(ArrivedOf(kind, c, r))
         /\ RowOf(c) \notin ReportedRows(kind, c, g, r)
<1>1. c \in TeamRow(kind, c) /\ c \in Team(kind, c)
  BY TeamFacts
<1>2. c \notin ArrivedOf(kind, c, r) /\ ~RowFull(kind, c, r)
  BY <1>1 DEF ArrivedOf, RowFull
<1>3. RowCounts(kind, c, r)
  BY DEF GroupInv
<1>4. \A d \in TeamRow(kind, c) : ~At(kind, d, Leading)
  BY <1>2, <1>3 DEF RowCounts, SomeInRow
<1>5. RowOf(c) \notin ReportedRows(kind, c, g, r)
  BY <1>1 DEF ReportedRows, Reported
<1> QED BY <1>2, <1>3, <1>4, <1>5 DEF RowCounts

-----------------------------------------------------------------------------
(* The steps on the counters. *)

\* The counts of the other rows and teams after a move that clears or advances
\* a word of its own.
LEMMA OwnCounts ==
  ASSUME TypeOK, NEW g \in [Clusters -> Nat], NEW r \in [Clusters -> Nat],
         GroupInv(g, r), NEW c \in Clusters, NEW from, NEW to, Moved(c, from, to),
         NEW kind0 \in Kinds, kind0 = Kind(Passed(c)), NEW v,
         NEW word \in {XWord(kind0, c), YWord(kind0, c)},
         sync' = [sync EXCEPT ![word] = v], UNCHANGED init,
         RowCounts(kind0, c, r)', TeamCounts(kind0, c, g, r)'
  PROVE  /\ \A kind \in Kinds, d \in Clusters : RowCounts(kind, d, r)' /\ TeamCounts(kind, d, g, r)'
         /\ \A d \in Clusters : sync'[XIter(d)] = sync[XIter(d)] /\ sync'[YIter(d)] = sync[YIter(d)]
<1>0. \A kind \in Kinds, d \in Clusters : RowCounts(kind, d, r) /\ TeamCounts(kind, d, g, r)
  BY DEF GroupInv
<1>1. c \in TeamRow(kind0, c) /\ c \in Team(kind0, c)
  BY TeamFacts
<1>2. ASSUME NEW kind \in Kinds, NEW d \in Clusters,
             kind # kind0 \/ d \notin TeamRow(kind0, c)
      PROVE  SameRow(kind, d, r, r) /\ sync'[XWord(kind, d)] = sync[XWord(kind, d)]
  <2>1. kind # kind0 \/ d # c
    BY <1>1, <1>2
  <2>2. SameRow(kind, d, r, r)
    BY <2>1, SameOutside
  <2>3. word # XWord(kind, d)
    <3>1. XWord(kind0, c) # XWord(kind, d) /\ YWord(kind0, c) # XWord(kind, d)
      BY <1>2, WordFacts
    <3> QED BY <3>1
  <2> QED BY <2>2, <2>3, WordsApart
<1>3. ASSUME NEW kind \in Kinds, NEW d \in Clusters,
             kind # kind0 \/ d \notin Team(kind0, c)
      PROVE  SameTeam(kind, d, g, r, g, r) /\ sync'[YWord(kind, d)] = sync[YWord(kind, d)]
  <2>1. kind # kind0 \/ d # c
    BY <1>1, <1>3
  <2>2. SameTeam(kind, d, g, r, g, r)
    BY <2>1, SameOutside
  <2>3. word # YWord(kind, d)
    <3>1. YWord(kind0, c) # YWord(kind, d) /\ XWord(kind0, c) # YWord(kind, d)
      BY <1>3, WordFacts
    <3> QED BY <3>1
  <2> QED BY <2>2, <2>3, WordsApart
<1>4. \A kind \in Kinds, d \in Clusters : RowCounts(kind, d, r)'
  BY <1>0, <1>2, RowsStep
<1>5. \A kind \in Kinds, d \in Clusters : TeamCounts(kind, d, g, r)'
  BY <1>0, <1>3, TeamsStep
<1>6. ASSUME NEW d \in Clusters
      PROVE  sync'[XIter(d)] = sync[XIter(d)] /\ sync'[YIter(d)] = sync[YIter(d)]
  <2>1. word # XIter(d) /\ word # YIter(d)
    <3>1. {XWord(kind0, c), YWord(kind0, c)} \cap {XIter(d), YIter(d)} = {}
      BY WordFacts
    <3> QED BY <3>1
  <2> QED BY <2>1, WordsApart
<1> QED BY <1>4, <1>5, <1>6

\* The first atomic add of a call.
LEMMA GroupAmoX ==
  ASSUME FirstIsGlobal, TypeOK, SyncInv, InitInv,
         NEW g \in [Clusters -> Nat], NEW r \in [Clusters -> Nat],
         GroupInv(g, r), NEW c \in Clusters, AmoX(c)
  PROVE  GroupInv(g, r)'
<1>1. pc[c][DM] = "amoX"
  BY DEF AmoX, Goto
<1>2. PICK kind0 \in Kinds :
        /\ kind0 = Kind(Passed(c))
        /\ XPoint(c) = XWord(kind0, c)
        /\ CountX(c) = Cardinality(TeamRow(kind0, c))
        /\ Call(c) = "poll" <=> Polling(c)
        /\ Polling(c) => kind0 = "group"
        /\ XCleared(kind0, c)
  BY <1>1, InCall, Cleared
<1>3. PICK to : /\ to = IF sync[XWord(kind0, c)] = Cardinality(TeamRow(kind0, c)) - 1 THEN "resetX"
                        ELSE IF Polling(c) THEN "pollX" ELSE "wfi"
                /\ Goto(c, "amoX", to)
                /\ sync' = [sync EXCEPT ![XWord(kind0, c)] = sync[XWord(kind0, c)] + 1]
                /\ UNCHANGED <<registers, init, prev_x, prev_y, wakes>>
  BY <1>2 DEF AmoX
<1>4. WorkLabel("amoX") /\ WorkLabel(to) /\ to \in {"resetX", "pollX", "wfi"}
  BY <1>3, LabelFacts DEF Counted, Leading, Last
<1>5. Moved(c, "amoX", to)
  BY <1>3, <1>4, MoveFacts
<1>6. /\ pc'[c][DM] = to /\ Passed(c)' = Passed(c) /\ (Polling(c)' <=> Polling(c))
      /\ \A d \in Clusters : d # c => pc'[d][DM] = pc[d][DM] /\ Passed(d)' = Passed(d)
  BY <1>4, <1>5 DEF Moved, Polling
<1>7. \A kind \in Kinds : ~Arrived(kind, c, r)
  BY <1>1 DEF Arrived, At, Counted, Leading, Last
<1>8. r[c] = g[c] /\ Passed(c) = r[c]
  <2>1. r[c] = g[c]
    BY <1>7, RowAhead DEF Kinds
  <2> QED BY <2>1, <1>1 DEF GroupInv, InStep
<1> DEFINE R == TeamRow(kind0, c)
           A == ArrivedOf(kind0, c, r)
<1>9. c \in R /\ R \subseteq Clusters /\ R \subseteq Team(kind0, c) /\ A \subseteq R
  BY TeamFacts DEF ArrivedOf
<1>10. /\ A # R /\ c \notin A
       /\ \A d \in R : ~At(kind0, d, Leading)
       /\ sync[XWord(kind0, c)] = Cardinality(A)
       /\ RowOf(c) \notin ReportedRows(kind0, c, g, r)
  BY <1>2, <1>7, NotFull DEF RowFull
<1>11. /\ Cardinality(A \cup {c}) = Cardinality(A) + 1
       /\ Cardinality(A) = Cardinality(R) - 1 <=> A \cup {c} = R
  <2>1. IsFiniteSet(R)
    BY TeamSizes
  <2> HIDE DEF A, R
  <2> QED BY <2>1, <1>9, <1>10, OneMore
<1>12. to = "resetX" <=> A \cup {c} = R
  BY <1>3, <1>10, <1>11
<1>13. /\ \A d \in R : Arrived(kind0, d, r)' <=> Arrived(kind0, d, r) \/ d = c
       /\ \A d \in R : At(kind0, d, Leading)' <=> d = c /\ to = "resetX"
       /\ \A d \in R : At(kind0, d, {"resetX"})' <=> d = c /\ to = "resetX"
  <2>1. At(kind0, c, Counted)' /\ Arrived(kind0, c, r)'
    BY <1>2, <1>4, <1>6, <1>8 DEF At, Arrived, Counted, Leading, Last
  <2>2. \A d \in R : d # c => /\ Arrived(kind0, d, r)' <=> Arrived(kind0, d, r)
                              /\ At(kind0, d, Leading)' <=> At(kind0, d, Leading)
                              /\ At(kind0, d, {"resetX"})' <=> At(kind0, d, {"resetX"})
    BY <1>6, <1>9 DEF Arrived, At
  <2>3. \A d \in R : At(kind0, d, {"resetX"}) => At(kind0, d, Leading)
    BY DEF At, Leading
  <2>4. /\ At(kind0, c, Leading)' <=> to = "resetX"
        /\ At(kind0, c, {"resetX"})' <=> to = "resetX"
    BY <1>2, <1>4, <1>6 DEF At, Leading, Last
  <2> QED BY <2>1, <2>2, <2>3, <2>4, <1>10
<1>14. ArrivedOf(kind0, c, r)' = A \cup {c}
  BY <1>9, <1>13 DEF ArrivedOf
<1>15. /\ sync'[XWord(kind0, c)] = sync[XWord(kind0, c)] + 1
       /\ sync'[YWord(kind0, c)] = sync[YWord(kind0, c)]
  <2>1. sync'[XWord(kind0, c)] = sync[XWord(kind0, c)] + 1
    <3>1. XWord(kind0, c) \in Clusters \X Words
      BY <1>2, WordTypes
    <3> QED BY <3>1, <1>3 DEF TypeOK
  <2>2. XWord(kind0, c) # YWord(kind0, c)
    BY <1>2, WordFacts
  <2>3. sync'[YWord(kind0, c)] = sync[YWord(kind0, c)]
    BY <1>2, <1>3, <2>2, WordsApart
  <2> QED BY <2>1, <2>3
<1>16. RowCounts(kind0, c, r)'
  <2>1. /\ RowFull(kind0, c, r)' <=> to = "resetX"
        /\ SomeInRow(kind0, c, {"resetX"})' <=> to = "resetX"
        /\ SomeInRow(kind0, c, Leading)' <=> to = "resetX"
    BY <1>9, <1>12, <1>13, <1>14 DEF RowFull, SomeInRow
  <2>2. sync'[XWord(kind0, c)] = Cardinality(ArrivedOf(kind0, c, r)')
    BY <1>10, <1>11, <1>14, <1>15
  <2>3. \A d, e \in TeamRow(kind0, c) :
          At(kind0, d, Leading)' /\ At(kind0, e, Leading)' => d = e
    BY <1>13
  <2> QED BY <2>1, <2>2, <2>3 DEF RowCounts
<1>17. TeamCounts(kind0, c, g, r)'
  <2>1. RowOf(c) \notin ReportedRows(kind0, c, g, r)'
    <3>1. \E d \in R : ~Reported(kind0, d, g, r)'
      <4>1. CASE to = "resetX"
        BY <4>1, <1>6, <1>9 DEF Reported
      <4>2. CASE to # "resetX"
        <5>1. PICK d \in R : d \notin A \cup {c}
          BY <4>2, <1>9, <1>12
        <5> QED BY <5>1, <1>13 DEF Reported, ArrivedOf
      <4> QED BY <4>1, <4>2
    <3> QED BY <3>1, <1>9 DEF ReportedRows, TeamRow
  <2>2. \A d \in Team(kind0, c) : RowOf(d) # RowOf(c) =>
          (Reported(kind0, d, g, r)' <=> Reported(kind0, d, g, r))
    <3> TAKE d \in Team(kind0, c)
    <3> SUFFICES ASSUME RowOf(d) # RowOf(c)
                 PROVE  Reported(kind0, d, g, r)' <=> Reported(kind0, d, g, r)
      OBVIOUS
    <3>1. d \in Clusters /\ d # c
      BY TeamFacts
    <3> QED BY <3>1, <1>2, <1>5, SameOutside DEF SameTeam
  <2>3. ReportedRows(kind0, c, g, r)' = ReportedRows(kind0, c, g, r)
    BY <2>1, <2>2, <1>10 DEF ReportedRows
  <2>4. \A d \in Team(kind0, c), L \in {Last, {"resetY"}} : At(kind0, d, L)' <=> At(kind0, d, L)
    <3> TAKE d \in Team(kind0, c), L \in {Last, {"resetY"}}
    <3>1. CASE d # c
      <4>1. d \in Clusters
        BY TeamFacts
      <4> QED BY <3>1, <4>1, <1>2, <1>5, SameOutside DEF SameTeam
    <3>2. CASE d = c
      BY <3>2, <1>1, <1>4, <1>6 DEF At, Last
    <3> QED BY <3>1, <3>2
  <2>5. YCleared(kind0, c)' <=> YCleared(kind0, c)
    BY <1>3 DEF YCleared
  <2>6. TeamCounts(kind0, c, g, r)
    BY DEF GroupInv
  <2> QED BY <2>3, <2>4, <2>5, <2>6, <1>15, TeamFrame
<1>18. /\ \A kind \in Kinds, d \in Clusters : RowCounts(kind, d, r)' /\ TeamCounts(kind, d, g, r)'
       /\ \A d \in Clusters : sync'[XIter(d)] = sync[XIter(d)] /\ sync'[YIter(d)] = sync[YIter(d)]
  BY <1>2, <1>3, <1>5, <1>16, <1>17, OwnCounts
<1>19. InStep(c, g, r)'
  BY <1>1, <1>3, <1>4, <1>6, <1>8 DEF GroupInv, InStep, Last
<1>20. Woken(c, g)'
  <2>1. Owed(c, g)' <=> Owed(c, g)
    BY <1>6 DEF Owed
  <2> QED BY <2>1, <1>1, <1>3, <1>4, <1>6, WokenFrame DEF GroupInv
<1>21. Remembered(c, g, r)'
  <2>1. Remembered(c, g, r)
    BY DEF GroupInv
  <2>2. Polling(c) => sync[XIter(c)] = prev_x[c] /\ sync[YIter(c)] = prev_y[c]
    BY <2>1, <1>1 DEF Remembered
  <2>3. to = "pollX" => Polling(c)
    BY <1>3
  <2> QED BY <2>1, <2>2, <2>3, <1>3, <1>4, <1>6, <1>8, <1>18 DEF Remembered
<1> QED BY <1>3, <1>5, <1>18, <1>19, <1>20, <1>21, MoveInv

\* The leader of a row clears its counter.
LEMMA GroupResetX ==
  ASSUME TypeOK, NEW g \in [Clusters -> Nat], NEW r \in [Clusters -> Nat],
         GroupInv(g, r), NEW c \in Clusters, ResetX(c)
  PROVE  GroupInv(g, r)'
<1>1. pc[c][DM] = "resetX"
  BY DEF ResetX, Goto
<1>2. PICK kind0 \in Kinds : kind0 = Kind(Passed(c)) /\ XPoint(c) = XWord(kind0, c)
  BY <1>1, InCall DEF Counted, Leading
<1>3. /\ Goto(c, "resetX", "amoY")
      /\ sync' = [sync EXCEPT ![XWord(kind0, c)] = 0]
      /\ UNCHANGED <<registers, init, prev_x, prev_y, wakes>>
  BY <1>2 DEF ResetX
<1>4. WorkLabel("resetX") /\ WorkLabel("amoY")
  BY LabelFacts DEF Counted, Leading
<1>5. Moved(c, "resetX", "amoY")
  BY <1>3, <1>4, MoveFacts
<1>6. /\ pc'[c][DM] = "amoY" /\ Passed(c)' = Passed(c) /\ (Polling(c)' <=> Polling(c))
      /\ \A d \in Clusters : d # c => pc'[d][DM] = pc[d][DM] /\ Passed(d)' = Passed(d)
  BY <1>5 DEF Moved, Polling
<1> DEFINE R == TeamRow(kind0, c)
<1>7. /\ RowFull(kind0, c, r)
      /\ \A d \in R : /\ d \in Clusters /\ Arrived(kind0, d, r)
                      /\ d # c => ~At(kind0, d, Leading)
  BY <1>1, <1>2, LeaderFacts DEF Leading
<1>8. c \in R /\ c \in Team(kind0, c)
  BY <1>2, TeamFacts
<1>9. /\ sync'[XWord(kind0, c)] = 0
      /\ sync'[YWord(kind0, c)] = sync[YWord(kind0, c)]
  <2>1. {XWord(kind0, c), YWord(kind0, c)} \subseteq Clusters \X Words
    BY <1>2, WordTypes
  <2>2. XWord(kind0, c) # YWord(kind0, c)
    BY <1>2, WordFacts
  <2> QED BY <2>1, <2>2, <1>3 DEF TypeOK
<1>10. /\ \A d \in R : /\ Arrived(kind0, d, r)'
                       /\ At(kind0, d, Leading)' => d = c
                       /\ ~At(kind0, d, {"resetX"})'
       /\ At(kind0, c, Leading)'
  <2>1. Arrived(kind0, c, r)' /\ At(kind0, c, Leading)' /\ ~At(kind0, c, {"resetX"})'
    BY <1>2, <1>6, <1>7, <1>8 DEF Arrived, At, Counted, Leading
  <2>2. ASSUME NEW d \in R, d # c
        PROVE  Arrived(kind0, d, r)' /\ ~At(kind0, d, Leading)' /\ ~At(kind0, d, {"resetX"})'
    <3>1. /\ Arrived(kind0, d, r)' <=> Arrived(kind0, d, r)
          /\ At(kind0, d, Leading)' <=> At(kind0, d, Leading)
          /\ At(kind0, d, {"resetX"})' => At(kind0, d, Leading)'
      BY <1>6, <1>7, <2>2 DEF Arrived, At, Leading
    <3> QED BY <3>1, <2>2, <1>7
  <2> QED BY <2>1, <2>2
<1>11. RowCounts(kind0, c, r)'
  <2>1. RowFull(kind0, c, r)'
    BY <1>10 DEF RowFull, ArrivedOf
  <2>2. ~SomeInRow(kind0, c, {"resetX"})' /\ SomeInRow(kind0, c, Leading)'
    BY <1>8, <1>10 DEF SomeInRow
  <2> QED BY <2>1, <2>2, <1>9, <1>10 DEF RowCounts
<1>12. TeamCounts(kind0, c, g, r)'
  <2>1. ASSUME NEW d \in Team(kind0, c) PROVE SameTeam(kind0, d, g, r, g, r)
    <3>1. CASE d # c
      <4>1. d \in Clusters
        BY <1>2, TeamFacts
      <4> QED BY <4>1, <3>1, <1>2, <1>5, SameOutside
    <3>2. CASE d = c
      <4>1. \A L \in {Last, {"resetY"}} : ~At(kind0, c, L) /\ ~At(kind0, c, L)'
        BY <1>1, <1>6 DEF At, Last
      <4>2. ~Reported(kind0, c, g, r) /\ ~Reported(kind0, c, g, r)'
        BY <1>1, <1>6 DEF Reported
      <4> QED BY <3>2, <4>1, <4>2 DEF SameTeam
    <3> QED BY <3>1, <3>2
  <2>2. YCleared(kind0, c)' <=> YCleared(kind0, c)
    BY <1>3 DEF YCleared
  <2>3. TeamCounts(kind0, c, g, r)
    BY <1>2 DEF GroupInv
  <2> QED BY <1>2, <1>9, <2>1, <2>2, <2>3, TeamFrameSame
<1>13. /\ \A kind \in Kinds, d \in Clusters : RowCounts(kind, d, r)' /\ TeamCounts(kind, d, g, r)'
       /\ \A d \in Clusters : sync'[XIter(d)] = sync[XIter(d)] /\ sync'[YIter(d)] = sync[YIter(d)]
  BY <1>2, <1>3, <1>5, <1>11, <1>12, OwnCounts
<1>14. InStep(c, g, r)'
  BY <1>1, <1>6 DEF GroupInv, InStep, Last
<1>15. Woken(c, g)'
  <2>1. Owed(c, g)' <=> Owed(c, g)
    BY <1>6 DEF Owed
  <2> QED BY <2>1, <1>1, <1>3, <1>6, WokenFrame DEF GroupInv
<1>16. Remembered(c, g, r)'
  <2>1. Remembered(c, g, r)
    BY DEF GroupInv
  <2> QED BY <2>1, <1>1, <1>3, <1>6, <1>13 DEF Remembered, Leading
<1> QED BY <1>3, <1>5, <1>13, <1>14, <1>15, <1>16, MoveInv

\* And the last of them the counter of the team.
LEMMA GroupResetY ==
  ASSUME TypeOK, NEW g \in [Clusters -> Nat], NEW r \in [Clusters -> Nat],
         GroupInv(g, r), NEW c \in Clusters, ResetY(c)
  PROVE  GroupInv(g, r)'
<1>1. pc[c][DM] = "resetY"
  BY DEF ResetY, Goto
<1>2. PICK kind0 \in Kinds : /\ kind0 = Kind(Passed(c)) /\ YPoint(c) = YWord(kind0, c)
                             /\ Call(c) = "poll" <=> Polling(c)
  BY <1>1, InCall DEF Counted, Leading, Last
<1>3. PICK to : /\ to = IF Polling(c) THEN "iterateY" ELSE "wake"
                /\ Goto(c, "resetY", to)
                /\ sync' = [sync EXCEPT ![YWord(kind0, c)] = 0]
                /\ UNCHANGED <<registers, init, prev_x, prev_y, wakes>>
  BY <1>2 DEF ResetY
<1>4. WorkLabel("resetY") /\ WorkLabel(to) /\ to \in {"iterateY", "wake"}
  BY <1>3, LabelFacts DEF Counted, Leading, Last
<1>5. Moved(c, "resetY", to)
  BY <1>3, <1>4, MoveFacts
<1>6. /\ pc'[c][DM] = to /\ Passed(c)' = Passed(c) /\ (Polling(c)' <=> Polling(c))
      /\ \A d \in Clusters : d # c => pc'[d][DM] = pc[d][DM] /\ Passed(d)' = Passed(d)
  BY <1>4, <1>5 DEF Moved, Polling
<1> DEFINE T == Team(kind0, c)
<1>7. /\ TeamFull(kind0, c, g, r)
      /\ \A d \in T : /\ d \in Clusters /\ Reported(kind0, d, g, r)
                      /\ d # c => ~At(kind0, d, Last)
  BY <1>1, <1>2, LastFacts DEF Last
<1>8. c \in T /\ c \in TeamRow(kind0, c)
  BY <1>2, TeamFacts
<1>9. /\ sync'[YWord(kind0, c)] = 0
      /\ sync'[XWord(kind0, c)] = sync[XWord(kind0, c)]
  <2>1. {XWord(kind0, c), YWord(kind0, c)} \subseteq Clusters \X Words
    BY <1>2, WordTypes
  <2>2. XWord(kind0, c) # YWord(kind0, c)
    BY <1>2, WordFacts
  <2> QED BY <2>1, <2>2, <1>3 DEF TypeOK
<1>10. /\ \A d \in T : /\ Reported(kind0, d, g, r)'
                       /\ At(kind0, d, Last)' => d = c
                       /\ ~At(kind0, d, {"resetY"})'
       /\ At(kind0, c, Last)'
  <2>1. Reported(kind0, c, g, r)' /\ At(kind0, c, Last)' /\ ~At(kind0, c, {"resetY"})'
    BY <1>2, <1>4, <1>6, <1>7, <1>8 DEF Reported, Arrived, At, Counted, Leading, Last
  <2>2. ASSUME NEW d \in T, d # c
        PROVE  Reported(kind0, d, g, r)' /\ ~At(kind0, d, Last)' /\ ~At(kind0, d, {"resetY"})'
    <3>1. /\ Reported(kind0, d, g, r)' <=> Reported(kind0, d, g, r)
          /\ At(kind0, d, Last)' <=> At(kind0, d, Last)
          /\ At(kind0, d, {"resetY"})' => At(kind0, d, Last)'
      BY <1>6, <1>7, <2>2 DEF Reported, Arrived, At, Last
    <3> QED BY <3>1, <2>2, <1>7
  <2> QED BY <2>1, <2>2
<1>11. TeamCounts(kind0, c, g, r)'
  <2>1. TeamFull(kind0, c, g, r)'
    BY <1>10 DEF TeamFull, ReportedRows
  <2>2. ~SomeInTeam(kind0, c, {"resetY"})'
    BY <1>10 DEF SomeInTeam
  <2> QED BY <2>1, <2>2, <1>9, <1>10 DEF TeamCounts
<1>12. RowCounts(kind0, c, r)'
  <2>1. ASSUME NEW d \in TeamRow(kind0, c) PROVE SameRow(kind0, d, r, r)
    <3>1. CASE d # c
      <4>1. d \in Clusters
        BY <1>2, TeamFacts
      <4> QED BY <4>1, <3>1, <1>2, <1>5, SameOutside
    <3>2. CASE d = c
      <4>1. /\ \A L \in {Leading, {"resetX"}} : At(kind0, c, L)' <=> At(kind0, c, L)
            /\ At(kind0, c, Counted)' <=> At(kind0, c, Counted)
        BY <1>1, <1>2, <1>4, <1>6 DEF At, Counted, Leading, Last
      <4> QED BY <3>2, <4>1, <1>6 DEF SameRow, Arrived
    <3> QED BY <3>1, <3>2
  <2>2. XCleared(kind0, c)' <=> XCleared(kind0, c)
    BY <1>3 DEF XCleared
  <2>3. RowCounts(kind0, c, r)
    BY <1>2 DEF GroupInv
  <2> QED BY <1>2, <1>9, <2>1, <2>2, <2>3, RowFrame
<1>13. /\ \A kind \in Kinds, d \in Clusters : RowCounts(kind, d, r)' /\ TeamCounts(kind, d, g, r)'
       /\ \A d \in Clusters : sync'[XIter(d)] = sync[XIter(d)] /\ sync'[YIter(d)] = sync[YIter(d)]
  BY <1>2, <1>3, <1>5, <1>11, <1>12, OwnCounts
<1>14. InStep(c, g, r)'
  BY <1>1, <1>3, <1>4, <1>6 DEF GroupInv, InStep, Last
<1>15. Woken(c, g)'
  <2>1. Owed(c, g)' <=> Owed(c, g)
    BY <1>6 DEF Owed
  <2> QED BY <2>1, <1>1, <1>3, <1>4, <1>6, WokenFrame DEF GroupInv
<1>16. Remembered(c, g, r)'
  <2>1. Remembered(c, g, r)
    BY DEF GroupInv
  <2> QED BY <2>1, <1>1, <1>3, <1>4, <1>6, <1>13 DEF Remembered, Leading, Last
<1> QED BY <1>3, <1>4, <1>5, <1>13, <1>14, <1>15, <1>16, MoveInv

\* The second atomic add, of the leader of a row.
LEMMA GroupAmoY ==
  ASSUME FirstIsGlobal, TypeOK, SyncInv, InitInv,
         NEW g \in [Clusters -> Nat], NEW r \in [Clusters -> Nat],
         GroupInv(g, r), NEW c \in Clusters, AmoY(c)
  PROVE  GroupInv(g, r)'
<1>1. pc[c][DM] = "amoY"
  BY DEF AmoY, Goto
<1>2. PICK kind0 \in Kinds :
        /\ kind0 = Kind(Passed(c))
        /\ YPoint(c) = YWord(kind0, c)
        /\ CountY(c) = Cardinality(TeamRows(kind0, c))
        /\ Call(c) = "poll" <=> Polling(c)
        /\ Polling(c) => kind0 = "group"
        /\ YCleared(kind0, c)
  BY <1>1, InCall, Cleared DEF Counted, Leading
<1>3. PICK to : /\ to = IF sync[YWord(kind0, c)] = Cardinality(TeamRows(kind0, c)) - 1 THEN "resetY"
                        ELSE IF Polling(c) THEN "pollY" ELSE "wfi"
                /\ Goto(c, "amoY", to)
                /\ sync' = [sync EXCEPT ![YWord(kind0, c)] = sync[YWord(kind0, c)] + 1]
                /\ UNCHANGED <<registers, init, prev_x, prev_y, wakes>>
  BY <1>2 DEF AmoY
<1>4. WorkLabel("amoY") /\ WorkLabel(to) /\ to \in {"resetY", "pollY", "wfi"}
  BY <1>3, LabelFacts DEF Counted, Leading, Last
<1>5. Moved(c, "amoY", to)
  BY <1>3, <1>4, MoveFacts
<1>6. /\ pc'[c][DM] = to /\ Passed(c)' = Passed(c) /\ (Polling(c)' <=> Polling(c))
      /\ \A d \in Clusters : d # c => pc'[d][DM] = pc[d][DM] /\ Passed(d)' = Passed(d)
  BY <1>4, <1>5 DEF Moved, Polling
<1> DEFINE R == TeamRow(kind0, c)
           Y == TeamRows(kind0, c)
           A == ReportedRows(kind0, c, g, r)
<1>7. /\ RowFull(kind0, c, r)
      /\ \A d \in R : /\ d \in Clusters /\ Arrived(kind0, d, r)
                      /\ d # c => ~At(kind0, d, Leading)
                      /\ d # c => pc[d][DM] \in {"pollX", "wfi", "blocked"}
  BY <1>1, <1>2, LeaderFacts DEF Leading
<1>8. /\ c \in R /\ c \in Team(kind0, c) /\ RowOf(c) \in Y
      /\ A \subseteq Y
      /\ \A d \in Team(kind0, c) : d \in Clusters /\ (RowOf(d) = RowOf(c) <=> d \in R)
  BY <1>2, TeamFacts DEF ReportedRows, TeamRow
<1>9. r[c] = g[c] /\ Passed(c) = r[c]
  BY <1>1 DEF GroupInv, InStep
<1>10. ASSUME NEW d \in R PROVE r[d] = g[d]
  <2>1. SUFFICES ASSUME r[d] # g[d] PROVE FALSE
    OBVIOUS
  <2>2. Arrived("group", d, r) /\ d \in Clusters
    BY <2>1, <1>7, RowAhead
  <2>3. kind0 = "group"
    BY <2>2, <1>7 DEF Arrived, At
  <2>4. d \in Group(c)
    BY <2>3 DEF TeamRow, Team
  <2>5. g[d] = g[c] /\ r[d] = r[c]
    BY <2>2, <2>3, <2>4 DEF GroupInv, Grouped
  <2> QED BY <2>1, <2>5, <1>9
<1>11. RowOf(c) \notin A /\ A # Y
  <2>1. ~Reported(kind0, c, g, r)
    BY <1>1 DEF Reported
  <2> QED BY <2>1, <1>8 DEF ReportedRows
<1>12. /\ Cardinality(A \cup {RowOf(c)}) = Cardinality(A) + 1
       /\ Cardinality(A) = Cardinality(Y) - 1 <=> A \cup {RowOf(c)} = Y
       /\ sync[YWord(kind0, c)] = Cardinality(A)
  <2>1. IsFiniteSet(Y)
    BY <1>2, TeamSizes
  <2>2. sync[YWord(kind0, c)] = Cardinality(A)
    BY <1>2, <1>11 DEF GroupInv, TeamCounts, TeamFull
  <2> HIDE DEF A, Y
  <2> QED BY <2>1, <2>2, <1>8, <1>11, OneMore
<1>13. to = "resetY" <=> A \cup {RowOf(c)} = Y
  BY <1>3, <1>4, <1>12
<1>14. /\ sync'[YWord(kind0, c)] = sync[YWord(kind0, c)] + 1
       /\ sync'[XWord(kind0, c)] = sync[XWord(kind0, c)]
  <2>1. {XWord(kind0, c), YWord(kind0, c)} \subseteq Clusters \X Words
    BY <1>2, WordTypes
  <2>2. XWord(kind0, c) # YWord(kind0, c)
    BY <1>2, WordFacts
  <2> QED BY <2>1, <2>2, <1>3 DEF TypeOK
<1>15. ReportedRows(kind0, c, g, r)' = A \cup {RowOf(c)}
  <2>1. ASSUME NEW d \in R PROVE Reported(kind0, d, g, r)'
    <3>1. CASE d = c
      BY <3>1, <1>2, <1>4, <1>6, <1>9 DEF Reported, Arrived, At, Counted, Leading, Last
    <3>2. CASE d # c
      <4>1. Arrived(kind0, d, r)'
        BY <3>2, <1>6, <1>7 DEF Arrived, At
      <4> QED BY <4>1, <3>2, <1>6, <1>7, <1>10 DEF Reported
    <3> QED BY <3>1, <3>2
  <2>2. ASSUME NEW d \in Team(kind0, c), d \notin R
        PROVE  Reported(kind0, d, g, r)' <=> Reported(kind0, d, g, r)
    <3>1. d # c /\ d \in Clusters
      BY <2>2, <1>8
    <3> QED BY <3>1, <1>6 DEF Reported, Arrived, At
  <2>3. ASSUME NEW y \in Y
        PROVE  y \in ReportedRows(kind0, c, g, r)' <=> y \in A \cup {RowOf(c)}
    <3>1. CASE y = RowOf(c)
      BY <3>1, <2>1, <1>8 DEF ReportedRows
    <3>2. CASE y # RowOf(c)
      <4>1. \A d \in Team(kind0, c) : RowOf(d) = y => d \notin R
        BY <3>2, <1>8
      <4> QED BY <4>1, <3>2, <2>2 DEF ReportedRows
    <3> QED BY <3>1, <3>2
  <2>4. ReportedRows(kind0, c, g, r)' \subseteq Y
    BY DEF ReportedRows
  <2> QED BY <2>3, <2>4, <1>8
<1>16. TeamCounts(kind0, c, g, r)'
  <2>1. \A d \in Team(kind0, c) : ~At(kind0, d, Last)
    BY <1>2, <1>11 DEF GroupInv, TeamCounts, TeamFull, SomeInTeam
  <2>2. ASSUME NEW d \in Team(kind0, c)
        PROVE  /\ At(kind0, d, Last)' <=> d = c /\ to = "resetY"
               /\ At(kind0, d, {"resetY"})' <=> d = c /\ to = "resetY"
    <3>1. CASE d = c
      BY <3>1, <1>2, <1>4, <1>6 DEF At, Last
    <3>2. CASE d # c
      BY <3>2, <2>1, <1>6, <1>8 DEF At, Last
    <3> QED BY <3>1, <3>2
  <2>3. /\ TeamFull(kind0, c, g, r)' <=> to = "resetY"
        /\ SomeInTeam(kind0, c, {"resetY"})' <=> to = "resetY"
        /\ SomeInTeam(kind0, c, Last)' <=> to = "resetY"
    BY <2>2, <1>8, <1>13, <1>15 DEF TeamFull, SomeInTeam
  <2>4. sync'[YWord(kind0, c)] = Cardinality(ReportedRows(kind0, c, g, r)')
    BY <1>12, <1>14, <1>15
  <2> QED BY <2>2, <2>3, <2>4 DEF TeamCounts
<1>17. RowCounts(kind0, c, r)'
  <2>1. ASSUME NEW d \in R
        PROVE  /\ Arrived(kind0, d, r)'
               /\ At(kind0, d, Leading)' <=> d = c /\ to # "wfi"
               /\ ~At(kind0, d, {"resetX"}) /\ ~At(kind0, d, {"resetX"})'
               /\ to = "wfi" => ~Polling(d)'
    <3>1. CASE d = c
      BY <3>1, <1>1, <1>2, <1>3, <1>4, <1>6, <1>9 DEF Arrived, At, Counted, Leading, Last
    <3>2. CASE d # c
      <4>1. d \in Clusters /\ pc'[d][DM] = pc[d][DM] /\ Passed(d)' = Passed(d)
        BY <3>2, <1>6, <1>7
      <4>2. Arrived(kind0, d, r)' /\ ~At(kind0, d, Leading)'
        BY <4>1, <3>2, <1>7 DEF Arrived, At
      <4>3. ~At(kind0, d, {"resetX"}) /\ ~At(kind0, d, {"resetX"})'
        BY <4>1, <3>2, <1>7 DEF At
      <4>4. to = "wfi" => ~Polling(d)'
        <5>1. SUFFICES ASSUME to = "wfi", Polling(d) PROVE FALSE
          BY <4>1 DEF Polling
        <5>2. kind0 = "group"
          BY <5>1, <1>7 DEF Arrived, At, Kind, Polling
        <5>3. Passed(d) = r[d] /\ r[d] = r[c]
          BY <5>2, <4>1, <1>7 DEF GroupInv, Grouped, Arrived
        <5>4. Polling(c)
          BY <5>1, <5>3, <1>9 DEF Polling
        <5> QED BY <5>1, <5>4, <1>3
      <4> QED BY <3>2, <4>2, <4>3, <4>4
    <3> QED BY <3>1, <3>2
  <2>2. RowFull(kind0, c, r)'
    BY <2>1 DEF RowFull, ArrivedOf
  <2>3. ~SomeInRow(kind0, c, {"resetX"})' /\ ~SomeInRow(kind0, c, {"resetX"})
    BY <2>1 DEF SomeInRow
  <2>4. (\E d \in R : Polling(d)') => SomeInRow(kind0, c, Leading)'
    BY <2>1, <1>8 DEF SomeInRow
  <2>5. XCleared(kind0, c)' <=> XCleared(kind0, c)
    BY <1>3 DEF XCleared
  <2>6. XCleared(kind0, c)' => sync'[XWord(kind0, c)] = 0
    BY <2>3, <2>5, <1>2, <1>7, <1>14 DEF GroupInv, RowCounts
  <2> QED BY <2>1, <2>2, <2>3, <2>4, <2>6 DEF RowCounts
<1>18. /\ \A kind \in Kinds, d \in Clusters : RowCounts(kind, d, r)' /\ TeamCounts(kind, d, g, r)'
       /\ \A d \in Clusters : sync'[XIter(d)] = sync[XIter(d)] /\ sync'[YIter(d)] = sync[YIter(d)]
  BY <1>2, <1>3, <1>5, <1>16, <1>17, OwnCounts
<1>19. InStep(c, g, r)'
  BY <1>1, <1>3, <1>4, <1>6, <1>9 DEF GroupInv, InStep, Last
<1>20. Woken(c, g)'
  <2>1. Owed(c, g)' <=> Owed(c, g)
    BY <1>6 DEF Owed
  <2> QED BY <2>1, <1>1, <1>3, <1>4, <1>6, WokenFrame DEF GroupInv
<1>21. Remembered(c, g, r)'
  <2>1. Remembered(c, g, r)
    BY DEF GroupInv
  <2>2. Polling(c) => sync[XIter(c)] = prev_x[c] /\ sync[YIter(c)] = prev_y[c]
    BY <2>1, <1>1 DEF Remembered, Leading
  <2>3. to = "pollY" => Polling(c)
    BY <1>3
  <2> QED BY <2>1, <2>2, <2>3, <1>3, <1>4, <1>6, <1>9, <1>18 DEF Remembered
<1> QED BY <1>3, <1>4, <1>5, <1>18, <1>19, <1>20, <1>21, MoveInv

-----------------------------------------------------------------------------
(* The steps on the iteration words. *)

\* A leader sees that its group is ahead of its row.
LEMMA GroupPollY ==
  ASSUME TypeOK, NEW g \in [Clusters -> Nat], NEW r \in [Clusters -> Nat],
         GroupInv(g, r), NEW c \in Clusters, PollY(c)
  PROVE  GroupInv(g, r)'
<1>1. /\ Goto(c, "pollY", "iterateX") /\ sync[YIter(c)] # prev_y[c]
      /\ UNCHANGED <<registers, init, sync, prev_x, prev_y, wakes>>
  BY DEF PollY, words
<1>2. WorkLabel("pollY") /\ WorkLabel("iterateX")
  BY LabelFacts DEF Counted, Leading
<1>3. Moved(c, "pollY", "iterateX")
  BY <1>1, <1>2, MoveFacts
<1>4. /\ pc[c][DM] = "pollY" /\ pc'[c][DM] = "iterateX"
      /\ Passed(c)' = Passed(c) /\ (Polling(c)' <=> Polling(c))
  BY <1>3 DEF Moved, Polling
<1>5. InStep(c, g, r) /\ RowInStep(c, g, r) /\ Remembered(c, g, r)
  BY DEF GroupInv
<1>6. r[c] = g[c] - 1
  BY <1>1, <1>4, <1>5 DEF Remembered, RowInStep
<1>7. PICK kind0 \in Kinds : kind0 = Kind(Passed(c))
  BY <1>4, InCall DEF Counted, Leading
<1>8. ASSUME NEW kind \in Kinds, NEW d \in Clusters
      PROVE  SameRow(kind, d, r, r) /\ SameTeam(kind, d, g, r, g, r)
  <2>1. CASE kind # kind0 \/ d # c
    BY <2>1, <1>3, <1>7, SameOutside
  <2>2. CASE kind = kind0 /\ d = c
    <3>1. /\ At(kind0, c, Counted)' <=> At(kind0, c, Counted)
          /\ At(kind0, c, Leading)' <=> At(kind0, c, Leading)
          /\ At(kind0, c, {"resetX"})' <=> At(kind0, c, {"resetX"})
          /\ \A L \in {Last, {"resetY"}} : At(kind0, c, L)' <=> At(kind0, c, L)
      BY <1>4 DEF At, Counted, Leading, Last
    <3>2. Arrived(kind0, c, r)' <=> Arrived(kind0, c, r)
      BY <3>1, <1>4 DEF Arrived
    <3>3. Reported(kind0, c, g, r)' <=> Reported(kind0, c, g, r)
      BY <3>2, <1>4 DEF Reported
    <3> QED BY <2>2, <3>1, <3>2, <3>3, <1>4 DEF SameRow, SameTeam
  <2> QED BY <2>1, <2>2
<1>9. \A kind \in Kinds, d \in Clusters : RowCounts(kind, d, r)' /\ TeamCounts(kind, d, g, r)'
  BY <1>1, <1>8, CountsSame DEF GroupInv
<1>10. InStep(c, g, r)'
  BY <1>4, <1>5, <1>6 DEF InStep, Last
<1>11. Woken(c, g)'
  <2>1. Owed(c, g)' <=> Owed(c, g)
    BY <1>4 DEF Owed
  <2> QED BY <2>1, <1>1, <1>4, WokenFrame DEF GroupInv
<1>12. \A d \in Clusters : /\ sync'[XIter(d)] = sync[XIter(d)]
                           /\ sync'[YIter(d)] = sync[YIter(d)]
  BY <1>1 DEF XIter, YIter
<1>13. Remembered(c, g, r)'
  BY <1>1, <1>4, <1>5, <1>12 DEF Remembered, Leading
<1> QED BY <1>1, <1>3, <1>9, <1>10, <1>11, <1>12, <1>13, MoveInv

\* A cluster of a row sees that it is done, and passes the barrier.
LEMMA GroupPollX ==
  ASSUME TypeOK, NEW g \in [Clusters -> Nat], NEW r \in [Clusters -> Nat],
         GroupInv(g, r), NEW c \in Clusters, PollX(c)
  PROVE  GroupInv(g, r)'
<1>1. /\ Goto(c, "pollX", "sync2") /\ sync[XIter(c)] # prev_x[c]
      /\ UNCHANGED <<registers, init, sync, prev_x, prev_y, wakes>>
  BY DEF PollX, words
<1>2. WorkLabel("pollX")
  BY LabelFacts DEF Counted
<1>3. Moved(c, "pollX", "sync2")
  BY <1>1, <1>2, MoveFacts
<1>4. /\ pc[c][DM] = "pollX" /\ pc'[c][DM] = "sync2" /\ Passed(c)' = Passed(c) + 1
  BY <1>3 DEF Moved
<1>5. InStep(c, g, r) /\ RowInStep(c, g, r) /\ Remembered(c, g, r)
  BY DEF GroupInv
<1>6. Passed(c) = r[c] - 1 /\ Passed(c) \in Nat
  BY <1>1, <1>4, <1>5, GroupTypes DEF Remembered, InStep
<1>7. r[c] = g[c]
  <2>1. ~Arrived("group", c, r)
    BY <1>6 DEF Arrived
  <2> QED BY <2>1, RowAhead
<1>8. PICK kind0 \in Kinds : kind0 = Kind(Passed(c))
  BY <1>4, InCall DEF Counted
<1>9. ASSUME NEW kind \in Kinds, NEW d \in Clusters
      PROVE  SameRow(kind, d, r, r) /\ SameTeam(kind, d, g, r, g, r)
  <2>1. CASE kind # kind0 \/ d # c
    BY <2>1, <1>3, <1>8, SameOutside
  <2>2. CASE kind = kind0 /\ d = c
    <3>1. \A L \in {Leading, {"resetX"}, Last, {"resetY"}} :
            ~At(kind0, c, L)' /\ ~At(kind0, c, L)
      BY <1>4 DEF At, Leading, Last
    <3>2. ~Arrived(kind0, c, r)' /\ ~Arrived(kind0, c, r)
      BY <1>4, <1>6 DEF Arrived, At, Counted, Leading, Last
    <3> QED BY <2>2, <3>1, <3>2 DEF SameRow, SameTeam, Reported
  <2> QED BY <2>1, <2>2
<1>10. \A kind \in Kinds, d \in Clusters : RowCounts(kind, d, r)' /\ TeamCounts(kind, d, g, r)'
  BY <1>1, <1>9, CountsSame DEF GroupInv
<1>11. InStep(c, g, r)'
  BY <1>4, <1>6 DEF InStep, Last
<1>12. Woken(c, g)'
  <2>1. ~Owed(c, g)' /\ ~Owed(c, g)
    BY <1>4, <1>5, <1>6, <1>7 DEF Owed, InStep
  <2> QED BY <2>1, <1>1, <1>4, WokenFrame DEF GroupInv
<1>13. \A d \in Clusters : /\ sync'[XIter(d)] = sync[XIter(d)]
                           /\ sync'[YIter(d)] = sync[YIter(d)]
  BY <1>1 DEF XIter, YIter
<1>14. Remembered(c, g, r)'
  BY <1>1, <1>4, <1>5, <1>13 DEF Remembered, Leading, Last
<1> QED BY <1>1, <1>3, <1>10, <1>11, <1>12, <1>13, <1>14, MoveInv

\* The wait for the wake-up: held, or answered by one that came early.
LEMMA GroupWfi ==
  ASSUME TypeOK, NEW g \in [Clusters -> Nat], NEW r \in [Clusters -> Nat],
         GroupInv(g, r), NEW c \in Clusters, Wfi(c)
  PROVE  GroupInv(g, r)'
<1>1. PICK to : /\ to = IF WaitPends(c) THEN "blocked" ELSE "sync2"
                /\ Goto(c, "wfi", to)
                /\ WaitForWakeup(c, DM)
                /\ UNCHANGED <<wakeup, init, sync, prev_x, prev_y, wakes>>
  BY DEF Wfi, words
<1>2. WorkLabel("wfi") /\ (WorkLabel(to) \/ to = "sync2") /\ to \in {"blocked", "sync2"}
  BY <1>1, LabelFacts DEF Counted
<1>3. Moved(c, "wfi", to)
  BY <1>1, <1>2, MoveFacts
<1>4. pc[c][DM] = "wfi" /\ pc'[c][DM] = to
      /\ Passed(c)' = IF to = "sync2" THEN Passed(c) + 1 ELSE Passed(c)
  BY <1>3 DEF Moved
<1>5. InStep(c, g, r) /\ Woken(c, g) /\ ~Polling(c)
  BY <1>4 DEF GroupInv, InStep
<1>6. global_barrier_query[c] = NULL /\ global_barrier_mutex[c] \in {0, 1}
  BY <1>4, <1>5, GroupTypes DEF Woken
<1>7. /\ global_barrier_mutex'[c] = 0
      /\ global_barrier_query'[c] = IF to = "blocked" THEN DM ELSE NULL
      /\ \A d \in Clusters : d # c => /\ global_barrier_mutex'[d] = global_barrier_mutex[d]
                                      /\ global_barrier_query'[d] = global_barrier_query[d]
      /\ \A d \in Clusters : InFlight(d)' = InFlight(d)
      /\ to = "blocked" <=> global_barrier_mutex[c] = 0
  BY <1>1, <1>2, <1>6 DEF WaitForWakeup, WaitPends, TypeOK, RegistersType, InFlight
<1>8. r[c] = g[c]
  BY <1>5, RowAhead
<1>9. to = "sync2" => /\ Passed(c) = r[c] - 1 /\ InFlight(c) = {}
  <2>1. to = "sync2" => global_barrier_mutex[c] = 1
    BY <1>2, <1>6, <1>7
  <2>2. to = "sync2" => Owed(c, g) /\ InFlight(c) = {}
    BY <2>1, <1>5 DEF Woken
  <2> QED BY <2>2, <1>5, <1>8, GroupTypes DEF InStep, Owed
<1>10. PICK kind0 \in Kinds : kind0 = Kind(Passed(c))
  BY <1>4, InCall DEF Counted
<1>11. ASSUME NEW kind \in Kinds, NEW d \in Clusters
       PROVE  SameRow(kind, d, r, r) /\ SameTeam(kind, d, g, r, g, r)
  <2>1. CASE kind # kind0 \/ d # c
    BY <2>1, <1>3, <1>10, SameOutside
  <2>2. CASE kind = kind0 /\ d = c
    <3>1. \A L \in {Leading, {"resetX"}, Last, {"resetY"}} :
            ~At(kind0, c, L)' /\ ~At(kind0, c, L)
      BY <1>2, <1>4 DEF At, Leading, Last
    <3>2. Arrived(kind0, c, r)' <=> Arrived(kind0, c, r)
      <4>1. CASE to = "sync2"
        BY <4>1, <1>4, <1>9, GroupTypes DEF Arrived, At, Counted, Leading, Last
      <4>2. CASE to = "blocked"
        BY <4>2, <1>4 DEF Arrived, At, Counted
      <4> QED BY <4>1, <4>2, <1>2
    <3>3. Arrived(kind0, c, r) => (Polling(c)' <=> Polling(c))
      <4>1. CASE to = "sync2"
        BY <4>1, <1>9, GroupTypes DEF Arrived
      <4>2. CASE to = "blocked"
        BY <4>2, <1>4 DEF Polling
      <4> QED BY <4>1, <4>2, <1>2
    <3>4. Reported(kind0, c, g, r)' <=> Reported(kind0, c, g, r)
      BY <3>2, <1>2, <1>4 DEF Reported
    <3> QED BY <2>2, <3>1, <3>2, <3>3, <3>4 DEF SameRow, SameTeam
  <2> QED BY <2>1, <2>2
<1>12. \A kind \in Kinds, d \in Clusters : RowCounts(kind, d, r)' /\ TeamCounts(kind, d, g, r)'
  BY <1>1, <1>11, CountsSame DEF GroupInv
<1>13. Polling(c)' => Polling(c) \/ to = "sync2"
  BY <1>2, <1>4 DEF Polling
<1>14. InStep(c, g, r)'
  BY <1>2, <1>4, <1>5, <1>9, <1>13, GroupTypes DEF InStep, Last
<1>15. ASSUME NEW d \in Clusters PROVE Woken(d, g)'
  <2>1. CASE d # c
    <3>1. pc'[d][DM] = pc[d][DM] /\ (Owed(d, g)' <=> Owed(d, g))
      BY <2>1, <1>3 DEF Moved, Owed, Polling
    <3> QED BY <2>1, <3>1, <1>1, <1>7 DEF GroupInv, Woken
  <2>2. CASE d = c /\ to = "blocked"
    <3>1. Owed(c, g)' <=> Owed(c, g)
      BY <2>2, <1>4 DEF Owed, Polling
    <3> QED BY <2>2, <3>1, <1>1, <1>4, <1>5, <1>7 DEF Woken
  <2>3. CASE d = c /\ to = "sync2"
    <3>1. ~Owed(c, g)'
      BY <2>3, <1>4, <1>8, <1>9, GroupTypes DEF Owed
    <3> QED BY <2>3, <3>1, <1>1, <1>4, <1>5, <1>7, <1>9 DEF Woken
  <2> QED BY <2>1, <2>2, <2>3, <1>2
<1>16. \A d \in Clusters : /\ sync'[XIter(d)] = sync[XIter(d)]
                           /\ sync'[YIter(d)] = sync[YIter(d)]
  BY <1>1 DEF XIter, YIter
<1>17. Remembered(c, g, r)'
  <2>1. Remembered(c, g, r)
    BY DEF GroupInv
  <2> QED BY <2>1, <1>1, <1>2, <1>4, <1>16 DEF Remembered, Leading, Last
<1> QED BY <1>1, <1>3, <1>12, <1>14, <1>15, <1>16, <1>17, MoveInv

\* The leader of a row announces that the call is over to it, and passes.
LEMMA GroupIterateX ==
  ASSUME TypeOK, NEW g \in [Clusters -> Nat], NEW r \in [Clusters -> Nat],
         GroupInv(g, r), NEW c \in Clusters, IterateX(c)
  PROVE  \E s \in [Clusters -> Nat] : GroupInv(g, s)'
<1>1. /\ Goto(c, "iterateX", "sync2")
      /\ sync' = [sync EXCEPT ![XIter(c)] = Iterated(sync[XIter(c)])]
      /\ UNCHANGED <<registers, init, prev_x, prev_y, wakes>>
  BY DEF IterateX, Advance, Iterated
<1>2. WorkLabel("iterateX")
  BY LabelFacts DEF Counted, Leading
<1>3. Moved(c, "iterateX", "sync2")
  BY <1>1, <1>2, MoveFacts
<1>4. /\ pc[c][DM] = "iterateX" /\ pc'[c][DM] = "sync2" /\ Passed(c)' = Passed(c) + 1
      /\ \A d \in Clusters : d # c => /\ pc'[d][DM] = pc[d][DM] /\ Passed(d)' = Passed(d)
                                      /\ Polling(d)' <=> Polling(d)
  BY <1>3 DEF Moved, Polling
<1>0. "group" \in Kinds /\ "global" \in Kinds
  BY DEF Kinds
<1>5. "group" = Kind(Passed(c)) /\ Polling(c)
  <2>1. Polling(c)
    BY <1>4 DEF GroupInv, InStep
  <2> QED BY <2>1, <1>4, InCall DEF Counted, Leading
<1> DEFINE R == TeamRow("group", c)
<1>6. /\ RowFull("group", c, r) /\ At("group", c, Leading) /\ Passed(c) = r[c]
      /\ \A d \in R : /\ d \in Clusters /\ Arrived("group", d, r)
                      /\ d # c => ~At("group", d, Leading)
                      /\ d # c => pc[d][DM] \in {"pollX", "wfi", "blocked"}
  BY <1>0, <1>4, <1>5, LeaderFacts DEF Leading
<1>7. c \in R /\ R \subseteq Group(c) /\ R \subseteq Clusters
  BY <1>0, TeamFacts DEF Team, TeamRow
<1>8. r[c] = g[c] - 1
  BY <1>4 DEF GroupInv, InStep
<1>9. \A d \in R : /\ r[d] = r[c] /\ g[d] = g[c] /\ Passed(d) = r[d] /\ Polling(d)
  <2> TAKE d \in R
  <2>1. r[d] = r[c] /\ g[d] = g[c] /\ Passed(d) = r[d]
    BY <1>6, <1>7 DEF GroupInv, Grouped, Arrived
  <2> QED BY <2>1, <1>5, <1>6 DEF Polling
<1>10. \A d \in R : d # c => pc[d][DM] = "pollX"
  BY <1>6, <1>9 DEF GroupInv, InStep
<1> DEFINE s == [d \in Clusters |-> IF d \in R THEN r[d] + 1 ELSE r[d]]
<1>11. /\ s \in [Clusters -> Nat]
       /\ \A d \in R : s[d] = r[d] + 1 /\ s[d] = g[d]
       /\ \A d \in Clusters : d \notin R => s[d] = r[d]
  BY <1>7, <1>8, <1>9
<1> HIDE DEF s
<1>12. Grouped(g, s)'
  <2> SUFFICES ASSUME NEW d \in Clusters, NEW e \in Clusters
               PROVE  /\ e \in Group(d) => g[e] = g[d]
                      /\ e \in TeamRow("group", d) => s[e] = s[d]
                      /\ \A n \in 1 .. Rounds : Program[n] = "global" /\ n < g[d] => n < g[e]
    BY DEF Grouped
  <2>1. /\ e \in Group(d) => g[e] = g[d]
        /\ e \in TeamRow("group", d) => r[e] = r[d]
        /\ \A n \in 1 .. Rounds : Program[n] = "global" /\ n < g[d] => n < g[e]
    BY DEF GroupInv, Grouped
  <2>2. e \in TeamRow("group", d) => (e \in R <=> d \in R)
    BY <1>0, TeamFacts
  <2>3. e \in TeamRow("group", d) => s[e] = s[d]
    BY <2>1, <2>2, <1>11
  <2> QED BY <2>1, <2>3
<1>13. ASSUME NEW d \in Clusters, d \in R
       PROVE  InStep(d, g, s)' /\ RowInStep(d, g, s)'
  <2>1. RowInStep(d, g, s)'
    BY <1>11, <1>13 DEF RowInStep
  <2>2. Passed(d) \in Nat /\ Passed(d) > 0 /\ r[d] \in Nat
    BY GroupTypes DEF GroupInv, InStep
  <2>3. CASE d = c
    BY <2>1, <2>2, <2>3, <1>4, <1>9, <1>11, <1>13 DEF InStep, Last
  <2>4. CASE d # c
    <3>1. pc'[d][DM] = "pollX" /\ Passed(d)' = s[d] - 1 /\ Polling(d)'
      BY <2>2, <2>4, <1>4, <1>9, <1>10, <1>11, <1>13
    <3> QED BY <2>1, <2>2, <2>4, <3>1, <1>4, <1>13 DEF InStep, Last
  <2> QED BY <2>3, <2>4
<1>14. ASSUME NEW d \in Clusters, d \notin R
       PROVE  InStep(d, g, s)' /\ RowInStep(d, g, s)'
  <2>1. d # c /\ s[d] = r[d]
    BY <1>7, <1>11, <1>14
  <2>2. InStep(d, g, s)'
    BY <2>1, <1>4 DEF GroupInv, InStep, Polling
  <2>3. RowInStep(d, g, s)'
    <3>1. CASE r[d] = g[d]
      BY <3>1, <2>1 DEF RowInStep
    <3>2. CASE r[d] # g[d]
      <4>1. r[d] = g[d] - 1
        BY <3>2 DEF GroupInv, RowInStep
      <4>2. PICK e \in TeamRow("group", d) : pc[e][DM] \in {"pollY", "iterateX"}
        BY <3>2 DEF GroupInv, RowInStep
      <4>3. e \in Clusters /\ e # c
        BY <1>0, <1>14, TeamFacts
      <4>4. pc'[e][DM] \in {"pollY", "iterateX"}
        BY <4>2, <4>3, <1>4
      <4> QED BY <4>1, <4>2, <4>4, <2>1 DEF RowInStep
    <3> QED BY <3>1, <3>2
  <2> QED BY <2>2, <2>3
<1>15. ASSUME NEW d \in Clusters PROVE Woken(d, g)'
  <2>1. Owed(d, g)' <=> Owed(d, g)
    <3>1. CASE d = c
      <4>1. ~Owed(c, g) /\ ~Owed(c, g)'
        BY <1>4, <1>5, <1>6, <1>8, GroupTypes DEF Owed
      <4> QED BY <3>1, <4>1
    <3>2. CASE d # c
      BY <3>2, <1>4 DEF Owed
    <3> QED BY <3>1, <3>2
  <2>2. pc'[d][DM] = "blocked" <=> pc[d][DM] = "blocked"
    BY <1>4
  <2> QED BY <2>1, <2>2, <1>1, WokenFrame DEF GroupInv
<1>16. ASSUME NEW d \in Clusters PROVE Remembered(d, g, s)'
  <2>1. Remembered(d, g, r) /\ Remembered(c, g, r)
    BY DEF GroupInv
  <2>2. sync'[YIter(d)] = sync[YIter(d)]
    <3>1. XIter(c) # YIter(d)
      BY <1>0, WordFacts
    <3>2. XIter(c) \in Clusters \X Words /\ YIter(d) \in Clusters \X Words
      BY <1>0, WordTypes
    <3> QED BY <3>1, <3>2, <1>1 DEF TypeOK
  <2>3. sync'[XIter(d)] = IF d \in R THEN Iterated(sync[XIter(d)]) ELSE sync[XIter(d)]
    <3>1. XIter(c) = XIter(d) <=> d \in R
      BY <1>0, WordFacts
    <3>2. XIter(c) \in Clusters \X Words /\ XIter(d) \in Clusters \X Words
      BY <1>0, WordTypes
    <3> QED BY <3>1, <3>2, <1>1 DEF TypeOK
  <2>4. sync[XIter(d)] \in Iterations /\ Iterated(sync[XIter(d)]) \in Iterations
    BY <2>1, IteratedChanges DEF Remembered
  <2>5. prev_x'[d] = prev_x[d] /\ prev_y'[d] = prev_y[d]
    BY <1>1
  <2>6. CASE d = c
    BY <2>1, <2>2, <2>3, <2>4, <2>6, <1>4 DEF Remembered, Leading, Last
  <2>7. CASE d # c /\ d \in R
    <3>1. pc[d][DM] = "pollX" /\ pc'[d][DM] = "pollX"
      BY <2>7, <1>4, <1>10
    <3>2. Passed(d)' = s[d] - 1 /\ s[d] \in Nat
      BY <2>7, <1>4, <1>9, <1>11, GroupTypes
    <3>3. sync[XIter(d)] = prev_x[d]
      BY <2>1, <2>7, <3>1, <1>9 DEF Remembered
    <3>4. Passed(d)' # s[d]
      BY <3>2
    <3> QED BY <2>1, <2>2, <2>3, <2>4, <2>5, <2>7, <3>1, <3>3, <3>4
            DEF Remembered, Leading, Last
  <2>8. CASE d # c /\ d \notin R
    BY <2>1, <2>2, <2>3, <2>5, <2>8, <1>4, <1>11 DEF Remembered
  <2> QED BY <2>6, <2>7, <2>8
<1>17. ASSUME NEW kind \in Kinds, NEW d \in Clusters, kind # "group" \/ d \notin R
       PROVE  SameRow(kind, d, r, s) /\ SameTeam(kind, d, g, r, g, s)
  <2>1. CASE d \notin R
    BY <2>1, <1>4, <1>7, <1>11, SameWhenUntouched
  <2>2. CASE d \in R /\ kind # "group"
    <3>1. ~At(kind, d, Counted)
      BY <2>2, <1>6 DEF Arrived, At
    <3>2. ~At(kind, d, Counted)'
      <4>1. CASE d = c
        BY <4>1, <1>4 DEF At, Counted, Leading, Last
      <4>2. CASE d # c
        BY <4>2, <3>1, <1>4 DEF At
      <4> QED BY <4>1, <4>2
    <3> QED BY <3>1, <3>2, <1>11, SameWhenElsewhere
  <2> QED BY <2>1, <2>2, <1>17
<1>18. ASSUME NEW kind \in Kinds, NEW d \in Clusters
       PROVE  /\ sync'[XWord(kind, d)] = sync[XWord(kind, d)]
              /\ sync'[YWord(kind, d)] = sync[YWord(kind, d)]
  <2>1. {XWord(kind, d), YWord(kind, d)} \cap {XIter(c), YIter(c)} = {}
    BY WordFacts
  <2>2. {XWord(kind, d), YWord(kind, d)} \subseteq Clusters \X Words
    BY WordTypes
  <2> QED BY <2>1, <2>2, <1>1 DEF TypeOK
<1>19. RowCounts("group", c, s)'
  <2>1. ASSUME NEW d \in R
        PROVE  ~Arrived("group", d, s)' /\ ~At("group", d, Leading)' /\ ~At("group", d, {"resetX"})'
    <3>1. CASE d = c
      BY <3>1, <1>4 DEF Arrived, At, Counted, Leading, Last
    <3>2. CASE d # c
      <4>1. Passed(d)' # s[d] /\ pc'[d][DM] = "pollX"
        BY <3>2, <1>4, <1>6, <1>9, <1>10, <1>11, GroupTypes
      <4> QED BY <4>1 DEF Arrived, At, Leading, Last
    <3> QED BY <3>1, <3>2
  <2>2. ArrivedOf("group", c, s)' = {} /\ Cardinality({}) = 0 /\ R # {}
    BY <2>1, <1>7, FS_EmptySet DEF ArrivedOf
  <2>3. ~RowFull("group", c, s)' /\ ~SomeInRow("group", c, Leading)'
    BY <2>1, <2>2 DEF RowFull, SomeInRow
  <2>4. ~SomeInRow("group", c, {"resetX"})
    <3>1. ASSUME NEW d \in R PROVE ~At("group", d, {"resetX"})
      BY <1>4, <1>6 DEF At
    <3> QED BY <3>1 DEF SomeInRow
  <2>5. XCleared("group", c) => sync[XWord("group", c)] = 0
    BY <2>4, <1>0, <1>6 DEF GroupInv, RowCounts
  <2>6. XCleared("group", c)' <=> XCleared("group", c)
    BY <1>1 DEF XCleared
  <2> QED BY <2>1, <2>2, <2>3, <2>5, <2>6, <1>0, <1>18 DEF RowCounts
<1>20. \A kind \in Kinds, d \in Clusters : RowCounts(kind, d, s)'
  BY <1>0, <1>1, <1>11, <1>17, <1>18, <1>19, RowsStep DEF GroupInv
<1>21. ASSUME NEW d \in Clusters, d \in R
       PROVE  SameTeam("group", d, g, r, g, s)
  <2>1. \A L \in {Last, {"resetY"}} : ~At("group", d, L)' /\ ~At("group", d, L)
    <3>1. CASE d = c
      BY <3>1, <1>4 DEF At, Last
    <3>2. CASE d # c
      BY <3>2, <1>4, <1>10, <1>21 DEF At, Last
    <3> QED BY <3>1, <3>2
  <2>2. ~Reported("group", d, g, r)
    BY <1>8, <1>9, <1>21 DEF Reported
  <2>3. ~Reported("group", d, g, s)'
    <3>1. CASE d = c
      BY <3>1, <1>4 DEF Reported, Arrived, At, Counted, Leading, Last
    <3>2. CASE d # c
      <4>1. Passed(d)' # s[d]
        BY <3>2, <1>4, <1>9, <1>11, <1>21, GroupTypes
      <4> QED BY <4>1 DEF Reported, Arrived
    <3> QED BY <3>1, <3>2
  <2> QED BY <2>1, <2>2, <2>3 DEF SameTeam
<1>22. ASSUME NEW kind \in Kinds, NEW d \in Clusters PROVE TeamCounts(kind, d, g, s)'
  <2>1. \A e \in Team(kind, d) : SameTeam(kind, e, g, r, g, s)
    <3> TAKE e \in Team(kind, d)
    <3>1. e \in Clusters
      BY TeamFacts
    <3> QED BY <3>1, <1>17, <1>21
  <2>2. YCleared(kind, d)' <=> YCleared(kind, d)
    BY <1>1 DEF YCleared
  <2>3. TeamCounts(kind, d, g, r)
    BY DEF GroupInv
  <2> QED BY <2>1, <2>2, <2>3, <1>11, <1>18, TeamFrameSame
<1>23. GroupInv(g, s)'
  BY <1>12, <1>13, <1>14, <1>15, <1>16, <1>20, <1>22 DEF GroupInv
<1> QED BY <1>11, <1>23

-----------------------------------------------------------------------------
(* The steps that end a barrier. *)

\* The broadcasts of n barriers, the first of which is the initialisation's.
Broadcasts(n) == Cardinality({m \in 1 .. n - 1 : Program[m] # "poll"})

LEMMA BroadcastsNext ==
  ASSUME NEW n \in Nat, n > 0
  PROVE  /\ Broadcasts(1) = 0
         /\ Broadcasts(n) \in Nat
         /\ Broadcasts(n + 1) = Broadcasts(n) + (IF Program[n] = "poll" THEN 0 ELSE 1)
<1> DEFINE B(k) == {m \in 1 .. k - 1 : Program[m] # "poll"}
<1>0. /\ Broadcasts(1) = Cardinality(B(1)) /\ Broadcasts(n) = Cardinality(B(n))
      /\ Broadcasts(n + 1) = Cardinality(B(n + 1))
  BY DEF Broadcasts
<1>1. B(1) = {} /\ Cardinality({}) = 0
  BY FS_EmptySet
<1>2. IsFiniteSet(B(n)) /\ Cardinality(B(n)) \in Nat
  <2>1. IsFiniteSet(1 .. n - 1) /\ B(n) \subseteq 1 .. n - 1
    BY FS_Interval
  <2>2. IsFiniteSet(B(n))
    BY <2>1, FS_Subset
  <2> QED BY <2>2, FS_CardinalityType
<1>3. CASE Program[n] = "poll"
  <2>1. B(n + 1) = B(n)
    <3>1. \A m \in 1 .. (n + 1) - 1 : m \in 1 .. n - 1 \/ m = n
      OBVIOUS
    <3> QED BY <3>1, <1>3
  <2> HIDE DEF B
  <2> QED BY <1>0, <1>1, <1>2, <1>3, <2>1
<1>4. CASE Program[n] # "poll"
  <2>1. B(n + 1) = B(n) \cup {n} /\ n \notin B(n)
    <3>1. \A m \in 1 .. (n + 1) - 1 : m \in 1 .. n - 1 \/ m = n
      OBVIOUS
    <3>2. n \in 1 .. (n + 1) - 1 /\ n \notin 1 .. n - 1
      OBVIOUS
    <3>3. 1 .. n - 1 \subseteq 1 .. (n + 1) - 1
      OBVIOUS
    <3> QED BY <3>1, <3>2, <3>3, <1>4
  <2>2. Cardinality(B(n) \cup {n}) = Cardinality(B(n)) + 1
    BY <1>2, <2>1, FS_AddElement
  <2> HIDE DEF B
  <2> QED BY <1>0, <1>1, <1>2, <1>4, <2>1, <2>2
<1> QED BY <1>3, <1>4

\* Every cluster of the team has passed the calls before the one that ends, and
\* they all are in it; the number of the group becomes that of the next call.
LEMMA TeamAtEnd ==
  ASSUME TypeOK, NEW g \in [Clusters -> Nat], NEW r \in [Clusters -> Nat],
         GroupInv(g, r), NEW c \in Clusters, pc[c][DM] \in Last,
         NEW kind0 \in Kinds, kind0 = Kind(Passed(c)),
         NEW h \in [Clusters -> Nat],
         \A d \in Clusters : h[d] = IF d \in Team(kind0, c) THEN g[d] + 1 ELSE g[d],
         Polling(c) => kind0 = "group"
  PROVE  /\ \A d \in Team(kind0, c) :
              /\ d \in Clusters
              /\ Passed(d) = g[d] /\ r[d] = g[d] /\ g[d] > 0
              /\ Arrived(kind0, d, r) /\ Reported(kind0, d, g, r)
              /\ Polling(d) <=> Polling(c)
              /\ d # c => /\ pc[d][DM] \notin Last \cup {"resetX", "amoY", "iterateX"}
                          /\ Polling(c) => pc[d][DM] \in {"pollY", "pollX"}
                          /\ ~Polling(c) => pc[d][DM] \in {"wfi", "blocked"}
              /\ \A kind \in Kinds : kind # kind0 => ~At(kind, d, Counted)
         /\ Grouped(h, r)
         /\ \A d, e \in Clusters : e \in Group(d) => (e \in Team(kind0, c) <=> d \in Team(kind0, c))
<1> DEFINE T == Team(kind0, c)
<1>1. \A d \in T : /\ d \in Clusters /\ Reported(kind0, d, g, r)
                   /\ d # c => pc[d][DM] \notin Last
  BY LastFacts
<1>2. ASSUME NEW d \in T
      PROVE  /\ d \in Clusters
             /\ Passed(d) = g[d] /\ r[d] = g[d] /\ g[d] > 0
             /\ Arrived(kind0, d, r) /\ At(kind0, d, Counted)
             /\ pc[d][DM] \notin {"resetX", "amoY"}
             /\ InStep(d, g, r)
  <2>1. d \in Clusters /\ Arrived(kind0, d, r) /\ r[d] = g[d] /\ pc[d][DM] \notin {"resetX", "amoY"}
    BY <1>1 DEF Reported
  <2>2. InStep(d, g, r)
    BY <2>1 DEF GroupInv
  <2> QED BY <2>1, <2>2 DEF Arrived, InStep
<1>3. c \in T
  BY TeamFacts
<1>4. ASSUME NEW d \in T PROVE Polling(d) <=> Polling(c)
  <2>1. CASE kind0 = "group"
    <3>1. d \in Group(c)
      BY <2>1 DEF Team
    <3>2. g[d] = g[c]
      BY <3>1, <1>2 DEF GroupInv, Grouped
    <3> QED BY <3>2, <1>2, <1>3 DEF Polling
  <2>2. CASE kind0 # "group"
    <3>1. ~Polling(c) /\ Kind(Passed(d)) # "group"
      BY <2>2, <1>2 DEF At
    <3> QED BY <3>1 DEF Polling, Kind
  <2> QED BY <2>1, <2>2
<1>5. ASSUME NEW d \in T, d # c
      PROVE  /\ pc[d][DM] \notin Last \cup {"resetX", "amoY", "iterateX"}
             /\ Polling(c) => pc[d][DM] \in {"pollY", "pollX"}
             /\ ~Polling(c) => pc[d][DM] \in {"wfi", "blocked"}
  <2>1. pc[d][DM] # "iterateX"
    BY <1>2 DEF InStep
  <2>2. pc[d][DM] \notin Last \cup {"resetX", "amoY", "iterateX"}
    BY <1>1, <1>2, <1>5, <2>1
  <2>3. pc[d][DM] \in {"pollY", "pollX", "wfi", "blocked"}
    BY <1>2, <2>2 DEF At, Counted, Leading
  <2> QED BY <2>2, <2>3, <1>2, <1>4 DEF InStep
<1>6. \A d \in T, kind \in Kinds : kind # kind0 => ~At(kind, d, Counted)
  BY <1>2 DEF At
<1>7. \A d, e \in Clusters : e \in Group(d) => (e \in T <=> d \in T)
  BY DEF Team, Group
<1>8. Grouped(h, r)
  <2> SUFFICES ASSUME NEW d \in Clusters, NEW e \in Clusters
               PROVE  /\ e \in Group(d) => h[e] = h[d]
                      /\ e \in TeamRow("group", d) => r[e] = r[d]
                      /\ \A n \in 1 .. Rounds : Program[n] = "global" /\ n < h[d] => n < h[e]
    BY DEF Grouped
  <2>1. /\ e \in Group(d) => g[e] = g[d]
        /\ e \in TeamRow("group", d) => r[e] = r[d]
        /\ \A n \in 1 .. Rounds : Program[n] = "global" /\ n < g[d] => n < g[e]
        /\ \A n \in 1 .. Rounds : Program[n] = "global" /\ n < g[e] => n < g[d]
    BY DEF GroupInv, Grouped
  <2>2. e \in Group(d) => h[e] = h[d]
    BY <2>1, <1>7
  <2>3. ASSUME NEW n \in 1 .. Rounds, Program[n] = "global", n < h[d] PROVE n < h[e]
    <3>1. g[d] \in Nat /\ g[e] \in Nat /\ g[e] <= h[e] /\ n \in Nat
      OBVIOUS
    <3>2. CASE n < g[d]
      BY <2>1, <2>3, <3>1, <3>2
    <3>3. CASE ~(n < g[d])
      <4>1. d \in T /\ n = g[d]
        BY <2>3, <3>1, <3>3
      <4>2. Passed(d) = n /\ At(kind0, d, Counted)
        BY <4>1, <1>2
      <4>3. kind0 = "global"
        BY <4>2, <2>3 DEF At, Kind
      <4>4. e \in T /\ h[e] = g[e] + 1
        BY <4>3 DEF Team
      <4>5. ~(g[e] < n)
        <5> SUFFICES ASSUME g[e] < n PROVE FALSE
          OBVIOUS
        <5>1. Passed(e) = g[e] /\ At(kind0, e, Counted) /\ g[e] > 0
          BY <4>4, <1>2
        <5>2. Program[g[e]] = "global"
          BY <5>1, <4>3 DEF At, Kind
        <5>3. g[e] \in 1 .. Rounds
          BY <5>1, <3>1
        <5> QED BY <2>1, <3>1, <4>1, <5>2, <5>3
      <4> QED BY <3>1, <4>4, <4>5
    <3> QED BY <3>2, <3>3
  <2> QED BY <2>1, <2>2, <2>3
<1> QED BY <1>1, <1>2, <1>4, <1>5, <1>6, <1>7, <1>8

\* Nobody is counted in the next call yet: the counters are those of a team that
\* has just been emptied.
LEMMA EmptyRow ==
  ASSUME NEW kind \in Kinds, NEW c \in Clusters, NEW s \in [Clusters -> Nat],
         XCleared(kind, c)' => sync'[XWord(kind, c)] = 0,
         \A d \in TeamRow(kind, c) : ~Arrived(kind, d, s)' /\ ~At(kind, d, Leading)'
  PROVE  RowCounts(kind, c, s)'
<1>1. ArrivedOf(kind, c, s)' = {} /\ Cardinality({}) = 0
  BY FS_EmptySet DEF ArrivedOf
<1>2. c \in TeamRow(kind, c)
  BY TeamFacts
<1>3. ~RowFull(kind, c, s)' /\ ~SomeInRow(kind, c, Leading)'
  BY <1>1, <1>2 DEF RowFull, SomeInRow
<1> QED BY <1>1, <1>3 DEF RowCounts

LEMMA EmptyTeam ==
  ASSUME NEW kind \in Kinds, NEW c \in Clusters,
         NEW h \in [Clusters -> Nat], NEW s \in [Clusters -> Nat],
         YCleared(kind, c)' => sync'[YWord(kind, c)] = 0,
         \A d \in Team(kind, c) : ~Reported(kind, d, h, s)' /\ ~At(kind, d, Last)'
  PROVE  TeamCounts(kind, c, h, s)'
<1>1. \A y \in TeamRows(kind, c) : \E d \in Team(kind, c) : RowOf(d) = y
  BY DEF TeamRows
<1>2. ReportedRows(kind, c, h, s)' = {} /\ Cardinality({}) = 0
  BY <1>1, FS_EmptySet DEF ReportedRows
<1>3. RowOf(c) \in TeamRows(kind, c)
  BY TeamFacts
<1>4. ~TeamFull(kind, c, h, s)' /\ ~SomeInTeam(kind, c, Last)'
  BY <1>2, <1>3 DEF TeamFull, SomeInTeam
<1> QED BY <1>2, <1>4 DEF TeamCounts

\* The counters of a team that is full, and has a last cluster, are cleared.
LEMMA FullCleared ==
  ASSUME TypeOK, NEW g \in [Clusters -> Nat], NEW r \in [Clusters -> Nat],
         GroupInv(g, r), NEW c \in Clusters, pc[c][DM] \in {"wake", "iterateY"},
         NEW kind0 \in Kinds, kind0 = Kind(Passed(c))
  PROVE  /\ \A d \in Team(kind0, c) : XCleared(kind0, d) => sync[XWord(kind0, d)] = 0
         /\ YCleared(kind0, c) => sync[YWord(kind0, c)] = 0
<1>0. pc[c][DM] \in Last /\ c \in Team(kind0, c)
  BY TeamFacts DEF Last
<1>1. /\ TeamFull(kind0, c, g, r)
      /\ \A d \in Team(kind0, c) : /\ d \in Clusters /\ Reported(kind0, d, g, r)
                                   /\ d # c => ~At(kind0, d, Last)
  BY <1>0, LastFacts
<1>2. ~SomeInTeam(kind0, c, {"resetY"})
  <2>1. ASSUME NEW d \in Team(kind0, c) PROVE ~At(kind0, d, {"resetY"})
    <3>1. CASE d = c
      BY <3>1 DEF At
    <3>2. CASE d # c
      BY <3>2, <1>1 DEF At, Last
    <3> QED BY <3>1, <3>2
  <2> QED BY <2>1 DEF SomeInTeam
<1>3. YCleared(kind0, c) => sync[YWord(kind0, c)] = 0
  BY <1>1, <1>2 DEF GroupInv, TeamCounts
<1>4. ASSUME NEW d \in Team(kind0, c), XCleared(kind0, d) PROVE sync[XWord(kind0, d)] = 0
  <2>1. d \in Clusters /\ TeamRow(kind0, d) \subseteq Team(kind0, c)
    BY <1>1, TeamFacts
  <2>2. \A e \in TeamRow(kind0, d) : Arrived(kind0, e, r) /\ ~At(kind0, e, {"resetX"})
    BY <1>1, <2>1 DEF Reported, At
  <2>3. RowFull(kind0, d, r) /\ ~SomeInRow(kind0, d, {"resetX"})
    BY <2>2 DEF RowFull, ArrivedOf, SomeInRow
  <2> QED BY <2>1, <2>3, <1>4 DEF GroupInv, RowCounts
<1> QED BY <1>3, <1>4

\* The last cluster of a polling call announces that it is over.
LEMMA GroupIterateY ==
  ASSUME TypeOK, NEW g \in [Clusters -> Nat], NEW r \in [Clusters -> Nat],
         GroupInv(g, r), NEW c \in Clusters, IterateY(c)
  PROVE  \E h \in [Clusters -> Nat] : GroupInv(h, r)'
<1>1. /\ Goto(c, "iterateY", "iterateX")
      /\ sync' = [sync EXCEPT ![YIter(c)] = Iterated(sync[YIter(c)])]
      /\ UNCHANGED <<registers, init, prev_x, prev_y, wakes>>
  BY DEF IterateY, Advance, Iterated
<1>2. WorkLabel("iterateY") /\ WorkLabel("iterateX")
  BY LabelFacts DEF Counted, Leading, Last
<1>3. Moved(c, "iterateY", "iterateX")
  BY <1>1, <1>2, MoveFacts
<1>4. /\ pc[c][DM] = "iterateY" /\ pc'[c][DM] = "iterateX" /\ pc[c][DM] \in Last
      /\ \A d \in Clusters : /\ Passed(d)' = Passed(d) /\ (Polling(d)' <=> Polling(d))
                             /\ d # c => pc'[d][DM] = pc[d][DM]
  BY <1>3 DEF Moved, Polling, Last
<1>0. "group" \in Kinds /\ "global" \in Kinds
  BY DEF Kinds
<1>5. Kind(Passed(c)) = "group" /\ Polling(c)
  <2>1. Polling(c)
    BY <1>4 DEF GroupInv, InStep
  <2> QED BY <2>1, <1>4, InCall DEF Counted, Leading, Last
<1> DEFINE T == Team("group", c)
           h == [d \in Clusters |-> IF d \in T THEN g[d] + 1 ELSE g[d]]
<1>6. /\ h \in [Clusters -> Nat]
      /\ \A d \in Clusters : h[d] = IF d \in Team("group", c) THEN g[d] + 1 ELSE g[d]
  OBVIOUS
<1> HIDE DEF h
<1>7. /\ \A d \in T :
           /\ d \in Clusters
           /\ Passed(d) = g[d] /\ r[d] = g[d] /\ g[d] > 0
           /\ Arrived("group", d, r) /\ Reported("group", d, g, r)
           /\ Polling(d)
           /\ d # c => pc[d][DM] \in {"pollY", "pollX"}
           /\ \A kind \in Kinds : kind # "group" => ~At(kind, d, Counted)
      /\ Grouped(h, r)
      /\ \A d, e \in Clusters : e \in Group(d) => (e \in T <=> d \in T)
  BY <1>0, <1>4, <1>5, <1>6, TeamAtEnd
<1>8. c \in T /\ \A d \in Clusters : d \in T => h[d] = g[d] + 1 /\ r[d] # h[d]
  BY <1>0, <1>6, <1>7, TeamFacts
<1>9. ASSUME NEW d \in Clusters, d \in T PROVE RowInStep(d, h, r)'
  <2>1. TeamRow("group", d) \subseteq T /\ d \in TeamRow("group", d)
    BY <1>0, <1>9, TeamFacts
  <2>2. \A e \in TeamRow("group", d) : Arrived("group", e, r)
    BY <2>1, <1>7
  <2>3. RowFull("group", d, r)
    BY <2>2 DEF RowFull, ArrivedOf
  <2>4. SomeInRow("group", d, Leading)
    BY <2>1, <2>3, <1>0, <1>7, <1>9 DEF GroupInv, RowCounts
  <2>5. PICK e \in TeamRow("group", d) : At("group", e, Leading)
    BY <2>4 DEF SomeInRow
  <2>6. pc'[e][DM] \in {"pollY", "iterateX"}
    <3>1. CASE e = c
      BY <3>1, <1>4
    <3>2. CASE e # c
      BY <3>2, <2>1, <2>5, <1>4, <1>7 DEF At, Leading, Last
    <3> QED BY <3>1, <3>2
  <2> QED BY <2>6, <1>7, <1>8, <1>9 DEF RowInStep
<1>10. ASSUME NEW d \in Clusters, d \notin T PROVE RowInStep(d, h, r)'
  <2>1. h[d] = g[d]
    BY <1>6, <1>10
  <2>2. RowInStep(d, g, r)'
    BY <1>3, RowInStepFrame
  <2> QED BY <2>1, <2>2 DEF RowInStep
<1>11. ASSUME NEW d \in Clusters PROVE InStep(d, h, r)'
  <2>1. CASE d \in T
    <3>1. /\ Passed(d)' = r[d] /\ r[d] = h[d] - 1 /\ Passed(d)' > 0 /\ Polling(d)'
      BY <2>1, <1>4, <1>7, <1>8, <1>11
    <3>2. pc'[d][DM] \in {"iterateX", "pollX", "pollY"}
      BY <2>1, <1>4, <1>7, <1>11
    <3> QED BY <3>1, <3>2 DEF InStep, Last
  <2>2. CASE d \notin T
    BY <2>2, <1>4, <1>6, <1>8, <1>11 DEF GroupInv, InStep
  <2> QED BY <2>1, <2>2
<1>12. ASSUME NEW d \in Clusters PROVE Woken(d, h)'
  <2>1. InFlight(d)' = InFlight(d) /\ Woken(d, g)
    BY <1>1 DEF registers, InFlight, GroupInv
  <2>2. Owed(d, h)' <=> Owed(d, g)
    BY <1>4, <1>6, <1>7 DEF Owed
  <2>3. pc'[d][DM] = "blocked" <=> pc[d][DM] = "blocked"
    BY <1>4
  <2>4. wakes[d] = Cardinality({n \in 1 .. g[d] - 1 : Program[n] # "poll"})
    BY <2>1 DEF Woken
  <2>5. wakes'[d] = Cardinality({n \in 1 .. h[d] - 1 : Program[n] # "poll"})
    <3>1. CASE d \in T
      <4>1. Program[g[d]] = "poll" /\ g[d] > 0 /\ g[d] \in Nat
        BY <3>1, <1>7 DEF Polling
      <4>2. Broadcasts(g[d] + 1) = Broadcasts(g[d]) /\ h[d] = g[d] + 1
        BY <3>1, <4>1, <1>6, BroadcastsNext
      <4> QED BY <4>2, <2>4, <1>1 DEF Broadcasts
    <3>2. CASE d \notin T
      BY <3>2, <2>4, <1>1, <1>6
    <3> QED BY <3>1, <3>2
  <2> QED BY <2>1, <2>2, <2>3, <2>5, <1>1 DEF Woken, registers
<1>13. ASSUME NEW d \in Clusters PROVE Remembered(d, h, r)'
  <2>1. Remembered(d, g, r)
    BY DEF GroupInv
  <2>2. sync'[XIter(d)] = sync[XIter(d)]
    <3>1. YIter(c) # XIter(d)
      BY <1>0, WordFacts
    <3>2. YIter(c) \in Clusters \X Words /\ XIter(d) \in Clusters \X Words
      BY <1>0, WordTypes
    <3> QED BY <3>1, <3>2, <1>1 DEF TypeOK
  <2>3. sync'[YIter(d)] = IF d \in T THEN Iterated(sync[YIter(d)]) ELSE sync[YIter(d)]
    <3>1. YIter(c) = YIter(d) <=> d \in T
      BY <1>0, WordFacts
    <3>2. YIter(c) \in Clusters \X Words /\ YIter(d) \in Clusters \X Words
      BY <1>0, WordTypes
    <3> QED BY <3>1, <3>2, <1>1 DEF TypeOK
  <2>4. sync[YIter(d)] \in Iterations /\ Iterated(sync[YIter(d)]) \in Iterations
    BY <2>1, IteratedChanges DEF Remembered
  <2>5. prev_x'[d] = prev_x[d] /\ prev_y'[d] = prev_y[d]
    BY <1>1
  <2>6. CASE d = c
    BY <2>1, <2>2, <2>3, <2>4, <2>5, <2>6, <1>4, <1>5, <1>8 DEF Remembered, Leading, Last
  <2>7. CASE d # c /\ d \in T
    <3>1. pc'[d][DM] = pc[d][DM] /\ pc[d][DM] \in {"pollX", "pollY"}
      BY <2>7, <1>4, <1>7
    <3>2. r[d] # h[d] /\ r[d] = g[d] /\ Passed(d)' = Passed(d) /\ (Polling(d)' <=> Polling(d))
      BY <2>7, <1>4, <1>7, <1>8
    <3> QED BY <2>1, <2>2, <2>3, <2>4, <2>5, <2>7, <3>1, <3>2 DEF Remembered, Leading, Last
  <2>8. CASE d # c /\ d \notin T
    <3>1. h[d] = g[d] /\ pc'[d][DM] = pc[d][DM] /\ Passed(d)' = Passed(d)
          /\ (Polling(d)' <=> Polling(d))
      BY <2>8, <1>4, <1>6
    <3> QED BY <2>1, <2>2, <2>3, <2>5, <2>8, <3>1 DEF Remembered
  <2> QED BY <2>6, <2>7, <2>8
<1>14. ASSUME NEW kind \in Kinds, NEW d \in Clusters
       PROVE  /\ sync'[XWord(kind, d)] = sync[XWord(kind, d)]
              /\ sync'[YWord(kind, d)] = sync[YWord(kind, d)]
  <2>1. {XWord(kind, d), YWord(kind, d)} \cap {XIter(c), YIter(c)} = {}
    BY WordFacts
  <2>2. {XWord(kind, d), YWord(kind, d)} \subseteq Clusters \X Words
    BY WordTypes
  <2> QED BY <2>1, <2>2, <1>1 DEF TypeOK
<1>15. ASSUME NEW kind \in Kinds, NEW d \in Clusters PROVE RowCounts(kind, d, r)'
  <2>1. ASSUME NEW e \in TeamRow(kind, d) PROVE SameRow(kind, e, r, r)
    <3>1. e \in Clusters
      BY TeamFacts
    <3>2. CASE e # c
      BY <3>1, <3>2, <1>4, <1>6, SameWhenUntouched
    <3>3. CASE e = c
      <4>1. /\ \A L \in {Leading, {"resetX"}} : At(kind, c, L)' <=> At(kind, c, L)
            /\ At(kind, c, Counted)' <=> At(kind, c, Counted)
        BY <1>4 DEF At, Counted, Leading, Last
      <4> QED BY <3>3, <4>1, <1>4 DEF SameRow, Arrived
    <3> QED BY <3>2, <3>3
  <2>2. XCleared(kind, d)' <=> XCleared(kind, d)
    BY <1>1 DEF XCleared
  <2>3. RowCounts(kind, d, r)
    BY DEF GroupInv
  <2> QED BY <2>1, <2>2, <2>3, <1>14, RowFrame
<1>16. ASSUME NEW kind \in Kinds, NEW d \in Clusters, kind # "group" \/ d \notin T
       PROVE  SameTeam(kind, d, g, r, h, r) /\ sync'[YWord(kind, d)] = sync[YWord(kind, d)]
  <2>1. CASE d \notin T
    BY <2>1, <1>4, <1>6, <1>8, <1>14, SameWhenUntouched
  <2>2. CASE d \in T /\ kind # "group"
    <3>1. ~At(kind, d, Counted)
      BY <2>2, <1>7
    <3>2. ~At(kind, d, Counted)'
      <4>1. Kind(Passed(d)) # kind
        BY <2>2, <1>7 DEF Arrived, At
      <4> QED BY <4>1, <1>4 DEF At
    <3> QED BY <3>1, <3>2, <1>6, <1>14, SameWhenElsewhere
  <2> QED BY <2>1, <2>2, <1>16
<1>17. TeamCounts("group", c, h, r)'
  <2>1. YCleared("group", c) => sync[YWord("group", c)] = 0
    BY <1>0, <1>4, <1>5, FullCleared
  <2>2. YCleared("group", c)' => sync'[YWord("group", c)] = 0
    BY <2>1, <1>0, <1>1, <1>14 DEF YCleared
  <2>3. ASSUME NEW d \in Team("group", c)
        PROVE  ~Reported("group", d, h, r)' /\ ~At("group", d, Last)'
    <3>1. d \in Clusters /\ r[d] # h[d]
      BY <1>7, <1>8
    <3>2. pc'[d][DM] \notin Last
      BY <1>4, <1>7 DEF Last
    <3> QED BY <3>1, <3>2 DEF Reported, At
  <2> QED BY <2>2, <2>3, <1>0, <1>6, EmptyTeam
<1>18. ASSUME NEW kind \in Kinds, NEW d \in Clusters PROVE TeamCounts(kind, d, h, r)'
  <2>1. CASE kind = "group" /\ d \in T
    BY <2>1, <1>0, <1>6, <1>17, TeamShared
  <2>2. CASE kind # "group" \/ d \notin T
    <3>1. \A e \in Team(kind, d) : SameTeam(kind, e, g, r, h, r)
      <4> TAKE e \in Team(kind, d)
      <4>1. e \in Clusters /\ (kind = "group" => e \notin T)
        BY <2>2, <1>0, TeamFacts
      <4> QED BY <4>1, <1>16
    <3>2. YCleared(kind, d)' <=> YCleared(kind, d)
      BY <1>1 DEF YCleared
    <3>3. TeamCounts(kind, d, g, r)
      BY DEF GroupInv
    <3> QED BY <3>1, <3>2, <3>3, <1>6, <1>14, TeamFrameSame
  <2> QED BY <2>1, <2>2
<1>19. Grouped(h, r)'
  BY <1>7 DEF Grouped
<1>20. GroupInv(h, r)'
  BY <1>9, <1>10, <1>11, <1>12, <1>13, <1>15, <1>18, <1>19 DEF GroupInv
<1> QED BY <1>6, <1>20

\* The last cluster of any other call wakes the clusters that are in it.
LEMMA GroupWake ==
  ASSUME TypeOK, NEW g \in [Clusters -> Nat], NEW r \in [Clusters -> Nat],
         GroupInv(g, r), NEW c \in Clusters, Wake(c)
  PROVE  \E h, s \in [Clusters -> Nat] : GroupInv(h, s)'
<1>1. /\ Goto(c, "wake", "wfi") /\ SendWakeup(c, Selected(c))
      /\ wakes' = [d \in Clusters |-> IF d \in Selected(c) THEN wakes[d] + 1 ELSE wakes[d]]
      /\ UNCHANGED <<global_barrier_mutex, global_barrier_query, init, sync, prev_x, prev_y>>
  BY DEF Wake
<1>2. WorkLabel("wake") /\ WorkLabel("wfi")
  BY LabelFacts DEF Counted, Leading, Last
<1>3. Moved(c, "wake", "wfi")
  BY <1>1, <1>2, MoveFacts
<1>4. /\ pc[c][DM] = "wake" /\ pc'[c][DM] = "wfi" /\ pc[c][DM] \in Last
      /\ \A d \in Clusters : /\ Passed(d)' = Passed(d) /\ (Polling(d)' <=> Polling(d))
                             /\ d # c => pc'[d][DM] = pc[d][DM]
  BY <1>3 DEF Moved, Polling, Last
<1>5. PICK kind0 \in Kinds : /\ kind0 = Kind(Passed(c))
                             /\ Global(c) <=> kind0 = "global"
                             /\ Polling(c) => kind0 = "group"
  BY <1>4, InCall DEF Counted, Leading, Last
<1>0. kind0 \in Kinds /\ "group" \in Kinds
  BY <1>5 DEF Kinds
<1>6. ~Polling(c)
  BY <1>4 DEF GroupInv, InStep
<1> DEFINE T == Team(kind0, c)
           h == [d \in Clusters |-> IF d \in T THEN g[d] + 1 ELSE g[d]]
           s == [d \in Clusters |-> IF d \in T THEN r[d] + 1 ELSE r[d]]
<1>7. /\ h \in [Clusters -> Nat] /\ s \in [Clusters -> Nat]
      /\ \A d \in Clusters : h[d] = IF d \in Team(kind0, c) THEN g[d] + 1 ELSE g[d]
      /\ \A d \in Clusters : s[d] = IF d \in T THEN r[d] + 1 ELSE r[d]
  OBVIOUS
<1> HIDE DEF h, s
<1>8. /\ \A d \in T :
           /\ d \in Clusters
           /\ Passed(d) = g[d] /\ r[d] = g[d] /\ g[d] > 0
           /\ Arrived(kind0, d, r) /\ Reported(kind0, d, g, r)
           /\ ~Polling(d)
           /\ d # c => pc[d][DM] \in {"wfi", "blocked"}
           /\ \A kind \in Kinds : kind # kind0 => ~At(kind, d, Counted)
      /\ Grouped(h, r)
      /\ \A d, e \in Clusters : e \in Group(d) => (e \in T <=> d \in T)
  BY <1>0, <1>4, <1>5, <1>6, <1>7, TeamAtEnd
<1>9. /\ c \in T
      /\ \A d \in Clusters : d \in T => h[d] = g[d] + 1 /\ s[d] = r[d] + 1
      /\ \A d \in Clusters : d \notin T => h[d] = g[d] /\ s[d] = r[d]
  BY <1>0, <1>7, TeamFacts
<1>10. \A d \in T : pc'[d][DM] \in {"wfi", "blocked"} /\ (pc'[d][DM] = "blocked" <=> pc[d][DM] = "blocked")
  BY <1>4, <1>8
<1>11. \A d \in Clusters : d \in Selected(c) <=> d \in T
  <2> TAKE d \in Clusters
  <2>1. CASE kind0 = "global"
    BY <2>1, <1>5 DEF Selected, Team
  <2>2. CASE kind0 # "global"
    BY <2>2, <1>5, MaskFacts DEF Selected, Team
  <2> QED BY <2>1, <2>2
<1>12. Grouped(h, s)'
  <2> SUFFICES ASSUME NEW d \in Clusters, NEW e \in Clusters
               PROVE  /\ e \in Group(d) => h[e] = h[d]
                      /\ e \in TeamRow("group", d) => s[e] = s[d]
                      /\ \A n \in 1 .. Rounds : Program[n] = "global" /\ n < h[d] => n < h[e]
    BY DEF Grouped
  <2>1. /\ e \in Group(d) => h[e] = h[d]
        /\ e \in TeamRow("group", d) => r[e] = r[d]
        /\ \A n \in 1 .. Rounds : Program[n] = "global" /\ n < h[d] => n < h[e]
    BY <1>8 DEF Grouped
  <2>2. e \in TeamRow("group", d) => (e \in T <=> d \in T)
    BY <1>8 DEF TeamRow, Team
  <2>3. e \in TeamRow("group", d) => s[e] = s[d]
    BY <2>1, <2>2, <1>9
  <2> QED BY <2>1, <2>3
<1>13. ASSUME NEW d \in Clusters PROVE InStep(d, h, s)' /\ RowInStep(d, h, s)'
  <2>1. CASE d \in T
    <3>1. /\ Passed(d)' = s[d] - 1 /\ s[d] = h[d] /\ Passed(d)' > 0 /\ ~Polling(d)'
      BY <2>1, <1>4, <1>8, <1>9, <1>13
    <3>2. pc'[d][DM] \in {"wfi", "blocked"}
      BY <2>1, <1>10
    <3> QED BY <3>1, <3>2 DEF InStep, RowInStep, Last
  <2>2. CASE d \notin T
    <3>1. /\ h[d] = g[d] /\ s[d] = r[d] /\ d # c
      BY <2>2, <1>9, <1>13
    <3>2. InStep(d, h, s)'
      BY <3>1, <1>4, <1>13 DEF GroupInv, InStep
    <3>3. RowInStep(d, g, r)'
      BY <1>3, RowInStepFrame
    <3>4. RowInStep(d, h, s)'
      BY <3>1, <3>3 DEF RowInStep
    <3> QED BY <3>2, <3>4
  <2> QED BY <2>1, <2>2
<1>14. ASSUME NEW d \in Clusters PROVE Woken(d, h)'
  <2>1. Woken(d, g)
    BY DEF GroupInv
  <2>2. pc'[d][DM] = "blocked" <=> pc[d][DM] = "blocked"
    BY <1>4
  <2>3. CASE d \in T
    <3>1. ~Owed(d, g) /\ Owed(d, h)'
      BY <2>3, <1>4, <1>8, <1>9, <1>14 DEF Owed
    <3>2. global_barrier_mutex[d] = 0 /\ InFlight(d) = {}
      <4>1. global_barrier_mutex[d] \in {0, 1}
        BY <1>14, GroupTypes
      <4>2. global_barrier_mutex[d] + (IF InFlight(d) = {} THEN 0 ELSE 1) = 0
        BY <2>1, <3>1 DEF Woken
      <4> QED BY <4>1, <4>2
    <3>3. InFlight(d)' = {c}
      BY <2>3, <3>2, <1>1, <1>11 DEF SendWakeup, InFlight, TypeOK, RegistersType
    <3>4. wakes'[d] = wakes[d] + 1
      BY <2>3, <1>1, <1>11
    <3>5. Program[g[d]] # "poll" /\ g[d] > 0 /\ g[d] \in Nat
      BY <2>3, <1>8 DEF Polling
    <3>6. Broadcasts(g[d] + 1) = Broadcasts(g[d]) + 1 /\ h[d] = g[d] + 1
      BY <2>3, <3>5, <1>9, <1>14, BroadcastsNext
    <3>7. wakes[d] = Broadcasts(g[d])
      BY <2>1 DEF Woken, Broadcasts
    <3>8. wakes'[d] = Broadcasts(h[d])
      BY <3>4, <3>6, <3>7
    <3>9. wakes'[d] = Cardinality({n \in 1 .. h[d] - 1 : Program[n] # "poll"})
      BY <3>8 DEF Broadcasts
    <3> QED BY <2>1, <2>2, <3>1, <3>2, <3>3, <3>9, <1>1 DEF Woken
  <2>4. CASE d \notin T
    <3>1. InFlight(d)' = InFlight(d)
      BY <2>4, <1>1, <1>11, <1>14 DEF SendWakeup, InFlight, TypeOK, RegistersType
    <3>2. Owed(d, h)' <=> Owed(d, g)
      BY <2>4, <1>4, <1>9, <1>14 DEF Owed
    <3>3. wakes'[d] = wakes[d] /\ h[d] = g[d]
      BY <2>4, <1>1, <1>9, <1>11, <1>14
    <3> QED BY <2>1, <2>2, <3>1, <3>2, <3>3, <1>1 DEF Woken
  <2> QED BY <2>3, <2>4
<1>15. \A d \in Clusters : /\ sync'[XIter(d)] = sync[XIter(d)]
                           /\ sync'[YIter(d)] = sync[YIter(d)]
  BY <1>1 DEF XIter, YIter
<1>16. ASSUME NEW d \in Clusters PROVE Remembered(d, h, s)'
  <2>1. Remembered(d, g, r)
    BY DEF GroupInv
  <2>2. CASE d \in T
    <3>1. pc'[d][DM] \in {"wfi", "blocked"}
      BY <2>2, <1>10
    <3> QED BY <2>1, <3>1, <1>15, <1>16 DEF Remembered, Leading, Last
  <2>3. CASE d \notin T
    <3>1. h[d] = g[d] /\ s[d] = r[d] /\ d # c
      BY <2>3, <1>9, <1>16
    <3> QED BY <2>1, <3>1, <1>1, <1>4, <1>15, <1>16 DEF Remembered
  <2> QED BY <2>2, <2>3
<1>17. ASSUME NEW kind \in Kinds, NEW d \in Clusters, kind # kind0 \/ d \notin T
       PROVE  SameRow(kind, d, r, s) /\ SameTeam(kind, d, g, r, h, s)
  <2>1. CASE d \notin T
    <3>1. d # c /\ h[d] = g[d] /\ s[d] = r[d] /\ Passed(d)' = Passed(d)
      BY <2>1, <1>4, <1>9, <1>17
    <3> QED BY <3>1, <1>4, <1>7, SameWhenUntouched
  <2>2. CASE d \in T /\ kind # kind0
    <3>1. ~At(kind, d, Counted)
      BY <2>2, <1>8
    <3>2. ~At(kind, d, Counted)'
      <4>1. Kind(Passed(d)) # kind
        BY <2>2, <1>8 DEF Arrived, At
      <4> QED BY <4>1, <1>4, <1>17 DEF At
    <3> QED BY <3>1, <3>2, <1>7, SameWhenElsewhere
  <2> QED BY <2>1, <2>2, <1>17
<1>18. /\ \A d \in T : XCleared(kind0, d)' => sync'[XWord(kind0, d)] = 0
       /\ YCleared(kind0, c)' => sync'[YWord(kind0, c)] = 0
  <2>1. /\ \A d \in T : XCleared(kind0, d) => sync[XWord(kind0, d)] = 0
        /\ YCleared(kind0, c) => sync[YWord(kind0, c)] = 0
    BY <1>0, <1>4, <1>5, FullCleared
  <2>2. \A d \in Clusters : XCleared(kind0, d)' <=> XCleared(kind0, d)
    BY <1>1 DEF XCleared
  <2>3. YCleared(kind0, c)' <=> YCleared(kind0, c)
    BY <1>1 DEF YCleared
  <2>4. \A d \in T : d \in Clusters
    BY <1>8
  <2> QED BY <2>1, <2>2, <2>3, <2>4, <1>1
<1>19. ASSUME NEW d \in T
       PROVE  /\ ~Arrived(kind0, d, s)' /\ ~Reported(kind0, d, h, s)'
              /\ ~At(kind0, d, Leading)' /\ ~At(kind0, d, Last)'
  <2>1. d \in Clusters /\ Passed(d)' # s[d]
    BY <1>4, <1>8, <1>9
  <2>2. pc'[d][DM] \in {"wfi", "blocked"}
    BY <1>10
  <2> QED BY <2>1, <2>2 DEF Arrived, Reported, At, Leading, Last
<1>20. ASSUME NEW kind \in Kinds, NEW d \in Clusters PROVE RowCounts(kind, d, s)'
  <2>1. CASE kind = kind0 /\ d \in T
    <3>1. TeamRow(kind0, d) \subseteq T
      BY <2>1, <1>0, TeamFacts
    <3> QED BY <2>1, <3>1, <1>0, <1>7, <1>18, <1>19, EmptyRow
  <2>2. CASE kind # kind0 \/ d \notin T
    <3>1. \A e \in TeamRow(kind, d) : SameRow(kind, e, r, s)
      <4> TAKE e \in TeamRow(kind, d)
      <4>1. e \in Clusters /\ (kind = kind0 => e \notin T)
        BY <2>2, <1>0, TeamFacts
      <4> QED BY <4>1, <1>17
    <3>2. XCleared(kind, d)' <=> XCleared(kind, d)
      BY <1>1 DEF XCleared
    <3>3. RowCounts(kind, d, r) /\ sync'[XWord(kind, d)] = sync[XWord(kind, d)]
      BY <1>1 DEF GroupInv
    <3> QED BY <3>1, <3>2, <3>3, <1>7, RowFrame
  <2> QED BY <2>1, <2>2
<1>21. TeamCounts(kind0, c, h, s)'
  BY <1>0, <1>7, <1>18, <1>19, EmptyTeam
<1>22. ASSUME NEW kind \in Kinds, NEW d \in Clusters PROVE TeamCounts(kind, d, h, s)'
  <2>1. CASE kind = kind0 /\ d \in T
    BY <2>1, <1>0, <1>7, <1>21, TeamShared
  <2>2. CASE kind # kind0 \/ d \notin T
    <3>1. \A e \in Team(kind, d) : SameTeam(kind, e, g, r, h, s)
      <4> TAKE e \in Team(kind, d)
      <4>1. e \in Clusters /\ (kind = kind0 => e \notin T)
        BY <2>2, <1>0, TeamFacts
      <4> QED BY <4>1, <1>17
    <3>2. YCleared(kind, d)' <=> YCleared(kind, d)
      BY <1>1 DEF YCleared
    <3>3. TeamCounts(kind, d, g, r) /\ sync'[YWord(kind, d)] = sync[YWord(kind, d)]
      BY <1>1 DEF GroupInv
    <3> QED BY <3>1, <3>2, <3>3, <1>7, TeamFrameSame
  <2> QED BY <2>1, <2>2
<1>23. GroupInv(h, s)'
  BY <1>12, <1>13, <1>14, <1>16, <1>20, <1>22 DEF GroupInv
<1> QED BY <1>7, <1>23

\* A wake-up on its way finds its cluster before its wait, or held in it.
LEMMA WaitFacts ==
  ASSUME TypeOK, NEW g \in [Clusters -> Nat], NEW r \in [Clusters -> Nat],
         GroupInv(g, r), NEW c \in Clusters, NEW s \in InFlight(c)
  PROVE  /\ Owed(c, g) /\ global_barrier_mutex[c] = 0
         /\ r[c] = g[c] /\ Passed(c) = r[c] - 1
         /\ pc[c][DM] \in {"wfi", "blocked"}
<1>1. global_barrier_mutex[c] \in {0, 1} /\ Passed(c) \in Nat
  BY GroupTypes
<1>2. global_barrier_mutex[c] + 1 = IF Owed(c, g) THEN 1 ELSE 0
  BY DEF GroupInv, Woken
<1>3. Owed(c, g) /\ global_barrier_mutex[c] = 0
  BY <1>1, <1>2
<1>4. r[c] = g[c]
  BY <1>3, RowAhead DEF Owed
<1>5. Passed(c) = r[c] - 1 /\ pc[c][DM] \in {"pollX", "wfi", "blocked"}
  BY <1>1, <1>3, <1>4 DEF GroupInv, InStep, Owed
<1>6. pc[c][DM] # "pollX"
  BY <1>3 DEF GroupInv, InStep, Owed
<1> QED BY <1>3, <1>4, <1>5, <1>6

\* What the arrival of a wake-up does to the labels: it releases the data mover
\* that is held, and no other core.
LEMMA DeliverGoto ==
  ASSUME TypeOK, NEW g \in [Clusters -> Nat], NEW r \in [Clusters -> Nat],
         GroupInv(g, r), NEW s \in Clusters, NEW c \in Clusters, DeliverWakeup(s, c)
  PROVE  IF pc[c][DM] = "blocked"
         THEN Goto(c, "blocked", "sync2")
         ELSE UNCHANGED <<pc, barrier_status, entered, left>>
<1> DEFINE released == [k \in Cores |->
                          IF k = global_barrier_query[c] THEN "sync2" ELSE pc[c][k]]
<1>1. pc' = [pc EXCEPT ![c] = released] /\ UNCHANGED <<barrier_status, entered, left>>
  BY DEF DeliverWakeup
<1>2. global_barrier_query[c] = IF pc[c][DM] = "blocked" THEN DM ELSE NULL
  BY DEF GroupInv, Woken
<1>3. pc \in [Clusters -> [Cores -> Labels]]
  BY DEF TypeOK, CoresType
<1>4. CASE pc[c][DM] = "blocked"
  <2>1. released = [pc[c] EXCEPT ![DM] = "sync2"]
    BY <1>2, <1>3, <1>4
  <2> QED BY <1>1, <1>3, <1>4, <2>1 DEF Goto
<1>5. CASE pc[c][DM] # "blocked"
  <2>1. released = pc[c]
    BY <1>2, <1>3, <1>5, NullAssumption
  <2> QED BY <1>1, <1>3, <1>5, <2>1
<1> QED BY <1>4, <1>5

LEMMA GroupDeliver ==
  ASSUME TypeOK, NEW g \in [Clusters -> Nat], NEW r \in [Clusters -> Nat],
         GroupInv(g, r), NEW s \in Clusters, NEW c \in Clusters, DeliverWakeup(s, c)
  PROVE  GroupInv(g, r)'
<1>1. UNCHANGED <<init, sync, prev_x, prev_y, wakes>>
  BY DEF DeliverWakeup, words
<1>2. /\ Owed(c, g) /\ global_barrier_mutex[c] = 0 /\ s \in InFlight(c)
      /\ r[c] = g[c] /\ Passed(c) = r[c] - 1
      /\ pc[c][DM] \in {"wfi", "blocked"}
  <2>1. s \in InFlight(c)
    BY DEF DeliverWakeup, GlobalBarrierSync, InFlight
  <2> QED BY <2>1, WaitFacts
<1>3. \A d \in Clusters :
        /\ pc'[d][DM] = IF d = c /\ pc[c][DM] = "blocked" THEN "sync2" ELSE pc[d][DM]
        /\ Passed(d)' = IF d = c /\ pc[c][DM] = "blocked" THEN Passed(d) + 1 ELSE Passed(d)
  <2>1. CASE pc[c][DM] = "blocked"
    <3>1. WorkLabel("blocked")
      BY LabelFacts DEF Counted
    <3>2. Moved(c, "blocked", "sync2")
      BY <2>1, <3>1, DeliverGoto, MoveFacts
    <3> QED BY <2>1, <3>2 DEF Moved
  <2>2. CASE pc[c][DM] # "blocked"
    BY <2>2, DeliverGoto DEF Passed
  <2> QED BY <2>1, <2>2
<1>4. /\ \A d \in Clusters : d # c =>
           /\ global_barrier_mutex'[d] = global_barrier_mutex[d]
           /\ global_barrier_query'[d] = global_barrier_query[d]
           /\ InFlight(d)' = InFlight(d)
      /\ global_barrier_mutex'[c] = IF pc[c][DM] = "blocked" THEN 0 ELSE 1
      /\ global_barrier_query'[c] = NULL
      /\ InFlight(c)' = InFlight(c) \ {s}
  <2>1. global_barrier_query[c] = IF pc[c][DM] = "blocked" THEN DM ELSE NULL
    BY DEF GroupInv, Woken
  <2>2. wakeup' = [wakeup EXCEPT ![s] = @ \ {c}] /\ wakeup \in [Clusters -> SUBSET Clusters]
    BY DEF DeliverWakeup, GlobalBarrierSync, TypeOK, RegistersType
  <2>3. InFlight(c)' = InFlight(c) \ {s} /\ \A d \in Clusters : d # c => InFlight(d)' = InFlight(d)
    BY <2>2 DEF InFlight
  <2>4. /\ global_barrier_mutex' = [global_barrier_mutex EXCEPT ![c] =
                                      IF global_barrier_query[c] = NULL THEN 1 ELSE 0]
        /\ global_barrier_query' = [global_barrier_query EXCEPT ![c] = NULL]
        /\ global_barrier_mutex \in [Clusters -> {0, 1}]
        /\ global_barrier_query \in [Clusters -> Cores \cup {NULL}]
    BY DEF DeliverWakeup, GlobalBarrierSync, TypeOK, RegistersType
  <2> QED BY <2>1, <2>3, <2>4, NullAssumption
<1>5. InFlight(c)' = {}
  BY <1>2, <1>4 DEF GroupInv, Woken
<1>6. \A d \in Clusters : /\ sync'[XIter(d)] = sync[XIter(d)]
                          /\ sync'[YIter(d)] = sync[YIter(d)]
  BY <1>1 DEF XIter, YIter
<1>7. ASSUME NEW kind \in Kinds, NEW d \in Clusters
      PROVE  SameRow(kind, d, r, r) /\ SameTeam(kind, d, g, r, g, r)
  <2>1. CASE d # c \/ pc[c][DM] # "blocked"
    BY <2>1, <1>3, SameWhenUntouched
  <2>2. CASE d = c /\ pc[c][DM] = "blocked"
    <3>1. /\ ~Arrived(kind, c, r) /\ ~Arrived(kind, c, r)'
          /\ \A L \in {Leading, {"resetX"}, Last, {"resetY"}} :
               ~At(kind, c, L)' /\ ~At(kind, c, L)
      <4>1. pc'[c][DM] = "sync2" /\ Passed(c) # r[c]
        BY <2>2, <1>2, <1>3
      <4> QED BY <4>1, <2>2 DEF Arrived, At, Counted, Leading, Last
    <3> QED BY <2>2, <3>1 DEF SameRow, SameTeam, Reported
  <2> QED BY <2>1, <2>2
<1>8. \A kind \in Kinds, d \in Clusters : RowCounts(kind, d, r)' /\ TeamCounts(kind, d, g, r)'
  BY <1>1, <1>7, CountsSame DEF GroupInv
<1>9. ASSUME NEW d \in Clusters, d # c \/ pc[c][DM] # "blocked"
      PROVE  InStep(d, g, r)' /\ Remembered(d, g, r)'
  BY <1>1, <1>3, <1>6, <1>9, StillFrame
<1>10. ASSUME pc[c][DM] = "blocked" PROVE InStep(c, g, r)' /\ Remembered(c, g, r)'
  <2>1. pc'[c][DM] = "sync2" /\ Passed(c)' = r[c] /\ Passed(c)' > 0
    <3>1. Passed(c) \in Nat /\ r[c] \in Nat
      BY GroupTypes
    <3> QED BY <3>1, <1>2, <1>3, <1>10
  <2>2. Remembered(c, g, r)
    BY DEF GroupInv
  <2> QED BY <2>1, <2>2, <1>6 DEF InStep, Remembered, Leading, Last
<1>11. ASSUME NEW d \in Clusters PROVE RowInStep(d, g, r)'
  <2>1. CASE r[d] = g[d]
    BY <2>1 DEF RowInStep
  <2>2. CASE r[d] # g[d]
    <3>1. r[d] = g[d] - 1
      BY <2>2, <1>11 DEF GroupInv, RowInStep
    <3>2. PICK e \in TeamRow("group", d) : pc[e][DM] \in {"pollY", "iterateX"}
      BY <2>2, <1>11 DEF GroupInv, RowInStep
    <3>3. e \in Clusters
      BY <1>11, TeamFacts DEF Kinds
    <3>4. pc'[e][DM] \in {"pollY", "iterateX"}
      BY <3>2, <3>3, <1>3
    <3> QED BY <3>1, <3>2, <3>4 DEF RowInStep
  <2> QED BY <2>1, <2>2
<1>12. ASSUME NEW d \in Clusters PROVE Woken(d, g)'
  <2>1. CASE d # c
    <3>1. pc'[d][DM] = pc[d][DM] /\ (Owed(d, g)' <=> Owed(d, g))
      BY <2>1, <1>3, <1>12 DEF Owed, Polling
    <3> QED BY <2>1, <3>1, <1>1, <1>4, <1>12 DEF GroupInv, Woken
  <2>2. CASE d = c /\ pc[c][DM] = "blocked"
    <3>1. ~Owed(c, g)'
      BY <1>2, <1>3, <2>2, GroupTypes DEF Owed
    <3>2. Woken(c, g)
      BY DEF GroupInv
    <3> QED BY <1>1, <1>3, <1>4, <1>5, <2>2, <3>1, <3>2 DEF Woken
  <2>3. CASE d = c /\ pc[c][DM] # "blocked"
    <3>1. Owed(c, g)'
      BY <1>2, <1>3, <2>3 DEF Owed, Polling
    <3>2. Woken(c, g)
      BY DEF GroupInv
    <3> QED BY <1>1, <1>2, <1>3, <1>4, <1>5, <2>3, <3>1, <3>2 DEF Woken
  <2> QED BY <2>1, <2>2, <2>3
<1>13. Grouped(g, r)'
  BY DEF GroupInv, Grouped
<1> QED BY <1>8, <1>9, <1>10, <1>11, <1>12, <1>13 DEF GroupInv

\* The first label of the data mover's work in the next call of core k of c.
Start(c, k) == IF Program[entered[<<c, k>>] + 1] = "poll" THEN "readX" ELSE "amoX"

LEMMA CallParts ==
  ASSUME NEW c \in Clusters, NEW k \in Cores, CoreStep(c, k)
  PROVE  \E start \in {"readX", "amoX"} :
           /\ CallStep(c, k, start) /\ WorkLabel(start) /\ start \in Labels
           /\ EnterCall(c, k, start) => /\ start = Start(c, k)
                                        /\ k = First => init[c] = "done"
           /\ UNCHANGED <<registers, init, words>>
<1>1. CASE Enter(c, k)
  <2>1. Start(c, k) \in {"readX", "amoX"}
    BY DEF Start
  <2> QED BY <1>1, <2>1, LabelFacts DEF Enter, CallStep, Start
<1>2. CASE SecondSync(c, k)
  BY <1>2, LabelFacts DEF SecondSync, CallStep, EnterCall, LeaveCall
<1> QED BY <1>1, <1>2 DEF CoreStep

LEMMA GroupCall ==
  ASSUME TypeOK, SyncInv, NEW g \in [Clusters -> Nat], NEW r \in [Clusters -> Nat],
         GroupInv(g, r), NEW c \in Clusters, NEW k \in Cores, CoreStep(c, k)
  PROVE  GroupInv(g, r)'
<1>1. PICK start \in {"readX", "amoX"} :
        /\ CallStep(c, k, start) /\ WorkLabel(start)
        /\ EnterCall(c, k, start) => start = Start(c, k)
        /\ UNCHANGED <<registers, init, words>>
  BY CallParts
<1>2. ASSUME NEW d \in Clusters
      PROVE  /\ Passed(d)' = Passed(d)
             /\ Polling(d)' <=> Polling(d)
             /\ \/ pc'[d][DM] = pc[d][DM]
                \/ {pc[d][DM], pc'[d][DM]} \subseteq WorkerLabels
                \/ /\ pc[d][DM] \in WorkerLabels /\ pc'[d][DM] = start
                   /\ Polling(d)' <=> start = "readX"
  <2>1. CoresType(Labels)
    BY DEF TypeOK
  <2>2. /\ Passed(d)' = Passed(d)
        /\ \/ pc'[d][DM] = pc[d][DM] /\ entered'[<<d, DM>>] = entered[<<d, DM>>]
           \/ {pc[d][DM], pc'[d][DM]} \subseteq WorkerLabels
           \/ /\ pc[d][DM] \in WorkerLabels /\ pc'[d][DM] = start
              /\ EnterCall(c, k, start)
              /\ entered'[<<d, DM>>] = entered[<<c, k>>] + 1
    BY <1>1, <2>1, PassedCall
  <2>3. Polling(d)' <=> Polling(d)
    BY <2>2 DEF Polling
  <2>4. ASSUME pc'[d][DM] = start, entered'[<<d, DM>>] = entered[<<c, k>>] + 1,
               EnterCall(c, k, start)
        PROVE  Polling(d)' <=> start = "readX"
    <3>1. Passed(d)' = entered[<<c, k>>] + 1
      BY <1>1, <2>4 DEF Passed, WorkLabel, WorkerLabels
    <3>2. Polling(d)' <=> Program[entered[<<c, k>>] + 1] = "poll"
      BY <3>1 DEF Polling
    <3> QED BY <3>2, <1>1, <2>4 DEF Start
  <2> QED BY <2>2, <2>3, <2>4
<1>3. UNCHANGED <<init, sync, prev_x, prev_y, wakes>>
  BY <1>1 DEF words
<1>4. \A d \in Clusters : /\ sync'[XIter(d)] = sync[XIter(d)]
                          /\ sync'[YIter(d)] = sync[YIter(d)]
  BY <1>3 DEF XIter, YIter
<1>5. \A d \in Clusters : /\ \/ pc'[d][DM] = pc[d][DM]
                             \/ {pc[d][DM], pc'[d][DM]} \cap Counted = {}
                          /\ pc'[d][DM] = "blocked" <=> pc[d][DM] = "blocked"
  BY <1>1, <1>2 DEF Counted, Leading, Last, WorkerLabels
<1>6. ASSUME NEW d \in Clusters
      PROVE  InStep(d, g, r)' /\ Woken(d, g)' /\ Remembered(d, g, r)'
  <2>1. CASE pc'[d][DM] = pc[d][DM]
    BY <2>1, <1>1, <1>2, <1>3, <1>4, <1>6, StillFrame
  <2>2. CASE pc'[d][DM] # pc[d][DM]
    <3>1. /\ pc[d][DM] \in WorkerLabels
          /\ pc'[d][DM] \in WorkerLabels \cup {start}
          /\ pc'[d][DM] = start => (Polling(d)' <=> start = "readX")
      BY <1>1, <1>2, <1>6, <2>2 DEF WorkLabel
    <3>2. Passed(d)' = Passed(d) /\ Passed(d) > 0 /\ Passed(d) = r[d]
      BY <1>2, <1>6, <3>1 DEF GroupInv, InStep, WorkerLabels
    <3>3. InStep(d, g, r)'
      BY <1>1, <3>1, <3>2 DEF InStep, WorkerLabels, Last
    <3>4. Owed(d, g)' <=> Owed(d, g)
      BY <1>2, <1>6 DEF Owed
    <3>5. Woken(d, g)'
      BY <1>1, <1>3, <1>5, <1>6, <3>4, WokenFrame DEF GroupInv
    <3>6. Remembered(d, g, r)
      BY <1>6 DEF GroupInv
    <3>7. Remembered(d, g, r)'
      BY <1>1, <1>4, <3>1, <3>6, <1>6 DEF Remembered, WorkerLabels, Leading, Last
    <3> QED BY <3>3, <3>5, <3>7
  <2> QED BY <2>1, <2>2
<1>7. ASSUME NEW d \in Clusters PROVE RowInStep(d, g, r)'
  <2>1. CASE r[d] = g[d]
    BY <2>1 DEF RowInStep
  <2>2. CASE r[d] # g[d]
    <3>1. r[d] = g[d] - 1
      BY <2>2, <1>7 DEF GroupInv, RowInStep
    <3>2. PICK e \in TeamRow("group", d) : pc[e][DM] \in {"pollY", "iterateX"}
      BY <2>2, <1>7 DEF GroupInv, RowInStep
    <3>3. e \in Clusters
      BY <1>7, TeamFacts DEF Kinds
    <3>4. pc[e][DM] \notin WorkerLabels
      BY <3>2 DEF WorkerLabels
    <3>5. pc'[e][DM] \in {"pollY", "iterateX"}
      BY <3>2, <3>3, <3>4, <1>2
    <3> QED BY <3>1, <3>2, <3>5 DEF RowInStep
  <2> QED BY <2>1, <2>2
<1>8. ASSUME NEW kind \in Kinds, NEW d \in Clusters
      PROVE  SameRow(kind, d, r, r) /\ SameTeam(kind, d, g, r, g, r)
  <2>1. CASE pc'[d][DM] = pc[d][DM]
    BY <2>1, <1>2, <1>8, SameWhenUntouched
  <2>2. CASE {pc[d][DM], pc'[d][DM]} \cap Counted = {}
    <3>1. ~At(kind, d, Counted) /\ ~At(kind, d, Counted)'
      BY <2>2 DEF At
    <3> QED BY <3>1, <1>8, SameWhenElsewhere
  <2> QED BY <2>1, <2>2, <1>5, <1>8
<1>9. \A kind \in Kinds, d \in Clusters : RowCounts(kind, d, r)' /\ TeamCounts(kind, d, g, r)'
  BY <1>3, <1>8, CountsSame DEF GroupInv
<1>10. Grouped(g, r)'
  BY DEF GroupInv, Grouped
<1> QED BY <1>6, <1>7, <1>9, <1>10 DEF GroupInv

\* Core 0 clears one of its two words: no group has begun to count in them.
LEMMA GroupReset ==
  ASSUME FirstIsGlobal, TypeOK, SyncInv, InitInv,
         NEW g \in [Clusters -> Nat], NEW r \in [Clusters -> Nat],
         GroupInv(g, r), NEW c \in Clusters,
         NEW word \in {"sync_x_point", "sync_y_point"},
         NEW to, to = IF word = "sync_x_point" THEN "sync_y_point" ELSE "done",
         InitReset(c, word, to, word)
  PROVE  GroupInv(g, r)'
<1>1. /\ init[c] = word
      /\ \A d \in Clusters : init'[d] = IF d = c THEN to ELSE init[d]
      /\ \A w \in Clusters \X Words : sync'[w] = IF w = <<c, word>> THEN 0 ELSE sync[w]
      /\ UNCHANGED <<registers, pc, entered, prev_x, prev_y, wakes>>
  BY DEF InitReset, TypeOK
<1>2. \A d \in Clusters : pc'[d][DM] = pc[d][DM] /\ Passed(d)' = Passed(d)
  BY <1>1 DEF Passed
<1>3. ASSUME NEW d \in Clusters, NEW L \in {Counted, Leading, Last}
      PROVE  ~At("group", d, L) /\ ~At("group", d, L)'
  <2>1. L \subseteq Counted
    BY DEF Counted, Leading, Last
  <2>2. pc[d][DM] \in L => WorkLabel(pc[d][DM])
    BY <2>1, LabelFacts
  <2>3. init[c] # "done"
    BY <1>1
  <2>4. ~At("group", d, L)
    BY <2>2, <2>3, Initialised DEF At
  <2> QED BY <2>4, <1>2 DEF At
<1>4. \A d \in Clusters : sync'[XIter(d)] = sync[XIter(d)] /\ sync'[YIter(d)] = sync[YIter(d)]
  <2> TAKE d \in Clusters
  <2>1. {XIter(d), YIter(d)} \subseteq Clusters \X Words
    BY WordTypes DEF Kinds
  <2>2. XIter(d) # <<c, word>> /\ YIter(d) # <<c, word>>
    BY DEF XIter, YIter
  <2> QED BY <2>1, <2>2, <1>1
<1>5. \A d \in Clusters :
        InStep(d, g, r)' /\ RowInStep(d, g, r)' /\ Woken(d, g)' /\ Remembered(d, g, r)'
  <2> TAKE d \in Clusters
  <2>1. InStep(d, g, r)' /\ Woken(d, g)' /\ Remembered(d, g, r)'
    BY <1>1, <1>2, <1>4, StillFrame
  <2>2. RowInStep(d, g, r)'
    BY <1>1 DEF GroupInv, RowInStep
  <2> QED BY <2>1, <2>2
<1>6. ASSUME NEW d \in Clusters PROVE RowCounts("global", d, r)' /\ TeamCounts("global", d, g, r)'
  <2>1. "global" \in Kinds
    BY DEF Kinds
  <2>2. {XWord("global", d), YWord("global", d)} \subseteq Clusters \X Words
    BY <2>1, WordTypes
  <2>3. XWord("global", d) # <<c, word>> /\ YWord("global", d) # <<c, word>>
    BY DEF XWord, YWord
  <2>4. /\ sync'[XWord("global", d)] = sync[XWord("global", d)]
        /\ sync'[YWord("global", d)] = sync[YWord("global", d)]
    BY <2>2, <2>3, <1>1
  <2>5. \A e \in Clusters : SameRow("global", e, r, r) /\ SameTeam("global", e, g, r, g, r)
    BY <2>1, <1>2, SameWhenUntouched
  <2>6. XCleared("global", d) /\ YCleared("global", d)
    BY DEF XCleared, YCleared
  <2>7. TeamRow("global", d) \subseteq Clusters /\ Team("global", d) \subseteq Clusters
    BY <2>1, TeamFacts
  <2>8. RowCounts("global", d, r) /\ TeamCounts("global", d, g, r)
    BY <2>1 DEF GroupInv
  <2>9. RowCounts("global", d, r)'
    BY <2>1, <2>4, <2>5, <2>6, <2>7, <2>8, RowFrame
  <2>10. TeamCounts("global", d, g, r)'
    BY <2>1, <2>4, <2>5, <2>6, <2>7, <2>8, TeamFrameSame
  <2> QED BY <2>9, <2>10
<1>7. ASSUME NEW d \in Clusters PROVE RowCounts("group", d, r)' /\ TeamCounts("group", d, g, r)'
  <2>1. "group" \in Kinds
    BY DEF Kinds
  <2>2. /\ TeamRow("group", d) \subseteq Clusters /\ Team("group", d) \subseteq Clusters
        /\ d \in TeamRow("group", d) /\ RowOf(d) \in TeamRows("group", d)
        /\ TeamRows("group", d) = {RowOf(e) : e \in Team("group", d)}
    BY <2>1, TeamFacts DEF TeamRows
  <2>3. /\ XWord("group", d) = <<SyncXCluster(d), "sync_x_point">>
        /\ YWord("group", d) = <<SyncYCluster(d), "sync_y_point">>
        /\ XWord("group", d) \in Clusters \X Words /\ YWord("group", d) \in Clusters \X Words
        /\ SyncXCluster(d) \in Clusters /\ SyncYCluster(d) \in Clusters
    BY <2>1, WordTypes DEF XWord, YWord
  <2>4. RowCounts("group", d, r) /\ TeamCounts("group", d, g, r)
    BY <2>1 DEF GroupInv
  <2>5. ArrivedOf("group", d, r) = {} /\ ReportedRows("group", d, g, r) = {}
    BY <2>2, <1>3 DEF ArrivedOf, ReportedRows, Reported, Arrived
  <2>6. XCleared("group", d) => sync[XWord("group", d)] = 0
    BY <2>2, <2>4, <2>5, FS_EmptySet DEF RowCounts, RowFull
  <2>7. YCleared("group", d) => sync[YWord("group", d)] = 0
    BY <2>2, <2>4, <2>5, FS_EmptySet DEF TeamCounts, TeamFull
  <2>8. XCleared("group", d)' => sync'[XWord("group", d)] = 0
    BY <2>3, <2>6, <1>1 DEF XCleared
  <2>9. YCleared("group", d)' => sync'[YWord("group", d)] = 0
    BY <2>3, <2>7, <1>1 DEF YCleared
  <2>10. \A e \in Clusters : /\ ~Arrived("group", e, r)' /\ ~At("group", e, Leading)'
                             /\ ~Reported("group", e, g, r)' /\ ~At("group", e, Last)'
    BY <1>3 DEF Arrived, Reported
  <2>11. RowCounts("group", d, r)'
    BY <2>1, <2>2, <2>8, <2>10, EmptyRow
  <2>12. TeamCounts("group", d, g, r)'
    BY <2>1, <2>2, <2>9, <2>10, EmptyTeam
  <2> QED BY <2>11, <2>12
<1>8. \A kind \in Kinds, d \in Clusters : RowCounts(kind, d, r)' /\ TeamCounts(kind, d, g, r)'
  BY <1>6, <1>7 DEF Kinds
<1>9. Grouped(g, r)'
  BY DEF GroupInv, Grouped
<1> QED BY <1>5, <1>8, <1>9 DEF GroupInv

-----------------------------------------------------------------------------
(* The inductive invariant. *)

LEMMA TypeInit == Init => TypeOK
<1> SUFFICES ASSUME Init PROVE TypeOK
  OBVIOUS
<1>1. RegistersType
  BY DEF Init, RegistersInit, RegistersType
<1>2. CoresType(Labels)
  BY DEF Init, CoresInit, CoresType, Labels, WorkerLabels
<1>3. 0 \in Iterations /\ Iterations \subseteq Nat /\ Garbage \subseteq Nat
  BY ProgramAssumption DEF Iterations
<1>4. sync \in [Clusters \X Words -> Nat]
  <2>1. PICK n \in Garbage, i \in Iterations :
          sync = [w \in Clusters \X Words |->
                    CASE w[2] \in {"barrier_x", "barrier_y"}       -> 0
                      [] w[2] \in {"sync_x_point", "sync_y_point"} -> n
                      [] OTHER                                     -> i]
    BY DEF Init
  <2>2. n \in Nat /\ i \in Nat
    BY <1>3
  <2> QED BY <2>1, <2>2
<1> QED BY <1>1, <1>2, <1>3, <1>4 DEF Init, TypeOK

LEMMA SyncInit == Init => SyncInv
<1> SUFFICES ASSUME Init, NEW c \in Clusters, NEW k \in Cores
             PROVE  /\ Syncs(c, k) = Syncs(c, DM)
                    /\ k \in barrier_status[c] <=> pc[c][k] \in {"wait1", "wait2"}
                    /\ k # DM => pc[c][k] \in WorkerLabels
                    /\ pc[c][k] = "wait1" => entered[<<c, k>>] > 0
                    /\ left[<<c, k>>] = IF pc[c][k] = "work" \/ entered[<<c, k>>] = 0
                                        THEN entered[<<c, k>>] ELSE entered[<<c, k>>] - 1
  BY DEF SyncInv
<1> QED BY DEF Init, CoresInit, Participants, Syncs, WorkerLabels

LEMMA InitInvInit == Init => InitInv
  BY ProgramAssumption DEF Init, CoresInit, InitInv, Participants

LEMMA GroupInvInit == Init => \E g, r \in [Clusters -> Nat] : GroupInv(g, r)
<1> SUFFICES ASSUME Init PROVE \E g, r \in [Clusters -> Nat] : GroupInv(g, r)
  OBVIOUS
<1>1. PICK g \in [Clusters -> Nat] : \A c \in Clusters : g[c] = 1
  <2>1. [c \in Clusters |-> 1] \in [Clusters -> Nat]
    OBVIOUS
  <2> QED BY <2>1
<1>2. \A c \in Clusters : pc[c][DM] = "work" /\ entered[<<c, DM>>] = 0 /\ Passed(c) = 1
  BY DEF Init, CoresInit, Participants, Passed
<1>3. Grouped(g, g)
  <2>1. ASSUME NEW c \in Clusters, NEW d \in Clusters
        PROVE  /\ d \in Group(c) => g[d] = g[c]
               /\ d \in TeamRow("group", c) => g[d] = g[c]
               /\ \A n \in 1 .. Rounds : Program[n] = "global" /\ n < g[c] => n < g[d]
    BY <1>1, <2>1
  <2> QED BY <2>1 DEF Grouped
<1>4. PICK n \in Garbage, i \in Iterations :
          sync = [w \in Clusters \X Words |->
                    CASE w[2] \in {"barrier_x", "barrier_y"}       -> 0
                      [] w[2] \in {"sync_x_point", "sync_y_point"} -> n
                      [] OTHER                                     -> i]
  BY DEF Init
<1>5. ASSUME NEW c \in Clusters PROVE InStep(c, g, g) /\ RowInStep(c, g, g)
  <2>1. pc[c][DM] = "work" /\ Passed(c) = 1 /\ g[c] = 1
    BY <1>1, <1>2, <1>5
  <2> QED BY <2>1 DEF InStep, RowInStep, Last
<1>6. ASSUME NEW c \in Clusters PROVE Woken(c, g)
  <2>1. /\ InFlight(c) = {} /\ global_barrier_mutex[c] = 0
        /\ global_barrier_query[c] = NULL /\ wakes[c] = 0
    BY <1>6 DEF Init, RegistersInit, InFlight
  <2>2. ~Owed(c, g) /\ pc[c][DM] # "blocked"
    <3>1. pc[c][DM] = "work" /\ Passed(c) = 1 /\ g[c] = 1
      BY <1>1, <1>2, <1>6
    <3> QED BY <3>1 DEF Owed
  <2>3. {m \in 1 .. g[c] - 1 : Program[m] # "poll"} = {}
    BY <1>1, <1>6
  <2> QED BY <2>1, <2>2, <2>3, FS_EmptySet DEF Woken
<1>7. ASSUME NEW c \in Clusters PROVE Remembered(c, g, g)
  <2>1. {XIter(c), YIter(c)} \subseteq Clusters \X Words
    BY <1>7, WordTypes DEF Kinds
  <2>2. sync[XIter(c)] = i /\ sync[YIter(c)] = i
    BY <1>4, <2>1 DEF XIter, YIter
  <2> QED BY <1>2, <1>7, <2>2 DEF Remembered, Leading, Last
<1>8. \A kind \in Kinds, c \in Clusters :
        /\ ~Arrived(kind, c, g) /\ ~Reported(kind, c, g, g)
        /\ \A L \in {Leading, Last} : ~At(kind, c, L)
  BY <1>2 DEF Arrived, Reported, At, Counted, Leading, Last
<1>9. ASSUME NEW kind \in Kinds, NEW c \in Clusters
      PROVE  RowCounts(kind, c, g) /\ TeamCounts(kind, c, g, g)
  <2>1. /\ TeamRow(kind, c) \subseteq Clusters /\ Team(kind, c) \subseteq Clusters
        /\ c \in TeamRow(kind, c) /\ RowOf(c) \in TeamRows(kind, c)
        /\ TeamRows(kind, c) = {RowOf(e) : e \in Team(kind, c)}
    BY <1>9, TeamFacts DEF TeamRows
  <2>2. /\ XCleared(kind, c) => sync[XWord(kind, c)] = 0
        /\ YCleared(kind, c) => sync[YWord(kind, c)] = 0
    <3>1. {XWord(kind, c), YWord(kind, c)} \subseteq Clusters \X Words
      BY <1>9, WordTypes
    <3>2. CASE kind = "global"
      BY <1>4, <3>1, <3>2 DEF XWord, YWord
    <3>3. CASE kind # "global"
      <4>1. SyncXCluster(c) \in Clusters /\ SyncYCluster(c) \in Clusters
        BY <1>9, SyncClusters DEF TeamRow, Team, Group
      <4> QED BY <3>3, <4>1 DEF Init, XCleared, YCleared
    <3> QED BY <3>2, <3>3
  <2>3. ArrivedOf(kind, c, g) = {} /\ ReportedRows(kind, c, g, g) = {}
    BY <2>1, <1>8, <1>9 DEF ArrivedOf, ReportedRows
  <2>4. RowCounts(kind, c, g)
    BY <2>1, <2>2, <2>3, <1>8, <1>9, FS_EmptySet DEF RowCounts, RowFull, SomeInRow
  <2>5. TeamCounts(kind, c, g, g)
    BY <2>1, <2>2, <2>3, <1>8, <1>9, FS_EmptySet DEF TeamCounts, TeamFull, SomeInTeam
  <2> QED BY <2>4, <2>5
<1>10. GroupInv(g, g)
  BY <1>3, <1>5, <1>6, <1>7, <1>9 DEF GroupInv
<1> QED BY <1>10

LEMMA IInvInit == Init => IInv
  BY TypeInit, SyncInit, InitInvInit, GroupInvInit DEF IInv

\* Every step of a data mover is a move of its program counter, and a delivery
\* is one or none.
LEMMA StepGoto ==
  ASSUME TypeOK, NEW g \in [Clusters -> Nat], NEW r \in [Clusters -> Nat],
         GroupInv(g, r), Next, ~\E c \in Clusters, k \in Cores : CoreStep(c, k)
  PROVE  \/ UNCHANGED <<pc, barrier_status, entered, left>>
         \/ \E c \in Clusters : \E from, to \in Labels \ {"work", "wait1", "wait2"} :
              Goto(c, from, to)
<1>1. {"readX", "readY", "amoX", "resetX", "amoY", "resetY", "wake", "wfi", "blocked",
       "iterateY", "pollY", "iterateX", "pollX", "sync2"}
        \subseteq Labels \ {"work", "wait1", "wait2"}
  BY DEF Labels, WorkerLabels
<1>2. ASSUME NEW c \in Clusters, GroupInit(c)
      PROVE  UNCHANGED <<pc, barrier_status, entered, left>>
  BY <1>2 DEF GroupInit, InitResetX, InitResetY, InitReset
<1>3. ASSUME NEW c \in Clusters, DMStep(c)
      PROVE  \E from, to \in Labels \ {"work", "wait1", "wait2"} : Goto(c, from, to)
  BY <1>1, <1>3 DEF DMStep, ReadX, ReadY, AmoX, ResetX, AmoY, ResetY, Wake, Wfi, Advance,
                    IterateY, IterateX, PollY, PollX
<1>4. ASSUME NEW s \in Clusters, NEW c \in Clusters, DeliverWakeup(s, c)
      PROVE  \/ UNCHANGED <<pc, barrier_status, entered, left>>
             \/ \E from, to \in Labels \ {"work", "wait1", "wait2"} : Goto(c, from, to)
  BY <1>1, <1>4, DeliverGoto
<1>5. CASE Terminating
  BY <1>5 DEF Terminating, vars
<1> QED BY <1>2, <1>3, <1>4, <1>5 DEF Next

LEMMA CoresNext ==
  ASSUME TypeOK, SyncInv, NEW g \in [Clusters -> Nat], NEW r \in [Clusters -> Nat],
         GroupInv(g, r), Next
  PROVE  CoresType(Labels)' /\ SyncInv'
<1>0. CoresType(Labels) /\ WorkerLabels \subseteq Labels
  BY LabelFacts DEF TypeOK
<1>1. ASSUME NEW c \in Clusters, NEW k \in Cores, CoreStep(c, k)
      PROVE  CoresType(Labels)' /\ SyncInv'
  <2>1. PICK start \in {"readX", "amoX"} :
          CallStep(c, k, start) /\ WorkLabel(start) /\ start \in Labels
    BY <1>1, CallParts
  <2> QED BY <1>0, <2>1, CallStepType, SyncInvCall
<1>2. ASSUME NEW c \in Clusters, NEW from \in Labels \ {"work", "wait1", "wait2"},
             NEW to \in Labels \ {"work", "wait1", "wait2"}, Goto(c, from, to)
      PROVE  CoresType(Labels)' /\ SyncInv'
  BY <1>0, <1>2, CoresGotoType, SyncInvGoto
<1>3. CASE UNCHANGED <<pc, barrier_status, entered, left>>
  BY <1>0, <1>3 DEF CoresType, SyncInv, Syncs
<1> QED BY <1>1, <1>2, <1>3, StepGoto

LEMMA TypeNext ==
  ASSUME TypeOK, SyncInv, NEW g \in [Clusters -> Nat], NEW r \in [Clusters -> Nat],
         GroupInv(g, r), Next
  PROVE  TypeOK'
<1>1. CoresType(Labels)'
  BY CoresNext
<1>2. ASSUME NEW c \in Clusters, GroupInit(c) PROVE TypeOK'
  <2>1. \/ InitReset(c, "sync_x_point", "sync_y_point", "sync_x_point")
        \/ InitReset(c, "sync_y_point", "done", "sync_y_point")
    BY <1>2 DEF GroupInit, InitResetX, InitResetY
  <2>2. init' \in [Clusters -> {"sync_x_point", "sync_y_point", "done"}]
    BY <2>1 DEF InitReset, TypeOK
  <2>3. sync' \in [Clusters \X Words -> Nat]
    BY <2>1 DEF InitReset, TypeOK
  <2>4. UNCHANGED <<registers, prev_x, prev_y, wakes>>
    BY <2>1 DEF InitReset
  <2> QED BY <1>1, <2>2, <2>3, <2>4 DEF TypeOK, RegistersType, registers
<1>3. ASSUME NEW c \in Clusters, DMStep(c) PROVE TypeOK'
  <2>0. /\ sync[XIter(c)] \in Iterations /\ sync[YIter(c)] \in Iterations
        /\ sync \in [Clusters \X Words -> Nat] /\ Iterations \subseteq Nat
    BY <1>3, ProgramAssumption DEF GroupInv, Remembered, TypeOK, Iterations
  <2>1. /\ Iterated(sync[XIter(c)]) \in Nat /\ Iterated(sync[YIter(c)]) \in Nat
    BY <2>0, IteratedChanges
  <2>2. CASE ReadX(c)
    BY <1>1, <2>0, <2>2 DEF ReadX, TypeOK, RegistersType, registers
  <2>3. CASE ReadY(c)
    BY <1>1, <2>0, <2>3 DEF ReadY, TypeOK, RegistersType, registers
  <2>4. CASE AmoX(c)
    <3>1. pc[c][DM] = "amoX" /\ sync' = [sync EXCEPT ![XPoint(c)] = @ + 1]
      BY <2>4 DEF AmoX, Goto
    <3>2. XPoint(c) \in Clusters \X Words
      <4>1. PICK kind \in Kinds : XPoint(c) = XWord(kind, c)
        BY <3>1, InCall DEF Counted, Leading
      <4> QED BY <4>1, <1>3, WordTypes
    <3>3. sync' \in [Clusters \X Words -> Nat]
      BY <2>0, <3>1, <3>2
    <3> QED BY <1>1, <2>4, <3>3 DEF AmoX, TypeOK, RegistersType, registers
  <2>5. CASE ResetX(c)
    BY <1>1, <2>0, <2>5 DEF ResetX, TypeOK, RegistersType, registers
  <2>6. CASE AmoY(c)
    <3>1. pc[c][DM] = "amoY" /\ sync' = [sync EXCEPT ![YPoint(c)] = @ + 1]
      BY <2>6 DEF AmoY, Goto
    <3>2. YPoint(c) \in Clusters \X Words
      <4>1. PICK kind \in Kinds : YPoint(c) = YWord(kind, c)
        BY <3>1, InCall DEF Counted, Leading
      <4> QED BY <4>1, <1>3, WordTypes
    <3>3. sync' \in [Clusters \X Words -> Nat]
      BY <2>0, <3>1, <3>2
    <3> QED BY <1>1, <2>6, <3>3 DEF AmoY, TypeOK, RegistersType, registers
  <2>7. CASE ResetY(c)
    BY <1>1, <2>0, <2>7 DEF ResetY, TypeOK, RegistersType, registers
  <2>8. CASE Wake(c)
    <3>1. Selected(c) \subseteq Clusters
      BY DEF Selected
    <3> QED BY <1>1, <2>8, <3>1 DEF Wake, SendWakeup, TypeOK, RegistersType
  <2>9. CASE Wfi(c)
    BY <1>1, <2>9 DEF Wfi, WaitForWakeup, TypeOK, RegistersType, words
  <2>10. CASE IterateY(c)
    BY <1>1, <2>0, <2>1, <2>10 DEF IterateY, Advance, Iterated, TypeOK, RegistersType, registers
  <2>11. CASE PollY(c)
    BY <1>1, <2>11 DEF PollY, TypeOK, RegistersType, registers, words
  <2>12. CASE IterateX(c)
    BY <1>1, <2>0, <2>1, <2>12 DEF IterateX, Advance, Iterated, TypeOK, RegistersType, registers
  <2>13. CASE PollX(c)
    BY <1>1, <2>13 DEF PollX, TypeOK, RegistersType, registers, words
  <2> QED BY <1>3, <2>2, <2>3, <2>4, <2>5, <2>6, <2>7, <2>8, <2>9, <2>10, <2>11, <2>12, <2>13
          DEF DMStep
<1>4. ASSUME NEW c \in Clusters, NEW k \in Cores, CoreStep(c, k) PROVE TypeOK'
  <2>1. UNCHANGED <<registers, init, words>>
    BY <1>4, CallParts
  <2> QED BY <1>1, <2>1 DEF TypeOK, RegistersType, registers, words
<1>5. ASSUME NEW s \in Clusters, NEW c \in Clusters, DeliverWakeup(s, c) PROVE TypeOK'
  BY <1>1, <1>5 DEF DeliverWakeup, GlobalBarrierSync, TypeOK, RegistersType, words
<1>6. CASE Terminating
  BY <1>1, <1>6 DEF Terminating, vars, TypeOK, RegistersType, registers, words
<1> QED BY <1>2, <1>3, <1>4, <1>5, <1>6 DEF Next

\* Core 0 enters no call before it is done with the initialisation.
LEMMA InitInvNext ==
  ASSUME TypeOK, InitInv, Next
  PROVE  InitInv'
<1>0. First \in Cores /\ init \in [Clusters -> {"sync_x_point", "sync_y_point", "done"}]
  BY ProgramAssumption DEF TypeOK
<1>1. ASSUME NEW c \in Clusters, GroupInit(c) PROVE InitInv'
  <2>1. PICK from, to :
          /\ from \in {"sync_x_point", "sync_y_point"} /\ init[c] = from
          /\ init' = [init EXCEPT ![c] = to] /\ UNCHANGED entered
    BY <1>1 DEF GroupInit, InitResetX, InitResetY, InitReset
  <2> QED BY <1>0, <2>1 DEF InitInv
<1>2. CASE UNCHANGED <<init, entered>>
  BY <1>2 DEF InitInv
<1>3. ASSUME NEW c \in Clusters, DMStep(c) PROVE UNCHANGED <<init, entered>>
  BY <1>3 DEF DMStep, ReadX, ReadY, AmoX, ResetX, AmoY, ResetY, Wake, Wfi, Advance,
              IterateY, IterateX, PollY, PollX, Goto
<1>4. ASSUME NEW c \in Clusters, NEW k \in Cores, CoreStep(c, k) PROVE InitInv'
  <2>1. PICK start : /\ CallStep(c, k, start) /\ UNCHANGED init
                     /\ EnterCall(c, k, start) => (k = First => init[c] = "done")
    BY <1>4, CallParts
  <2>2. CASE LeaveCall(c, k, start)
    BY <2>1, <2>2, <1>2 DEF LeaveCall
  <2>3. CASE EnterCall(c, k, start)
    <3>1. entered' = [entered EXCEPT ![<<c, k>>] = @ + 1]
      BY <2>3 DEF EnterCall
    <3>2. \A d \in Clusters : <<d, First>> # <<c, k>> =>
                                entered'[<<d, First>>] = entered[<<d, First>>]
      BY <1>0, <3>1 DEF TypeOK, CoresType, Participants
    <3> QED BY <2>1, <2>3, <3>2 DEF InitInv
  <2> QED BY <2>1, <2>2, <2>3 DEF CallStep
<1>5. ASSUME NEW s \in Clusters, NEW c \in Clusters, DeliverWakeup(s, c)
      PROVE  UNCHANGED <<init, entered>>
  BY <1>5 DEF DeliverWakeup
<1>6. CASE Terminating
  BY <1>2, <1>6 DEF Terminating, vars
<1> QED BY <1>1, <1>2, <1>3, <1>4, <1>5, <1>6 DEF Next

LEMMA GroupStutter ==
  ASSUME TypeOK, NEW g \in [Clusters -> Nat], NEW r \in [Clusters -> Nat],
         GroupInv(g, r), UNCHANGED vars
  PROVE  GroupInv(g, r)'
<1>1. UNCHANGED <<registers, init, sync, prev_x, prev_y, wakes, pc, entered>>
  BY DEF vars, words
<1>2. \A d \in Clusters : /\ pc'[d][DM] = pc[d][DM] /\ Passed(d)' = Passed(d)
                          /\ sync'[XIter(d)] = sync[XIter(d)]
                          /\ sync'[YIter(d)] = sync[YIter(d)]
  BY <1>1 DEF Passed, XIter, YIter
<1>3. \A d \in Clusters : InStep(d, g, r)' /\ Woken(d, g)' /\ Remembered(d, g, r)'
  BY <1>1, <1>2, StillFrame
<1>4. \A d \in Clusters : RowInStep(d, g, r)'
  BY <1>1 DEF GroupInv, RowInStep
<1>5. \A kind \in Kinds, d \in Clusters :
        SameRow(kind, d, r, r) /\ SameTeam(kind, d, g, r, g, r)
  BY <1>2, SameWhenUntouched
<1>6. \A kind \in Kinds, d \in Clusters : RowCounts(kind, d, r)' /\ TeamCounts(kind, d, g, r)'
  BY <1>1, <1>5, CountsSame DEF GroupInv
<1>7. Grouped(g, r)'
  BY DEF GroupInv, Grouped
<1> QED BY <1>3, <1>4, <1>6, <1>7 DEF GroupInv

LEMMA GroupNext ==
  ASSUME FirstIsGlobal, TypeOK, SyncInv, InitInv,
         NEW g \in [Clusters -> Nat], NEW r \in [Clusters -> Nat],
         GroupInv(g, r), Next
  PROVE  \E h, s \in [Clusters -> Nat] : GroupInv(h, s)'
<1>1. ASSUME NEW c \in Clusters, DMStep(c)
      PROVE  \E h, s \in [Clusters -> Nat] : GroupInv(h, s)'
  <2>1. ReadX(c) \/ ReadY(c) \/ AmoX(c) \/ ResetX(c) => GroupInv(g, r)'
    BY GroupReadX, GroupReadY, GroupAmoX, GroupResetX
  <2>2. AmoY(c) \/ ResetY(c) \/ Wfi(c) \/ PollY(c) \/ PollX(c) => GroupInv(g, r)'
    BY GroupAmoY, GroupResetY, GroupWfi, GroupPollY, GroupPollX
  <2>3. IterateX(c) => \E s \in [Clusters -> Nat] : GroupInv(g, s)'
    BY GroupIterateX
  <2>4. IterateY(c) => \E h \in [Clusters -> Nat] : GroupInv(h, r)'
    BY GroupIterateY
  <2>5. Wake(c) => \E h, s \in [Clusters -> Nat] : GroupInv(h, s)'
    BY GroupWake
  <2> QED BY <1>1, <2>1, <2>2, <2>3, <2>4, <2>5 DEF DMStep
<1>2. ASSUME NEW c \in Clusters, GroupInit(c) PROVE GroupInv(g, r)'
  <2>1. CASE InitResetX(c)
    BY <2>1, GroupReset DEF InitResetX
  <2>2. CASE InitResetY(c)
    BY <2>2, GroupReset DEF InitResetY
  <2> QED BY <1>2, <2>1, <2>2 DEF GroupInit
<1>3. CASE Terminating
  BY <1>3, GroupStutter DEF Terminating
<1>4. ASSUME NEW c \in Clusters, NEW k \in Cores, CoreStep(c, k) PROVE GroupInv(g, r)'
  BY <1>4, GroupCall
<1>5. ASSUME NEW s \in Clusters, NEW c \in Clusters, DeliverWakeup(s, c) PROVE GroupInv(g, r)'
  BY <1>5, GroupDeliver
<1> QED BY <1>1, <1>2, <1>3, <1>4, <1>5 DEF Next

LEMMA IInvNext ==
  ASSUME FirstIsGlobal
  PROVE  IInv /\ [Next]_vars => IInv'
<1> SUFFICES ASSUME IInv, [Next]_vars PROVE IInv'
  OBVIOUS
<1>1. PICK g, r \in [Clusters -> Nat] : GroupInv(g, r)
  BY DEF IInv
<1>2. CASE Next
  <2>1. TypeOK' /\ SyncInv' /\ InitInv'
    BY <1>1, <1>2, TypeNext, CoresNext, InitInvNext DEF IInv
  <2>2. \E h, s \in [Clusters -> Nat] : GroupInv(h, s)'
    BY <1>1, <1>2, GroupNext DEF IInv
  <2> QED BY <2>1, <2>2 DEF IInv
<1>3. CASE UNCHANGED vars
  <2>1. TypeOK' /\ SyncInv'
    BY <1>3 DEF IInv, vars, TypeOK, CoresType, RegistersType, SyncInv, Syncs, registers, words
  <2>2. InitInv'
    BY <1>3 DEF IInv, InitInv, vars
  <2> QED BY <1>1, <1>3, <2>1, <2>2, GroupStutter DEF IInv
<1> QED BY <1>2, <1>3

\* The inductive invariant holds throughout.
THEOREM Invariance == ASSUME FirstIsGlobal PROVE Spec => []IInv
<1>1. IInv /\ [Next]_vars => IInv'
  BY IInvNext
<1> QED BY <1>1, IInvInit, PTL DEF Spec

-----------------------------------------------------------------------------
(* What follows. *)

\* Every variable keeps its type, whatever the mesh, the groups and the calls.
THEOREM TypeCorrect == ASSUME FirstIsGlobal PROVE Spec => []TypeOK
<1>1. IInv => TypeOK
  BY DEF IInv
<1> QED BY <1>1, Invariance, PTL

\* A row is never ahead of its group, nor a cluster of its row.
LEMMA PassedEnded ==
  ASSUME TypeOK, NEW g \in [Clusters -> Nat], NEW r \in [Clusters -> Nat],
         GroupInv(g, r), NEW c \in Clusters
  PROVE  \/ Passed(c) = g[c]
         \/ Passed(c) = g[c] - 1 /\ (Polling(c) \/ pc[c][DM] \in {"wfi", "blocked"})
<1>1. Passed(c) \in Nat /\ g[c] \in Nat /\ r[c] \in Nat
  BY GroupTypes
<1>2. CASE r[c] # g[c]
  BY <1>2, RowAhead DEF Arrived
<1>3. CASE r[c] = g[c] /\ Passed(c) # r[c]
  BY <1>3 DEF GroupInv, InStep
<1> QED BY <1>2, <1>3

LEMMA ConsumedBroadcasts ==
  ASSUME TypeOK, NEW c \in Clusters
  PROVE  Consumed(c) = Broadcasts(Passed(c))
<1> DEFINE behind == {n \in 1 .. entered[<<c, DM>>] :
                        n < entered[<<c, DM>>] \/ pc[c][DM] \in {"sync2", "wait2", "work"}}
<1>1. entered[<<c, DM>>] \in Nat
  BY EnteredNat DEF TypeOK
<1>2. behind = 1 .. Passed(c) - 1
  BY <1>1 DEF Passed
<1>3. Consumed(c) = Cardinality({n \in behind : Program[n] # "poll"})
  BY DEF Consumed
<1> HIDE DEF behind
<1> QED BY <1>2, <1>3 DEF Broadcasts

\* A broadcast masked to a group, or to the whole mesh, is consumed once by each
\* cluster it selects, kept as the token or on its way (flex_wakeup_clusters).
THEOREM WakeupsCorrect == ASSUME FirstIsGlobal PROVE Spec => []WakeupsConserved
<1>1. IInv => WakeupsConserved
  <2> SUFFICES ASSUME IInv, NEW g \in [Clusters -> Nat], NEW r \in [Clusters -> Nat],
                      GroupInv(g, r), NEW c \in Clusters
               PROVE  /\ \A s, t \in InFlight(c) : s = t
                      /\ wakes[c] = Consumed(c) + global_barrier_mutex[c]
                                      + (IF InFlight(c) = {} THEN 0 ELSE 1)
    BY DEF IInv, WakeupsConserved
  <2>1. /\ \A s, t \in InFlight(c) : s = t
        /\ global_barrier_mutex[c] + (IF InFlight(c) = {} THEN 0 ELSE 1)
             = IF Owed(c, g) THEN 1 ELSE 0
        /\ wakes[c] = Broadcasts(g[c])
    BY DEF GroupInv, Woken, Broadcasts
  <2>2. /\ Passed(c) \in Nat /\ Passed(c) > 0 /\ g[c] \in Nat
        /\ global_barrier_mutex[c] \in {0, 1}
    BY GroupTypes DEF IInv, GroupInv, InStep
  <2>3. Consumed(c) = Broadcasts(Passed(c)) /\ Broadcasts(Passed(c)) \in Nat
    BY <2>2, ConsumedBroadcasts, BroadcastsNext DEF IInv
  <2>4. Broadcasts(g[c]) = Broadcasts(Passed(c)) + IF Owed(c, g) THEN 1 ELSE 0
    <3>1. CASE Passed(c) = g[c]
      BY <3>1, <2>3 DEF Owed
    <3>2. CASE Passed(c) = g[c] - 1
      <4>1. Passed(c) + 1 = g[c] /\ Passed(c) < g[c]
        BY <2>2, <3>2
      <4>2. Broadcasts(Passed(c) + 1) = Broadcasts(Passed(c)) + (IF Polling(c) THEN 0 ELSE 1)
        BY <2>2, BroadcastsNext DEF Polling
      <4> QED BY <4>1, <4>2 DEF Owed
    <3> QED BY <3>1, <3>2, PassedEnded DEF IInv
  <2> QED BY <2>1, <2>2, <2>3, <2>4
<1> QED BY <1>1, Invariance, PTL

\* Clearing a counter loses no arrival of the next call: each group counts in
\* words of its own, and the row and the team are full (flex_reset_barrier).
THEOREM ResetsCorrect == ASSUME FirstIsGlobal PROVE Spec => []ResetLosesNobody
<1>1. IInv => ResetLosesNobody
  <2> SUFFICES ASSUME IInv, NEW g \in [Clusters -> Nat], NEW r \in [Clusters -> Nat],
                      GroupInv(g, r), NEW c \in Clusters, pc[c][DM] \in {"resetX", "resetY"}
               PROVE  /\ pc[c][DM] = "resetX" => sync[XPoint(c)] = CountX(c)
                      /\ pc[c][DM] = "resetY" => sync[YPoint(c)] = CountY(c)
    BY DEF IInv, ResetLosesNobody
  <2>1. pc[c][DM] \in Leading /\ pc[c][DM] \in Counted
    BY DEF Counted, Leading, Last
  <2>2. PICK kind0 \in Kinds : kind0 = Kind(Passed(c))
    BY <2>1, InCall DEF IInv
  <2>3. /\ XPoint(c) = XWord(kind0, c) /\ CountX(c) = Cardinality(TeamRow(kind0, c))
        /\ YPoint(c) = YWord(kind0, c) /\ CountY(c) = Cardinality(TeamRows(kind0, c))
        /\ XCleared(kind0, c) /\ YCleared(kind0, c)
    BY <2>1, <2>2, InCall, Cleared DEF IInv
  <2>4. RowCounts(kind0, c, r) /\ TeamCounts(kind0, c, g, r)
    BY DEF GroupInv
  <2>5. c \in TeamRow(kind0, c) /\ c \in Team(kind0, c)
    BY TeamFacts
  <2>6. CASE pc[c][DM] = "resetX"
    <3>1. RowFull(kind0, c, r)
      BY <2>1, <2>2, LeaderFacts DEF IInv
    <3>2. SomeInRow(kind0, c, {"resetX"})
      BY <2>2, <2>5, <2>6 DEF SomeInRow, At
    <3> QED BY <2>3, <2>4, <2>6, <3>1, <3>2 DEF RowCounts, RowFull
  <2>7. CASE pc[c][DM] = "resetY"
    <3>1. TeamFull(kind0, c, g, r)
      BY <2>2, <2>7, LastFacts DEF IInv, Last
    <3>2. SomeInTeam(kind0, c, {"resetY"})
      BY <2>2, <2>5, <2>7 DEF SomeInTeam, At
    <3> QED BY <2>3, <2>4, <2>7, <3>1, <3>2 DEF TeamCounts, TeamFull
  <2> QED BY <2>6, <2>7
<1> QED BY <1>1, Invariance, PTL

\* A cluster has passed no call that a core joined in it has still to enter.
LEMMA JoinedEntered ==
  ASSUME IInv, NEW c \in Clusters, NEW n \in 1 .. Rounds, n < Passed(c),
         NEW d \in Joined(n, c), NEW j \in Cores
  PROVE  d \in Clusters /\ n <= entered[<<d, j>>]
<1>1. PICK g, r \in [Clusters -> Nat] : GroupInv(g, r)
  BY DEF IInv
<1>2. d \in Clusters
  BY DEF Joined, Group
<1>3. /\ Passed(c) \in Nat /\ g[c] \in Nat /\ g[d] \in Nat
      /\ entered[<<d, j>>] \in Nat
  BY <1>2, GroupTypes, EnteredNat DEF IInv, TypeOK
<1>4. n < g[c]
  BY <1>1, <1>3, PassedEnded DEF IInv
<1>5. n < g[d]
  <2>1. CASE Program[n] = "global"
    BY <2>1, <1>1, <1>2, <1>4 DEF GroupInv, Grouped
  <2>2. CASE Program[n] # "global"
    <3>1. d \in Group(c)
      BY <2>2 DEF Joined
    <3> QED BY <3>1, <1>1, <1>2, <1>4 DEF GroupInv, Grouped
  <2> QED BY <2>1, <2>2
<1>6. g[d] - 1 <= entered[<<d, j>>]
  BY <1>1, <1>2, EveryoneEntered DEF IInv
<1> QED BY <1>2, <1>3, <1>5, <1>6

\* No core returns from a call before every core that joins it has called: of
\* its group, or of the mesh.
THEOREM GroupCorrect == ASSUME FirstIsGlobal PROVE Spec => []GroupSafety
<1>1. IInv => GroupSafety
  <2> SUFFICES ASSUME IInv, NEW c \in Clusters, NEW k \in Cores,
                      NEW n \in 1 .. left[<<c, k>>],
                      NEW d \in Joined(n, c), NEW j \in Cores
               PROVE  n <= entered[<<d, j>>]
    BY DEF GroupSafety
  <2>1. left[<<c, k>>] \in 0 .. Rounds /\ Passed(c) \in Nat
    BY GroupTypes DEF IInv, TypeOK, CoresType, Participants
  <2>2. left[<<c, k>>] > 0 /\ left[<<c, k>>] + 1 <= Passed(c)
    BY <2>1, PassedBounds DEF IInv, TypeOK
  <2>3. n \in 1 .. Rounds /\ n < Passed(c)
    BY <2>1, <2>2
  <2> QED BY <2>3, JoinedEntered
<1> QED BY <1>1, Invariance, PTL

AbstractStep == [AbstractBarrier!Next]_(AbstractBarrier!vars)

\* The barriers of the groups and of the mesh, mixed as a program likes,
\* implement the abstract one, its liveness apart.
THEOREM GroupRefinement == ASSUME FirstIsGlobal PROVE Spec => AbstractBarrier!SafeSpec
<1>1. Init => AbstractBarrier!Init
  BY DEF Init, CoresInit, AbstractBarrier!Init
<1>2. IInv /\ [Next]_vars => AbstractStep
  <2> SUFFICES ASSUME IInv, [Next]_vars PROVE AbstractStep
    OBVIOUS
  <2>0. CoresType(Labels) /\ WorkerLabels \subseteq Labels /\ {"readX", "amoX"} \subseteq Labels
    BY LabelFacts DEF IInv, TypeOK
  <2>1. ASSUME NEW c \in Clusters, NEW k \in Cores, CoreStep(c, k) PROVE AbstractStep
    <3>1. PICK start \in {"readX", "amoX"} : CallStep(c, k, start)
      BY <2>1, CallParts
    <3>2. CASE EnterCall(c, k, start)
      <4>1. Calls!Enter(<<c, k>>)
        BY <2>0, <3>2, EnterCallImplements DEF IInv
      <4> QED BY <4>1 DEF AbstractStep, AbstractBarrier!Next, AbstractBarrier!Enter,
                          Calls!Enter, Participants
    <3>3. CASE LeaveCall(c, k, start) /\ ~UNCHANGED <<entered, left>>
      <4>1. PICK P \in SUBSET Participants :
              /\ \A p \in P : left[p] < entered[p] /\ entered[p] < Passed(p[1])
              /\ left' = [p \in Participants |-> IF p \in P THEN entered[p] ELSE left[p]]
              /\ UNCHANGED entered
        BY <2>0, <3>3, LeaveCallReleases DEF IInv
      <4>2. ASSUME NEW p \in P, NEW q \in Peers[entered[p]][p]
            PROVE  entered[p] <= entered[q]
        <5>1. p \in Participants
          BY <4>2
        <5>2. PICK e \in Clusters, i \in Cores : p = <<e, i>>
          BY <5>1 DEF Participants
        <5>3. PICK n : n = entered[p]
          OBVIOUS
        <5>4. n \in 1 .. Rounds /\ n < Passed(e)
          <6>1. entered[p] \in 0 .. Rounds /\ left[p] \in 0 .. Rounds
            BY <2>0, <5>1 DEF CoresType
          <6> QED BY <6>1, <4>1, <4>2, <5>2, <5>3
        <5>5. q \in Joined(n, e) \X Cores
          BY <4>2, <5>1, <5>2, <5>3, <5>4 DEF Peers
        <5>6. PICK d \in Joined(n, e), j \in Cores : q = <<d, j>>
          BY <5>5
        <5> QED BY <5>3, <5>4, <5>6, JoinedEntered
      <4>3. AbstractBarrier!Leave(P)
        BY <4>1, <4>2 DEF AbstractBarrier!Leave
      <4> QED BY <4>3 DEF AbstractStep, AbstractBarrier!Next
    <3>4. CASE UNCHANGED <<entered, left>>
      BY <3>4 DEF AbstractStep, AbstractBarrier!vars
    <3> QED BY <3>1, <3>2, <3>3, <3>4 DEF CallStep
  <2>2. CASE \/ \E c \in Clusters : GroupInit(c) \/ DMStep(c)
             \/ \E s, c \in Clusters : DeliverWakeup(s, c)
             \/ Terminating \/ UNCHANGED vars
    <3>1. UNCHANGED <<entered, left>>
      BY <2>2 DEF GroupInit, InitResetX, InitResetY, InitReset, DMStep, ReadX, ReadY, AmoX,
                  ResetX, AmoY, ResetY, Wake, Wfi, Advance, IterateY, IterateX, PollY, PollX,
                  DeliverWakeup, Goto, Terminating, vars
    <3> QED BY <3>1 DEF AbstractStep, AbstractBarrier!vars
  <2> QED BY <2>1, <2>2 DEF Next
<1> QED BY <1>1, <1>2, Invariance, PTL DEF Spec, AbstractStep, AbstractBarrier!SafeSpec
=============================================================================
