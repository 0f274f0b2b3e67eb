--------------------------- MODULE SocDamlProofs ---------------------------
(***************************************************************************)
(* Theorems about SocDaml, for every number of clusters and cores, every    *)
(* heap, every size of a slot and of the tables.                             *)
(***************************************************************************)
EXTENDS SocDamlInv, FiniteSetTheorems, FunctionTheorems, SequenceTheorems, WellFoundedInduction, TLAPS

-----------------------------------------------------------------------------
(* Numbers. *)

\* A set of natural numbers has a least element, and a bounded one a greatest.
LEMMA LeastNat ==
  ASSUME NEW T, T \subseteq Nat, T # {}
  PROVE  \E x \in T : \A y \in T : x <= y
<1>1. PICK x \in T : \A y \in T : ~ (<<y, x>> \in OpToRel(<, Nat))
  BY NatLessThanWellFounded, WFMin
<1>2. \A y \in T : ~ (y < x)
  BY <1>1 DEF OpToRel
<1> QED BY <1>2

LEMMA GreatestNat ==
  ASSUME NEW T, T \subseteq Nat, T # {}, NEW b \in Nat, \A x \in T : x <= b
  PROVE  \E x \in T : \A y \in T : y <= x
<1> DEFINE Bounds == {n \in Nat : \A x \in T : x <= n}
<1>1. PICK n \in Bounds : \A m \in Bounds : n <= m
  <2>1. b \in Bounds /\ Bounds \subseteq Nat
    OBVIOUS
  <2> QED BY <2>1, LeastNat
<1>2. CASE n \in T
  BY <1>1, <1>2
<1>3. CASE n \notin T
  <2>1. \A x \in T : x \in Nat /\ x < n
    BY <1>1, <1>3
  <2>2. PICK x \in T : x \in Nat /\ x < n
    BY <2>1
  <2>3. n - 1 \in Bounds
    BY <2>1, <2>2, <1>1
  <2> QED BY <2>3, <1>1
<1> QED BY <1>2, <1>3

\* Products.
LEMMA Times ==
  ASSUME NEW m \in Nat, NEW n \in Nat, NEW a \in Nat
  PROVE  /\ m * a \in Nat /\ (m + 1) * a = m * a + a
         /\ m <= n => m * a <= n * a /\ (n - m) * a = n * a - m * a
         /\ m < n => m * a + a <= n * a
<1>1. m * a \in Nat /\ n * a \in Nat /\ (m + 1) * a = m * a + a
  OBVIOUS
<1>2. ASSUME m <= n
      PROVE  (n - m) * a \in Nat /\ (n - m) * a = n * a - m * a
  <2>1. n - m \in Nat
    BY <1>2
  <2> QED BY <2>1
<1>3. ASSUME m < n
      PROVE  m * a + a <= n * a
  <2>1. n - (m + 1) \in Nat
    BY <1>3
  <2>2. (n - (m + 1)) * a \in Nat
    BY <2>1
  <2>3. (n - (m + 1)) * a = n * a - (m + 1) * a
    OBVIOUS
  <2> QED BY <1>1, <2>2, <2>3
<1> QED BY <1>1, <1>2, <1>3

\* Where a quotient lies.
LEMMA Quotient ==
  ASSUME NEW x \in Nat, NEW a \in Nat \ {0}
  PROVE  /\ x \div a \in Nat
         /\ (x \div a) * a <= x /\ x < (x \div a) * a + a
<1>1. x \div a \in Nat /\ x % a \in 0 .. a - 1 /\ x = a * (x \div a) + (x % a)
  OBVIOUS
<1>2. a * (x \div a) = (x \div a) * a
  BY <1>1
<1> QED BY <1>1, <1>2

LEMMA QuotientBounds ==
  ASSUME NEW x \in Nat, NEW a \in Nat \ {0}, NEW s \in Nat
  PROVE  /\ x \div a <= s <=> x < (s + 1) * a
         /\ s < (x + a - 1) \div a <=> s * a < x
         /\ s < x \div a => s * a + a <= x
<1> DEFINE q == x \div a
           u == (x + a - 1) \div a
<1>1. q \in Nat /\ q * a <= x /\ x < q * a + a /\ q * a \in Nat
  BY Quotient
<1>2. u \in Nat /\ u * a <= x + a - 1 /\ x + a - 1 < u * a + a /\ u * a \in Nat
  <2>1. x + a - 1 \in Nat
    OBVIOUS
  <2> QED BY <2>1, Quotient
<1>3. s * a \in Nat /\ (s + 1) * a = s * a + a
  BY Times
<1> HIDE DEF q, u
<1>4. /\ q <= s => q * a <= s * a
      /\ s < q => s * a + a <= q * a
      /\ u <= s => u * a <= s * a
      /\ s < u => s * a + a <= u * a
  BY <1>1, <1>2, Times
<1>5. q <= s <=> x < (s + 1) * a
  BY <1>1, <1>3, <1>4
<1>6. s < u <=> s * a < x
  BY <1>2, <1>3, <1>4
<1>7. s < q => s * a + a <= x
  BY <1>1, <1>3, <1>4
<1> QED BY <1>5, <1>6, <1>7 DEF q, u

LEMMA AlignDownFacts ==
  ASSUME NEW n \in Nat
  PROVE  /\ AlignDown(n) \in Nat /\ AlignDown(n) % 8 = 0
         /\ AlignDown(n) <= n /\ n <= AlignDown(n) + 7
         /\ n % 8 = 0 => AlignDown(n) = n
  BY DEF AlignDown, Align

-----------------------------------------------------------------------------
(* A set in order. *)

IsOrder(s, S) ==
  /\ s \in [1 .. Cardinality(S) -> S]
  /\ \A i, j \in 1 .. Cardinality(S) : i < j => s[i] < s[j]

\* The least element, then the others in order.
LEMMA OrderExtends ==
  ASSUME NEW S, S \subseteq Nat, IsFiniteSet(S), NEW m \in S, \A y \in S : m <= y,
         NEW r, IsOrder(r, S \ {m})
  PROVE  \E s : IsOrder(s, S)
<1> DEFINE n == Cardinality(S)
           s == [i \in 1 .. n |-> IF i = 1 THEN m ELSE r[i - 1]]
<1>1. n \in Nat /\ Cardinality(S \ {m}) = n - 1 /\ n # 0
  BY FS_CardinalityType, FS_RemoveElement, FS_EmptySet
<1> HIDE DEF n
<1>2. \A i \in 1 .. n - 1 : r[i] \in S /\ r[i] # m /\ m < r[i]
  <2>1. \A i \in 1 .. n - 1 : r[i] \in S \ {m}
    BY <1>1 DEF IsOrder
  <2>2. ASSUME NEW x \in S \ {m} PROVE m < x
    <3>1. m \in Nat /\ x \in Nat /\ m <= x /\ x # m
      OBVIOUS
    <3> QED BY <3>1
  <2> QED BY <2>1, <2>2
<1>3. \A i \in 1 .. n : i # 1 => i - 1 \in 1 .. n - 1
  BY <1>1
<1>4. s \in [1 .. n -> S]
  BY <1>2, <1>3
<1>5. ASSUME NEW i \in 1 .. n, NEW j \in 1 .. n, i < j
      PROVE  s[i] < s[j]
  <2>1. j # 1 /\ j - 1 \in 1 .. n - 1 /\ s[j] = r[j - 1]
    BY <1>1, <1>3, <1>5
  <2>2. CASE i = 1
    BY <2>1, <2>2, <1>2
  <2>3. CASE i # 1
    <3>1. i - 1 \in 1 .. n - 1 /\ i - 1 < j - 1 /\ s[i] = r[i - 1]
      BY <1>1, <1>5, <2>3, <1>3
    <3> QED BY <3>1, <2>1, <1>1 DEF IsOrder
  <2> QED BY <2>2, <2>3
<1> HIDE DEF s
<1>6. IsOrder(s, S)
  BY <1>4, <1>5 DEF IsOrder, n
<1> QED BY <1>6

LEMMA OrderExists ==
  ASSUME NEW S, S \subseteq Nat, IsFiniteSet(S)
  PROVE  \E s : IsOrder(s, S)
<1> DEFINE Bad == {n \in Nat : \E U \in SUBSET Nat :
                     IsFiniteSet(U) /\ Cardinality(U) = n /\ ~ \E s : IsOrder(s, U)}
<1>1. SUFFICES ASSUME Bad # {} PROVE FALSE
  <2>1. Cardinality(S) \in Nat
    BY FS_CardinalityType
  <2> QED BY <2>1
<1>2. PICK n \in Bad : \A k \in Bad : n <= k
  <2>1. Bad \subseteq Nat
    OBVIOUS
  <2> HIDE DEF Bad
  <2> QED BY <2>1, <1>1, LeastNat
<1>3. PICK U \in SUBSET Nat : /\ IsFiniteSet(U) /\ Cardinality(U) = n
                              /\ ~ \E s : IsOrder(s, U)
  BY <1>2
<1>4. U # {}
  <2>1. SUFFICES ASSUME U = {} PROVE IsOrder([i \in 1 .. 0 |-> 0], U)
    BY <1>3
  <2>2. Cardinality(U) = 0
    BY <2>1, FS_EmptySet
  <2>3. 1 .. 0 = {}
    OBVIOUS
  <2> QED BY <2>2, <2>3 DEF IsOrder
<1>5. PICK m \in U : \A y \in U : m <= y
  BY <1>4, LeastNat
<1>6. /\ IsFiniteSet(U \ {m}) /\ Cardinality(U \ {m}) = n - 1
      /\ n \in Nat /\ n # 0
  BY <1>3, <1>4, FS_CardinalityType, FS_RemoveElement, FS_EmptySet
<1>7. n - 1 \notin Bad /\ n - 1 \in Nat
  BY <1>2, <1>6
<1>8. PICK r : IsOrder(r, U \ {m})
  BY <1>6, <1>7
<1> HIDE DEF Bad
<1> QED BY <1>3, <1>5, <1>8, OrderExtends

\* InOrder lists every element, once.
LEMMA InOrderIs ==
  ASSUME NEW S, S \subseteq Nat, IsFiniteSet(S)
  PROVE  /\ Cardinality(S) \in Nat
         /\ InOrder(S) \in [1 .. Cardinality(S) -> S]
         /\ \A i, j \in 1 .. Cardinality(S) : i < j => InOrder(S)[i] < InOrder(S)[j]
         /\ \A x \in S : \E i \in 1 .. Cardinality(S) : InOrder(S)[i] = x
<1> DEFINE s == InOrder(S)
           n == Cardinality(S)
<1>1. n \in Nat
  BY FS_CardinalityType
<1>2. IsOrder(s, S)
  BY OrderExists DEF IsOrder, InOrder
<1> HIDE DEF s
<1>3. s \in Injection(1 .. n, S)
  <2>1. \A i, j \in 1 .. n : s[i] \in Nat /\ (i < j => s[i] < s[j])
    BY <1>2 DEF IsOrder
  <2>2. ASSUME NEW i \in 1 .. n, NEW j \in 1 .. n, s[i] = s[j] PROVE i = j
    <3>1. i \in Int /\ j \in Int /\ s[i] \in Nat
      BY <1>1, <2>1
    <3> QED BY <2>1, <2>2, <3>1
  <2>3. s \in [1 .. n -> S]
    BY <1>2 DEF IsOrder
  <2> HIDE DEF n
  <2> QED BY <2>2, <2>3 DEF Injection, IsInjective
<1>4. Cardinality(1 .. n) = n
  BY <1>1, FS_Interval
<1>5. s \in Surjection(1 .. n, S)
  BY <1>3, <1>4, FS_Injection
<1> QED BY <1>1, <1>2, <1>5 DEF IsOrder, Surjection, s

-----------------------------------------------------------------------------
(* Arenas and the free lists in them. *)

\* What daml_compute_core_arena gives a core.
LEMMA CoreFacts ==
  ASSUME NEW k \in 0 .. NumCores - 1
  PROVE  /\ Share \in Nat /\ CoreBase(k) \in Nat /\ CoreSize(k) \in Nat
         /\ HEAP_BASE <= CoreBase(k) /\ CoreBase(k) + CoreSize(k) <= HEAP_END
         /\ CoreSize(k) % 8 = 0 /\ 8 <= CoreSize(k)
         /\ HEAP_BASE % 8 = 0 => CoreBase(k) % 8 = 0
<1> DEFINE heap == HEAP_END - HEAP_BASE
<1>1. /\ NumCores \in Nat \ {0} /\ HEAP_BASE \in Nat /\ HEAP_END \in Nat
      /\ 16 * NumCores <= heap /\ heap \in Nat
  BY DamlAssumption
<1>2. /\ heap \div NumCores \in Nat /\ (heap \div NumCores) * NumCores <= heap
      /\ 16 <= heap \div NumCores
  <2>1. heap \div NumCores <= 15 <=> heap < (15 + 1) * NumCores
    BY <1>1, QuotientBounds
  <2> QED BY <1>1, <2>1, Quotient
<1>3. Share \in Nat /\ Share <= heap \div NumCores /\ Share % 8 = 0 /\ 9 <= Share
  BY <1>2, AlignDownFacts DEF Share
<1>4. NumCores * Share <= heap
  <2>1. /\ Share * NumCores \in Nat /\ (heap \div NumCores) * NumCores \in Nat
        /\ Share * NumCores <= (heap \div NumCores) * NumCores
    BY <1>1, <1>2, <1>3, Times
  <2>2. NumCores * Share = Share * NumCores
    BY <1>1, <1>3
  <2> QED BY <1>1, <1>2, <2>1, <2>2
<1>5. /\ k \in Nat /\ k * Share \in Nat /\ k * Share + Share <= NumCores * Share
      /\ (k * Share) % 8 = 0
  <2>1. k \in Nat /\ k < NumCores
    BY <1>1
  <2>2. PICK q \in Nat : Share = 8 * q
    BY <1>3
  <2>3. k * Share = 8 * (k * q) /\ k * q \in Nat
    BY <2>1, <2>2
  <2>4. (k * Share) % 8 = 0
    BY <2>3
  <2> QED BY <1>1, <1>3, <2>1, <2>4, Times
<1>6. /\ CoreBase(k) \in Nat /\ HEAP_BASE <= CoreBase(k)
      /\ CoreBase(k) = HEAP_BASE + k * Share
      /\ CoreBase(k) + Share <= HEAP_END
  BY <1>1, <1>3, <1>4, <1>5 DEF CoreBase
<1>7. /\ AlignDown(HEAP_END - CoreBase(k)) \in Nat
      /\ AlignDown(HEAP_END - CoreBase(k)) % 8 = 0
      /\ AlignDown(HEAP_END - CoreBase(k)) <= HEAP_END - CoreBase(k)
      /\ HEAP_END - CoreBase(k) <= AlignDown(HEAP_END - CoreBase(k)) + 7
  <2>1. HEAP_END - CoreBase(k) \in Nat
    BY <1>1, <1>3, <1>6
  <2> QED BY <2>1, AlignDownFacts
<1>8. /\ CoreSize(k) \in Nat /\ CoreBase(k) + CoreSize(k) <= HEAP_END
      /\ CoreSize(k) % 8 = 0 /\ 8 <= CoreSize(k)
  BY <1>1, <1>3, <1>6, <1>7 DEF CoreSize
<1>9. HEAP_BASE % 8 = 0 => CoreBase(k) % 8 = 0
  BY <1>1, <1>5, <1>6
<1> QED BY <1>3, <1>6, <1>8, <1>9

\* And what the allocator makes of it: where the heap is aligned, the same.
LEMMA ArenaFacts ==
  ASSUME NEW k \in 0 .. NumCores - 1
  PROVE  /\ ArenaBase(k) \in Nat /\ ArenaSize(k) \in Nat
         /\ HEAP_BASE <= ArenaBase(k) /\ ArenaBase(k) + ArenaSize(k) <= HEAP_END
         /\ ArenaSize(k) % 8 = 0
         /\ Arena(k) \subseteq HEAP_BASE .. HEAP_END - 8
         /\ HEAP_BASE % 8 = 0 => /\ ArenaBase(k) % 8 = 0
                                 /\ ArenaBase(k) = CoreBase(k) /\ ArenaSize(k) = CoreSize(k)
<1> DEFINE shift == ArenaBase(k) - CoreBase(k)
<1>1. /\ HEAP_BASE \in Nat /\ HEAP_END \in Nat
      /\ CoreBase(k) \in Nat /\ CoreSize(k) \in Nat
      /\ HEAP_BASE <= CoreBase(k) /\ CoreBase(k) + CoreSize(k) <= HEAP_END
      /\ CoreSize(k) % 8 = 0 /\ 8 <= CoreSize(k)
      /\ HEAP_BASE % 8 = 0 => CoreBase(k) % 8 = 0
  BY CoreFacts, DamlAssumption
<1>2. /\ ArenaBase(k) \in Nat /\ ArenaBase(k) % 8 = 0
      /\ CoreBase(k) <= ArenaBase(k) /\ ArenaBase(k) <= CoreBase(k) + 7
  <2>1. ArenaBase(k) = AlignDown(CoreBase(k) + 7)
    BY <1>1 DEF ArenaBase, AlignUp, Align
  <2>2. CoreBase(k) + 7 \in Nat
    BY <1>1
  <2>3. /\ AlignDown(CoreBase(k) + 7) \in Nat /\ AlignDown(CoreBase(k) + 7) % 8 = 0
        /\ AlignDown(CoreBase(k) + 7) <= CoreBase(k) + 7
        /\ CoreBase(k) + 7 <= AlignDown(CoreBase(k) + 7) + 7
    BY <2>2, AlignDownFacts
  <2> HIDE DEF shift
  <2>4. /\ ArenaBase(k) \in Nat /\ ArenaBase(k) % 8 = 0
        /\ ArenaBase(k) <= CoreBase(k) + 7 /\ CoreBase(k) + 7 <= ArenaBase(k) + 7
    BY <2>1, <2>3
  <2>5. CoreBase(k) <= ArenaBase(k)
    BY <1>1, <2>4
  <2> QED BY <2>4, <2>5
<1>3. shift \in Nat /\ shift <= 7 /\ CoreSize(k) - shift \in Nat
  BY <1>1, <1>2
<1>4. /\ ArenaSize(k) \in Nat /\ ArenaSize(k) % 8 = 0
      /\ ArenaSize(k) <= CoreSize(k) - shift
      /\ shift = 0 => ArenaSize(k) = CoreSize(k)
  <2>1. ArenaSize(k) = AlignDown(CoreSize(k) - shift)
    BY DEF ArenaSize
  <2> HIDE DEF shift
  <2>2. shift = 0 => CoreSize(k) - shift = CoreSize(k)
    BY <1>1
  <2> QED BY <1>1, <1>3, <2>1, <2>2, AlignDownFacts
<1>5. ArenaBase(k) + ArenaSize(k) <= HEAP_END
  BY <1>1, <1>2, <1>4
<1>6. ASSUME NEW a \in Arena(k)
      PROVE  a \in HEAP_BASE .. HEAP_END - 8
  <2>1. /\ a \in ArenaBase(k) .. ArenaBase(k) + ArenaSize(k) - 1
        /\ (a - ArenaBase(k)) % 8 = 0
    BY DEF Arena, Align
  <2> QED BY <1>1, <1>2, <1>4, <1>5, <2>1
<1>7. HEAP_BASE % 8 = 0 => ArenaBase(k) = CoreBase(k) /\ ArenaSize(k) = CoreSize(k)
  BY <1>1, <1>2, <1>4
<1> QED BY <1>1, <1>2, <1>4, <1>5, <1>6, <1>7

\* Every byte that an arena has lies in one of its granules.
LEMMA GranuleOf ==
  ASSUME NEW k \in 0 .. NumCores - 1, NEW x \in Nat,
         ArenaBase(k) <= x, x < ArenaBase(k) + ArenaSize(k)
  PROVE  \E g \in Arena(k) : g <= x /\ x < g + 8
<1> DEFINE g == x - ((x - ArenaBase(k)) % 8)
<1>1. ArenaBase(k) \in Nat /\ ArenaSize(k) \in Nat
  BY ArenaFacts
<1>2. /\ g \in Nat /\ ArenaBase(k) <= g /\ g <= x /\ x < g + 8
      /\ (g - ArenaBase(k)) % 8 = 0
  BY <1>1
<1> HIDE DEF g
<1>3. g \in Arena(k)
  BY <1>1, <1>2 DEF Arena, Align
<1> QED BY <1>2, <1>3

\* A free block starts at a free granule and ends before the next that is not.
EndsBlock(c, k, a, e) ==
  /\ e \in a + 1 .. ArenaBase(k) + ArenaSize(k)
  /\ (e - ArenaBase(k)) % 8 = 0 /\ e \notin FreeGranules(c, k)
  /\ \A g \in Arena(k) : a <= g /\ g < e => g \in FreeGranules(c, k)

LEMMA BlockIs ==
  ASSUME NEW c \in Clusters, NEW k \in 0 .. NumCores - 1, NEW a \in FreeGranules(c, k)
  PROVE  \E e \in Nat : /\ EndsBlock(c, k, a, e)
                        /\ BlockAt(c, k, a) = [addr |-> a, size |-> e - a]
                        /\ BlockAt(c, k, a) \in Blocks
<1> DEFINE free == FreeGranules(c, k)
           top == ArenaBase(k) + ArenaSize(k)
           Ends == {e \in a + 1 .. top : (e - ArenaBase(k)) % 8 = 0 /\ e \notin free}
<1>1. /\ ArenaBase(k) \in Nat /\ ArenaSize(k) \in Nat /\ ArenaSize(k) % 8 = 0
      /\ HEAP_BASE <= ArenaBase(k) /\ top <= HEAP_END
      /\ HEAP_BASE \in Nat /\ HEAP_END \in Nat
  BY ArenaFacts, DamlAssumption
<1>2. /\ a \in ArenaBase(k) .. top - 1 /\ (a - ArenaBase(k)) % 8 = 0
      /\ free \subseteq Arena(k)
  <2>1. free \subseteq Arena(k)
    BY DEF FreeGranules
  <2>2. a \in Arena(k)
    BY DEF FreeGranules
  <2>3. a \in ArenaBase(k) .. ArenaBase(k) + ArenaSize(k) - 1 /\ (a - ArenaBase(k)) % 8 = 0
    BY <2>2 DEF Arena, Align
  <2> QED BY <1>1, <2>1, <2>3
<1>3. top \in Ends
  <2>1. top \notin Arena(k)
    BY <1>1 DEF Arena
  <2> QED BY <1>1, <1>2, <2>1
<1>4. PICK e \in Ends : \A y \in Ends : e <= y
  <2>1. Ends \subseteq Nat
    BY <1>1, <1>2
  <2> HIDE DEF Ends
  <2> QED BY <1>3, <2>1, LeastNat
<1>5. \A g \in Arena(k) : a <= g /\ g < e => g \in free
  <2> SUFFICES ASSUME NEW g \in Arena(k), a <= g, g < e, g \notin free
               PROVE  FALSE
    OBVIOUS
  <2>1. g \in Nat /\ (g - ArenaBase(k)) % 8 = 0 /\ g # a
    BY <1>1 DEF Arena, Align
  <2>2. g \in Ends
    BY <1>1, <1>2, <1>4, <2>1
  <2> QED BY <1>1, <1>2, <1>4, <2>1, <2>2
<1>6. EndsBlock(c, k, a, e)
  BY <1>4, <1>5 DEF EndsBlock
<1> DEFINE end == CHOOSE x \in a + 1 .. top :
                    /\ (x - ArenaBase(k)) % Align = 0 /\ x \notin free
                    /\ \A g \in Arena(k) : a <= g /\ g < x => g \in free
<1>7. EndsBlock(c, k, a, end)
  BY <1>6 DEF EndsBlock, Align
<1>8. BlockAt(c, k, a) = [addr |-> a, size |-> end - a]
  BY DEF BlockAt
<1> HIDE DEF end
<1>9. end \in Nat /\ a < end /\ end <= top
  BY <1>1, <1>2, <1>7 DEF EndsBlock
<1>10. [addr |-> a, size |-> end - a] \in Blocks
  <2>1. a \in HEAP_BASE .. HEAP_END /\ end - a \in 1 .. HEAP_END - HEAP_BASE
    BY <1>1, <1>2, <1>9
  <2> QED BY <2>1 DEF Blocks
<1> QED BY <1>7, <1>8, <1>9, <1>10

\* Every free granule is in a block that starts at a start of the list.
Starts(c, k) == {a \in FreeGranules(c, k) : a - Align \notin FreeGranules(c, k)}

LEMMA StartOf ==
  ASSUME NEW c \in Clusters, NEW k \in 0 .. NumCores - 1, NEW g \in FreeGranules(c, k)
  PROVE  \E a \in Starts(c, k) : a <= g /\ \A e : EndsBlock(c, k, a, e) => g + 8 <= e
<1> DEFINE free == FreeGranules(c, k)
           base == ArenaBase(k)
           Before == {x \in Arena(k) : x <= g /\ \A y \in Arena(k) : x <= y /\ y <= g => y \in free}
<1>1. /\ base \in Nat /\ ArenaSize(k) \in Nat
      /\ free \subseteq Arena(k) /\ Arena(k) \subseteq Nat
      /\ \A a \in Arena(k) : /\ base <= a /\ a < base + ArenaSize(k) /\ (a - base) % 8 = 0
  <2>1. base \in Nat /\ ArenaSize(k) \in Nat
    BY ArenaFacts
  <2>2. free \subseteq Arena(k)
    BY DEF FreeGranules
  <2>3. \A a \in Arena(k) : a \in base .. base + ArenaSize(k) - 1 /\ (a - base) % 8 = 0
    BY DEF Arena, Align
  <2> QED BY <2>1, <2>2, <2>3
<1>2. g \in Before
  <2>1. g \in Arena(k) /\ g \in Nat
    BY <1>1
  <2>2. \A y \in Arena(k) : g <= y /\ y <= g => y = g
    BY <1>1, <2>1
  <2> QED BY <2>1, <2>2
<1>3. PICK a \in Before : \A x \in Before : a <= x
  <2>1. Before \subseteq Nat
    BY <1>1
  <2> HIDE DEF Before
  <2> QED BY <1>2, <2>1, LeastNat
<1>4. /\ a \in Arena(k) /\ a \in Nat /\ a <= g /\ a \in free /\ g \in Nat
      /\ (a - base) % 8 = 0 /\ (g - base) % 8 = 0 /\ base <= a
      /\ \A y \in Arena(k) : a <= y /\ y <= g => y \in free
  BY <1>1, <1>3
<1>5. a - Align \notin free
  <2> SUFFICES ASSUME a - 8 \in free PROVE FALSE
    BY DEF Align
  <2>1. a - 8 \in Arena(k) /\ a - 8 \in Nat
    BY <1>1
  <2>2. \A y \in Arena(k) : a - 8 <= y /\ y <= g => y \in free
    <3> SUFFICES ASSUME NEW y \in Arena(k), a - 8 <= y, y <= g, y # a - 8 PROVE y \in free
      OBVIOUS
    <3>1. y \in Nat /\ (y - base) % 8 = 0 /\ (a - 8 - base) % 8 = 0 /\ base <= y
      BY <1>1, <2>1
    <3>2. a <= y
      BY <1>1, <1>4, <3>1
    <3> QED BY <1>4, <3>2
  <2>3. a - 8 \in Before
    BY <1>4, <2>1, <2>2
  <2> QED BY <1>3, <1>4, <2>3
<1>6. ASSUME NEW e, EndsBlock(c, k, a, e)
      PROVE  g + 8 <= e
  <2>1. /\ e \in Nat /\ (e - base) % 8 = 0 /\ a < e /\ e <= base + ArenaSize(k)
        /\ e \notin free
    BY <1>1, <1>4, <1>6 DEF EndsBlock
  <2>2. ASSUME e <= g PROVE FALSE
    <3>1. e \in base .. base + ArenaSize(k) - 1
      BY <1>1, <1>4, <2>1, <2>2
    <3>2. e \in Arena(k)
      BY <2>1, <3>1 DEF Arena, Align
    <3> QED BY <1>4, <2>1, <2>2, <3>2
  <2>3. g < e
    BY <1>4, <2>1, <2>2
  <2> QED BY <1>1, <1>4, <2>1, <2>3
<1>7. a \in Starts(c, k)
  BY <1>4, <1>5 DEF Starts
<1> HIDE DEF Before
<1> QED BY <1>4, <1>6, <1>7

\* A block ends before a later one starts.
LEMMA StartsApart ==
  ASSUME NEW c \in Clusters, NEW k \in 0 .. NumCores - 1,
         NEW a \in Starts(c, k), NEW b \in Starts(c, k), a < b,
         NEW e \in Nat, EndsBlock(c, k, a, e)
  PROVE  e <= b
<1>1. /\ a \in Arena(k) /\ b \in Arena(k) /\ b - 8 \notin FreeGranules(c, k)
      /\ ArenaBase(k) \in Nat /\ ArenaSize(k) \in Nat
  BY ArenaFacts DEF Starts, FreeGranules, Align
<1>2. /\ a \in ArenaBase(k) .. ArenaBase(k) + ArenaSize(k) - 1 /\ (a - ArenaBase(k)) % 8 = 0
      /\ b \in ArenaBase(k) .. ArenaBase(k) + ArenaSize(k) - 1 /\ (b - ArenaBase(k)) % 8 = 0
  BY <1>1 DEF Arena, Align
<1>3. b - 8 \in ArenaBase(k) .. ArenaBase(k) + ArenaSize(k) - 1 /\ a <= b - 8
      /\ ((b - 8) - ArenaBase(k)) % 8 = 0
  BY <1>1, <1>2
<1>4. b - 8 \in Arena(k)
  BY <1>3 DEF Arena, Align
<1>5. ~ (b - 8 < e)
  BY <1>1, <1>3, <1>4 DEF EndsBlock
<1>6. (e - ArenaBase(k)) % 8 = 0
  BY DEF EndsBlock
<1> QED BY <1>1, <1>2, <1>5

\* The free list has the free granules in its blocks, lowest first, and nothing
\* else.
LEMMA FreeListIs ==
  ASSUME NEW c \in Clusters, NEW k \in 0 .. NumCores - 1
  PROVE  /\ FreeList(c, k) \in Seq(Blocks)
         /\ \A i \in 1 .. Len(FreeList(c, k)) :
              LET b == FreeList(c, k)[i]
              IN  /\ b.addr \in FreeGranules(c, k)
                  /\ EndsBlock(c, k, b.addr, b.addr + b.size)
         /\ \A g \in FreeGranules(c, k) : \E i \in 1 .. Len(FreeList(c, k)) :
              LET b == FreeList(c, k)[i]
              IN  b.addr <= g /\ g + 8 <= b.addr + b.size
         /\ \A i, j \in 1 .. Len(FreeList(c, k)) : i < j =>
              FreeList(c, k)[i].addr + FreeList(c, k)[i].size <= FreeList(c, k)[j].addr
<1> DEFINE starts == Starts(c, k)
           n == Cardinality(starts)
           order == InOrder(starts)
<1>1. starts \subseteq Nat /\ starts \subseteq FreeGranules(c, k) /\ IsFiniteSet(starts)
  <2>1. starts \subseteq FreeGranules(c, k) /\ FreeGranules(c, k) \subseteq Arena(k)
    BY DEF Starts, FreeGranules
  <2>2. Arena(k) \subseteq HEAP_BASE .. HEAP_END - 8 /\ HEAP_BASE \in Nat /\ HEAP_END \in Nat
    BY ArenaFacts, DamlAssumption
  <2>3. IsFiniteSet(HEAP_BASE .. HEAP_END - 8)
    BY <2>2, FS_Interval
  <2> QED BY <2>1, <2>2, <2>3, FS_Subset
<1>2. /\ n \in Nat /\ order \in [1 .. n -> starts]
      /\ \A x \in starts : \E i \in 1 .. n : order[i] = x
      /\ \A i, j \in 1 .. n : i < j => order[i] < order[j]
  BY <1>1, InOrderIs
<1>3. FreeList(c, k) = [i \in 1 .. n |-> BlockAt(c, k, order[i])]
  <2>1. FreeList(c, k) = [i \in DOMAIN order |-> BlockAt(c, k, order[i])]
    BY DEF FreeList, Starts
  <2> HIDE DEF order
  <2> QED BY <1>2, <2>1
<1> HIDE DEF n, order
<1>4. ASSUME NEW i \in 1 .. n
      PROVE  /\ order[i] \in starts /\ order[i] \in FreeGranules(c, k)
             /\ FreeList(c, k)[i] = BlockAt(c, k, order[i])
             /\ FreeList(c, k)[i] \in Blocks
             /\ FreeList(c, k)[i].addr = order[i]
             /\ EndsBlock(c, k, order[i], order[i] + FreeList(c, k)[i].size)
  <2>1. /\ order[i] \in starts /\ order[i] \in FreeGranules(c, k) /\ order[i] \in Nat
        /\ FreeList(c, k)[i] = BlockAt(c, k, order[i])
    BY <1>1, <1>2, <1>3
  <2>2. PICK e \in Nat : /\ EndsBlock(c, k, order[i], e)
                         /\ BlockAt(c, k, order[i]) = [addr |-> order[i], size |-> e - order[i]]
                         /\ BlockAt(c, k, order[i]) \in Blocks
    BY <2>1, BlockIs
  <2>3. order[i] + (e - order[i]) = e
    BY <2>1, <2>2
  <2> QED BY <2>1, <2>2, <2>3
<1>5. FreeList(c, k) \in Seq(Blocks) /\ Len(FreeList(c, k)) = n
  <2>1. FreeList(c, k) \in [1 .. n -> Blocks]
    BY <1>3, <1>4
  <2> HIDE DEF starts
  <2> QED BY <1>2, <2>1, LenProperties, IsASeq
<1>6. ASSUME NEW g \in FreeGranules(c, k)
      PROVE  \E i \in 1 .. n : FreeList(c, k)[i].addr <= g
                               /\ g + 8 <= FreeList(c, k)[i].addr + FreeList(c, k)[i].size
  <2>1. PICK a \in starts : a <= g /\ \A e : EndsBlock(c, k, a, e) => g + 8 <= e
    BY StartOf
  <2>2. PICK i \in 1 .. n : order[i] = a
    BY <1>2
  <2> QED BY <1>4, <2>1, <2>2
<1>7. ASSUME NEW i \in 1 .. n, NEW j \in 1 .. n, i < j
      PROVE  FreeList(c, k)[i].addr + FreeList(c, k)[i].size <= FreeList(c, k)[j].addr
  <2>1. /\ order[i] \in starts /\ order[j] \in starts /\ order[i] < order[j]
        /\ EndsBlock(c, k, order[i], order[i] + FreeList(c, k)[i].size)
        /\ FreeList(c, k)[i].addr = order[i] /\ FreeList(c, k)[j].addr = order[j]
    BY <1>2, <1>4, <1>7
  <2>2. order[i] + FreeList(c, k)[i].size \in Nat
    <3>1. order[i] \in Nat /\ FreeList(c, k)[i].size \in Nat
      BY <1>1, <1>4, DamlAssumption DEF Blocks
    <3> QED BY <3>1
  <2> QED BY <2>1, <2>2, StartsApart
<1> QED BY <1>4, <1>5, <1>6, <1>7

-----------------------------------------------------------------------------
(* Slots and ranges of them. *)

LEMMA SlotFacts ==
  /\ L1_SLOT_COUNT \in Nat /\ Slots \subseteq Nat
  /\ SLOT_SIZE \in Nat \ {0} /\ HEAP_BASE \in Nat /\ HEAP_END \in Nat
  /\ L1_SLOT_COUNT * SLOT_SIZE <= HEAP_END - HEAP_BASE
  /\ \A s \in Slots : s < L1_SLOT_COUNT
                      /\ HEAP_BASE + s * SLOT_SIZE + SLOT_SIZE <= HEAP_END
<1>1. /\ SLOT_SIZE \in Nat \ {0} /\ HEAP_BASE \in Nat /\ HEAP_END \in Nat
      /\ HEAP_END - HEAP_BASE \in Nat
  BY DamlAssumption
<1>2. L1_SLOT_COUNT \in Nat /\ L1_SLOT_COUNT * SLOT_SIZE <= HEAP_END - HEAP_BASE
  BY <1>1, Quotient DEF L1_SLOT_COUNT
<1>3. ASSUME NEW s \in Slots
      PROVE  /\ s \in Nat /\ s < L1_SLOT_COUNT
             /\ HEAP_BASE + s * SLOT_SIZE + SLOT_SIZE <= HEAP_END
  <2>1. s \in Nat /\ s < L1_SLOT_COUNT
    BY <1>2 DEF Slots
  <2>2. /\ s * SLOT_SIZE \in Nat /\ L1_SLOT_COUNT * SLOT_SIZE \in Nat
        /\ s * SLOT_SIZE + SLOT_SIZE <= L1_SLOT_COUNT * SLOT_SIZE
    BY <1>1, <1>2, <2>1, Times
  <2> QED BY <1>1, <1>2, <2>1, <2>2
<1> QED BY <1>1, <1>2, <1>3

\* Where a slot starts, and where the next one does.
LEMMA SlotStarts ==
  ASSUME NEW s \in Slots
  PROVE  HEAP_BASE + s * SLOT_SIZE \in Nat /\ HEAP_BASE + (s + 1) * SLOT_SIZE \in Nat
<1>1. s \in Nat /\ SLOT_SIZE \in Nat /\ HEAP_BASE \in Nat
  BY SlotFacts
<1>2. s * SLOT_SIZE \in Nat /\ (s + 1) * SLOT_SIZE = s * SLOT_SIZE + SLOT_SIZE
  BY <1>1, Times
<1> DEFINE offset == s * SLOT_SIZE
<1>3. offset \in Nat
  BY <1>2
<1>4. (s + 1) * SLOT_SIZE = offset + SLOT_SIZE
  BY <1>2
<1> HIDE DEF offset
<1>5. offset + SLOT_SIZE \in Nat /\ HEAP_BASE + offset \in Nat
      /\ HEAP_BASE + (offset + SLOT_SIZE) \in Nat
  BY <1>1, <1>3
<1>6. HEAP_BASE + s * SLOT_SIZE \in Nat
  BY <1>5 DEF offset
<1>7. HEAP_BASE + (s + 1) * SLOT_SIZE \in Nat
  BY <1>4, <1>5
<1> QED BY <1>6, <1>7

\* The slots of a block are those it has a byte in.
LEMMA SlotsOfIs ==
  ASSUME NEW b \in Blocks, NEW s \in Slots
  PROVE  s \in SlotsOf(b) <=> /\ b.addr < HEAP_BASE + (s + 1) * SLOT_SIZE
                              /\ HEAP_BASE + s * SLOT_SIZE < b.addr + b.size
<1>1. /\ b.addr \in Nat /\ b.size \in Nat /\ HEAP_BASE <= b.addr
      /\ SLOT_SIZE \in Nat \ {0} /\ HEAP_BASE \in Nat /\ s \in Nat
  BY SlotFacts DEF Blocks
<1>2. /\ b.addr - HEAP_BASE \in Nat
      /\ b.addr + b.size - HEAP_BASE \in Nat
      /\ b.addr + b.size - HEAP_BASE + SLOT_SIZE - 1
           = (b.addr + b.size - HEAP_BASE) + SLOT_SIZE - 1
      /\ s * SLOT_SIZE \in Nat /\ (s + 1) * SLOT_SIZE \in Nat
  BY <1>1, Times
<1>3. (b.addr - HEAP_BASE) \div SLOT_SIZE <= s <=> b.addr - HEAP_BASE < (s + 1) * SLOT_SIZE
  BY <1>1, <1>2, QuotientBounds
<1>4. s < (b.addr + b.size - HEAP_BASE + SLOT_SIZE - 1) \div SLOT_SIZE
        <=> s * SLOT_SIZE < b.addr + b.size - HEAP_BASE
  BY <1>1, <1>2, QuotientBounds
<1> QED BY <1>1, <1>2, <1>3, <1>4 DEF SlotsOf

EndsRun(B, s, e) ==
  /\ e \in s + 1 .. L1_SLOT_COUNT /\ e \notin B
  /\ \A t \in s .. e - 1 : t \in B

RangeOf(s, e) == [addr |-> HEAP_BASE + s * SLOT_SIZE, size |-> (e - s) * SLOT_SIZE]

LEMMA RunIs ==
  ASSUME NEW B, B \subseteq Slots, NEW s \in B
  PROVE  \E e : EndsRun(B, s, e)
<1> DEFINE Ends == {e \in s + 1 .. L1_SLOT_COUNT : e \notin B}
<1>1. s \in Nat /\ s < L1_SLOT_COUNT /\ L1_SLOT_COUNT \in Nat
  BY SlotFacts
<1>2. L1_SLOT_COUNT \in Ends
  BY <1>1, SlotFacts
<1>3. PICK e \in Ends : \A y \in Ends : e <= y
  <2>1. Ends \subseteq Nat
    BY <1>1
  <2> HIDE DEF Ends
  <2> QED BY <1>2, <2>1, LeastNat
<1>4. \A t \in s .. e - 1 : t \in B
  <2> SUFFICES ASSUME NEW t \in s .. e - 1, t \notin B PROVE FALSE
    OBVIOUS
  <2>1. t \in Ends
    BY <1>1, <1>3
  <2> QED BY <1>1, <1>3, <2>1
<1> QED BY <1>3, <1>4 DEF EndsRun

LEMMA RangeTyped ==
  ASSUME NEW B, B \subseteq Slots, NEW s \in B, NEW e, EndsRun(B, s, e)
  PROVE  RangeOf(s, e) \in Blocks
<1>1. /\ s \in Nat /\ e \in Nat /\ s < e /\ e <= L1_SLOT_COUNT
      /\ L1_SLOT_COUNT \in Nat /\ SLOT_SIZE \in Nat \ {0}
  BY SlotFacts DEF EndsRun
<1>2. /\ s * SLOT_SIZE \in Nat /\ e * SLOT_SIZE \in Nat /\ L1_SLOT_COUNT * SLOT_SIZE \in Nat
      /\ s * SLOT_SIZE + SLOT_SIZE <= e * SLOT_SIZE
      /\ e * SLOT_SIZE <= L1_SLOT_COUNT * SLOT_SIZE
      /\ (e - s) * SLOT_SIZE = e * SLOT_SIZE - s * SLOT_SIZE
  BY <1>1, Times
<1>3. /\ HEAP_BASE + s * SLOT_SIZE \in HEAP_BASE .. HEAP_END
      /\ (e - s) * SLOT_SIZE \in 1 .. HEAP_END - HEAP_BASE
  <2>1. (e - s) * SLOT_SIZE \in Int
    BY <1>1
  <2> QED BY <1>1, <1>2, <2>1, SlotFacts
<1> QED BY <1>3 DEF RangeOf, Blocks

\* Every slot of the bitmap is in a run that starts at a start.
RunStarts(B) == {s \in B : s = 0 \/ s - 1 \notin B}

LEMMA RunStartOf ==
  ASSUME NEW B, B \subseteq Slots, NEW t \in B
  PROVE  \E s \in RunStarts(B) : s <= t /\ \A e : EndsRun(B, s, e) => t < e
<1> DEFINE Before == {x \in B : x <= t /\ \A y \in x .. t : y \in B}
<1>1. B \subseteq Nat
  BY SlotFacts
<1>2. t \in Before
  BY <1>1
<1>3. PICK s \in Before : \A x \in Before : s <= x
  <2>1. Before \subseteq Nat
    BY <1>1
  <2> HIDE DEF Before
  <2> QED BY <1>2, <2>1, LeastNat
<1>4. s \in B /\ s \in Nat /\ t \in Nat /\ s <= t /\ \A y \in s .. t : y \in B
  BY <1>1, <1>3
<1>5. s = 0 \/ s - 1 \notin B
  <2> SUFFICES ASSUME s # 0, s - 1 \in B PROVE FALSE
    OBVIOUS
  <2>1. \A y \in s - 1 .. t : y = s - 1 \/ y \in s .. t
    BY <1>4
  <2>2. s - 1 \in Before
    BY <1>4, <2>1
  <2> QED BY <1>3, <1>4, <2>2
<1>6. ASSUME NEW e, EndsRun(B, s, e), ~ (t < e) PROVE FALSE
  <2>1. e \in Nat /\ s < e /\ e \notin B
    BY <1>1, <1>4, <1>6, SlotFacts DEF EndsRun
  <2>2. e \in s .. t
    BY <1>4, <1>6, <2>1
  <2> QED BY <1>4, <2>1, <2>2
<1> HIDE DEF Before
<1> QED BY <1>4, <1>5, <1>6 DEF RunStarts

\* The ranges are runs of the bitmap, and a run that is missing comes after a
\* full table of others.
LEMMA RangesAre ==
  ASSUME NEW B, B \subseteq Slots
  PROVE  /\ ToRanges(B) \in Seq(Blocks)
         /\ \A i \in 1 .. Len(ToRanges(B)) : \E s \in B, e \in Nat :
              EndsRun(B, s, e) /\ ToRanges(B)[i] = RangeOf(s, e)
         /\ \A t \in B :
              \/ \E i \in 1 .. Len(ToRanges(B)) : \E s, e \in Nat :
                   s <= t /\ t < e /\ ToRanges(B)[i] = RangeOf(s, e)
              \/ /\ Len(ToRanges(B)) = MAX_COMMON_BLOCKS
                 /\ \A i \in 1 .. Len(ToRanges(B)) : \E s, e \in Nat :
                      s <= e /\ e <= t /\ ToRanges(B)[i] = RangeOf(s, e)
<1> DEFINE starts == RunStarts(B)
           n == Cardinality(starts)
           order == InOrder(starts)
           end(s) == CHOOSE e \in s + 1 .. L1_SLOT_COUNT :
                       e \notin B /\ \A t \in s .. e - 1 : t \in B
           shown == Shown(n)
<1>1. starts \subseteq Nat /\ starts \subseteq B /\ IsFiniteSet(starts)
  <2>1. starts \subseteq B /\ starts \subseteq 0 .. L1_SLOT_COUNT - 1 /\ starts \subseteq Nat
    BY SlotFacts DEF RunStarts, Slots
  <2>2. IsFiniteSet(0 .. L1_SLOT_COUNT - 1)
    BY SlotFacts, FS_Interval
  <2> QED BY <2>1, <2>2, FS_Subset
<1>2. /\ n \in Nat /\ order \in [1 .. n -> starts]
      /\ \A x \in starts : \E i \in 1 .. n : order[i] = x
      /\ \A i, j \in 1 .. n : i < j => order[i] < order[j]
  BY <1>1, InOrderIs
<1>3. Len(order) = n
  <2> HIDE DEF n, order, starts
  <2> QED BY <1>2, LenProperties, IsASeq
<1>4. MAX_COMMON_BLOCKS \in Nat
  BY DamlAssumption
<1>5. shown \in Nat /\ shown <= n /\ (shown # MAX_COMMON_BLOCKS => shown = n)
  BY <1>2, <1>4 DEF Shown
<1>6. ToRanges(B) = [i \in 1 .. shown |-> RangeOf(order[i], end(order[i]))]
  BY <1>3 DEF ToRanges, RunStarts, RangeOf
<1>7. ASSUME NEW s \in starts PROVE end(s) \in Nat /\ EndsRun(B, s, end(s))
  <2>1. \E e : EndsRun(B, s, e)
    BY <1>1, RunIs
  <2>2. EndsRun(B, s, end(s))
    BY <2>1 DEF EndsRun
  <2> HIDE DEF end
  <2> QED BY <1>1, <2>2, SlotFacts DEF EndsRun
<1> HIDE DEF n, order, end, shown
<1>8. ASSUME NEW i \in 1 .. shown
      PROVE  /\ order[i] \in starts /\ order[i] \in B
             /\ ToRanges(B)[i] = RangeOf(order[i], end(order[i]))
             /\ ToRanges(B)[i] \in Blocks
             /\ end(order[i]) \in Nat /\ EndsRun(B, order[i], end(order[i]))
  <2>1. i \in 1 .. n
    BY <1>2, <1>5
  <2>2. order[i] \in starts /\ order[i] \in B
    BY <1>1, <1>2, <2>1
  <2> QED BY <1>6, <1>7, <2>2, RangeTyped
<1>9. ToRanges(B) \in Seq(Blocks) /\ Len(ToRanges(B)) = shown
  <2>1. ToRanges(B) \in [1 .. shown -> Blocks]
    BY <1>6, <1>8
  <2> HIDE DEF starts
  <2> QED BY <1>5, <2>1, LenProperties, IsASeq
<1>10. ASSUME NEW i \in 1 .. shown, NEW s \in starts, order[i] < s
       PROVE  end(order[i]) <= s
  <2>1. /\ order[i] \in Nat /\ s \in Nat /\ s - 1 \notin B
        /\ end(order[i]) \in Nat /\ EndsRun(B, order[i], end(order[i]))
    BY <1>1, <1>8, <1>10 DEF RunStarts
  <2>2. ~ (s - 1 \in order[i] .. end(order[i]) - 1)
    BY <2>1 DEF EndsRun
  <2> QED BY <1>10, <2>1, <2>2
<1>11. ASSUME NEW t \in B
       PROVE  \/ \E i \in 1 .. shown : \E s, e \in Nat :
                   s <= t /\ t < e /\ ToRanges(B)[i] = RangeOf(s, e)
              \/ /\ shown = MAX_COMMON_BLOCKS
                 /\ \A i \in 1 .. shown : \E s, e \in Nat :
                      s <= e /\ e <= t /\ ToRanges(B)[i] = RangeOf(s, e)
  <2>1. PICK s \in starts : s <= t /\ \A e : EndsRun(B, s, e) => t < e
    BY RunStartOf
  <2>2. PICK j \in 1 .. n : order[j] = s
    BY <1>2
  <2>3. CASE j <= shown
    <3>1. j \in 1 .. shown
      BY <1>2, <1>5, <2>2, <2>3
    <3>2. s \in Nat /\ end(s) \in Nat /\ t < end(s) /\ ToRanges(B)[j] = RangeOf(s, end(s))
      BY <1>1, <1>8, <2>1, <2>2, <3>1
    <3> QED BY <2>1, <3>1, <3>2
  <2>4. CASE shown < j
    <3>1. shown = MAX_COMMON_BLOCKS
      BY <1>2, <1>5, <2>2, <2>4
    <3>2. ASSUME NEW i \in 1 .. shown
          PROVE  \E f, e \in Nat : f <= e /\ e <= t /\ ToRanges(B)[i] = RangeOf(f, e)
      <4>1. i \in 1 .. n /\ i < j
        BY <1>2, <1>5, <2>2, <2>4, <3>2
      <4>2. order[i] < s /\ order[i] \in Nat /\ s \in Nat /\ t \in Nat
        BY <1>1, <1>2, <1>8, <2>1, <2>2, <3>2, <4>1, SlotFacts
      <4>3. end(order[i]) \in Nat /\ order[i] < end(order[i])
        BY <1>8, <3>2, <4>2, SlotFacts DEF EndsRun
      <4>4. end(order[i]) <= s
        BY <1>10, <3>2, <4>2
      <4>5. ToRanges(B)[i] = RangeOf(order[i], end(order[i]))
        BY <1>8, <3>2
      <4> QED BY <2>1, <4>2, <4>3, <4>4, <4>5
    <3> QED BY <3>1, <3>2
  <2> QED BY <1>2, <1>5, <2>2, <2>3, <2>4
<1> QED BY <1>8, <1>9, <1>11

-----------------------------------------------------------------------------
(* Blocks, granules and slots. *)

\* A free block that has a byte in a slot has a free granule there.
LEMMA BlockMeetsSlot ==
  ASSUME NEW c \in Clusters, NEW k \in 0 .. NumCores - 1, NEW b \in Blocks,
         b.addr \in FreeGranules(c, k), EndsBlock(c, k, b.addr, b.addr + b.size),
         NEW s \in Slots, s \in SlotsOf(b)
  PROVE  Granules(s) \ used[c] # {}
<1> DEFINE low == HEAP_BASE + s * SLOT_SIZE
           x == IF b.addr <= low THEN low ELSE b.addr
           end == b.addr + b.size
<1>1. /\ ArenaBase(k) \in Nat /\ ArenaSize(k) \in Nat /\ b.addr \in Nat /\ b.size \in Nat
      /\ low \in Nat /\ HEAP_BASE + (s + 1) * SLOT_SIZE \in Nat
      /\ low < HEAP_BASE + (s + 1) * SLOT_SIZE
  <2>1. /\ s \in Nat /\ SLOT_SIZE \in Nat \ {0} /\ HEAP_BASE \in Nat
        /\ s * SLOT_SIZE \in Nat /\ (s + 1) * SLOT_SIZE = s * SLOT_SIZE + SLOT_SIZE
    BY SlotFacts, Times
  <2> QED BY <2>1, ArenaFacts DEF Blocks
<1>2. b.addr < HEAP_BASE + (s + 1) * SLOT_SIZE /\ low < end
  BY SlotsOfIs
<1>3. /\ b.addr \in Arena(k) /\ ArenaBase(k) <= b.addr /\ (b.addr - ArenaBase(k)) % 8 = 0
  <2>1. b.addr \in Arena(k)
    BY DEF FreeGranules
  <2>2. b.addr \in ArenaBase(k) .. ArenaBase(k) + ArenaSize(k) - 1
        /\ (b.addr - ArenaBase(k)) % 8 = 0
    BY <2>1 DEF Arena, Align
  <2> QED BY <1>1, <2>1, <2>2
<1>4. /\ b.addr < end /\ end <= ArenaBase(k) + ArenaSize(k)
      /\ \A g \in Arena(k) : b.addr <= g /\ g < end => g \in FreeGranules(c, k)
  BY <1>1 DEF EndsBlock
<1>5. /\ x \in Nat /\ b.addr <= x /\ low <= x /\ x < end
      /\ x < HEAP_BASE + (s + 1) * SLOT_SIZE
  BY <1>1, <1>2, <1>4
<1> HIDE DEF x, low, end
<1>6. PICK g \in Arena(k) : g <= x /\ x < g + 8
  <2>1. ArenaBase(k) <= x /\ x < ArenaBase(k) + ArenaSize(k)
    BY <1>1, <1>3, <1>4, <1>5 DEF end
  <2> QED BY <1>5, <2>1, GranuleOf
<1>7. g \in Nat /\ (g - ArenaBase(k)) % 8 = 0 /\ ArenaBase(k) <= g
  <2>1. g \in ArenaBase(k) .. ArenaBase(k) + ArenaSize(k) - 1 /\ (g - ArenaBase(k)) % 8 = 0
    BY DEF Arena, Align
  <2> QED BY <1>1, <2>1
<1>8. b.addr <= g
  BY <1>1, <1>3, <1>5, <1>6, <1>7
<1>9. g \in FreeGranules(c, k)
  BY <1>1, <1>4, <1>5, <1>6, <1>7, <1>8 DEF end
<1>10. g \in Granules(s)
  <2>1. HEAP_BASE + s * SLOT_SIZE < g + 8 /\ g < HEAP_BASE + (s + 1) * SLOT_SIZE
    BY <1>1, <1>5, <1>6, <1>7 DEF low
  <2> QED BY <2>1 DEF Granules, Align
<1> QED BY <1>9, <1>10 DEF FreeGranules

\* In an aligned heap every slot starts in a granule of an arena.
LEMMA SlotHasGranule ==
  ASSUME HeapAligned, NEW s \in Slots
  PROVE  \E k \in 0 .. NumCores - 1 : \E g \in Arena(k) :
           StartsIn(s, k) /\ g \in Granules(s) /\ g <= HEAP_BASE + s * SLOT_SIZE
<1> DEFINE x == HEAP_BASE + s * SLOT_SIZE
           last == NumCores - 1
<1>1. /\ s \in Nat /\ SLOT_SIZE \in Nat /\ 8 <= SLOT_SIZE
      /\ HEAP_BASE \in Nat /\ HEAP_END \in Nat /\ s * SLOT_SIZE \in Nat
      /\ x \in Nat /\ x + SLOT_SIZE <= HEAP_END /\ HEAP_BASE <= x
      /\ HEAP_BASE + (s + 1) * SLOT_SIZE = x + SLOT_SIZE
  <2>1. s * SLOT_SIZE \in Nat /\ (s + 1) * SLOT_SIZE = s * SLOT_SIZE + SLOT_SIZE
    BY SlotFacts, Times
  <2>2. 8 <= SLOT_SIZE
    BY DEF HeapAligned, Align
  <2> QED BY <2>1, <2>2, SlotFacts
<1>2. NumCores \in Nat \ {0} /\ last \in 0 .. NumCores - 1
  BY DamlAssumption
<1>3. \E k \in 0 .. NumCores - 1 : CoreBase(k) <= x /\ x < CoreBase(k) + CoreSize(k)
  <2>1. CASE CoreBase(last) <= x
    <3>1. CoreSize(last) = AlignDown(HEAP_END - CoreBase(last))
      BY DEF CoreSize
    <3>2. CoreBase(last) \in Nat /\ HEAP_END - CoreBase(last) \in Nat
      BY <1>1, <1>2, <2>1, CoreFacts
    <3>3. HEAP_END - CoreBase(last) <= CoreSize(last) + 7 /\ CoreSize(last) \in Nat
      BY <3>1, <3>2, AlignDownFacts
    <3>4. x < CoreBase(last) + CoreSize(last)
      BY <1>1, <3>2, <3>3
    <3> QED BY <1>2, <2>1, <3>4
  <2>2. CASE ~ (CoreBase(last) <= x)
    <3> DEFINE y == x - HEAP_BASE
               k == y \div Share
    <3>1. /\ Share \in Nat /\ last \in Nat /\ CoreBase(last) = HEAP_BASE + last * Share
          /\ last * Share \in Nat
      <4>1. Share \in Nat /\ last \in Nat
        BY <1>2, CoreFacts
      <4> QED BY <4>1, Times DEF CoreBase
    <3>2. y \in Nat /\ y < last * Share
      BY <1>1, <2>2, <3>1
    <3>3. Share # 0
      BY <3>1, <3>2
    <3>4. k \in Nat /\ k * Share \in Nat /\ k * Share <= y /\ y < k * Share + Share
      BY <3>1, <3>2, <3>3, Quotient
    <3> HIDE DEF k, y
    <3>5. k < last
      <4>1. last <= k => last * Share <= k * Share
        BY <3>1, <3>4, Times
      <4> QED BY <3>1, <3>2, <3>4, <4>1
    <3>6. k \in 0 .. NumCores - 1 /\ CoreSize(k) = Share /\ CoreBase(k) = HEAP_BASE + k * Share
      BY <1>2, <3>4, <3>5 DEF CoreSize, CoreBase
    <3>7. CoreBase(k) <= x /\ x < CoreBase(k) + CoreSize(k)
      BY <1>1, <3>1, <3>4, <3>6 DEF y
    <3> QED BY <3>6, <3>7
  <2> QED BY <2>1, <2>2
<1>4. PICK k \in 0 .. NumCores - 1 : ArenaBase(k) <= x /\ x < ArenaBase(k) + ArenaSize(k)
  BY <1>3, ArenaFacts DEF HeapAligned, Align
<1>5. StartsIn(s, k)
  <2>1. ArenaBase(k) \in Nat /\ ArenaSize(k) \in Nat
    BY ArenaFacts
  <2> QED BY <1>1, <1>4, <2>1 DEF StartsIn
<1> HIDE DEF x
<1>6. PICK g \in Arena(k) : g <= x /\ x < g + 8
  BY <1>1, <1>4, GranuleOf
<1>7. g \in Nat
  BY <1>1, ArenaFacts
<1>8. g \in Granules(s)
  <2>1. HEAP_BASE + s * SLOT_SIZE < g + 8 /\ g < HEAP_BASE + (s + 1) * SLOT_SIZE
    BY <1>1, <1>6, <1>7 DEF x
  <2> QED BY <2>1 DEF Granules, Align
<1> QED BY <1>6, <1>8, <1>5 DEF x

\* A free granule of a slot is in a block of the list that has that slot.
LEMMA GranuleMeetsBlock ==
  ASSUME NEW c \in Clusters, NEW k \in 0 .. NumCores - 1, NEW s \in Slots,
         NEW g \in Granules(s), g \in FreeGranules(c, k)
  PROVE  \E i \in 1 .. Len(FreeList(c, k)) :
           s \in SlotsOf(FreeList(c, k)[i]) /\ FreeList(c, k)[i].addr <= g
<1>1. PICK i \in 1 .. Len(FreeList(c, k)) :
        /\ FreeList(c, k)[i].addr <= g
        /\ g + 8 <= FreeList(c, k)[i].addr + FreeList(c, k)[i].size
  BY FreeListIs
<1> DEFINE b == FreeList(c, k)[i]
<1>2. b \in Blocks
  BY FreeListIs, ElementOfSeq
<1>3. /\ HEAP_BASE + s * SLOT_SIZE < g + 8 /\ g < HEAP_BASE + (s + 1) * SLOT_SIZE
      /\ g \in Arena(k)
  BY DEF Granules, Align, FreeGranules
<1>4. /\ g \in Nat /\ HEAP_BASE + s * SLOT_SIZE \in Nat /\ HEAP_BASE + (s + 1) * SLOT_SIZE \in Nat
      /\ b.addr \in Nat /\ b.size \in Nat
  <2>1. g \in Nat
    BY <1>3, ArenaFacts, DamlAssumption
  <2>2. b.addr \in Nat /\ b.size \in Nat
    BY <1>2, DamlAssumption DEF Blocks
  <2> QED BY <2>1, <2>2, SlotStarts
<1>5. b.addr < HEAP_BASE + (s + 1) * SLOT_SIZE /\ HEAP_BASE + s * SLOT_SIZE < b.addr + b.size
  BY <1>1, <1>3, <1>4
<1>6. s \in SlotsOf(b)
  BY <1>2, <1>5, SlotsOfIs
<1> QED BY <1>1, <1>6

-----------------------------------------------------------------------------
(* The tables when the program is over. *)

LEMMA UploadedIs ==
  ASSUME NEW c \in Clusters, NEW k \in 0 .. NumCores - 1,
         NEW table \in Seq(Blocks), IsUploaded(table, c, k)
  PROVE  /\ Entries(table) = {table[i] : i \in 1 .. Len(table)}
         /\ Len(table) \in Nat /\ Len(table) <= Len(FreeList(c, k))
         /\ \A i \in 1 .. Len(table) : table[i] = FreeList(c, k)[i]
<1>1. FreeList(c, k) \in Seq(Blocks)
  BY FreeListIs
<1>2. Len(table) \in Nat /\ DOMAIN table = 1 .. Len(table) /\ Len(FreeList(c, k)) \in Nat
  BY <1>1, LenProperties
<1>3. Len(table) <= Len(FreeList(c, k)) /\ table = SubSeq(FreeList(c, k), 1, Len(table))
  BY DEF IsUploaded
<1>4. ASSUME NEW i \in 1 .. Len(table) PROVE table[i] = FreeList(c, k)[i]
  <2> DEFINE n == Len(table)
  <2>1. n \in 0 .. Len(FreeList(c, k)) /\ i \in 1 .. n
    BY <1>2, <1>3
  <2> HIDE DEF n
  <2>2. SubSeq(FreeList(c, k), 1, n)[i] = FreeList(c, k)[i]
    BY <1>1, <1>2, <2>1, SubSeqProperties
  <2> QED BY <1>3, <2>2 DEF n
<1> QED BY <1>2, <1>3, <1>4 DEF Entries

\* The tables of the first three loops are as built when the last one is over.
LEMMA Finished ==
  ASSUME IInv, phase = "finished"
  PROVE  /\ g_hbm_system_common = ToRanges(InAllClusters)
         /\ \A c \in Clusters :
              g_cluster_free_bitmap[c] =
                UNION {g_core_free_bitmap[<<c, k>>] : k \in 0 .. NumCores - 1}
         /\ \A c \in Clusters, k \in 0 .. NumCores - 1 :
              /\ g_core_free_bitmap[<<c, k>>] =
                   UNION {SlotsOf(b) : b \in Entries(g_hbm_core_free[<<c, k>>])}
              /\ g_hbm_core_free[<<c, k>>] \in Seq(Blocks)
              /\ IsUploaded(g_hbm_core_free[<<c, k>>], c, k)
<1>1. \A loop \in {"upload", "core", "cluster", "system"} : \A t : Done(loop, t)
  BY DEF Done, Later
<1>2. \A o \in Owners :
        /\ IsUploaded(g_hbm_core_free[o], o[1], o[2])
        /\ g_core_free_bitmap[o] = UNION {SlotsOf(b) : b \in Entries(g_hbm_core_free[o])}
        /\ g_hbm_core_free[o] \in Seq(Blocks)
  BY <1>1 DEF IInv, TablesBuilt, TablesTyped
<1>3. \A c \in Clusters, k \in 0 .. NumCores - 1 :
        <<c, k>> \in Owners /\ <<c, k>>[1] = c /\ <<c, k>>[2] = k
  BY DEF Owners
<1>4. /\ \A c \in Clusters :
           g_cluster_free_bitmap[c] =
             UNION {g_core_free_bitmap[<<c, k>>] : k \in 0 .. NumCores - 1}
      /\ g_hbm_system_common = ToRanges(InAllClusters)
  BY <1>1 DEF IInv, TablesBuilt
<1>5. ASSUME NEW c \in Clusters, NEW k \in 0 .. NumCores - 1
      PROVE  /\ g_core_free_bitmap[<<c, k>>] =
                  UNION {SlotsOf(b) : b \in Entries(g_hbm_core_free[<<c, k>>])}
             /\ g_hbm_core_free[<<c, k>>] \in Seq(Blocks)
             /\ IsUploaded(g_hbm_core_free[<<c, k>>], c, k)
  BY <1>2, <1>3
<1> QED BY <1>4, <1>5

\* A slot of the ranges is one that every cluster had marked.
LEMMA FoundIsMarked ==
  ASSUME IInv, phase = "finished", NEW s \in Slots, InRanges(s)
  PROVE  s \in InAllClusters
<1> DEFINE ranges == ToRanges(InAllClusters)
<1>1. InAllClusters \subseteq Slots
  BY DEF InAllClusters
<1>2. /\ ranges \in Seq(Blocks) /\ DOMAIN ranges = 1 .. Len(ranges)
      /\ \A i \in 1 .. Len(ranges) : \E f \in InAllClusters, e \in Nat :
           EndsRun(InAllClusters, f, e) /\ ranges[i] = RangeOf(f, e)
  BY <1>1, RangesAre, LenProperties
<1>3. PICK r \in Entries(ranges) : /\ r.addr <= HEAP_BASE + s * SLOT_SIZE
                                   /\ HEAP_BASE + (s + 1) * SLOT_SIZE <= r.addr + r.size
  BY Finished DEF InRanges
<1>4. PICK f \in InAllClusters, e \in Nat : EndsRun(InAllClusters, f, e) /\ r = RangeOf(f, e)
  BY <1>2, <1>3 DEF Entries
<1>5. /\ f \in Nat /\ s \in Nat /\ SLOT_SIZE \in Nat \ {0} /\ HEAP_BASE \in Nat
      /\ f < e
  BY <1>1, <1>4, SlotFacts DEF EndsRun
<1>6. /\ f * SLOT_SIZE \in Nat /\ s * SLOT_SIZE \in Nat /\ e * SLOT_SIZE \in Nat
      /\ (s + 1) * SLOT_SIZE = s * SLOT_SIZE + SLOT_SIZE
      /\ (e - f) * SLOT_SIZE = e * SLOT_SIZE - f * SLOT_SIZE
      /\ s < f => s * SLOT_SIZE + SLOT_SIZE <= f * SLOT_SIZE
      /\ e <= s => e * SLOT_SIZE <= s * SLOT_SIZE
  BY <1>5, Times
<1>7. /\ HEAP_BASE + f * SLOT_SIZE <= HEAP_BASE + s * SLOT_SIZE
      /\ HEAP_BASE + (s + 1) * SLOT_SIZE <=
           HEAP_BASE + f * SLOT_SIZE + (e - f) * SLOT_SIZE
  <2>1. r.addr = HEAP_BASE + f * SLOT_SIZE /\ r.size = (e - f) * SLOT_SIZE
    BY <1>4 DEF RangeOf
  <2> QED BY <1>3, <2>1
<1>8. f <= s /\ s < e
  BY <1>5, <1>6, <1>7
<1> QED BY <1>4, <1>5, <1>8 DEF EndsRun

LEMMA MarkedHasSpace ==
  ASSUME IInv, phase = "finished", NEW s \in Slots, s \in InAllClusters, NEW c \in Clusters
  PROVE  Granules(s) \ used[c] # {}
<1>1. PICK k \in 0 .. NumCores - 1 : s \in g_core_free_bitmap[<<c, k>>]
  <2>1. s \in g_cluster_free_bitmap[c]
    BY DEF InAllClusters
  <2>2. s \in UNION {g_core_free_bitmap[<<c, k>>] : k \in 0 .. NumCores - 1}
    BY <2>1, Finished
  <2> QED BY <2>2
<1> DEFINE table == g_hbm_core_free[<<c, k>>]
<1>2. PICK i \in 1 .. Len(table) : s \in SlotsOf(table[i])
  <2>1. PICK b \in Entries(table) : s \in SlotsOf(b)
    BY <1>1, Finished
  <2> QED BY <2>1, Finished, UploadedIs
<1>3. /\ table[i] = FreeList(c, k)[i] /\ i \in 1 .. Len(FreeList(c, k))
  <2>1. /\ FreeList(c, k) \in Seq(Blocks) /\ Len(FreeList(c, k)) \in Nat
        /\ Len(table) \in Nat /\ Len(table) <= Len(FreeList(c, k))
        /\ table[i] = FreeList(c, k)[i]
    BY Finished, UploadedIs, FreeListIs, LenProperties
  <2> QED BY <2>1
<1> DEFINE b == FreeList(c, k)[i]
<1>4. b \in Blocks
  BY <1>3, FreeListIs, ElementOfSeq
<1>5. b.addr \in FreeGranules(c, k) /\ EndsBlock(c, k, b.addr, b.addr + b.size)
  BY <1>3, FreeListIs
<1> QED BY <1>2, <1>3, <1>4, <1>5, BlockMeetsSlot

\* A slot that is free is marked, unless the table of a core in whose arena it
\* starts ended before.
LEMMA FreeIsMarked ==
  ASSUME IInv, phase = "finished", HeapAligned,
         NEW s \in Slots, \A c \in Clusters : Granules(s) \cap used[c] = {},
         ~ \E o \in Owners : /\ StartsIn(s, o[2])
                             /\ FullBefore(g_hbm_core_free[o], MAX_FREE_BLOCKS_PER_CORE, s)
  PROVE  s \in InAllClusters
<1> SUFFICES ASSUME NEW c \in Clusters PROVE s \in g_cluster_free_bitmap[c]
  BY DEF InAllClusters
<1> DEFINE low == HEAP_BASE + s * SLOT_SIZE
<1>1. PICK k \in 0 .. NumCores - 1 : \E g \in Arena(k) :
        StartsIn(s, k) /\ g \in Granules(s) /\ g <= low
  BY SlotHasGranule
<1>2. PICK g \in Arena(k) : StartsIn(s, k) /\ g \in Granules(s) /\ g <= low
  BY <1>1
<1>3. g \in FreeGranules(c, k)
  BY <1>2 DEF FreeGranules
<1>4. PICK i \in 1 .. Len(FreeList(c, k)) :
        s \in SlotsOf(FreeList(c, k)[i]) /\ FreeList(c, k)[i].addr <= g
  BY <1>2, <1>3, GranuleMeetsBlock
<1> DEFINE table == g_hbm_core_free[<<c, k>>]
<1>5. table \in Seq(Blocks) /\ IsUploaded(table, c, k)
  BY Finished
<1>6. /\ Len(table) \in Nat /\ Len(FreeList(c, k)) \in Nat /\ MAX_FREE_BLOCKS_PER_CORE \in Nat
      /\ Len(table) <= Len(FreeList(c, k))
      /\ Entries(table) = {table[j] : j \in 1 .. Len(table)}
      /\ \A j \in 1 .. Len(table) : table[j] = FreeList(c, k)[j]
  BY <1>5, UploadedIs, FreeListIs, LenProperties, DamlAssumption
<1>7. i <= Len(table)
  <2> SUFFICES ASSUME Len(table) < i
               PROVE  FullBefore(table, MAX_FREE_BLOCKS_PER_CORE, s)
    <3>1. <<c, k>> \in Owners /\ <<c, k>>[2] = k
      BY DEF Owners
    <3> HIDE DEF table
    <3>2. ~ FullBefore(table, MAX_FREE_BLOCKS_PER_CORE, s)
      BY <1>2, <3>1 DEF table
    <3> QED BY <1>4, <1>6, <3>2
  <2>1. Len(table) = MAX_FREE_BLOCKS_PER_CORE
    BY <1>4, <1>5, <1>6 DEF IsUploaded
  <2>2. ASSUME NEW j \in 1 .. Len(table)
        PROVE  table[j].addr + table[j].size <= low
    <3>1. j \in 1 .. Len(FreeList(c, k)) /\ j < i
      BY <1>4, <1>6
    <3>2. FreeList(c, k)[j].addr + FreeList(c, k)[j].size <= FreeList(c, k)[i].addr
      BY <1>4, <3>1, FreeListIs
    <3>3. FreeList(c, k)[i] \in Blocks /\ FreeList(c, k)[j] \in Blocks
      BY <1>4, <3>1, FreeListIs, ElementOfSeq
    <3>4. /\ FreeList(c, k)[i].addr \in Nat
          /\ FreeList(c, k)[j].addr \in Nat /\ FreeList(c, k)[j].size \in Nat
      BY <3>3, DamlAssumption DEF Blocks
    <3>5. low \in Nat /\ g \in Nat
      <4>1. low \in Nat
        BY SlotStarts
      <4>2. g \in HEAP_BASE .. HEAP_END - 8
        BY ArenaFacts
      <4> HIDE DEF low
      <4> QED BY <4>1, <4>2, DamlAssumption
    <3>6. FreeList(c, k)[i].addr <= g /\ g <= low
      BY <1>2, <1>4
    <3> HIDE DEF low
    <3>7. FreeList(c, k)[i].addr <= low
      BY <3>4, <3>5, <3>6
    <3>8. FreeList(c, k)[j].addr + FreeList(c, k)[j].size <= low
      BY <3>2, <3>4, <3>5, <3>7
    <3>9. table[j] = FreeList(c, k)[j]
      BY <1>6
    <3> QED BY <3>8, <3>9
  <2> QED BY <1>6, <2>1, <2>2 DEF FullBefore
<1>8. table[i] \in Entries(table) /\ s \in SlotsOf(table[i])
  <2>1. i \in 1 .. Len(table)
    BY <1>4, <1>6, <1>7
  <2> QED BY <1>4, <1>6, <2>1
<1>9. s \in g_core_free_bitmap[<<c, k>>]
  BY <1>8, Finished
<1> QED BY <1>9, Finished

\* A slot that is marked in every cluster is in a range, unless the list of them
\* ended before.
LEMMA MarkedIsFound ==
  ASSUME IInv, phase = "finished", NEW s \in InAllClusters
  PROVE  InRanges(s) \/ FullBefore(g_hbm_system_common, MAX_COMMON_BLOCKS, s)
<1> DEFINE ranges == ToRanges(InAllClusters)
           At(i, f, e) == ranges[i] = RangeOf(f, e)
<1>1. InAllClusters \subseteq Slots /\ g_hbm_system_common = ranges
  BY Finished DEF InAllClusters
<1>2. Entries(ranges) = {ranges[i] : i \in 1 .. Len(ranges)}
  BY <1>1, RangesAre, LenProperties DEF Entries
<1>3. /\ s \in Nat /\ SLOT_SIZE \in Nat \ {0} /\ HEAP_BASE \in Nat
      /\ s * SLOT_SIZE \in Nat /\ (s + 1) * SLOT_SIZE = s * SLOT_SIZE + SLOT_SIZE
  BY <1>1, SlotFacts, Times
<1>4. ASSUME NEW i \in 1 .. Len(ranges), NEW f \in Nat, NEW e \in Nat, f <= e, At(i, f, e)
      PROVE  /\ ranges[i].addr = HEAP_BASE + f * SLOT_SIZE
             /\ ranges[i].addr + ranges[i].size = HEAP_BASE + e * SLOT_SIZE
             /\ f * SLOT_SIZE \in Nat /\ e * SLOT_SIZE \in Nat
  <2>1. /\ f * SLOT_SIZE \in Nat /\ e * SLOT_SIZE \in Nat
        /\ (e - f) * SLOT_SIZE = e * SLOT_SIZE - f * SLOT_SIZE
    BY <1>3, <1>4, Times
  <2>2. ranges[i].addr = HEAP_BASE + f * SLOT_SIZE /\ ranges[i].size = (e - f) * SLOT_SIZE
    BY <1>4 DEF RangeOf
  <2> QED BY <1>3, <2>1, <2>2
<1>5. CASE \E i \in 1 .. Len(ranges) : \E f, e \in Nat : f <= s /\ s < e /\ At(i, f, e)
  <2>1. PICK i \in 1 .. Len(ranges), f \in Nat, e \in Nat : f <= s /\ s < e /\ At(i, f, e)
    BY <1>5
  <2>2. f <= e
    BY <1>3, <2>1
  <2>3. f * SLOT_SIZE <= s * SLOT_SIZE /\ s * SLOT_SIZE + SLOT_SIZE <= e * SLOT_SIZE
    BY <1>3, <2>1, Times
  <2>4. /\ ranges[i].addr <= HEAP_BASE + s * SLOT_SIZE
        /\ HEAP_BASE + (s + 1) * SLOT_SIZE <= ranges[i].addr + ranges[i].size
    <3>1. /\ ranges[i].addr = HEAP_BASE + f * SLOT_SIZE
          /\ ranges[i].addr + ranges[i].size = HEAP_BASE + e * SLOT_SIZE
          /\ f * SLOT_SIZE \in Nat /\ e * SLOT_SIZE \in Nat
      BY <1>4, <2>1, <2>2
    <3> HIDE DEF ranges
    <3> QED BY <1>3, <2>3, <3>1
  <2> QED BY <1>1, <1>2, <2>4 DEF InRanges
<1>6. CASE /\ Len(ranges) = MAX_COMMON_BLOCKS
           /\ \A i \in 1 .. Len(ranges) : \E f, e \in Nat : f <= e /\ e <= s /\ At(i, f, e)
  <2>1. ASSUME NEW i \in 1 .. Len(ranges)
        PROVE  ranges[i].addr + ranges[i].size <= HEAP_BASE + s * SLOT_SIZE
    <3>1. PICK f \in Nat, e \in Nat : f <= e /\ e <= s /\ At(i, f, e)
      BY <1>6
    <3>2. e * SLOT_SIZE <= s * SLOT_SIZE
      BY <1>3, <3>1, Times
    <3> QED BY <1>3, <1>4, <3>1, <3>2
  <2> QED BY <1>1, <1>2, <1>6, <2>1 DEF FullBefore
<1> QED BY <1>1, <1>5, <1>6, RangesAre

-----------------------------------------------------------------------------
(* The turns. *)

LEMMA TurnFacts ==
  /\ NumClusters * NumCores \in Nat /\ NumClusters <= NumClusters * NumCores
  /\ NumClusters \in Nat \ {0} /\ NumClusters * NumCores # 0
  /\ \A o \in Owners : TurnOf(o) \in 0 .. NumClusters * NumCores - 1
  /\ \A o, p \in Owners : TurnOf(o) = TurnOf(p) => o = p
<1>1. NumClusters \in Nat \ {0} /\ NumCores \in Nat \ {0}
  BY DamlAssumption
<1>2. /\ NumClusters * NumCores \in Nat /\ NumClusters <= NumClusters * NumCores
      /\ NumClusters * NumCores # 0
  <2>1. /\ NumCores * NumClusters \in Nat /\ NumClusters * NumCores = NumCores * NumClusters
        /\ 1 * NumClusters <= NumCores * NumClusters /\ 1 * NumClusters = NumClusters
    BY <1>1, Times
  <2> QED BY <1>1, <2>1
<1>3. ASSUME NEW o \in Owners
      PROVE  /\ o[1] \in Nat /\ o[2] \in Nat /\ o[2] < NumCores /\ o[1] < NumClusters
             /\ o = <<o[1], o[2]>> /\ o[1] * NumCores \in Nat
             /\ TurnOf(o) = o[1] * NumCores + o[2]
             /\ TurnOf(o) \in 0 .. NumClusters * NumCores - 1
  <2>1. o[1] \in Clusters /\ o[2] \in 0 .. NumCores - 1 /\ o = <<o[1], o[2]>>
    BY DEF Owners
  <2>2. o[1] \in Nat /\ o[2] \in Nat /\ o[2] < NumCores /\ o[1] < NumClusters
    BY <1>1, <2>1 DEF Clusters
  <2>3. o[1] * NumCores \in Nat /\ o[1] * NumCores + NumCores <= NumClusters * NumCores
    BY <1>1, <2>2, Times
  <2>4. TurnOf(o) = o[1] * NumCores + o[2]
    BY DEF TurnOf
  <2> QED BY <1>1, <1>2, <2>1, <2>2, <2>3, <2>4
<1>4. ASSUME NEW o \in Owners, NEW p \in Owners, TurnOf(o) = TurnOf(p), o[1] < p[1]
      PROVE  FALSE
  <2>1. o[1] * NumCores + NumCores <= p[1] * NumCores
    BY <1>1, <1>3, <1>4, Times
  <2> QED BY <1>1, <1>3, <1>4, <2>1
<1>5. ASSUME NEW o \in Owners, NEW p \in Owners, TurnOf(o) = TurnOf(p)
      PROVE  o = p
  <2>1. o[1] = p[1]
    <3>1. ~ (o[1] < p[1]) /\ ~ (p[1] < o[1])
      BY <1>4, <1>5
    <3> QED BY <1>3, <3>1
  <2>2. o[2] = p[2]
    BY <1>3, <1>5, <2>1
  <2> QED BY <1>3, <2>1, <2>2
<1> QED BY <1>1, <1>2, <1>3, <1>5

\* A turn ends: who has had a turn of this loop, and that other loops wait.
LEMMA TurnEnds ==
  ASSUME TypeOK,
         NEW loop \in {"preload", "upload", "core", "cluster"}, phase = loop,
         NEW turns \in Nat, turn < turns,
         NEW following, EndTurn(turns, following),
         following = CASE loop = "preload" -> "upload" [] loop = "upload" -> "core"
                       [] loop = "core" -> "cluster" [] loop = "cluster" -> "system"
  PROVE  /\ turn \in Nat
         /\ (phase' = loop /\ turn' = turn + 1 /\ turn' < turns)
              \/ (phase' = following /\ turn' = 0)
         /\ \A t \in 0 .. turns - 1 : Done(loop, t)' => Done(loop, t) \/ t = turn
         /\ \A other \in {"upload", "core", "cluster", "system"} \ {loop} : \A t \in Nat :
              Done(other, t)' => Done(other, t)
<1>1. turn \in Nat
  BY TurnFacts DEF TypeOK
<1>2. /\ (phase' = loop /\ turn' = turn + 1 /\ turn' < turns)
              \/ (phase' = following /\ turn' = 0 /\ turn + 1 = turns)
  BY <1>1 DEF EndTurn
<1>3. ASSUME NEW t \in 0 .. turns - 1, Done(loop, t)' PROVE Done(loop, t) \/ t = turn
  BY <1>1, <1>2, <1>3 DEF Done, Later
<1>4. ASSUME NEW other \in {"upload", "core", "cluster", "system"} \ {loop}, NEW t \in Nat,
             Done(other, t)'
      PROVE  Done(other, t)
  <2>1. CASE loop = "preload"
    BY <1>2, <1>4, <2>1 DEF Done, Later
  <2>2. CASE loop = "upload"
    BY <1>2, <1>4, <2>2 DEF Done, Later
  <2>3. CASE loop = "core"
    BY <1>2, <1>4, <2>3 DEF Done, Later
  <2>4. CASE loop = "cluster"
    BY <1>2, <1>4, <2>4 DEF Done, Later
  <2> QED BY <2>1, <2>2, <2>3, <2>4
<1> QED BY <1>1, <1>2, <1>3, <1>4

LEMMA SameLists ==
  ASSUME used' = used, NEW c, NEW k
  PROVE  FreeList(c, k)' = FreeList(c, k)
<1>1. FreeGranules(c, k)' = FreeGranules(c, k)
  BY DEF FreeGranules
<1>2. \A a : BlockAt(c, k, a)' = BlockAt(c, k, a)
  BY <1>1 DEF BlockAt
<1> QED BY <1>1, <1>2 DEF FreeList

\* The snapshot takes the whole list unless the table is full.
GoodPrefixes(c, k) == {n \in 0 .. Len(FreeList(c, k)) :
                         /\ n <= MAX_FREE_BLOCKS_PER_CORE
                         /\ \A i \in 1 .. n : ~ BadPointer(FreeList(c, k)[i].addr)}
Longest(c, k) == CHOOSE n \in GoodPrefixes(c, k) : \A m \in GoodPrefixes(c, k) : m <= n
Snapshot(c, k) == SubSeq(FreeList(c, k), 1, Longest(c, k))

LEMMA SnapshotIs ==
  ASSUME NEW c \in Clusters, NEW k \in 0 .. NumCores - 1
  PROVE  Snapshot(c, k) \in Seq(Blocks) /\ IsUploaded(Snapshot(c, k), c, k)
<1> DEFINE list == FreeList(c, k)
           good == GoodPrefixes(c, k)
           n == Longest(c, k)
<1>1. /\ list \in Seq(Blocks) /\ Len(list) \in Nat /\ MAX_FREE_BLOCKS_PER_CORE \in Nat
      /\ \A i \in 1 .. Len(list) : list[i].addr \in FreeGranules(c, k)
  BY FreeListIs, LenProperties, DamlAssumption
<1> HIDE DEF list
<1>2. good \subseteq Nat /\ good # {} /\ \A m \in good : m <= Len(list)
  <2>1. 0 \in good
    BY <1>1 DEF GoodPrefixes, list
  <2>2. \A m \in good : m \in 0 .. Len(list)
    BY DEF GoodPrefixes, list
  <2> QED BY <1>1, <2>1, <2>2
<1>3. n \in good /\ \A m \in good : m <= n
  <2>1. \E x \in good : \A y \in good : y <= x
    BY <1>1, <1>2, GreatestNat
  <2> QED BY <2>1 DEF Longest
<1>4. /\ n \in Nat /\ n <= Len(list) /\ n <= MAX_FREE_BLOCKS_PER_CORE
      /\ \A i \in 1 .. n : ~ BadPointer(list[i].addr)
  BY <1>1, <1>2, <1>3 DEF GoodPrefixes, list
<1> HIDE DEF n, good
<1>5. SubSeq(list, 1, n) \in Seq(Blocks) /\ Len(SubSeq(list, 1, n)) = n
  <2>1. \A i \in 1 .. n : list[i] \in Blocks
    BY <1>1, <1>4, ElementOfSeq
  <2>2. SubSeq(list, 1, n) \in Seq(Blocks)
    BY <1>1, <1>4, <2>1, SubSeqProperties
  <2> QED BY <1>1, <1>4, <2>2, SubSeqProperties
<1>6. ASSUME HeapAligned, n < MAX_FREE_BLOCKS_PER_CORE, n # Len(list) PROVE FALSE
  <2>1. n + 1 \in 1 .. Len(list)
    BY <1>1, <1>4, <1>6
  <2>2. ~ BadPointer(list[n + 1].addr)
    <3>1. list[n + 1].addr \in Arena(k)
      BY <1>1, <2>1 DEF FreeGranules
    <3>2. /\ list[n + 1].addr \in HEAP_BASE .. HEAP_END - 8
          /\ ArenaBase(k) \in Nat /\ ArenaSize(k) \in Nat /\ ArenaBase(k) % 8 = 0
          /\ HEAP_BASE \in Nat /\ HEAP_END \in Nat
      BY <3>1, <1>6, ArenaFacts, DamlAssumption DEF HeapAligned, Align
    <3>3. (list[n + 1].addr - ArenaBase(k)) % 8 = 0
      BY <3>1 DEF Arena, Align
    <3> DEFINE p == list[n + 1].addr
    <3> HIDE DEF p
    <3>4. p \in Nat /\ HEAP_BASE <= p /\ p + 8 <= HEAP_END /\ p % 8 = 0
      BY <3>2, <3>3 DEF p
    <3>5. ~ BadPointer(p)
      BY <3>2, <3>4 DEF BadPointer, Align
    <3> QED BY <3>5 DEF p
  <2>3. \A i \in 1 .. n + 1 : i \in 1 .. n \/ i = n + 1
    BY <1>4
  <2>4. \A i \in 1 .. n + 1 : ~ BadPointer(list[i].addr)
    BY <1>4, <2>2, <2>3
  <2>5. n + 1 \in 0 .. Len(list) /\ n + 1 <= MAX_FREE_BLOCKS_PER_CORE
    BY <1>1, <1>4, <1>6, <2>1
  <2>6. n + 1 \in good
    BY <2>4, <2>5 DEF GoodPrefixes, good, list
  <2> QED BY <1>3, <1>4, <2>6
<1>7. IsUploaded(SubSeq(list, 1, n), c, k)
  BY <1>4, <1>5, <1>6 DEF IsUploaded, list
<1> QED BY <1>5, <1>7 DEF Snapshot, list, n

-----------------------------------------------------------------------------
(* The steps. *)

LEMMA EntriesTyped ==
  ASSUME NEW table \in Seq(Blocks)
  PROVE  Entries(table) \subseteq Blocks
  BY LenProperties, ElementOfSeq DEF Entries

LEMMA InitInv ==
  ASSUME Init PROVE IInv
<1>1. <<>> \in Seq(Blocks) /\ Entries(<<>>) = {}
  BY EmptySeq DEF Entries
<1>2. 0 \in Clusters /\ 0 \in 0 .. NumClusters * NumCores - 1
  BY TurnFacts DEF Clusters
<1>3. TypeOK
  BY <1>1, <1>2 DEF Init, TypeOK
<1>4. TablesTyped
  BY <1>1 DEF Init, TablesTyped
<1>5. TurnsInRange
  BY <1>2 DEF Init, TurnsInRange
<1>6. TablesBuilt
  BY DEF Init, TablesBuilt, Done, Later
<1> QED BY <1>3, <1>4, <1>5, <1>6 DEF IInv

LEMMA StutterInv ==
  ASSUME IInv, UNCHANGED vars PROVE IInv'
<1>1. /\ phase' = phase /\ turn' = turn /\ used' = used
      /\ g_hbm_core_free' = g_hbm_core_free /\ g_core_free_bitmap' = g_core_free_bitmap
      /\ g_cluster_free_bitmap' = g_cluster_free_bitmap
      /\ g_system_common_bitmap' = g_system_common_bitmap
      /\ g_hbm_system_common' = g_hbm_system_common
  BY DEF vars, tables
<1>2. TypeOK' /\ TablesTyped' /\ TurnsInRange'
  BY <1>1 DEF IInv, TypeOK, TablesTyped, TurnsInRange
<1>3. \A c, k : FreeList(c, k)' = FreeList(c, k)
  BY <1>1, SameLists
<1>4. /\ \A loop, t : Done(loop, t)' <=> Done(loop, t)
      /\ \A table, c, k : IsUploaded(table, c, k)' <=> IsUploaded(table, c, k)
      /\ InAllClusters' = InAllClusters
  BY <1>1, <1>3 DEF Done, IsUploaded, InAllClusters
<1>5. TablesBuilt'
  BY <1>1, <1>4 DEF IInv, TablesBuilt
<1> QED BY <1>2, <1>5 DEF IInv

LEMMA PreloadInv ==
  ASSUME IInv, NEW c \in Clusters, Preload(c) PROVE IInv'
<1>1. /\ phase = "preload" /\ turn = c /\ EndTurn(NumClusters, "upload")
      /\ UNCHANGED tables
  BY DEF Preload, ClusterTurn
<1>2. PICK taken \in SUBSET UNION {Arena(k) : k \in 0 .. NumCores - 1} :
        used' = [used EXCEPT ![c] = taken]
  BY DEF Preload
<1>3. TypeOK /\ turn < NumClusters /\ NumClusters \in Nat
  BY <1>1, TurnFacts DEF IInv, Clusters
<1>4. /\ turn \in Nat
      /\ (phase' = "preload" /\ turn' = turn + 1 /\ turn' < NumClusters)
           \/ (phase' = "upload" /\ turn' = 0)
  BY <1>1, <1>3, TurnEnds
<1>5. used' \in [Clusters -> SUBSET (HEAP_BASE .. HEAP_END)]
  <2>1. taken \subseteq HEAP_BASE .. HEAP_END
    <3>1. \A k \in 0 .. NumCores - 1 : Arena(k) \subseteq HEAP_BASE .. HEAP_END - 8
      BY ArenaFacts
    <3>2. HEAP_BASE .. HEAP_END - 8 \subseteq HEAP_BASE .. HEAP_END
      BY DamlAssumption
    <3> QED BY <3>1, <3>2
  <2> QED BY <1>2, <1>3, <2>1 DEF TypeOK
<1>6. phase' \in {"preload", "upload"} /\ turn' \in 0 .. NumClusters * NumCores - 1
  BY <1>3, <1>4, TurnFacts
<1>7. TypeOK'
  BY <1>1, <1>3, <1>5, <1>6 DEF TypeOK, tables
<1>8. TablesTyped'
  <2>1. used \in [Clusters -> SUBSET (HEAP_BASE .. HEAP_END)]
    BY <1>3 DEF TypeOK
  <2>2. \A d \in Clusters : used'[d] \subseteq UNION {Arena(k) : k \in 0 .. NumCores - 1}
    BY <1>2, <2>1 DEF IInv, TablesTyped
  <2> QED BY <1>1, <2>2 DEF IInv, TablesTyped, tables
<1>9. TurnsInRange'
  BY <1>3, <1>4 DEF TurnsInRange, Clusters
<1>10. TablesBuilt'
  <2>1. \A t \in Nat : /\ ~ Done("upload", t)' /\ ~ Done("core", t)'
                       /\ ~ Done("cluster", t)' /\ ~ Done("system", t)'
    BY <1>4 DEF Done, Later
  <2>2. \A o \in Owners : TurnOf(o) \in Nat
    BY TurnFacts
  <2>3. \A d \in Clusters : d \in Nat
    BY TurnFacts DEF Clusters
  <2> QED BY <2>1, <2>2, <2>3 DEF TablesBuilt
<1> QED BY <1>7, <1>8, <1>9, <1>10 DEF IInv

\* What the functions after the preload leave alone.
LEMMA OthersKept ==
  ASSUME used' = used
  PROVE  \A table, c, k : IsUploaded(table, c, k) => IsUploaded(table, c, k)'
  BY SameLists DEF IsUploaded

LEMMA UploadInv ==
  ASSUME IInv, NEW c \in Clusters, NEW k \in 0 .. NumCores - 1, UploadFreeList(c, k)
  PROVE  IInv'
<1> DEFINE o == <<c, k>>
           turns == NumClusters * NumCores
<1>1. /\ phase = "upload" /\ turn = c * NumCores + k /\ EndTurn(turns, "core")
      /\ UNCHANGED <<used, g_core_free_bitmap, g_cluster_free_bitmap,
                     g_system_common_bitmap, g_hbm_system_common>>
  BY DEF UploadFreeList, OwnerTurn
<1>2. PICK snapshot \in Seq(Blocks) :
        /\ g_hbm_core_free' = [g_hbm_core_free EXCEPT ![o] = snapshot]
        /\ IsUploaded(snapshot, c, k)
  <2>1. g_hbm_core_free' = [g_hbm_core_free EXCEPT ![o] = Snapshot(c, k)]
    BY DEF UploadFreeList, Snapshot, Longest, GoodPrefixes
  <2> QED BY <2>1, SnapshotIs
<1>3. o \in Owners /\ TurnOf(o) = turn /\ o[1] = c /\ o[2] = k
  BY <1>1 DEF Owners, TurnOf
<1>4. TypeOK /\ turn < turns /\ turns \in Nat
  BY <1>3, TurnFacts DEF IInv
<1>5. /\ turn \in Nat
      /\ (phase' = "upload" /\ turn' = turn + 1 /\ turn' < turns)
           \/ (phase' = "core" /\ turn' = 0)
      /\ \A t \in 0 .. turns - 1 : Done("upload", t)' => Done("upload", t) \/ t = turn
      /\ \A other \in {"core", "cluster", "system"} : \A t \in Nat :
           Done(other, t)' => Done(other, t)
  BY <1>1, <1>4, TurnEnds
<1>6. g_hbm_core_free' \in [Owners -> Seq(Blocks)]
  BY <1>2 DEF IInv, TablesTyped
<1>7. TypeOK'
  <2>1. \A p \in Owners : Entries(g_hbm_core_free'[p]) \subseteq Blocks
    BY <1>6, EntriesTyped
  <2>2. phase' \in {"upload", "core"} /\ turn' \in 0 .. turns - 1
    BY <1>4, <1>5, TurnFacts
  <2> QED BY <1>1, <1>4, <2>1, <2>2 DEF TypeOK
<1>8. TablesTyped' /\ TurnsInRange'
  BY <1>1, <1>5, <1>6 DEF IInv, TablesTyped, TurnsInRange
<1>9. TablesBuilt'
  <2>1. \A t \in Nat : ~ Done("core", t)' /\ ~ Done("cluster", t)' /\ ~ Done("system", t)'
    BY <1>5 DEF Done, Later
  <2>2. /\ \A p \in Owners : TurnOf(p) \in 0 .. turns - 1 /\ TurnOf(p) \in Nat
        /\ \A d \in Clusters : d \in Nat
    BY TurnFacts DEF Clusters
  <2>3. ASSUME NEW p \in Owners, Done("upload", TurnOf(p))'
        PROVE  IsUploaded(g_hbm_core_free[p], p[1], p[2])'
    <3>1. CASE p = o
      <4>1. g_hbm_core_free'[p] = snapshot
        BY <1>2, <1>3, <3>1 DEF IInv, TablesTyped
      <4>2. IsUploaded(snapshot, c, k)'
        BY <1>1, <1>2, OthersKept
      <4> QED BY <1>3, <3>1, <4>1, <4>2
    <3>2. CASE p # o
      <4>1. g_hbm_core_free'[p] = g_hbm_core_free[p]
        BY <1>2, <3>2 DEF IInv, TablesTyped
      <4>2. Done("upload", TurnOf(p))
        BY <1>3, <1>5, <2>2, <2>3, <3>2, TurnFacts
      <4>3. IsUploaded(g_hbm_core_free[p], p[1], p[2])
        BY <4>2 DEF IInv, TablesBuilt
      <4> QED BY <1>1, <4>1, <4>3, OthersKept
    <3> QED BY <3>1, <3>2
  <2> QED BY <2>1, <2>2, <2>3 DEF TablesBuilt
<1> QED BY <1>7, <1>8, <1>9 DEF IInv

LEMMA CoreInv ==
  ASSUME IInv, NEW c \in Clusters, NEW k \in 0 .. NumCores - 1, BuildCoreBitmap(c, k)
  PROVE  IInv'
<1> DEFINE o == <<c, k>>
           turns == NumClusters * NumCores
           Bitmap(table) == UNION {SlotsOf(b) : b \in Entries(table)}
<1>1. /\ phase = "core" /\ turn = c * NumCores + k /\ EndTurn(turns, "cluster")
      /\ g_core_free_bitmap' = [g_core_free_bitmap EXCEPT ![o] = Bitmap(g_hbm_core_free[o])]
      /\ UNCHANGED <<used, g_hbm_core_free, g_cluster_free_bitmap,
                     g_system_common_bitmap, g_hbm_system_common>>
  BY DEF BuildCoreBitmap, OwnerTurn
<1>2. \A table : Bitmap(table) \subseteq Slots
  BY DEF SlotsOf
<1> HIDE DEF Bitmap
<1>3. o \in Owners /\ TurnOf(o) = turn /\ o[1] = c /\ o[2] = k
  BY <1>1 DEF Owners, TurnOf
<1>4. TypeOK /\ turn < turns /\ turns \in Nat
  BY <1>3, TurnFacts DEF IInv
<1>5. /\ turn \in Nat
      /\ (phase' = "core" /\ turn' = turn + 1 /\ turn' < turns)
           \/ (phase' = "cluster" /\ turn' = 0)
      /\ \A t \in 0 .. turns - 1 : Done("core", t)' => Done("core", t) \/ t = turn
      /\ \A other \in {"upload", "cluster", "system"} : \A t \in Nat :
           Done(other, t)' => Done(other, t)
  BY <1>1, <1>4, TurnEnds
<1>6. TypeOK'
  <2>1. phase' \in {"core", "cluster"} /\ turn' \in 0 .. turns - 1
    BY <1>4, <1>5, TurnFacts
  <2>2. g_core_free_bitmap' \in [Owners -> SUBSET Slots]
    BY <1>1, <1>2, <1>4 DEF TypeOK
  <2> QED BY <1>1, <1>4, <2>1, <2>2 DEF TypeOK
<1>7. TablesTyped' /\ TurnsInRange'
  <2>1. 0 \in Clusters
    BY TurnFacts DEF Clusters
  <2> QED BY <1>1, <1>5, <2>1 DEF IInv, TablesTyped, TurnsInRange
<1>8. TablesBuilt'
  <2>1. \A t \in Nat : ~ Done("cluster", t)' /\ ~ Done("system", t)'
    BY <1>5 DEF Done, Later
  <2>2. /\ \A p \in Owners : TurnOf(p) \in 0 .. turns - 1 /\ TurnOf(p) \in Nat
        /\ \A d \in Clusters : d \in Nat
    BY TurnFacts DEF Clusters
  <2>3. ASSUME NEW p \in Owners, Done("upload", TurnOf(p))'
        PROVE  IsUploaded(g_hbm_core_free[p], p[1], p[2])'
    <3>1. IsUploaded(g_hbm_core_free[p], p[1], p[2])
      BY <1>5, <2>2, <2>3 DEF IInv, TablesBuilt
    <3> QED BY <1>1, <3>1, OthersKept
  <2>4. ASSUME NEW p \in Owners, Done("core", TurnOf(p))'
        PROVE  g_core_free_bitmap'[p] = Bitmap(g_hbm_core_free'[p])
    <3>1. CASE p = o
      BY <1>1, <1>3, <1>4, <3>1 DEF TypeOK
    <3>2. CASE p # o
      <4>1. g_core_free_bitmap'[p] = g_core_free_bitmap[p]
        BY <1>1, <1>4, <3>2 DEF TypeOK
      <4>2. Done("core", TurnOf(p))
        BY <1>3, <1>5, <2>2, <2>4, <3>2, TurnFacts
      <4>3. g_core_free_bitmap[p] = Bitmap(g_hbm_core_free[p])
        BY <4>2 DEF IInv, TablesBuilt, Bitmap
      <4> QED BY <1>1, <4>1, <4>3
    <3> QED BY <3>1, <3>2
  <2> QED BY <2>1, <2>2, <2>3, <2>4 DEF TablesBuilt, Bitmap
<1> QED BY <1>6, <1>7, <1>8 DEF IInv

LEMMA ClusterInv ==
  ASSUME IInv, NEW c \in Clusters, BuildClusterFreeBitmap(c)
  PROVE  IInv'
<1> DEFINE Marked(bitmaps, d) == UNION {bitmaps[<<d, k>>] : k \in 0 .. NumCores - 1}
<1>1. /\ phase = "cluster" /\ turn = c /\ EndTurn(NumClusters, "system")
      /\ g_cluster_free_bitmap' = [g_cluster_free_bitmap EXCEPT ![c] = Marked(g_core_free_bitmap, c)]
      /\ UNCHANGED <<used, g_hbm_core_free, g_core_free_bitmap,
                     g_system_common_bitmap, g_hbm_system_common>>
  BY DEF BuildClusterFreeBitmap, ClusterTurn
<1>2. TypeOK /\ turn < NumClusters /\ NumClusters \in Nat /\ NumClusters \in Nat \ {0}
  BY <1>1, TurnFacts DEF IInv, Clusters
<1>3. Marked(g_core_free_bitmap, c) \subseteq Slots
  BY <1>2 DEF TypeOK, Owners
<1> HIDE DEF Marked
<1>4. /\ turn \in Nat
      /\ (phase' = "cluster" /\ turn' = turn + 1 /\ turn' < NumClusters)
           \/ (phase' = "system" /\ turn' = 0)
      /\ \A t \in 0 .. NumClusters - 1 : Done("cluster", t)' => Done("cluster", t) \/ t = turn
      /\ \A other \in {"upload", "core", "system"} : \A t \in Nat :
           Done(other, t)' => Done(other, t)
  BY <1>1, <1>2, TurnEnds
<1>5. TypeOK'
  <2>1. phase' \in {"cluster", "system"} /\ turn' \in 0 .. NumClusters * NumCores - 1
    BY <1>2, <1>4, TurnFacts
  <2>2. g_cluster_free_bitmap' \in [Clusters -> SUBSET Slots]
    BY <1>1, <1>2, <1>3 DEF TypeOK
  <2> QED BY <1>1, <1>2, <2>1, <2>2 DEF TypeOK
<1>6. TablesTyped'
  BY <1>1 DEF IInv, TablesTyped
<1>7. TurnsInRange'
  BY <1>2, <1>4 DEF TurnsInRange, Clusters
<1>8. TablesBuilt'
  <2>1. ~ Done("system", 0)'
    BY <1>4 DEF Done, Later
  <2>2. /\ \A p \in Owners : TurnOf(p) \in Nat
        /\ \A d \in Clusters : d \in 0 .. NumClusters - 1
    BY TurnFacts DEF Clusters
  <2>3. ASSUME NEW p \in Owners, Done("upload", TurnOf(p))'
        PROVE  IsUploaded(g_hbm_core_free[p], p[1], p[2])'
    <3>1. IsUploaded(g_hbm_core_free[p], p[1], p[2])
      BY <1>4, <2>2, <2>3 DEF IInv, TablesBuilt
    <3> QED BY <1>1, <3>1, OthersKept
  <2>4. ASSUME NEW p \in Owners, Done("core", TurnOf(p))'
        PROVE  g_core_free_bitmap'[p] = UNION {SlotsOf(b) : b \in Entries(g_hbm_core_free'[p])}
    <3>1. g_core_free_bitmap[p] = UNION {SlotsOf(b) : b \in Entries(g_hbm_core_free[p])}
      BY <1>4, <2>2, <2>4 DEF IInv, TablesBuilt
    <3> QED BY <1>1, <3>1
  <2>5. ASSUME NEW d \in Clusters, Done("cluster", d)'
        PROVE  g_cluster_free_bitmap'[d] = Marked(g_core_free_bitmap', d)
    <3>1. CASE d = c
      BY <1>1, <1>2, <3>1 DEF TypeOK
    <3>2. CASE d # c
      <4>1. g_cluster_free_bitmap'[d] = g_cluster_free_bitmap[d]
        BY <1>1, <1>2, <3>2 DEF TypeOK
      <4>2. Done("cluster", d)
        BY <1>1, <1>4, <2>2, <2>5, <3>2
      <4>3. g_cluster_free_bitmap[d] = Marked(g_core_free_bitmap, d)
        BY <4>2 DEF IInv, TablesBuilt, Marked
      <4> QED BY <1>1, <4>1, <4>3
    <3> QED BY <3>1, <3>2
  <2> QED BY <2>1, <2>3, <2>4, <2>5 DEF TablesBuilt, Marked
<1> QED BY <1>5, <1>6, <1>7, <1>8 DEF IInv

LEMMA SystemInv ==
  ASSUME IInv, BuildSystemCommon PROVE IInv'
<1>1. /\ phase = "system" /\ phase' = "finished"
      /\ g_system_common_bitmap' = InAllClusters /\ g_hbm_system_common' = ToRanges(InAllClusters)
      /\ UNCHANGED <<turn, used, g_hbm_core_free, g_core_free_bitmap, g_cluster_free_bitmap>>
  BY DEF BuildSystemCommon
<1>2. TypeOK'
  <2>1. InAllClusters \subseteq Slots
    BY DEF InAllClusters
  <2>2. ToRanges(InAllClusters) \in Seq(Blocks)
    BY <2>1, RangesAre
  <2>3. Entries(ToRanges(InAllClusters)) \subseteq Blocks
    BY <2>2, EntriesTyped
  <2> QED BY <1>1, <2>1, <2>3 DEF IInv, TypeOK
<1>3. TablesTyped' /\ TurnsInRange'
  BY <1>1 DEF IInv, TablesTyped, TurnsInRange
<1>4. TablesBuilt'
  <2>1. InAllClusters' = InAllClusters
    BY <1>1 DEF InAllClusters
  <2>2. \A t : Done("upload", t) /\ Done("core", t) /\ Done("cluster", t)
    BY <1>1 DEF Done, Later
  <2>3. \A p \in Owners : IsUploaded(g_hbm_core_free[p], p[1], p[2])'
    <3> TAKE p \in Owners
    <3>1. IsUploaded(g_hbm_core_free[p], p[1], p[2])
      BY <2>2 DEF IInv, TablesBuilt
    <3> QED BY <1>1, <3>1, OthersKept
  <2>4. ToRanges(InAllClusters)' = ToRanges(InAllClusters)
    BY <2>1 DEF ToRanges
  <2> QED BY <1>1, <2>1, <2>2, <2>3, <2>4 DEF IInv, TablesBuilt
<1> QED BY <1>2, <1>3, <1>4 DEF IInv

-----------------------------------------------------------------------------
(* What holds of every run of the program. *)

\* The inductive invariant: each table is what the turns taken so far make it.
THEOREM Invariance == Spec => []IInv
<1>1. IInv /\ [Next]_vars => IInv'
  <2> SUFFICES ASSUME IInv, [Next]_vars PROVE IInv'
    OBVIOUS
  <2>1. ASSUME NEW c \in Clusters, Preload(c) \/ BuildClusterFreeBitmap(c) PROVE IInv'
    BY <2>1, PreloadInv, ClusterInv
  <2>2. ASSUME NEW o \in Owners, UploadFreeList(o[1], o[2]) \/ BuildCoreBitmap(o[1], o[2])
        PROVE  IInv'
    <3>1. o[1] \in Clusters /\ o[2] \in 0 .. NumCores - 1
      BY DEF Owners
    <3> QED BY <2>2, <3>1, UploadInv, CoreInv
  <2> QED BY <2>1, <2>2, SystemInv, StutterInv DEF Next
<1> QED BY <1>1, InitInv, PTL DEF Spec

\* Every table has its type, and every block of one lies in the heap
\* (soc_daml_upload_free_list, soc_daml_build_core_bitmap, ...).
THEOREM TypeCorrect == Spec => []TypeOK
<1>1. IInv => TypeOK
  BY DEF IInv
<1> QED BY <1>1, Invariance, PTL

\* What the program reports as common has free memory in every cluster, tables
\* full or not, whatever the alignment of the heap.
THEOREM SpaceCorrect == Spec => []CommonSlotsHaveSpace
<1>1. IInv => CommonSlotsHaveSpace
  BY FoundIsMarked, MarkedHasSpace DEF CommonSlotsHaveSpace
<1> QED BY <1>1, Invariance, PTL

\* With the heap aligned and slots no smaller than a block, a slot that is free
\* in every cluster is reported unless a table was full of what comes before it.
THEOREM NothingMissed == ASSUME HeapAligned PROVE Spec => []NoCommonSlotMissed
<1>1. IInv => NoCommonSlotMissed
  BY FreeIsMarked, MarkedIsFound DEF NoCommonSlotMissed
<1> QED BY <1>1, Invariance, PTL
=============================================================================
