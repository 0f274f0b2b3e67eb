--------------------------- MODULE FlexAllocProofs ---------------------------
(***************************************************************************)
(* Theorems about FlexAlloc, for every heap, every set of requests that do  *)
(* not wrap and every overrun that the canary catches.                       *)
(***************************************************************************)
EXTENDS FlexAllocInv, WellFoundedInduction, TLAPS

-----------------------------------------------------------------------------
(* Arithmetic of the heap. *)

LEMMA AlignDownFacts ==
  ASSUME NEW n \in Int
  PROVE  /\ AlignDown(n) \in Int /\ AlignDown(n) % 8 = 0
         /\ AlignDown(n) <= n /\ n <= AlignDown(n) + 7
  BY DEF AlignDown, MIN_BLOCK_SIZE

LEMMA HeapBounds ==
  /\ Low \in Nat /\ High \in Nat /\ WordMod \in Nat
  /\ 0 < Low /\ Low < High /\ High + 8 <= WordMod
  /\ Low % 8 = 0 /\ High % 8 = 0
<1>1. /\ Base \in Nat \ {0} /\ Size \in Nat /\ WordMod \in Nat
      /\ Base + Size <= WordMod - 8 /\ Low < High
  BY HeapAssumption DEF MIN_BLOCK_SIZE
<1>2. (Base + 8 - 1) % WordMod = Base + 7
  BY <1>1
<1>3. Low = AlignDown(Base + 7)
  BY <1>2 DEF Low, ALIGN_UP, MIN_BLOCK_SIZE
<1>4. Low \in Int /\ Low % 8 = 0 /\ Base <= Low /\ Low <= Base + 7
  BY <1>1, <1>3, AlignDownFacts
<1>5. /\ AlignDown(Size - (Low - Base)) \in Int
      /\ AlignDown(Size - (Low - Base)) % 8 = 0
      /\ AlignDown(Size - (Low - Base)) <= Size - (Low - Base)
  BY <1>1, <1>4, AlignDownFacts
<1> QED BY <1>1, <1>4, <1>5 DEF High

LEMMA BlockSizeFacts ==
  ASSUME RequestsFit, NEW r \in Requests
  PROVE  /\ BlockSize(r) \in Nat /\ BlockSize(r) % 8 = 0
         /\ 8 <= BlockSize(r) /\ r \in Nat /\ r + 4 <= BlockSize(r)
<1>1. r \in Nat /\ r + 12 <= WordMod /\ WordMod \in Nat
  BY HeapAssumption DEF RequestsFit, WordBytes, MIN_BLOCK_SIZE
<1>2. (r + 4) % WordMod = r + 4 /\ (r + 4 + 8 - 1) % WordMod = r + 11
  BY <1>1
<1>3. BlockSize(r) = AlignDown(r + 11)
  BY <1>2 DEF BlockSize, ALIGN_UP, WordBytes, MIN_BLOCK_SIZE
<1> QED BY <1>1, <1>3, AlignDownFacts

LEMMA DivMod ==
  ASSUME NEW a \in Nat, NEW m \in Nat \ {0}, NEW c \in 0 .. m - 1
  PROVE  (a * m + c) % m = c /\ (a * m + c) \div m = a
  OBVIOUS

\* A header that was encoded decodes to its size, and shows its canary.
LEMMA Decode ==
  ASSUME NEW ptr \in Nat, NEW size \in Nat, size < MaxBlock
  PROVE  /\ canary_encode(ptr, size) \in 0 .. WordMod - 1
         /\ canary_encode(ptr, size) % CanaryMod = canary(ptr)
         /\ canary_encode(ptr, size) \div CanaryMod = size
<1>1. CanaryMod \in Nat \ {0} /\ WordMod \in Nat /\ WordMod % CanaryMod = 0
  BY HeapAssumption
<1>2. canary(ptr) \in 0 .. CanaryMod - 1
  BY <1>1 DEF canary
<1>3. MaxBlock * CanaryMod = WordMod /\ MaxBlock \in Nat
  BY <1>1 DEF MaxBlock
<1>4. size * CanaryMod + canary(ptr) \in 0 .. WordMod - 1
  <2>1. (size + 1) * CanaryMod <= MaxBlock * CanaryMod
    BY <1>1, <1>3
  <2>2. (size + 1) * CanaryMod = size * CanaryMod + CanaryMod
    BY <1>1
  <2>3. size * CanaryMod \in Nat
    BY <1>1
  <2> QED BY <2>1, <2>2, <2>3, <1>1, <1>2, <1>3
<1>5. canary_encode(ptr, size) = size * CanaryMod + canary(ptr)
  BY <1>1, <1>4 DEF canary_encode
<1> QED BY <1>1, <1>2, <1>4, <1>5, DivMod

\* A set of natural numbers has a least element.
LEMMA LeastNat ==
  ASSUME NEW T, T \subseteq Nat, T # {}
  PROVE  \E x \in T : \A y \in T : x <= y
<1>1. PICK x \in T : \A y \in T : ~ (<<y, x>> \in OpToRel(<, Nat))
  BY NatLessThanWellFounded, WFMin
<1>2. \A y \in T : ~ (y < x)
  BY <1>1 DEF OpToRel
<1> QED BY <1>2

-----------------------------------------------------------------------------
(* Granules, blocks and gaps. *)

LEMMA GranuleFacts ==
  /\ \A a : a \in Granules <=> a \in Nat /\ Low <= a /\ a < High /\ a % 8 = 0
  /\ \A a \in Granules : /\ a \in Words /\ NextField(a) \in Words
                         /\ NextField(a) = a + 4 /\ a + 8 <= High /\ a # NULL
  /\ \A w \in Words : w \in Nat /\ w # NULL
  BY HeapBounds DEF Granules, Words, NextField, WordBytes, MIN_BLOCK_SIZE, NULL

\* The two fields of different granules are different words.
LEMMA FieldsApart ==
  ASSUME NEW a \in Granules, NEW c \in Granules
  PROVE  /\ NextField(a) # c
         /\ NextField(a) = NextField(c) <=> a = c
         /\ a < c => a + 8 <= c
  BY GranuleFacts

LEMMA BlockFacts ==
  ASSUME RequestsFit, HeapInv, NEW b \in allocated
  PROVE  /\ b.at \in Granules /\ b.request \in Requests
         /\ End(b) \in Nat /\ End(b) % 8 = 0
         /\ b.at + 8 <= End(b) /\ End(b) <= High
         /\ b.at + 4 + b.request <= End(b)
<1>1. b.at \in Granules /\ b.request \in Requests /\ End(b) <= High
  BY DEF HeapInv, TypeOK, BlockInHeap
<1> QED BY <1>1, BlockSizeFacts, GranuleFacts DEF End

LEMMA GapFacts ==
  ASSUME HeapInv, NEW g \in Gaps
  PROVE  /\ g \in Granules /\ ~Used(g)
         /\ g = Low \/ Used(g - 8)
         /\ mem[g] \in Nat
         /\ GapEndsAt(g, g + mem[g])
         /\ FirstGapFrom(g + 1, mem[NextField(g)])
<1>1. g \in Granules /\ ~Used(g) /\ (g = Low \/ Used(g - 8))
  BY DEF Gaps, Granules, MIN_BLOCK_SIZE
<1>2. mem[g] \in Nat
  BY <1>1, GranuleFacts, HeapBounds DEF HeapInv, TypeOK
<1> QED BY <1>1, <1>2 DEF HeapInv, ListIsGaps

\* A gap is whole granules, and ends where a block starts or the heap ends.
LEMMA GapSpan ==
  ASSUME RequestsFit, HeapInv, NEW g \in Gaps
  PROVE  /\ 8 <= mem[g] /\ g + mem[g] <= High /\ (g + mem[g]) % 8 = 0
         /\ mem[g] % 8 = 0
         /\ g + mem[g] = High \/ \E b \in allocated : b.at = g + mem[g]
         /\ \A a \in Granules : g <= a /\ a < g + mem[g] => ~Used(a)
<1> DEFINE end == g + mem[g]
<1>1. /\ g \in Granules /\ ~Used(g) /\ mem[g] \in Nat /\ GapEndsAt(g, end)
  BY GapFacts
<1>2. \A a \in Granules : g <= a /\ a < end => ~Used(a)
  BY <1>1 DEF GapEndsAt, Granules
<1>3. CASE end = High
  BY <1>1, <1>2, <1>3, GranuleFacts, HeapBounds
<1>4. CASE end # High
  <2>1. PICK b \in allocated : b.at <= end /\ end < End(b)
    BY <1>1, <1>4 DEF GapEndsAt, Used
  <2>2. b.at \in Granules /\ End(b) \in Nat /\ b.at + 8 <= End(b) /\ End(b) <= High
    BY BlockFacts
  <2>3. Used(b.at)
    BY <2>2, GranuleFacts DEF Used
  <2>4. ~(g <= b.at /\ b.at < end)
    BY <1>2, <2>2, <2>3
  <2>5. ~(b.at <= g /\ g < End(b))
    BY <1>1 DEF Used
  <2>6. b.at = end
    BY <1>1, <2>1, <2>2, <2>4, <2>5, GranuleFacts
  <2>7. 8 <= mem[g]
    BY <1>1, <2>2, <2>3, <2>6, GranuleFacts
  <2>8. end % 8 = 0 /\ end <= High
    BY <2>2, <2>6, GranuleFacts, HeapBounds
  <2>9. mem[g] % 8 = 0
    BY <1>1, <2>8, GranuleFacts
  <2> QED BY <1>2, <2>6, <2>7, <2>8, <2>9
<1> QED BY <1>3, <1>4

\* No block reaches into a gap, and between two gaps there is a block.
LEMMA BlockBesideGap ==
  ASSUME RequestsFit, HeapInv, NEW g \in Gaps, NEW b \in allocated
  PROVE  End(b) <= g \/ g + mem[g] <= b.at
<1>1. /\ b.at \in Granules /\ End(b) \in Nat /\ b.at + 8 <= End(b)
      /\ g \in Granules /\ ~Used(g) /\ mem[g] \in Nat
  BY BlockFacts, GapFacts
<1>2. Used(b.at) /\ ~(b.at <= g /\ g < End(b))
  BY <1>1, GranuleFacts DEF Used
<1>3. ~(g <= b.at /\ b.at < g + mem[g])
  BY <1>1, <1>2, GapSpan
<1> QED BY <1>1, <1>2, <1>3, GranuleFacts

LEMMA GapsApart ==
  ASSUME RequestsFit, HeapInv, NEW g \in Gaps, NEW h \in Gaps, g < h
  PROVE  g + mem[g] < h
<1>1. g \in Granules /\ h \in Granules /\ mem[g] \in Nat
  BY GapFacts
<1>2. h = Low \/ Used(h - 8)
  BY GapFacts
<1>3. ~Used(h)
  BY GapFacts
<1>4. h # Low /\ h - 8 \in Granules /\ g <= h - 8
  BY <1>1, GranuleFacts, HeapBounds
<1>5. g + mem[g] <= h
  BY <1>1, <1>2, <1>4, GapSpan, GranuleFacts
<1>6. g + mem[g] # h
  <2>1. SUFFICES ASSUME g + mem[g] = h PROVE FALSE
    OBVIOUS
  <2>2. PICK b \in allocated : b.at = h
    BY <1>1, <2>1, GapSpan, GranuleFacts
  <2> QED BY <1>1, <1>3, <2>2, BlockFacts, GranuleFacts DEF Used
<1> QED BY <1>1, <1>5, <1>6, GranuleFacts

\* Every granule that is in no block is in a gap.
LEMMA GapAround ==
  ASSUME RequestsFit, HeapInv, NEW a \in Granules, ~Used(a)
  PROVE  \E g \in Gaps : g <= a /\ a < g + mem[g]
<1> DEFINE T == {x \in Granules : x <= a /\ \A y \in Granules : x <= y /\ y <= a => ~Used(y)}
<1>1. a \in T /\ T \subseteq Nat
  BY GranuleFacts
<1>2. PICK g \in T : \A y \in T : g <= y
  BY <1>1, LeastNat
<1>3. g \in Granules /\ g <= a /\ ~Used(g)
  BY <1>2, GranuleFacts
<1>4. g = Low \/ Used(g - 8)
  <2>1. SUFFICES ASSUME g # Low, ~Used(g - 8) PROVE FALSE
    OBVIOUS
  <2>2. g - 8 \in Granules /\ g - 8 < g
    BY <1>3, <2>1, GranuleFacts, HeapBounds
  <2>3. g - 8 \in T
    BY <1>2, <1>3, <2>1, <2>2, GranuleFacts
  <2> QED BY <1>2, <2>2, <2>3, GranuleFacts
<1>5. g \in Gaps
  BY <1>3, <1>4 DEF Gaps, Granules, MIN_BLOCK_SIZE
<1>6. a < g + mem[g]
  <2>1. SUFFICES ASSUME g + mem[g] <= a PROVE FALSE
    BY <1>5, GapFacts, GranuleFacts
  <2>2. PICK b \in allocated : b.at = g + mem[g]
    BY <1>5, <2>1, GapSpan, GapFacts, GranuleFacts
  <2>3. b.at \in Granules /\ Used(b.at)
    BY BlockFacts, GranuleFacts DEF Used
  <2>4. g <= b.at
    BY <1>3, <1>5, <2>2, GapFacts, GranuleFacts
  <2> QED BY <1>2, <2>1, <2>2, <2>3, <2>4
<1> QED BY <1>3, <1>5, <1>6

-----------------------------------------------------------------------------
(* The list: the first element of a set of places from an address on. *)

FirstFrom(S, a, ptr) ==
  IF ptr = NULL THEN \A g \in S : g < a
  ELSE ptr \in S /\ a <= ptr /\ \A g \in S : a <= g => ptr <= g

\* c is taken out of the list.
LEMMA FirstWithout ==
  ASSUME NEW S \in SUBSET (Nat \ {NULL}), NEW c \in S, NEW a \in Nat, NEW ptr \in Nat,
         FirstFrom(S, a, ptr)
  PROVE  /\ ptr # c => FirstFrom(S \ {c}, a, ptr)
         /\ ptr = c => \A q \in Nat : FirstFrom(S, c + 1, q) => FirstFrom(S \ {c}, a, q)
<1>1. c \in Nat
  OBVIOUS
<1>2. ptr # c => FirstFrom(S \ {c}, a, ptr)
  BY <1>1 DEF FirstFrom
<1>3. ASSUME ptr = c, NEW q \in Nat, FirstFrom(S, c + 1, q)
      PROVE  FirstFrom(S \ {c}, a, q)
  <2>1. a <= c /\ \A g \in Nat : g \in S /\ a <= g => c <= g
    BY <1>1, <1>3 DEF FirstFrom, NULL
  <2>2. \A g \in Nat : g \in S \ {c} => (a <= g <=> c + 1 <= g)
    BY <1>1, <2>1
  <2>3. CASE q = NULL
    BY <1>1, <1>3, <2>2, <2>3 DEF FirstFrom
  <2>4. CASE q # NULL
    BY <1>1, <1>3, <2>1, <2>2, <2>4 DEF FirstFrom
  <2> QED BY <2>3, <2>4
<1> QED BY <1>2, <1>3

\* n is put into the list.
LEMMA FirstWith ==
  ASSUME NEW S \in SUBSET (Nat \ {NULL}), NEW n \in Nat \ {NULL},
         NEW a \in Nat, NEW ptr \in Nat, FirstFrom(S, a, ptr)
  PROVE  /\ n < a \/ (ptr # NULL /\ ptr < n) => FirstFrom(S \cup {n}, a, ptr)
         /\ a <= n /\ (ptr = NULL \/ n < ptr) => FirstFrom(S \cup {n}, a, n)
<1>1. CASE ptr = NULL
  <2>1. \A g \in Nat : g \in S => g < a
    BY <1>1 DEF FirstFrom
  <2>2. n < a => FirstFrom(S \cup {n}, a, ptr)
    BY <1>1, <2>1 DEF FirstFrom
  <2>3. a <= n => \A g \in Nat : g \in S \cup {n} /\ a <= g => n <= g
    BY <2>1
  <2>4. a <= n => FirstFrom(S \cup {n}, a, n)
    BY <2>3 DEF FirstFrom
  <2> QED BY <1>1, <2>2, <2>4
<1>2. CASE ptr # NULL
  <2>1. ptr \in S /\ a <= ptr /\ \A g \in Nat : g \in S /\ a <= g => ptr <= g
    BY <1>2 DEF FirstFrom
  <2>2. n < a \/ ptr < n => \A g \in Nat : g \in S \cup {n} /\ a <= g => ptr <= g
    BY <2>1
  <2>3. n < a \/ ptr < n => FirstFrom(S \cup {n}, a, ptr)
    BY <1>2, <2>1, <2>2 DEF FirstFrom
  <2>4. a <= n /\ n < ptr => \A g \in Nat : g \in S \cup {n} /\ a <= g => n <= g
    BY <2>1
  <2>5. a <= n /\ n < ptr => FirstFrom(S \cup {n}, a, n)
    BY <2>4 DEF FirstFrom
  <2> QED BY <1>2, <2>3, <2>5
<1> QED BY <1>1, <1>2

\* n takes the place of c, the next place before it.
LEMMA FirstMoved ==
  ASSUME NEW S \in SUBSET (Nat \ {NULL}), NEW c \in S, NEW n \in Nat \ {NULL}, c < n,
         \A g \in S : g <= c \/ n < g,
         NEW a \in Nat, NEW ptr \in Nat, FirstFrom(S, a, ptr)
  PROVE  /\ ptr # c /\ (a <= c \/ n < a) => FirstFrom((S \ {c}) \cup {n}, a, ptr)
         /\ ptr = c => FirstFrom((S \ {c}) \cup {n}, a, n)
         /\ a = c + 1 => FirstFrom((S \ {c}) \cup {n}, n + 1, ptr)
<1>1. c \in Nat /\ S \ {c} \in SUBSET (Nat \ {NULL})
  OBVIOUS
<1>2. ASSUME ptr # c, a <= c \/ n < a
      PROVE  FirstFrom((S \ {c}) \cup {n}, a, ptr)
  <2>1. FirstFrom(S \ {c}, a, ptr)
    BY <1>2, FirstWithout
  <2>2. CASE n < a
    BY <1>1, <2>1, <2>2, FirstWith
  <2>3. CASE a <= c
    <3>1. ptr # NULL /\ ptr <= c
      BY <1>1, <2>3 DEF FirstFrom
    <3> QED BY <1>1, <2>1, <3>1, FirstWith
  <2> QED BY <1>2, <2>2, <2>3
<1>3. ASSUME ptr = c
      PROVE  FirstFrom((S \ {c}) \cup {n}, a, n)
  <2>1. a <= c /\ \A g \in Nat : g \in S /\ a <= g => c <= g
    BY <1>1, <1>3 DEF FirstFrom
  <2>2. \A g \in Nat : g \in (S \ {c}) \cup {n} /\ a <= g => n <= g
    BY <1>1, <2>1
  <2> QED BY <1>1, <2>1, <2>2 DEF FirstFrom
<1>4. ASSUME a = c + 1
      PROVE  FirstFrom((S \ {c}) \cup {n}, n + 1, ptr)
  <2>1. CASE ptr = NULL
    <3>1. \A g \in Nat : g \in S => g < n + 1
      BY <1>1, <1>4, <2>1 DEF FirstFrom
    <3> QED BY <2>1, <3>1 DEF FirstFrom
  <2>2. CASE ptr # NULL
    <3>1. ptr \in S /\ c < ptr /\ \A g \in Nat : g \in S /\ c < g => ptr <= g
      BY <1>1, <1>4, <2>2 DEF FirstFrom
    <3>2. n < ptr
      BY <1>1, <3>1
    <3>3. \A g \in Nat : g \in (S \ {c}) \cup {n} /\ n + 1 <= g => ptr <= g
      BY <1>1, <3>1
    <3> QED BY <1>1, <2>2, <3>1, <3>2, <3>3 DEF FirstFrom
  <2> QED BY <2>1, <2>2
<1> QED BY <1>2, <1>3, <1>4

LEMMA FirstGaps ==
  /\ \A a, ptr : FirstGapFrom(a, ptr) <=> FirstFrom(Gaps, a, ptr)
  /\ Gaps \in SUBSET (Nat \ {NULL})
<1>1. Gaps \subseteq Words
  BY DEF Gaps
<1> QED BY <1>1, GranuleFacts DEF FirstGapFrom, FirstFrom

\* Where the walk of a call is.
LEMMA OnListFacts ==
  ASSUME RequestsFit, HeapInv, Walk, call.op # "none"
  PROVE  /\ curr # NULL => curr \in Gaps
         /\ prev = NULL => curr = first_block /\ \A g \in Gaps : curr # NULL /\ curr <= g
         /\ prev # NULL => /\ prev \in Gaps /\ curr = mem[NextField(prev)]
                           /\ curr # NULL => prev + mem[prev] < curr
                           /\ \A g \in Gaps : g <= prev \/ (curr # NULL /\ curr <= g)
<1>1. OnList /\ FirstGapFrom(Low, first_block)
  BY DEF Walk, HeapInv, ListIsGaps
<1>2. \A g \in Gaps : g \in Nat /\ Low <= g
  BY GapFacts, GranuleFacts
<1>3. CASE prev = NULL
  BY <1>1, <1>2, <1>3, HeapBounds DEF OnList, FirstGapFrom
<1>4. CASE prev # NULL
  <2>1. prev \in Gaps /\ curr = mem[NextField(prev)]
    BY <1>1, <1>4 DEF OnList
  <2>2. FirstGapFrom(prev + 1, curr)
    BY <2>1, GapFacts
  <2>3. curr # NULL => curr \in Gaps /\ prev < curr
    BY <2>1, <2>2, <1>2 DEF FirstGapFrom
  <2>4. curr # NULL => prev + mem[prev] < curr
    BY <2>1, <2>3, GapsApart
  <2>5. \A g \in Gaps : g <= prev \/ (curr # NULL /\ curr <= g)
    BY <2>1, <2>2, <1>2 DEF FirstGapFrom
  <2> QED BY <1>4, <2>1, <2>3, <2>4, <2>5
<1> QED BY <1>3, <1>4

-----------------------------------------------------------------------------
(* domain_malloc takes the front of a gap. *)

LEMMA GapIs ==
  /\ \A a : a \in Gaps <=> a \in Granules /\ ~Used(a) /\ (a = Low \/ Used(a - 8))
  /\ \A a : a \in Gaps' <=> a \in Granules /\ ~Used(a)' /\ (a = Low \/ Used(a - 8)')
  BY DEF Gaps, Granules, MIN_BLOCK_SIZE

LEMMA FoundFacts ==
  ASSUME RequestsFit, HeapInv, Walk, Found
  PROVE  /\ curr \in Gaps /\ curr \in Granules /\ call.request \in Requests
         /\ Requested \in Nat /\ Requested % 8 = 0 /\ 8 <= Requested
         /\ Requested < MaxBlock /\ Requested <= mem[curr] /\ mem[curr] \in Nat
         /\ mem[curr] # Requested => Requested + 8 <= mem[curr]
<1>1. call.op = "malloc" /\ curr # NULL /\ ~TooLarge /\ mem[curr] >= Requested
  BY DEF Found
<1>2. call.request \in Requests
  BY <1>1 DEF HeapInv, TypeOK, None
<1>3. curr \in Gaps
  BY <1>1, OnListFacts
<1>4. curr \in Granules /\ mem[curr] \in Nat /\ mem[curr] % 8 = 0
  BY <1>3, GapFacts, GapSpan
<1>5. Requested \in Nat /\ Requested % 8 = 0 /\ 8 <= Requested
  BY <1>2, BlockSizeFacts DEF Requested
<1>6. MaxBlock \in Int
  BY HeapAssumption DEF MaxBlock
<1> QED BY <1>1, <1>2, <1>3, <1>4, <1>5, <1>6 DEF TooLarge

LEMMA UsedHanded ==
  ASSUME allocated' = allocated \cup {[at |-> curr, request |-> call.request]}
  PROVE  \A a : Used(a)' <=> Used(a) \/ (curr <= a /\ a < curr + Requested)
<1> DEFINE nb == [at |-> curr, request |-> call.request]
<1>1. nb.at = curr /\ End(nb) = curr + Requested
  BY DEF End, Requested
<1>2. \A a : Used(a)' <=> \E b \in allocated \cup {nb} : b.at <= a /\ a < End(b)
  BY DEF Used, End
<1> HIDE DEF nb
<1> QED BY <1>1, <1>2 DEF Used

LEMMA GapsHanded ==
  ASSUME RequestsFit, HeapInv, Walk, Found,
         allocated' = allocated \cup {[at |-> curr, request |-> call.request]}
  PROVE  /\ mem[curr] = Requested => Gaps' = Gaps \ {curr}
         /\ mem[curr] # Requested =>
              /\ Gaps' = (Gaps \ {curr}) \cup {curr + Requested}
              /\ curr + Requested \in Granules
              /\ \A g \in Gaps : g <= curr \/ curr + mem[curr] < g
<1> DEFINE s == Requested
<1>0. PICK n : n = curr + Requested
  OBVIOUS
<1>1. /\ curr \in Gaps /\ curr \in Granules /\ s \in Nat /\ s % 8 = 0 /\ 8 <= s
      /\ s <= mem[curr] /\ mem[curr] \in Nat /\ (mem[curr] # s => s + 8 <= mem[curr])
  BY FoundFacts
<1>2. /\ curr + mem[curr] <= High /\ ~Used(curr)
      /\ \A a \in Granules : curr <= a /\ a < curr + mem[curr] => ~Used(a)
      /\ curr = Low \/ Used(curr - 8)
  BY <1>1, GapSpan, GapFacts
<1>3. \A g \in Gaps : g <= curr \/ curr + mem[curr] < g
  BY <1>1, GapsApart, GapFacts, GranuleFacts
<1>4. ASSUME NEW a \in Granules
      PROVE  /\ Used(a)' <=> Used(a) \/ (curr <= a /\ a < n)
             /\ Used(a - 8)' <=> Used(a - 8) \/ (curr <= a - 8 /\ a - 8 < n)
             /\ a - 8 < n <=> a <= n
             /\ a <= curr \/ curr <= a - 8
             /\ a \in Nat
  BY <1>0, <1>1, UsedHanded, GranuleFacts
<1>5. ASSUME NEW a \in Granules, a # curr, a # n
      PROVE  a \in Gaps' <=> a \in Gaps
  <2>1. a \in Gaps <=> ~Used(a) /\ (a = Low \/ Used(a - 8))
    BY GapIs
  <2>2. a \in Gaps' <=> ~Used(a)' /\ (a = Low \/ Used(a - 8)')
    BY GapIs
  <2>3. CASE a < curr \/ n < a
    <3>1. (Used(a)' <=> Used(a)) /\ (Used(a - 8)' <=> Used(a - 8))
      BY <1>0, <1>1, <1>4, <2>3, GranuleFacts
    <3> QED BY <2>1, <2>2, <3>1
  <2>4. CASE curr < a /\ a < n
    <3>1. Used(a)' /\ a <= curr + mem[curr]
      BY <1>0, <1>1, <1>4, <2>4, GranuleFacts
    <3>2. a \notin Gaps
      BY <1>0, <1>1, <1>3, <1>4, <2>4, <3>1, GranuleFacts
    <3> QED BY <2>2, <3>1, <3>2
  <2> QED BY <1>0, <1>1, <1>4, <1>5, <2>3, <2>4, GranuleFacts
<1>6. curr \notin Gaps'
  BY <1>0, <1>1, <1>4, GapIs, GranuleFacts
<1>7. \A a : a \in Gaps \/ a \in Gaps' => a \in Granules
  BY GapIs
<1>8. CASE mem[curr] = s
  <2>1. n \notin Gaps'
    <3>1. SUFFICES ASSUME n \in Granules PROVE Used(n)'
      BY GapIs
    <3>2. PICK b \in allocated : b.at = n
      BY <1>0, <1>1, <1>8, <3>1, GapSpan, GranuleFacts
    <3>3. Used(n)
      BY <3>2, BlockFacts, GranuleFacts DEF Used
    <3> QED BY <1>4, <3>1, <3>3
  <2>2. n \notin Gaps
    BY <1>0, <1>1, <1>3, <1>8, GranuleFacts
  <2> QED BY <1>0, <1>5, <1>6, <1>7, <1>8, <2>1, <2>2
<1>9. CASE mem[curr] # s
  <2>1. n \in Granules /\ n # curr /\ ~Used(n)
    BY <1>0, <1>1, <1>2, <1>9, GranuleFacts, HeapBounds
  <2>2. n \in Gaps'
    BY <1>0, <1>1, <1>4, <2>1, GapIs, GranuleFacts
  <2> QED BY <1>0, <1>3, <1>5, <1>6, <1>7, <1>9, <2>1, <2>2
<1> QED BY <1>8, <1>9

\* Only what comes before curr in the list points to it.
LEMMA PrevOnly ==
  ASSUME RequestsFit, HeapInv, Walk, call.op # "none", curr # NULL
  PROVE  /\ \A g \in Gaps : mem[NextField(g)] = curr <=> g = prev
         /\ first_block = curr <=> prev = NULL
<1>1. /\ curr \in Gaps
      /\ prev = NULL => curr = first_block /\ \A g \in Gaps : curr <= g
      /\ prev # NULL => /\ prev \in Gaps /\ curr = mem[NextField(prev)]
                        /\ prev + mem[prev] < curr
                        /\ \A g \in Gaps : g <= prev \/ curr <= g
  BY OnListFacts
<1>2. \A g \in Gaps : g \in Nat /\ Low <= g /\ g # NULL /\ mem[g] \in Nat
  BY GapFacts, GranuleFacts
<1>3. ASSUME NEW g \in Gaps, mem[NextField(g)] = curr
      PROVE  g = prev
  <2>1. FirstGapFrom(g + 1, curr)
    BY <1>3, GapFacts
  <2>2. g + 1 <= curr /\ \A h \in Gaps : g + 1 <= h => curr <= h
    BY <2>1, <1>2 DEF FirstGapFrom
  <2>3. prev # NULL
    BY <1>1, <1>2, <2>2
  <2>4. g <= prev
    BY <1>1, <1>2, <2>2, <2>3
  <2>5. prev <= g
    BY <1>1, <1>2, <2>2, <2>3
  <2> QED BY <1>1, <1>2, <2>3, <2>4, <2>5
<1>4. first_block = curr => prev = NULL
  <2>1. SUFFICES ASSUME first_block = curr, prev # NULL PROVE FALSE
    OBVIOUS
  <2>2. FirstGapFrom(Low, curr)
    BY <2>1 DEF HeapInv, ListIsGaps
  <2>3. curr <= prev
    BY <1>1, <1>2, <2>1, <2>2 DEF FirstGapFrom
  <2> QED BY <1>1, <1>2, <2>1, <2>3
<1> QED BY <1>1, <1>2, <1>3, <1>4

\* The words that a hand-out changes.
LEMMA TakeWholeMemory ==
  ASSUME RequestsFit, HeapInv, Walk, TakeWhole
  PROVE  /\ mem' \in [Words -> 0 .. WordMod - 1]
         /\ \A w \in Words :
              mem'[w] = IF w = curr THEN canary_encode(curr, Requested)
                        ELSE IF prev # NULL /\ w = NextField(prev) THEN mem[NextField(curr)]
                        ELSE mem[w]
<1>1. /\ Found /\ mem[curr] = Requested
      /\ mem' = [Relinked(mem, mem[NextField(curr)]) EXCEPT
                   ![curr] = canary_encode(curr, Requested)]
  BY DEF TakeWhole, Handed
<1>2. /\ curr \in Granules /\ Requested \in Nat /\ Requested < MaxBlock
      /\ curr \in Words /\ NextField(curr) \in Words
  BY <1>1, FoundFacts, GranuleFacts
<1>3. canary_encode(curr, Requested) \in 0 .. WordMod - 1
  BY <1>2, Decode, GranuleFacts
<1>4. mem \in [Words -> 0 .. WordMod - 1]
  BY DEF HeapInv, TypeOK
<1>5. prev # NULL => NextField(prev) \in Words
  BY <1>1, OnListFacts, GapFacts, GranuleFacts DEF Found
<1>6. /\ Relinked(mem, mem[NextField(curr)]) \in [Words -> 0 .. WordMod - 1]
      /\ \A w \in Words : Relinked(mem, mem[NextField(curr)])[w] =
           IF prev # NULL /\ w = NextField(prev) THEN mem[NextField(curr)] ELSE mem[w]
  BY <1>2, <1>4, <1>5 DEF Relinked
<1> QED BY <1>1, <1>2, <1>3, <1>6

LEMMA SplitMemory ==
  ASSUME RequestsFit, HeapInv, Walk, Split
  PROVE  /\ mem' \in [Words -> 0 .. WordMod - 1]
         /\ \A w \in Words :
              mem'[w] = IF w = curr THEN canary_encode(curr, Requested)
                        ELSE IF prev # NULL /\ w = NextField(prev) THEN curr + Requested
                        ELSE IF w = curr + Requested THEN mem[curr] - Requested
                        ELSE IF w = NextField(curr + Requested) THEN mem[NextField(curr)]
                        ELSE mem[w]
<1> DEFINE n == curr + Requested
           memory == [mem EXCEPT ![n] = mem[curr] - Requested,
                                 ![NextField(n)] = mem[NextField(curr)]]
<1>1. /\ Found /\ mem[curr] # Requested
      /\ mem' = [Relinked(memory, n) EXCEPT ![curr] = canary_encode(curr, Requested)]
  BY DEF Split, Handed
<1>2. /\ curr \in Granules /\ Requested \in Nat /\ Requested < MaxBlock
      /\ curr \in Words /\ NextField(curr) \in Words
      /\ mem[curr] \in Nat /\ Requested <= mem[curr]
  BY <1>1, FoundFacts, GranuleFacts
<1>3. canary_encode(curr, Requested) \in 0 .. WordMod - 1
  BY <1>2, Decode, GranuleFacts
<1>4. mem \in [Words -> 0 .. WordMod - 1]
  BY DEF HeapInv, TypeOK
<1>5. prev # NULL => NextField(prev) \in Words
  BY <1>1, OnListFacts, GapFacts, GranuleFacts DEF Found
<1>6. n \in Granules
  <2>1. allocated' = allocated \cup {[at |-> curr, request |-> call.request]}
    BY DEF Split, Handed
  <2> QED BY <1>1, <2>1, GapsHanded
<1>7. n \in Words /\ NextField(n) \in Words /\ n # NextField(n) /\ n \in 0 .. WordMod - 1
  BY <1>6, GranuleFacts, HeapBounds
<1>8. mem[curr] - Requested \in 0 .. WordMod - 1
  BY <1>2, <1>4, HeapBounds
<1>9. /\ memory \in [Words -> 0 .. WordMod - 1]
      /\ \A w \in Words : memory[w] = IF w = n THEN mem[curr] - Requested
                                     ELSE IF w = NextField(n) THEN mem[NextField(curr)]
                                     ELSE mem[w]
  BY <1>2, <1>4, <1>7, <1>8
<1> HIDE DEF memory, n
<1>10. /\ Relinked(memory, n) \in [Words -> 0 .. WordMod - 1]
       /\ \A w \in Words : Relinked(memory, n)[w] =
            IF prev # NULL /\ w = NextField(prev) THEN n ELSE memory[w]
  BY <1>5, <1>7, <1>9 DEF Relinked
<1>11. \A w \in Words :
         mem'[w] = IF w = curr THEN canary_encode(curr, Requested)
                   ELSE IF prev # NULL /\ w = NextField(prev) THEN n
                   ELSE IF w = n THEN mem[curr] - Requested
                   ELSE IF w = NextField(n) THEN mem[NextField(curr)]
                   ELSE mem[w]
  BY <1>1, <1>2, <1>3, <1>9, <1>10
<1>12. mem' \in [Words -> 0 .. WordMod - 1]
  BY <1>1, <1>2, <1>3, <1>10
<1> QED BY <1>11, <1>12 DEF n

\* A place is neither in the middle of another's fields nor the same as them.
LEMMA HandedWords ==
  ASSUME RequestsFit, HeapInv, Walk, Found, NEW g \in Gaps, g # curr
  PROVE  /\ g \in Words /\ NextField(g) \in Words
         /\ g # NextField(curr) /\ NextField(g) # curr /\ NextField(g) # NextField(curr)
         /\ prev # NULL => g # NextField(prev) /\ (NextField(g) = NextField(prev) <=> g = prev)
<1>1. g \in Granules /\ curr \in Granules /\ (prev # NULL => prev \in Granules)
  BY FoundFacts, OnListFacts, GapFacts DEF Found
<1> QED BY <1>1, FieldsApart, GranuleFacts

LEMMA BlocksHanded ==
  ASSUME RequestsFit, HeapInv, Walk, Found,
         allocated' = allocated \cup {[at |-> curr, request |-> call.request]},
         \A b \in allocated : mem'[b.at] = mem[b.at],
         mem'[curr] = canary_encode(curr, Requested)
  PROVE  (\A b \in allocated : BlockInHeap(b))' /\ BlocksApart'
<1> DEFINE nb == [at |-> curr, request |-> call.request]
<1>1. /\ curr \in Gaps /\ curr \in Granules /\ Requested <= mem[curr]
      /\ Requested < MaxBlock /\ Requested \in Nat /\ mem[curr] \in Nat
  BY FoundFacts
<1>2. PICK new : new = nb
  OBVIOUS
<1>3. new.at = curr /\ BlockSize(new.request) = Requested /\ End(new) = curr + Requested
  BY <1>2 DEF End, Requested
<1>4. allocated' = allocated \cup {new}
  BY <1>2
<1>5. End(new) <= curr + mem[curr] /\ curr + mem[curr] <= High /\ End(new) \in Nat
  BY <1>1, <1>3, GapSpan, GranuleFacts
<1>6. BlockInHeap(new)'
  BY <1>1, <1>3, <1>5, GranuleFacts, HeapBounds DEF BlockInHeap, HeaderOf
<1>7. ASSUME NEW b \in allocated PROVE BlockInHeap(b)'
  BY <1>7 DEF BlockInHeap, HeapInv
<1>8. ASSUME NEW b \in allocated PROVE End(b) <= new.at \/ End(new) <= b.at
  BY <1>1, <1>3, <1>5, BlockBesideGap, BlockFacts, GranuleFacts
<1>9. BlocksApart'
  BY <1>4, <1>8 DEF BlocksApart, HeapInv
<1> QED BY <1>4, <1>6, <1>7, <1>9

LEMMA GapEndIs ==
  /\ \A a, e : GapEndsAt(a, e) <=> /\ e = High \/ Used(e)
                                  /\ \A w \in Words : a <= w /\ w < e => ~Used(w)
  /\ \A a, e : GapEndsAt(a, e)' <=> /\ e = High \/ Used(e)'
                                   /\ \A w \in Words : a <= w /\ w < e => ~Used(w)'
  /\ \A a, ptr : FirstGapFrom(a, ptr)' <=> FirstFrom(Gaps', a, ptr)
  BY DEF GapEndsAt, FirstGapFrom, FirstFrom

LEMMA GapEndHanded ==
  ASSUME RequestsFit, HeapInv, Walk, Found,
         allocated' = allocated \cup {[at |-> curr, request |-> call.request]},
         NEW a \in Nat, NEW e \in Nat,
         e = High \/ Used(e), \A w \in Words : a <= w /\ w < e => ~Used(w),
         e <= curr \/ curr + Requested <= a
  PROVE  GapEndsAt(a, e)'
<1>1. /\ \A w \in Words : w \in Nat
      /\ curr \in Nat /\ Requested \in Nat
  BY FoundFacts, GranuleFacts
<1>2. \A w : Used(w)' <=> Used(w) \/ (curr <= w /\ w < curr + Requested)
  BY UsedHanded
<1>3. \A w \in Words : a <= w /\ w < e => ~Used(w)'
  BY <1>1, <1>2
<1> QED BY <1>2, <1>3, GapEndIs

\* The gap of another place stays as it is.
LEMMA OtherGapHanded ==
  ASSUME RequestsFit, HeapInv, Walk, Found,
         allocated' = allocated \cup {[at |-> curr, request |-> call.request]},
         NEW g \in Gaps, g # curr, mem'[g] = mem[g]
  PROVE  GapEndsAt(g, g + mem[g])'
<1>1. PICK e : e = g + mem[g]
  OBVIOUS
<1>2. /\ g \in Nat /\ mem[g] \in Nat /\ e \in Nat /\ GapEndsAt(g, e)
      /\ curr \in Gaps /\ curr \in Nat /\ mem[curr] \in Nat
      /\ Requested \in Nat /\ Requested <= mem[curr]
  BY <1>1, GapFacts, FoundFacts, GranuleFacts
<1>3. e <= curr \/ curr + Requested <= g
  <2>1. g < curr => e < curr
    BY <1>1, <1>2, GapsApart
  <2>2. curr < g => curr + mem[curr] < g
    BY <1>2, GapsApart
  <2> QED BY <1>2, <2>1, <2>2
<1>4. GapEndsAt(g, e)'
  BY <1>2, <1>3, GapEndHanded, GapEndIs
<1> QED BY <1>1, <1>4 DEF GapEndsAt

LEMMA ListTakeWhole ==
  ASSUME RequestsFit, HeapInv, Walk, TakeWhole
  PROVE  ListIsGaps'
<1>1. /\ Found /\ mem[curr] = Requested
      /\ allocated' = allocated \cup {[at |-> curr, request |-> call.request]}
      /\ first_block' = IF prev = NULL THEN mem[NextField(curr)] ELSE first_block
  BY DEF TakeWhole, Handed
<1>2. Gaps' = Gaps \ {curr} /\ curr \in Gaps
  BY <1>1, GapsHanded, FoundFacts
<1>3. call.op # "none" /\ curr # NULL
  BY <1>1 DEF Found
<1>4. \A g \in Gaps : mem[NextField(g)] \in Nat /\ FirstFrom(Gaps, g + 1, mem[NextField(g)])
  <2> TAKE g \in Gaps
  <2>1. NextField(g) \in Words
    BY GapFacts, GranuleFacts
  <2>2. mem[NextField(g)] \in Nat
    BY <2>1, HeapBounds DEF HeapInv, TypeOK
  <2> QED BY <2>2, GapFacts, FirstGaps
<1>5. ASSUME NEW a \in Nat, NEW ptr \in Nat, FirstFrom(Gaps, a, ptr)
      PROVE  FirstFrom(Gaps', a, IF ptr = curr THEN mem[NextField(curr)] ELSE ptr)
  BY <1>2, <1>4, <1>5, FirstWithout, FirstGaps
<1>6. ASSUME NEW g \in Gaps, g # curr
      PROVE  /\ GapEndsAt(g, g + mem[g])'
             /\ FirstGapFrom(g + 1, mem[NextField(g)])'
  <2>1. /\ mem'[g] = mem[g]
        /\ mem'[NextField(g)] = IF g = prev THEN mem[NextField(curr)] ELSE mem[NextField(g)]
    BY <1>1, <1>6, HandedWords, TakeWholeMemory, GapFacts, GranuleFacts
  <2>2. mem[NextField(g)] = curr <=> g = prev
    BY <1>3, PrevOnly
  <2>3. PICK ptr : ptr = mem'[NextField(g)]
    OBVIOUS
  <2>4. FirstFrom(Gaps', g + 1, ptr)
    BY <1>4, <1>5, <2>1, <2>2, <2>3, GapFacts, GranuleFacts
  <2>5. FirstGapFrom(g + 1, ptr)'
    BY <2>4, GapEndIs
  <2> QED BY <1>1, <1>6, <2>1, <2>3, <2>5, OtherGapHanded
<1>7. FirstGapFrom(Low, first_block)'
  <2>1. FirstFrom(Gaps, Low, first_block) /\ first_block \in Nat
    BY FirstGaps, GranuleFacts DEF HeapInv, ListIsGaps, TypeOK, NULL
  <2>2. first_block = curr <=> prev = NULL
    BY <1>3, PrevOnly
  <2>3. PICK ptr : ptr = first_block'
    OBVIOUS
  <2>4. FirstFrom(Gaps', Low, ptr)
    BY <1>1, <1>5, <2>1, <2>2, <2>3, HeapBounds
  <2>5. FirstGapFrom(Low, ptr)'
    BY <2>4, GapEndIs
  <2> QED BY <2>3, <2>5
<1> QED BY <1>2, <1>6, <1>7 DEF ListIsGaps

LEMMA ListSplit ==
  ASSUME RequestsFit, HeapInv, Walk, Split
  PROVE  ListIsGaps'
<1>0. PICK n : n = curr + Requested
  OBVIOUS
<1>1. /\ Found /\ mem[curr] # Requested
      /\ allocated' = allocated \cup {[at |-> curr, request |-> call.request]}
      /\ first_block' = IF prev = NULL THEN n ELSE first_block
  BY <1>0 DEF Split, Handed
<1>2. /\ Gaps' = (Gaps \ {curr}) \cup {n} /\ n \in Granules
      /\ \A g \in Gaps : g <= curr \/ curr + mem[curr] < g
  BY <1>0, <1>1, GapsHanded
<1>3. /\ call.op # "none" /\ curr # NULL
      /\ curr \in Gaps /\ curr \in Granules /\ Requested \in Nat /\ mem[curr] \in Nat
      /\ 8 <= Requested /\ Requested + 8 <= mem[curr]
  BY <1>1, FoundFacts DEF Found
<1>4. \A g \in Gaps : mem[NextField(g)] \in Nat /\ FirstFrom(Gaps, g + 1, mem[NextField(g)])
  <2> TAKE g \in Gaps
  <2>1. NextField(g) \in Words
    BY GapFacts, GranuleFacts
  <2>2. mem[NextField(g)] \in Nat
    BY <2>1, HeapBounds DEF HeapInv, TypeOK
  <2> QED BY <2>2, GapFacts, FirstGaps
<1>5. /\ curr < n /\ n \in Nat \ {NULL} /\ n \notin Gaps /\ curr \in Nat
      /\ \A g \in Gaps : g \in Nat /\ (g <= curr \/ n < g)
  BY <1>0, <1>2, <1>3, GranuleFacts, GapFacts
<1>6. ASSUME NEW a \in Nat, NEW ptr \in Nat, FirstFrom(Gaps, a, ptr), a <= curr \/ n < a
      PROVE  FirstFrom(Gaps', a, IF ptr = curr THEN n ELSE ptr)
  BY <1>2, <1>3, <1>5, <1>6, FirstMoved, FirstGaps
<1>7. ASSUME NEW g \in Gaps, g # curr
      PROVE  /\ GapEndsAt(g, g + mem[g])'
             /\ FirstGapFrom(g + 1, mem[NextField(g)])'
  <2>1. /\ g \in Granules /\ g # n /\ g # NextField(n) /\ NextField(g) # n
        /\ NextField(g) # NextField(n)
    BY <1>2, <1>5, GapFacts, FieldsApart
  <2>2. /\ mem'[g] = mem[g]
        /\ mem'[NextField(g)] = IF g = prev THEN n ELSE mem[NextField(g)]
    BY <1>0, <1>1, <1>7, <2>1, HandedWords, SplitMemory, GranuleFacts
  <2>3. mem[NextField(g)] = curr <=> g = prev
    BY <1>3, PrevOnly
  <2>4. PICK ptr : ptr = mem'[NextField(g)]
    OBVIOUS
  <2>5. g + 1 <= curr \/ n < g + 1
    BY <1>5, <1>7
  <2>6. FirstFrom(Gaps', g + 1, ptr)
    BY <1>4, <1>5, <1>6, <2>2, <2>3, <2>4, <2>5
  <2>7. FirstGapFrom(g + 1, ptr)'
    BY <2>6, GapEndIs
  <2> QED BY <1>1, <1>7, <2>2, <2>4, <2>7, OtherGapHanded
<1>8. GapEndsAt(n, n + mem[n])' /\ FirstGapFrom(n + 1, mem[NextField(n)])'
  <2>1. /\ n # curr /\ n # NextField(curr) /\ NextField(n) # curr
        /\ NextField(n) # NextField(curr) /\ n # NextField(n)
        /\ n \in Words /\ NextField(n) \in Words
    BY <1>2, <1>3, <1>5, FieldsApart, GranuleFacts
  <2>2. prev # NULL => /\ n # NextField(prev) /\ NextField(n) # NextField(prev)
    <3>1. prev # NULL => prev \in Gaps /\ prev \in Granules
      BY <1>3, OnListFacts, GapFacts
    <3> QED BY <3>1, <1>2, <1>5, FieldsApart
  <2>3. mem'[n] = mem[curr] - Requested /\ mem'[NextField(n)] = mem[NextField(curr)]
    BY <1>0, <2>1, <2>2, SplitMemory
  <2>4. PICK e, ptr : e = curr + mem[curr] /\ ptr = mem[NextField(curr)]
    OBVIOUS
  <2>5. /\ e = High \/ Used(e)
        /\ \A w \in Words : curr <= w /\ w < e => ~Used(w)
    BY <1>3, <2>4, GapFacts, GapEndIs
  <2>6. \A w \in Words : n <= w /\ w < e => ~Used(w)
    BY <1>5, <2>5, GranuleFacts
  <2>7. GapEndsAt(n, e)'
    BY <1>0, <1>1, <1>3, <1>5, <2>4, <2>5, <2>6, GapEndHanded
  <2>8. FirstGapFrom(n + 1, ptr)'
    <3>1. /\ ptr \in Nat /\ curr + 1 \in Nat /\ FirstFrom(Gaps, curr + 1, ptr)
          /\ Gaps \in SUBSET (Nat \ {NULL})
      BY <1>3, <1>4, <1>5, <2>4, FirstGaps
    <3>2. \A a \in Nat : FirstFrom(Gaps, a, ptr) /\ a = curr + 1
                          => FirstFrom((Gaps \ {curr}) \cup {n}, n + 1, ptr)
      BY <1>3, <1>5, <3>1, FirstMoved
    <3>3. FirstFrom(Gaps', n + 1, ptr)
      BY <1>2, <3>1, <3>2
    <3> QED BY <3>3, GapEndIs
  <2>9. n + mem'[n] = e
    BY <1>0, <1>3, <1>5, <2>3, <2>4
  <2> QED BY <2>3, <2>4, <2>7, <2>8, <2>9
<1>9. FirstGapFrom(Low, first_block)'
  <2>1. FirstFrom(Gaps, Low, first_block) /\ first_block \in Nat
    BY FirstGaps, GranuleFacts DEF HeapInv, ListIsGaps, TypeOK, NULL
  <2>2. first_block = curr <=> prev = NULL
    BY <1>3, PrevOnly
  <2>3. PICK ptr : ptr = first_block'
    OBVIOUS
  <2>4. FirstFrom(Gaps', Low, ptr)
    BY <1>1, <1>3, <1>5, <1>6, <2>1, <2>2, <2>3, HeapBounds, GranuleFacts
  <2>5. FirstGapFrom(Low, ptr)'
    BY <2>4, GapEndIs
  <2> QED BY <2>3, <2>5
<1> QED BY <1>2, <1>7, <1>8, <1>9 DEF ListIsGaps

\* A block covers the words of a granule together; what a block has is used.
LEMMA UsedWords ==
  ASSUME RequestsFit, HeapInv
  PROVE  /\ \A a \in Granules : Used(NextField(a)) <=> Used(a)
         /\ \A b \in allocated : b.at \in Words /\ Used(b.at)
         /\ \A b \in allocated : \A w \in DataWords(b) : w \in Words /\ Used(w)
<1>1. \A b \in allocated : /\ b.at \in Granules /\ End(b) \in Nat /\ End(b) % 8 = 0
                           /\ b.at + 8 <= End(b) /\ b.at + 4 + b.request <= End(b)
                           /\ b.request \in Nat
  BY BlockFacts, BlockSizeFacts
<1>2. ASSUME NEW a \in Granules PROVE Used(NextField(a)) <=> Used(a)
  <2>1. ASSUME NEW b \in allocated
        PROVE  b.at <= NextField(a) /\ NextField(a) < End(b) <=> b.at <= a /\ a < End(b)
    BY <1>1, GranuleFacts
  <2> QED BY <2>1 DEF Used
<1>3. \A b \in allocated : b.at \in Words /\ Used(b.at)
  BY <1>1, GranuleFacts DEF Used
<1>4. ASSUME NEW b \in allocated, NEW w \in DataWords(b) PROVE w \in Words /\ Used(w)
  <2>1. w \in Words /\ b.at + 4 <= w /\ w <= b.at + b.request
    BY DEF DataWords, WordBytes
  <2>2. b.at <= w /\ w < End(b)
    BY <1>1, <2>1, GranuleFacts
  <2> QED BY <2>1, <2>2 DEF Used
<1> QED BY <1>2, <1>3, <1>4

\* A hand-out changes no word that is in a block.
LEMMA HandedKeeps ==
  ASSUME RequestsFit, HeapInv, Walk, TakeWhole \/ Split
  PROVE  /\ mem' \in [Words -> 0 .. WordMod - 1]
         /\ mem'[curr] = canary_encode(curr, Requested)
         /\ \A w \in Words : Used(w) => mem'[w] = mem[w]
<1>1. /\ Found
      /\ allocated' = allocated \cup {[at |-> curr, request |-> call.request]}
  BY DEF TakeWhole, Split, Handed
<1>2. /\ curr \in Granules /\ ~Used(curr) /\ curr \in Words
      /\ prev # NULL => prev \in Granules /\ ~Used(prev)
      /\ call.op # "none"
  BY <1>1, FoundFacts, OnListFacts, GapFacts, GranuleFacts DEF Found
<1>3. prev # NULL => ~Used(NextField(prev))
  BY <1>2, UsedWords
<1>4. CASE TakeWhole
  BY <1>2, <1>3, <1>4, TakeWholeMemory
<1>5. CASE Split
  <2>1. PICK n : n = curr + Requested
    OBVIOUS
  <2>2. mem[curr] # Requested
    BY <1>5 DEF Split
  <2>3. n \in Granules
    BY <1>1, <2>1, <2>2, GapsHanded
  <2>4. ~Used(n)
    BY <1>1, <1>2, <2>1, <2>2, <2>3, FoundFacts, GapSpan, GranuleFacts
  <2>5. ~Used(NextField(n))
    BY <2>3, <2>4, UsedWords
  <2> QED BY <1>2, <1>3, <1>5, <2>1, <2>4, <2>5, SplitMemory
<1> QED BY <1>4, <1>5

\* The words of the list that are not NULL are words of the heap.
LEMMA ListHead ==
  ASSUME ListIsGaps' PROVE first_block' \in Words \cup {NULL}
<1>1. PICK ptr : ptr = first_block'
  OBVIOUS
<1>2. FirstFrom(Gaps', Low, ptr)
  BY <1>1, GapEndIs DEF ListIsGaps
<1> QED BY <1>1, <1>2, GapIs, GranuleFacts DEF FirstFrom

\* Between two calls there is no walk.
LEMMA IdleWalk ==
  ASSUME call' = None PROVE Walk'
  BY DEF Walk, None

LEMMA HandedInv ==
  ASSUME RequestsFit, HeapInv, Walk, TakeWhole \/ Split
  PROVE  IInv'
<1>1. /\ Found
      /\ allocated' = allocated \cup {[at |-> curr, request |-> call.request]}
      /\ call' = None /\ curr' = NULL /\ prev' = NULL /\ result' = curr + 4
  BY DEF TakeWhole, Split, Handed, Return, WordBytes
<1>2. ListIsGaps'
  BY ListTakeWhole, ListSplit
<1>3. (\A b \in allocated : BlockInHeap(b))' /\ BlocksApart'
  BY <1>1, HandedKeeps, UsedWords, BlocksHanded
<1>4. TypeOK'
  <2>1. curr \in Granules /\ call.request \in Requests
    BY <1>1, FoundFacts
  <2>2. allocated' \subseteq [at : Words, request : Requests]
    BY <1>1, <2>1, GranuleFacts DEF HeapInv, TypeOK
  <2>3. result' \in Nat
    BY <1>1, <2>1, GranuleFacts
  <2> QED BY <1>1, <1>2, <2>2, <2>3, HandedKeeps, ListHead DEF TypeOK
<1> QED BY <1>1, <1>2, <1>3, <1>4, IdleWalk DEF IInv, HeapInv

-----------------------------------------------------------------------------
(* free_memory puts a block between the gap before it and the gap after it. *)

Freed == call.block
MergesNext     == End(Freed) = curr
MergesPrevious == prev # NULL /\ prev + mem[prev] = block_ptr

\* The block with the gap after it, when they touch.
NewEnd  == IF MergesNext THEN curr + mem[curr] ELSE End(Freed)
NewNext == IF MergesNext THEN mem[NextField(curr)] ELSE curr

LEMMA FreedFacts ==
  ASSUME RequestsFit, HeapInv, Walk, call.op = "free", CanaryMatches
  PROVE  /\ Freed \in allocated /\ block_ptr = Freed.at /\ block_ptr \in Granules
         /\ mem[block_ptr] \div CanaryMod = BlockSize(Freed.request)
         /\ End(Freed) = block_ptr + BlockSize(Freed.request)
         /\ End(Freed) \in Nat /\ End(Freed) % 8 = 0
         /\ block_ptr + 8 <= End(Freed) /\ End(Freed) <= High
         /\ \A g \in Gaps : End(Freed) <= g \/ g + mem[g] <= block_ptr
<1>1. Freed \in allocated
  BY DEF HeapInv, TypeOK, None, Freed
<1>2. block_ptr = Freed.at
  BY DEF block_ptr, Freed
<1>3. /\ block_ptr \in Granules /\ End(Freed) \in Nat /\ End(Freed) % 8 = 0
      /\ block_ptr + 8 <= End(Freed) /\ End(Freed) <= High /\ Freed.request \in Requests
  BY <1>1, <1>2, BlockFacts
<1>4. mem[block_ptr] = HeaderOf(Freed) /\ BlockSize(Freed.request) < MaxBlock
  BY <1>1, <1>2 DEF HeapInv, BlockInHeap, CanaryMatches
<1>5. mem[block_ptr] \div CanaryMod = BlockSize(Freed.request)
  BY <1>2, <1>3, <1>4, Decode, BlockSizeFacts, GranuleFacts DEF HeaderOf
<1> QED BY <1>1, <1>2, <1>3, <1>5, BlockBesideGap DEF End

LEMMA InsertFacts ==
  ASSUME RequestsFit, HeapInv, Walk, Insert
  PROVE  /\ curr # NULL => curr \in Gaps /\ End(Freed) <= curr
         /\ prev # NULL => prev \in Gaps /\ prev + mem[prev] <= block_ptr /\ prev < block_ptr
         /\ \A g \in Gaps : \/ prev # NULL /\ g <= prev
                            \/ curr # NULL /\ curr <= g
<1>1. /\ call.op = "free" /\ CanaryMatches /\ (curr = NULL \/ curr >= block_ptr)
  BY DEF Insert
<1>2. /\ block_ptr \in Nat /\ End(Freed) \in Nat /\ block_ptr + 8 <= End(Freed)
      /\ \A g \in Gaps : End(Freed) <= g \/ g + mem[g] <= block_ptr
  BY <1>1, FreedFacts, GranuleFacts
<1>3. \A g \in Gaps : g \in Nat /\ mem[g] \in Nat /\ 8 <= mem[g]
  BY GapFacts, GapSpan, GranuleFacts
<1>4. /\ curr # NULL => curr \in Gaps
      /\ prev = NULL => \A g \in Gaps : curr # NULL /\ curr <= g
      /\ prev # NULL => /\ prev \in Gaps
                        /\ \A g \in Gaps : g <= prev \/ (curr # NULL /\ curr <= g)
  BY <1>1, OnListFacts
<1>5. prev = NULL \/ prev < block_ptr
  BY <1>1 DEF Walk
<1>6. curr # NULL => End(Freed) <= curr
  BY <1>1, <1>2, <1>3, <1>4
<1>7. prev # NULL => prev + mem[prev] <= block_ptr
  BY <1>2, <1>3, <1>4, <1>5
<1> QED BY <1>4, <1>5, <1>6, <1>7

LEMMA UsedFreed ==
  ASSUME RequestsFit, HeapInv, Walk, Insert
  PROVE  \A a \in Nat : Used(a)' <=> Used(a) /\ ~(block_ptr <= a /\ a < End(Freed))
<1>1. PICK b \in allocated : b = Freed
  BY FreedFacts DEF Insert
<1>2. block_ptr = b.at /\ allocated' = allocated \ {b}
  BY <1>1 DEF block_ptr, Freed, Insert
<1>3. \A c \in allocated : /\ c.at \in Nat /\ End(c) \in Nat
                           /\ c # b => End(c) <= b.at \/ End(b) <= c.at
  BY BlockFacts, GranuleFacts DEF HeapInv, BlocksApart
<1>4. \A a : Used(a)' <=> \E c \in allocated \ {b} : c.at <= a /\ a < End(c)
  BY <1>2 DEF Used, End
<1> QED BY <1>1, <1>2, <1>3, <1>4 DEF Used

\* The block touches the gap before it, or a block, or the start of the heap;
\* and the same after it.
LEMMA FreedEdges ==
  ASSUME RequestsFit, HeapInv, Walk, Insert
  PROVE  /\ MergesPrevious => block_ptr # Low /\ ~Used(block_ptr - 8)
         /\ ~MergesPrevious => block_ptr = Low \/ Used(block_ptr - 8)
         /\ ~MergesNext => End(Freed) = High \/ Used(End(Freed))
<1>0. PICK p0, e : p0 = block_ptr /\ e = End(Freed)
  OBVIOUS
<1>1. /\ p0 \in Granules /\ e \in Nat /\ e % 8 = 0 /\ p0 + 8 <= e /\ e <= High
      /\ p0 \in Nat /\ p0 % 8 = 0 /\ Low <= p0
  BY <1>0, FreedFacts, GranuleFacts DEF Insert
<1>2. /\ curr # NULL => curr \in Gaps /\ e <= curr
      /\ prev # NULL => prev \in Gaps /\ prev + mem[prev] <= p0 /\ prev < p0
      /\ \A g \in Gaps : (prev # NULL /\ g <= prev) \/ (curr # NULL /\ curr <= g)
      /\ \A g \in Gaps : e <= g \/ g + mem[g] <= p0
  BY <1>0, InsertFacts, FreedFacts DEF Insert
<1>3. \A g \in Gaps : /\ g \in Granules /\ g \in Nat /\ Low <= g /\ g # NULL
                      /\ mem[g] \in Nat /\ (g + mem[g]) % 8 = 0 /\ g % 8 = 0
  BY GapFacts, GapSpan, GranuleFacts
<1>4. MergesPrevious => p0 # Low /\ ~Used(p0 - 8)
  <2>1. SUFFICES ASSUME MergesPrevious PROVE p0 # Low /\ ~Used(p0 - 8)
    OBVIOUS
  <2>2. prev \in Gaps /\ prev + mem[prev] = p0 /\ prev < p0
    BY <1>0, <1>2, <2>1 DEF MergesPrevious
  <2>3. p0 # Low /\ p0 - 8 \in Granules /\ prev <= p0 - 8
    BY <1>1, <1>3, <2>2, GranuleFacts, HeapBounds
  <2> QED BY <1>1, <1>3, <2>2, <2>3, GapSpan, GranuleFacts
<1>5. ~MergesPrevious => p0 = Low \/ Used(p0 - 8)
  <2>1. SUFFICES ASSUME p0 # Low, ~Used(p0 - 8) PROVE MergesPrevious
    OBVIOUS
  <2>2. p0 - 8 \in Granules
    BY <1>1, <2>1, GranuleFacts, HeapBounds
  <2>3. PICK g \in Gaps : g <= p0 - 8 /\ p0 - 8 < g + mem[g]
    BY <2>1, <2>2, GapAround
  <2>4. g + mem[g] = p0
    <3>1. g \in Nat /\ mem[g] \in Nat /\ (g + mem[g]) % 8 = 0
      BY <1>3
    <3>2. g + mem[g] <= p0
      BY <1>1, <1>2, <2>3, <3>1
    <3> QED BY <1>1, <2>3, <3>1, <3>2
  <2>5. prev # NULL /\ g <= prev
    BY <1>1, <1>2, <1>3, <2>3, GranuleFacts
  <2>6. ~(g < prev)
    BY <1>1, <1>2, <1>3, <2>4, <2>5, GapsApart, GranuleFacts
  <2>7. g = prev
    BY <1>2, <1>3, <2>5, <2>6
  <2> QED BY <1>0, <2>4, <2>5, <2>7 DEF MergesPrevious
<1>6. ~MergesNext => e = High \/ Used(e)
  <2>1. SUFFICES ASSUME e # High, ~Used(e) PROVE MergesNext
    OBVIOUS
  <2>2. e \in Granules
    BY <1>1, <2>1, GranuleFacts, HeapBounds
  <2>3. PICK g \in Gaps : g <= e /\ e < g + mem[g]
    BY <2>1, <2>2, GapAround
  <2>4. g = e
    <3>1. g \in Nat /\ mem[g] \in Nat
      BY <1>3
    <3>2. e <= g
      BY <1>1, <1>2, <2>3, <3>1
    <3> QED BY <1>1, <2>3, <3>1, <3>2
  <2>5. curr # NULL /\ curr <= e
    <3>1. ~(prev # NULL /\ g <= prev)
      <4>1. SUFFICES ASSUME prev # NULL, g <= prev PROVE FALSE
        OBVIOUS
      <4>2. prev \in Nat /\ prev < p0
        BY <1>2, <1>3, <4>1
      <4> QED BY <1>1, <2>4, <4>1, <4>2
    <3> QED BY <1>2, <2>4, <3>1
  <2>6. curr = e
    BY <1>1, <1>2, <1>3, <2>5
  <2> QED BY <1>0, <2>6 DEF MergesNext
<1> QED BY <1>0, <1>4, <1>5, <1>6

LEMMA GapsFreed ==
  ASSUME RequestsFit, HeapInv, Walk, Insert
  PROVE  Gaps' = (Gaps \ (IF MergesNext THEN {curr} ELSE {}))
                   \cup (IF MergesPrevious THEN {} ELSE {block_ptr})
<1>0. PICK p0, e : p0 = block_ptr /\ e = End(Freed)
  OBVIOUS
<1>1. /\ p0 \in Granules /\ e \in Nat /\ e % 8 = 0 /\ p0 + 8 <= e
      /\ p0 \in Nat /\ p0 % 8 = 0 /\ Low <= p0
  BY <1>0, FreedFacts, GranuleFacts DEF Insert
<1>2. \A a \in Nat : Used(a)' <=> Used(a) /\ ~(p0 <= a /\ a < e)
  BY <1>0, UsedFreed
<1>3. \A a \in Granules : p0 <= a /\ a < e => Used(a)
  BY <1>0, <1>1, FreedFacts, GranuleFacts DEF Insert, Used
<1>4. \A a \in Granules : /\ a \in Nat /\ a % 8 = 0 /\ Low <= a
                          /\ a # Low => a - 8 \in Granules /\ a - 8 \in Nat
  BY GranuleFacts, HeapBounds
<1>5. p0 \notin Gaps /\ (p0 \in Gaps' <=> ~MergesPrevious)
  <2>1. Used(p0) /\ ~Used(p0)'
    BY <1>1, <1>2, <1>3
  <2>2. p0 # Low => (Used(p0 - 8)' <=> Used(p0 - 8))
    BY <1>1, <1>2, <1>4
  <2> QED BY <1>0, <1>1, <2>1, <2>2, GapIs, FreedEdges
<1>6. ASSUME NEW a \in Granules, p0 < a, a <= e
      PROVE  a \notin Gaps' /\ (a \in Gaps <=> MergesNext /\ a = curr)
  <2>1. a # Low /\ p0 <= a - 8 /\ a - 8 < e
    BY <1>1, <1>4, <1>6
  <2>2. a \notin Gaps'
    BY <1>2, <1>4, <2>1, GapIs
  <2>3. CASE a < e
    <3>1. Used(a)
      BY <1>1, <1>3, <1>4, <1>6, <2>3
    <3>2. MergesNext => a # curr
      BY <1>0, <1>1, <1>4, <2>3 DEF MergesNext
    <3> QED BY <2>2, <3>1, <3>2, GapIs
  <2>4. CASE a = e
    <3>1. Used(a - 8)
      BY <1>3, <1>4, <2>1
    <3>2. a \in Gaps <=> ~Used(e)
      BY <2>4, <3>1, GapIs
    <3>3. e # High
      BY <1>6, <2>4, GranuleFacts
    <3>4. MergesNext => ~Used(e)
      <4>1. MergesNext => curr # NULL /\ curr = e
        BY <1>0, <1>1 DEF MergesNext, NULL
      <4> QED BY <4>1, InsertFacts, GapIs
    <3>5. MergesNext <=> a = curr
      BY <1>0, <2>4 DEF MergesNext
    <3> QED BY <1>0, <2>2, <2>4, <3>2, <3>3, <3>4, <3>5, FreedEdges
  <2> QED BY <1>1, <1>4, <1>6, <2>3, <2>4
<1>7. ASSUME NEW a \in Granules, a < p0 \/ e < a
      PROVE  (a \in Gaps' <=> a \in Gaps) /\ (MergesNext => a # curr)
  <2>1. Used(a)' <=> Used(a)
    BY <1>1, <1>2, <1>4, <1>7
  <2>2. a # Low => (Used(a - 8)' <=> Used(a - 8))
    BY <1>1, <1>2, <1>4, <1>7
  <2>3. MergesNext => a # curr
    BY <1>0, <1>1, <1>4, <1>7 DEF MergesNext
  <2> QED BY <2>1, <2>2, <2>3, GapIs
<1>8. \A a : a \in Gaps \/ a \in Gaps' => a \in Granules
  BY GapIs
<1>9. ASSUME NEW a
      PROVE  a \in Gaps' <=> \/ a \in Gaps /\ ~(MergesNext /\ a = curr)
                             \/ ~MergesPrevious /\ a = p0
  <2>1. a \in Granules => a = p0 \/ (p0 < a /\ a <= e) \/ a < p0 \/ e < a
    BY <1>1, <1>4
  <2>2. CASE a \notin Granules
    BY <1>1, <1>8, <2>2
  <2>3. CASE a = p0
    BY <1>5, <2>3
  <2>4. CASE a \in Granules /\ p0 < a /\ a <= e
    <3>1. a # p0
      BY <1>1, <2>4
    <3> QED BY <1>6, <2>4, <3>1
  <2>5. CASE a \in Granules /\ (a < p0 \/ e < a)
    <3>1. a # p0
      BY <1>1, <2>5
    <3> QED BY <1>7, <2>5, <3>1
  <2> QED BY <2>1, <2>2, <2>3, <2>4, <2>5
<1> QED BY <1>0, <1>9

\* Where the gap with the freed block in it starts.
NewStart == IF MergesPrevious THEN prev ELSE block_ptr

\* The freed block's gap lies between the others.
LEMMA NewGapFacts ==
  ASSUME RequestsFit, HeapInv, Walk, Insert
  PROVE  /\ NewEnd \in Nat /\ NewEnd <= High /\ End(Freed) <= NewEnd
         /\ NewEnd = High \/ Used(NewEnd)
         /\ MergesNext => curr # NULL /\ curr \in Gaps
         /\ NewNext \in Words \cup {NULL} /\ (NewNext = NULL \/ block_ptr < NewNext)
         /\ NewStart \in Granules /\ NewStart <= block_ptr
         /\ \A w \in Words : NewStart <= w /\ w < NewEnd => ~Used(w)'
<1>0. PICK p0, e : p0 = block_ptr /\ e = End(Freed)
  OBVIOUS
<1>1. /\ p0 \in Granules /\ e \in Nat /\ p0 + 8 <= e /\ e <= High /\ p0 \in Nat
  BY <1>0, FreedFacts, GranuleFacts DEF Insert
<1>2. MergesNext => curr = e /\ curr # NULL /\ curr \in Gaps
  <2>1. MergesNext => curr = e /\ curr # NULL
    BY <1>0, <1>1 DEF MergesNext, NULL
  <2> QED BY <2>1, InsertFacts
<1>3. MergesPrevious => /\ prev \in Gaps /\ prev \in Granules /\ prev + mem[prev] = p0
                        /\ prev < p0
  BY <1>0, InsertFacts, GapFacts DEF MergesPrevious
<1>4. curr \in Gaps => /\ curr \in Nat /\ mem[curr] \in Nat /\ curr + mem[curr] <= High
                       /\ GapEndsAt(curr, curr + mem[curr])
  BY GapFacts, GapSpan, GranuleFacts
<1>5. NewEnd \in Nat /\ NewEnd <= High /\ e <= NewEnd /\ (NewEnd = High \/ Used(NewEnd))
  <2>1. CASE MergesNext
    BY <1>1, <1>2, <1>4, <2>1 DEF NewEnd, GapEndsAt
  <2>2. CASE ~MergesNext
    BY <1>0, <1>1, <2>2, FreedEdges DEF NewEnd
  <2> QED BY <2>1, <2>2
<1>6. NewNext \in Words \cup {NULL} /\ (NewNext = NULL \/ p0 < NewNext)
  <2>1. CASE MergesNext
    <3>1. FirstGapFrom(curr + 1, mem[NextField(curr)])
      BY <1>2, <2>1, GapFacts
    <3>2. mem[NextField(curr)] # NULL =>
            mem[NextField(curr)] \in Words /\ curr + 1 <= mem[NextField(curr)]
      BY <3>1, GapIs, GranuleFacts DEF FirstGapFrom
    <3> QED BY <1>1, <1>2, <1>4, <2>1, <3>2, GranuleFacts DEF NewNext
  <2>2. CASE ~MergesNext
    <3>1. curr # NULL => curr \in Words /\ curr \in Nat /\ e <= curr
      BY <1>0, InsertFacts, GapIs, GranuleFacts
    <3> QED BY <1>1, <2>2, <3>1 DEF NewNext
  <2> QED BY <2>1, <2>2
<1>7. NewStart \in Granules /\ NewStart <= p0
  BY <1>0, <1>1, <1>3, GranuleFacts DEF NewStart
<1>8. ASSUME NEW w \in Words, NewStart <= w, w < NewEnd PROVE ~Used(w)'
  <2>0. w \in Nat
    BY GranuleFacts
  <2>1. Used(w)' <=> Used(w) /\ ~(p0 <= w /\ w < e)
    BY <1>0, <2>0, UsedFreed
  <2>2. CASE w < p0
    <3>1. MergesPrevious /\ prev <= w
      BY <1>0, <1>1, <1>8, <2>0, <2>2 DEF NewStart
    <3>2. GapEndsAt(prev, p0)
      BY <1>3, <3>1, GapFacts
    <3> QED BY <2>1, <2>2, <3>1, <3>2 DEF GapEndsAt
  <2>3. CASE p0 <= w /\ w < e
    BY <2>1, <2>3
  <2>4. CASE e <= w
    <3>1. MergesNext
      BY <1>0, <1>1, <1>8, <2>0, <2>4 DEF NewEnd
    <3>2. w < curr + mem[curr] /\ curr <= w
      BY <1>2, <1>8, <2>4, <3>1 DEF NewEnd
    <3> QED BY <1>2, <1>4, <2>1, <3>1, <3>2 DEF GapEndsAt
  <2> QED BY <1>1, <2>0, <2>2, <2>3, <2>4
<1> QED BY <1>0, <1>2, <1>5, <1>6, <1>7, <1>8

\* The words that a free changes.
LEMMA InsertMemory ==
  ASSUME RequestsFit, HeapInv, Walk, Insert
  PROVE  /\ mem' \in [Words -> 0 .. WordMod - 1]
         /\ mem'[NewStart] = NewEnd - NewStart
         /\ mem'[NextField(NewStart)] = NewNext
         /\ prev # NULL /\ ~MergesPrevious => mem'[NextField(prev)] = block_ptr
         /\ \A w \in Words :
              /\ w # block_ptr /\ w # NextField(block_ptr)
              /\ prev # NULL => w # prev /\ w # NextField(prev)
              => mem'[w] = mem[w]
         /\ prev # NULL /\ ~MergesPrevious => mem'[prev] = mem[prev]
<1>0. PICK p0, e, s : p0 = block_ptr /\ e = End(Freed) /\ s = BlockSize(Freed.request)
  OBVIOUS
<1>1. /\ p0 \in Granules /\ e \in Nat /\ p0 + 8 <= e /\ e <= High /\ p0 \in Nat
      /\ e = p0 + s /\ mem[p0] \div CanaryMod = s
      /\ p0 \in Words /\ NextField(p0) \in Words /\ p0 # NextField(p0) /\ s \in Nat
  <2>1. Freed.request \in Requests
    BY FreedFacts, BlockFacts DEF Insert
  <2> QED BY <1>0, <2>1, FreedFacts, GranuleFacts, FieldsApart, BlockSizeFacts DEF Insert
<1>2. mem' = WithPrevious(WithNext(s))
  BY <1>0, <1>1 DEF Insert
<1>3. mem \in [Words -> 0 .. WordMod - 1]
  BY DEF HeapInv, TypeOK
<1>4. MergesNext <=> p0 + s = curr
  BY <1>0, <1>1 DEF MergesNext
<1>5. PICK size, next : size = NewEnd - p0 /\ next = NewNext
  OBVIOUS
<1>6. size \in 0 .. WordMod - 1 /\ next \in 0 .. WordMod - 1
  <2>1. size \in 0 .. WordMod - 1
    BY <1>0, <1>1, <1>5, NewGapFacts, HeapBounds
  <2>2. \A w \in Words : w \in 0 .. WordMod - 1
    BY HeapBounds DEF Words
  <2>3. NULL \in 0 .. WordMod - 1
    BY HeapBounds DEF NULL
  <2> QED BY <1>5, <2>1, <2>2, <2>3, NewGapFacts
<1>7. WithNext(s) = [mem EXCEPT ![p0] = size, ![NextField(p0)] = next]
  <2>1. CASE MergesNext
    <3>1. size = s + mem[curr] /\ next = mem[NextField(curr)]
      <4>1. curr = p0 + s /\ mem[curr] \in Nat
        BY <1>4, <2>1, NewGapFacts, GapFacts
      <4> QED BY <1>1, <1>5, <2>1, <4>1 DEF NewEnd, NewNext
    <3> QED BY <1>0, <1>4, <2>1, <3>1 DEF WithNext
  <2>2. CASE ~MergesNext
    <3>1. size = s /\ next = curr
      <4>1. NewEnd = e /\ NewNext = curr
        BY <1>0, <2>2 DEF NewEnd, NewNext
      <4> QED BY <1>1, <1>5, <4>1
    <3> QED BY <1>0, <1>4, <2>2, <3>1 DEF WithNext
  <2> QED BY <2>1, <2>2
<1>8. PICK memory : memory = WithNext(s)
  OBVIOUS
<1>9. /\ memory \in [Words -> 0 .. WordMod - 1]
      /\ memory[p0] = size /\ memory[NextField(p0)] = next
      /\ \A w \in Words : w # p0 /\ w # NextField(p0) => memory[w] = mem[w]
  BY <1>1, <1>3, <1>6, <1>7, <1>8
<1>10. prev # NULL =>
         /\ prev \in Granules /\ prev \in Words /\ NextField(prev) \in Words /\ prev \in Nat
         /\ prev # NextField(prev) /\ prev # p0 /\ prev # NextField(p0)
         /\ NextField(prev) # p0 /\ NextField(prev) # NextField(p0)
         /\ mem[prev] \in Nat
  <2>1. prev # NULL => prev \in Gaps /\ prev < p0
    BY <1>0, InsertFacts
  <2> QED BY <1>1, <2>1, GapFacts, FieldsApart, GranuleFacts
<1>11. CASE prev = NULL
  <2>1. mem' = memory /\ ~MergesPrevious
    BY <1>2, <1>8, <1>11 DEF WithPrevious, MergesPrevious
  <2> QED BY <1>0, <1>5, <1>9, <1>11, <2>1 DEF NewStart
<1>12. CASE prev # NULL /\ MergesPrevious
  <2>1. prev + mem[prev] = p0
    BY <1>0, <1>12 DEF MergesPrevious
  <2>2. mem' = [memory EXCEPT ![prev] = @ + size, ![NextField(prev)] = next]
    BY <1>0, <1>2, <1>8, <1>9, <1>10, <1>12, <2>1 DEF WithPrevious
  <2>3. memory[prev] + size = NewEnd - prev
    BY <1>1, <1>5, <1>9, <1>10, <1>12, <2>1, NewGapFacts
  <2>4. NewEnd - prev \in 0 .. WordMod - 1
    BY <1>0, <1>1, <1>10, <1>12, <2>1, NewGapFacts, HeapBounds
  <2>5. /\ mem' \in [Words -> 0 .. WordMod - 1]
        /\ mem'[prev] = NewEnd - prev /\ mem'[NextField(prev)] = next
        /\ \A w \in Words : w # prev /\ w # NextField(prev) => mem'[w] = memory[w]
    BY <1>6, <1>9, <1>10, <1>12, <2>2, <2>3, <2>4
  <2> QED BY <1>0, <1>5, <1>9, <1>12, <2>5 DEF NewStart
<1>13. CASE prev # NULL /\ ~MergesPrevious
  <2>1. prev + mem[prev] # p0
    BY <1>0, <1>13 DEF MergesPrevious
  <2>2. mem' = [memory EXCEPT ![NextField(prev)] = p0]
    BY <1>0, <1>2, <1>8, <1>9, <1>10, <1>13, <2>1 DEF WithPrevious
  <2>3. p0 \in 0 .. WordMod - 1
    BY <1>1, HeapBounds
  <2>4. /\ mem' \in [Words -> 0 .. WordMod - 1]
        /\ mem'[NextField(prev)] = p0
        /\ \A w \in Words : w # NextField(prev) => mem'[w] = memory[w]
    BY <1>9, <1>10, <1>13, <2>2, <2>3
  <2> QED BY <1>0, <1>1, <1>5, <1>9, <1>10, <1>13, <2>4 DEF NewStart
<1> QED BY <1>11, <1>12, <1>13

\* A free changes no word that is in a block afterwards.
LEMMA InsertKeeps ==
  ASSUME RequestsFit, HeapInv, Walk, Insert
  PROVE  \A w \in Words : Used(w)' => mem'[w] = mem[w]
<1>1. \A w \in Nat : Used(w)' => Used(w) /\ ~(block_ptr <= w /\ w < End(Freed))
  BY UsedFreed
<1>2. /\ block_ptr \in Granules /\ End(Freed) \in Nat /\ block_ptr + 8 <= End(Freed)
      /\ block_ptr \in Nat
  BY FreedFacts, GranuleFacts DEF Insert
<1>3. prev # NULL => ~Used(prev) /\ ~Used(NextField(prev))
  <2>1. prev # NULL => prev \in Granules /\ ~Used(prev)
    BY InsertFacts, GapFacts
  <2> QED BY <2>1, UsedWords
<1>4. \A w \in Words : Used(w)' => w # block_ptr /\ w # NextField(block_ptr)
  BY <1>1, <1>2, GranuleFacts
<1> QED BY <1>1, <1>3, <1>4, InsertMemory, GranuleFacts

\* The list before and after a free, pointer by pointer.
LEMMA PointersFreed ==
  ASSUME RequestsFit, HeapInv, Walk, Insert
  PROVE  /\ FirstFrom(Gaps', NewStart + 1, NewNext)
         /\ ~MergesPrevious => \A a \in Nat : FirstFrom(Gaps, a, curr) /\ a <= block_ptr
                                                 => FirstFrom(Gaps', a, block_ptr)
         /\ \A a \in Nat, ptr \in Nat :
              /\ FirstFrom(Gaps, a, ptr) /\ ~(MergesNext /\ ptr = curr)
              /\ block_ptr < a \/ (ptr # NULL /\ ptr < block_ptr)
              => FirstFrom(Gaps', a, ptr)
<1>0. PICK p0 : p0 = block_ptr
  OBVIOUS
<1> DEFINE S == Gaps \ (IF MergesNext THEN {curr} ELSE {})
<1>1. /\ p0 \in Nat \ {NULL} /\ p0 + 1 \in Nat
      /\ Gaps' = S \cup (IF MergesPrevious THEN {} ELSE {p0})
      /\ Gaps \in SUBSET (Nat \ {NULL}) /\ S \in SUBSET (Nat \ {NULL})
  <2>1. p0 \in Granules
    BY <1>0, FreedFacts DEF Insert
  <2>2. p0 \in Nat \ {NULL} /\ p0 + 1 \in Nat
    BY <2>1, GranuleFacts
  <2>3. Gaps' = S \cup (IF MergesPrevious THEN {} ELSE {p0})
    BY <1>0, GapsFreed
  <2>4. Gaps \in SUBSET (Nat \ {NULL})
    BY FirstGaps
  <2> QED BY <2>2, <2>3, <2>4
<1>2. /\ MergesNext => curr \in Gaps
      /\ NewNext \in Nat /\ (NewNext = NULL \/ p0 < NewNext)
      /\ curr \in Nat
  BY <1>0, NewGapFacts, GranuleFacts DEF NULL, HeapInv, TypeOK
<1>3. ASSUME NEW a \in Nat, FirstFrom(Gaps, a, curr)
      PROVE  FirstFrom(S, a, NewNext)
  <2>1. CASE MergesNext
    <3>1. FirstFrom(Gaps, curr + 1, NewNext)
      BY <1>2, <2>1, GapFacts, FirstGaps DEF NewNext
    <3>2. FirstFrom(Gaps \ {curr}, a, NewNext)
      BY <1>1, <1>2, <1>3, <2>1, <3>1, FirstWithout
    <3> QED BY <2>1, <3>2
  <2>2. CASE ~MergesNext
    <3>1. S = Gaps /\ NewNext = curr
      BY <2>2 DEF NewNext
    <3> QED BY <1>3, <3>1
  <2> QED BY <2>1, <2>2
<1>4. ASSUME NEW a \in Nat, NEW ptr \in Nat, FirstFrom(Gaps, a, ptr), ~(MergesNext /\ ptr = curr)
      PROVE  FirstFrom(S, a, ptr)
  <2>1. CASE MergesNext
    <3>1. FirstFrom(Gaps \ {curr}, a, ptr)
      BY <1>1, <1>2, <1>4, <2>1, FirstWithout
    <3> QED BY <2>1, <3>1
  <2>2. CASE ~MergesNext
    <3>1. S = Gaps
      BY <2>2
    <3> QED BY <1>4, <3>1
  <2> QED BY <2>1, <2>2
<1> HIDE DEF S
<1>5. ASSUME NEW a \in Nat, NEW ptr \in Nat, FirstFrom(S, a, ptr),
             p0 < a \/ (ptr # NULL /\ ptr < p0)
      PROVE  FirstFrom(Gaps', a, ptr)
  <2>1. FirstFrom(S \cup {p0}, a, ptr)
    BY <1>1, <1>5, FirstWith
  <2> QED BY <1>1, <1>5, <2>1
<1>6. ASSUME ~MergesPrevious, NEW a \in Nat, FirstFrom(Gaps, a, curr), a <= p0
      PROVE  FirstFrom(Gaps', a, p0)
  <2>1. FirstFrom(S, a, NewNext)
    BY <1>3, <1>6
  <2>2. FirstFrom(S \cup {p0}, a, p0)
    BY <1>1, <1>2, <1>6, <2>1, FirstWith
  <2> QED BY <1>1, <1>6, <2>2
<1>7. FirstFrom(Gaps', NewStart + 1, NewNext)
  <2>1. CASE MergesPrevious
    <3>1. prev \in Gaps /\ curr = mem[NextField(prev)] /\ prev \in Nat
      BY <2>1, OnListFacts, GapFacts, GranuleFacts DEF MergesPrevious, Insert
    <3>2. prev + 1 \in Nat /\ FirstFrom(Gaps, prev + 1, curr)
      BY <3>1, GapFacts, FirstGaps
    <3>3. FirstFrom(S, prev + 1, NewNext)
      BY <1>3, <3>2
    <3>4. Gaps' = S
      BY <1>1, <2>1
    <3> QED BY <2>1, <3>3, <3>4 DEF NewStart
  <2>2. CASE ~MergesPrevious
    <3>1. FirstFrom(Gaps, p0 + 1, curr)
      <4>1. /\ curr # NULL => curr \in Gaps /\ p0 + 1 <= curr
            /\ \A g \in Nat : g \in Gaps => g < p0 \/ (curr # NULL /\ curr <= g)
        <5>1. curr # NULL => curr \in Gaps /\ End(Freed) <= curr
          BY InsertFacts
        <5>2. prev # NULL => prev \in Nat /\ prev < p0
          BY <1>0, <1>1, InsertFacts
        <5>3. p0 + 8 <= End(Freed) /\ End(Freed) \in Nat
          BY <1>0, FreedFacts DEF Insert
        <5>4. \A g \in Gaps : (prev # NULL /\ g <= prev) \/ (curr # NULL /\ curr <= g)
          BY InsertFacts
        <5> QED BY <1>1, <1>2, <5>1, <5>2, <5>3, <5>4
      <4>2. CASE curr = NULL
        <5>1. \A g \in Nat : g \in Gaps => g < p0 + 1
          BY <1>1, <4>1, <4>2
        <5> QED BY <1>1, <4>2, <5>1 DEF FirstFrom
      <4>3. CASE curr # NULL
        <5>1. \A g \in Nat : g \in Gaps /\ p0 + 1 <= g => curr <= g
          BY <1>1, <4>1
        <5> QED BY <1>1, <4>1, <4>3, <5>1 DEF FirstFrom
      <4> QED BY <4>2, <4>3
    <3>2. FirstFrom(S, p0 + 1, NewNext)
      BY <1>1, <1>3, <3>1
    <3>3. FirstFrom(Gaps', p0 + 1, NewNext)
      BY <1>1, <1>2, <1>5, <3>2
    <3> QED BY <1>0, <2>2, <3>3 DEF NewStart
  <2> QED BY <2>1, <2>2
<1>8. ASSUME NEW a \in Nat, NEW ptr \in Nat, FirstFrom(Gaps, a, ptr), ~(MergesNext /\ ptr = curr),
             p0 < a \/ (ptr # NULL /\ ptr < p0)
      PROVE  FirstFrom(Gaps', a, ptr)
  BY <1>4, <1>5, <1>8
<1> QED BY <1>0, <1>6, <1>7, <1>8

LEMMA ListInsert ==
  ASSUME RequestsFit, HeapInv, Walk, Insert
  PROVE  ListIsGaps'
<1>0. PICK p0, s : p0 = block_ptr /\ s = NewStart
  OBVIOUS
<1>1. /\ p0 \in Granules /\ p0 \in Nat /\ p0 \notin Gaps
      /\ End(Freed) \in Nat /\ p0 + 8 <= End(Freed)
      /\ \A g \in Gaps : End(Freed) <= g \/ g + mem[g] <= p0
  <2>1. /\ p0 \in Granules /\ End(Freed) \in Nat /\ p0 + 8 <= End(Freed)
        /\ \A g \in Gaps : End(Freed) <= g \/ g + mem[g] <= p0
    BY <1>0, FreedFacts DEF Insert
  <2>2. \A g \in Gaps : g \in Nat /\ mem[g] \in Nat /\ 8 <= mem[g]
    BY GapFacts, GapSpan, GranuleFacts
  <2> QED BY <2>1, <2>2, GranuleFacts
<1>2. /\ curr # NULL => curr \in Gaps /\ End(Freed) <= curr
      /\ prev # NULL => prev \in Gaps /\ prev \in Nat /\ prev < p0
      /\ \A g \in Gaps : (prev # NULL /\ g <= prev) \/ (curr # NULL /\ curr <= g)
      /\ prev # NULL => curr = mem[NextField(prev)]
      /\ prev = NULL => curr = first_block
  BY <1>0, InsertFacts, OnListFacts, GapFacts, GranuleFacts DEF Insert
<1>3. \A g \in Gaps : /\ g \in Granules /\ g \in Nat /\ mem[g] \in Nat
                      /\ mem[NextField(g)] \in Nat
                      /\ FirstFrom(Gaps, g + 1, mem[NextField(g)])
  <2> TAKE g \in Gaps
  <2>1. NextField(g) \in Words
    BY GapFacts, GranuleFacts
  <2>2. mem[NextField(g)] \in Nat
    BY <2>1, HeapBounds DEF HeapInv, TypeOK
  <2> QED BY <2>2, GapFacts, GranuleFacts, FirstGaps
<1>4. s \in Gaps' /\ \A g \in Gaps' : g = s \/
        /\ g \in Gaps /\ ~(MergesNext /\ g = curr)
        /\ g = prev => prev # NULL /\ ~MergesPrevious
  <2>1. CASE MergesPrevious
    <3>1. s = prev /\ prev \in Gaps /\ prev \in Nat /\ prev < p0
      BY <1>0, <1>2, <2>1 DEF NewStart, MergesPrevious
    <3>2. MergesNext => curr # prev
      BY <1>1, <1>2, <3>1 DEF MergesNext
    <3> QED BY <2>1, <3>1, <3>2, GapsFreed
  <2>2. CASE ~MergesPrevious
    <3>1. s = p0 /\ Gaps' = (Gaps \ (IF MergesNext THEN {curr} ELSE {})) \cup {p0}
      BY <1>0, <2>2, GapsFreed DEF NewStart
    <3>2. \A g \in Gaps : g # NULL
      BY <1>3, GranuleFacts
    <3> QED BY <2>2, <3>1, <3>2
  <2> QED BY <2>1, <2>2
<1>5. GapEndsAt(s, s + mem[s])' /\ FirstGapFrom(s + 1, mem[NextField(s)])'
  <2>1. PICK e, next : e = NewEnd /\ next = NewNext
    OBVIOUS
  <2>2. s \in Nat /\ e \in Nat /\ mem'[s] = e - s /\ mem'[NextField(s)] = next
    BY <1>0, <2>1, NewGapFacts, InsertMemory, GranuleFacts
  <2>3. s + mem'[s] = e
    BY <2>2
  <2>4. e = High \/ Used(e)'
    BY <1>0, <1>1, <2>1, <2>2, NewGapFacts, UsedFreed
  <2>5. GapEndsAt(s, e)'
    BY <1>0, <2>1, <2>4, NewGapFacts, GapEndIs
  <2>6. FirstGapFrom(s + 1, next)'
    BY <1>0, <2>1, PointersFreed, GapEndIs
  <2> QED BY <2>2, <2>3, <2>5, <2>6
<1>6. ASSUME NEW g \in Gaps, ~(MergesNext /\ g = curr), g = prev => prev # NULL /\ ~MergesPrevious,
             g # s
      PROVE  GapEndsAt(g, g + mem[g])' /\ FirstGapFrom(g + 1, mem[NextField(g)])'
  <2>1. /\ g \in Words /\ NextField(g) \in Words
        /\ g # p0 /\ g # NextField(p0) /\ NextField(g) # p0 /\ NextField(g) # NextField(p0)
    BY <1>1, <1>3, FieldsApart, GranuleFacts
  <2>2. prev # NULL => /\ g # NextField(prev) /\ NextField(g) # prev
                       /\ NextField(g) = NextField(prev) => g = prev
    BY <1>2, <1>3, FieldsApart
  <2>3. mem'[g] = mem[g]
    BY <1>0, <1>6, <2>1, <2>2, InsertMemory
  <2>4. mem'[NextField(g)] = IF g = prev THEN p0 ELSE mem[NextField(g)]
    BY <1>0, <1>6, <2>1, <2>2, InsertMemory
  <2>5. PICK e, ptr : e = g + mem[g] /\ ptr = mem'[NextField(g)]
    OBVIOUS
  <2>6. GapEndsAt(g, e)'
    <3>1. /\ e \in Nat /\ (e = High \/ Used(e)) /\ g <= e
          /\ \A w \in Words : g <= w /\ w < e => ~Used(w)
      BY <1>3, <2>5, GapFacts, GapEndIs
    <3>2. End(Freed) <= e \/ e < p0
      <4>1. End(Freed) <= g \/ e <= p0
        BY <1>1, <2>5
      <4>2. e # p0
        <5>1. SUFFICES ASSUME e = p0 PROVE FALSE
          OBVIOUS
        <5>2. g < p0
          BY <1>1, <1>3, <2>5, <5>1, GapSpan
        <5>3. prev # NULL /\ g <= prev
          BY <1>1, <1>2, <1>3, <5>2
        <5>4. g = prev
          BY <1>2, <1>3, <2>5, <5>1, <5>3, GapsApart
        <5> QED BY <1>0, <1>6, <2>5, <5>1, <5>3, <5>4 DEF MergesPrevious
      <4> QED BY <1>1, <1>3, <3>1, <4>1, <4>2
    <3>3. e = High \/ Used(e)'
      BY <1>0, <1>1, <3>1, <3>2, UsedFreed
    <3>4. \A w \in Words : g <= w /\ w < e => ~Used(w)'
      BY <3>1, UsedFreed, GranuleFacts
    <3> QED BY <3>3, <3>4, GapEndIs
  <2>7. FirstGapFrom(g + 1, ptr)'
    <3>1. CASE g = prev
      <4>1. prev # NULL /\ ~MergesPrevious /\ g + 1 \in Nat /\ g + 1 <= p0
        BY <1>1, <1>2, <1>6, <3>1
      <4>2. FirstFrom(Gaps, g + 1, curr)
        BY <1>2, <1>3, <3>1, <4>1
      <4>3. FirstFrom(Gaps', g + 1, p0)
        BY <1>0, <4>1, <4>2, PointersFreed
      <4> QED BY <2>4, <2>5, <3>1, <4>3, GapEndIs
    <3>2. CASE g # prev
      <4>1. ptr = mem[NextField(g)] /\ ptr \in Nat /\ FirstFrom(Gaps, g + 1, ptr)
        BY <1>3, <2>4, <2>5, <3>2
      <4>2. ~(MergesNext /\ ptr = curr)
        BY <3>2, <4>1, NewGapFacts, PrevOnly DEF Insert
      <4>3. p0 < g + 1 \/ (ptr # NULL /\ ptr < p0)
        <5>1. CASE prev # NULL /\ g <= prev
          <6>1. g + 1 <= prev
            BY <1>2, <1>3, <3>2, <5>1
          <6>2. ptr # NULL
            <7>1. SUFFICES ASSUME ptr = NULL PROVE FALSE
              OBVIOUS
            <7>2. prev < g + 1
              BY <1>2, <4>1, <5>1, <7>1 DEF FirstFrom
            <7> QED BY <1>2, <1>3, <5>1, <6>1, <7>2
          <6>3. ptr <= prev
            BY <1>2, <4>1, <5>1, <6>1, <6>2 DEF FirstFrom
          <6> QED BY <1>1, <1>2, <4>1, <5>1, <6>2, <6>3
        <5>2. CASE curr # NULL /\ curr <= g
          BY <1>1, <1>2, <1>3, <5>2
        <5> QED BY <1>2, <5>1, <5>2
      <4>4. g + 1 \in Nat
        BY <1>3
      <4>5. FirstFrom(Gaps', g + 1, ptr)
        BY <1>0, <4>1, <4>2, <4>3, <4>4, PointersFreed
      <4> QED BY <4>5, GapEndIs
    <3> QED BY <3>1, <3>2
  <2> QED BY <2>3, <2>5, <2>6, <2>7
<1>7. FirstGapFrom(Low, first_block)'
  <2>1. FirstFrom(Gaps, Low, first_block) /\ first_block \in Nat
    BY FirstGaps, GranuleFacts DEF HeapInv, ListIsGaps, TypeOK, NULL
  <2>2. PICK ptr : ptr = first_block'
    OBVIOUS
  <2>3. ptr = IF prev = NULL THEN p0 ELSE first_block
    BY <1>0, <2>2 DEF Insert
  <2>4. Low \in Nat /\ Low <= p0
    BY <1>1, GranuleFacts, HeapBounds
  <2>5. CASE prev = NULL
    <3>1. ~MergesPrevious
      BY <2>5 DEF MergesPrevious
    <3>2. FirstFrom(Gaps', Low, p0)
      BY <1>0, <1>2, <2>1, <2>4, <2>5, <3>1, PointersFreed
    <3>3. FirstGapFrom(Low, ptr)'
      BY <2>3, <2>5, <3>2, GapEndIs
    <3> QED BY <2>2, <3>3
  <2>6. CASE prev # NULL
    <3>1. ~(MergesNext /\ first_block = curr)
      BY <2>6, NewGapFacts, PrevOnly DEF Insert
    <3>2. Low <= prev
      BY <1>2, <1>3, <2>6, GranuleFacts
    <3>3. first_block # NULL /\ first_block <= prev
      <4>1. first_block # NULL
        <5>1. SUFFICES ASSUME first_block = NULL PROVE FALSE
          OBVIOUS
        <5>2. prev < Low
          BY <1>2, <2>1, <2>6, <5>1 DEF FirstFrom
        <5> QED BY <1>2, <2>4, <2>6, <3>2, <5>2
      <4> QED BY <1>2, <2>1, <2>6, <3>2, <4>1 DEF FirstFrom
    <3>4. first_block < p0
      BY <1>1, <1>2, <2>1, <2>6, <3>3
    <3>5. FirstFrom(Gaps', Low, first_block)
      BY <1>0, <2>1, <2>4, <3>1, <3>3, <3>4, PointersFreed
    <3>6. FirstGapFrom(Low, ptr)'
      BY <2>3, <2>6, <3>5, GapEndIs
    <3> QED BY <2>2, <3>6
  <2> QED BY <2>5, <2>6
<1> QED BY <1>4, <1>5, <1>6, <1>7 DEF ListIsGaps

LEMMA InsertInv ==
  ASSUME RequestsFit, HeapInv, Walk, Insert
  PROVE  IInv'
<1>1. /\ call' = None /\ curr' = NULL /\ prev' = NULL /\ result' = result
      /\ allocated' \subseteq allocated
  BY DEF Insert, Return
<1>2. ListIsGaps'
  BY ListInsert
<1>3. ASSUME NEW b \in allocated' PROVE BlockInHeap(b)'
  <2>1. b \in allocated /\ BlockInHeap(b)
    BY <1>1, <1>3 DEF HeapInv
  <2>2. b.at \in Words /\ Used(b.at)'
    BY <1>3, <2>1, BlockFacts, GranuleFacts DEF Used, End
  <2>3. mem'[b.at] = mem[b.at]
    BY <2>2, InsertKeeps
  <2> QED BY <2>1, <2>3 DEF BlockInHeap, HeaderOf, End
<1>4. BlocksApart'
  BY <1>1 DEF HeapInv, BlocksApart, End
<1>5. TypeOK'
  BY <1>1, <1>2, InsertMemory, ListHead DEF HeapInv, TypeOK
<1> QED BY <1>1, <1>2, <1>3, <1>4, <1>5, IdleWalk DEF IInv, HeapInv

-----------------------------------------------------------------------------
(* The steps that leave the list and the blocks alone. *)

LEMMA SameGaps ==
  ASSUME allocated' = allocated
  PROVE  /\ Gaps' = Gaps
         /\ \A a : Used(a)' <=> Used(a)
         /\ \A a, e : GapEndsAt(a, e)' <=> GapEndsAt(a, e)
         /\ \A a, ptr : FirstGapFrom(a, ptr)' <=> FirstGapFrom(a, ptr)
<1>1. \A a : Used(a)' <=> Used(a)
  BY DEF Used, End
<1>2. Gaps' = Gaps
  BY <1>1, GapIs
<1> QED BY <1>1, <1>2 DEF GapEndsAt, FirstGapFrom

LEMMA HeapKept ==
  ASSUME HeapInv, TypeOK', UNCHANGED <<mem, first_block, allocated>>
  PROVE  HeapInv'
<1>1. (\A b \in allocated : BlockInHeap(b))'
  BY DEF HeapInv, BlockInHeap, HeaderOf, End
<1>2. BlocksApart'
  BY DEF HeapInv, BlocksApart, End
<1>3. ListIsGaps'
  BY SameGaps DEF HeapInv, ListIsGaps
<1> QED BY <1>1, <1>2, <1>3 DEF HeapInv

LEMMA MallocInv ==
  ASSUME HeapInv, NEW request \in Requests, Malloc(request)
  PROVE  IInv'
<1>1. TypeOK'
  BY DEF Malloc, HeapInv, TypeOK, list
<1>2. HeapInv'
  BY <1>1, HeapKept DEF Malloc, list
<1>3. ASSUME NEW g \in Gaps PROVE first_block # NULL /\ first_block <= g
  <2>1. FirstGapFrom(Low, first_block) /\ g \in Nat /\ Low <= g
    BY GapFacts, GranuleFacts DEF HeapInv, ListIsGaps
  <2> QED BY <2>1, HeapBounds DEF FirstGapFrom
<1>4. \A g \in Gaps : g \in Nat
  BY GapFacts, GranuleFacts
<1>5. Gaps' = Gaps /\ curr' = first_block /\ curr' = first_block' /\ prev' = NULL
      /\ call'.op = "malloc" /\ first_block \in Nat
  BY SameGaps, GranuleFacts DEF Malloc, list, HeapInv, TypeOK, NULL
<1>6. \A g \in Gaps' : ~(curr' = NULL \/ g < curr')
  BY <1>3, <1>4, <1>5
<1>7. Walk'
  BY <1>5, <1>6 DEF Walk, OnList
<1> QED BY <1>2, <1>7 DEF IInv

LEMMA FreeInv ==
  ASSUME HeapInv, NEW b \in allocated, Free(b)
  PROVE  IInv'
<1>1. TypeOK'
  BY DEF Free, HeapInv, TypeOK, list
<1>2. HeapInv'
  BY <1>1, HeapKept DEF Free, list
<1>3. Walk'
  BY DEF Free, list, Walk, OnList
<1> QED BY <1>2, <1>3 DEF IInv

LEMMA ReturnInv ==
  ASSUME HeapInv, ReturnNull \/ ReportOverflow
  PROVE  IInv'
<1>1. TypeOK'
  BY DEF ReturnNull, ReportOverflow, Return, HeapInv, TypeOK, list, NULL
<1>2. HeapInv'
  BY <1>1, HeapKept DEF ReturnNull, ReportOverflow, list
<1>3. Walk'
  BY IdleWalk DEF ReturnNull, ReportOverflow, Return
<1> QED BY <1>2, <1>3 DEF IInv

\* A turn of either walk goes to the next gap.
LEMMA WalkInv ==
  ASSUME RequestsFit, HeapInv, Walk, Search \/ SeekPosition
  PROVE  IInv'
<1>1. /\ curr # NULL /\ call.op \in {"malloc", "free"} /\ call' = call
      /\ prev' = curr /\ curr' = mem[NextField(curr)]
      /\ UNCHANGED <<mem, first_block, allocated, result>>
  BY DEF Search, SeekPosition, list
<1>2. curr \in Gaps /\ curr \in Granules /\ FirstGapFrom(curr + 1, mem[NextField(curr)])
  BY <1>1, OnListFacts, GapFacts
<1>3. curr' \in Words \cup {NULL} /\ prev' \in Words \cup {NULL}
  BY <1>1, <1>2, GapIs, GranuleFacts DEF FirstGapFrom
<1>4. TypeOK'
  BY <1>1, <1>3 DEF HeapInv, TypeOK
<1>5. HeapInv'
  BY <1>1, <1>4, HeapKept
<1>6. OnList'
  BY <1>1, <1>2, SameGaps, GranuleFacts DEF OnList
<1>7. ASSUME call.op = "malloc", NEW g \in Gaps, curr' = NULL \/ g < curr'
      PROVE  mem[g] < Requested
  <2>1. Search
    BY <1>7 DEF SeekPosition
  <2>2. mem[curr] < Requested
    BY <2>1 DEF Search
  <2>3. g < curr => mem[g] < Requested
    BY <1>7 DEF Walk
  <2>4. ~(curr < g)
    <3>1. g \in Nat /\ curr \in Nat /\ curr' \in Nat
      BY <1>2, <1>3, GapFacts, GranuleFacts DEF NULL
    <3>2. FirstGapFrom(curr + 1, curr')
      BY <1>1, <1>2
    <3> QED BY <1>7, <3>1, <3>2 DEF FirstGapFrom
  <2>5. g \in Nat /\ curr \in Nat
    BY <1>2, GapFacts, GranuleFacts
  <2> QED BY <2>2, <2>3, <2>4, <2>5
<1>8. call.op = "free" => prev' < block_ptr'
  BY <1>1 DEF Search, SeekPosition, block_ptr
<1>9. Gaps' = Gaps
  BY <1>1, SameGaps
<1>10. Walk'
  BY <1>1, <1>6, <1>7, <1>8, <1>9 DEF Walk, Requested
<1> QED BY <1>5, <1>10 DEF IInv

-----------------------------------------------------------------------------
(* The caller writes. *)

\* A word that a block covers is not a word of the list.
LEMMA WrittenInv ==
  ASSUME RequestsFit, HeapInv, NEW w \in Words, NEW v \in 0 .. WordMod - 1, Used(w),
         call = None, mem' = [mem EXCEPT ![w] = v],
         UNCHANGED <<first_block, curr, prev, call, allocated, result>>,
         (\A b \in allocated : BlockInHeap(b))'
  PROVE  IInv'
<1>1. TypeOK'
  BY DEF HeapInv, TypeOK
<1>2. \A g \in Gaps : /\ g \in Words /\ NextField(g) \in Words /\ g # w /\ NextField(g) # w
  BY GapFacts, GranuleFacts, UsedWords
<1>3. \A g \in Gaps : mem'[g] = mem[g] /\ mem'[NextField(g)] = mem[NextField(g)]
  BY <1>2 DEF HeapInv, TypeOK
<1>4. ListIsGaps'
  BY <1>3, SameGaps DEF HeapInv, ListIsGaps
<1>5. BlocksApart'
  BY DEF HeapInv, BlocksApart, End
<1>6. Walk'
  BY IdleWalk
<1> QED BY <1>1, <1>4, <1>5, <1>6 DEF IInv, HeapInv

\* What the caller writes is no header.
LEMMA DataNoHeader ==
  ASSUME RequestsFit, HeapInv, NEW b \in allocated, NEW w \in DataWords(b),
         NEW other \in allocated
  PROVE  other.at # w
<1>1. b.at + 4 <= w /\ w <= b.at + b.request
  BY DEF DataWords, WordBytes
<1>2. \A c \in {b, other} : /\ c.at \in Nat /\ End(c) \in Nat
                            /\ c.at + 8 <= End(c) /\ c.at + 4 + c.request <= End(c)
                            /\ c.request \in Nat
  BY BlockFacts, BlockSizeFacts, GranuleFacts
<1>3. other # b => End(other) <= b.at \/ End(b) <= other.at
  BY DEF HeapInv, BlocksApart
<1>4. w \in Nat
  BY UsedWords, GranuleFacts
<1> QED BY <1>1, <1>2, <1>3, <1>4

LEMMA WriteInv ==
  ASSUME RequestsFit, HeapInv, Write
  PROVE  IInv'
<1>1. PICK b \in allocated, v \in Data : \E w \in DataWords(b) : mem' = [mem EXCEPT ![w] = v]
  BY DEF Write
<1>2. PICK w \in DataWords(b) : mem' = [mem EXCEPT ![w] = v]
  BY <1>1
<1>3. w \in Words /\ Used(w) /\ v \in 0 .. WordMod - 1
  BY UsedWords, HeapAssumption
<1>4. \A other \in allocated : other.at # w
  BY DataNoHeader
<1>5. (\A other \in allocated : BlockInHeap(other))'
  <2>1. allocated' = allocated
    BY DEF Write
  <2>2. ASSUME NEW other \in allocated PROVE mem'[other.at] = mem[other.at]
    BY <1>2, <1>4, UsedWords DEF HeapInv, TypeOK
  <2> QED BY <2>1, <2>2 DEF HeapInv, BlockInHeap, HeaderOf, End
<1> QED BY <1>2, <1>3, <1>5, WrittenInv DEF Write

LEMMA OverrunInv ==
  ASSUME RequestsFit, OverrunsCaught, HeapInv, Overrun
  PROVE  IInv'
<1>1. PICK b \in allocated, other \in allocated, v \in Overruns :
        mem' = [mem EXCEPT ![other.at] = v]
  BY DEF Overrun
<1>2. /\ other.at \in Words /\ Used(other.at) /\ v \in 0 .. WordMod - 1
      /\ other.at % MIN_BLOCK_SIZE = 0
  BY UsedWords, BlockFacts, GranuleFacts, HeapAssumption DEF MIN_BLOCK_SIZE
<1>3. v % CanaryMod # canary(other.at)
  BY <1>2 DEF OverrunsCaught
<1>4. (\A c \in allocated : BlockInHeap(c))'
  <2>1. allocated' = allocated
    BY DEF Overrun
  <2>2. ASSUME NEW c \in allocated
        PROVE  mem'[c.at] = mem[c.at] \/ mem'[c.at] % CanaryMod # canary(c.at)
    BY <1>1, <1>2, <1>3, UsedWords DEF HeapInv, TypeOK
  <2> QED BY <2>1, <2>2 DEF HeapInv, BlockInHeap, HeaderOf, End
<1> QED BY <1>1, <1>2, <1>4, WrittenInv DEF Overrun

-----------------------------------------------------------------------------
(* The invariant. *)

LEMMA InitInv ==
  ASSUME RequestsFit, Init
  PROVE  IInv
<1>1. PICK x \in Data : mem = [w \in Words |-> IF w = Low THEN High - Low
                                               ELSE IF w = NextField(Low) THEN NULL ELSE x]
  BY DEF Init
<1>2. x \in 0 .. WordMod - 1
  BY HeapAssumption
<1>3. Low \in Granules /\ Low \in Words /\ NextField(Low) \in Words /\ NextField(Low) # Low
  BY HeapBounds, GranuleFacts, FieldsApart
<1>4. mem[Low] = High - Low /\ mem[NextField(Low)] = NULL
  BY <1>1, <1>3
<1>5. mem \in [Words -> 0 .. WordMod - 1]
  <2>1. High - Low \in 0 .. WordMod - 1 /\ NULL \in 0 .. WordMod - 1
    BY HeapBounds DEF NULL
  <2> QED BY <1>1, <1>2, <2>1
<1>6. \A a : ~Used(a)
  BY DEF Init, Used
<1>7. Gaps = {Low}
  BY <1>3, <1>6, GapIs
<1>8. FirstGapFrom(Low, first_block) /\ FirstGapFrom(Low + 1, mem[NextField(Low)])
  BY <1>4, <1>7, HeapBounds DEF Init, FirstGapFrom, NULL
<1>9. GapEndsAt(Low, Low + mem[Low])
  <2>1. Low + mem[Low] = High
    BY <1>4, HeapBounds
  <2> QED BY <1>6, <2>1 DEF GapEndsAt
<1>10. ListIsGaps
  BY <1>7, <1>8, <1>9 DEF ListIsGaps
<1>11. TypeOK
  BY <1>3, <1>5 DEF Init, TypeOK, NULL
<1>12. Walk
  BY DEF Init, Walk, None
<1> QED BY <1>10, <1>11, <1>12 DEF Init, IInv, HeapInv, BlocksApart

\* The inductive invariant, of every heap.
THEOREM Invariance == ASSUME RequestsFit, OverrunsCaught PROVE Spec => []IInv
<1>1. Init => IInv
  BY InitInv
<1>2. IInv /\ [Next]_vars => IInv'
  <2> SUFFICES ASSUME HeapInv, Walk, [Next]_vars PROVE IInv'
    BY DEF IInv
  <2>1. ASSUME NEW request \in Requests, Malloc(request) PROVE IInv'
    BY <2>1, MallocInv
  <2>2. ASSUME NEW b \in allocated, Free(b) PROVE IInv'
    BY <2>2, FreeInv
  <2>3. CASE Write
    BY <2>3, WriteInv
  <2>4. CASE Overrun
    BY <2>4, OverrunInv
  <2>5. CASE Step
    BY <2>5, ReturnInv, WalkInv, HandedInv, InsertInv DEF Step
  <2>6. CASE UNCHANGED vars
    <3>1. TypeOK'
      BY <2>6 DEF vars, list, HeapInv, TypeOK
    <3>2. HeapInv'
      BY <2>6, <3>1, HeapKept DEF vars, list
    <3>3. Walk'
      BY <2>6, SameGaps DEF vars, list, Walk, OnList, Requested, block_ptr
    <3> QED BY <3>2, <3>3 DEF IInv
  <2> QED BY <2>1, <2>2, <2>3, <2>4, <2>5, <2>6 DEF Next
<1> QED BY <1>1, <1>2, PTL DEF Spec

\* The types hold.
THEOREM TypeCorrect == ASSUME RequestsFit, OverrunsCaught PROVE Spec => []TypeOK
<1>1. IInv => TypeOK
  BY DEF IInv, HeapInv
<1> QED BY <1>1, Invariance, PTL

\* The list is the gaps between the allocated blocks, in order and merged,
\* whatever is split, freed and written (allocate_memory, free_memory).
THEOREM ListCorrect == ASSUME RequestsFit, OverrunsCaught PROVE Spec => []ListIsGaps
<1>1. IInv => ListIsGaps
  BY DEF IInv, HeapInv
<1> QED BY <1>1, Invariance, PTL

\* What the caller may use of its blocks is in the heap and disjoint.
THEOREM DataCorrect == ASSUME RequestsFit, OverrunsCaught PROVE Spec => []DataDisjoint
<1>1. IInv => DataDisjoint
  <2> SUFFICES ASSUME HeapInv PROVE DataDisjoint
    BY DEF IInv
  <2>1. \A b \in allocated : /\ b.at \in Nat /\ Low <= b.at /\ b.request \in Nat
                             /\ End(b) \in Nat /\ End(b) <= High
                             /\ b.at + 4 + b.request <= End(b)
    BY BlockFacts, BlockSizeFacts, GranuleFacts
  <2>2. \A b, other \in allocated : b # other => End(b) <= other.at \/ End(other) <= b.at
    BY DEF HeapInv, BlocksApart
  <2>3. ASSUME NEW b \in allocated, NEW other \in allocated
        PROVE  /\ Low < b.at + 4 /\ b.at + 4 + b.request <= High
               /\ other # b => b.at + 4 + b.request <= other.at \/ End(other) <= b.at
    BY <2>1, <2>2, HeapBounds
  <2> QED BY <2>3 DEF DataDisjoint, WordBytes
<1> QED BY <1>1, Invariance, PTL

\* No call of the allocator changes a word of the caller's in a block it keeps.
THEOREM UserDataCorrect == ASSUME RequestsFit, OverrunsCaught PROVE Spec => UserDataKept
<1> DEFINE Kept == call # None \/ call' # None =>
                     \A b \in allocated \cap allocated' : \A w \in DataWords(b) : mem'[w] = mem[w]
<1>1. IInv /\ [Next]_vars => [Kept]_vars
  <2> SUFFICES ASSUME HeapInv, Walk, Next, call # None \/ call' # None,
                      NEW b \in allocated, b \in allocated', NEW w \in DataWords(b)
               PROVE  mem'[w] = mem[w]
    BY DEF IInv
  <2>1. ~Write /\ ~Overrun
    BY DEF Write, Overrun
  <2>2. w \in Words /\ Used(w)
    BY UsedWords
  <2>3. CASE TakeWhole \/ Split
    BY <2>2, <2>3, HandedKeeps
  <2>4. CASE Insert
    <3>1. Used(w)'
      <4>1. b.at + 4 <= w /\ w <= b.at + b.request
        BY DEF DataWords, WordBytes
      <4>2. b.at <= w /\ w < End(b)
        BY <2>2, <4>1, BlockFacts, BlockSizeFacts, GranuleFacts
      <4> QED BY <4>2 DEF Used, End
    <3> QED BY <2>2, <2>4, <3>1, InsertKeeps
  <2>5. CASE \/ \E request \in Requests : Malloc(request)
             \/ \E c \in allocated : Free(c)
             \/ ReturnNull \/ Search \/ ReportOverflow \/ SeekPosition
    <3>1. mem' = mem
      BY <2>5 DEF Malloc, Free, ReturnNull, Search, ReportOverflow, SeekPosition, list
    <3> QED BY <3>1
  <2> QED BY <2>1, <2>3, <2>4, <2>5 DEF Next, Step
<1> QED BY <1>1, Invariance, PTL DEF Spec, UserDataKept

-----------------------------------------------------------------------------
(* The allocator implements the abstract one. *)

Damaged == {b \in allocated : mem[b.at] # HeaderOf(b)}

\* Where a block of some size fits there is a gap of that size.
LEMMA PlaceInGap ==
  ASSUME RequestsFit, HeapInv, NEW size \in Nat, 8 <= size,
         NEW a \in AbstractHeap!Places(size)
  PROVE  \E g \in Gaps : g <= a /\ size <= mem[g]
<1>1. /\ a \in Granules /\ a \in Nat /\ a + size <= High
      /\ \A b \in allocated : a + size <= b.at \/ End(b) <= a
  <2>1. \A b \in allocated : AbstractHeap!End(b) = End(b)
    <3> TAKE b \in allocated
    <3>1. b.request \in Requests
      BY DEF HeapInv, TypeOK
    <3> QED BY <3>1 DEF AbstractHeap!End, End
  <2>2. /\ a \in Low .. High - 1 /\ a % 8 = 0 /\ a + size <= High
        /\ \A b \in allocated : a + size <= b.at \/ AbstractHeap!End(b) <= a
    BY DEF AbstractHeap!Places, AbstractHeap!Fits, MIN_BLOCK_SIZE
  <2>3. a \in Nat /\ Low <= a /\ a < High
    BY <2>2, HeapBounds
  <2> QED BY <2>1, <2>2, <2>3, GranuleFacts
<1>2. \A b \in allocated : b.at \in Nat /\ End(b) \in Nat /\ b.at + 8 <= End(b)
  BY BlockFacts, GranuleFacts
<1>3. ~Used(a)
  BY <1>1, <1>2 DEF Used
<1>4. PICK g \in Gaps : g <= a /\ a < g + mem[g]
  BY <1>1, <1>3, GapAround
<1>5. g \in Nat /\ mem[g] \in Nat
  BY GapFacts, GranuleFacts
<1>6. a + size <= g + mem[g]
  <2>1. CASE g + mem[g] = High
    BY <1>1, <2>1
  <2>2. CASE g + mem[g] # High
    <3>1. PICK b \in allocated : b.at = g + mem[g]
      BY <2>2, GapSpan
    <3> QED BY <1>1, <1>2, <1>4, <1>5, <3>1
  <2> QED BY <2>1, <2>2
<1> QED BY <1>1, <1>4, <1>5, <1>6

LEMMA DamagedFacts ==
  ASSUME RequestsFit, HeapInv, NEW b \in allocated
  PROVE  b \notin Damaged <=> mem[b.at] % CanaryMod = canary(b.at)
<1>1. BlockSize(b.request) \in Nat /\ BlockSize(b.request) < MaxBlock /\ b.at \in Nat
  BY BlockFacts, BlockSizeFacts, GranuleFacts DEF HeapInv, BlockInHeap
<1>2. HeaderOf(b) % CanaryMod = canary(b.at)
  BY <1>1, Decode DEF HeaderOf
<1>3. mem[b.at] = HeaderOf(b) \/ mem[b.at] % CanaryMod # canary(b.at)
  BY DEF HeapInv, BlockInHeap
<1> QED BY <1>2, <1>3 DEF Damaged

LEMMA SameDamage ==
  ASSUME allocated' = allocated, \A b \in allocated : mem'[b.at] = mem[b.at]
  PROVE  Damaged' = Damaged
  BY DEF Damaged, HeaderOf

LEMMA AbstractNext ==
  AbstractHeap!Next <=>
    \/ \E request \in Requests : AbstractHeap!Malloc(request)
    \/ \E b \in allocated : AbstractHeap!Free(b)
    \/ AbstractHeap!Damage \/ AbstractHeap!Answer \/ AbstractHeap!Release
  BY DEF AbstractHeap!Next, AbstractHeap!Return

LEMMA DamagedIs ==
  /\ Damaged = {b \in allocated : mem[b.at] # canary_encode(b.at, BlockSize(b.request))}
  /\ Damaged' = {b \in allocated' : mem'[b.at] # canary_encode(b.at, BlockSize(b.request))}
  BY DEF Damaged, HeaderOf

\* A hand-out is the abstract answer: the lowest place with enough room.
LEMMA HandedAnswers ==
  ASSUME RequestsFit, HeapInv, Walk, TakeWhole \/ Split
  PROVE  AbstractHeap!Answer
<1>1. /\ Found
      /\ allocated' = allocated \cup {[at |-> curr, request |-> call.request]}
      /\ call' = None /\ result' = curr + WordBytes
  BY DEF TakeWhole, Split, Handed, Return
<1>2. /\ curr \in Gaps /\ curr \in Granules /\ call.request \in Requests
      /\ Requested \in Nat /\ 8 <= Requested /\ Requested < MaxBlock
      /\ Requested <= mem[curr] /\ mem[curr] \in Nat
  BY <1>1, FoundFacts
<1>3. PICK nb : nb = [at |-> curr, request |-> call.request]
  OBVIOUS
<1>4. Damaged' = Damaged
  <2>1. /\ mem'[nb.at] = HeaderOf(nb)
        /\ \A b \in allocated : mem'[b.at] = mem[b.at]
    BY <1>3, HandedKeeps, UsedWords DEF HeaderOf, Requested
  <2> QED BY <1>1, <1>3, <2>1 DEF Damaged, HeaderOf
<1>5. curr \in AbstractHeap!Places(Requested)
  <2>1. \A b \in allocated : AbstractHeap!End(b) = End(b)
    <3> TAKE b \in allocated
    <3>1. b.request \in Requests
      BY DEF HeapInv, TypeOK
    <3> QED BY <3>1 DEF AbstractHeap!End, End
  <2>2. ASSUME NEW b \in allocated PROVE curr + Requested <= b.at \/ End(b) <= curr
    <3>1. End(b) <= curr \/ curr + mem[curr] <= b.at
      BY <1>2, BlockBesideGap
    <3>2. b.at \in Nat /\ curr \in Nat
      BY <1>2, BlockFacts, GranuleFacts
    <3> QED BY <1>2, <3>1, <3>2
  <2>3. curr \in Low .. High - 1 /\ curr % 8 = 0 /\ curr + Requested <= High
    BY <1>2, GapSpan, GranuleFacts, HeapBounds
  <2> QED BY <2>1, <2>2, <2>3 DEF AbstractHeap!Places, AbstractHeap!Fits, MIN_BLOCK_SIZE
<1>6. ASSUME NEW a \in AbstractHeap!Places(Requested) PROVE curr <= a
  <2>1. PICK g \in Gaps : g <= a /\ Requested <= mem[g]
    BY <1>2, PlaceInGap
  <2>2. a \in Nat /\ curr \in Nat /\ g \in Nat /\ mem[g] \in Nat
    BY <1>2, GapFacts, GranuleFacts, HeapBounds DEF AbstractHeap!Places
  <2>3. g < curr => mem[g] < Requested
    BY <1>1 DEF Walk, Found
  <2> QED BY <1>2, <2>1, <2>2, <2>3
<1>7. [r \in Requests |-> BlockSize(r)][call.request] = Requested
  BY <1>2 DEF Requested
<1> QED BY <1>1, <1>2, <1>4, <1>5, <1>6, <1>7, DamagedIs
        DEF AbstractHeap!Answer, AbstractHeap!None, None, Found

\* NULL is the answer only when no place has enough room.
LEMMA NullAnswers ==
  ASSUME RequestsFit, HeapInv, Walk, ReturnNull
  PROVE  AbstractHeap!Answer
<1>1. /\ call.op = "malloc" /\ (TooLarge \/ curr = NULL)
      /\ call' = None /\ result' = NULL /\ UNCHANGED <<mem, allocated>>
  BY DEF ReturnNull, Return, list
<1>2. call.request \in Requests
  BY <1>1 DEF HeapInv, TypeOK, None
<1>3. Requested \in Nat /\ 8 <= Requested
  BY <1>2, BlockSizeFacts DEF Requested
<1>4. TooLarge \/ AbstractHeap!Places(Requested) = {}
  <2>1. SUFFICES ASSUME curr = NULL, NEW a \in AbstractHeap!Places(Requested) PROVE FALSE
    BY <1>1
  <2>2. PICK g \in Gaps : Requested <= mem[g]
    BY <1>3, PlaceInGap
  <2>3. mem[g] < Requested /\ mem[g] \in Nat
    BY <1>1, <2>1, GapFacts DEF Walk
  <2> QED BY <1>3, <2>2, <2>3
<1>5. [r \in Requests |-> BlockSize(r)][call.request] = Requested
  BY <1>2 DEF Requested
<1>6. Damaged' = Damaged
  BY <1>1, SameDamage
<1> QED BY <1>1, <1>4, <1>5, <1>6, DamagedIs
        DEF AbstractHeap!Answer, AbstractHeap!None, None, TooLarge

\* A free releases its block unless an overrun has reached the header.
LEMMA FreeReleases ==
  ASSUME RequestsFit, HeapInv, Walk, Insert \/ ReportOverflow
  PROVE  AbstractHeap!Release
<1>1. /\ call.op = "free" /\ call' = None /\ result' = result
      /\ Freed \in allocated /\ block_ptr = Freed.at
  <2>1. call.op = "free"
    BY DEF Insert, ReportOverflow
  <2> QED BY <2>1 DEF Insert, ReportOverflow, Return, HeapInv, TypeOK, None, Freed, block_ptr
<1>2. CanaryMatches <=> Freed \notin Damaged
  BY <1>1, DamagedFacts DEF CanaryMatches
<1>3. CASE Insert
  <2>1. allocated' = allocated \ {Freed} /\ Freed \notin Damaged
    BY <1>2, <1>3 DEF Insert, Freed
  <2>2. ASSUME NEW b \in allocated' PROVE mem'[b.at] = mem[b.at]
    <3>1. b \in allocated /\ b.at \in Words /\ Used(b.at)'
      BY <2>1, BlockFacts, GranuleFacts DEF Used, End
    <3> QED BY <1>3, <3>1, InsertKeeps
  <2>3. Damaged' = Damaged
    BY <2>1, <2>2 DEF Damaged, HeaderOf
  <2> QED BY <1>1, <2>1, <2>3, DamagedIs
          DEF AbstractHeap!Release, AbstractHeap!None, None, Freed
<1>4. CASE ReportOverflow
  <2>1. UNCHANGED <<mem, allocated>> /\ Freed \in Damaged
    BY <1>1, <1>2, <1>4 DEF ReportOverflow, list
  <2>2. Damaged' = Damaged
    BY <2>1, SameDamage
  <2> QED BY <1>1, <2>1, <2>2, DamagedIs
          DEF AbstractHeap!Release, AbstractHeap!None, None, Freed
<1> QED BY <1>3, <1>4

LEMMA OverrunDamages ==
  ASSUME RequestsFit, OverrunsCaught, HeapInv, Overrun
  PROVE  AbstractHeap!Damage
<1>1. PICK b \in allocated, other \in allocated, v \in Overruns :
        mem' = [mem EXCEPT ![other.at] = v]
  BY DEF Overrun
<1>2. UNCHANGED <<call, allocated, result>> /\ call = None
  BY DEF Overrun
<1>3. \A c \in allocated : /\ c.at \in Words /\ c.at \in Nat /\ End(c) \in Nat
                           /\ c.at + 8 <= End(c) /\ c.at % 8 = 0
  BY BlockFacts, GranuleFacts
<1>4. \A c \in allocated : c # other => c.at # other.at
  <2> SUFFICES ASSUME NEW c \in allocated, c # other PROVE c.at # other.at
    OBVIOUS
  <2>1. End(c) <= other.at \/ End(other) <= c.at
    BY DEF HeapInv, BlocksApart
  <2> QED BY <1>3, <2>1
<1>5. mem'[other.at] = v /\ \A c \in allocated : c # other => mem'[c.at] = mem[c.at]
  BY <1>1, <1>3, <1>4 DEF HeapInv, TypeOK
<1>6. v # HeaderOf(other)
  <2>1. v % CanaryMod # canary(other.at)
    BY <1>3 DEF OverrunsCaught, MIN_BLOCK_SIZE
  <2>2. HeaderOf(other) % CanaryMod = canary(other.at)
    BY <1>3, Decode, BlockSizeFacts, BlockFacts DEF HeapInv, BlockInHeap, HeaderOf
  <2> QED BY <2>1, <2>2
<1>7. Damaged' = Damaged \cup {other}
  BY <1>2, <1>5, <1>6 DEF Damaged, HeaderOf
<1> QED BY <1>2, <1>7, DamagedIs DEF AbstractHeap!Damage, AbstractHeap!None, None

AbstractStep == [AbstractHeap!Next]_(AbstractHeap!vars)

LEMMA StutterIs ==
  ASSUME UNCHANGED <<call, allocated, result>>, Damaged' = Damaged
  PROVE  AbstractStep
  BY DamagedIs DEF AbstractStep, AbstractHeap!vars

\* The free list implements the allocator that a caller is promised: a block it
\* hands out is the lowest place with room, NULL means that there is none, and a
\* damaged block is never released.  Liveness apart.
THEOREM HeapRefinement ==
  ASSUME RequestsFit, OverrunsCaught PROVE Spec => AbstractHeap!SafeSpec
<1>1. Init => AbstractHeap!Init
  BY DEF Init, AbstractHeap!Init, AbstractHeap!None, None
<1>2. IInv /\ [Next]_vars => AbstractStep
  <2> SUFFICES ASSUME HeapInv, Walk, [Next]_vars PROVE AbstractStep
    BY DEF IInv
  <2>1. ASSUME NEW request \in Requests, Malloc(request) PROVE AbstractStep
    <3>1. Damaged' = Damaged
      BY <2>1, SameDamage DEF Malloc, list
    <3>2. AbstractHeap!Malloc(request)
      BY <2>1, <3>1, DamagedIs DEF Malloc, AbstractHeap!Malloc, AbstractHeap!None, None
    <3> QED BY <3>2, AbstractNext DEF AbstractStep
  <2>2. ASSUME NEW b \in allocated, Free(b) PROVE AbstractStep
    <3>1. Damaged' = Damaged
      BY <2>2, SameDamage DEF Free, list
    <3>2. AbstractHeap!Free(b)
      BY <2>2, <3>1, DamagedIs DEF Free, AbstractHeap!Free, AbstractHeap!None, None
    <3> QED BY <3>2, AbstractNext DEF AbstractStep
  <2>3. CASE Write
    <3>1. Damaged' = Damaged
      <4>1. PICK b \in allocated, v \in Data : \E w \in DataWords(b) : mem' = [mem EXCEPT ![w] = v]
        BY <2>3 DEF Write
      <4>2. PICK w \in DataWords(b) : mem' = [mem EXCEPT ![w] = v]
        BY <4>1
      <4>3. \A c \in allocated : c.at # w
        BY DataNoHeader
      <4>4. \A c \in allocated : mem'[c.at] = mem[c.at]
        BY <4>2, <4>3, UsedWords DEF HeapInv, TypeOK
      <4> QED BY <2>3, <4>4, SameDamage DEF Write
    <3> QED BY <2>3, <3>1, StutterIs DEF Write
  <2>4. CASE Overrun
    BY <2>4, OverrunDamages, AbstractNext DEF AbstractStep
  <2>5. CASE ReturnNull \/ TakeWhole \/ Split \/ ReportOverflow \/ Insert
    BY <2>5, NullAnswers, HandedAnswers, FreeReleases, AbstractNext DEF AbstractStep
  <2>6. CASE Search \/ SeekPosition \/ UNCHANGED vars
    <3>1. UNCHANGED <<mem, call, allocated, result>>
      BY <2>6 DEF Search, SeekPosition, list, vars
    <3>2. Damaged' = Damaged
      BY <3>1, SameDamage
    <3> QED BY <3>1, <3>2, StutterIs
  <2> QED BY <2>1, <2>2, <2>3, <2>4, <2>5, <2>6 DEF Next, Step
<1> QED BY <1>1, <1>2, Invariance, PTL DEF Spec, AbstractStep, AbstractHeap!SafeSpec
=============================================================================
